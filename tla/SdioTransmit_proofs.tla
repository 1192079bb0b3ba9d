------------------------- MODULE SdioTransmit_proofs --------------------------
(***************************************************************************)
(* Proofs about SdioTransmit, for every size of the buffer, of a block and *)
(* of a write, and any number of failures of the driver: the buffer always *)
(* has space for the padding, one block is lent at a time, and the host    *)
(* gets the bytes that were written.                                       *)
(***************************************************************************)
EXTENDS SdioTransmit, SequenceTheorems, TLAPS

-------------------------------------------------------------------------------
(* The inductive invariant *)

\* The tail is on a word boundary, and what is lent are whole words in one piece.
RingInv(b) ==
    /\ b \in Buffers
    /\ b.full = TRUE => b.head = b.tail
    /\ b.tail % 4 = 0
    /\ b.tailPending % 4 = 0
    /\ b.tail + b.tailPending =< Size
    /\ b.tailPending =< DataSize(b)

\* Each thread that still runs is counted in exit_.
ExitInv ==
    /\ closing = TRUE =>
         /\ task # "idle"
         /\ exit = (IF tx = "gone" THEN 0 ELSE 1) + (IF rxRuns = TRUE THEN 1 ELSE 0)
    /\ closing = FALSE => exit = 0 /\ rxRuns = TRUE /\ tx \notin {"exit", "leave", "gone"}

\* The TX thread has reset the buffer.
Left == tx \in {"leave", "gone"}

\* The block that is lent is the first in the buffer.
LoanInv ==
    /\ OneBlockLent
    /\ Len(queued) =< 1
    /\ queued # <<>> =>
         /\ ~Left => Head(queued).from = rb.tail
         /\ Head(queued).from + Head(queued).len =< Size
         /\ Head(queued).len =< Head(queued).consume
    /\ Left => rb.head = rb.tail /\ rb.full = FALSE /\ rb.tailPending = 0 /\ transmitting = FALSE

\* How many bytes the host has read or may read at any time.
Given(q, r) == Len(r) + (IF q = <<>> THEN 0 ELSE Head(q).len)

\* None of the w bytes that were written is lost behind the first g bytes.
Counted(b, w, g) == w =< g + (DataSize(b) - b.tailPending)

\* Buffer b holds, after the block that is lent, what has been written since the
\* first g bytes, and w bytes were written in all.
Unsent(b, w, g) ==
    /\ w = g + DataSize(b) - b.tailPending
    /\ \A i \in 0 .. DataSize(b) - b.tailPending - 1 :
           b.cell[Wrap(b.tail + (b.tailPending + i))] = g + i + 1

\* The block that is queued holds the bytes that the host needs next.
Intact(b, q, r) ==
    q # <<>> =>
        \A i \in 0 .. Head(q).len - 1 : b.cell[Wrap(Head(q).from + i)] = Len(r) + i + 1

DataInv ==
    failures = 0 =>
        /\ ReceivesWritten
        /\ Intact(rb, queued, received)
        /\ ~Left => Unsent(rb, written, Given(queued, received))

CountInv == ~Left => Counted(rb, written, Given(queued, received))

\* waitWriteComplete() waits for what has been written.
WaitInv == waitFrom =< written

IInv == TypeOK /\ RingInv(rb) /\ ExitInv /\ LoanInv /\ DataInv /\ CountInv /\ WaitInv

-------------------------------------------------------------------------------
(* Facts about the buffer *)

\* Multiples and remainders.
LEMMA DivFacts ==
    /\ \A n, d \in Nat : d # 0 /\ n % d = 0 => n = d * (n \div d) /\ n \div d \in Int
    /\ \A n \in Int : (4 * n) % 4 = 0
    /\ \A n, d \in Nat : d # 0 /\ n # 0 /\ n % d = 0 => d =< n
OBVIOUS

\* A block and the buffer are whole words.
LEMMA WholeWords ==
    /\ Size \in Nat \ {0} /\ Block \in Nat \ {0} /\ Block =< Size
    /\ Block % 4 = 0 /\ Size % 4 = 0
<1>1. /\ Size \in Nat /\ Size # 0 /\ Block \in Nat /\ Block # 0
      /\ Block % 4 = 0 /\ Size % Block = 0
  BY RingAssumption, TransmitAssumption
<1>2. PICK q \in Int : Size = Block * q
  BY <1>1, DivFacts
<1>3. PICK w \in Int : Block = 4 * w
  BY <1>1, DivFacts
<1>4. Size = 4 * (w * q) /\ w * q \in Int
  BY <1>2, <1>3
<1>5. Size % 4 = 0 /\ Block =< Size
  BY <1>1, <1>4, DivFacts
<1> QED
  BY <1>1, <1>5

\* Where the bytes of a buffer lie.
LEMMA RingFacts ==
    ASSUME NEW b, RingInv(b)
    PROVE  /\ b.head \in Index /\ b.tail \in Index /\ b.tailPending \in 0 .. Size
           /\ b.full \in BOOLEAN /\ b.cell \in [Index -> Byte]
           /\ DataSize(b) \in 0 .. Size /\ Space(b) \in 0 .. Size
           /\ Space(b) = Size - DataSize(b) /\ Size \in Nat
           /\ DataSize(b) = 0 <=> Empty(b)
<1>1. b.head \in Index /\ b.tail \in Index /\ b.tailPending \in 0 .. Size
      /\ b.full \in BOOLEAN /\ b.cell \in [Index -> Byte]
  BY DEF RingInv, Buffers
<1>2. b.full = TRUE \/ b.full = FALSE
  BY <1>1
<1>3. CASE b.full = TRUE
  <2>1. b.head = b.tail
    BY <1>3 DEF RingInv
  <2>2. /\ b.head \in Nat /\ b.tail \in Nat /\ Size \in Nat /\ Size # 0
    BY <1>1, RingAssumption DEF Index
  <2>3. DataSize(b) = Size + b.head - b.tail /\ ~Empty(b)
    BY <1>3 DEF DataSize, Empty
  <2>4. DataSize(b) = Size
    BY <2>1, <2>2, <2>3
  <2>5. Space(b) = Size - DataSize(b) /\ Space(b) = 0
    BY <2>2, <2>4 DEF Space
  <2> QED
    BY <1>1, <2>1, <2>2, <2>3, <2>4, <2>5
<1>4. CASE b.full = FALSE
  <2>1. /\ b.head \in Nat /\ b.tail \in Nat /\ b.head < Size /\ b.tail < Size
        /\ Size \in Nat
    BY <1>1, RingAssumption DEF Index
  <2>2. DataSize(b) = IF b.head >= b.tail THEN b.head - b.tail ELSE Size + b.head - b.tail
    BY <1>4 DEF DataSize
  <2>3. Space(b) = Size - DataSize(b) /\ (Empty(b) <=> b.head = b.tail)
    BY <1>4 DEF Space, Empty
  <2>4. /\ DataSize(b) \in 0 .. Size
        /\ DataSize(b) = 0 <=> b.head = b.tail
    BY <2>1, <2>2
  <2>5. Space(b) \in 0 .. Size
    BY <2>1, <2>3, <2>4
  <2> QED
    BY <1>1, <2>1, <2>3, <2>4, <2>5
<1> QED
  BY <1>1, <1>2, <1>3, <1>4

\* An index lies behind another by some number of cells.
LEMMA BehindNat == \A p, i \in Index : Behind(p, i) \in Nat
BY RingAssumption DEF Behind, Index

\* Where index Wrap(tail + i) is, seen from the head.
LEMMA IndexFacts ==
    ASSUME NEW b, RingInv(b)
    PROVE  /\ \A i \in 0 .. DataSize(b) - 1 :
                 /\ Wrap(b.tail + i) \in Index
                 /\ Behind(b.head, Wrap(b.tail + i)) = Space(b) + i
           /\ \A i \in 0 .. Space(b) - 1 :
                 /\ Wrap(b.tail + (DataSize(b) + i)) \in Index
                 /\ Behind(b.head, Wrap(b.tail + (DataSize(b) + i))) = i
<1>1. b.head \in Index /\ b.tail \in Index /\ (b.full = TRUE \/ b.full = FALSE)
  BY RingFacts
<1>2. CASE b.full = TRUE
  BY <1>1, <1>2, RingAssumption DEF RingInv, DataSize, Space, Wrap, Behind, Index
<1>3. CASE b.full = FALSE
  BY <1>1, <1>3, RingAssumption DEF DataSize, Space, Wrap, Behind, Index
<1> QED
  BY <1>1, <1>2, <1>3

\* How much lies between tail and head when the head has moved over n bytes.
LEMMA HeadMoves ==
    \A head, tail \in Index, n \in 1 .. Size :
        /\ Wrap(head + n) \in Index
        /\ head >= tail /\ n =< Size - (head - tail) =>
             /\ Wrap(head + n) = tail <=> n = Size - (head - tail)
             /\ Wrap(head + n) > tail => Wrap(head + n) - tail = head - tail + n
             /\ Wrap(head + n) < tail => Size + Wrap(head + n) - tail = head - tail + n
        /\ head < tail /\ n =< tail - head =>
             /\ Wrap(head + n) = head + n
             /\ Wrap(head + n) = tail <=> n = tail - head
BY RingAssumption DEF Wrap, Index

\* Moving the head over n bytes makes them part of the buffer, and only them.
LEMMA SkipRing ==
    ASSUME NEW b, RingInv(b), NEW n \in 1 .. Space(b)
    PROVE  /\ RingInv(Skip(b, n))
           /\ Skip(b, n).tail = b.tail /\ Skip(b, n).tailPending = b.tailPending
           /\ Skip(b, n).cell = b.cell
           /\ DataSize(Skip(b, n)) = DataSize(b) + n
<1> DEFINE s == Skip(b, n)
<1>1. /\ b \in Buffers /\ b.head \in Index /\ b.tail \in Index
      /\ b.full = TRUE \/ b.full = FALSE
      /\ Space(b) = Size - DataSize(b) /\ DataSize(b) \in 0 .. Size /\ Size \in Nat
  BY RingFacts DEF RingInv
<1>2. Wrap(b.head + n) \in Index
  BY <1>1, RingAssumption DEF Wrap, Index
<1>3. /\ s \in Buffers
      /\ s.head = Wrap(b.head + n) /\ s.full = (Wrap(b.head + n) = b.tail)
      /\ s.tail = b.tail /\ s.tailPending = b.tailPending /\ s.cell = b.cell
  BY <1>1, <1>2 DEF Skip, Buffers
<1>4. DataSize(s) = DataSize(b) + n
  <2>1. b.full = FALSE
    BY <1>1 DEF RingInv, DataSize, Index
  <2>2. n \in 1 .. Size /\ n =< Size - DataSize(b) /\ Size \in Nat
    BY <1>1, RingFacts
  <2>3. /\ s.head = b.tail => s.full = TRUE
        /\ s.head # b.tail => s.full = FALSE
    BY <1>3
  <2>4. s.head \in Index /\ s.tail = b.tail /\ s.head = Wrap(b.head + n)
    BY <1>2, <1>3
  <2>5. DataSize(b) = IF b.head >= b.tail THEN b.head - b.tail ELSE Size + b.head - b.tail
    BY <2>1 DEF DataSize
  <2> HIDE DEF s
  <2>6. DataSize(s) = IF s.head > b.tail THEN s.head - b.tail ELSE Size + s.head - b.tail
    BY <1>1, <2>3, <2>4 DEF DataSize, Index
  <2>7. /\ b.head >= b.tail /\ n =< Size - (b.head - b.tail) =>
               /\ s.head = b.tail <=> n = Size - (b.head - b.tail)
               /\ s.head > b.tail => s.head - b.tail = b.head - b.tail + n
               /\ s.head < b.tail => Size + s.head - b.tail = b.head - b.tail + n
        /\ b.head < b.tail /\ n =< b.tail - b.head =>
               /\ s.head = b.head + n
               /\ s.head = b.tail <=> n = b.tail - b.head
    BY <1>1, <2>2, <2>4, HeadMoves
  <2>8. b.head \in Nat /\ b.tail \in Nat /\ s.head \in Nat
    BY <1>1, <2>4 DEF Index
  <2> QED
    BY <2>2, <2>5, <2>6, <2>7, <2>8
<1>5. RingInv(s)
  <2>1. s.full = TRUE => s.head = s.tail
    BY <1>3
  <2>2. b.tailPending \in Nat /\ n \in Nat
    BY RingFacts
  <2>4. b.tailPending =< DataSize(b)
    BY DEF RingInv
  <2> HIDE DEF s
  <2>3. s.tailPending =< DataSize(s)
    BY <1>1, <1>3, <1>4, <2>2, <2>4
  <2> QED
    BY <1>3, <2>1, <2>3 DEF RingInv
<1> QED
  BY <1>3, <1>4, <1>5

\* put() leaves what is in the buffer and adds v to it.
LEMMA PutRing ==
    ASSUME NEW b, RingInv(b), NEW v \in Seq(Byte), Len(v) \in 1 .. Space(b)
    PROVE  /\ RingInv(Put(b, v))
           /\ Put(b, v).tail = b.tail /\ Put(b, v).tailPending = b.tailPending
           /\ DataSize(Put(b, v)) = DataSize(b) + Len(v)
           /\ \A i \in 0 .. DataSize(b) - 1 :
                  Put(b, v).cell[Wrap(b.tail + i)] = b.cell[Wrap(b.tail + i)]
           /\ \A i \in 0 .. Len(v) - 1 :
                  Put(b, v).cell[Wrap(b.tail + (DataSize(b) + i))] = v[i + 1]
<1> DEFINE s == Skip(b, Len(v))
           c == [i \in Index |-> IF Behind(b.head, i) < Len(v)
                                 THEN v[Behind(b.head, i) + 1] ELSE b.cell[i]]
<1>1. /\ RingInv(s) /\ s.tail = b.tail /\ s.tailPending = b.tailPending
      /\ DataSize(s) = DataSize(b) + Len(v)
  BY SkipRing
<1>2. /\ b.head \in Index /\ b.cell \in [Index -> Byte]
      /\ Space(b) = Size - DataSize(b) /\ DataSize(b) \in 0 .. Size /\ Size \in Nat
  BY RingFacts
<1>3. c \in [Index -> Byte]
  <2>1. \A i \in Index : Behind(b.head, i) \in Nat
    BY <1>2, BehindNat
  <2>2. \A k \in 0 .. Len(v) - 1 : v[k + 1] \in Byte
    BY ElementOfSeq
  <2>3. ASSUME NEW i \in Index
        PROVE  (IF Behind(b.head, i) < Len(v) THEN v[Behind(b.head, i) + 1] ELSE b.cell[i])
                   \in Byte
    BY <1>2, <2>1, <2>2
  <2> QED
    BY <2>3
<1>4. Put(b, v) = [s EXCEPT !.cell = c]
  BY DEF Put
<1> HIDE DEF s
<1>5. /\ Put(b, v) \in Buffers /\ Put(b, v).cell = c
      /\ Put(b, v).head = s.head /\ Put(b, v).tail = s.tail
      /\ Put(b, v).tailPending = s.tailPending /\ Put(b, v).full = s.full
  <2> HIDE DEF c
  <2> QED
    BY <1>1, <1>3, <1>4 DEF RingInv, Buffers
<1>6. DataSize(Put(b, v)) = DataSize(s)
  BY <1>5 DEF DataSize
<1>7. RingInv(Put(b, v))
  BY <1>1, <1>5, <1>6 DEF RingInv
<1>8. ASSUME NEW i \in 0 .. DataSize(b) - 1
      PROVE  c[Wrap(b.tail + i)] = b.cell[Wrap(b.tail + i)]
  <2>1. Wrap(b.tail + i) \in Index /\ Behind(b.head, Wrap(b.tail + i)) = Space(b) + i
    BY IndexFacts
  <2> QED
    BY <1>2, <2>1
<1>9. ASSUME NEW i \in 0 .. Len(v) - 1
      PROVE  c[Wrap(b.tail + (DataSize(b) + i))] = v[i + 1]
  <2>1. i \in 0 .. Space(b) - 1
    BY <1>2
  <2>2. /\ Wrap(b.tail + (DataSize(b) + i)) \in Index
        /\ Behind(b.head, Wrap(b.tail + (DataSize(b) + i))) = i
    BY <2>1, IndexFacts
  <2> QED
    BY <2>2
<1> HIDE DEF c
<1> QED
  BY <1>1, <1>5, <1>6, <1>7, <1>8, <1>9

\* Arithmetic of the padding.
LEMMA WordFacts ==
    /\ \A n \in Nat : n % 4 \in 0 .. 3
    /\ \A n \in Nat : n % 4 # 0 => (n + (4 - (n % 4))) % 4 = 0
    /\ \A m, n \in Nat : m % 4 = 0 /\ n % 4 = 0 => (m + n) % 4 = 0
    /\ \A m, n \in Nat : m % 4 = 0 /\ n % 4 = 0 /\ n =< m => (m - n) % 4 = 0
    /\ \A m, n \in Nat : m % 4 = 0 /\ n < m /\ n % 4 # 0 => n + (4 - (n % 4)) =< m
OBVIOUS

\* What is sent next, from a buffer of which nothing is lent: either whole words without
\* padding, or everything in the buffer with a padding that there is space for.
LEMMA SendableFacts ==
    ASSUME NEW b, RingInv(b), b.tailPending = 0, Sendable(b) # 0
    PROVE  /\ Sendable(b) \in 1 .. Block /\ Sendable(b) =< DataSize(b)
           /\ b.tail + Sendable(b) =< Size
           /\ Padding(b) \in 0 .. 3 /\ (Sendable(b) + Padding(b)) % 4 = 0
           /\ Sendable(b) + Padding(b) =< Block
           /\ Padding(b) # 0 =>
                /\ b.full = FALSE /\ b.head >= b.tail /\ Sendable(b) = DataSize(b)
                /\ b.tail + Sendable(b) + Padding(b) =< Size
                /\ Padding(b) =< Space(b)
<1>1. /\ b.head \in Nat /\ b.tail \in Nat /\ b.head < Size /\ b.tail < Size
      /\ b.full = TRUE \/ b.full = FALSE
      /\ DataSize(b) \in 0 .. Size /\ Space(b) = Size - DataSize(b) /\ Size \in Nat
  BY RingFacts DEF Index
<1>2. Size % 4 = 0 /\ Block % 4 = 0 /\ Block \in Nat \ {0}
  BY WholeWords
<1>3. b.tail % 4 = 0 /\ (b.full = TRUE => b.head = b.tail)
  BY DEF RingInv
<1>4. Wrap(b.tail + b.tailPending) = b.tail
  BY <1>1 DEF Wrap
<1>5. DataSize(b) = IF b.head >= b.tail /\ b.full = FALSE
                    THEN b.head - b.tail ELSE Size + b.head - b.tail
  BY <1>1 DEF DataSize
<1>6. Consumable(b) = IF b.head >= b.tail /\ b.full = FALSE
                      THEN b.head - b.tail ELSE Size - b.tail
  BY <1>1, <1>4 DEF Consumable
<1>7. Sendable(b) = IF Consumable(b) < Block THEN Consumable(b) ELSE Block
  BY DEF Sendable, Least
<1>8. /\ Consumable(b) \in Nat /\ Consumable(b) =< DataSize(b)
      /\ b.tail + Consumable(b) =< Size
  BY <1>1, <1>3, <1>5, <1>6
<1>9. /\ Sendable(b) \in 1 .. Block /\ Sendable(b) =< DataSize(b)
      /\ b.tail + Sendable(b) =< Size
  BY <1>1, <1>2, <1>7, <1>8
<1>10. CASE Sendable(b) % 4 = 0
  <2>1. Padding(b) = 0
    BY <1>10 DEF Padding, Word
  <2> QED
    BY <1>9, <1>10, <2>1
<1>11. CASE Sendable(b) % 4 # 0
  <2>1. Padding(b) = 4 - (Sendable(b) % 4) /\ Sendable(b) \in Nat
    BY <1>9, <1>11 DEF Padding, Word
  <2>2. Padding(b) \in 1 .. 3 /\ (Sendable(b) + Padding(b)) % 4 = 0
    BY <1>11, <2>1, WordFacts
  <2>3. Sendable(b) = Consumable(b) /\ Consumable(b) < Block
    BY <1>2, <1>7, <1>8, <1>11
  <2>4. (Size - b.tail) % 4 = 0
    BY <1>1, <1>2, <1>3, WordFacts
  <2>5. b.head >= b.tail /\ b.full = FALSE
    BY <1>6, <1>11, <2>3, <2>4
  <2>6. Sendable(b) = DataSize(b) /\ Sendable(b) = b.head - b.tail
    BY <1>5, <1>6, <2>3, <2>5
  <2>7. Sendable(b) + Padding(b) =< Block
    BY <1>2, <1>11, <2>1, <2>3, WordFacts
  <2>8. Sendable(b) + Padding(b) =< Size - b.tail
    BY <1>1, <1>11, <2>1, <2>4, <2>6, WordFacts
  <2> QED
    BY <1>1, <1>9, <2>2, <2>5, <2>6, <2>7, <2>8
<1> QED
  BY <1>10, <1>11

\* The buffer that startTransmission() lends a block of.
LEMMA PadRing ==
    ASSUME NEW b, RingInv(b), b.tailPending = 0, Sendable(b) # 0
    PROVE  /\ ~Refused(b)
           /\ RingInv(Padded(b)) /\ Padded(b).tailPending = 0
           /\ Padded(b).tail = b.tail /\ Padded(b).cell = b.cell
           /\ DataSize(Padded(b)) = DataSize(b) + Padding(b)
           /\ Lent(b) = Sendable(b) + Padding(b)
<1>1. /\ b.head \in Nat /\ b.tail \in Nat /\ b.head < Size /\ b.tail < Size
      /\ DataSize(b) \in 0 .. Size /\ Space(b) = Size - DataSize(b) /\ Size \in Nat
  BY RingFacts DEF Index
<1>2. /\ Sendable(b) \in 1 .. Block /\ Padding(b) \in 0 .. 3
      /\ (Sendable(b) + Padding(b)) % 4 = 0
  BY SendableFacts
<1>3. CASE Padding(b) = 0
  <2>1. Padded(b) = b /\ Lent(b) = Sendable(b)
    BY <1>3 DEF Padded, Lent
  <2>2. ~Refused(b)
    BY <1>2, <1>3, <2>1 DEF Refused, NoSpace, NotWhole, Word
  <2> QED
    BY <1>1, <1>2, <1>3, <2>1, <2>2
<1>4. CASE Padding(b) # 0
  <2> DEFINE s == Padded(b)
  <2>1. /\ b.full = FALSE /\ b.head >= b.tail /\ Sendable(b) = DataSize(b)
        /\ b.tail + Sendable(b) + Padding(b) =< Size
        /\ Padding(b) =< Space(b)
    BY ONLY RingInv(b), b.tailPending = 0, Sendable(b) # 0, <1>4, SendableFacts
  <2>2. /\ Padded(b) = Skip(b, Padding(b)) /\ Lent(b) = Consumable(Padded(b))
        /\ Padding(b) \in 1 .. Space(b)
    BY <1>1, <1>2, <1>4, <2>1 DEF Padded, Lent
  <2>3. /\ RingInv(s) /\ s.tail = b.tail /\ s.tailPending = 0
        /\ s.cell = b.cell /\ DataSize(s) = DataSize(b) + Padding(b)
    BY <2>1, <2>2, SkipRing
  <2>4. s.head = Wrap(b.head + Padding(b))
    BY <2>2 DEF Skip, RingInv, Buffers
  <2>5. s.full = TRUE \/ s.full = FALSE
    BY <2>3, RingFacts
  <2> HIDE DEF s
  <2>6. Sendable(b) = b.head - b.tail
    BY <1>1, <2>1 DEF DataSize
  <2>7. s.head = (IF b.head + Padding(b) = Size THEN 0 ELSE b.head + Padding(b))
    BY <1>1, <1>2, <2>1, <2>4, <2>6 DEF Wrap
  <2>8. Wrap(s.tail + s.tailPending) = b.tail
    BY <1>1, <2>3 DEF Wrap
  <2>9. Consumable(s) = IF s.head >= b.tail /\ s.full = FALSE
                        THEN s.head - b.tail ELSE Size - b.tail
    BY <2>5, <2>8 DEF Consumable
  <2>10. DataSize(s) = IF s.head >= b.tail /\ s.full = FALSE
                       THEN s.head - b.tail ELSE Size + s.head - b.tail
    BY <2>3, <2>5 DEF DataSize
  <2>11. Consumable(s) = Sendable(b) + Padding(b)
    <3>1. Padding(b) \in 1 .. 3 /\ s.head \in Nat
      BY <1>1, <1>2, <1>4, <2>1, <2>6, <2>7
    <3>2. CASE b.head + Padding(b) = Size
      BY <1>1, <2>1, <2>3, <2>6, <2>7, <2>9, <2>10, <3>1, <3>2
    <3>3. CASE b.head + Padding(b) < Size
      BY <1>1, <2>1, <2>3, <2>6, <2>7, <2>9, <2>10, <3>1, <3>3
    <3>4. b.tail + (b.head - b.tail) + Padding(b) =< Size
      BY <2>1, <2>6
    <3>5. b.head + Padding(b) =< Size
      BY <1>1, <3>1, <3>4
    <3> QED
      BY <1>1, <3>1, <3>2, <3>3, <3>5
  <2>12. ~Refused(b)
    BY <1>1, <1>2, <2>1, <2>2, <2>11 DEF Refused, NoSpace, NotWhole, Word, s
  <2> QED
    BY <2>2, <2>3, <2>11, <2>12 DEF s
<1> QED
  BY <1>3, <1>4

\* So startTransmission() leaves the buffer alone unless it starts one.
LEMMA NothingChanges ==
    ASSUME NEW b, RingInv(b), transmitting \in BOOLEAN,
           transmitting = FALSE => b.tailPending = 0, NothingStarted(b)
    PROVE  /\ rb' = b /\ UNCHANGED <<transmitting, queued, failures>>
           /\ transmitting = TRUE \/ Sendable(b) = 0
<1>1. transmitting = TRUE \/ Sendable(b) = 0
  <2> SUFFICES ASSUME transmitting = FALSE, Sendable(b) # 0 PROVE FALSE
    OBVIOUS
  <2>1. ~Refused(b)
    BY PadRing
  <2> QED
    BY <2>1 DEF NothingStarted
<1> QED
  BY <1>1 DEF NothingStarted

\* The buffer with a block lent, and with the block taken back.
LEMMA LendRing ==
    ASSUME NEW b, RingInv(b), b.tailPending = 0, Sendable(b) # 0
    PROVE  LET p == Consume(Padded(b), Lent(b))
               t == ConsumeCommit(p, 0, Lent(b))
           IN  /\ RingInv(p) /\ p.tailPending = Lent(b)
               /\ p.tail = b.tail /\ p.cell = b.cell
               /\ DataSize(p) = DataSize(b) + Padding(b)
               /\ RingInv(t) /\ t.tailPending = 0
               /\ t.tail = b.tail /\ t.cell = b.cell
               /\ DataSize(t) = DataSize(b) + Padding(b)
<1> DEFINE a == Padded(b)
           p == Consume(a, Lent(b))
           t == ConsumeCommit(p, 0, Lent(b))
<1>1. /\ RingInv(a) /\ a.tailPending = 0 /\ a.tail = b.tail /\ a.cell = b.cell
      /\ DataSize(a) = DataSize(b) + Padding(b) /\ Lent(b) = Sendable(b) + Padding(b)
  BY PadRing
<1>2. /\ Sendable(b) \in 1 .. Block /\ Sendable(b) =< DataSize(b)
      /\ b.tail + Sendable(b) =< Size
      /\ Padding(b) \in 0 .. 3 /\ (Sendable(b) + Padding(b)) % 4 = 0
      /\ Padding(b) # 0 => b.tail + Sendable(b) + Padding(b) =< Size
  BY SendableFacts
<1>3. /\ b.tail \in Nat /\ b.tail < Size /\ Size \in Nat /\ DataSize(b) \in 0 .. Size
      /\ DataSize(a) \in 0 .. Size
  BY <1>1, RingFacts DEF Index
<1>4. /\ Lent(b) \in 0 .. Size /\ Lent(b) % 4 = 0
      /\ b.tail + Lent(b) =< Size /\ Lent(b) =< DataSize(a)
  <2>1. Block \in Nat
    BY WholeWords
  <2>2. Padding(b) = 0 \/ Padding(b) # 0
    OBVIOUS
  <2>3. Sendable(b) + Padding(b) =< Size
    BY <1>2, <1>3, <2>1
  <2>4. b.tail + (Sendable(b) + Padding(b)) =< Size
    BY <1>2, <1>3, <2>1
  <2> QED
    BY <1>1, <1>2, <1>3, <2>1, <2>3, <2>4
<1> HIDE DEF a
<1>5. /\ a \in Buffers /\ a.tail % 4 = 0 /\ (a.full = TRUE => a.head = a.tail)
      /\ a.head \in Index /\ a.tail \in Index /\ a.full \in BOOLEAN
  BY <1>1 DEF RingInv, Buffers
<1>6. /\ p \in Buffers /\ p.tailPending = Lent(b) /\ p.head = a.head /\ p.tail = a.tail
      /\ p.full = a.full /\ p.cell = a.cell
  <2>1. a.tailPending + Lent(b) = Lent(b)
    BY <1>1, <1>4
  <2> QED
    BY <1>4, <1>5, <2>1 DEF Consume, Buffers
<1>7. DataSize(p) = DataSize(a)
  BY <1>6 DEF DataSize
<1>8. RingInv(p)
  <2> HIDE DEF p
  <2> QED
    BY <1>1, <1>4, <1>5, <1>6, <1>7 DEF RingInv
<1>9. /\ t \in Buffers /\ t.tailPending = 0 /\ t.head = a.head /\ t.tail = a.tail
      /\ t.full = a.full /\ t.cell = a.cell
  <2>1. Wrap(a.tail + 0) = a.tail
    BY <1>5, RingAssumption DEF Wrap, Index
  <2>2. p.tailPending - (0 + Lent(b)) = 0 /\ 0 \in 0 .. Size
    BY <1>3, <1>4, <1>6
  <2> HIDE DEF p
  <2>3. t = [p EXCEPT !.tailPending = 0, !.tail = a.tail]
    <3>1. t = [p EXCEPT !.tailPending = p.tailPending - (0 + Lent(b)), !.tail = Wrap(p.tail + 0),
                        !.full = IF 0 > 0 THEN FALSE ELSE p.full]
      BY DEF ConsumeCommit
    <3> HIDE DEF t
    <3>2. p.tail + 0 = a.tail + 0
      BY <1>6
    <3>3. ~(0 > 0)
      OBVIOUS
    <3> QED
      BY <1>6, <2>1, <2>2, <3>1, <3>2, <3>3 DEF Buffers
  <2> HIDE DEF t
  <2> QED
    BY <1>5, <1>6, <2>2, <2>3 DEF Buffers
<1>10. DataSize(t) = DataSize(a)
  BY <1>9 DEF DataSize
<1>11. RingInv(t)
  <2> HIDE DEF t
  <2>1. 0 % 4 = 0 /\ t.tail + 0 =< Size /\ 0 =< DataSize(t)
    BY <1>1, <1>3, <1>9, <1>10
  <2> QED
    BY <1>1, <1>5, <1>9, <2>1 DEF RingInv
<1> HIDE DEF p, t
<1>12. /\ RingInv(p) /\ p.tailPending = Lent(b) /\ p.tail = b.tail /\ p.cell = b.cell
       /\ DataSize(p) = DataSize(b) + Padding(b)
       /\ RingInv(t) /\ t.tailPending = 0 /\ t.tail = b.tail
       /\ t.cell = b.cell /\ DataSize(t) = DataSize(b) + Padding(b)
  BY <1>1, <1>6, <1>7, <1>8, <1>9, <1>10, <1>11
<1> QED
  BY <1>12 DEF p, t, a

\* Where the tail is when n bytes are given up, and how much is left behind it.
LEMMA TailMoves ==
    \A head, tail \in Index, n \in 0 .. Size :
        tail + n =< Size =>
            /\ Wrap(tail + n) \in Index
            /\ n = 0 => Wrap(tail + n) = tail
            /\ head = tail /\ n # 0 =>
                 (IF head >= Wrap(tail + n) THEN head - Wrap(tail + n)
                                            ELSE Size + head - Wrap(tail + n)) = Size - n
            /\ head >= tail /\ n =< head - tail =>
                 (IF head >= Wrap(tail + n) THEN head - Wrap(tail + n)
                                            ELSE Size + head - Wrap(tail + n)) = head - tail - n
            /\ head < tail =>
                 (IF head >= Wrap(tail + n) THEN head - Wrap(tail + n)
                                            ELSE Size + head - Wrap(tail + n))
                    = Size + head - tail - n
            /\ \A i \in 0 .. Size - 1 : Wrap(Wrap(tail + n) + i) = Wrap(tail + (n + i))
BY RingAssumption DEF Wrap, Index

\* The tail stays on a word boundary when whole words are given up.
LEMMA TailOnWord ==
    \A tail \in Index, n \in 0 .. Size :
        tail + n =< Size /\ tail % 4 = 0 /\ n % 4 = 0 => Wrap(tail + n) % 4 = 0
<1> SUFFICES ASSUME NEW tail \in Index, NEW n \in 0 .. Size,
                    tail + n =< Size, tail % 4 = 0, n % 4 = 0
             PROVE  Wrap(tail + n) % 4 = 0
  OBVIOUS
<1>1. (tail + n) % 4 = 0 /\ Size \in Nat /\ tail \in Nat
  BY RingAssumption, WordFacts DEF Index
<1>2. Wrap(tail + n) = tail + n \/ Wrap(tail + n) = 0
  BY <1>1 DEF Wrap
<1> QED
  BY <1>1, <1>2

\* The buffer once the host has read all of the block that was lent.
LEMMA CommitRing ==
    ASSUME NEW b, RingInv(b), NEW n, n = b.tailPending
    PROVE  LET c == ConsumeCommit(b, n, 0)
           IN  /\ RingInv(c) /\ c.tailPending = 0 /\ c.cell = b.cell
               /\ DataSize(c) = DataSize(b) - n
               /\ \A i \in 0 .. Size - 1 : Wrap(c.tail + i) = Wrap(b.tail + (n + i))
<1> DEFINE c == ConsumeCommit(b, n, 0)
           t == Wrap(b.tail + n)
<1>1. /\ b.head \in Index /\ b.tail \in Index /\ n \in 0 .. Size /\ Size \in Nat
      /\ DataSize(b) \in 0 .. Size
  BY RingFacts
<1>2. b.full = TRUE \/ b.full = FALSE
  BY RingFacts
<1>3. /\ b \in Buffers /\ b.tail + n =< Size /\ n =< DataSize(b)
      /\ b.full = TRUE => b.head = b.tail
  BY DEF RingInv
<1>4. t \in Index /\ (n = 0 => t = b.tail)
  BY <1>1, <1>3, TailMoves
<1>5. t % 4 = 0
  BY <1>1, <1>3, TailOnWord DEF RingInv
<1>6. n - (n + 0) = 0 /\ 0 \in 0 .. Size /\ (n = 0 \/ n > 0)
  BY <1>1
<1>7. CASE n = 0
  <2>1. c = [b EXCEPT !.tailPending = 0, !.tail = t, !.full = b.full]
    BY <1>6, <1>7 DEF ConsumeCommit
  <2> HIDE DEF c, t
  <2>2. /\ c \in Buffers /\ c.head = b.head /\ c.tail = b.tail
        /\ c.tailPending = 0 /\ c.full = b.full /\ c.cell = b.cell
    <3>1. c = [b EXCEPT !.tailPending = 0, !.tail = b.tail]
      BY <1>3, <1>4, <1>7, <2>1 DEF Buffers
    <3> QED
      BY <1>3, <1>6, <3>1 DEF Buffers
  <2>3. DataSize(c) = DataSize(b) /\ DataSize(b) - n = DataSize(b)
    BY <1>1, <1>7, <2>2 DEF DataSize
  <2>4. RingInv(c)
    BY <1>3, <1>7, <2>2, <2>3 DEF RingInv
  <2>5. \A i \in 0 .. Size - 1 : 0 + i = i
    BY <1>1
  <2> QED
    BY <1>7, <2>2, <2>3, <2>4, <2>5 DEF c
<1>8. CASE n > 0
  <2>1. c = [b EXCEPT !.tailPending = 0, !.tail = t, !.full = FALSE]
    BY <1>6, <1>8 DEF ConsumeCommit
  <2> HIDE DEF c, t
  <2>2. /\ c \in Buffers /\ c.head = b.head /\ c.tail = t
        /\ c.tailPending = 0 /\ c.full = FALSE /\ c.cell = b.cell
    BY <1>3, <1>4, <1>6, <2>1 DEF Buffers
  <2>3. DataSize(c) = IF b.head >= t THEN b.head - t ELSE Size + b.head - t
    BY <2>2 DEF DataSize
  <2>4. DataSize(c) = DataSize(b) - n
    <3>1. CASE b.full = TRUE
      <4>1. b.head = b.tail /\ n # 0
        BY <1>1, <1>3, <1>8, <3>1
      <4>2. DataSize(b) = Size
        BY <1>1, <3>1, <4>1 DEF DataSize, Index
      <4> QED
        BY <1>1, <1>3, <2>3, <4>1, <4>2, TailMoves DEF t
    <3>2. CASE b.full = FALSE
      <4>1. DataSize(b) = IF b.head >= b.tail THEN b.head - b.tail ELSE Size + b.head - b.tail
        BY <3>2 DEF DataSize
      <4>2. b.head >= b.tail \/ b.head < b.tail
        BY <1>1 DEF Index
      <4>3. CASE b.head >= b.tail
        BY <1>1, <1>3, <2>3, <4>1, <4>3, TailMoves DEF t
      <4>4. CASE b.head < b.tail
        <5>1. DataSize(b) = Size + b.head - b.tail
          BY <1>1, <4>1, <4>4 DEF Index
        <5> QED
          <6>1. (IF b.head >= t THEN b.head - t ELSE Size + b.head - t)
                    = Size + b.head - b.tail - n
            BY <1>1, <1>3, <4>4, TailMoves DEF t
          <6>2. DataSize(c) = Size + b.head - b.tail - n
            BY <2>3, <6>1
          <6> QED
            BY <1>1, <5>1, <6>2 DEF Index
      <4> QED
        BY <4>2, <4>3, <4>4
    <3> QED
      BY <1>2, <3>1, <3>2
  <2>5. /\ c.tail % 4 = 0 /\ 0 % 4 = 0 /\ c.tail + 0 =< Size /\ 0 =< DataSize(c)
    BY <1>1, <1>3, <1>4, <1>5, <2>2, <2>4 DEF Index
  <2>6. RingInv(c)
    BY <2>2, <2>5 DEF RingInv
  <2>7. \A i \in 0 .. Size - 1 : Wrap(c.tail + i) = Wrap(b.tail + (n + i))
    BY <1>1, <1>3, <2>2, TailMoves DEF t
  <2> QED
    BY <2>2, <2>4, <2>6, <2>7 DEF c
<1> QED
  BY <1>6, <1>7, <1>8

-------------------------------------------------------------------------------
(* Facts about the blocks *)

\* Sequences of one element, and the first element of a sequence.
LEMMA OneInSequence ==
    /\ \A d : Append(<<>>, d) # <<>> /\ Head(Append(<<>>, d)) = d /\ Len(Append(<<>>, d)) = 1
    /\ \A S, d : d \in S => Append(<<>>, d) \in Seq(S)
    /\ \A S : \A q \in Seq(S) : /\ Len(q) \in Nat
                                /\ Len(q) = 0 <=> q = <<>>
                                /\ q # <<>> => Head(q) \in S /\ Tail(q) \in Seq(S)
                                               /\ Len(Tail(q)) = Len(q) - 1
<1>1. \A d : Append(<<>>, d) # <<>> /\ Head(Append(<<>>, d)) = d /\ Len(Append(<<>>, d)) = 1
  OBVIOUS
<1>2. \A S, d : d \in S => Append(<<>>, d) \in Seq(S)
  OBVIOUS
<1>3. ASSUME NEW S, NEW q \in Seq(S)
      PROVE  /\ Len(q) \in Nat
             /\ Len(q) = 0 <=> q = <<>>
             /\ q # <<>> => Head(q) \in S /\ Tail(q) \in Seq(S) /\ Len(Tail(q)) = Len(q) - 1
  BY HeadTailProperties, EmptySeq
<1> QED
  BY <1>1, <1>2, <1>3

\* Nothing is lent when transmitting_ is not set.
LEMMA NothingLent ==
    ASSUME TypeOK, LoanInv, ~Left, transmitting = FALSE
    PROVE  queued = <<>> /\ finished = <<>> /\ tx # "commit" /\ rb.tailPending = 0
<1>1. /\ Len(queued) \in Nat /\ Len(finished) \in Nat
      /\ Len(queued) = 0 <=> queued = <<>>
      /\ Len(finished) = 0 <=> finished = <<>>
  BY OneInSequence DEF TypeOK
<1>2. Len(queued) + Len(finished) + (IF tx = "commit" THEN 1 ELSE 0) = 0
  BY DEF LoanInv, OneBlockLent, Left
<1>3. queued = <<>> /\ finished = <<>> /\ tx # "commit"
  BY <1>1, <1>2
<1> QED
  BY <1>3 DEF LoanInv, OneBlockLent, Left

\* The descriptor of the block that is lent.
LEMMA DescriptorFacts ==
    ASSUME NEW b, RingInv(b), b.tailPending = 0, Sendable(b) # 0
    PROVE  /\ Descriptor(b) \in Descriptors
           /\ Descriptor(b).from = b.tail
           /\ Descriptor(b).len = Sendable(b)
           /\ Descriptor(b).consume = Lent(b)
           /\ b.tail + Sendable(b) =< Size
           /\ Sendable(b) =< Lent(b)
<1>1. /\ Sendable(b) \in 1 .. Block /\ b.tail + Sendable(b) =< Size
      /\ Padding(b) \in 0 .. 3 /\ Sendable(b) + Padding(b) =< Block
  BY SendableFacts
<1>2. Lent(b) = Sendable(b) + Padding(b)
  BY PadRing
<1>3. Block \in Nat /\ Size \in Nat
  BY WholeWords
<1>4. b.tail \in Index
  BY RingFacts
<1>5. Wrap(b.tail + b.tailPending) = b.tail
  BY <1>3, <1>4 DEF Wrap, Index
<1>6. Lent(b) - Padding(b) = Sendable(b) /\ Lent(b) \in 1 .. Block /\ Sendable(b) =< Lent(b)
  BY <1>1, <1>2, <1>3
<1> QED
  BY <1>1, <1>4, <1>5, <1>6 DEF Descriptor, Descriptors

\* startTransmission(), whoever calls it, lends the first block if none is lent.
LEMMA StartKeeps ==
    ASSUME TypeOK, LoanInv, ~Left,
           NEW b, RingInv(b), b.tail = rb.tail, b.tailPending = rb.tailPending,
           NEW w \in Nat, Counted(b, w, Given(queued, received)),
           failures = 0 => /\ Unsent(b, w, Given(queued, received))
                           /\ Intact(b, queued, received),
           StartTransmission(b),
           UNCHANGED <<finished, taken, received>>,
           tx' = tx \/ (tx = "start" /\ tx' = "loop")
    PROVE  /\ RingInv(rb') /\ LoanInv'
           /\ queued' \in Seq(Descriptors) /\ transmitting' \in BOOLEAN
           /\ failures' \in 0 .. MaxFailures
           /\ Counted(rb', w, Given(queued', received'))
           /\ failures' = 0 => /\ failures = 0
                               /\ Unsent(rb', w, Given(queued', received'))
                               /\ Intact(rb', queued', received')
<1>1. /\ ~Left' /\ (tx' = "commit" <=> tx = "commit")
      /\ tx \notin {"leave", "gone"} /\ tx' \notin {"leave", "gone"}
  BY DEF Left
<1>2. /\ queued \in Seq(Descriptors) /\ transmitting \in BOOLEAN
      /\ failures \in 0 .. MaxFailures /\ received \in Seq(Byte)
  BY DEF TypeOK
<1>3. CASE NothingStarted(b)
  <2>1. rb' = b /\ UNCHANGED <<transmitting, queued, failures, finished, taken, received>>
    BY <1>2, <1>3, NothingLent, NothingChanges
  <2>2. LoanInv'
    BY <1>1, <2>1 DEF LoanInv, OneBlockLent, Left
  <2> QED
    BY <1>2, <2>1, <2>2
<1>4. CASE Start(b) \/ StartFails(b)
  <2>1. transmitting = FALSE /\ Sendable(b) # 0
    BY <1>2, <1>4 DEF Start, StartFails
  <2>2. /\ queued = <<>> /\ finished = <<>> /\ tx # "commit" /\ b.tailPending = 0
    BY <2>1, NothingLent
  <2>3. CASE Start(b)
    <3> DEFINE d == Descriptor(b)
               p == Consume(Padded(b), Lent(b))
    <3>1. /\ rb' = p /\ queued' = Append(queued, d)
          /\ transmitting' = TRUE /\ failures' = failures
      BY <2>3 DEF Start
    <3>2. /\ RingInv(p) /\ p.tailPending = Lent(b) /\ p.tail = b.tail /\ p.cell = b.cell
          /\ DataSize(p) = DataSize(b) + Padding(b)
      BY <2>1, <2>2, LendRing
    <3>3. /\ d \in Descriptors /\ d.from = b.tail /\ d.len = Sendable(b)
          /\ d.consume = Lent(b) /\ b.tail + Sendable(b) =< Size /\ Sendable(b) =< Lent(b)
      BY <2>1, <2>2, DescriptorFacts
    <3> HIDE DEF d, p
    <3>4. /\ queued' # <<>> /\ Head(queued') = d /\ Len(queued') = 1
          /\ queued' \in Seq(Descriptors)
      BY <2>2, <3>1, <3>3, OneInSequence
    <3>5. finished' = <<>> /\ Len(finished') = 0 /\ tx' # "commit" /\ received' = received
      BY <1>1, <2>2, EmptySeq
    <3>6. OneBlockLent'
      <4>1. Len(queued') + Len(finished') + (IF tx' = "commit" THEN 1 ELSE 0) = 1
        BY <3>4, <3>5
      <4>2. rb'.tailPending = Head(queued').consume
        BY <3>1, <3>2, <3>3, <3>4
      <4> QED
        BY <3>1, <3>4, <4>1, <4>2 DEF OneBlockLent
    <3>7. LoanInv'
      BY <1>1, <3>1, <3>2, <3>3, <3>4, <3>6 DEF LoanInv
    <3>8. Counted(rb', w, Given(queued', received'))
      <4> DEFINE n == Sendable(b)
                 g == Len(received)
                 k == DataSize(b)
      <4>1. Given(queued, received) = g + 0 /\ Given(queued', received') = g + n
        BY <2>2, <3>3, <3>4, <3>5 DEF Given
      <4>2. /\ g \in Nat /\ k \in 0 .. Size /\ Size \in Nat
            /\ n \in 1 .. Block /\ Block \in Nat
            /\ Padding(b) \in 0 .. 3 /\ Lent(b) = n + Padding(b)
        BY <1>2, <2>1, <2>2, RingFacts, OneInSequence, SendableFacts, PadRing, WholeWords
      <4>3. DataSize(rb') = k + Padding(b) /\ rb'.tailPending = n + Padding(b)
        BY <3>1, <3>2, <4>2
      <4> HIDE DEF n, g
      <4>4. w =< (g + 0) + (k - 0)
        BY <2>2, <4>1 DEF Counted
      <4> HIDE DEF k
      <4>5. w =< (g + n) + (DataSize(rb') - rb'.tailPending)
        BY <4>2, <4>3, <4>4
      <4> QED
        BY <4>1, <4>5 DEF Counted
    <3>9. ASSUME failures = 0
          PROVE  /\ Unsent(rb', w, Given(queued', received'))
                 /\ Intact(rb', queued', received')
      <4> DEFINE n == Sendable(b)
                 g == Len(received)
                 k == DataSize(b)
      <4>1. /\ w = g + k /\ Given(queued', received') = g + n
            /\ \A i \in 0 .. k - 1 : b.cell[Wrap(b.tail + (0 + i))] = g + i + 1
        <5>1. Given(queued, received) = g + 0 /\ Unsent(b, w, Given(queued, received))
          BY <2>2, <3>9 DEF Given
        <5>2. g \in Nat /\ k \in 0 .. Size /\ Size \in Nat
          BY <1>2, RingFacts, OneInSequence
        <5>3. Given(queued', received') = g + n
          BY <3>3, <3>4, <3>5 DEF Given
        <5> HIDE DEF n, g, k
        <5>4. /\ w = g + 0 + k - 0
              /\ \A i \in 0 .. k - 0 - 1 : b.cell[Wrap(b.tail + (0 + i))] = g + 0 + i + 1
          BY <2>2, <5>1 DEF Unsent, k
        <5> QED
          BY <5>2, <5>3, <5>4
      <4>2. /\ g \in Nat /\ k \in 0 .. Size /\ Size \in Nat
            /\ b.tail \in Nat /\ b.tail < Size
        BY <1>2, RingFacts, OneInSequence DEF Index
      <4>3. /\ n \in 1 .. Block /\ n =< k /\ Block \in Nat
            /\ Padding(b) \in 0 .. 3 /\ Lent(b) = n + Padding(b)
            /\ Padding(b) # 0 => n = k
        BY <2>1, <2>2, SendableFacts, PadRing, WholeWords
      <4> HIDE DEF n, g, k
      <4>4. Intact(rb', queued', received')
        <5>1. ASSUME NEW i \in 0 .. n - 1
              PROVE  b.cell[Wrap(b.tail + i)] = g + i + 1
          <6>1. i \in 0 .. k - 1 /\ 0 + i = i
            BY <4>2, <4>3
          <6> QED
            BY <4>1, <6>1
        <5> QED
          BY <3>1, <3>2, <3>3, <3>4, <3>5, <5>1 DEF Intact, n, g
      <4>5. Unsent(rb', w, Given(queued', received'))
        <5>1. DataSize(rb') = k + Padding(b) /\ rb'.tailPending = n + Padding(b)
          BY <3>1, <3>2, <4>3 DEF k
        <5>2. w = (g + n) + DataSize(rb') - rb'.tailPending
          BY <4>1, <4>2, <4>3, <5>1
        <5>3. ASSUME NEW i \in 0 .. DataSize(rb') - rb'.tailPending - 1
              PROVE  rb'.cell[Wrap(rb'.tail + (rb'.tailPending + i))] = (g + n) + i + 1
          <6>1. i \in Nat /\ i < k - n /\ Padding(b) = 0
            BY <4>2, <4>3, <5>1
          <6>2. n + i \in 0 .. k - 1 /\ 0 + (n + i) = n + i /\ n + Padding(b) = n
            BY <4>2, <4>3, <6>1
          <6>3. b.cell[Wrap(b.tail + (n + i))] = g + (n + i) + 1
            BY <4>1, <6>2
          <6>4. g + (n + i) + 1 = (g + n) + i + 1
            BY <4>2, <4>3, <6>1
          <6> QED
            BY <3>1, <3>2, <5>1, <6>2, <6>3, <6>4
        <5> QED
          BY <4>1, <5>2, <5>3 DEF Unsent
      <4> QED
        BY <4>4, <4>5
    <3> QED
      BY <1>2, <3>1, <3>2, <3>4, <3>7, <3>8, <3>9
  <2>4. CASE StartFails(b)
    <3> DEFINE t == ConsumeCommit(Consume(Padded(b), Lent(b)), 0, Lent(b))
    <3>1. /\ rb' = t /\ UNCHANGED <<transmitting, queued>>
          /\ failures < MaxFailures /\ failures' = failures + 1
      BY <2>4 DEF StartFails
    <3>2. /\ RingInv(t) /\ t.tailPending = 0 /\ t.tail = b.tail
          /\ DataSize(t) = DataSize(b) + Padding(b)
      BY <2>1, <2>2, LendRing
    <3> HIDE DEF t
    <3>3. failures' \in 0 .. MaxFailures /\ failures' # 0
      BY <1>2, <3>1, TransmitAssumption
    <3>4. LoanInv'
      BY <1>1, <2>2, <3>1, <3>2 DEF LoanInv, OneBlockLent, Left
    <3>5. Counted(rb', w, Given(queued', received'))
      <4> DEFINE g == Given(queued, received)
                 k == DataSize(b)
      <4>1. Padding(b) \in 0 .. 3 /\ k \in 0 .. Size /\ Size \in Nat
        BY <2>1, <2>2, SendableFacts, RingFacts
      <4>2. g \in Nat
        BY <1>2, <2>2, OneInSequence DEF Given
      <4>3. g = Given(queued', received')
        BY <3>1
      <4> HIDE DEF g
      <4>4. w =< g + (k - 0)
        BY <2>2 DEF Counted, g
      <4> HIDE DEF k
      <4>5. DataSize(rb') = k + Padding(b) /\ rb'.tailPending = 0
        BY <3>1, <3>2 DEF k
      <4>6. w =< g + (DataSize(rb') - rb'.tailPending)
        BY <4>1, <4>2, <4>4, <4>5
      <4> QED
        BY <4>3, <4>6 DEF Counted
    <3> QED
      BY <1>2, <3>1, <3>2, <3>3, <3>4, <3>5
  <2> QED
    BY <1>4, <2>3, <2>4
<1> QED
  BY <1>3, <1>4 DEF StartTransmission

-------------------------------------------------------------------------------
(* The invariant is inductive *)

\* initTransport() establishes the invariant.
LEMMA InitIInv == Init => IInv
<1> SUFFICES ASSUME Init PROVE IInv
  OBVIOUS
<1> USE DEF Init
<1>1. /\ Size \in Nat /\ Size # 0 /\ 0 \in Index /\ 0 \in 0 .. Size /\ 0 \in Byte
      /\ [i \in Index |-> 0] \in [Index -> Byte]
  BY RingAssumption DEF Index
<1>2. /\ rb \in Buffers /\ rb.head = 0 /\ rb.tail = 0 /\ rb.tailPending = 0
      /\ rb.full = FALSE
  BY <1>1 DEF New, Buffers
<1>3. DataSize(rb) = 0
  BY <1>2 DEF DataSize
<1>4. RingInv(rb)
  BY <1>1, <1>2, <1>3 DEF RingInv
<1>5. Len(queued) = 0 /\ Len(finished) = 0 /\ Len(received) = 0
  BY EmptySeq
<1>6. TypeOK
  <2>1. queued \in Seq(Descriptors) /\ finished \in Seq(1 .. Block) /\ received \in Seq(Byte)
    OBVIOUS
  <2>2. /\ transmitting \in BOOLEAN /\ rxRuns \in BOOLEAN /\ closing \in BOOLEAN
        /\ tx \in {"loop", "wait", "commit", "start", "exit", "leave", "gone"}
        /\ task \in {"idle", "loop", "spin", "check", "join", "stopped"}
    OBVIOUS
  <2>3. /\ exit \in 0 .. 2 /\ taken \in 0 .. Block /\ written \in 0 .. MaxBytes
        /\ waitFrom \in 0 .. MaxBytes /\ failures \in 0 .. MaxFailures
    BY TransmitAssumption
  <2> QED
    BY <1>2, <2>1, <2>2, <2>3 DEF TypeOK
<1>7. ExitInv
  BY DEF ExitInv
<1>8. LoanInv
  BY <1>2, <1>5 DEF LoanInv, OneBlockLent, Left
<1>9. DataInv
  BY <1>2, <1>3, <1>5 DEF DataInv, ReceivesWritten, Intact, Unsent, Given
<1>10. CountInv /\ WaitInv
  BY <1>2, <1>3, <1>5 DEF CountInv, Counted, Given, WaitInv
<1> QED
  BY <1>4, <1>6, <1>7, <1>8, <1>9, <1>10 DEF IInv

\* Nothing is written, lent or read.
LEMMA SameData ==
    ASSUME IInv,
           UNCHANGED <<rb, transmitting, queued, finished, taken, written, received, failures>>,
           \/ tx' = tx
           \/ tx \notin {"commit", "leave", "gone"} /\ tx' \notin {"commit", "leave", "gone"}
           \/ tx = "leave" /\ tx' = "gone"
    PROVE  RingInv(rb') /\ LoanInv' /\ DataInv' /\ CountInv'
<1>1. Left' <=> Left
  BY DEF Left
<1>2. LoanInv'
  BY <1>1 DEF IInv, LoanInv, OneBlockLent, Left
<1>3. DataInv'
  BY <1>1 DEF IInv, DataInv, ReceivesWritten
<1>4. CountInv'
  BY <1>1 DEF IInv, CountInv
<1> QED
  BY <1>2, <1>3, <1>4 DEF IInv

\* What writeData() has put into the buffer before it calls startTransmission().
LEMMA WriteFills ==
    ASSUME IInv, ~Left, NEW len \in Nat, written + Stored(len) =< MaxBytes
    PROVE  /\ written + Stored(len) \in 0 .. MaxBytes
           /\ RingInv(Filled(len))
           /\ Filled(len).tail = rb.tail /\ Filled(len).tailPending = rb.tailPending
           /\ Counted(Filled(len), written + Stored(len), Given(queued, received))
           /\ failures = 0 =>
                /\ Unsent(Filled(len), written + Stored(len), Given(queued, received))
                /\ Intact(Filled(len), queued, received)
<1> USE DEF Stored, Filled
<1> DEFINE n == Least(Space(rb), len)
           v == NewBytes(n)
           p == Put(rb, v)
           k == DataSize(rb)
           m == rb.tailPending
           g == Given(queued, received)
<1>1. /\ k \in 0 .. Size /\ Space(rb) = Size - k /\ Size \in Nat
      /\ m \in 0 .. Size /\ rb.tail \in Nat /\ RingInv(rb)
  BY RingFacts DEF IInv, Index
<1>2. written \in Nat /\ MaxBytes \in Nat /\ Byte = 0 .. MaxBytes
  BY TransmitAssumption DEF IInv, TypeOK
<1>3. n \in Nat /\ n =< Space(rb) /\ written + n \in 0 .. MaxBytes
  BY <1>1, <1>2 DEF Least
<1>4. m =< k
  BY DEF IInv, RingInv
<1>5. written =< g + (k - m)
  BY DEF IInv, CountInv, Counted
<1>6. g \in Nat
  <2>1. /\ Len(received) \in Nat
        /\ queued # <<>> => Head(queued) \in Descriptors
    BY OneInSequence DEF IInv, TypeOK
  <2> QED
    BY <2>1, WholeWords DEF Given, Descriptors
<1>7. CASE n = 0
  <2>1. ~(n > 0) /\ written + n = written
    BY <1>2, <1>7
  <2>2. Counted(rb, written, g)
    BY <1>5 DEF Counted
  <2>3. failures = 0 => /\ Unsent(rb, written, g) /\ Intact(rb, queued, received)
    BY DEF IInv, DataInv
  <2> HIDE DEF n
  <2>4. LET b == IF n > 0 THEN p ELSE rb
        IN  /\ RingInv(b) /\ b.tail = rb.tail /\ b.tailPending = rb.tailPending
            /\ Counted(b, written + n, g)
            /\ failures = 0 => Unsent(b, written + n, g) /\ Intact(b, queued, received)
    BY <1>1, <2>1, <2>3, <2>2
  <2> QED
    BY <1>3, <2>4 DEF n
<1>8. CASE n # 0
  <2>1. n > 0 /\ n \in 1 .. Space(rb)
    BY <1>1, <1>3, <1>8
  <2>2. v \in Seq(Byte) /\ Len(v) = n /\ \A i \in 0 .. n - 1 : v[i + 1] = written + i + 1
    <3> HIDE DEF n
    <3>1. \A i \in 1 .. n : written + i \in Byte
      BY <1>2, <1>3
    <3>2. v \in [1 .. n -> Byte] /\ \A i \in 1 .. n : v[i] = written + i
      BY <3>1 DEF NewBytes
    <3>3. v \in Seq(Byte) /\ Len(v) = n
      BY <1>3, <3>2
    <3>4. ASSUME NEW i \in 0 .. n - 1 PROVE v[i + 1] = written + i + 1
      <4>1. i + 1 \in 1 .. n /\ written + (i + 1) = written + i + 1
        BY <1>2, <1>3
      <4> QED
        BY <3>2, <4>1
    <3> QED
      BY <3>3, <3>4
  <2> HIDE DEF n, v, k, m, g
  <2>3. Len(v) \in 1 .. Space(rb)
    BY <2>1, <2>2
  <2>4. /\ RingInv(p) /\ p.tail = rb.tail /\ p.tailPending = m /\ DataSize(p) = k + n
        /\ \A i \in 0 .. k - 1 : p.cell[Wrap(rb.tail + i)] = rb.cell[Wrap(rb.tail + i)]
        /\ \A i \in 0 .. n - 1 : p.cell[Wrap(rb.tail + (k + i))] = v[i + 1]
    BY <1>1, <2>2, <2>3, PutRing DEF k, m
  <2> HIDE DEF p
  <2>5. ASSUME failures = 0
        PROVE  Unsent(p, written + n, g) /\ Intact(p, queued, received)
    <3>1. /\ written = g + k - m
          /\ \A i \in 0 .. k - m - 1 : rb.cell[Wrap(rb.tail + (m + i))] = g + i + 1
      BY <2>5 DEF IInv, DataInv, Unsent, k, m, g
    <3>2. queued # <<>> => Head(queued) \in Descriptors
      BY OneInSequence DEF IInv, TypeOK
    <3>3. Block \in Nat
      BY WholeWords
    <3>4. g \in Nat
      BY <1>6
    <3>5. written + n = g + (k + n) - m
      BY <1>1, <1>2, <1>3, <3>1, <3>4
    <3>6. ASSUME NEW i \in 0 .. (k + n) - m - 1
          PROVE  p.cell[Wrap(rb.tail + (m + i))] = g + i + 1
      <4>1. CASE i < k - m
        <5>1. i \in 0 .. k - m - 1 /\ m + i \in 0 .. k - 1
          BY <1>1, <1>4, <4>1
        <5> QED
          BY <2>4, <3>1, <5>1
      <4>2. CASE ~(i < k - m)
        <5> DEFINE j == i - (k - m)
        <5>1. j \in 0 .. n - 1 /\ k + j = m + i
          BY <1>1, <1>3, <1>4, <4>2
        <5>2. p.cell[Wrap(rb.tail + (k + j))] = v[j + 1] /\ v[j + 1] = written + j + 1
          BY <2>2, <2>4, <5>1
        <5>3. written + j + 1 = g + i + 1
          <6>1. i \in Int /\ m \in Int /\ k \in Int /\ g \in Int /\ written \in Int
            BY <1>1, <1>2, <1>3, <3>4
          <6>2. written = g + k - m
            BY <3>1
          <6> QED
            BY <6>1, <6>2
        <5> QED
          BY <5>1, <5>2, <5>3
      <4> QED
        BY <4>1, <4>2
    <3>7. Unsent(p, written + n, g)
      BY <2>4, <3>5, <3>6 DEF Unsent
    <3>8. ASSUME queued # <<>>, NEW i \in 0 .. Head(queued).len - 1
          PROVE  p.cell[Wrap(Head(queued).from + i)] = Len(received) + i + 1
      <4>1. rb.cell[Wrap(Head(queued).from + i)] = Len(received) + i + 1
        BY <2>5, <3>8 DEF IInv, DataInv, Intact
      <4>2. Head(queued).from = rb.tail /\ Head(queued).len =< Head(queued).consume
        BY <3>8 DEF IInv, LoanInv
      <4>3. Head(queued).consume = m
        BY <3>8 DEF IInv, LoanInv, OneBlockLent, Left, m
      <4>4. Head(queued).len \in Nat /\ Head(queued).consume \in Nat
        BY <3>2, <3>3, <3>8 DEF Descriptors
      <4>5. i \in 0 .. k - 1
        BY <1>1, <1>4, <4>2, <4>3, <4>4
      <4> QED
        BY <2>4, <4>1, <4>2, <4>5
    <3>9. Intact(p, queued, received)
      BY <3>8 DEF Intact
    <3> QED
      BY <3>7, <3>9
  <2>6. Counted(p, written + n, g)
    <3>1. written + n =< g + ((k + n) - m)
      BY <1>1, <1>2, <1>3, <1>5, <1>6
    <3> QED
      BY <2>4, <3>1 DEF Counted
  <2>7. LET b == IF n > 0 THEN p ELSE rb
        IN  /\ RingInv(b) /\ b.tail = rb.tail /\ b.tailPending = rb.tailPending
            /\ Counted(b, written + n, g)
            /\ failures = 0 => Unsent(b, written + n, g) /\ Intact(b, queued, received)
    BY <2>1, <2>4, <2>5, <2>6 DEF m
  <2> QED
    BY <1>3, <2>7 DEF n, p, v, g
<1> QED
  BY <1>7, <1>8

\* writeData() fills the buffer and may start a transmission.
LEMMA WriteKeepsIInv == ASSUME IInv, NEW len \in Lengths, WriteData(len) PROVE IInv'
<1> DEFINE n == Stored(len)
           b == Filled(len)
<1>1. /\ closing = FALSE /\ written + n =< MaxBytes /\ StartTransmission(b)
      /\ written' = written + n
      /\ UNCHANGED <<finished, exit, tx, taken, rxRuns, task, closing, waitFrom, received>>
  BY DEF IInv, TypeOK, WriteData, MayWrite, txThread, atTask
<1>2. TypeOK /\ LoanInv /\ ~Left /\ len \in Nat
  BY <1>1, TransmitAssumption DEF IInv, ExitInv, Left
<1>3. /\ written + n \in 0 .. MaxBytes
      /\ RingInv(b) /\ b.tail = rb.tail /\ b.tailPending = rb.tailPending
      /\ Counted(b, written + n, Given(queued, received))
      /\ failures = 0 => /\ Unsent(b, written + n, Given(queued, received))
                         /\ Intact(b, queued, received)
  BY <1>1, <1>2, WriteFills
<1> HIDE DEF n, b
<1>4. /\ RingInv(rb') /\ LoanInv'
      /\ queued' \in Seq(Descriptors) /\ transmitting' \in BOOLEAN
      /\ failures' \in 0 .. MaxFailures
      /\ Counted(rb', written + n, Given(queued', received'))
      /\ failures' = 0 => /\ failures = 0
                          /\ Unsent(rb', written + n, Given(queued', received'))
                          /\ Intact(rb', queued', received')
  BY <1>1, <1>2, <1>3, StartKeeps
<1>5. DataInv'
  BY <1>1, <1>4 DEF IInv, DataInv, ReceivesWritten
<1>6. TypeOK'
  BY <1>1, <1>2, <1>3, <1>4 DEF TypeOK, RingInv
<1>7. ExitInv'
  BY <1>1 DEF IInv, ExitInv
<1>8. CountInv'
  BY <1>1, <1>4 DEF CountInv
<1>9. WaitInv'
  <2>1. n \in Nat /\ written \in Nat /\ waitFrom \in Nat /\ waitFrom =< written
    BY <1>2, TransmitAssumption, RingFacts DEF IInv, TypeOK, WaitInv, n, Stored, Least
  <2> QED
    BY <1>1, <2>1 DEF WaitInv
<1> QED
  BY <1>4, <1>5, <1>6, <1>7, <1>8, <1>9 DEF IInv

\* The TX thread starts the next transmission.
LEMMA TxStartKeepsIInv == ASSUME IInv, TxStart PROVE IInv'
<1>1. /\ tx = "start" /\ tx' = "loop" /\ StartTransmission(rb)
      /\ UNCHANGED <<finished, exit, taken, rxRuns, task, closing, waitFrom, written, received>>
  BY DEF TxStart, TxStep, atTask
<1>2. /\ TypeOK /\ LoanInv /\ ~Left /\ RingInv(rb)
      /\ failures = 0 => /\ Unsent(rb, written, Given(queued, received))
                         /\ Intact(rb, queued, received)
  BY <1>1 DEF IInv, DataInv, Left
<1>3. written \in Nat /\ Counted(rb, written, Given(queued, received))
  BY <1>2, TransmitAssumption DEF IInv, TypeOK, CountInv
<1>4. /\ RingInv(rb') /\ LoanInv'
      /\ queued' \in Seq(Descriptors) /\ transmitting' \in BOOLEAN
      /\ failures' \in 0 .. MaxFailures
      /\ Counted(rb', written, Given(queued', received'))
      /\ failures' = 0 => /\ failures = 0
                          /\ Unsent(rb', written, Given(queued', received'))
                          /\ Intact(rb', queued', received')
  BY <1>1, <1>2, <1>3, StartKeeps
<1>5. DataInv'
  BY <1>1, <1>4 DEF IInv, DataInv, ReceivesWritten
<1>6. TypeOK'
  BY <1>1, <1>2, <1>4 DEF TypeOK, RingInv
<1>7. ExitInv'
  BY <1>1 DEF IInv, ExitInv
<1>8. CountInv' /\ WaitInv'
  BY <1>1, <1>4 DEF IInv, CountInv, WaitInv
<1> QED
  BY <1>4, <1>5, <1>6, <1>7, <1>8 DEF IInv

\* The host reads the block that is queued, out of the buffer's memory.
LEMMA HostReadsKeepsIInv == ASSUME IInv, HostReads PROVE IInv'
<1> DEFINE d == Head(queued)
           f == [i \in 1 .. d.len |-> rb.cell[Wrap(d.from + i - 1)]]
           r == Len(received)
<1>1. /\ queued # <<>> /\ received' = received \o f
      /\ finished' = Append(finished, d.consume) /\ queued' = Tail(queued)
      /\ UNCHANGED <<rb, transmitting, exit, tx, taken, rxRuns, task, closing, waitFrom,
                     written, failures>>
  BY DEF HostReads, txThread, atTask
<1>2. /\ queued \in Seq(Descriptors) /\ finished \in Seq(1 .. Block) /\ received \in Seq(Byte)
      /\ Len(queued) =< 1 /\ d.from + d.len =< Size
  BY <1>1 DEF IInv, TypeOK, LoanInv
<1>3. /\ d \in Descriptors /\ Len(queued) = 1 /\ queued' = <<>> /\ r \in Nat
      /\ Len(finished) \in Nat /\ (Len(finished) = 0 => finished = <<>>)
  <2>1. /\ Len(queued) \in Nat /\ Len(queued) # 0
        /\ d \in Descriptors /\ Tail(queued) \in Seq(Descriptors)
        /\ Len(Tail(queued)) = Len(queued) - 1
    BY <1>1, <1>2, OneInSequence
  <2>2. Len(queued) = 1 /\ Len(Tail(queued)) = 0
    BY <1>2, <2>1
  <2> QED
    BY <1>1, <1>2, <2>1, <2>2, OneInSequence
<1>4. /\ Size \in Nat /\ Block \in Nat
      /\ d.from \in Nat /\ d.len \in 1 .. Block /\ d.consume \in 1 .. Block
  BY <1>3, WholeWords DEF Descriptors, Index
<1> HIDE DEF d, r
<1>5. f \in Seq(Byte) /\ Len(f) = d.len
  <2>1. ASSUME NEW i \in 1 .. d.len PROVE rb.cell[Wrap(d.from + i - 1)] \in Byte
    <3>1. Wrap(d.from + i - 1) \in Index
      <4>1. d.from + d.len =< Size
        BY <1>2
      <4>2. d.from + i - 1 \in 0 .. Size - 1
        BY <1>4, <4>1
      <4>3. Wrap(d.from + i - 1) = d.from + i - 1
        BY <1>4, <4>2 DEF Wrap
      <4> QED
        BY <4>2, <4>3 DEF Index
    <3>2. rb.cell \in [Index -> Byte]
      BY DEF IInv, TypeOK, Buffers
    <3> QED
      BY <3>1, <3>2
  <2> QED
    BY <1>4, <2>1
<1>6. /\ received' \in Seq(Byte) /\ Len(received') = r + d.len
      /\ \A j \in 1 .. r : received'[j] = received[j]
      /\ \A i \in 0 .. d.len - 1 : received'[r + i + 1] = rb.cell[Wrap(d.from + i)]
  <2>1. \A i \in 0 .. d.len - 1 : f[i + 1] = rb.cell[Wrap(d.from + i)]
    <3> SUFFICES ASSUME NEW i \in 0 .. d.len - 1
                 PROVE  f[i + 1] = rb.cell[Wrap(d.from + i)]
      OBVIOUS
    <3>1. i + 1 \in 1 .. d.len /\ d.from + (i + 1) - 1 = d.from + i
      BY <1>4
    <3> QED
      BY <3>1
  <2> HIDE DEF f
  <2>2. /\ received' \in Seq(Byte) /\ Len(received') = r + d.len
        /\ \A j \in 1 .. r : received'[j] = received[j]
        /\ \A j \in r + 1 .. r + d.len : received'[j] = f[j - r]
    <3>1. /\ received' \in Seq(Byte) /\ Len(received') = r + Len(f)
          /\ \A j \in 1 .. r + Len(f) :
                 received'[j] = IF j =< r THEN received[j] ELSE f[j - r]
      BY <1>1, <1>2, <1>5, ConcatProperties DEF r
    <3>2. \A j \in 1 .. r : j \in 1 .. r + Len(f) /\ j =< r
      BY <1>3, <1>4, <1>5
    <3>3. \A j \in r + 1 .. r + d.len : j \in 1 .. r + Len(f) /\ ~(j =< r)
      BY <1>3, <1>4, <1>5
    <3> QED
      BY <1>5, <3>1, <3>2, <3>3
  <2>3. ASSUME NEW i \in 0 .. d.len - 1
        PROVE  received'[r + i + 1] = rb.cell[Wrap(d.from + i)]
    <3>1. r + i + 1 \in r + 1 .. r + d.len /\ (r + i + 1) - r = i + 1
      BY <1>3, <1>4
    <3> QED
      BY <2>1, <2>2, <3>1
  <2> QED
    BY <2>2, <2>3
<1> HIDE DEF f
<1>7. finished' \in Seq(1 .. Block) /\ Len(finished') = Len(finished) + 1
  BY <1>1, <1>2, <1>4
<1>8. TypeOK'
  <2>1. queued' \in Seq(Descriptors)
    BY <1>3
  <2> QED
    BY <1>1, <1>6, <1>7, <2>1 DEF IInv, TypeOK
<1>9. LoanInv'
  <2>1. Len(queued') = 0
    BY <1>3, EmptySeq
  <2>2. Left' <=> Left
    BY <1>1 DEF Left
  <2>3. ASSUME ~Left
        PROVE  /\ Len(queued') + Len(finished') + (IF tx' = "commit" THEN 1 ELSE 0)
                     = (IF transmitting' THEN 1 ELSE 0)
               /\ finished' # <<>> /\ rb'.tailPending = Head(finished')
    <3>1. /\ Len(queued) + Len(finished) + (IF tx = "commit" THEN 1 ELSE 0)
                = (IF transmitting THEN 1 ELSE 0)
          /\ rb.tailPending = d.consume
      BY <1>1, <2>3 DEF IInv, LoanInv, OneBlockLent, Left, d
    <3>2. /\ Len(finished) = 0 /\ tx # "commit"
          /\ 1 = (IF transmitting THEN 1 ELSE 0)
      BY <1>3, <3>1
    <3>3. finished' # <<>> /\ Head(finished') = d.consume
      BY <1>1, <1>3, <3>2, OneInSequence
    <3> QED
      BY <1>1, <1>7, <2>1, <3>1, <3>2, <3>3
  <2>4. OneBlockLent'
    BY <1>3, <2>2, <2>3 DEF OneBlockLent, Left
  <2> QED
    BY <1>1, <1>3, <2>1, <2>2, <2>4 DEF IInv, LoanInv
<1>10. Given(queued', received') = Given(queued, received)
  <2>1. Given(queued', received') = r + d.len + 0
    BY <1>3, <1>6 DEF Given
  <2>2. Given(queued, received) = r + d.len
    BY <1>1 DEF Given, r, d
  <2> QED
    BY <1>3, <1>4, <2>1, <2>2
<1>11. DataInv'
  <2> SUFFICES ASSUME failures = 0
               PROVE  /\ ReceivesWritten'
                      /\ ~Left => Unsent(rb, written, Given(queued', received'))
    BY <1>1, <1>3 DEF DataInv, Intact, Left
  <2>1. ReceivesWritten'
    <3> SUFFICES ASSUME NEW j \in 1 .. Len(received') PROVE received'[j] = j
      BY DEF ReceivesWritten
    <3>1. CASE j =< r
      BY <1>3, <1>6, <3>1 DEF IInv, DataInv, ReceivesWritten, r
    <3>2. CASE j > r
      <4> DEFINE i == j - r - 1
      <4>1. i \in 0 .. d.len - 1 /\ r + i + 1 = j
        BY <1>3, <1>4, <1>6, <3>2
      <4> HIDE DEF i
      <4>2. received'[j] = rb.cell[Wrap(d.from + i)]
        BY <1>6, <4>1
      <4>3. rb.cell[Wrap(d.from + i)] = r + i + 1
        BY <1>1, <4>1 DEF IInv, DataInv, Intact, d, r
      <4> QED
        BY <4>1, <4>2, <4>3
    <3> QED
      BY <1>3, <1>4, <1>6, <3>1, <3>2
  <2> QED
    BY <1>10, <2>1 DEF IInv, DataInv
<1>12. ExitInv'
  BY <1>1 DEF IInv, ExitInv
<1>13. CountInv' /\ WaitInv'
  BY <1>1, <1>10 DEF IInv, CountInv, WaitInv, Left
<1> QED
  BY <1>1, <1>8, <1>9, <1>11, <1>12, <1>13 DEF IInv

\* The TX thread gives up the block that the host has read.
LEMMA TxCommitKeepsIInv == ASSUME IInv, TxCommit PROVE IInv'
<1> DEFINE c == ConsumeCommit(rb, taken, 0)
           k == DataSize(rb)
           g == Len(received)
<1>1. /\ tx = "commit" /\ tx' = "start" /\ rb' = c /\ transmitting' = FALSE
      /\ UNCHANGED <<queued, finished, exit, taken, rxRuns, task, closing, waitFrom,
                     written, received, failures>>
  BY DEF TxCommit, TxStep, driver, atTask
<1>2. /\ queued \in Seq(Descriptors) /\ finished \in Seq(1 .. Block) /\ received \in Seq(Byte)
      /\ transmitting \in BOOLEAN /\ RingInv(rb) /\ ~Left /\ ~Left'
  BY <1>1 DEF IInv, TypeOK, Left
<1>3. queued = <<>> /\ finished = <<>> /\ rb.tailPending = taken
  <2>1. Len(queued) + Len(finished) + 1 = (IF transmitting THEN 1 ELSE 0)
    BY <1>1 DEF IInv, LoanInv, OneBlockLent
  <2>2. /\ Len(queued) \in Nat /\ Len(finished) \in Nat
        /\ Len(queued) = 0 <=> queued = <<>>
        /\ Len(finished) = 0 <=> finished = <<>>
    BY <1>2, OneInSequence
  <2>3. queued = <<>> /\ finished = <<>>
    BY <2>1, <2>2
  <2> QED
    BY <1>1, <2>3 DEF IInv, LoanInv, OneBlockLent
<1>4. /\ RingInv(c) /\ c.tailPending = 0 /\ c.cell = rb.cell /\ DataSize(c) = k - taken
      /\ \A i \in 0 .. Size - 1 : Wrap(c.tail + i) = Wrap(rb.tail + (taken + i))
  BY <1>2, <1>3, CommitRing
<1>5. /\ k \in 0 .. Size /\ Size \in Nat /\ taken \in 0 .. Size /\ g \in Nat
  BY <1>2, <1>3, RingFacts, OneInSequence
<1> HIDE DEF c, k, g
<1>6. TypeOK'
  BY <1>1, <1>4 DEF IInv, TypeOK, RingInv
<1>7. LoanInv'
  <2>1. Len(queued') = 0 /\ Len(finished') = 0
    BY <1>1, <1>3, EmptySeq
  <2> QED
    BY <1>1, <1>2, <1>3, <1>4, <2>1 DEF LoanInv, OneBlockLent
<1>8. ASSUME failures = 0 PROVE Unsent(rb', written, Given(queued', received'))
  <2>1. Given(queued, received) = g /\ Given(queued', received') = g
    BY <1>1, <1>3, <1>5 DEF Given, g
  <2>2. /\ written = g + k - taken
        /\ \A i \in 0 .. k - taken - 1 : rb.cell[Wrap(rb.tail + (taken + i))] = g + i + 1
    BY <1>2, <1>3, <1>8, <2>1 DEF IInv, DataInv, Unsent, k
  <2>3. written = g + DataSize(rb') - rb'.tailPending
    BY <1>1, <1>4, <1>5, <2>2
  <2>4. ASSUME NEW i \in 0 .. DataSize(rb') - rb'.tailPending - 1
        PROVE  rb'.cell[Wrap(rb'.tail + (rb'.tailPending + i))] = g + i + 1
    <3>1. i \in 0 .. k - taken - 1 /\ i \in 0 .. Size - 1 /\ 0 + i = i
      BY <1>1, <1>4, <1>5
    <3> QED
      BY <1>1, <1>4, <2>2, <3>1
  <2> QED
    BY <2>1, <2>3, <2>4 DEF Unsent
<1>9. DataInv'
  BY <1>1, <1>3, <1>8 DEF IInv, DataInv, ReceivesWritten, Intact
<1>10. ExitInv'
  BY <1>1 DEF IInv, ExitInv
<1>11. CountInv'
  <2>1. Given(queued, received) = g + 0 /\ Given(queued', received') = g + 0
    BY <1>1, <1>3 DEF Given, g
  <2>2. written =< (g + 0) + (k - taken)
    BY <1>2, <1>3, <2>1 DEF IInv, CountInv, Counted, k
  <2>3. written =< (g + 0) + (DataSize(rb') - rb'.tailPending)
    BY <1>1, <1>4, <1>5, <2>2
  <2> QED
    BY <1>1, <2>1, <2>3 DEF CountInv, Counted
<1>12. WaitInv'
  BY <1>1 DEF IInv, WaitInv
<1> QED
  BY <1>1, <1>4, <1>6, <1>7, <1>9, <1>10, <1>11, <1>12 DEF IInv

\* The TX thread learns that the host has read a block.
LEMMA TxFinishedKeepsIInv == ASSUME IInv, TxFinished PROVE IInv'
<1>1. /\ tx = "wait" /\ tx' = "commit" /\ finished # <<>>
      /\ taken' = Head(finished) /\ finished' = Tail(finished)
      /\ UNCHANGED <<rb, transmitting, queued, exit, rxRuns, task, closing, waitFrom,
                     written, received, failures>>
  BY DEF TxFinished, TxStep, atTask
<1>2. /\ queued \in Seq(Descriptors) /\ finished \in Seq(1 .. Block)
      /\ transmitting \in BOOLEAN /\ ~Left /\ ~Left'
  BY <1>1 DEF IInv, TypeOK, Left
<1>3. /\ Head(finished) \in 1 .. Block /\ Tail(finished) \in Seq(1 .. Block)
      /\ Len(Tail(finished)) = Len(finished) - 1 /\ Len(finished) \in Nat
      /\ Len(finished) # 0 /\ Len(queued) \in Nat
      /\ Len(queued) = 0 <=> queued = <<>>
      /\ Len(Tail(finished)) = 0 <=> Tail(finished) = <<>>
  BY <1>1, <1>2, OneInSequence
<1>4. /\ Len(queued) + Len(finished) + 0 = (IF transmitting THEN 1 ELSE 0)
      /\ queued = <<>> => rb.tailPending = Head(finished)
  BY <1>1 DEF IInv, LoanInv, OneBlockLent
<1>5. queued = <<>> /\ Len(queued) = 0 /\ Len(finished) = 1 /\ finished' = <<>>
  BY <1>1, <1>3, <1>4
<1>6. TypeOK'
  BY <1>1, <1>3, WholeWords DEF IInv, TypeOK
<1>7. OneBlockLent'
  BY <1>1, <1>3, <1>4, <1>5 DEF OneBlockLent
<1>8. LoanInv'
  BY <1>1, <1>2, <1>3, <1>5, <1>7 DEF LoanInv
<1>9. DataInv' /\ CountInv' /\ ExitInv' /\ WaitInv'
  BY <1>1, <1>2 DEF IInv, DataInv, ReceivesWritten, CountInv, ExitInv, WaitInv
<1> QED
  BY <1>1, <1>6, <1>8, <1>9 DEF IInv

\* The TX thread resets the buffer; a block may still be queued.
LEMMA TxResetKeepsIInv == ASSUME IInv, TxReset PROVE IInv'
<1>1. /\ tx = "exit" /\ tx' = "leave" /\ rb' = Reset(rb) /\ transmitting' = FALSE
      /\ UNCHANGED <<queued, finished, exit, taken, rxRuns, task, closing, waitFrom,
                     written, received, failures>>
  BY DEF TxReset, TxStep, driver, atTask
<1>2. Left' /\ rb \in Buffers
  BY <1>1 DEF IInv, RingInv, Left
<1>3. 0 \in Index /\ 0 \in 0 .. Size /\ Size \in Nat
  BY RingAssumption DEF Index
<1>4. /\ rb' \in Buffers /\ rb'.head = 0 /\ rb'.tail = 0 /\ rb'.tailPending = 0
      /\ rb'.full = FALSE /\ rb'.cell = rb.cell
  BY <1>1, <1>2, <1>3 DEF Reset, Buffers
<1>5. DataSize(rb') = 0
  BY <1>4 DEF DataSize
<1>6. RingInv(rb')
  BY <1>3, <1>4, <1>5 DEF RingInv
<1>7. TypeOK'
  BY <1>1, <1>4 DEF IInv, TypeOK
<1>8. LoanInv'
  BY <1>1, <1>2, <1>4 DEF IInv, LoanInv, OneBlockLent, Left
<1>9. DataInv' /\ CountInv'
  BY <1>1, <1>2, <1>4 DEF IInv, DataInv, ReceivesWritten, Intact, CountInv
<1>10. ExitInv' /\ WaitInv'
  BY <1>1 DEF IInv, ExitInv, WaitInv
<1> QED
  BY <1>6, <1>7, <1>8, <1>9, <1>10 DEF IInv

\* The steps of the two threads that do not touch the buffer.
LEMMA ThreadsKeepIInv == ASSUME IInv, TxLoop \/ TxTimeout \/ TxLeave \/ RxLeave PROVE IInv'
<1> DEFINE Same == UNCHANGED <<rb, transmitting, queued, finished, taken, task, closing,
                               waitFrom, written, received, failures>>
<1>1. exit \in 0 .. 2 /\ rxRuns \in BOOLEAN /\ closing \in BOOLEAN
  BY DEF IInv, TypeOK
<1>2. CASE TxLoop
  <2>1. /\ Same /\ UNCHANGED <<exit, rxRuns>>
        /\ tx = "loop" /\ tx' = (IF exit = 0 THEN "wait" ELSE "exit")
    BY <1>2 DEF TxLoop, TxStep, driver, atTask
  <2>2. RingInv(rb') /\ LoanInv' /\ DataInv' /\ CountInv'
    BY <2>1, SameData
  <2>3. ExitInv'
    BY <2>1 DEF IInv, ExitInv
  <2> QED
    BY <2>1, <2>2, <2>3 DEF IInv, TypeOK, WaitInv
<1>3. CASE TxTimeout
  <2>1. Same /\ UNCHANGED <<exit, rxRuns>> /\ tx = "wait" /\ tx' = "loop"
    BY <1>3 DEF TxTimeout, TxStep, driver, atTask
  <2>2. RingInv(rb') /\ LoanInv' /\ DataInv' /\ CountInv'
    BY <2>1, SameData
  <2>3. ExitInv'
    BY <2>1 DEF IInv, ExitInv
  <2> QED
    BY <2>1, <2>2, <2>3 DEF IInv, TypeOK, WaitInv
<1>4. CASE TxLeave
  <2>1. Same /\ UNCHANGED rxRuns /\ tx = "leave" /\ tx' = "gone" /\ exit' = exit - 1
    BY <1>4 DEF TxLeave, TxStep, driver, atTask
  <2>2. RingInv(rb') /\ LoanInv' /\ DataInv' /\ CountInv'
    BY <2>1, SameData
  <2>3. /\ closing = TRUE /\ task # "idle"
        /\ exit = 1 + (IF rxRuns = TRUE THEN 1 ELSE 0)
    BY <1>1, <2>1 DEF IInv, ExitInv
  <2>4. exit' = (IF rxRuns' = TRUE THEN 1 ELSE 0)
    BY <1>1, <2>1, <2>3
  <2>5. ExitInv' /\ exit' \in 0 .. 2
    BY <2>1, <2>3, <2>4 DEF ExitInv
  <2> QED
    BY <2>1, <2>2, <2>5 DEF IInv, TypeOK, WaitInv
<1>5. CASE RxLeave
  <2>1. /\ Same /\ UNCHANGED tx
        /\ rxRuns = TRUE /\ exit > 0 /\ rxRuns' = FALSE /\ exit' = exit - 1
    BY <1>1, <1>5 DEF RxLeave, driver, atTask, txThread
  <2>2. RingInv(rb') /\ LoanInv' /\ DataInv' /\ CountInv'
    BY <2>1, SameData
  <2>3. /\ closing = TRUE /\ task # "idle"
        /\ exit = (IF tx = "gone" THEN 0 ELSE 1) + 1
    BY <1>1, <2>1 DEF IInv, ExitInv
  <2>4. exit' = (IF tx' = "gone" THEN 0 ELSE 1) + 0
    BY <1>1, <2>1, <2>3
  <2>5. ExitInv' /\ exit' \in 0 .. 2
    BY <2>1, <2>3, <2>4 DEF ExitInv
  <2> QED
    BY <2>1, <2>2, <2>5 DEF IInv, TypeOK, WaitInv
<1> QED
  BY <1>2, <1>3, <1>4, <1>5

\* waitWriteComplete() and destroyTransport() only look at the buffer.
LEMMA AtTaskKeepsIInv ==
    ASSUME IInv, WaitWriteComplete \/ WaitLoop \/ WaitSpin \/ WaitCheck \/ Joined \/ Destroy
    PROVE  IInv'
<1> DEFINE Same == UNCHANGED <<rb, transmitting, queued, finished, tx, taken, rxRuns,
                               written, received, failures>>
           Tasks == {"idle", "loop", "spin", "check", "join", "stopped"}
<1>1. closing \in BOOLEAN /\ written \in Nat /\ written \in 0 .. MaxBytes
  BY TransmitAssumption DEF IInv, TypeOK
<1>2. /\ Same /\ task' \in Tasks /\ exit' \in 0 .. 2 /\ closing' \in BOOLEAN
      /\ waitFrom' \in {0, written, waitFrom}
      /\ \/ exit' = exit /\ closing' = closing /\ (closing => task' # "idle")
         \/ exit' = 2 /\ closing = FALSE /\ closing' = TRUE /\ task' # "idle"
  <2> USE DEF TaskStep, driver, txThread
  <2>1. ASSUME WaitWriteComplete \/ WaitLoop \/ WaitSpin \/ WaitCheck \/ Joined
        PROVE  /\ Same /\ task' \in Tasks /\ exit' = exit /\ closing' = closing
               /\ waitFrom' \in {0, written, waitFrom}
               /\ closing => task' # "idle"
    <3>1. CASE WaitWriteComplete
      BY <3>1 DEF WaitWriteComplete
    <3>2. CASE WaitLoop
      BY <3>2 DEF WaitLoop
    <3>3. CASE WaitSpin
      BY <3>3 DEF WaitSpin
    <3>4. CASE WaitCheck
      BY <3>4 DEF WaitCheck, Returned
    <3>5. CASE Joined
      BY <3>5 DEF Joined
    <3> QED
      BY <2>1, <3>1, <3>2, <3>3, <3>4, <3>5
  <2>2. CASE Destroy
    <3>1. closing = FALSE
      BY <1>1, <2>2 DEF IInv, ExitInv, Destroy
    <3>2. /\ Same /\ task' = "join" /\ exit' = 2 /\ closing' = TRUE /\ waitFrom' = waitFrom
      BY <2>2 DEF Destroy
    <3>3. exit' \in 0 .. 2
      BY <3>2
    <3> QED
      BY <3>1, <3>2, <3>3, Zenon
  <2>3. exit \in 0 .. 2
    BY DEF IInv, TypeOK
  <2> QED
    BY <1>1, <2>1, <2>2, <2>3
<1>3. RingInv(rb') /\ LoanInv' /\ DataInv' /\ CountInv'
  BY <1>2, SameData
<1>4. waitFrom' \in 0 .. MaxBytes /\ waitFrom' =< written'
  <2>1. waitFrom \in 0 .. MaxBytes /\ waitFrom =< written /\ MaxBytes \in Nat
    BY TransmitAssumption DEF IInv, TypeOK, WaitInv
  <2> QED
    BY <1>1, <1>2, <2>1
<1>5. TypeOK'
  BY <1>2, <1>4 DEF IInv, TypeOK
<1>6. ExitInv'
  <2>1. CASE exit' = exit /\ closing' = closing /\ (closing => task' # "idle")
    BY <1>1, <1>2, <2>1 DEF IInv, ExitInv
  <2>2. CASE exit' = 2 /\ closing = FALSE /\ closing' = TRUE /\ task' # "idle"
    <3>1. rxRuns = TRUE /\ tx # "gone" /\ 2 = 1 + 1
      BY <2>2 DEF IInv, ExitInv
    <3> QED
      BY <1>2, <2>2, <3>1 DEF ExitInv
  <2> QED
    BY <1>2, <2>1, <2>2
<1> QED
  BY <1>3, <1>4, <1>5, <1>6 DEF IInv, WaitInv

\* Every step keeps the invariant.
LEMMA NextIInv == IInv /\ [Next]_vars => IInv'
<1> SUFFICES ASSUME IInv, [Next]_vars PROVE IInv'
  OBVIOUS
<1>1. CASE \E len \in Lengths : WriteData(len)
  BY <1>1, WriteKeepsIInv
<1>2. CASE HostReads
  BY <1>2, HostReadsKeepsIInv
<1>3. CASE TxThread
  BY <1>3, TxFinishedKeepsIInv, TxCommitKeepsIInv, TxStartKeepsIInv, TxResetKeepsIInv,
     ThreadsKeepIInv DEF TxThread
<1>4. CASE RxLeave
  BY <1>4, ThreadsKeepIInv
<1>5. CASE WaitWriteComplete \/ Destroy \/ AtTask
  BY <1>5, AtTaskKeepsIInv DEF AtTask
<1>6. CASE UNCHANGED vars
  <2>1. UNCHANGED <<rb, transmitting, queued, finished, exit, tx, taken, rxRuns, task,
                    closing, waitFrom, written, received, failures>>
    BY <1>6 DEF vars, driver, txThread, atTask
  <2>2. RingInv(rb') /\ LoanInv' /\ DataInv' /\ CountInv'
    BY <2>1, SameData
  <2> QED
    BY <2>1, <2>2 DEF IInv, TypeOK, ExitInv, WaitInv
<1> QED
  BY <1>1, <1>2, <1>3, <1>4, <1>5, <1>6 DEF Next

-------------------------------------------------------------------------------
(* Theorems *)

\* The invariant holds in every state.
LEMMA Invariant == Safe => []IInv
BY InitIInv, NextIInv, PTL DEF Safe

\* Every variable keeps its type: txBuf_'s indexes stay inside it, its tail never gives
\* up more than was lent, and exit_ never counts a thread twice.
THEOREM Types == Safe => []TypeOK
<1>1. IInv => TypeOK
  BY DEF IInv
<1> QED
  BY <1>1, Invariant, PTL

\* The driver is lent one block at a time, and transmitting_ says when.
THEOREM LentOnce == Safe => []OneBlockLent
<1>1. IInv => OneBlockLent
  BY DEF IInv, LoanInv
<1> QED
  BY <1>1, Invariant, PTL

\* Whatever the sizes, startTransmission() finds space for the padding, and what it
\* hands to the driver are whole words, also when writeData() has just filled the buffer.
THEOREM PaddingFits == Safe => []NeverRefused
<1>1. IInv => NeverRefused
  <2> SUFFICES ASSUME IInv, transmitting = FALSE, NEW b \in Handed, Sendable(b) # 0
               PROVE  ~Refused(b)
    BY DEF IInv, TypeOK, NeverRefused
  <2>1. CASE b = rb /\ Left
    <3>1. rb.tailPending = 0 /\ RingInv(rb)
      BY <2>1 DEF IInv, LoanInv
    <3> QED
      BY <2>1, <3>1, PadRing
  <2>2. CASE b = rb /\ ~Left
    <3>1. rb.tailPending = 0 /\ RingInv(rb)
      BY <2>2, NothingLent DEF IInv
    <3> QED
      BY <2>2, <3>1, PadRing
  <2>3. ASSUME NEW len \in Lengths, MayWrite(len), b = Filled(len)
        PROVE  ~Refused(b)
    <3>1. ~Left
      BY <2>3 DEF MayWrite, IInv, ExitInv, TypeOK, Left
    <3>2. RingInv(Filled(len)) /\ Filled(len).tailPending = rb.tailPending
      BY <2>3, <3>1, WriteFills, TransmitAssumption DEF MayWrite
    <3>3. RingInv(b) /\ b.tailPending = 0
      BY <2>3, <3>1, <3>2, NothingLent DEF IInv
    <3> QED
      BY <3>3, PadRing
  <2> QED
    BY <2>1, <2>2, <2>3 DEF Handed
<1> QED
  BY <1>1, Invariant, PTL

\* As long as the driver takes every block, the host gets what was written, in order.
THEOREM HostGetsWritten == Safe => []ReceivesWrittenIfSent
<1>1. IInv => ReceivesWrittenIfSent
  BY DEF IInv, DataInv, ReceivesWrittenIfSent
<1> QED
  BY <1>1, Invariant, PTL

\* waitWriteComplete() returns RESULT_OK only when the host has read what it waits for,
\* even when the driver has refused blocks.
THEOREM WaitedForIsRead == Safe => CompleteMeansRead
<1> DEFINE A == task = "check" /\ task' = "idle" => Len(received) >= waitFrom
<1>1. IInv /\ [Next]_vars => [A]_vars
  <2> SUFFICES ASSUME IInv, [Next]_vars, task = "check", task' = "idle"
               PROVE  Len(received) >= waitFrom
    OBVIOUS
  <2>1. WaitCheck
    BY DEF Next, vars, WriteData, HostReads, TxThread, TxLoop, TxFinished, TxTimeout, TxCommit,
           TxStart, TxReset, TxLeave, RxLeave, WaitWriteComplete, Destroy, AtTask, WaitLoop,
           WaitSpin, Joined, TaskStep, TxStep, atTask
  <2>2. Empty(rb) /\ closing = FALSE
    BY <2>1 DEF WaitCheck, TaskStep, Returned, IInv, TypeOK
  <2>3. ~Left
    BY <2>2 DEF IInv, ExitInv, Left
  <2>4. /\ DataSize(rb) = 0 /\ rb.tailPending \in 0 .. Size /\ Size \in Nat
        /\ rb.tailPending =< DataSize(rb)
    BY <2>2, RingFacts DEF IInv, RingInv
  <2>5. rb.tailPending = 0
    BY <2>4
  <2>6. queued = <<>>
    <3> SUFFICES ASSUME queued # <<>> PROVE FALSE
      OBVIOUS
    <3>1. Head(queued).consume = 0
      BY <2>3, <2>5 DEF IInv, LoanInv, OneBlockLent, Left
    <3>2. Head(queued) \in Descriptors
      BY OneInSequence DEF IInv, TypeOK
    <3> QED
      BY <3>1, <3>2, WholeWords DEF Descriptors
  <2>7. written =< (Len(received) + 0) + (0 - 0)
    BY <2>3, <2>4, <2>5, <2>6 DEF IInv, CountInv, Counted, Given
  <2>8. Len(received) \in Nat /\ written \in Nat /\ waitFrom \in Nat /\ waitFrom =< written
    BY OneInSequence, TransmitAssumption DEF IInv, TypeOK, WaitInv
  <2> QED
    BY <2>7, <2>8
<1> QED
  BY <1>1, Invariant, PTL DEF Safe, CompleteMeansRead

-------------------------------------------------------------------------------
(* Nothing is left behind *)

\* While bytes are in txBuf_, one block is on its way, whose end makes the TX thread send
\* the next one, or the thread is about to look for more: a write that finds a block on
\* its way may leave the rest to the thread.
NothingLeftBehind == failures = 0 /\ ~Empty(rb) => transmitting \/ tx = "start"

\* With nothing lent, startTransmission() finds nothing to send in an empty buffer only.
LEMMA NothingToSend ==
    ASSUME NEW b, RingInv(b), b.tailPending = 0, Sendable(b) = 0
    PROVE  Empty(b)
<1>1. /\ b.head \in Nat /\ b.tail \in Nat /\ b.tail < Size /\ Size \in Nat
      /\ b.full = TRUE \/ b.full = FALSE
  BY RingFacts DEF Index
<1>2. Wrap(b.tail + b.tailPending) = b.tail
  BY <1>1 DEF Wrap
<1>3. Consumable(b) = IF b.head >= b.tail /\ b.full = FALSE
                      THEN b.head - b.tail ELSE Size - b.tail
  BY <1>1, <1>2 DEF Consumable
<1>4. Consumable(b) \in Int /\ Block \in Nat /\ Block # 0
  BY <1>1, <1>3, WholeWords
<1>5. Consumable(b) = 0
  BY <1>4 DEF Sendable, Least
<1>6. b.full = FALSE /\ b.head = b.tail
  BY <1>1, <1>3, <1>5
<1> QED
  BY <1>6 DEF Empty

\* After startTransmission() a block is on its way, unless there is nothing to send or
\* the driver has refused it.
LEMMA StartLeavesNothing ==
    ASSUME NEW b, RingInv(b), transmitting = FALSE => b.tailPending = 0,
           transmitting \in BOOLEAN, failures \in Nat, StartTransmission(b)
    PROVE  failures' = 0 /\ ~Empty(rb') => transmitting'
<1>1. CASE NothingStarted(b)
  <2>1. /\ rb' = b /\ transmitting' = transmitting
        /\ transmitting = TRUE \/ Sendable(b) = 0
    BY <1>1, NothingChanges
  <2>2. CASE transmitting = TRUE
    BY <2>1, <2>2
  <2>3. CASE transmitting = FALSE
    <3>1. Empty(b)
      BY <2>1, <2>3, NothingToSend
    <3> QED
      BY <2>1, <3>1
  <2> QED
    BY <2>2, <2>3
<1>2. CASE Start(b)
  BY <1>2 DEF Start
<1>3. CASE StartFails(b)
  <2>1. failures' = failures + 1
    BY <1>3 DEF StartFails
  <2> QED
    BY <2>1
<1> QED
  BY <1>1, <1>2, <1>3 DEF StartTransmission

\* A step of a writer or of the TX thread leaves no byte without a block on its way.
LEMMA NextLeavesNothing == IInv /\ NothingLeftBehind /\ [Next]_vars => NothingLeftBehind'
<1> SUFFICES ASSUME IInv, NothingLeftBehind, [Next]_vars PROVE NothingLeftBehind'
  OBVIOUS
<1>1. TypeOK /\ LoanInv /\ RingInv(rb) /\ transmitting \in BOOLEAN /\ failures \in Nat
  BY TransmitAssumption DEF IInv, TypeOK
<1>2. ASSUME UNCHANGED <<rb, transmitting, failures>>, tx # "start" \/ tx' = "start"
      PROVE  NothingLeftBehind'
  BY <1>2 DEF NothingLeftBehind, Empty
<1>3. CASE \E len \in Lengths : WriteData(len)
  <2>1. PICK len \in Lengths : WriteData(len)
    BY <1>3
  <2> DEFINE n == Stored(len)
             b == Filled(len)
  <2>2. closing = FALSE /\ written + n =< MaxBytes /\ StartTransmission(b)
    BY <2>1 DEF IInv, TypeOK, WriteData, MayWrite
  <2>3. ~Left /\ len \in Nat
    BY <2>2, TransmitAssumption DEF IInv, ExitInv, Left
  <2>4. RingInv(b) /\ b.tailPending = rb.tailPending
    BY <2>2, <2>3, WriteFills
  <2> HIDE DEF n, b
  <2>5. transmitting = FALSE => b.tailPending = 0
    BY <1>1, <2>3, <2>4, NothingLent
  <2>6. failures' = 0 /\ ~Empty(rb') => transmitting'
    BY <1>1, <2>2, <2>4, <2>5, StartLeavesNothing
  <2> QED
    BY <2>6 DEF NothingLeftBehind, Empty
<1>4. CASE TxStart
  <2>1. tx = "start" /\ StartTransmission(rb)
    BY <1>4 DEF TxStart, TxStep
  <2>2. transmitting = FALSE => rb.tailPending = 0
    BY <1>1, <2>1, NothingLent DEF Left
  <2>3. failures' = 0 /\ ~Empty(rb') => transmitting'
    BY <1>1, <2>1, <2>2, StartLeavesNothing
  <2> QED
    BY <2>3 DEF NothingLeftBehind, Empty
<1>5. CASE TxCommit
  BY <1>5 DEF TxCommit, TxStep, NothingLeftBehind
<1>6. CASE TxReset
  <2>1. rb' = Reset(rb) /\ rb \in Buffers
    BY <1>1, <1>6 DEF TxReset, RingInv
  <2>2. Empty(rb')
    BY <2>1 DEF Reset, Empty, Buffers
  <2> QED
    BY <2>2 DEF NothingLeftBehind, Empty
<1>7. CASE TxLoop \/ TxFinished \/ TxTimeout \/ TxLeave
  BY <1>2, <1>7 DEF TxLoop, TxFinished, TxTimeout, TxLeave, TxStep
<1>8. CASE HostReads \/ RxLeave
  BY <1>2, <1>8 DEF HostReads, RxLeave, txThread
<1>9. CASE WaitWriteComplete \/ Destroy \/ AtTask
  BY <1>2, <1>9 DEF WaitWriteComplete, Destroy, AtTask, WaitLoop, WaitSpin, WaitCheck, Joined,
                    TaskStep, txThread
<1>10. CASE UNCHANGED vars
  BY <1>2, <1>10 DEF vars, txThread
<1> QED
  BY <1>3, <1>4, <1>5, <1>6, <1>7, <1>8, <1>9, <1>10 DEF Next, TxThread

\* As long as the driver takes every block, no byte stays in txBuf_ with nobody to send it.
THEOREM NothingStranded == Safe => []NothingLeftBehind
<1>1. Init => NothingLeftBehind
  BY DEF Init, NothingLeftBehind, Empty, New
<1> QED
  BY <1>1, NextLeavesNothing, Invariant, PTL DEF Safe

-------------------------------------------------------------------------------
(* txBuf_ implements ByteQueue *)

\* Buffer b holds the bytes of buffer a, and perhaps more behind them.
Grown(a, b) ==
    /\ b.tail = a.tail
    /\ DataSize(a) =< DataSize(b)
    /\ \A i \in 0 .. DataSize(a) - 1 : b.cell[Wrap(a.tail + i)] = a.cell[Wrap(a.tail + i)]

\* The abstract queue has one element for each byte in the buffer.
LEMMA ContentsFacts ==
    ASSUME NEW b, RingInv(b)
    PROVE  /\ Len(Contents(b)) = DataSize(b)
           /\ \A i \in 1 .. DataSize(b) : Contents(b)[i] = b.cell[Wrap(b.tail + i - 1)]
           /\ DataSize(b) = 0 => Contents(b) = <<>>
<1>1. DataSize(b) \in Nat
  BY RingFacts
<1> QED
  BY <1>1 DEF Contents

\* A buffer that has grown is a queue to which bytes were added, or the same queue.
LEMMA GrownEnqueues ==
    ASSUME RingInv(rb), RingInv(rb'), Grown(rb, rb')
    PROVE  Ring!Enqueue \/ UNCHANGED Contents(rb)
<1> DEFINE k == DataSize(rb)
<1>1. /\ k \in 0 .. Size /\ DataSize(rb') \in 0 .. Size /\ Size \in Nat
      /\ rb.tail \in Nat
  BY RingFacts DEF Index
<1>2. rb'.tail = rb.tail /\ k =< DataSize(rb')
  BY DEF Grown
<1>3. ASSUME NEW i \in 1 .. k
      PROVE  rb'.cell[Wrap(rb'.tail + i - 1)] = rb.cell[Wrap(rb.tail + i - 1)]
  <2>1. i - 1 \in 0 .. k - 1 /\ rb.tail + (i - 1) = rb.tail + i - 1
    BY <1>1
  <2> QED
    BY <1>2, <2>1 DEF Grown
<1>4. CASE DataSize(rb') = k
  <2>1. Contents(rb') = [i \in 1 .. k |-> rb'.cell[Wrap(rb'.tail + i - 1)]]
    BY <1>4 DEF Contents
  <2>2. Contents(rb) = [i \in 1 .. k |-> rb.cell[Wrap(rb.tail + i - 1)]]
    BY DEF Contents
  <2> HIDE DEF k
  <2>3. Contents(rb') = Contents(rb)
    BY <1>3, <2>1, <2>2
  <2> QED
    BY <2>3
<1>5. CASE DataSize(rb') # k
  <2>1. Len(Contents(rb)) = k /\ Len(Contents(rb')) = DataSize(rb')
    BY ContentsFacts
  <2>2. DataSize(rb') \in k + 1 .. Size
    BY <1>1, <1>2, <1>5
  <2>3. ASSUME NEW i \in 1 .. k PROVE Contents(rb')[i] = Contents(rb)[i]
    <3>1. i \in 1 .. DataSize(rb')
      BY <1>1, <1>2
    <3> QED
      BY <1>3, <3>1, ContentsFacts
  <2> HIDE DEF k
  <2> QED
    BY <2>1, <2>2, <2>3 DEF Ring!Enqueue
<1> QED
  BY <1>4, <1>5

\* startTransmission() adds nothing but padding.
LEMMA StartGrows ==
    ASSUME IInv, ~Left, NEW b, RingInv(b), b.tailPending = rb.tailPending,
           StartTransmission(b)
    PROVE  Grown(b, rb')
<1>1. DataSize(b) \in 0 .. Size /\ Size \in Nat /\ transmitting \in BOOLEAN
  BY RingFacts DEF IInv, TypeOK
<1>2. CASE NothingStarted(b)
  <2>1. rb' = b
    BY <1>1, <1>2, NothingLent, NothingChanges DEF IInv
  <2> QED
    BY <1>1, <2>1 DEF Grown
<1>3. CASE Start(b) \/ StartFails(b)
  <2> DEFINE p == Consume(Padded(b), Lent(b))
             t == ConsumeCommit(p, 0, Lent(b))
  <2>1. transmitting = FALSE /\ Sendable(b) # 0 /\ (rb' = p \/ rb' = t)
    BY <1>1, <1>3 DEF Start, StartFails
  <2>2. b.tailPending = 0
    BY <2>1, NothingLent DEF IInv
  <2>3. /\ p.tail = b.tail /\ p.cell = b.cell /\ DataSize(p) = DataSize(b) + Padding(b)
        /\ t.tail = b.tail /\ t.cell = b.cell /\ DataSize(t) = DataSize(b) + Padding(b)
    BY <2>1, <2>2, LendRing
  <2>4. Padding(b) \in 0 .. 3
    BY <2>1, <2>2, SendableFacts
  <2> HIDE DEF p, t
  <2>5. /\ rb'.tail = b.tail /\ rb'.cell = b.cell
        /\ DataSize(rb') = DataSize(b) + Padding(b)
    BY <2>1, <2>3
  <2>6. DataSize(b) =< DataSize(rb')
    BY <1>1, <2>4, <2>5
  <2> QED
    BY <2>5, <2>6 DEF Grown
<1> QED
  BY <1>2, <1>3 DEF StartTransmission

\* writeData() adds bytes to the queue.
LEMMA WriteEnqueues ==
    ASSUME IInv, NEW len \in Lengths, WriteData(len)
    PROVE  Ring!Enqueue \/ UNCHANGED Contents(rb)
<1> DEFINE n == Stored(len)
           v == NewBytes(n)
           b == Filled(len)
<1>1. /\ closing = FALSE /\ written + n =< MaxBytes /\ StartTransmission(b)
  BY DEF IInv, TypeOK, WriteData, MayWrite
<1>2. ~Left /\ len \in Nat
  BY <1>1, TransmitAssumption DEF IInv, ExitInv, Left
<1>3. RingInv(b) /\ b.tail = rb.tail /\ b.tailPending = rb.tailPending
  BY <1>1, <1>2, WriteFills
<1>4. /\ RingInv(rb) /\ DataSize(rb) \in 0 .. Size /\ Size \in Nat
      /\ Space(rb) = Size - DataSize(rb)
  BY RingFacts DEF IInv
<1>5. Grown(rb, b)
  <2>1. n \in Nat /\ n =< Space(rb)
    BY <1>2, <1>4 DEF Stored, Least
  <2>2. CASE n = 0
    <3>1. b = rb
      BY <2>2 DEF Filled
    <3> HIDE DEF b
    <3> QED
      BY <1>4, <3>1 DEF Grown
  <2>3. CASE n # 0
    <3>1. b = Put(rb, v) /\ n \in 1 .. Space(rb)
      BY <1>4, <2>1, <2>3 DEF Filled
    <3> HIDE DEF n
    <3>2. v \in Seq(Byte) /\ Len(v) = n
      <4>1. \A i \in 1 .. n : written + i \in Byte
        BY <1>1, <2>1, TransmitAssumption DEF IInv, TypeOK
      <4>2. v \in [1 .. n -> Byte]
        BY <4>1 DEF NewBytes
      <4> QED
        BY <2>1, <4>2
    <3> HIDE DEF b, v
    <3>3. /\ DataSize(b) = DataSize(rb) + n
          /\ \A i \in 0 .. DataSize(rb) - 1 :
                 b.cell[Wrap(rb.tail + i)] = rb.cell[Wrap(rb.tail + i)]
      BY <1>4, <3>1, <3>2, PutRing
    <3>4. DataSize(rb) =< DataSize(b)
      BY <1>4, <2>1, <3>3
    <3> QED
      BY <1>3, <3>3, <3>4 DEF Grown
  <2> QED
    BY <2>2, <2>3
<1> HIDE DEF b, n
<1>6. Grown(b, rb')
  BY <1>1, <1>2, <1>3, StartGrows
<1>7. Grown(rb, rb')
  <2>1. DataSize(b) \in 0 .. Size
    BY <1>3, RingFacts
  <2>2. /\ rb'.tail = rb.tail
        /\ DataSize(rb) =< DataSize(b) /\ DataSize(b) =< DataSize(rb')
    BY <1>3, <1>5, <1>6 DEF Grown
  <2>3. DataSize(rb') \in Nat
    <3>1. RingInv(rb')
      BY WriteKeepsIInv DEF IInv
    <3> QED
      BY <3>1, RingFacts
  <2>4. DataSize(rb) =< DataSize(rb')
    BY <1>4, <2>1, <2>2, <2>3
  <2>5. ASSUME NEW i \in 0 .. DataSize(rb) - 1
        PROVE  rb'.cell[Wrap(rb.tail + i)] = rb.cell[Wrap(rb.tail + i)]
    <3>1. i \in 0 .. DataSize(b) - 1
      BY <1>4, <2>1, <2>2
    <3> QED
      BY <1>3, <1>5, <1>6, <3>1 DEF Grown
  <2> QED
    BY <2>2, <2>4, <2>5 DEF Grown
<1> QED
  BY <1>4, <1>7, WriteKeepsIInv, GrownEnqueues DEF IInv

\* Giving up a block takes it from the front of the queue.
LEMMA CommitDequeues ==
    ASSUME IInv, TxCommit
    PROVE  Ring!Dequeue \/ UNCHANGED Contents(rb)
<1> DEFINE n == rb.tailPending
           c == ConsumeCommit(rb, n, 0)
           k == DataSize(rb)
<1>1. n = taken
  <2>1. tx = "commit" /\ ~Left
    BY DEF TxCommit, TxStep, Left
  <2>2. /\ Len(queued) + Len(finished) + 1 = (IF transmitting THEN 1 ELSE 0)
        /\ rb.tailPending = (CASE queued # <<>> -> Head(queued).consume
                               [] finished # <<>> -> Head(finished)
                               [] tx = "commit" -> taken
                               [] OTHER -> 0)
    BY <2>1 DEF IInv, LoanInv, OneBlockLent, Left
  <2>3. queued \in Seq(Descriptors) /\ finished \in Seq(1 .. Block)
    BY DEF IInv, TypeOK
  <2>4. /\ Len(queued) \in Nat /\ Len(finished) \in Nat
        /\ Len(queued) = 0 <=> queued = <<>>
        /\ Len(finished) = 0 <=> finished = <<>>
    BY <2>3, OneInSequence
  <2>5. queued = <<>> /\ finished = <<>>
    BY <2>2, <2>4
  <2> QED
    BY <2>1, <2>2, <2>5
<1>2. /\ RingInv(rb) /\ rb' = c /\ n \in 0 .. Size /\ k \in 0 .. Size /\ Size \in Nat
      /\ rb.tail \in Nat /\ n =< k
  <2>1. RingInv(rb) /\ n =< k
    BY DEF IInv, RingInv
  <2>2. /\ n \in 0 .. Size /\ k \in 0 .. Size /\ Size \in Nat /\ rb.tail \in Nat
    BY <2>1, RingFacts DEF Index
  <2>3. rb' = c
    BY <1>1 DEF TxCommit
  <2> QED
    BY <2>1, <2>2, <2>3
<1>3. /\ RingInv(c) /\ c.cell = rb.cell /\ DataSize(c) = k - n
      /\ \A i \in 0 .. Size - 1 : Wrap(c.tail + i) = Wrap(rb.tail + (n + i))
  BY <1>2, CommitRing
<1>4. c.tail \in Nat
  BY <1>3, RingFacts DEF Index
<1> HIDE DEF c
<1>5. /\ Len(Contents(rb)) = k /\ Len(Contents(c)) = k - n
      /\ \A i \in 1 .. k : Contents(rb)[i] = rb.cell[Wrap(rb.tail + i - 1)]
      /\ \A i \in 1 .. k - n : Contents(c)[i] = c.cell[Wrap(c.tail + i - 1)]
  BY <1>2, <1>3, ContentsFacts
<1> HIDE DEF n, k
<1>6. ASSUME NEW i \in 1 .. k - n
      PROVE  c.cell[Wrap(c.tail + i - 1)] = rb.cell[Wrap(rb.tail + (i + n) - 1)]
  <2>1. /\ i - 1 \in 0 .. Size - 1
        /\ c.tail + (i - 1) = c.tail + i - 1
        /\ rb.tail + (n + (i - 1)) = rb.tail + (i + n) - 1
    BY <1>2, <1>4
  <2> QED
    BY <1>3, <2>1
<1>7. ASSUME NEW i \in 1 .. k - n
      PROVE  Contents(c)[i] = Contents(rb)[i + n]
  <2>1. i + n \in 1 .. k
    BY <1>2
  <2> QED
    BY <1>5, <1>6, <2>1
<1>8. CASE n = 0
  <2>1. k - n = k /\ \A i \in 1 .. k : i + n = i
    BY <1>2, <1>8
  <2>2. Contents(c) = [i \in 1 .. k |-> c.cell[Wrap(c.tail + i - 1)]]
    BY <1>3, <2>1 DEF Contents
  <2>3. Contents(rb) = [i \in 1 .. k |-> rb.cell[Wrap(rb.tail + i - 1)]]
    BY DEF Contents, k
  <2>4. \A i \in 1 .. k : c.cell[Wrap(c.tail + i - 1)] = rb.cell[Wrap(rb.tail + i - 1)]
    BY <1>6, <2>1
  <2>5. Contents(c) = Contents(rb)
    BY <2>2, <2>3, <2>4
  <2> QED
    BY <1>2, <2>5
<1>9. CASE n # 0
  <2>1. n \in 1 .. Len(Contents(rb))
    BY <1>2, <1>5, <1>9
  <2> QED
    BY <1>2, <1>5, <1>7, <2>1 DEF Ring!Dequeue
<1> QED
  BY <1>8, <1>9

\* Whatever the sizes and the failures of the driver, txBuf_ is a bounded queue: no
\* byte in it is overwritten, moved or lost before it is given up.
THEOREM TxBufferIsQueue == Safe => RingIsQueue
<1>1. Init => Ring!Init
  <2> SUFFICES ASSUME Init PROVE Contents(rb) = <<>>
    BY DEF Ring!Init
  <2>1. RingInv(rb)
    BY InitIInv DEF IInv
  <2>2. DataSize(rb) = 0
    BY DEF Init, New, DataSize
  <2> QED
    BY <2>1, <2>2, ContentsFacts
<1>2. IInv /\ [Next]_vars => [Ring!Next]_(Contents(rb))
  <2> SUFFICES ASSUME IInv, [Next]_vars
               PROVE  \/ Ring!Enqueue \/ Ring!Dequeue \/ Ring!Clear
                      \/ UNCHANGED Contents(rb)
    BY DEF Ring!Next
  <2>1. CASE \E len \in Lengths : WriteData(len)
    BY <2>1, WriteEnqueues
  <2>2. CASE TxStart
    <3>1. ~Left /\ StartTransmission(rb) /\ RingInv(rb)
      BY <2>2 DEF TxStart, TxStep, Left, IInv
    <3>2. Grown(rb, rb') /\ RingInv(rb')
      BY <2>2, <3>1, StartGrows, TxStartKeepsIInv DEF IInv
    <3> QED
      BY <3>1, <3>2, GrownEnqueues
  <2>3. CASE TxCommit
    BY <2>3, CommitDequeues
  <2>4. CASE TxReset
    <3>1. RingInv(rb')
      BY <2>4, TxResetKeepsIInv DEF IInv
    <3>2. DataSize(rb') = 0
      BY <2>4 DEF TxReset, Reset, DataSize, IInv, RingInv, Buffers
    <3> QED
      BY <3>1, <3>2, ContentsFacts DEF Ring!Clear
  <2>5. ASSUME rb' = rb PROVE UNCHANGED Contents(rb)
    BY <2>5
  <2>6. \/ \E len \in Lengths : WriteData(len)
        \/ TxStart \/ TxCommit \/ TxReset \/ rb' = rb
    BY DEF Next, vars, HostReads, TxThread, TxLoop, TxFinished, TxTimeout, TxLeave, RxLeave,
           WaitWriteComplete, Destroy, AtTask, WaitLoop, WaitSpin, WaitCheck, Joined, TaskStep
  <2> QED
    BY <2>1, <2>2, <2>3, <2>4, <2>5, <2>6
<1> QED
  BY <1>1, <1>2, Invariant, PTL DEF Safe, RingIsQueue, Ring!Safe
===============================================================================
