------------------------- MODULE SdioReceive_proofs -------------------------
(***************************************************************************)
(* Proofs about SdioReceive, for any number of buffers, bytes and          *)
(* notifications, and packets and reads of any length.                     *)
(***************************************************************************)
EXTENDS SdioReceive, SequenceTheorems, FiniteSetTheorems, TLAPS

-------------------------------------------------------------------------------
(* The inductive invariant *)

In(b, s) == \E i \in 1 .. Len(s) : s[i] = b
Distinct(s) == \A i, j \in 1 .. Len(s) : s[i] = s[j] => i = j

\* The host fills a buffer with consecutive bytes, from FirstByte to LastByte.
Contents == Seq(1 .. MaxBytes)
FirstByte(c) == c[1]
LastByte(c) == c[1] + Len(c) - 1
Whole(c) == Len(c) > 0 /\ \A i \in 1 .. Len(c) : c[i] = FirstByte(c) + i - 1

\* With contents d the buffers of s hold the bytes after lo up to hi, in order.
Run(d, s, lo, hi) ==
    /\ lo =< hi
    /\ \A i \in 1 .. Len(s) :
           Whole(d[s[i]]) /\ lo < FirstByte(d[s[i]]) /\ LastByte(d[s[i]]) =< hi
    /\ \A i, j \in 1 .. Len(s) : i < j => LastByte(d[s[i]]) < FirstByte(d[s[j]])
    /\ \A i \in 1 .. Len(s) - 1 : FirstByte(d[s[i + 1]]) = LastByte(d[s[i]]) + 1
    /\ s = <<>> => lo = hi
    /\ s # <<>> => FirstByte(d[s[1]]) = lo + 1 /\ LastByte(d[s[Len(s)]]) = hi

\* How many bytes have been put onto the list.
Linked == Len(got) + rxData + (IF rx = "count" THEN ret ELSE 0) - done

\* The last byte that the RX thread has taken from the driver.
Taken == IF rx = "link" THEN LastByte(data[fetched]) ELSE Linked

TypeInv ==
    /\ loaded \in Seq(Buffer) /\ filled \in Seq(Buffer)
    /\ data \in [Buffer -> Contents]
    /\ left \in [Buffer -> 0 .. MaxBytes] /\ pos \in [Buffer -> 0 .. MaxBytes]
    /\ next \in [Buffer -> Buffer \cup {Null}]
    /\ {listHead, listTail, fetched, buf} \subseteq Buffer \cup {Null}
    /\ rxData \in Int
    /\ rx \in {"fetch", "link", "count", "notify"}
    /\ reader \in {"idle", "core", "direct", "read", "unlink", "reload", "return"}
    /\ ret \in 0 .. MaxBytes /\ toRead \in Nat /\ done \in Nat
    /\ direct \in BOOLEAN /\ leftover \in BOOLEAN
    /\ notes \in 0 .. CoreDepth
    /\ sent \in 0 .. MaxBytes /\ got \in Contents

\* place says where each buffer is; q are the buffers on the list.
Placed(q, place) ==
    /\ Distinct(loaded) /\ Distinct(filled) /\ Distinct(q)
    /\ \A b \in Buffer :
           /\ place[b] = "loaded" <=> In(b, loaded)
           /\ place[b] = "filled" <=> In(b, filled)
           /\ place[b] = "list" <=> In(b, q)
           /\ place[b] = "fetched" <=> rx = "link" /\ fetched = b
           /\ place[b] = "returned" <=> reader = "reload" /\ buf = b
    /\ rx = "link" => fetched # Null
    /\ reader = "reload" => buf # Null

\* listHead, listTail and next make a list of the buffers of q.
Chained(q) ==
    /\ IF q = <<>> THEN listHead = Null /\ listTail = Null
       ELSE listHead = q[1] /\ listTail = q[Len(q)] /\ next[listTail] = Null
    /\ \A i \in 1 .. Len(q) - 1 : next[q[i]] = q[i + 1]
    /\ rx = "link" => next[fetched] = Null

\* What readData() has read of the list.
Reading(q) ==
    /\ \A i \in 1 .. Len(q) : pos[q[i]] + left[q[i]] = Len(data[q[i]])
    /\ \A i \in 2 .. Len(q) : pos[q[i]] = 0
    /\ reader = "unlink" => q # <<>> /\ buf = q[1] /\ left[q[1]] = 0
    /\ reader # "unlink" /\ q # <<>> => left[q[1]] > 0
    /\ reader \in {"idle", "core", "direct"} => done = 0
    /\ done =< Len(got)

\* The bytes that were sent and not yet read are on the list, with the RX thread and in
\* the driver, in this order.
Ordered(q) ==
    /\ Run(data, q, Len(got) - (IF q = <<>> THEN 0 ELSE pos[q[1]]), Linked)
    /\ rx = "link" =>
         /\ Whole(data[fetched]) /\ FirstByte(data[fetched]) = Linked + 1
         /\ ret = Len(data[fetched]) /\ left[fetched] = ret /\ pos[fetched] = 0
    /\ Run(data, filled, Taken, sent)

Places == {"loaded", "filled", "fetched", "list", "returned"}

Listed(q, place) ==
    /\ q \in Seq(Buffer) /\ place \in [Buffer -> Places]
    /\ Placed(q, place) /\ Chained(q) /\ Reading(q) /\ Ordered(q)

RInv ==
    /\ TypeInv
    /\ ReadInOrder
    /\ \E q, place : Listed(q, place)

-------------------------------------------------------------------------------
(* Queues of buffers, and what they hold *)

LEMMA MaxIsNat == MaxBytes \in Nat
BY ReceiveAssumption

\* The front of a queue.
LEMMA HeadFacts ==
    ASSUME NEW S, NEW s \in Seq(S), s # <<>>
    PROVE  /\ Len(s) \in Nat /\ Len(s) > 0
           /\ s[1] \in S /\ Head(s) = s[1]
           /\ s[Len(s)] \in S
<1>1. Len(s) \in Nat /\ Len(s) > 0
  BY EmptySeq
<1>2. \A i \in 1 .. Len(s) : s[i] \in S
  BY LenProperties
<1>3. 1 \in 1 .. Len(s) /\ Len(s) \in 1 .. Len(s)
  BY <1>1
<1>4. QED
  BY <1>1, <1>2, <1>3

\* A queue without its front.
LEMMA TailFacts ==
    ASSUME NEW S, NEW s \in Seq(S), s # <<>>
    PROVE  /\ Tail(s) \in Seq(S) /\ Len(Tail(s)) = Len(s) - 1
           /\ \A i \in 1 .. Len(s) - 1 : Tail(s)[i] = s[i + 1] /\ s[i + 1] \in S
           /\ Tail(s) = <<>> <=> Len(s) = 1
<1>1. Len(s) \in Nat /\ Len(s) > 0 /\ \A i \in 1 .. Len(s) : s[i] \in S
  BY HeadFacts, LenProperties
<1>2. /\ Tail(s) \in Seq(S) /\ Len(Tail(s)) = Len(s) - 1
      /\ \A i \in 1 .. Len(Tail(s)) : Tail(s)[i] = s[i + 1]
  BY HeadTailProperties
<1>3. ASSUME NEW t \in Seq(S), Len(t) = Len(s) - 1
      PROVE  t = <<>> <=> Len(s) = 1
  <2>1. CASE t = <<>>
    <3>1. Len(t) = 0
      BY <2>1
    <3>2. QED
      BY <1>1, <1>3, <2>1, <3>1
  <2>2. CASE t # <<>>
    BY <1>1, <1>3, <2>2, HeadFacts
  <2>3. QED
    BY <2>1, <2>2
<1>4. Tail(s) = <<>> <=> Len(s) = 1
  BY <1>2, <1>3, Zenon
<1>5. \A i \in 1 .. Len(s) - 1 : i + 1 \in 1 .. Len(s)
  BY <1>1
<1>6. QED
  BY <1>1, <1>2, <1>4, <1>5, Zenon

\* A buffer at the end of a queue.
LEMMA AppendFacts ==
    ASSUME NEW S, NEW s \in Seq(S), NEW b \in S
    PROVE  /\ Append(s, b) \in Seq(S) /\ Append(s, b) # <<>>
           /\ Len(s) \in Nat /\ Len(Append(s, b)) = Len(s) + 1
           /\ Append(s, b)[Len(s) + 1] = b
           /\ \A i \in 1 .. Len(s) : Append(s, b)[i] = s[i] /\ s[i] \in S
BY AppendProperties, LenProperties, AppendIsConcat

\* An empty queue has no length.
LEMMA EmptyFacts ==
    ASSUME NEW S, NEW s \in Seq(S)
    PROVE  Len(s) \in Nat /\ (s = <<>> <=> Len(s) = 0)
<1>1. CASE s = <<>>
  BY <1>1
<1>2. CASE s # <<>>
  BY <1>2, HeadFacts
<1>3. QED
  BY <1>1, <1>2

\* Taking a buffer from the front of a queue.
LEMMA TakeFront ==
    ASSUME NEW S, NEW s \in Seq(S), s # <<>>, Distinct(s)
    PROVE  /\ Distinct(Tail(s))
           /\ In(Head(s), s)
           /\ \A b : In(b, Tail(s)) <=> In(b, s) /\ b # Head(s)
<1>1. /\ Len(s) \in Nat /\ Len(s) > 0 /\ Head(s) = s[1]
      /\ Len(Tail(s)) = Len(s) - 1
      /\ \A i \in 1 .. Len(s) - 1 : Tail(s)[i] = s[i + 1]
  BY HeadFacts, TailFacts
<1>2. Distinct(Tail(s)) /\ In(Head(s), s)
  BY <1>1 DEF Distinct, In
<1>3. ASSUME NEW b, In(b, Tail(s)) PROVE In(b, s) /\ b # Head(s)
  <2>1. PICK i \in 1 .. Len(s) - 1 : Tail(s)[i] = b
    BY <1>1, <1>3 DEF In
  <2>2. i + 1 \in 1 .. Len(s) /\ s[i + 1] = b /\ i + 1 # 1
    BY <1>1, <2>1
  <2>3. QED
    BY <1>1, <2>2 DEF In, Distinct
<1>4. ASSUME NEW b, In(b, s), b # Head(s) PROVE In(b, Tail(s))
  <2>1. PICK i \in 1 .. Len(s) : s[i] = b
    BY <1>4 DEF In
  <2>2. i - 1 \in 1 .. Len(Tail(s)) /\ Tail(s)[i - 1] = b
    BY <1>1, <1>4, <2>1
  <2>3. QED
    BY <2>2 DEF In
<1>5. QED
  BY <1>2, <1>3, <1>4

\* Adding a buffer at the end of a queue.
LEMMA AddEnd ==
    ASSUME NEW S, NEW s \in Seq(S), NEW b \in S, Distinct(s), ~In(b, s)
    PROVE  /\ Distinct(Append(s, b))
           /\ \A c : In(c, Append(s, b)) <=> In(c, s) \/ c = b
<1>1. /\ Len(s) \in Nat /\ Len(Append(s, b)) = Len(s) + 1
      /\ Append(s, b)[Len(s) + 1] = b
      /\ \A i \in 1 .. Len(s) : Append(s, b)[i] = s[i] /\ s[i] # b
  BY AppendFacts DEF In
<1>2. ASSUME NEW i \in 1 .. Len(s) + 1, NEW j \in 1 .. Len(s) + 1,
             Append(s, b)[i] = Append(s, b)[j]
      PROVE  i = j
  <2>1. CASE i \in 1 .. Len(s) /\ j \in 1 .. Len(s)
    BY <1>1, <1>2, <2>1 DEF Distinct
  <2>2. CASE i = Len(s) + 1 \/ j = Len(s) + 1
    BY <1>1, <1>2, <2>2
  <2>3. QED
    BY <1>1, <2>1, <2>2
<1>3. ASSUME NEW c PROVE In(c, Append(s, b)) <=> In(c, s) \/ c = b
  <2>1. \A i \in 1 .. Len(s) + 1 : i \in 1 .. Len(s) \/ i = Len(s) + 1
    BY <1>1
  <2>2. 1 .. Len(s) \subseteq 1 .. Len(s) + 1 /\ Len(s) + 1 \in 1 .. Len(s) + 1
    BY <1>1
  <2>3. QED
    BY <1>1, <2>1, <2>2 DEF In
<1>4. QED
  BY <1>1, <1>2, <1>3 DEF Distinct

\* What is in a buffer.
LEMMA WholeFacts ==
    ASSUME NEW c \in Contents, Whole(c)
    PROVE  /\ Len(c) \in 1 .. MaxBytes
           /\ FirstByte(c) \in 1 .. MaxBytes /\ LastByte(c) \in 1 .. MaxBytes
           /\ FirstByte(c) =< LastByte(c)
<1>1. Len(c) \in Nat /\ Len(c) > 0 /\ \A i \in 1 .. Len(c) : c[i] \in 1 .. MaxBytes
  BY LenProperties DEF Contents, Whole
<1>2. 1 \in 1 .. Len(c) /\ Len(c) \in 1 .. Len(c)
  BY <1>1
<1>3. c[1] \in 1 .. MaxBytes /\ c[Len(c)] \in 1 .. MaxBytes
  BY <1>1, <1>2
<1>4. c[Len(c)] = c[1] + Len(c) - 1
  BY <1>2 DEF Whole, FirstByte
<1>5. QED
  BY <1>1, <1>3, <1>4, ReceiveAssumption DEF FirstByte, LastByte

\* The bytes of a queue are known from the contents of its buffers.
LEMMA RunFrame ==
    ASSUME NEW s \in Seq(Buffer), NEW d, NEW e, NEW lo, NEW hi, Run(d, s, lo, hi),
           \A i \in 1 .. Len(s) : e[s[i]] = d[s[i]]
    PROVE  Run(e, s, lo, hi)
<1>1. \A i \in 1 .. Len(s) - 1 : i \in 1 .. Len(s) /\ i + 1 \in 1 .. Len(s)
  BY EmptyFacts
<1>2. s # <<>> => 1 \in 1 .. Len(s) /\ Len(s) \in 1 .. Len(s)
  BY EmptyFacts
<1>3. QED
  BY <1>1, <1>2 DEF Run

\* An empty queue holds nothing.
LEMMA RunEmpty ==
    ASSUME NEW d, NEW n \in Int
    PROVE  Run(d, <<>>, n, n)
<1>1. Len(<<>>) = 0
  OBVIOUS
<1>2. QED
  BY <1>1 DEF Run

\* A queue's bytes when a buffer with the next ones is added.
LEMMA RunAppend ==
    ASSUME NEW d \in [Buffer -> Contents], NEW s \in Seq(Buffer), NEW b \in Buffer,
           NEW lo \in Int, NEW hi \in Int, Run(d, s, lo, hi),
           Whole(d[b]), FirstByte(d[b]) = hi + 1
    PROVE  Run(d, Append(s, b), lo, LastByte(d[b]))
<1> DEFINE t == Append(s, b)
           F(i) == FirstByte(d[t[i]])
           L(i) == LastByte(d[t[i]])
<1>1. /\ Len(s) \in Nat /\ Len(t) = Len(s) + 1 /\ t # <<>> /\ t[Len(s) + 1] = b
      /\ \A i \in 1 .. Len(s) : t[i] = s[i] /\ s[i] \in Buffer
  BY AppendFacts
<1>2. \A i \in 1 .. Len(s) :
          /\ Whole(d[t[i]]) /\ lo < F(i) /\ L(i) =< hi
          /\ F(i) \in Int /\ L(i) \in Int
  BY <1>1, WholeFacts DEF Run
<1>3. /\ Whole(d[t[Len(t)]]) /\ F(Len(t)) = hi + 1 /\ L(Len(t)) \in Int /\ hi < L(Len(t))
      /\ L(Len(t)) = LastByte(d[b])
  BY <1>1, WholeFacts
<1>4. \A i, j \in 1 .. Len(s) : i < j => L(i) < F(j)
  BY <1>1 DEF Run
<1>5. \A i \in 1 .. Len(s) - 1 : F(i + 1) = L(i) + 1
  BY <1>1 DEF Run
<1>6. lo =< hi /\ (s = <<>> => lo = hi) /\ (s # <<>> => F(1) = lo + 1 /\ L(Len(s)) = hi)
  BY <1>1, HeadFacts, EmptyFacts DEF Run
<1>7. s = <<>> <=> Len(s) = 0
  BY EmptyFacts
<1> HIDE DEF t, F, L
<1>8. \A i \in 1 .. Len(t) : Whole(d[t[i]]) /\ lo < F(i) /\ L(i) =< L(Len(t))
  BY <1>1, <1>2, <1>3, <1>6
<1>9. ASSUME NEW i \in 1 .. Len(t), NEW j \in 1 .. Len(t), i < j PROVE L(i) < F(j)
  <2>1. i \in 1 .. Len(s) /\ (j \in 1 .. Len(s) \/ j = Len(t))
    BY <1>1, <1>9
  <2>2. CASE j \in 1 .. Len(s)
    BY <1>4, <1>9, <2>1, <2>2
  <2>3. CASE j = Len(t)
    <3>1. L(i) =< hi /\ L(i) \in Int /\ F(j) = hi + 1
      BY <1>2, <1>3, <2>1, <2>3
    <3>2. QED
      BY <3>1
  <2>4. QED
    BY <2>1, <2>2, <2>3
<1>10. \A i \in 1 .. Len(t) - 1 : F(i + 1) = L(i) + 1
  BY <1>1, <1>3, <1>5, <1>6, <1>7
<1>11. F(1) = lo + 1 /\ lo =< L(Len(t))
  BY <1>1, <1>3, <1>6, <1>7
<1>12. QED
  BY <1>1, <1>3, <1>8, <1>9, <1>10, <1>11 DEF Run, t, F, L

\* A queue's bytes when its first buffer is taken.
LEMMA RunTail ==
    ASSUME NEW d \in [Buffer -> Contents], NEW s \in Seq(Buffer), s # <<>>,
           NEW lo \in Int, NEW hi \in Int, Run(d, s, lo, hi)
    PROVE  /\ Whole(d[Head(s)]) /\ FirstByte(d[Head(s)]) = lo + 1
           /\ LastByte(d[Head(s)]) \in Int
           /\ Run(d, Tail(s), LastByte(d[Head(s)]), hi)
<1> DEFINE t == Tail(s)
           F(i) == FirstByte(d[s[i]])
           L(i) == LastByte(d[s[i]])
<1>1. /\ Len(s) \in Nat /\ Len(s) > 0 /\ Len(t) = Len(s) - 1 /\ Head(s) = s[1]
      /\ \A i \in 1 .. Len(s) - 1 : t[i] = s[i + 1]
      /\ t = <<>> <=> Len(s) = 1
  BY HeadFacts, TailFacts
<1>2. \A i \in 1 .. Len(s) :
          /\ s[i] \in Buffer /\ Whole(d[s[i]]) /\ L(i) =< hi
          /\ F(i) \in Int /\ L(i) \in Int
  BY LenProperties, WholeFacts DEF Run
<1>3. \A i, j \in 1 .. Len(s) : i < j => L(i) < F(j)
  BY DEF Run
<1>4. \A i \in 1 .. Len(s) - 1 : F(i + 1) = L(i) + 1
  BY DEF Run
<1>5. F(1) = lo + 1 /\ L(Len(s)) = hi
  BY DEF Run
<1> HIDE DEF F, L, t
<1>6. \A i \in 1 .. Len(t) :
          d[t[i]] = d[s[i + 1]] /\ Whole(d[t[i]]) /\ L(1) < F(i + 1) /\ L(i + 1) =< hi
  <2>1. \A i \in 1 .. Len(t) : i + 1 \in 1 .. Len(s) /\ 1 < i + 1 /\ t[i] = s[i + 1]
    BY <1>1
  <2>2. 1 \in 1 .. Len(s)
    BY <1>1
  <2>3. QED
    BY <1>2, <1>3, <2>1, <2>2
<1>7. \A i, j \in 1 .. Len(t) : i < j => L(i + 1) < F(j + 1)
  BY <1>1, <1>3
<1>8. \A i \in 1 .. Len(t) - 1 : F(i + 1 + 1) = L(i + 1) + 1 /\ t[i + 1] = s[i + 1 + 1]
  BY <1>1, <1>4
<1>9. L(1) =< hi /\ (t = <<>> => L(1) = hi)
  BY <1>1, <1>2, <1>5
<1>10. t # <<>> => F(1 + 1) = L(1) + 1 /\ t[1] = s[1 + 1] /\ L(Len(t) + 1) = hi
  BY <1>1, <1>4, <1>5
<1>11. t # <<>> => Len(t) \in 1 .. Len(t) /\ 1 \in 1 .. Len(t)
  BY <1>1
<1>12. Run(d, t, L(1), hi)
  <2>1. \A i, j \in 1 .. Len(t) : i < j => LastByte(d[t[i]]) < FirstByte(d[t[j]])
    BY <1>6, <1>7 DEF F, L
  <2>2. \A i \in 1 .. Len(t) - 1 : FirstByte(d[t[i + 1]]) = LastByte(d[t[i]]) + 1
    BY <1>6, <1>8, <1>1 DEF F, L
  <2>3. \A i \in 1 .. Len(t) :
            Whole(d[t[i]]) /\ L(1) < FirstByte(d[t[i]]) /\ LastByte(d[t[i]]) =< hi
    BY <1>6 DEF F, L
  <2>4. t # <<>> => FirstByte(d[t[1]]) = L(1) + 1 /\ LastByte(d[t[Len(t)]]) = hi
    BY <1>6, <1>10, <1>11 DEF F, L
  <2>5. QED
    BY <1>9, <2>1, <2>2, <2>3, <2>4 DEF Run
<1>13. Whole(d[s[1]]) /\ L(1) \in Int
  BY <1>1, <1>2
<1>14. QED
  BY <1>1, <1>5, <1>12, <1>13 DEF F, L, t

\* The buffer at the head of the list, in numbers.
LEMMA RunHead ==
    ASSUME NEW d \in [Buffer -> Contents], NEW s \in Seq(Buffer), s # <<>>,
           NEW lo \in Int, NEW hi \in Int, Run(d, s, lo, hi)
    PROVE  /\ Len(d[s[1]]) \in 1 .. MaxBytes
           /\ FirstByte(d[s[1]]) = lo + 1 /\ lo + Len(d[s[1]]) =< hi
           /\ lo \in 0 .. MaxBytes /\ hi \in 0 .. MaxBytes
<1>1. Len(s) \in 1 .. Len(s) /\ 1 \in 1 .. Len(s) /\ s[1] \in Buffer /\ s[Len(s)] \in Buffer
  BY HeadFacts
<1>2. /\ Whole(d[s[1]]) /\ Whole(d[s[Len(s)]])
      /\ FirstByte(d[s[1]]) = lo + 1 /\ LastByte(d[s[Len(s)]]) = hi
      /\ LastByte(d[s[1]]) =< hi
  BY <1>1 DEF Run
<1>3. /\ Len(d[s[1]]) \in 1 .. MaxBytes /\ FirstByte(d[s[1]]) \in 1 .. MaxBytes
      /\ LastByte(d[s[Len(s)]]) \in 1 .. MaxBytes
  BY <1>1, <1>2, WholeFacts
<1>4. LastByte(d[s[1]]) = FirstByte(d[s[1]]) + Len(d[s[1]]) - 1
  BY DEF LastByte, FirstByte
<1>5. ASSUME NEW f \in 1 .. MaxBytes, NEW n \in 1 .. MaxBytes, f = lo + 1, f + n - 1 =< hi,
             hi \in 1 .. MaxBytes
      PROVE  lo + n =< hi /\ lo \in 0 .. MaxBytes /\ hi \in 0 .. MaxBytes
  BY <1>5, ReceiveAssumption
<1>6. QED
  BY <1>2, <1>3, <1>4, <1>5

-------------------------------------------------------------------------------
(* The buffers on their way through the RX thread *)

\* A step that moves no buffer and no byte.
LEMMA QuietKeeps ==
    ASSUME TypeInv, NEW q, NEW place, Listed(q, place),
           UNCHANGED <<loaded, filled, data, left, pos, next, listHead, listTail>>,
           UNCHANGED <<fetched, ret, sent, got>>,
           rx' = "link" <=> rx = "link", Linked' = Linked,
           \/ UNCHANGED <<reader, buf>>
           \/ reader \notin {"unlink", "reload"} /\ reader' \notin {"unlink", "reload"},
           reader' \in {"idle", "core", "direct"} => done' = 0, done' =< Len(got)
    PROVE  Listed(q, place)'
<1>1. Placed(q, place)'
  BY DEF Listed, Placed
<1>2. Chained(q)'
  BY DEF Listed, Chained
<1>3. Reading(q)'
  BY DEF Listed, Reading
<1>4. Ordered(q)'
  BY DEF Listed, Ordered, Taken
<1>5. QED
  BY <1>1, <1>2, <1>3, <1>4 DEF Listed

\* Where a buffer is, as far as the queues are concerned.
LEMMA WhereFacts ==
    ASSUME NEW q, NEW place, Listed(q, place), NEW b \in Buffer
    PROVE  /\ In(b, loaded) => ~In(b, filled) /\ ~In(b, q) /\ ~(rx = "link" /\ fetched = b)
                               /\ ~(reader = "reload" /\ buf = b)
           /\ In(b, filled) => ~In(b, q) /\ ~(rx = "link" /\ fetched = b)
                               /\ ~(reader = "reload" /\ buf = b)
           /\ In(b, q) => ~(rx = "link" /\ fetched = b) /\ ~(reader = "reload" /\ buf = b)
           /\ rx = "link" /\ fetched = b => ~(reader = "reload" /\ buf = b)
BY DEF Listed, Placed

\* The counts are numbers, and the bytes on the list come after those that were read.
LEMMA CountFacts ==
    ASSUME TypeInv, NEW q, NEW place, Listed(q, place)
    PROVE  /\ Len(got) \in Nat /\ Linked \in Int /\ Taken \in Int
           /\ rx = "link" =>
                /\ fetched \in Buffer /\ Taken = Linked + Len(data[fetched])
                /\ Len(data[fetched]) \in 1 .. MaxBytes
<1>1. /\ Len(got) \in Nat /\ rxData \in Int /\ ret \in Int /\ done \in Int
      /\ data \in [Buffer -> Contents]
  BY LenProperties, MaxIsNat DEF TypeInv, Contents
<1>2. Linked \in Int
  BY <1>1 DEF Linked
<1>3. CASE rx = "link"
  <2>1. fetched \in Buffer /\ data[fetched] \in Contents
    BY <1>1, <1>3 DEF Listed, Placed, TypeInv
  <2>2. Whole(data[fetched]) /\ FirstByte(data[fetched]) = Linked + 1
    BY <1>3 DEF Listed, Ordered
  <2>3. Len(data[fetched]) \in 1 .. MaxBytes
    BY <2>1, <2>2, WholeFacts
  <2>4. LastByte(data[fetched]) = FirstByte(data[fetched]) + Len(data[fetched]) - 1
    BY DEF FirstByte, LastByte
  <2>5. Taken = LastByte(data[fetched])
    BY <1>3 DEF Taken
  <2>6. Len(data[fetched]) \in Int
    BY <2>3, MaxIsNat
  <2>7. Taken = Linked + Len(data[fetched])
    <3>1. \A l, m \in Int : l + 1 + m - 1 = l + m
      OBVIOUS
    <3>2. Taken = Linked + 1 + Len(data[fetched]) - 1
      BY <2>2, <2>4, <2>5
    <3>3. QED
      BY <1>2, <2>6, <3>1, <3>2
  <2>8. QED
    BY <1>1, <1>2, <2>1, <2>3, <2>6, <2>7
<1>4. CASE rx # "link"
  BY <1>1, <1>2, <1>4 DEF Taken
<1>5. QED
  BY <1>3, <1>4

\* The host fills the first of the loaded buffers.
LEMMA HostSendsKeeps ==
    ASSUME TypeInv, NEW q, NEW place, Listed(q, place),
           NEW n \in PacketLengths, HostSends(n), TypeInv'
    PROVE  \E at : Listed(q, at)'
<1>0. PICK b : b = Head(loaded)
  OBVIOUS
<1>1. /\ loaded \in Seq(Buffer) /\ filled \in Seq(Buffer) /\ loaded # <<>> /\ b \in Buffer
      /\ q \in Seq(Buffer) /\ place \in [Buffer -> Places] /\ In(b, loaded)
      /\ data \in [Buffer -> Contents] /\ data' \in [Buffer -> Contents]
      /\ n \in Nat /\ n > 0 /\ sent \in Nat
  <2>1. loaded \in Seq(Buffer) /\ loaded # <<>> /\ Distinct(loaded)
    BY DEF TypeInv, Listed, Placed, HostSends
  <2>2. b \in Buffer /\ In(b, loaded)
    BY <1>0, <2>1, HeadFacts, TakeFront
  <2>3. n \in Nat /\ n > 0
    BY ReceiveAssumption
  <2>4. data \in [Buffer -> Contents] /\ data' \in [Buffer -> Contents] /\ sent \in Nat
    <3>1. data' \in [Buffer -> Contents]
      BY DEF TypeInv
    <3>2. sent \in 0 .. MaxBytes /\ data \in [Buffer -> Contents]
      BY DEF TypeInv
    <3>3. QED
      BY <3>1, <3>2, MaxIsNat
  <2>5. filled \in Seq(Buffer) /\ q \in Seq(Buffer) /\ place \in [Buffer -> Places]
    BY DEF TypeInv, Listed
  <2>6. QED
    BY <2>1, <2>2, <2>3, <2>4, <2>5
<1>2. /\ place[b] = "loaded" /\ ~In(b, filled) /\ ~In(b, q)
      /\ rx = "link" => fetched # b /\ fetched \in Buffer
      /\ reader = "reload" => buf # b
  BY <1>1, WhereFacts DEF Listed, Placed, TypeInv
<1>3. PICK at \in [Buffer -> Places] :
          at[b] = "filled" /\ \A c \in Buffer : c # b => at[c] = place[c]
  <2>1. [place EXCEPT ![b] = "filled"] \in [Buffer -> Places]
    BY <1>1 DEF Places
  <2>2. QED
    BY <1>1, <2>1
<1>4. /\ loaded' = Tail(loaded) /\ filled' = Append(filled, b)
      /\ data'[b] = [i \in 1 .. n |-> sent + i] /\ sent' = sent + n
      /\ \A c \in Buffer : c # b => data'[c] = data[c]
      /\ UNCHANGED <<left, pos, next, listHead, listTail, rxData, rx, fetched, ret>>
      /\ UNCHANGED <<reader, toRead, done, buf, got>>
  BY <1>0, <1>1 DEF HostSends, list, rxThread, call, TypeInv
<1>5. /\ Distinct(loaded') /\ Distinct(filled')
      /\ \A c : In(c, loaded') <=> In(c, loaded) /\ c # b
      /\ \A c : In(c, filled') <=> In(c, filled) \/ c = b
  BY <1>0, <1>1, <1>2, <1>4, TakeFront, AddEnd DEF Listed, Placed
<1>6. /\ \A i \in 1 .. Len(q) : data'[q[i]] = data[q[i]]
      /\ \A i \in 1 .. Len(filled) : data'[filled[i]] = data[filled[i]]
      /\ rx = "link" => data'[fetched] = data[fetched]
  BY <1>1, <1>2, <1>4, LenProperties DEF In
<1>7. Placed(q, at)'
  <2>1. Distinct(loaded') /\ Distinct(filled') /\ Distinct(q)
    BY <1>5 DEF Listed, Placed
  <2>2. ASSUME NEW c \in Buffer
        PROVE  /\ at[c] = "loaded" <=> In(c, loaded')
               /\ at[c] = "filled" <=> In(c, filled')
               /\ at[c] = "list" <=> In(c, q)
               /\ at[c] = "fetched" <=> rx' = "link" /\ fetched' = c
               /\ at[c] = "returned" <=> reader' = "reload" /\ buf' = c
    <3>1. CASE c = b
      BY <1>2, <1>3, <1>4, <1>5, <3>1
    <3>2. CASE c # b
      BY <1>3, <1>4, <1>5, <3>2 DEF Listed, Placed
    <3>3. QED
      BY <3>1, <3>2
  <2>3. QED
    BY <1>4, <2>1, <2>2 DEF Listed, Placed
<1>8. Chained(q)'
  BY <1>4 DEF Listed, Chained
<1>9. Reading(q)'
  BY <1>1, <1>4, <1>6 DEF Listed, Reading
<1>10. Linked' = Linked /\ Taken' = Taken
  BY <1>4, <1>6 DEF Linked, Taken
<1>11. Ordered(q)'
  <2>1. Run(data', q, Len(got) - (IF q = <<>> THEN 0 ELSE pos[q[1]]), Linked)
    BY <1>1, <1>6, RunFrame DEF Listed, Ordered
  <2>2. Run(data', filled, Taken, sent)
    BY <1>1, <1>6, RunFrame DEF Listed, Ordered
  <2>3. Whole(data'[b]) /\ FirstByte(data'[b]) = sent + 1 /\ LastByte(data'[b]) = sent'
    BY <1>1, <1>4 DEF Whole, FirstByte, LastByte
  <2>4. Taken \in Int
    BY CountFacts
  <2>5. Run(data', filled', Taken, sent')
    <3>1. Run(data', Append(filled, b), Taken, LastByte(data'[b]))
      <4>1. data' \in [Buffer -> Contents] /\ filled \in Seq(Buffer) /\ b \in Buffer
        BY <1>1
      <4>2. sent \in Int
        BY <1>1
      <4>3. QED
        BY <2>2, <2>3, <2>4, <4>1, <4>2, RunAppend
    <3>2. QED
      BY <1>4, <2>3, <3>1
  <2>6. QED
    BY <1>4, <1>6, <1>10, <2>1, <2>5 DEF Listed, Ordered
<1>12. QED
  BY <1>1, <1>3, <1>7, <1>8, <1>9, <1>11 DEF Listed

\* The RX thread takes the first of the filled buffers.
LEMMA FetchKeeps ==
    ASSUME TypeInv, NEW q, NEW place, Listed(q, place), Fetch, TypeInv'
    PROVE  \E at : Listed(q, at)'
<1>0. PICK b : b = Head(filled)
  OBVIOUS
<1>1. /\ loaded \in Seq(Buffer) /\ filled \in Seq(Buffer) /\ filled # <<>> /\ b \in Buffer
      /\ q \in Seq(Buffer) /\ place \in [Buffer -> Places] /\ In(b, filled)
      /\ Distinct(filled) /\ data \in [Buffer -> Contents]
  <2>1. filled \in Seq(Buffer) /\ filled # <<>> /\ Distinct(filled)
    BY DEF TypeInv, Listed, Placed, Fetch
  <2>2. b \in Buffer /\ In(b, filled)
    BY <1>0, <2>1, HeadFacts, TakeFront
  <2>3. QED
    BY <2>1, <2>2 DEF TypeInv, Listed
<1>2. /\ place[b] = "filled" /\ ~In(b, loaded) /\ ~In(b, q)
      /\ reader = "reload" => buf # b
  BY <1>1, WhereFacts DEF Listed, Placed
<1>3. PICK at \in [Buffer -> Places] :
          at[b] = "fetched" /\ \A c \in Buffer : c # b => at[c] = place[c]
  <2>1. [place EXCEPT ![b] = "fetched"] \in [Buffer -> Places]
    BY <1>1 DEF Places
  <2>2. QED
    BY <1>1, <2>1
<1>4. /\ rx = "fetch" /\ rx' = "link"
      /\ fetched' = b /\ filled' = Tail(filled) /\ ret' = Len(data[b])
      /\ left'[b] = ret' /\ pos'[b] = 0 /\ next'[b] = Null
      /\ \A c \in Buffer :
             c # b => left'[c] = left[c] /\ pos'[c] = pos[c] /\ next'[c] = next[c]
      /\ UNCHANGED <<loaded, data, listHead, listTail, rxData, reader, toRead, done, buf>>
      /\ UNCHANGED <<sent, got>>
  <2>1. /\ left \in [Buffer -> 0 .. MaxBytes] /\ pos \in [Buffer -> 0 .. MaxBytes]
        /\ next \in [Buffer -> Buffer \cup {Null}]
    BY DEF TypeInv
  <2>2. QED
    BY <1>0, <1>1, <2>1 DEF Fetch, RxStep, After, call
<1>5. Distinct(filled') /\ \A c : In(c, filled') <=> In(c, filled) /\ c # b
  BY <1>0, <1>1, <1>4, TakeFront
<1>6. \A i \in 1 .. Len(q) :
          /\ left'[q[i]] = left[q[i]] /\ pos'[q[i]] = pos[q[i]] /\ next'[q[i]] = next[q[i]]
  BY <1>1, <1>2, <1>4, LenProperties DEF In
<1>7. Placed(q, at)'
  <2>1. ASSUME NEW c \in Buffer
        PROVE  /\ at[c] = "loaded" <=> In(c, loaded')
               /\ at[c] = "filled" <=> In(c, filled')
               /\ at[c] = "list" <=> In(c, q)
               /\ at[c] = "fetched" <=> rx' = "link" /\ fetched' = c
               /\ at[c] = "returned" <=> reader' = "reload" /\ buf' = c
    <3>1. CASE c = b
      BY <1>2, <1>3, <1>4, <1>5, <3>1
    <3>2. CASE c # b
      BY <1>3, <1>4, <1>5, <3>2 DEF Listed, Placed
    <3>3. QED
      BY <3>1, <3>2
  <2>2. Distinct(loaded') /\ Distinct(q) /\ fetched' # Null
    BY <1>1, <1>4, ReceiveAssumption DEF Listed, Placed
  <2>3. QED
    BY <1>4, <1>5, <2>1, <2>2 DEF Listed, Placed
<1>8. Chained(q)'
  <2>1. q # <<>> => Len(q) \in 1 .. Len(q) /\ \A i \in 1 .. Len(q) - 1 : i \in 1 .. Len(q)
    BY <1>1, HeadFacts
  <2>2. q = <<>> => Len(q) = 0
    BY <1>1, EmptyFacts
  <2>3. QED
    BY <1>4, <1>6, <2>1, <2>2 DEF Listed, Chained
<1>9. Reading(q)'
  <2>1. q # <<>> => 1 \in 1 .. Len(q) /\ \A i \in 2 .. Len(q) : i \in 1 .. Len(q)
    BY <1>1, HeadFacts
  <2>2. q = <<>> => Len(q) = 0
    BY <1>1, EmptyFacts
  <2>3. QED
    BY <1>4, <1>6, <2>1, <2>2 DEF Listed, Reading
<1>10. Ordered(q)'
  <2>1. Linked \in Int /\ Linked' = Linked /\ Taken = Linked
    BY <1>4, CountFacts DEF Linked, Taken
  <2>2. sent \in Int
    BY MaxIsNat DEF TypeInv
  <2>3. /\ Whole(data[b]) /\ FirstByte(data[b]) = Linked + 1
        /\ Run(data, Tail(filled), LastByte(data[b]), sent)
    BY <1>0, <1>1, <2>1, <2>2, RunTail DEF Listed, Ordered
  <2>4. Taken' = LastByte(data[b])
    BY <1>4 DEF Taken
  <2>5. q # <<>> => pos'[q[1]] = pos[q[1]]
    BY <1>1, <1>6, HeadFacts
  <2>6. QED
    BY <1>4, <2>1, <2>3, <2>4, <2>5 DEF Listed, Ordered
<1>11. QED
  BY <1>1, <1>3, <1>7, <1>8, <1>9, <1>10 DEF Listed

\* The RX thread puts its buffer at the end of the list.
LEMMA LinkKeeps ==
    ASSUME TypeInv, NEW q, NEW place, Listed(q, place), Link
    PROVE  \E r, at : Listed(r, at)'
<1>1. PICK b : b = fetched
  OBVIOUS
<1>2. PICK r : r = Append(q, b)
  OBVIOUS
<1>3. /\ rx = "link" /\ rx' = "count" /\ b \in Buffer
      /\ q \in Seq(Buffer) /\ place \in [Buffer -> Places]
      /\ next \in [Buffer -> Buffer \cup {Null}] /\ data \in [Buffer -> Contents]
  BY <1>1, CountFacts DEF Link, RxStep, After, TypeInv, Listed
<1>4. place[b] = "fetched" /\ ~In(b, q)
  BY <1>1, <1>3, WhereFacts DEF Listed, Placed
<1>5. PICK at \in [Buffer -> Places] :
          at[b] = "list" /\ \A c \in Buffer : c # b => at[c] = place[c]
  <2>1. [place EXCEPT ![b] = "list"] \in [Buffer -> Places]
    BY <1>3 DEF Places
  <2>2. QED
    BY <1>3, <2>1
<1>6. /\ listTail' = b
      /\ UNCHANGED <<loaded, filled, data, left, pos, rxData, fetched, ret>>
      /\ UNCHANGED <<reader, toRead, done, buf, sent, got>>
  BY <1>1 DEF Link, driver, call
<1>7. /\ Len(q) \in Nat /\ Len(r) = Len(q) + 1 /\ r # <<>> /\ r \in Seq(Buffer)
      /\ r[Len(q) + 1] = b /\ \A i \in 1 .. Len(q) : r[i] = q[i] /\ q[i] \in Buffer
      /\ q = <<>> <=> Len(q) = 0
  BY <1>2, <1>3, AppendFacts, EmptyFacts
<1>8. Distinct(r) /\ \A c : In(c, r) <=> In(c, q) \/ c = b
  BY <1>2, <1>3, <1>4, AddEnd DEF Listed, Placed
<1>9. Placed(r, at)'
  <2>1. ASSUME NEW c \in Buffer
        PROVE  /\ at[c] = "loaded" <=> In(c, loaded')
               /\ at[c] = "filled" <=> In(c, filled')
               /\ at[c] = "list" <=> In(c, r)
               /\ at[c] = "fetched" <=> rx' = "link" /\ fetched' = c
               /\ at[c] = "returned" <=> reader' = "reload" /\ buf' = c
    <3>1. CASE c = b
      BY <1>1, <1>3, <1>4, <1>5, <1>6, <1>8, <3>1, WhereFacts
    <3>2. CASE c # b
      BY <1>1, <1>3, <1>5, <1>6, <1>8, <3>2 DEF Listed, Placed
    <3>3. QED
      BY <3>1, <3>2
  <2>2. QED
    BY <1>3, <1>6, <1>8, <2>1 DEF Listed, Placed
<1>10. Chained(r)'
  <2>1. next[b] = Null
    BY <1>1, <1>3 DEF Listed, Chained
  <2>2. CASE q = <<>>
    <3>1. listHead' = b /\ next' = next /\ Len(r) = 1 /\ r[1] = b
      BY <1>1, <1>7, <2>2, ReceiveAssumption DEF Listed, Chained, Link
    <3>2. QED
      BY <1>3, <1>6, <1>7, <2>1, <3>1 DEF Chained
  <2>3. CASE q # <<>>
    <3>1. /\ Len(q) \in 1 .. Len(q) /\ listTail = q[Len(q)] /\ listHead = q[1]
          /\ listTail \in Buffer /\ listTail # b /\ listTail # Null /\ Distinct(q)
      BY <1>3, <1>4, <1>7, <2>3, ReceiveAssumption DEF Listed, Placed, Chained, In
    <3>2. /\ listHead' = listHead /\ next'[listTail] = b
          /\ \A c \in Buffer : c # listTail => next'[c] = next[c]
      BY <1>1, <1>3, <3>1 DEF Link
    <3>3. ASSUME NEW i \in 1 .. Len(r) - 1 PROVE next'[r[i]] = r[i + 1]
      <4>1. CASE i = Len(q)
        BY <1>7, <3>1, <3>2, <4>1
      <4>2. CASE i # Len(q)
        <5>1. i \in 1 .. Len(q) - 1 /\ i \in 1 .. Len(q) /\ i + 1 \in 1 .. Len(q)
          BY <1>7, <4>2
        <5>2. q[i] # listTail /\ q[i] \in Buffer /\ r[i] = q[i] /\ r[i + 1] = q[i + 1]
          BY <1>7, <3>1, <4>2, <5>1 DEF Distinct
        <5>3. next[q[i]] = q[i + 1]
          BY <5>1 DEF Listed, Chained
        <5>4. QED
          BY <3>2, <5>2, <5>3
      <4>3. QED
        BY <4>1, <4>2
    <3>4. r[1] = q[1] /\ r[Len(r)] = b /\ next'[b] = Null
      BY <1>3, <1>7, <2>1, <2>3, <3>1, <3>2
    <3>5. QED
      BY <1>3, <1>6, <1>7, <3>1, <3>2, <3>3, <3>4 DEF Chained
  <2>4. QED
    BY <2>2, <2>3
<1>11. /\ Whole(data[b]) /\ FirstByte(data[b]) = Linked + 1
       /\ ret = Len(data[b]) /\ left[b] = ret /\ pos[b] = 0
       /\ Len(data[b]) \in Nat /\ Len(data[b]) > 0
       /\ Linked \in Int /\ Len(got) \in Nat
  BY <1>1, <1>3, CountFacts, MaxIsNat DEF Listed, Ordered
<1>12. Reading(r)'
  <2>1. \A i \in 1 .. Len(r) : i \in 1 .. Len(q) \/ i = Len(q) + 1
    BY <1>7
  <2>2. \A i \in 1 .. Len(r) : pos[r[i]] + left[r[i]] = Len(data[r[i]])
    BY <1>7, <1>11, <2>1 DEF Listed, Reading
  <2>3. ASSUME NEW i \in 2 .. Len(r) PROVE pos[r[i]] = 0
    <3>1. (i \in 2 .. Len(q) /\ i \in 1 .. Len(q)) \/ i = Len(q) + 1
      BY <1>7
    <3>2. QED
      BY <1>7, <1>11, <3>1 DEF Listed, Reading
  <2>4. IF q = <<>> THEN r[1] = b /\ left[r[1]] > 0 ELSE r[1] = q[1]
    BY <1>7, <1>11
  <2>5. QED
    BY <1>6, <1>7, <2>2, <2>3, <2>4 DEF Listed, Reading
<1>13. Linked' = LastByte(data[b]) /\ Taken' = LastByte(data[b]) /\ Taken = LastByte(data[b])
  <2>1. Linked' = Linked + ret
    BY <1>3, <1>6, <1>11 DEF Linked, TypeInv
  <2>2. LastByte(data[b]) = Linked + 1 + ret - 1
    BY <1>11 DEF LastByte, FirstByte
  <2>3. Linked + 1 + ret - 1 = Linked + ret
    BY <1>11
  <2>4. QED
    BY <1>1, <1>3, <2>1, <2>2, <2>3 DEF Taken
<1>14. Ordered(r)'
  <2>1. PICK lo : lo = Len(got) - (IF q = <<>> THEN 0 ELSE pos[q[1]])
    OBVIOUS
  <2>2. lo \in Int
    <3>1. q # <<>> => pos[q[1]] \in Int
      BY <1>3, HeadFacts, MaxIsNat DEF TypeInv
    <3>2. QED
      BY <1>11, <2>1, <3>1
  <2>3. Run(data, r, lo, LastByte(data[b]))
    BY <1>2, <1>3, <1>11, <2>1, <2>2, RunAppend DEF Listed, Ordered
  <2>4. lo = Len(got) - pos[r[1]]
    BY <1>7, <1>11, <2>1
  <2>5. QED
    BY <1>3, <1>6, <1>7, <1>13, <2>3, <2>4 DEF Listed, Ordered
<1>15. QED
  BY <1>5, <1>7, <1>9, <1>10, <1>12, <1>14 DEF Listed

-------------------------------------------------------------------------------
(* The buffers on their way through readData() *)

\* The bytes that one turn of the loop copies are the next ones.
LEMMA CopyFacts ==
    ASSUME TypeInv, ReadInOrder, NEW q, NEW place, Listed(q, place), CopyBytes
    PROVE  \E n \in Nat :
             /\ n > 0 /\ n =< left[q[1]] /\ q # <<>>
             /\ reader = "read" /\ reader' = (IF left[q[1]] = n THEN "unlink" ELSE "read")
             /\ got' \in Contents /\ Len(got') = Len(got) + n /\ ReadInOrder'
             /\ pos'[q[1]] = pos[q[1]] + n /\ left'[q[1]] = left[q[1]] - n
             /\ \A b \in Buffer : b # q[1] => pos'[b] = pos[b] /\ left'[b] = left[b]
             /\ pos' = [pos EXCEPT ![q[1]] = @ + n] /\ left' = [left EXCEPT ![q[1]] = @ - n]
             /\ done' = done + n /\ toRead' = toRead - n /\ n =< toRead
             /\ buf' = q[1] /\ listHead = q[1]
<1>1. q \in Seq(Buffer) /\ data \in [Buffer -> Contents] /\ got \in Contents
  BY DEF Listed, TypeInv
<1>2. /\ q # <<>> /\ listHead = q[1] /\ q[1] \in Buffer /\ 1 \in 1 .. Len(q)
      /\ reader = "read" /\ toRead > 0
  <2>1. listHead # Null /\ reader = "read" /\ toRead > 0
    BY DEF CopyBytes, ReaderStep
  <2>2. q # <<>> /\ listHead = q[1]
    BY <2>1 DEF Listed, Chained
  <2>3. QED
    BY <1>1, <2>1, <2>2, HeadFacts
<1>3. PICK h : h = q[1]
  OBVIOUS
<1>4. /\ left[h] \in Nat /\ pos[h] \in Nat /\ left[h] > 0 /\ toRead \in Nat
      /\ pos[h] + left[h] = Len(data[h])
  BY <1>2, <1>3, MaxIsNat DEF TypeInv, Listed, Reading
<1>5. PICK n : n = Lesser(left[h], toRead)
  OBVIOUS
<1>6. n \in Nat /\ n > 0 /\ n =< left[h] /\ n =< toRead
  BY <1>2, <1>4, <1>5 DEF Lesser
<1>7. /\ reader' = (IF left[h] = n THEN "unlink" ELSE "read")
      /\ got' = got \o SubSeq(data[h], pos[h] + 1, pos[h] + n)
      /\ pos' = [pos EXCEPT ![h] = @ + n] /\ left' = [left EXCEPT ![h] = @ - n]
      /\ done' = done + n /\ toRead' = toRead - n /\ buf' = h
  BY <1>2, <1>3, <1>5 DEF CopyBytes, ReaderStep, Emptied
<1>8. /\ pos'[h] = pos[h] + n /\ left'[h] = left[h] - n
      /\ \A b \in Buffer : b # h => pos'[b] = pos[b] /\ left'[b] = left[b]
  BY <1>2, <1>3, <1>7 DEF TypeInv
<1>9. Len(data[h]) \in Nat /\ Whole(data[h]) /\ FirstByte(data[h]) = Len(got) - pos[h] + 1
  BY <1>1, <1>2, <1>3, <1>4, LenProperties DEF Listed, Ordered, Run, Contents
<1>10. \A k \in pos[h] + 1 .. pos[h] + n :
          data[h][k] \in 1 .. MaxBytes /\ data[h][k] = Len(got) - pos[h] + k
  <2>1. Len(got) \in Nat
    BY <1>1, LenProperties DEF Contents
  <2>2. \A k \in 1 .. Len(data[h]) :
            data[h][k] \in 1 .. MaxBytes /\ data[h][k] = FirstByte(data[h]) + k - 1
    BY <1>1, <1>2, <1>3, <1>9, LenProperties DEF Whole, Contents
  <2>3. \A k \in pos[h] + 1 .. pos[h] + n : k \in 1 .. Len(data[h])
    BY <1>4, <1>6, <1>9
  <2>4. \A k \in Int : Len(got) - pos[h] + 1 + k - 1 = Len(got) - pos[h] + k
    BY <1>4, <2>1
  <2>5. \A k \in pos[h] + 1 .. pos[h] + n : k \in Int
    BY <1>4, <1>6
  <2>6. QED
    BY <1>9, <2>2, <2>3, <2>4, <2>5
<1>11. PICK s : s = SubSeq(data[h], pos[h] + 1, pos[h] + n)
  OBVIOUS
<1>12. s \in Contents /\ Len(s) = n /\ \A k \in 1 .. n : s[k] = Len(got) + k
  <2>1. PICK f \in Int, g \in Int : f = pos[h] + 1 /\ g = pos[h] + n
    BY <1>4, <1>6
  <2>2. \A k \in f .. g : data[h][k] \in 1 .. MaxBytes
    BY <1>10, <2>1
  <2>3. /\ SubSeq(data[h], f, g) \in Seq(1 .. MaxBytes)
        /\ Len(SubSeq(data[h], f, g)) = IF f <= g THEN g - f + 1 ELSE 0
        /\ \A k \in 1 .. g - f + 1 : SubSeq(data[h], f, g)[k] = data[h][f + k - 1]
    BY <2>2, SubSeqProperties
  <2>4. f <= g /\ g - f + 1 = n
    BY <1>4, <1>6, <2>1
  <2>5. Len(got) \in Nat
    BY <1>1, LenProperties DEF Contents
  <2>6. ASSUME NEW k \in 1 .. n PROVE data[h][f + k - 1] = Len(got) + k
    <3>1. f + k - 1 \in pos[h] + 1 .. pos[h] + n
      BY <1>4, <1>6, <2>1
    <3>2. Len(got) - pos[h] + (f + k - 1) = Len(got) + k
      BY <1>4, <1>6, <2>1, <2>5
    <3>3. QED
      BY <1>10, <3>1, <3>2
  <2>7. QED
    BY <1>11, <2>1, <2>3, <2>4, <2>6 DEF Contents
<1>13. /\ got' \in Contents /\ Len(got') = Len(got) + n
       /\ \A i \in 1 .. Len(got) + n : got'[i] = i
  <2>1. /\ got \o s \in Contents /\ Len(got \o s) = Len(got) + n
        /\ \A i \in 1 .. Len(got) + n :
               (got \o s)[i] = IF i <= Len(got) THEN got[i] ELSE s[i - Len(got)]
    BY <1>1, <1>12, ConcatProperties DEF Contents
  <2>2. Len(got) \in Nat
    BY <1>1, LenProperties DEF Contents
  <2>3. ASSUME NEW i \in 1 .. Len(got) + n
        PROVE  (IF i <= Len(got) THEN got[i] ELSE s[i - Len(got)]) = i
    <3>1. CASE i <= Len(got)
      BY <2>2, <3>1 DEF ReadInOrder
    <3>2. CASE ~(i <= Len(got))
      <4>1. i - Len(got) \in 1 .. n /\ Len(got) + (i - Len(got)) = i
        BY <1>6, <2>2, <3>2
      <4>2. QED
        BY <1>12, <3>2, <4>1
    <3>3. QED
      BY <3>1, <3>2
  <2>4. QED
    BY <1>7, <1>11, <2>1, <2>3
<1>14. ReadInOrder'
  BY <1>13 DEF ReadInOrder
<1>15. QED
  BY <1>2, <1>3, <1>6, <1>7, <1>8, <1>13, <1>14

\* Copying moves no buffer.
LEMMA CopyKeeps ==
    ASSUME TypeInv, ReadInOrder, NEW q, NEW place, Listed(q, place), CopyBytes
    PROVE  Listed(q, place)'
<1>1. PICK n \in Nat :
         /\ n > 0 /\ n =< left[q[1]] /\ q # <<>>
         /\ reader = "read" /\ reader' = (IF left[q[1]] = n THEN "unlink" ELSE "read")
         /\ Len(got') = Len(got) + n
         /\ pos'[q[1]] = pos[q[1]] + n /\ left'[q[1]] = left[q[1]] - n
         /\ \A b \in Buffer : b # q[1] => pos'[b] = pos[b] /\ left'[b] = left[b]
         /\ done' = done + n /\ buf' = q[1]
  BY CopyFacts
<1>2. /\ UNCHANGED <<loaded, filled, data, next, listHead, listTail, rxData>>
      /\ UNCHANGED <<rx, fetched, ret, sent>>
  BY DEF CopyBytes, ReaderStep, driver, list, rxThread
<1>3. /\ q \in Seq(Buffer) /\ Len(q) \in Nat /\ 1 \in 1 .. Len(q) /\ q[1] \in Buffer
      /\ \A i \in 1 .. Len(q) : q[i] \in Buffer
      /\ Distinct(q)
  BY <1>1, HeadFacts, LenProperties DEF Listed, Placed
<1>4. /\ Len(got) \in Nat /\ rxData \in Int /\ ret \in Int /\ done \in Nat
      /\ left[q[1]] \in Nat /\ pos[q[1]] \in Nat
  BY <1>3, CountFacts, MaxIsNat DEF TypeInv
<1>5. \A i \in 2 .. Len(q) : i \in 1 .. Len(q) /\ q[i] # q[1]
  BY <1>3 DEF Distinct
<1>6. In(q[1], q)
  BY <1>3 DEF In
<1>7. Placed(q, place)'
  BY <1>1, <1>2 DEF Listed, Placed
<1>8. Chained(q)'
  BY <1>2 DEF Listed, Chained
<1>9. Reading(q)'
  <2>1. \A i \in 1 .. Len(q) : pos'[q[i]] + left'[q[i]] = Len(data[q[i]])
    <3>1. pos'[q[1]] + left'[q[1]] = Len(data[q[1]])
      <4>1. pos[q[1]] + left[q[1]] = Len(data[q[1]])
        BY <1>3 DEF Listed, Reading
      <4>2. QED
        BY <1>1, <1>4, <4>1
    <3>2. ASSUME NEW i \in 1 .. Len(q), q[i] # q[1]
          PROVE  pos'[q[i]] + left'[q[i]] = Len(data[q[i]])
      BY <1>1, <1>3, <3>2 DEF Listed, Reading
    <3>3. QED
      BY <3>1, <3>2
  <2>2. \A i \in 2 .. Len(q) : pos'[q[i]] = 0
    BY <1>1, <1>3, <1>5 DEF Listed, Reading
  <2>3. /\ reader' = "unlink" => left'[q[1]] = 0
        /\ reader' # "unlink" => left'[q[1]] > 0
    BY <1>1, <1>4
  <2>4. done' =< Len(got') /\ reader' \in {"read", "unlink"}
    BY <1>1, <1>4 DEF Listed, Reading
  <2>5. QED
    BY <1>1, <1>2, <2>1, <2>2, <2>3, <2>4 DEF Reading
<1>10. Ordered(q)'
  <2>1. Linked' = Linked /\ Taken' = Taken
    BY <1>1, <1>2, <1>4 DEF Linked, Taken
  <2>2. Len(got') - pos'[q[1]] = Len(got) - pos[q[1]]
    BY <1>1, <1>4
  <2>3. rx = "link" => left'[fetched] = left[fetched] /\ pos'[fetched] = pos[fetched]
    BY <1>1, <1>3, <1>6, WhereFacts, CountFacts
  <2>4. QED
    BY <1>1, <1>2, <2>1, <2>2, <2>3 DEF Listed, Ordered
<1>11. QED
  BY <1>7, <1>8, <1>9, <1>10 DEF Listed

\* A buffer that was read to its end leaves the list.
LEMMA UnlinkKeeps ==
    ASSUME TypeInv, NEW q, NEW place, Listed(q, place), Unlink
    PROVE  \E r, at : Listed(r, at)'
<1>1. PICK b : b = buf
  OBVIOUS
<1>2. PICK r : r = Tail(q)
  OBVIOUS
<1>3. /\ reader = "unlink" /\ reader' = "reload"
      /\ q # <<>> /\ b = q[1] /\ b = Head(q) /\ b \in Buffer /\ left[b] = 0
      /\ q \in Seq(Buffer) /\ place \in [Buffer -> Places] /\ Distinct(q)
      /\ Len(q) \in Nat /\ Len(q) > 0
  <2>1. q # <<>> /\ q \in Seq(Buffer) /\ b = q[1]
    BY <1>1 DEF Unlink, ReaderStep, Listed, Reading
  <2>2. QED
    BY <1>1, <2>1, HeadFacts DEF Unlink, ReaderStep, Listed, Placed, Reading
<1>4. /\ next' = [next EXCEPT ![b] = Null] /\ listHead' = next[b]
      /\ listTail' = IF listHead' = Null THEN Null ELSE listTail
      /\ UNCHANGED <<loaded, filled, data, left, pos, rxData, rx, fetched, ret>>
      /\ UNCHANGED <<toRead, done, buf, sent, got>>
  BY <1>1 DEF Unlink, ReaderStep, driver, rxThread, call
<1>5. /\ r \in Seq(Buffer) /\ Len(r) = Len(q) - 1 /\ Distinct(r)
      /\ \A i \in 1 .. Len(q) - 1 : r[i] = q[i + 1] /\ q[i + 1] \in Buffer
      /\ r = <<>> <=> Len(q) = 1
      /\ In(b, q) /\ \A c : In(c, r) <=> In(c, q) /\ c # b
  BY <1>2, <1>3, TailFacts, TakeFront
<1>6. place[b] = "list" /\ ~(rx = "link" /\ fetched = b) /\ ~In(b, loaded) /\ ~In(b, filled)
  BY <1>3, <1>5, WhereFacts DEF Listed, Placed
<1>7. PICK at \in [Buffer -> Places] :
          at[b] = "returned" /\ \A c \in Buffer : c # b => at[c] = place[c]
  <2>1. [place EXCEPT ![b] = "returned"] \in [Buffer -> Places]
    BY <1>3 DEF Places
  <2>2. QED
    BY <1>3, <2>1
<1>8. Placed(r, at)'
  <2>1. ASSUME NEW c \in Buffer
        PROVE  /\ at[c] = "loaded" <=> In(c, loaded')
               /\ at[c] = "filled" <=> In(c, filled')
               /\ at[c] = "list" <=> In(c, r)
               /\ at[c] = "fetched" <=> rx' = "link" /\ fetched' = c
               /\ at[c] = "returned" <=> reader' = "reload" /\ buf' = c
    <3>1. CASE c = b
      BY <1>1, <1>3, <1>4, <1>5, <1>6, <1>7, <3>1
    <3>2. CASE c # b
      <4>1. /\ place[c] = "loaded" <=> In(c, loaded)
            /\ place[c] = "filled" <=> In(c, filled)
            /\ place[c] = "list" <=> In(c, q)
            /\ place[c] = "fetched" <=> rx = "link" /\ fetched = c
            /\ place[c] # "returned"
        BY <1>3 DEF Listed, Placed
      <4>2. at[c] = place[c] /\ (In(c, r) <=> In(c, q)) /\ buf' # c
        BY <1>1, <1>4, <1>5, <1>7, <3>2
      <4>3. QED
        BY <1>4, <4>1, <4>2
    <3>3. QED
      BY <3>1, <3>2
  <2>2. buf' # Null
    BY <1>1, <1>3, <1>4, ReceiveAssumption
  <2>3. QED
    BY <1>4, <1>5, <2>1, <2>2 DEF Listed, Placed
<1>9. Chained(r)'
  <2>1. /\ \A c \in Buffer : c # b => next'[c] = next[c]
        /\ rx = "link" => fetched \in Buffer
    BY <1>3, <1>4, CountFacts DEF TypeInv
  <2>2. CASE Len(q) = 1
    <3>1. listHead' = Null /\ listTail' = Null /\ r = <<>> /\ Len(r) = 0
      BY <1>3, <1>4, <1>5, <2>2 DEF Listed, Chained
    <3>2. QED
      BY <1>4, <1>6, <2>1, <3>1 DEF Listed, Chained
  <2>3. CASE Len(q) # 1
    <3>1. /\ 1 \in 1 .. Len(q) - 1 /\ Len(q) - 1 \in 1 .. Len(q) - 1
          /\ Len(q) - 1 + 1 = Len(q) /\ Len(r) = Len(q) - 1
      BY <1>3, <1>5, <2>3
    <3>2. /\ r # <<>> /\ r[1] = q[1 + 1] /\ r[Len(r)] = q[Len(q)]
          /\ q[1 + 1] \in Buffer /\ q[Len(q)] \in Buffer
      BY <1>5, <2>3, <3>1
    <3>3. listHead' = r[1] /\ listTail' = r[Len(r)] /\ listTail' # b /\ next[listTail'] = Null
      <4>1. next[q[1]] = q[1 + 1] /\ listTail = q[Len(q)] /\ next[listTail] = Null
        BY <1>3, <3>1 DEF Listed, Chained
      <4>2. q[Len(q)] # q[1]
        <5>1. 1 \in 1 .. Len(q) /\ Len(q) \in 1 .. Len(q)
          BY <1>3
        <5>2. QED
          BY <1>3, <2>3, <5>1 DEF Distinct
      <4>3. QED
        BY <1>3, <1>4, <3>2, <4>1, <4>2, ReceiveAssumption
    <3>4. ASSUME NEW i \in 1 .. Len(r) - 1 PROVE next'[r[i]] = r[i + 1]
      <4>1. /\ i \in 1 .. Len(q) - 1 /\ i + 1 \in 1 .. Len(q) - 1
            /\ i + 1 \in 1 .. Len(q) /\ i + 1 # 1 /\ 1 \in 1 .. Len(q)
        BY <1>3, <1>5
      <4>2. r[i] = q[i + 1] /\ r[i + 1] = q[i + 1 + 1] /\ r[i] \in Buffer
        BY <1>5, <4>1
      <4>3. r[i] # b /\ next[q[i + 1]] = q[i + 1 + 1]
        BY <1>3, <4>1, <4>2 DEF Listed, Chained, Distinct
      <4>4. QED
        BY <2>1, <4>2, <4>3
    <3>5. rx' = "link" => next'[fetched'] = Null
      BY <1>4, <1>6, <2>1 DEF Listed, Chained
    <3>6. next'[listTail'] = Null
      BY <2>1, <3>2, <3>3
    <3>7. QED
      BY <3>2, <3>3, <3>4, <3>5, <3>6 DEF Chained
  <2>4. QED
    BY <2>2, <2>3
<1>10. /\ Len(got) \in Nat /\ Linked \in Int /\ data \in [Buffer -> Contents]
       /\ pos[b] \in Int /\ pos[b] + 0 = Len(data[b])
       /\ Run(data, q, Len(got) - pos[b], Linked)
  <2>1. pos[b] \in Int
    BY <1>3, MaxIsNat DEF TypeInv
  <2>2. 1 \in 1 .. Len(q)
    BY <1>3
  <2>3. pos[b] + 0 = Len(data[b])
    BY <1>3, <2>2 DEF Listed, Reading
  <2>4. Run(data, q, Len(got) - pos[b], Linked)
    BY <1>3 DEF Listed, Ordered
  <2>5. QED
    BY <2>1, <2>3, <2>4, CountFacts DEF TypeInv
<1>11. r # <<>> => pos[r[1]] = 0 /\ left[r[1]] > 0
  <2>1. SUFFICES ASSUME r # <<>> PROVE pos[r[1]] = 0 /\ left[r[1]] > 0
    OBVIOUS
  <2>2. 1 \in 1 .. Len(q) - 1 /\ 2 \in 1 .. Len(q) /\ 2 \in 2 .. Len(q) /\ 1 + 1 = 2
    BY <1>3, <1>5, <2>1
  <2>3. r[1] = q[2] /\ q[2] \in Buffer
    BY <1>5, <2>2
  <2>4. pos[q[2]] = 0 /\ pos[q[2]] + left[q[2]] = Len(data[q[2]])
    BY <2>2 DEF Listed, Reading
  <2>5. Len(data[q[2]]) > 0 /\ left[q[2]] \in Int
    BY <1>10, <2>2, <2>3, MaxIsNat DEF Run, Whole, TypeInv
  <2>6. QED
    BY <2>3, <2>4, <2>5
<1>12. Reading(r)'
  <2>1. ASSUME NEW i \in 1 .. Len(r) PROVE pos[r[i]] + left[r[i]] = Len(data[r[i]])
    <3>1. i \in 1 .. Len(q) - 1 /\ i + 1 \in 1 .. Len(q)
      BY <1>3, <1>5
    <3>2. QED
      BY <1>5, <3>1 DEF Listed, Reading
  <2>2. ASSUME NEW i \in 2 .. Len(r) PROVE pos[r[i]] = 0
    <3>1. i \in 1 .. Len(q) - 1 /\ i + 1 \in 2 .. Len(q)
      BY <1>3, <1>5
    <3>2. QED
      BY <1>5, <3>1 DEF Listed, Reading
  <2>3. done' =< Len(got')
    BY <1>4 DEF Listed, Reading
  <2>4. QED
    BY <1>3, <1>4, <1>11, <2>1, <2>2, <2>3 DEF Reading
<1>13. Ordered(r)'
  <2>1. Len(got) - pos[b] \in Int
    BY <1>10
  <2>2. /\ FirstByte(data[b]) = Len(got) - pos[b] + 1
        /\ Run(data, r, LastByte(data[b]), Linked)
    BY <1>2, <1>3, <1>10, <2>1, RunTail
  <2>3. LastByte(data[b]) = Len(got) - pos[b] + 1 + pos[b] - 1
    <3>1. LastByte(data[b]) = FirstByte(data[b]) + Len(data[b]) - 1
      BY DEF FirstByte, LastByte
    <3>2. Len(data[b]) = pos[b]
      BY <1>10
    <3>3. QED
      BY <2>2, <3>1, <3>2
  <2>4. LastByte(data[b]) = Len(got) - (IF r = <<>> THEN 0 ELSE pos[r[1]])
    BY <1>10, <1>11, <2>3
  <2>5. Linked' = Linked /\ Taken' = Taken
    BY <1>4 DEF Linked, Taken
  <2>6. QED
    BY <1>4, <2>2, <2>4, <2>5 DEF Listed, Ordered
<1>14. QED
  BY <1>5, <1>7, <1>8, <1>9, <1>12, <1>13 DEF Listed

\* The buffer goes back to the driver.
LEMMA ReloadKeeps ==
    ASSUME TypeInv, NEW q, NEW place, Listed(q, place), Reload
    PROVE  \E at : Listed(q, at)'
<1>1. PICK b : b = buf
  OBVIOUS
<1>2. /\ reader = "reload" /\ reader' = "read" /\ b \in Buffer /\ loaded' = Append(loaded, b)
      /\ loaded \in Seq(Buffer) /\ place \in [Buffer -> Places] /\ Distinct(loaded)
      /\ UNCHANGED <<filled, data, left, pos, next, listHead, listTail, rxData>>
      /\ UNCHANGED <<rx, fetched, ret, toRead, done, buf, sent, got>>
  BY <1>1 DEF Reload, ReaderStep, list, rxThread, call, TypeInv, Listed, Placed
<1>3. place[b] = "returned" /\ ~In(b, loaded) /\ ~In(b, filled) /\ ~In(b, q)
      /\ ~(rx = "link" /\ fetched = b)
  BY <1>1, <1>2, WhereFacts DEF Listed, Placed
<1>4. PICK at \in [Buffer -> Places] :
          at[b] = "loaded" /\ \A c \in Buffer : c # b => at[c] = place[c]
  <2>1. [place EXCEPT ![b] = "loaded"] \in [Buffer -> Places]
    BY <1>2 DEF Places
  <2>2. QED
    BY <1>2, <2>1
<1>5. Distinct(loaded') /\ \A c : In(c, loaded') <=> In(c, loaded) \/ c = b
  BY <1>2, <1>3, AddEnd
<1>6. Placed(q, at)'
  <2>1. ASSUME NEW c \in Buffer
        PROVE  /\ at[c] = "loaded" <=> In(c, loaded')
               /\ at[c] = "filled" <=> In(c, filled')
               /\ at[c] = "list" <=> In(c, q)
               /\ at[c] = "fetched" <=> rx' = "link" /\ fetched' = c
               /\ at[c] = "returned" <=> reader' = "reload" /\ buf' = c
    <3>1. CASE c = b
      BY <1>2, <1>3, <1>4, <1>5, <3>1
    <3>2. CASE c # b
      BY <1>1, <1>2, <1>4, <1>5, <3>2 DEF Listed, Placed
    <3>3. QED
      BY <3>1, <3>2
  <2>2. QED
    BY <1>2, <1>5, <2>1 DEF Listed, Placed
<1>7. Chained(q)'
  BY <1>2 DEF Listed, Chained
<1>8. Reading(q)'
  BY <1>2 DEF Listed, Reading
<1>9. Ordered(q)'
  BY <1>2 DEF Listed, Ordered, Linked, Taken
<1>10. QED
  BY <1>4, <1>6, <1>7, <1>8, <1>9 DEF Listed

-------------------------------------------------------------------------------
(* Types *)

LEMMA HostSendsTypes ==
    ASSUME TypeInv, NEW n \in PacketLengths, HostSends(n)
    PROVE  TypeInv'
<1>1. loaded # <<>> /\ Head(loaded) \in Buffer /\ n \in Nat /\ n > 0
  BY HeadFacts, ReceiveAssumption DEF HostSends, TypeInv
<1>2. sent \in Nat /\ sent + n =< MaxBytes /\ sent' = sent + n
  BY MaxIsNat DEF HostSends, TypeInv
<1>3. [i \in 1 .. n |-> sent + i] \in Contents
  <2>1. [i \in 1 .. n |-> sent + i] \in [1 .. n -> 1 .. MaxBytes]
    BY <1>1, <1>2, MaxIsNat
  <2>2. QED
    BY <1>1, <2>1, SeqDef DEF Contents
<1>4. loaded' \in Seq(Buffer) /\ filled' \in Seq(Buffer)
  BY <1>1, TailFacts, AppendFacts DEF HostSends, TypeInv
<1>5. data' \in [Buffer -> Contents] /\ sent' \in 0 .. MaxBytes
  BY <1>1, <1>2, <1>3, MaxIsNat DEF HostSends, TypeInv
<1>6. QED
  BY <1>4, <1>5 DEF HostSends, TypeInv, list, rxThread, call, core

LEMMA FetchTypes ==
    ASSUME TypeInv, NEW q, NEW place, Listed(q, place), Fetch
    PROVE  TypeInv'
<1>1. /\ filled \in Seq(Buffer) /\ filled # <<>> /\ rx = "fetch"
      /\ data \in [Buffer -> Contents]
  BY DEF Fetch, RxStep, TypeInv
<1>2. /\ fetched' = Head(filled) /\ filled' = Tail(filled) /\ fetched' \in Buffer
      /\ filled' \in Seq(Buffer)
  BY <1>1, HeadFacts, TailFacts DEF Fetch
<1>3. ret' \in 0 .. MaxBytes /\ 0 \in 0 .. MaxBytes
  <2>1. Taken = Linked /\ Linked \in Int /\ sent \in Int
    BY <1>1, CountFacts, MaxIsNat DEF Taken, TypeInv
  <2>2. Whole(data[fetched'])
    BY <1>1, <1>2, <2>1, RunTail DEF Listed, Ordered
  <2>3. Len(data[fetched']) \in 1 .. MaxBytes
    BY <1>1, <1>2, <2>2, WholeFacts
  <2>4. QED
    BY <2>3, MaxIsNat DEF Fetch
<1>4. /\ left' \in [Buffer -> 0 .. MaxBytes] /\ pos' \in [Buffer -> 0 .. MaxBytes]
      /\ next' \in [Buffer -> Buffer \cup {Null}]
  BY <1>2, <1>3 DEF Fetch, TypeInv
<1>5. QED
  BY <1>2, <1>3, <1>4 DEF Fetch, RxStep, After, TypeInv, call, core

LEMMA CopyTypes ==
    ASSUME TypeInv, ReadInOrder, NEW q, NEW place, Listed(q, place), CopyBytes
    PROVE  TypeInv'
<1>1. PICK n \in Nat :
         /\ n > 0 /\ n =< left[q[1]] /\ q # <<>>
         /\ reader' = (IF left[q[1]] = n THEN "unlink" ELSE "read")
         /\ got' \in Contents
         /\ pos' = [pos EXCEPT ![q[1]] = @ + n] /\ left' = [left EXCEPT ![q[1]] = @ - n]
         /\ done' = done + n /\ toRead' = toRead - n /\ n =< toRead
         /\ buf' = q[1]
  BY CopyFacts
<1>2. q[1] \in Buffer /\ 1 \in 1 .. Len(q)
  BY <1>1, HeadFacts DEF Listed
<1>3. pos[q[1]] + left[q[1]] = Len(data[q[1]]) /\ Len(data[q[1]]) \in 1 .. MaxBytes
  <2>1. Whole(data[q[1]]) /\ data[q[1]] \in Contents
    BY <1>2 DEF Listed, Ordered, Run, TypeInv
  <2>2. QED
    BY <1>2, <2>1, WholeFacts DEF Listed, Reading
<1>4. pos[q[1]] \in 0 .. MaxBytes /\ left[q[1]] \in 0 .. MaxBytes
  BY <1>2 DEF TypeInv
<1>5. pos[q[1]] + n \in 0 .. MaxBytes /\ left[q[1]] - n \in 0 .. MaxBytes
  <2>1. ASSUME NEW p \in 0 .. MaxBytes, NEW l \in 0 .. MaxBytes, p + l =< MaxBytes, n =< l
        PROVE  p + n \in 0 .. MaxBytes /\ l - n \in 0 .. MaxBytes
    BY <2>1, MaxIsNat
  <2>2. pos[q[1]] + left[q[1]] =< MaxBytes
    BY <1>3, MaxIsNat
  <2>3. QED
    BY <1>1, <1>4, <2>1, <2>2
<1>6. left' \in [Buffer -> 0 .. MaxBytes] /\ pos' \in [Buffer -> 0 .. MaxBytes]
  <2>1. left \in [Buffer -> 0 .. MaxBytes] /\ pos \in [Buffer -> 0 .. MaxBytes]
    BY DEF TypeInv
  <2>2. QED
    BY <1>1, <1>5, <2>1
<1>7. toRead' \in Nat /\ done' \in Nat
  BY <1>1 DEF TypeInv
<1>8. reader' \in {"read", "unlink"} /\ buf' \in Buffer
  <2>1. reader' = "read" \/ reader' = "unlink"
    BY <1>1
  <2>2. QED
    BY <1>1, <1>2, <2>1
<1>9. /\ UNCHANGED <<loaded, filled, data, next, listHead, listTail, rxData, rx, fetched, ret>>
      /\ UNCHANGED <<direct, notes, leftover, sent>>
  BY DEF CopyBytes, ReaderStep, driver, list, rxThread, core
<1>10. QED
  BY <1>1, <1>6, <1>7, <1>8, <1>9 DEF TypeInv

LEMMA UnlinkTypes ==
    ASSUME TypeInv, NEW q, NEW place, Listed(q, place), Unlink
    PROVE  TypeInv'
<1>1. buf \in Buffer
  BY HeadFacts DEF Unlink, ReaderStep, Listed, Reading
<1>2. QED
  BY <1>1 DEF Unlink, ReaderStep, TypeInv, driver, rxThread, call, core

LEMMA ReloadTypes ==
    ASSUME TypeInv, NEW q, NEW place, Listed(q, place), Reload
    PROVE  TypeInv'
<1>1. buf \in Buffer
  BY DEF Reload, ReaderStep, Listed, Placed, TypeInv
<1>2. loaded' \in Seq(Buffer)
  BY <1>1, AppendFacts DEF Reload, TypeInv
<1>3. QED
  BY <1>2 DEF Reload, ReaderStep, TypeInv, list, rxThread, call, core

LEMMA RestTypes ==
    ASSUME TypeInv,
           \/ Link \/ Count \/ Notify \/ CoreWakes \/ CoreRests \/ EnterDirect \/ LeaveDirect
           \/ (\E n \in ReadLengths : ReadData(n)) \/ ReadEnds \/ Uncount
           \/ UNCHANGED vars
    PROVE  TypeInv'
<1> USE DEF TypeInv, driver, list, rxThread, call, core
<1>1. CASE Link
  <2>1. next' \in [Buffer -> Buffer \cup {Null}] /\ rx' = "count" /\ listTail' = fetched
    BY <1>1 DEF Link, RxStep, After
  <2>2. {listHead', listTail'} \subseteq Buffer \cup {Null}
    BY <1>1 DEF Link
  <2>3. QED
    BY <1>1, <2>1, <2>2 DEF Link
<1>2. CASE Count
  <2>1. rxData' \in Int /\ rx' = "notify"
    <3>1. ret \in Int /\ rxData \in Int
      BY MaxIsNat
    <3>2. QED
      BY <1>2, <3>1 DEF Count, RxStep, After
  <2>2. QED
    BY <1>2, <2>1 DEF Count
<1>3. CASE Notify
  <2>1. notes' \in 0 .. CoreDepth /\ leftover' \in BOOLEAN
    <3>1. CoreDepth \in Nat
      BY ReceiveAssumption
    <3>2. notes \in 0 .. CoreDepth /\ leftover \in BOOLEAN
      OBVIOUS
    <3>3. CASE UNCHANGED <<notes, leftover>>
      BY <3>2, <3>3
    <3>4. CASE notes < CoreDepth /\ notes' = notes + 1 /\ leftover' = FALSE
      <4>1. notes' \in 0 .. CoreDepth
        BY ONLY <3>1, <3>2, <3>4
      <4>2. leftover' \in BOOLEAN
        BY ONLY <3>4, Zenon
      <4>3. QED
        BY ONLY <4>1, <4>2, Zenon
    <3>5. QED
      BY <1>3, <3>3, <3>4 DEF Notify
  <2>2. QED
    BY <1>3, <2>1 DEF Notify, RxStep, After
<1>4. CASE CoreWakes
  BY <1>4, ReceiveAssumption DEF CoreWakes, ReaderStep
<1>5. CASE CoreRests
  BY <1>5 DEF CoreRests, ReaderStep
<1>6. CASE EnterDirect
  BY <1>6 DEF EnterDirect, ReaderStep
<1>7. CASE LeaveDirect
  BY <1>7 DEF LeaveDirect, ReaderStep
<1>8. CASE \E n \in ReadLengths : ReadData(n)
  <2>1. toRead' \in Nat /\ done' \in Nat /\ reader' = "read"
    BY <1>8, ReceiveAssumption DEF ReadData, ReaderStep
  <2>2. QED
    BY <1>8, <2>1 DEF ReadData, ReaderStep
<1>9. CASE ReadEnds
  BY <1>9 DEF ReadEnds, ReaderStep
<1>10. CASE Uncount
  BY <1>10 DEF Uncount, ReaderStep
<1>11. CASE UNCHANGED vars
  BY <1>11 DEF vars
<1>12. QED
  BY <1>1, <1>2, <1>3, <1>4, <1>5, <1>6, <1>7, <1>8, <1>9, <1>10, <1>11

-------------------------------------------------------------------------------
(* The other steps *)

\* Steps that only count, notify or pass control.
LEMMA RestKeeps ==
    ASSUME TypeInv, NEW q, NEW place, Listed(q, place),
           \/ Count \/ Notify \/ CoreWakes \/ CoreRests \/ EnterDirect \/ LeaveDirect
           \/ (\E n \in ReadLengths : ReadData(n)) \/ ReadEnds \/ Uncount
           \/ UNCHANGED vars
    PROVE  Listed(q, place)'
<1>1. /\ Len(got) \in Nat /\ rxData \in Int /\ ret \in Int /\ done \in Int
      /\ done =< Len(got) /\ (reader \in {"idle", "core", "direct"} => done = 0)
  BY CountFacts, MaxIsNat DEF TypeInv, Listed, Reading
<1>2. /\ UNCHANGED <<loaded, filled, data, left, pos, next, listHead, listTail>>
      /\ UNCHANGED <<fetched, ret, sent, got>>
  BY DEF Count, Notify, CoreWakes, CoreRests, EnterDirect, LeaveDirect, ReadData, ReadEnds,
     Uncount, RxStep, ReaderStep, vars, driver, list, rxThread, call, core
<1>3. CASE Count \/ Notify
  <2>1. /\ UNCHANGED <<reader, buf, done>>
        /\ rx \in {"count", "notify"} /\ rx' # "link" /\ rx' # "count"
        /\ rxData' = rxData + (IF rx = "count" THEN ret ELSE 0)
    BY <1>1, <1>3 DEF Count, Notify, RxStep, After, call
  <2>2. Linked' = Linked
    BY <1>1, <1>2, <2>1 DEF Linked
  <2>3. QED
    BY <1>1, <1>2, <2>1, <2>2, QuietKeeps
<1>4. CASE CoreWakes \/ CoreRests \/ EnterDirect \/ LeaveDirect \/ ReadEnds
  <2>1. /\ UNCHANGED <<rx, ret, rxData, done>>
        /\ reader \notin {"unlink", "reload"} /\ reader' \notin {"unlink", "reload"}
        /\ reader' \in {"idle", "core", "direct"} => reader \in {"idle", "core", "direct"}
    BY <1>4 DEF CoreWakes, CoreRests, EnterDirect, LeaveDirect, ReadEnds, ReaderStep,
       rxThread, call
  <2>2. Linked' = Linked
    BY <1>2, <2>1 DEF Linked
  <2>3. QED
    BY <1>1, <1>2, <2>1, <2>2, QuietKeeps
<1>5. CASE \E n \in ReadLengths : ReadData(n)
  <2>1. /\ UNCHANGED <<rx, rxData>> /\ done' = 0 /\ reader \in {"core", "direct"}
        /\ reader' = "read"
    BY <1>5 DEF ReadData, ReaderStep, rxThread
  <2>2. Linked' = Linked
    BY <1>1, <1>2, <2>1 DEF Linked
  <2>3. QED
    BY <1>1, <1>2, <2>1, <2>2, QuietKeeps
<1>6. CASE Uncount
  <2>1. /\ UNCHANGED rx /\ done' = 0 /\ rxData' = rxData - done
        /\ reader = "return" /\ reader' \in {"core", "direct"}
    BY <1>6 DEF Uncount, ReaderStep, rxThread
  <2>2. Linked' = Linked
    BY <1>1, <1>2, <2>1 DEF Linked
  <2>3. QED
    BY <1>1, <1>2, <2>1, <2>2, QuietKeeps
<1>7. CASE UNCHANGED vars
  <2>1. UNCHANGED <<rx, rxData, reader, buf, done>>
    BY <1>7 DEF vars, list, rxThread, call
  <2>2. Linked' = Linked
    BY <1>2, <2>1 DEF Linked
  <2>3. QED
    BY <1>1, <1>2, <2>1, <2>2, QuietKeeps
<1>8. QED
  BY <1>3, <1>4, <1>5, <1>6, <1>7

\* Every step preserves the invariant.
LEMMA NextRInv == RInv /\ [Next]_vars => RInv'
<1> SUFFICES ASSUME RInv, [Next]_vars PROVE RInv'
    OBVIOUS
<1>1. TypeInv /\ ReadInOrder
  BY DEF RInv
<1>2. PICK q, place : Listed(q, place)
  BY DEF RInv
<1>3. UNCHANGED got => ReadInOrder'
  BY <1>1 DEF ReadInOrder
<1>4. ASSUME NEW n \in PacketLengths, HostSends(n) PROVE RInv'
  <2>1. TypeInv' /\ UNCHANGED got
    BY <1>1, <1>4, HostSendsTypes DEF HostSends
  <2>2. QED
    BY <1>1, <1>2, <1>3, <1>4, <2>1, HostSendsKeeps DEF RInv
<1>5. CASE Fetch
  <2>1. TypeInv' /\ UNCHANGED got
    BY <1>1, <1>2, <1>5, FetchTypes DEF Fetch
  <2>2. QED
    BY <1>1, <1>2, <1>3, <1>5, <2>1, FetchKeeps DEF RInv
<1>6. CASE Link
  <2>1. TypeInv' /\ UNCHANGED got
    BY <1>1, <1>6, RestTypes DEF Link
  <2>2. QED
    BY <1>1, <1>2, <1>3, <1>6, <2>1, LinkKeeps DEF RInv
<1>7. CASE CopyBytes
  <2>1. ReadInOrder'
    BY <1>1, <1>2, <1>7, CopyFacts
  <2>2. TypeInv'
    BY <1>1, <1>2, <1>7, CopyTypes
  <2>3. QED
    BY <1>1, <1>2, <1>7, <2>1, <2>2, CopyKeeps DEF RInv
<1>8. CASE Unlink
  <2>1. TypeInv' /\ UNCHANGED got
    BY <1>1, <1>2, <1>8, UnlinkTypes DEF Unlink
  <2>2. QED
    BY <1>1, <1>2, <1>3, <1>8, <2>1, UnlinkKeeps DEF RInv
<1>9. CASE Reload
  <2>1. TypeInv' /\ UNCHANGED got
    BY <1>1, <1>2, <1>9, ReloadTypes DEF Reload
  <2>2. QED
    BY <1>1, <1>2, <1>3, <1>9, <2>1, ReloadKeeps DEF RInv
<1>10. CASE \/ Count \/ Notify \/ CoreWakes \/ CoreRests \/ EnterDirect \/ LeaveDirect
            \/ (\E n \in ReadLengths : ReadData(n)) \/ ReadEnds \/ Uncount
            \/ UNCHANGED vars
  <2>1. UNCHANGED got
    BY <1>10 DEF Count, Notify, CoreWakes, CoreRests, EnterDirect, LeaveDirect, ReadData,
       ReadEnds, Uncount, vars
  <2>2. TypeInv'
    BY <1>1, <1>10, RestTypes
  <2>3. QED
    BY <1>1, <1>2, <1>3, <1>10, <2>1, <2>2, RestKeeps DEF RInv
<1>11. QED
  BY <1>4, <1>5, <1>6, <1>7, <1>8, <1>9, <1>10 DEF Next, RxThread, ReaderRuns

-------------------------------------------------------------------------------
(* The initial state *)

\* All buffers can be put in a sequence.
LEMMA AllBuffers ==
    LET s == SetToSeq(Buffer)
    IN  s \in Seq(Buffer) /\ Distinct(s) /\ \A b \in Buffer : In(b, s)
<1> DEFINE N == Cardinality(Buffer)
           s == SetToSeq(Buffer)
<1>1. N \in Nat /\ ExistsBijection(1 .. N, Buffer) /\ IsFiniteSet(Buffer)
  BY ReceiveAssumption, FS_CardinalityType
<1>2. \E f \in [1 .. N -> Buffer] : IsInjective(f)
  BY <1>1 DEF ExistsBijection, Bijection, Injection
<1>3. s \in [1 .. N -> Buffer] /\ IsInjective(s)
  BY <1>2 DEF SetToSeq
<1>4. s \in Injection(1 .. N, Buffer)
  BY <1>3 DEF Injection
<1>5. IsFiniteSet(1 .. N) /\ Cardinality(1 .. N) = N
  BY <1>1, FS_Interval
<1>6. s \in Surjection(1 .. N, Buffer)
  BY <1>1, <1>4, <1>5, FS_Injection
<1> HIDE DEF s, N
<1>7. s \in Seq(Buffer)
  BY <1>1, <1>3, SeqDef
<1>8. Len(s) = N
  BY <1>1, <1>3, <1>7, LenProperties
<1>9. Distinct(s)
  BY <1>3, <1>8 DEF Distinct, IsInjective
<1>10. \A b \in Buffer : In(b, s)
  BY <1>6, <1>8 DEF In, Surjection
<1>11. QED
  BY <1>7, <1>9, <1>10 DEF s

\* The invariant holds at first.
LEMMA InitRInv == Init => RInv
<1> SUFFICES ASSUME Init PROVE RInv
    OBVIOUS
<1>1. loaded \in Seq(Buffer) /\ Distinct(loaded) /\ \A b \in Buffer : In(b, loaded)
  BY AllBuffers DEF Init
<1>2. <<>> \in Seq(Buffer) /\ <<>> \in Contents /\ Len(<<>>) = 0
  BY EmptySeq DEF Contents
<1>3. TypeInv
  <2>1. data \in [Buffer -> Contents] /\ got \in Contents /\ filled \in Seq(Buffer)
    BY <1>2 DEF Init
  <2>2. left \in [Buffer -> 0 .. MaxBytes] /\ pos \in [Buffer -> 0 .. MaxBytes]
    BY MaxIsNat DEF Init
  <2>3. notes \in 0 .. CoreDepth /\ sent \in 0 .. MaxBytes /\ ret \in 0 .. MaxBytes
    BY MaxIsNat, ReceiveAssumption DEF Init
  <2>4. direct \in BOOLEAN /\ leftover \in BOOLEAN
    BY Zenon DEF Init
  <2>5. /\ loaded \in Seq(Buffer) /\ next \in [Buffer -> Buffer \cup {Null}]
        /\ {listHead, listTail, fetched, buf} \subseteq Buffer \cup {Null}
        /\ rxData \in Int /\ rx = "fetch" /\ reader = "idle" /\ toRead \in Nat /\ done \in Nat
    BY <1>1 DEF Init
  <2>6. QED
    BY <2>1, <2>2, <2>3, <2>4, <2>5 DEF TypeInv
<1>4. ReadInOrder
  BY <1>2 DEF Init, ReadInOrder
<1>5. PICK q : q = <<>>
  OBVIOUS
<1>6. PICK place : place = [b \in Buffer |-> "loaded"]
  OBVIOUS
<1>7. q \in Seq(Buffer) /\ Len(q) = 0 /\ place \in [Buffer -> Places]
  BY <1>2, <1>5, <1>6 DEF Places
<1>8. Placed(q, place)
  BY <1>1, <1>2, <1>6, <1>7 DEF Init, Placed, In, Distinct
<1>9. Chained(q)
  BY <1>5, <1>7 DEF Init, Chained
<1>10. Reading(q)
  BY <1>2, <1>5, <1>7 DEF Init, Reading
<1>11. Ordered(q)
  <2>1. Linked = 0 /\ Taken = 0
    BY <1>2 DEF Init, Linked, Taken
  <2>2. QED
    BY <1>2, <1>5, <2>1, RunEmpty DEF Init, Ordered
<1>12. QED
  BY <1>3, <1>4, <1>7, <1>8, <1>9, <1>10, <1>11 DEF RInv, Listed

LEMMA Invariance == Safe => []RInv
BY InitRInv, NextRInv, PTL DEF Safe

-------------------------------------------------------------------------------
(* Theorems *)

\* The AT task reads the bytes in the order the host sent them, none lost and none twice,
\* however readData() and the RX thread interleave on the list.
THEOREM OrderKept == Safe => []ReadInOrder
<1>1. RInv => ReadInOrder
  BY DEF RInv
<1>2. QED
  BY <1>1, Invariance, PTL

\* What has been read was on the list.
LEMMA GotBeforeLinked ==
    ASSUME TypeInv, NEW q, NEW place, Listed(q, place)
    PROVE  Len(got) =< Linked
<1>1. /\ Len(got) \in Nat /\ Linked \in Int /\ q \in Seq(Buffer)
      /\ data \in [Buffer -> Contents]
  BY CountFacts DEF TypeInv, Listed
<1>2. CASE q = <<>>
  <2>1. Len(got) - 0 =< Linked
    BY <1>2 DEF Listed, Ordered, Run
  <2>2. QED
    BY <1>1, <2>1
<1>3. CASE q # <<>>
  <2>1. q[1] \in Buffer /\ 1 \in 1 .. Len(q)
    BY <1>1, <1>3, HeadFacts
  <2>2. pos[q[1]] \in Int /\ left[q[1]] \in Int /\ left[q[1]] >= 0
    BY <2>1, MaxIsNat DEF TypeInv
  <2>3. pos[q[1]] + left[q[1]] = Len(data[q[1]])
    BY <2>1 DEF Listed, Reading
  <2>4. PICK lo \in Int : lo = Len(got) - pos[q[1]]
    BY <1>1, <2>2
  <2>5. Run(data, q, lo, Linked)
    BY <1>3, <2>4 DEF Listed, Ordered
  <2>6. lo + Len(data[q[1]]) =< Linked
    BY <1>1, <1>3, <2>5, RunHead
  <2>7. QED
    BY <1>1, <2>2, <2>3, <2>4, <2>6
<1>4. QED
  BY <1>2, <1>3

\* rxData_ lags behind the list, and may be negative, by no more than the bytes that
\* the two threads have not counted yet.
LEMMA CountBounds ==
    ASSUME RInv
    PROVE  rxData \in -MaxBytes .. MaxBytes /\ done \in 0 .. MaxBytes
<1>1. PICK q, place : Listed(q, place)
  BY DEF RInv
<1>2. TypeInv
  BY DEF RInv
<1>3. /\ Len(got) \in Nat /\ Linked \in Int /\ sent \in 0 .. MaxBytes /\ ret \in 0 .. MaxBytes
      /\ rxData \in Int /\ done \in Nat /\ q \in Seq(Buffer)
      /\ data \in [Buffer -> Contents]
  BY <1>1, <1>2, CountFacts DEF TypeInv, Listed
<1>4. done =< Len(got)
  BY <1>1 DEF Listed, Reading
<1>5. Len(got) =< Linked
  BY <1>1, <1>2, GotBeforeLinked
<1>6. Linked =< Taken /\ Taken \in Int
  BY <1>1, <1>2, CountFacts, MaxIsNat DEF Taken
<1>7. Taken =< sent
  BY <1>1 DEF Listed, Ordered, Run
<1>8. Linked =< MaxBytes
  BY <1>3, <1>6, <1>7, MaxIsNat
<1>9. PICK r \in 0 .. MaxBytes : r = IF rx = "count" THEN ret ELSE 0
  BY <1>3, MaxIsNat
<1>10. Linked = Len(got) + rxData + r - done
  BY <1>9 DEF Linked
<1>11. QED
  BY <1>3, <1>4, <1>5, <1>8, <1>9, <1>10, MaxIsNat

\* Every variable keeps its type.
THEOREM Types == Safe => []TypeOK
<1>1. RInv => TypeOK
  BY CountBounds DEF RInv, TypeInv, TypeOK, Contents
<1>2. QED
  BY <1>1, Invariance, PTL

-------------------------------------------------------------------------------
(* Every buffer has one owner *)

\* A set of numbers has a least one.
LEMMA Least ==
    ASSUME NEW T \in SUBSET Nat, T # {}
    PROVE  \E n \in T : \A m \in T : n =< m
<1>1. PICK n \in T : \A m \in T : <<m, n>> \notin OpToRel(<, Nat)
  BY NatLessThanWellFounded, WFMin
<1>2. \A m \in T : ~(m < n)
  BY <1>1 DEF OpToRel
<1>3. QED
  BY <1>2

\* There are no more buffers on the list than there are.
LEMMA ListFits ==
    ASSUME NEW q \in Seq(Buffer), Distinct(q)
    PROVE  Cardinality(Buffer) \in Nat /\ Len(q) \in Nat /\ Len(q) =< Cardinality(Buffer)
<1>1. /\ Len(q) \in Nat /\ q \in [1 .. Len(q) -> Buffer] /\ IsFiniteSet(Buffer)
      /\ DOMAIN q = 1 .. Len(q)
  BY LenProperties, ReceiveAssumption
<1>2. q \in Injection(1 .. Len(q), Buffer)
  BY <1>1 DEF Injection, IsInjective, Distinct
<1>3. Cardinality(1 .. Len(q)) = Len(q)
  BY <1>1, FS_Interval
<1>4. QED
  BY <1>1, <1>2, <1>3, FS_Injection, FS_CardinalityType

\* What leads from one buffer to the next is q.
LEMMA ChainIs ==
    ASSUME NEW q \in Seq(Buffer), Distinct(q), Chained(q)
    PROVE  /\ DOMAIN Chain = 0 .. Cardinality(Buffer)
           /\ \A i \in 0 .. Cardinality(Buffer) :
                  Chain[i] = IF i < Len(q) THEN q[i + 1] ELSE Null
<1> DEFINE N == Cardinality(Buffer)
           Walk(f) == [i \in 0 .. N |->
                         IF i = 0 THEN listHead
                         ELSE IF f[i - 1] = Null THEN Null ELSE next[f[i - 1]]]
           w == [i \in 0 .. N |-> IF i < Len(q) THEN q[i + 1] ELSE Null]
<1>1. N \in Nat /\ Len(q) \in Nat /\ Len(q) =< N /\ \A i \in 1 .. Len(q) : q[i] \in Buffer
  BY ListFits, LenProperties
<1>2. \A i \in 1 .. Len(q) : q[i] # Null
  BY <1>1, ReceiveAssumption
<1>3. q # <<>> => next[q[Len(q)]] = Null /\ listHead = q[1]
  BY DEF Chained
<1>4. q = <<>> <=> Len(q) = 0
  BY EmptyFacts
<1>5. ASSUME NEW i \in 0 .. N PROVE w[i] = Walk(w)[i]
  <2>1. CASE i = 0
    BY <1>1, <1>3, <1>4, <2>1 DEF Chained
  <2>2. CASE i > 0 /\ i < Len(q)
    <3>1. i - 1 \in 0 .. N /\ i - 1 < Len(q) /\ i - 1 + 1 = i /\ i \in 1 .. Len(q) - 1
      BY <1>1, <2>2
    <3>2. w[i - 1] = q[i] /\ q[i] # Null /\ next[q[i]] = q[i + 1]
      BY <1>1, <1>2, <3>1 DEF Chained
    <3>3. QED
      BY <2>2, <3>2
  <2>3. CASE i > 0 /\ i = Len(q)
    <3>1. i - 1 \in 0 .. N /\ i - 1 < Len(q) /\ i - 1 + 1 = i /\ i \in 1 .. Len(q)
      BY <1>1, <2>3
    <3>2. w[i - 1] = q[i] /\ q[i] # Null /\ next[q[i]] = Null
      BY <1>2, <1>3, <1>4, <2>3, <3>1
    <3>3. QED
      BY <2>3, <3>2
  <2>4. CASE i > Len(q)
    <3>1. i - 1 \in 0 .. N /\ ~(i - 1 < Len(q)) /\ i # 0 /\ ~(i < Len(q))
      BY <1>1, <2>4
    <3>2. QED
      BY <3>1
  <2>5. QED
    BY <1>1, <2>1, <2>2, <2>3, <2>4
<1>6. w = Walk(w)
  BY <1>5
<1>7. Chain = Walk(Chain)
  <2>1. Chain = CHOOSE f : f = Walk(f)
    BY DEF Chain
  <2>2. QED
    BY <1>6, <2>1
<1> DEFINE T == {i \in 0 .. N : Chain[i] # w[i]}
<1>8. T = {}
  <2>1. SUFFICES ASSUME T # {} PROVE FALSE
    OBVIOUS
  <2>2. PICK i \in T : \A j \in T : i =< j
    <3>1. T \in SUBSET Nat
      BY <1>1
    <3>2. QED
      BY ONLY <2>1, <3>1, Least
  <2>3. i \in 0 .. N /\ Chain[i] # w[i]
    BY <2>2
  <2>4. CASE i = 0
    BY <1>5, <1>7, <2>3, <2>4
  <2>5. CASE i # 0
    <3>1. i - 1 \in 0 .. N /\ ~(i =< i - 1)
      BY <1>1, <2>3, <2>5
    <3>2. Chain[i - 1] = w[i - 1]
      BY <2>2, <3>1
    <3>3. Walk(Chain)[i] = Walk(w)[i]
      BY <2>3, <3>2
    <3>4. QED
      BY <1>5, <1>7, <2>3, <3>3
  <2>6. QED
    BY <2>4, <2>5
<1>9. QED
  BY <1>7, <1>8

\* The buffers on the list are those of q.
LEMMA OnListIs ==
    ASSUME NEW q \in Seq(Buffer), Distinct(q), Chained(q)
    PROVE  /\ \A b : b \in OnList <=> In(b, q)
           /\ Chain[Cardinality(Buffer)] = Null
<1>1. /\ DOMAIN Chain = 0 .. Cardinality(Buffer)
      /\ \A i \in 0 .. Cardinality(Buffer) :
             Chain[i] = IF i < Len(q) THEN q[i + 1] ELSE Null
  BY ChainIs
<1>2. Cardinality(Buffer) \in Nat /\ Len(q) \in Nat /\ Len(q) =< Cardinality(Buffer)
  BY ListFits
<1>3. \A i \in 1 .. Len(q) : q[i] # Null
  BY LenProperties, ReceiveAssumption
<1>4. ASSUME NEW b, b \in OnList PROVE In(b, q)
  <2>1. PICK i \in 0 .. Cardinality(Buffer) : Chain[i] = b /\ b # Null
    BY <1>1, <1>4 DEF OnList
  <2>2. i < Len(q) /\ b = q[i + 1]
    BY <1>1, <2>1
  <2>3. i + 1 \in 1 .. Len(q)
    BY <1>2, <2>2
  <2>4. QED
    BY <2>2, <2>3 DEF In
<1>5. ASSUME NEW b, In(b, q) PROVE b \in OnList
  <2>1. PICK i \in 1 .. Len(q) : q[i] = b
    BY <1>5 DEF In
  <2>2. i - 1 \in 0 .. Cardinality(Buffer) /\ i - 1 < Len(q) /\ i - 1 + 1 = i
    BY <1>2
  <2>3. Chain[i - 1] = b /\ b # Null
    BY <1>1, <1>3, <2>1, <2>2
  <2>4. QED
    BY <1>1, <2>2, <2>3 DEF OnList
<1>6. Chain[Cardinality(Buffer)] = Null
  BY <1>1, <1>2
<1>7. QED
  BY <1>4, <1>5, <1>6

\* A buffer is in a queue once or not at all.
LEMMA InOnce ==
    ASSUME NEW s \in Seq(Buffer), Distinct(s), NEW b
    PROVE  Cardinality({i \in DOMAIN s : s[i] = b}) = IF In(b, s) THEN 1 ELSE 0
<1>1. DOMAIN s = 1 .. Len(s)
  BY LenProperties
<1>2. CASE In(b, s)
  <2>1. PICK i \in 1 .. Len(s) : s[i] = b
    BY <1>2 DEF In
  <2>2. {j \in DOMAIN s : s[j] = b} = {i}
    BY <1>1, <2>1 DEF Distinct
  <2>3. QED
    BY <1>2, <2>2, FS_Singleton
<1>3. CASE ~In(b, s)
  <2>1. {j \in DOMAIN s : s[j] = b} = {}
    BY <1>1, <1>3 DEF In
  <2>2. QED
    BY <1>3, <2>1, FS_EmptySet
<1>4. QED
  BY <1>2, <1>3

\* The list is well formed, and every buffer is at any time in exactly one place: in the
\* driver, in the hands of one thread, or on the list.
THEOREM EachBufferOnce == Safe => []OneOwner
<1>1. ASSUME RInv PROVE OneOwner
  <2>1. PICK q, place : Listed(q, place)
    BY <1>1 DEF RInv
  <2>2. /\ q \in Seq(Buffer) /\ Distinct(q) /\ Chained(q) /\ place \in [Buffer -> Places]
        /\ loaded \in Seq(Buffer) /\ filled \in Seq(Buffer)
        /\ Distinct(loaded) /\ Distinct(filled)
    BY <1>1, <2>1 DEF RInv, TypeInv, Listed, Placed
  <2>3. /\ \A b : b \in OnList <=> In(b, q)
        /\ Chain[Cardinality(Buffer)] = Null
    BY <2>2, OnListIs
  <2>4. listTail = Null => listHead = Null
    BY <2>2, HeadFacts, ReceiveAssumption DEF Chained
  <2>5. listTail # Null => listTail \in OnList /\ next[listTail] = Null
    <3>1. SUFFICES ASSUME listTail # Null PROVE listTail \in OnList /\ next[listTail] = Null
      OBVIOUS
    <3>2. q # <<>> /\ listTail = q[Len(q)] /\ next[listTail] = Null
      BY <2>2, <3>1 DEF Chained
    <3>3. Len(q) \in 1 .. Len(q)
      BY <2>2, <3>2, HeadFacts
    <3>4. QED
      BY <2>3, <3>2, <3>3 DEF In
  <2>6. ASSUME NEW b \in Buffer
        PROVE  Cardinality({i \in DOMAIN loaded : loaded[i] = b})
               + Cardinality({i \in DOMAIN filled : filled[i] = b})
               + (IF b \in OnList THEN 1 ELSE 0)
               + (IF rx = "link" /\ fetched = b THEN 1 ELSE 0)
               + (IF reader = "reload" /\ buf = b THEN 1 ELSE 0) = 1
    <3>1. /\ Cardinality({i \in DOMAIN loaded : loaded[i] = b}) = IF In(b, loaded) THEN 1 ELSE 0
          /\ Cardinality({i \in DOMAIN filled : filled[i] = b}) = IF In(b, filled) THEN 1 ELSE 0
          /\ b \in OnList <=> In(b, q)
      BY <2>2, <2>3, InOnce
    <3>2. /\ place[b] = "loaded" <=> In(b, loaded)
          /\ place[b] = "filled" <=> In(b, filled)
          /\ place[b] = "list" <=> In(b, q)
          /\ place[b] = "fetched" <=> rx = "link" /\ fetched = b
          /\ place[b] = "returned" <=> reader = "reload" /\ buf = b
      BY <2>1 DEF Listed, Placed
    <3>3. place[b] \in Places
      BY <2>2
    <3>4. QED
      BY <3>1, <3>2, <3>3 DEF Places
  <2>7. QED
    BY <2>3, <2>4, <2>5, <2>6 DEF OneOwner
<1>2. QED
  BY <1>1, Invariance, PTL

-------------------------------------------------------------------------------
(* rxData_ counts the bytes on the list *)

\* The bytes of buffer b, and of the buffers of s, that have not been read.
Unread(b) == FirstByte(data[b]) + pos[b] .. LastByte(data[b])
UnreadOf(s) == UNION {Unread(b) : b \in s}

\* When no byte is in two buffers, the sum of left is the number of unread bytes.
LEMMA SumOfLeft ==
    ASSUME NEW S, IsFiniteSet(S),
           \A b \in S : /\ Unread(b) \subseteq 0 .. MaxBytes
                        /\ Cardinality(Unread(b)) = left[b],
           \A b, c \in S : b # c => Unread(b) \cap Unread(c) = {}
    PROVE  FoldSet(LAMBDA b, sum : left[b] + sum, 0, S) = Cardinality(UnreadOf(S))
<1> DEFINE some(s) == CHOOSE x \in s : TRUE
           Fold(f) == [s \in SUBSET S |->
                         IF s = {} THEN 0 ELSE left[some(s)] + f[s \ {some(s)}]]
           g == [s \in SUBSET S |-> Cardinality(UnreadOf(s))]
           F == CHOOSE f : f = Fold(f)
<1>1. ASSUME NEW s \in SUBSET S PROVE IsFiniteSet(UnreadOf(s)) /\ Cardinality(UnreadOf(s)) \in Nat
  <2>1. UnreadOf(s) \subseteq 0 .. MaxBytes
    BY DEF UnreadOf
  <2>2. IsFiniteSet(0 .. MaxBytes)
    BY MaxIsNat, FS_Interval
  <2>3. IsFiniteSet(UnreadOf(s))
    BY <2>1, <2>2, FS_Subset
  <2>4. QED
    BY <2>3, FS_CardinalityType
<1>2. UnreadOf({}) = {} /\ Cardinality(UnreadOf({})) = 0
  <2>1. UnreadOf({}) = {}
    BY DEF UnreadOf
  <2>2. QED
    BY <2>1, FS_EmptySet
<1>3. ASSUME NEW s \in SUBSET S, s # {}
      PROVE  /\ some(s) \in s
             /\ Cardinality(UnreadOf(s)) = left[some(s)] + Cardinality(UnreadOf(s \ {some(s)}))
  <2>1. PICK x \in s : x = some(s)
    BY <1>3
  <2>2. UnreadOf(s) = Unread(x) \cup UnreadOf(s \ {x})
    BY DEF UnreadOf
  <2>3. Unread(x) \cap UnreadOf(s \ {x}) = {}
    BY DEF UnreadOf
  <2>4. /\ IsFiniteSet(Unread(x)) /\ IsFiniteSet(UnreadOf(s \ {x}))
        /\ Cardinality(UnreadOf(s \ {x})) \in Nat /\ Cardinality(Unread(x)) = left[x]
        /\ Cardinality(Unread(x)) \in Nat
    <3>1. s \ {x} \in SUBSET S /\ x \in S /\ {x} \in SUBSET S
      OBVIOUS
    <3>2. UnreadOf({x}) = Unread(x)
      BY DEF UnreadOf
    <3>3. QED
      BY <1>1, <3>1, <3>2
  <2>5. Cardinality(UnreadOf(s)) =
          Cardinality(Unread(x)) + Cardinality(UnreadOf(s \ {x})) - Cardinality({})
    <3>1. Cardinality(Unread(x) \cup UnreadOf(s \ {x})) =
            Cardinality(Unread(x)) + Cardinality(UnreadOf(s \ {x}))
              - Cardinality(Unread(x) \cap UnreadOf(s \ {x}))
      BY <2>4, FS_Union
    <3>2. QED
      BY <2>2, <2>3, <3>1
  <2>6. Cardinality(UnreadOf(s)) = left[x] + Cardinality(UnreadOf(s \ {x}))
    BY <2>4, <2>5, FS_EmptySet
  <2>7. QED
    BY <2>1, <2>6
<1> HIDE DEF some
<1>4. ASSUME NEW s \in SUBSET S PROVE g[s] = Fold(g)[s]
  <2>1. CASE s = {}
    BY <1>2, <2>1
  <2>2. CASE s # {}
    <3>1. s \ {some(s)} \in SUBSET S
      OBVIOUS
    <3>2. QED
      BY <1>3, <2>2, <3>1
  <2>3. QED
    BY <2>1, <2>2
<1>5. g = Fold(g)
  BY <1>4
<1>6. F = Fold(F)
  BY <1>5
<1> HIDE DEF F
<1> DEFINE T == {n \in Nat : \E s \in SUBSET S : Cardinality(s) = n /\ F[s] # g[s]}
<1>7. T = {}
  <2>1. SUFFICES ASSUME T # {} PROVE FALSE
    OBVIOUS
  <2>2. PICK n \in T : \A m \in T : n =< m
    <3>1. T \in SUBSET Nat
      OBVIOUS
    <3>2. QED
      BY ONLY <2>1, <3>1, Least
  <2>3. PICK s \in SUBSET S : Cardinality(s) = n /\ F[s] # g[s]
    BY <2>2
  <2>4. s # {}
    BY <1>2, <1>6, <2>3
  <2>5. some(s) \in s /\ s \ {some(s)} \in SUBSET S
    BY <1>3, <2>4
  <2>6. IsFiniteSet(s) /\ n \in Nat
    BY <2>2, FS_Subset
  <2>7. Cardinality(s \ {some(s)}) = n - 1 /\ IsFiniteSet(s \ {some(s)})
    BY <2>3, <2>5, <2>6, FS_RemoveElement
  <2>8. n - 1 \in Nat /\ ~(n =< n - 1)
    BY <2>6, <2>7, FS_CardinalityType
  <2>9. F[s \ {some(s)}] = g[s \ {some(s)}]
    BY <2>2, <2>5, <2>7, <2>8
  <2>10. Fold(F)[s] = Fold(g)[s]
    BY <2>4, <2>9
  <2>11. QED
    BY <1>5, <1>6, <2>3, <2>10
<1>8. ASSUME NEW s \in SUBSET S PROVE F[s] = g[s]
  <2>1. Cardinality(s) \in Nat
    BY FS_Subset, FS_CardinalityType
  <2>2. QED
    BY <1>7, <2>1
<1>9. FoldSet(LAMBDA b, sum : left[b] + sum, 0, S) = F[S]
  BY DEF FoldSet, MapThenFoldSet, F, some
<1>10. QED
  BY <1>8, <1>9

\* The unread bytes of the buffers on the list follow those that were read, and end with
\* the last one that was linked; none is in two buffers.
LEMMA UnreadBytes ==
    ASSUME TypeInv, NEW q, NEW place, Listed(q, place)
    PROVE  /\ \A b \in OnList : /\ Unread(b) \subseteq 0 .. MaxBytes
                                /\ Cardinality(Unread(b)) = left[b]
           /\ \A b, c \in OnList : b # c => Unread(b) \cap Unread(c) = {}
           /\ UnreadOf(OnList) = Len(got) + 1 .. Linked
<1>1. /\ q \in Seq(Buffer) /\ Distinct(q) /\ Chained(q) /\ data \in [Buffer -> Contents]
      /\ Len(q) \in Nat /\ Len(got) \in Nat /\ Linked \in Int
      /\ \A i \in 1 .. Len(q) : q[i] \in Buffer
  <2>1. q \in Seq(Buffer) /\ Distinct(q) /\ Chained(q)
    BY DEF Listed, Placed
  <2>2. data \in [Buffer -> Contents]
    BY DEF TypeInv
  <2>3. Len(q) \in Nat /\ \A i \in 1 .. Len(q) : q[i] \in Buffer
    BY <2>1, LenProperties
  <2>4. Len(got) \in Nat /\ Linked \in Int
    BY CountFacts
  <2>5. QED
    BY <2>1, <2>2, <2>3, <2>4
<1>2. \A b : b \in OnList <=> In(b, q)
  BY <1>1, OnListIs
<1> DEFINE F(i) == FirstByte(data[q[i]])
           L(i) == LastByte(data[q[i]])
           P(i) == pos[q[i]]
<1>3. ASSUME NEW i \in 1 .. Len(q)
      PROVE  /\ F(i) \in 1 .. MaxBytes /\ L(i) \in 1 .. MaxBytes
             /\ L(i) = F(i) + Len(data[q[i]]) - 1 /\ Len(data[q[i]]) \in Nat
             /\ P(i) \in Nat /\ left[q[i]] \in Nat /\ P(i) + left[q[i]] = Len(data[q[i]])
             /\ L(i) =< Linked
  <2>1. q[i] \in Buffer /\ data[q[i]] \in Contents /\ Whole(data[q[i]]) /\ L(i) =< Linked
    BY <1>1 DEF Listed, Ordered, Run
  <2>2. P(i) \in Nat /\ left[q[i]] \in Nat
    BY <2>1, MaxIsNat DEF TypeInv
  <2>3. P(i) + left[q[i]] = Len(data[q[i]])
    BY DEF Listed, Reading
  <2>4. L(i) = F(i) + Len(data[q[i]]) - 1
    BY DEF FirstByte, LastByte
  <2>5. Len(data[q[i]]) \in Nat /\ F(i) \in 1 .. MaxBytes /\ L(i) \in 1 .. MaxBytes
    BY <2>1, WholeFacts, MaxIsNat
  <2>6. QED
    BY <2>1, <2>2, <2>3, <2>4, <2>5
<1>4. \A i, j \in 1 .. Len(q) : i < j => L(i) < F(j)
  BY DEF Listed, Ordered, Run
<1>5. \A i \in 1 .. Len(q) - 1 : F(i + 1) = L(i) + 1
  BY DEF Listed, Ordered, Run
<1>6. q # <<>> => F(1) + P(1) = Len(got) + 1 /\ L(Len(q)) = Linked
  <2>1. SUFFICES ASSUME q # <<>> PROVE F(1) + P(1) = Len(got) + 1 /\ L(Len(q)) = Linked
    OBVIOUS
  <2>2. F(1) = Len(got) - P(1) + 1 /\ L(Len(q)) = Linked
    BY <2>1 DEF Listed, Ordered, Run
  <2>3. 1 \in 1 .. Len(q)
    BY <1>1, <2>1, HeadFacts
  <2>4. QED
    BY <1>1, <1>3, <2>2, <2>3
<1>7. \A i \in 2 .. Len(q) : P(i) = 0
  BY DEF Listed, Reading
<1>8. q = <<>> => Len(got) = Linked /\ Len(q) = 0
  BY <1>1, EmptyFacts DEF Listed, Ordered, Run
<1>9. q # <<>> => Len(q) > 0
  BY <1>1, HeadFacts
<1>10. \A i \in 1 .. Len(q) : Unread(q[i]) = F(i) + P(i) .. L(i)
  BY DEF Unread
<1> HIDE DEF F, L, P
<1>11. ASSUME NEW b \in OnList
       PROVE  Unread(b) \subseteq 0 .. MaxBytes /\ Cardinality(Unread(b)) = left[b]
  <2>1. PICK i \in 1 .. Len(q) : q[i] = b
    BY <1>2 DEF In
  <2>2. /\ Unread(b) = F(i) + P(i) .. L(i) /\ F(i) + P(i) \in Int /\ L(i) \in Int
        /\ 0 =< F(i) + P(i) /\ L(i) =< MaxBytes
    BY <1>3, <1>10, <2>1, MaxIsNat
  <2>3. Unread(b) \subseteq 0 .. MaxBytes
    BY <2>2, MaxIsNat
  <2>4. PICK f \in Int, l \in Int : f = F(i) + P(i) /\ l = L(i)
    BY <2>2
  <2>5. Cardinality(f .. l) = IF f > l THEN 0 ELSE l - f + 1
    BY FS_Interval
  <2>6. left[b] \in Nat /\ left[b] = l - f + 1
    <3>1. ASSUME NEW x \in Int, NEW p \in Int, NEW n \in Int, NEW m \in Int, NEW y \in Int,
                 y = x + n - 1, p + m = n
          PROVE  m = y - (x + p) + 1
      BY <3>1
    <3>2. /\ F(i) \in Int /\ P(i) \in Int /\ Len(data[q[i]]) \in Int /\ L(i) \in Int
          /\ left[q[i]] \in Int /\ left[q[i]] \in Nat
      BY <1>3, MaxIsNat
    <3>3. L(i) = F(i) + Len(data[q[i]]) - 1 /\ P(i) + left[q[i]] = Len(data[q[i]])
      BY <1>3
    <3>4. left[q[i]] = L(i) - (F(i) + P(i)) + 1
      <4>1. PICK x \in Int, p \in Int, m \in Int :
                   x = F(i) /\ p = P(i) /\ m = left[q[i]]
        BY <3>2
      <4>2. PICK n \in Int, y \in Int : n = Len(data[q[i]]) /\ y = L(i)
        BY <3>2
      <4>3. y = x + n - 1 /\ p + m = n
        BY <3>3, <4>1, <4>2
      <4>4. m = y - (x + p) + 1
        BY <3>1, <4>3
      <4>5. QED
        BY <4>1, <4>2, <4>4
    <3>5. QED
      BY <2>1, <2>4, <3>2, <3>4
  <2>7. (IF f > l THEN 0 ELSE l - f + 1) = left[b]
    BY <2>6
  <2>8. QED
    BY <2>2, <2>3, <2>4, <2>5, <2>7
<1>12. ASSUME NEW b \in OnList, NEW c \in OnList, b # c
       PROVE  Unread(b) \cap Unread(c) = {}
  <2>1. PICK i \in 1 .. Len(q) : q[i] = b
    BY <1>2 DEF In
  <2>2. PICK j \in 1 .. Len(q) : q[j] = c
    BY <1>2 DEF In
  <2>3. ASSUME NEW m \in 1 .. Len(q), NEW n \in 1 .. Len(q), m < n
        PROVE  (F(m) + P(m) .. L(m)) \cap (F(n) + P(n) .. L(n)) = {}
    <3>1. L(m) \in Int /\ F(n) \in Int /\ P(n) \in Nat
      BY <1>3, MaxIsNat
    <3>2. L(m) < F(n)
      BY <1>4, <2>3
    <3>3. PICK l \in Int, f \in Int, p \in Nat : l = L(m) /\ f = F(n) /\ p = P(n)
      BY <3>1
    <3>4. l < f + p
      BY <3>2, <3>3
    <3>5. QED
      BY <3>3, <3>4
  <2>4. i < j \/ j < i
    BY <1>12, <2>1, <2>2
  <2>5. QED
    BY <1>10, <2>1, <2>2, <2>3, <2>4
<1>13. UnreadOf(OnList) \subseteq Len(got) + 1 .. Linked
  <2>1. SUFFICES ASSUME NEW n \in UnreadOf(OnList) PROVE n \in Len(got) + 1 .. Linked
    OBVIOUS
  <2>2. PICK i \in 1 .. Len(q) : n \in F(i) + P(i) .. L(i)
    BY <1>2, <1>10, <2>1 DEF UnreadOf, In
  <2>3. n \in Int /\ F(i) + P(i) =< n /\ n =< L(i) /\ L(i) =< Linked /\ L(i) \in Int
    BY <1>3, <2>2, MaxIsNat
  <2>4. 1 \in 1 .. Len(q) /\ q # <<>>
    BY <1>1, <1>8
  <2>5. Len(got) + 1 =< F(i) + P(i)
    <3>1. CASE i = 1
      BY <1>1, <1>6, <2>4, <3>1
    <3>2. CASE i # 1
      <4>1. L(1) < F(i) /\ 1 < i
        BY <1>4, <2>4, <3>2
      <4>2. F(1) + P(1) =< L(1) + 1
        <5>1. ASSUME NEW x \in Int, NEW p \in Int, NEW k \in Int, NEW m \in Nat, NEW y \in Int,
                     y = x + k - 1, p + m = k
              PROVE  x + p =< y + 1
          BY <5>1
        <5>2. /\ F(1) \in Int /\ P(1) \in Int /\ Len(data[q[1]]) \in Int /\ L(1) \in Int
              /\ left[q[1]] \in Nat
          BY <1>3, <2>4, MaxIsNat
        <5>3. L(1) = F(1) + Len(data[q[1]]) - 1 /\ P(1) + left[q[1]] = Len(data[q[1]])
          BY <1>3, <2>4
        <5>4. QED
          BY <5>1, <5>2, <5>3
      <4>3. QED
        BY <1>1, <1>3, <1>6, <2>4, <4>1, <4>2, MaxIsNat
    <3>3. QED
      BY <3>1, <3>2
  <2>6. QED
    BY <1>1, <1>3, <2>3, <2>5, MaxIsNat
<1>14. Len(got) + 1 .. Linked \subseteq UnreadOf(OnList)
  <2>1. SUFFICES ASSUME NEW n \in Len(got) + 1 .. Linked PROVE n \in UnreadOf(OnList)
    OBVIOUS
  <2>2. n \in Int /\ Len(got) < n /\ n =< Linked
    BY <1>1
  <2>3. q # <<>> /\ Len(q) > 0 /\ 1 \in 1 .. Len(q) /\ Len(q) \in 1 .. Len(q)
    BY <1>1, <1>8, <1>9, <2>2
  <2>4. PICK i \in 1 .. Len(q) : n =< L(i) /\ \A j \in 1 .. Len(q) : n =< L(j) => i =< j
    <3>1. {j \in 1 .. Len(q) : n =< L(j)} \in SUBSET Nat
      BY <1>1
    <3>2. {j \in 1 .. Len(q) : n =< L(j)} # {}
      BY <1>6, <2>2, <2>3
    <3>3. PICK i \in {j \in 1 .. Len(q) : n =< L(j)} :
                 \A m \in {j \in 1 .. Len(q) : n =< L(j)} : i =< m
      BY ONLY <3>1, <3>2, Least
    <3>4. QED
      BY <3>3
  <2>5. F(i) + P(i) =< n
    <3>1. CASE i = 1
      BY <1>1, <1>6, <2>2, <2>3, <3>1
    <3>2. CASE i # 1
      <4>1. i - 1 \in 1 .. Len(q) - 1 /\ i - 1 \in 1 .. Len(q) /\ i - 1 + 1 = i /\ i \in 2 .. Len(q)
            /\ ~(i =< i - 1)
        BY <1>1, <3>2
      <4>2. ~(n =< L(i - 1)) /\ F(i) = L(i - 1) + 1 /\ P(i) = 0
        BY <1>5, <1>7, <2>4, <4>1
      <4>3. QED
        BY <1>3, <2>2, <4>1, <4>2, MaxIsNat
    <3>3. QED
      BY <3>1, <3>2
  <2>6. n \in F(i) + P(i) .. L(i)
    BY <1>3, <2>2, <2>4, <2>5, MaxIsNat
  <2>7. QED
    BY <1>2, <1>10, <2>6 DEF UnreadOf, In
<1>15. QED
  BY <1>11, <1>12, <1>13, <1>14

\* rxData_ counts the bytes on the list, but for those that one of the threads has linked
\* or read and is about to count.
THEOREM CountAgrees == Safe => []DataCounted
<1>1. ASSUME RInv PROVE DataCounted
  <2>1. TypeInv
    BY <1>1 DEF RInv
  <2>2. PICK q, place : Listed(q, place)
    BY <1>1 DEF RInv
  <2>3. /\ Len(got) \in Nat /\ rxData \in Int /\ ret \in Int /\ done \in Int /\ Linked \in Int
        /\ q \in Seq(Buffer) /\ Distinct(q) /\ Chained(q)
    <3>1. rxData \in Int /\ ret \in Int /\ done \in Int
      BY <2>1, MaxIsNat DEF TypeInv
    <3>2. q \in Seq(Buffer) /\ Distinct(q) /\ Chained(q)
      BY <2>2 DEF Listed, Placed
    <3>3. Len(got) \in Nat /\ Linked \in Int
      BY <2>1, <2>2, CountFacts
    <3>4. QED
      BY <3>1, <3>2, <3>3
  <2>4. IsFiniteSet(OnList)
    <3>1. OnList \subseteq Buffer
      BY <2>3, OnListIs, LenProperties DEF In
    <3>2. QED
      BY <3>1, ReceiveAssumption, FS_Subset
  <2>5. FoldSet(LAMBDA b, sum : left[b] + sum, 0, OnList) = Cardinality(UnreadOf(OnList))
    BY <2>1, <2>2, <2>4, UnreadBytes, SumOfLeft
  <2>6. UnreadOf(OnList) = Len(got) + 1 .. Linked
    BY <2>1, <2>2, UnreadBytes
  <2>7. Cardinality(Len(got) + 1 .. Linked) = Linked - Len(got)
    <3>1. Len(got) =< Linked
      BY <2>1, <2>2, GotBeforeLinked
    <3>2. PICK a \in Int : a = Len(got) + 1
      BY <2>3
    <3>3. Cardinality(a .. Linked) = IF a > Linked THEN 0 ELSE Linked - a + 1
      BY <2>3, FS_Interval
    <3>4. (IF a > Linked THEN 0 ELSE Linked - a + 1) = Linked - Len(got)
      BY <2>3, <3>1, <3>2
    <3>5. QED
      BY <3>2, <3>3, <3>4
  <2>8. Linked - Len(got) = rxData + (IF rx = "count" THEN ret ELSE 0) - done
    BY <2>3 DEF Linked
  <2>9. QED
    BY <2>5, <2>6, <2>7, <2>8 DEF DataCounted
<1>2. QED
  BY <1>1, Invariance, PTL

-------------------------------------------------------------------------------
(* Wake-ups *)

\* Between two calls of readData() direct mode is left when the AT core has the task.
WakeInv ==
    /\ CoreKnows
    /\ reader \in {"idle", "core"} => ~direct

\* Nothing is lost between what the RX thread counts and what the AT core knows of.
LEMMA NextWakeInv == TypeInv /\ WakeInv /\ [Next]_vars => WakeInv'
<1> SUFFICES ASSUME TypeInv, WakeInv, [Next]_vars PROVE WakeInv'
  OBVIOUS
<1>1. /\ rxData \in Int /\ notes \in Nat /\ CoreDepth \in Nat /\ CoreDepth > 0
      /\ rx \in {"fetch", "link", "count", "notify"}
      /\ direct \in BOOLEAN /\ leftover \in BOOLEAN
  BY ReceiveAssumption DEF TypeInv
<1> USE DEF WakeInv, CoreKnows
<1>2. CASE UNCHANGED vars
  BY <1>2 DEF vars, core, rxThread
<1>3. CASE \E n \in PacketLengths : HostSends(n)
  BY <1>3 DEF HostSends, core, rxThread
<1>4. CASE Fetch
  BY <1>4 DEF Fetch, RxStep, After, core
<1>5. CASE Link
  BY <1>5 DEF Link, RxStep, After, core
<1>6. CASE Count
  BY <1>6 DEF Count, RxStep, After, core
<1>7. CASE Notify
  <2>1. /\ rx = "notify" /\ UNCHANGED <<rxData, reader, direct>>
        /\ \/ direct
           \/ notes < CoreDepth /\ notes' = notes + 1
           \/ notes = CoreDepth /\ notes' = notes
    BY <1>7 DEF Notify, RxStep
  <2>2. CASE direct
    BY <2>1, <2>2
  <2>3. CASE ~direct
    <3>1. notes' > 0
      BY <1>1, <2>1, <2>3
    <3>2. QED
      BY <2>1, <2>3, <3>1
  <2>4. QED
    BY <2>2, <2>3
<1>8. CASE CoreWakes
  BY <1>8 DEF CoreWakes, ReaderStep
<1>9. CASE CoreRests
  <2>1. rxData =< 0 /\ rxData' = rxData /\ direct' = direct /\ reader = "core"
    BY <1>9 DEF CoreRests, ReaderStep, core
  <2>2. QED
    BY <1>1, <2>1
<1>10. CASE EnterDirect
  BY <1>10 DEF EnterDirect, ReaderStep
<1>11. CASE LeaveDirect
  BY <1>11 DEF LeaveDirect, ReaderStep
<1>12. CASE \E n \in ReadLengths : ReadData(n)
  BY <1>12 DEF ReadData, ReaderStep
<1>13. CASE ReadEnds \/ CopyBytes \/ Unlink \/ Reload
  BY <1>13 DEF ReadEnds, CopyBytes, Unlink, Reload, ReaderStep
<1>14. CASE Uncount
  BY <1>14 DEF Uncount, ReaderStep, core
<1>15. QED
  BY <1>2, <1>3, <1>4, <1>5, <1>6, <1>7, <1>8, <1>9, <1>10, <1>11, <1>12, <1>13, <1>14
     DEF Next, RxThread, ReaderRuns

\* While the AT core rests it knows of the bytes that are counted, or is about to be told.
THEOREM NoWakeUpLost == Safe => []CoreKnows
<1>1. Init => WakeInv
  BY DEF Init, WakeInv, CoreKnows
<1>2. RInv /\ WakeInv /\ [Next]_vars => WakeInv'
  BY NextWakeInv DEF RInv
<1>3. WakeInv => CoreKnows
  BY DEF WakeInv
<1>4. QED
  BY <1>1, <1>2, <1>3, Invariance, PTL DEF Safe
===============================================================================
