--------------------------- MODULE MuxBuffer_proofs ---------------------------
(***************************************************************************)
(* Proofs about MuxBuffer, for any size of the buffer, any frames and any  *)
(* reads: as long as put() does not see head_ meet tail_ and no reset()    *)
(* meets another access, the tasks share a bounded queue without a lock.   *)
(***************************************************************************)
EXTENDS MuxBuffer, SequenceTheorems, TLAPS

-------------------------------------------------------------------------------
(* The inductive invariant *)

\* How much there is from the tail to the head when full_ is FALSE.
HeldFrom(head, tail) == IF head >= tail THEN head - tail ELSE Size + head - tail
Held == HeldFrom(rb.head, rb.tail)

\* How many bytes put() has made visible.
Visible == IF writer = "head" THEN written - frameLen ELSE written

NotFull == rb.full = FALSE /\ (writer = "full" => wFull = FALSE)

\* The frame in put() fits behind the head, even if the comparison is an old one.
WriterInv ==
    /\ writer \in {"space", "head"} => frameLen \in Nat \ {0}
    /\ writer = "space" => written + frameLen =< MaxBytes
    /\ writer = "space" /\ wAhead = TRUE => rb.head >= rb.tail
    /\ writer = "head" =>
         /\ frameLen =< Size - Held
         /\ frameLen =< written
         /\ wHead = Wrap(rb.head + frameLen)
         /\ \A i \in 0 .. frameLen - 1 : rb.cell[Wrap(rb.head + i)] = Visible + i + 1

\* What get() takes is there, even if the comparison is an old one.
ReaderInv ==
    /\ reader \in {"see", "seen", "get", "check"} => len # 0
    /\ reader \in {"get", "check"} => len =< Held
    /\ reader \in {"asked", "seen", "check"} /\ rAhead = FALSE => rb.head < rb.tail
    /\ Resetting => writer = "idle" /\ rb.tail = 0 /\ resets # 0
    /\ reader = "reset_full" \/ uart = "reset_full" => rb.head = 0
    /\ StopsMuxer => BetweenCalls

\* The buffer holds the latest bytes, in their order.
HeldInv ==
    ~Resetting =>
        /\ Held =< Visible
        /\ \A i \in 0 .. Held - 1 :
               rb.cell[Wrap(rb.tail + i)] = Visible - Held + i + 1

\* The AT task has got some or all of the bytes before those.
GotInv ==
    /\ \A i \in 1 .. Len(got) : got[i] =< (IF Resetting THEN Visible ELSE Visible - Held)
    /\ \A i, j \in 1 .. Len(got) : i < j => got[i] < got[j]
    /\ resets = 0 => Len(got) = Visible - Held /\ \A i \in 1 .. Len(got) : got[i] = i

Sound == TypeOK /\ NotFull /\ WriterInv /\ ReaderInv /\ HeldInv /\ GotInv

IInv == ~spoilt => Sound

-------------------------------------------------------------------------------
(* Facts *)

LEMMA WrapIsMod == \A v \in 0 .. 2 * Size - 1 : v % Size = Wrap(v)
<1>1. \A v \in 0 .. Size - 1 : v % Size = v
  BY RingAssumption
<1>2. \A v \in Size .. 2 * Size - 1 : v % Size = v - Size
  BY RingAssumption
<1> QED
  BY <1>1, <1>2, RingAssumption DEF Wrap

LEMMA HeldFacts ==
    \A head, tail \in Index :
        /\ HeldFrom(head, tail) \in 0 .. Size - 1
        /\ Wrap(tail + HeldFrom(head, tail)) = head
BY RingAssumption DEF HeldFrom, Wrap, Index

LEMMA WrapIndex ==
    \A head \in Index, i \in 0 .. Size :
        /\ Wrap(head + i) \in Index
        /\ i < Size => Behind(head, Wrap(head + i)) = i
BY RingAssumption DEF Wrap, Behind, Index

LEMMA WrapTwice ==
    \A tail \in Index, n, i \in 0 .. Size :
        n + i =< Size => Wrap(Wrap(tail + n) + i) = Wrap(tail + (n + i))
BY RingAssumption DEF Wrap, Index

\* The bytes held lie just behind the free space, and the free space just behind them.
LEMMA HeldBehind ==
    \A head, tail \in Index :
        /\ \A i \in 0 .. HeldFrom(head, tail) - 1 :
               /\ Wrap(tail + i) \in Index
               /\ Behind(head, Wrap(tail + i)) = Size - HeldFrom(head, tail) + i
        /\ \A i \in HeldFrom(head, tail) .. Size - 1 :
               Wrap(tail + i) = Wrap(head + (i - HeldFrom(head, tail)))
BY RingAssumption DEF HeldFrom, Wrap, Behind, Index

\* What put() and get() do to the amount that is held.
LEMMA HeldPut ==
    \A head, tail \in Index : \A n \in 1 .. Size - HeldFrom(head, tail) :
        Wrap(head + n) # tail =>
            /\ HeldFrom(Wrap(head + n), tail) = HeldFrom(head, tail) + n
            /\ head < tail => Wrap(head + n) < tail
BY RingAssumption DEF HeldFrom, Wrap, Index

LEMMA HeldGet ==
    \A head, tail \in Index : \A n \in 1 .. HeldFrom(head, tail) :
        /\ Wrap(tail + n) \in Index
        /\ (tail + n) % Size = Wrap(tail + n)
        /\ HeldFrom(head, Wrap(tail + n)) = HeldFrom(head, tail) - n
        /\ head >= tail => head >= Wrap(tail + n)
<1>1. ASSUME NEW head \in Index, NEW tail \in Index, NEW n \in 1 .. HeldFrom(head, tail)
      PROVE  (tail + n) % Size = Wrap(tail + n)
  <2>1. tail + n \in 0 .. 2 * Size - 1
    BY RingAssumption DEF HeldFrom, Index
  <2> QED
    BY <2>1, WrapIsMod
<1>2. ASSUME NEW head \in Index, NEW tail \in Index, NEW n \in 1 .. HeldFrom(head, tail)
      PROVE  /\ Wrap(tail + n) \in Index
             /\ HeldFrom(head, Wrap(tail + n)) = HeldFrom(head, tail) - n
             /\ head >= tail => head >= Wrap(tail + n)
  BY RingAssumption DEF HeldFrom, Wrap, Index
<1> QED
  BY <1>1, <1>2

\* What the code computes as data() while full_ is FALSE.
LEMMA DataFacts ==
    ASSUME TypeOK, rb.full = FALSE
    PROVE  /\ DataSize(rb) = Held
           /\ Ahead <=> rb.head >= rb.tail
           /\ rb.head \in Index /\ rb.tail \in Index /\ rb.cell \in [Index -> Byte]
           /\ Held \in 0 .. Size - 1
<1>1. rb.head \in Index /\ rb.tail \in Index /\ rb.cell \in [Index -> Byte]
  BY DEF TypeOK, Buffers
<1> QED
  BY <1>1, HeldFacts DEF DataSize, Held, HeldFrom, Ahead

LEMMA InitIInv == Init => IInv
<1> SUFFICES ASSUME Init PROVE Sound
  BY DEF IInv
<1> USE RingAssumption, MuxBufferAssumption DEF Init
<1>1. rb.head = 0 /\ rb.tail = 0 /\ rb.full = FALSE /\ rb \in Buffers
  <2>1. 0 \in Index
    BY DEF Index
  <2> QED
    BY <2>1 DEF New, Buffers
<1>2. TypeOK
  <2>1. got \in Seq(Byte)
    OBVIOUS
  <2>2. /\ wAhead \in BOOLEAN /\ wFull \in BOOLEAN /\ rAhead \in BOOLEAN
        /\ spoilt \in BOOLEAN /\ direct \in BOOLEAN /\ leftover \in BOOLEAN
    BY Zenon
  <2>3. wHead \in Index
    BY DEF Index
  <2> QED
    BY <1>1, <2>1, <2>2, <2>3 DEF TypeOK
<1>3. Held = 0 /\ Visible = 0 /\ ~Resetting
  BY <1>1 DEF Held, HeldFrom, Visible, Resetting, FlushesInput, StopsMuxer
<1> QED
  BY <1>1, <1>2, <1>3 DEF Sound, NotFull, WriterInv, ReaderInv, HeldInv, GotInv,
      Resetting, FlushesInput, StopsMuxer, BetweenCalls

\* A step that leaves the bytes alone keeps what is known of them.
LEMMA Quiet ==
    ASSUME HeldInv, GotInv, UNCHANGED <<rb, got, resets>>, Visible' = Visible,
           Resetting' = Resetting
    PROVE  HeldInv' /\ GotInv'
BY DEF HeldInv, GotInv, Held

LEMMA StaysSpoilt == [Next]_vars /\ ~spoilt' => ~spoilt
BY DEF Next, MuxerThread, AtTask, vars, core, Frame, DropFrame, FillCells, SetHead,
    CompareHead, SetFull, Notify, CoreWakes, CompareTail, NothingThere, CoreReads,
    XmodemPolls, ClipLength, RefuseGet, SetTail, ClearFull, FlushInput, ResetHead,
    ResetFull, Caller, UartThread, UartStep, CoreAsksBelow, EnterDirect, LeaveDirect,
    StopMuxer, StopResetsHead, StopResetsFull, NewSession

-------------------------------------------------------------------------------
(* Steps *)

LEMMA NextIInv == IInv /\ [Next]_vars => IInv'
<1> SUFFICES ASSUME Sound, [Next]_vars, ~spoilt' PROVE Sound'
  BY StaysSpoilt DEF IInv
<1>a. /\ rb.head \in Index /\ rb.tail \in Index /\ rb.cell \in [Index -> Byte]
      /\ Held \in 0 .. Size - 1 /\ rb.full = FALSE
      /\ Ahead <=> rb.head >= rb.tail
      /\ written \in Nat /\ Visible \in Nat
  <2>1. rb.full = FALSE /\ TypeOK /\ WriterInv
    BY DEF Sound, NotFull
  <2>2. written \in Nat /\ Visible \in Nat
    BY <2>1, MuxBufferAssumption DEF TypeOK, WriterInv, Visible
  <2> QED
    BY <2>1, <2>2, DataFacts
<1> USE <1>a, RingAssumption, MuxBufferAssumption
<1>1. ASSUME NEW n \in FrameLengths, Frame(n) PROVE Sound'
  <2>1. TypeOK'
    <3>1. wAhead' \in BOOLEAN /\ spoilt' \in BOOLEAN
      BY <1>1 DEF Frame, Ahead
    <3>2. UNCHANGED <<rb, reader, wFull, rAhead, wHead, len, uart, direct, notes, leftover,
                      written, got, resets>>
      BY <1>1 DEF Frame, WriterStep, get
    <3>3. frameLen' \in FrameLengths /\ writer' = "space"
      BY <1>1 DEF Frame, WriterStep
    <3> QED
      BY <3>1, <3>2, <3>3 DEF Sound, TypeOK
  <2>2. NotFull' /\ WriterInv'
    BY <1>1 DEF Frame, WriterStep, get, Sound, NotFull, WriterInv, Visible, Held,
        Resetting, FlushesInput, StopsMuxer
  <2>3. ReaderInv'
    BY <1>1 DEF Frame, WriterStep, get, Sound, ReaderInv, Data, Held, HeldFrom, Resetting,
        FlushesInput, StopsMuxer, BetweenCalls
  <2>4. /\ UNCHANGED <<rb, got, resets>>
        /\ Visible' = Visible /\ Resetting' = Resetting
    BY <1>1 DEF Frame, WriterStep, get, Visible, Resetting, FlushesInput, StopsMuxer
  <2> QED
    BY <2>1, <2>2, <2>3, <2>4, Quiet DEF Sound
<1>2. CASE DropFrame
  <2>1. TypeOK'
    BY <1>2 DEF DropFrame, WriterStep, get, Sound, TypeOK
  <2>2. NotFull' /\ WriterInv'
    BY <1>2
    DEF DropFrame, WriterStep, get, Sound, NotFull, WriterInv, Visible, Held, Resetting,
        FlushesInput, StopsMuxer
  <2>3. ReaderInv'
    BY <1>2 DEF DropFrame, WriterStep, get, Sound, ReaderInv, Data, Held, HeldFrom,
        Resetting, FlushesInput, StopsMuxer, BetweenCalls
  <2>4. /\ UNCHANGED <<rb, got, resets>>
        /\ Visible' = Visible /\ Resetting' = Resetting
    BY <1>2 DEF DropFrame, WriterStep, get, Visible, Resetting, FlushesInput, StopsMuxer
  <2> QED
    BY <2>1, <2>2, <2>3, <2>4, Quiet DEF Sound
<1>3. CASE CompareHead
  <2>1. TypeOK'
    BY <1>3 DEF CompareHead, WriterStep, get, Sound, TypeOK
  <2>2. NotFull' /\ WriterInv'
    BY <1>3
    DEF CompareHead, WriterStep, get, Sound, NotFull, WriterInv, Visible, Held, Resetting,
        FlushesInput, StopsMuxer
  <2>3. ReaderInv'
    BY <1>3
    DEF CompareHead, WriterStep, get, Sound, ReaderInv, Data, Held, HeldFrom, Resetting,
        FlushesInput, StopsMuxer, BetweenCalls
  <2>4. /\ UNCHANGED <<rb, got, resets>>
        /\ Visible' = Visible /\ Resetting' = Resetting
    BY <1>3 DEF CompareHead, WriterStep, get, Visible, Resetting, FlushesInput, StopsMuxer
  <2> QED
    BY <2>1, <2>2, <2>3, <2>4, Quiet DEF Sound
<1>4. CASE SetFull
  <2>0. rb' = rb
    <3>1. rb \in Buffers /\ wFull = FALSE
      BY <1>4 DEF Sound, TypeOK, NotFull, SetFull, WriterStep
    <3>2. rb' = [rb EXCEPT !.full = FALSE]
      BY <1>4, <3>1 DEF SetFull
    <3> QED
      BY <3>1, <3>2 DEF Buffers
  <2>1. TypeOK'
    <3>1. UNCHANGED <<reader, wAhead, wFull, rAhead, spoilt, frameLen, wHead, len, uart,
                      direct, notes, leftover, written, got, resets>>
          /\ writer' = "notify"
      BY <1>4 DEF SetFull, WriterStep, get
    <3> QED
      BY <2>0, <3>1 DEF Sound, TypeOK
  <2>2. NotFull' /\ WriterInv'
    BY <1>4 DEF SetFull, WriterStep, get, Sound, NotFull, WriterInv, Visible, Held,
        Resetting, FlushesInput, StopsMuxer
  <2>3. ReaderInv'
    BY <1>4 DEF SetFull, WriterStep, get, Sound, ReaderInv, Data, Held, HeldFrom,
        Resetting, FlushesInput, StopsMuxer, BetweenCalls
  <2>4. /\ UNCHANGED <<rb, got, resets>>
        /\ Visible' = Visible /\ Resetting' = Resetting
    BY <1>4, <2>0 DEF SetFull, WriterStep, get, Visible, Resetting, FlushesInput,
        StopsMuxer
  <2> QED
    BY <2>1, <2>2, <2>3, <2>4, Quiet DEF Sound
<1>5. CASE Notify
  <2>1. TypeOK'
    BY <1>5 DEF Notify, WriterStep, get, Sound, TypeOK
  <2>2. NotFull' /\ WriterInv'
    BY <1>5 DEF Notify, WriterStep, get, Sound, NotFull, WriterInv, Visible, Held,
        Resetting, FlushesInput, StopsMuxer
  <2>3. ReaderInv'
    BY <1>5 DEF Notify, WriterStep, get, Sound, ReaderInv, Data, Held, HeldFrom,
        Resetting, FlushesInput, StopsMuxer, BetweenCalls
  <2>4. /\ UNCHANGED <<rb, got, resets>>
        /\ Visible' = Visible /\ Resetting' = Resetting
    BY <1>5 DEF Notify, WriterStep, get, Visible, Resetting, FlushesInput, StopsMuxer
  <2> QED
    BY <2>1, <2>2, <2>3, <2>4, Quiet DEF Sound
<1>6. CASE CoreWakes
  <2>1. TypeOK'
    <3>1. notes' \in 0 .. CoreDepth
      BY <1>6 DEF CoreWakes, Sound, TypeOK
    <3>2. /\ reader' = "ask" /\ leftover' = FALSE
          /\ UNCHANGED <<rb, put, uart, written, len, rAhead, direct, got, resets, spoilt>>
      BY <1>6 DEF CoreWakes, ReaderStep
    <3> QED
      BY <3>1, <3>2 DEF put, Sound, TypeOK
  <2>2. NotFull' /\ WriterInv'
    BY <1>6
    DEF CoreWakes, ReaderStep, core, put, Sound, NotFull, WriterInv, Visible, Held,
        Resetting, FlushesInput, StopsMuxer
  <2>3. ReaderInv'
    BY <1>6 DEF CoreWakes, ReaderStep, core, put, Sound, ReaderInv, Data, Held, HeldFrom,
        Resetting, FlushesInput, StopsMuxer, BetweenCalls
  <2>4. /\ UNCHANGED <<rb, got, resets>>
        /\ Visible' = Visible /\ Resetting' = Resetting
    BY <1>6 DEF CoreWakes, ReaderStep, core, put, Visible, Resetting, FlushesInput,
        StopsMuxer
  <2> QED
    BY <2>1, <2>2, <2>3, <2>4, Quiet DEF Sound
<1>7. CASE CompareTail
  <2>0. /\ UNCHANGED <<rb, writer, wAhead, wFull, frameLen, wHead, len, uart, direct, notes,
                       leftover, written, got, resets>>
        /\ ~StopsMuxer
    BY <1>7 DEF CompareTail, ReaderStep, core, put
  <2>9. \/ reader = "ask" /\ reader' = "asked"
        \/ reader = "see" /\ reader' = "seen"
        \/ reader = "get" /\ reader' = "check"
    BY <1>7 DEF CompareTail, ReaderStep, core
  <2>1. TypeOK'
    <3>1. rAhead' \in BOOLEAN /\ spoilt' \in BOOLEAN
      BY <1>7 DEF CompareTail, Ahead
    <3> QED
      BY <2>0, <2>9, <3>1 DEF Sound, TypeOK
  <2>2. NotFull' /\ WriterInv'
    BY <1>7
    DEF CompareTail, ReaderStep, core, put, Sound, NotFull, WriterInv, Visible, Held,
        Resetting, FlushesInput, StopsMuxer
  <2>3. ReaderInv'
    <3>1. rAhead' = FALSE => rb.head < rb.tail
      BY <1>7 DEF CompareTail, Index
    <3> QED
      BY <2>0, <2>9, <3>1 DEF Sound, ReaderInv, Held, Resetting, FlushesInput, StopsMuxer,
          BetweenCalls
  <2>4. /\ UNCHANGED <<rb, got, resets>>
        /\ Visible' = Visible /\ Resetting' = Resetting
    BY <1>7 DEF CompareTail, ReaderStep, core, put, Visible, Resetting, FlushesInput,
        StopsMuxer
  <2> QED
    BY <2>1, <2>2, <2>3, <2>4, Quiet DEF Sound
<1>8. CASE NothingThere
  <2>1. TypeOK'
    BY <1>8 DEF NothingThere, ReaderStep, core, put, Sound, TypeOK
  <2>2. NotFull' /\ WriterInv'
    BY <1>8
    DEF NothingThere, ReaderStep, core, put, Sound, NotFull, WriterInv, Visible, Held,
        Resetting, FlushesInput, StopsMuxer
  <2>3. ReaderInv'
    BY <1>8
    DEF NothingThere, ReaderStep, core, put, Sound, ReaderInv, Data, Held, HeldFrom,
        Resetting, FlushesInput, StopsMuxer, BetweenCalls
  <2>4. /\ UNCHANGED <<rb, got, resets>>
        /\ Visible' = Visible /\ Resetting' = Resetting
    BY <1>8 DEF NothingThere, ReaderStep, core, put, Visible, Resetting, FlushesInput,
        StopsMuxer
  <2> QED
    BY <2>1, <2>2, <2>3, <2>4, Quiet DEF Sound
<1>9. ASSUME NEW n \in ReadLengths, CoreReads(n) PROVE Sound'
  <2>1. TypeOK'
    BY <1>9 DEF CoreReads, ReaderStep, core, put, Sound, TypeOK
  <2>2. NotFull' /\ WriterInv'
    BY <1>9
    DEF CoreReads, ReaderStep, core, put, Sound, NotFull, WriterInv, Visible, Held,
        Resetting, FlushesInput, StopsMuxer
  <2>3. ReaderInv'
    BY <1>9 DEF CoreReads, ReaderStep, core, put, Sound, ReaderInv, Data, Held, HeldFrom,
        Resetting, FlushesInput, StopsMuxer, BetweenCalls
  <2>4. /\ UNCHANGED <<rb, got, resets>>
        /\ Visible' = Visible /\ Resetting' = Resetting
    BY <1>9 DEF CoreReads, ReaderStep, core, put, Visible, Resetting, FlushesInput,
        StopsMuxer
  <2> QED
    BY <2>1, <2>2, <2>3, <2>4, Quiet DEF Sound
<1>10. ASSUME NEW n \in ReadLengths, XmodemPolls(n) PROVE Sound'
  <2>1. TypeOK'
    BY <1>10 DEF XmodemPolls, ReaderStep, core, put, Sound, TypeOK
  <2>2. NotFull' /\ WriterInv'
    BY <1>10
    DEF XmodemPolls, ReaderStep, core, put, Sound, NotFull, WriterInv, Visible, Held,
        Resetting, FlushesInput, StopsMuxer
  <2>3. ReaderInv'
    BY <1>10
    DEF XmodemPolls, ReaderStep, core, put, Sound, ReaderInv, Data, Held, HeldFrom,
        Resetting, FlushesInput, StopsMuxer, BetweenCalls
  <2>4. /\ UNCHANGED <<rb, got, resets>>
        /\ Visible' = Visible /\ Resetting' = Resetting
    BY <1>10 DEF XmodemPolls, ReaderStep, core, put, Visible, Resetting, FlushesInput,
        StopsMuxer
  <2> QED
    BY <2>1, <2>2, <2>3, <2>4, Quiet DEF Sound
<1>11. CASE ClipLength
  <2>0. UNCHANGED <<rb, writer, wAhead, wFull, rAhead, spoilt, frameLen, wHead, uart, direct,
                    notes, leftover, written, got, resets>>
    BY <1>11 DEF ClipLength, ReaderStep, core, put, Caller
  <2>8. Data(rAhead) \in Int /\ len \in Nat /\ rAhead \in BOOLEAN
    BY DEF Sound, TypeOK, Data, Index
  <2>9. \/ /\ reader = "seen" /\ Data(rAhead) > 0 /\ reader' = "get"
           /\ len' = IF Data(rAhead) < len THEN Data(rAhead) ELSE len
        \/ reader = "seen" /\ reader' \in {"ask", "direct"} /\ len' = len
    BY <1>11 DEF ClipLength, ReaderStep, Caller, core
  <2>1. TypeOK'
    <3>1. len' \in Nat /\ reader' \in {"get", "ask", "direct"}
      BY <2>8, <2>9
    <3> QED
      BY <2>0, <3>1 DEF Sound, TypeOK
  <2>2. NotFull' /\ WriterInv'
    BY <1>11
    DEF ClipLength, ReaderStep, core, put, Sound, NotFull, WriterInv, Visible, Held,
        Resetting, FlushesInput, StopsMuxer, Caller
  <2>3. ReaderInv'
    <3>1. Data(rAhead) > 0 => Data(rAhead) =< Held
      BY <2>8, <2>9 DEF Sound, ReaderInv, Data, Held, HeldFrom, Index
    <3>2. len # 0 /\ (reader' = "get" => len' # 0 /\ len' =< Held)
      BY <2>8, <2>9, <3>1 DEF Sound, ReaderInv
    <3> QED
      BY <2>0, <2>9, <3>2 DEF Sound, ReaderInv, Held, Resetting, FlushesInput, StopsMuxer,
          BetweenCalls
  <2>4. /\ UNCHANGED <<rb, got, resets>>
        /\ Visible' = Visible /\ Resetting' = Resetting
    BY <1>11 DEF ClipLength, ReaderStep, core, put, Visible, Resetting, FlushesInput,
        StopsMuxer, Caller
  <2> QED
    BY <2>1, <2>2, <2>3, <2>4, Quiet DEF Sound
<1>12. CASE RefuseGet
  <2>1. TypeOK'
    BY <1>12 DEF RefuseGet, ReaderStep, core, put, Sound, TypeOK, Caller
  <2>2. NotFull' /\ WriterInv'
    BY <1>12
    DEF RefuseGet, ReaderStep, core, put, Sound, NotFull, WriterInv, Visible, Held,
        Resetting, FlushesInput, StopsMuxer, Caller
  <2>3. ReaderInv'
    BY <1>12
    DEF RefuseGet, ReaderStep, core, put, Sound, ReaderInv, Data, Held, HeldFrom,
        Resetting, FlushesInput, StopsMuxer, BetweenCalls, Caller
  <2>4. /\ UNCHANGED <<rb, got, resets>>
        /\ Visible' = Visible /\ Resetting' = Resetting
    BY <1>12 DEF RefuseGet, ReaderStep, core, put, Visible, Resetting, FlushesInput,
        StopsMuxer, Caller
  <2> QED
    BY <2>1, <2>2, <2>3, <2>4, Quiet DEF Sound
<1>13. CASE ClearFull
  <2>0. rb' = rb
    <3>1. rb \in Buffers
      BY DEF Sound, TypeOK
    <3>2. rb' = [rb EXCEPT !.full = FALSE]
      BY <1>13, <3>1 DEF ClearFull, Caller
    <3> QED
      BY <3>1, <3>2 DEF Buffers
  <2>1. TypeOK'
    <3>1. /\ UNCHANGED <<writer, wAhead, wFull, rAhead, spoilt, frameLen, wHead, len, uart,
                         direct, notes, leftover, written, got, resets>>
          /\ reader' \in {"ask", "direct"}
      BY <1>13 DEF ClearFull, ReaderStep, core, put, Caller
    <3> QED
      BY <2>0, <3>1 DEF Sound, TypeOK
  <2>2. NotFull' /\ WriterInv'
    BY <1>13
    DEF ClearFull, ReaderStep, core, put, Sound, NotFull, WriterInv, Visible, Held,
        Resetting, FlushesInput, StopsMuxer, Caller
  <2>3. ReaderInv'
    BY <1>13
    DEF ClearFull, ReaderStep, core, put, Sound, ReaderInv, Data, Held, HeldFrom,
        Resetting, FlushesInput, StopsMuxer, BetweenCalls, Caller
  <2>4. /\ UNCHANGED <<rb, got, resets>>
        /\ Visible' = Visible /\ Resetting' = Resetting
    BY <1>13, <2>0 DEF ClearFull, ReaderStep, core, put, Visible, Resetting, FlushesInput,
        StopsMuxer, Caller
  <2> QED
    BY <2>1, <2>2, <2>3, <2>4, Quiet DEF Sound
<1>14. CASE UNCHANGED vars
  <2>1. TypeOK'
    BY <1>14 DEF vars, core, put, get, Sound, TypeOK
  <2>2. NotFull' /\ WriterInv'
    BY <1>14 DEF vars, core, put, get, Sound, NotFull, WriterInv, Visible, Held,
        Resetting, FlushesInput, StopsMuxer
  <2>3. ReaderInv'
    BY <1>14 DEF vars, core, put, get, Sound, ReaderInv, Data, Held, HeldFrom, Resetting,
        FlushesInput, StopsMuxer, BetweenCalls
  <2>4. /\ UNCHANGED <<rb, got, resets>>
        /\ Visible' = Visible /\ Resetting' = Resetting
    BY <1>14 DEF vars, core, put, get, Visible, Resetting, FlushesInput, StopsMuxer
  <2> QED
    BY <2>1, <2>2, <2>3, <2>4, Quiet DEF Sound
<1>15. CASE FillCells
  <2> DEFINE cell == [i \in Index |-> IF Behind(rb.head, i) < frameLen
                                      THEN written + Behind(rb.head, i) + 1 ELSE rb.cell[i]]
  <2>1. /\ writer = "space" /\ writer' = "head"
        /\ UNCHANGED <<reader, len, rAhead, uart, resets, frameLen, wAhead, wFull, direct,
                       notes, leftover, got, spoilt>>
        /\ wHead' = Wrap(rb.head + frameLen)
        /\ written' = written + frameLen
        /\ Size - Data(wAhead) >= frameLen
    BY <1>15 DEF FillCells, WriterStep, get, Fits
  <2>2. frameLen \in Nat \ {0} /\ written + frameLen =< MaxBytes /\ wAhead \in BOOLEAN
        /\ (wAhead = TRUE => rb.head >= rb.tail)
    BY <2>1 DEF Sound, TypeOK, WriterInv
  <2>3. frameLen =< Size - Held
    BY <2>1, <2>2 DEF Data, Held, HeldFrom, Index
  <2>4. rb' = [rb EXCEPT !.cell = cell]
    BY <1>15 DEF FillCells
  <2>5. /\ rb' \in Buffers
        /\ rb'.head = rb.head /\ rb'.tail = rb.tail /\ rb'.full = FALSE
        /\ rb'.cell = cell
    <3>1. rb \in Buffers
      BY DEF Sound, TypeOK
    <3>2. cell \in [Index -> Byte]
      <4>1. \A i \in Index : Behind(rb.head, i) \in Nat
        BY DEF Behind, Index
      <4> QED
        BY <2>2, <4>1
    <3> HIDE DEF cell
    <3> QED
      BY <2>4, <3>1, <3>2 DEF Buffers
  <2>6. /\ Held' = Held /\ Visible' = Visible /\ Visible = written
        /\ Resetting' = Resetting /\ ~Resetting
    BY <2>1, <2>2, <2>5 DEF Held, Visible, Resetting, FlushesInput, StopsMuxer, Sound,
        ReaderInv, BetweenCalls
  <2>7. TypeOK'
    <3>1. wHead' \in Index
      BY <2>1, <2>2, <2>3, WrapIndex
    <3>2. written' \in 0 .. MaxBytes
      BY <2>1, <2>2
    <3> QED
      BY <2>1, <2>5, <3>1, <3>2 DEF Sound, TypeOK
  <2>8. WriterInv'
    <3>1. ASSUME NEW i \in 0 .. frameLen - 1
          PROVE  cell[Wrap(rb.head + i)] = written + i + 1
      <4>1. Wrap(rb.head + i) \in Index /\ Behind(rb.head, Wrap(rb.head + i)) = i
        <5>1. i \in 0 .. Size /\ i < Size
          BY <2>2, <2>3
        <5> QED
          BY <5>1, WrapIndex
      <4> QED
        BY <2>2, <4>1
    <3> HIDE DEF cell
    <3> QED
      BY <2>1, <2>2, <2>3, <2>5, <2>6, <3>1 DEF WriterInv
  <2>9. HeldInv'
    <3>1. ASSUME NEW i \in 0 .. Held - 1
          PROVE  cell[Wrap(rb.tail + i)] = rb.cell[Wrap(rb.tail + i)]
      <4>1. /\ Wrap(rb.tail + i) \in Index
            /\ Behind(rb.head, Wrap(rb.tail + i)) = Size - Held + i
        BY HeldBehind DEF Held
      <4>2. ~(Size - Held + i < frameLen)
        BY <2>2, <2>3
      <4> QED
        BY <4>1, <4>2
    <3> HIDE DEF cell
    <3> QED
      BY <2>5, <2>6, <3>1 DEF HeldInv, Sound
  <2>10. NotFull' /\ ReaderInv' /\ GotInv'
    BY <2>1, <2>5, <2>6 DEF Sound, NotFull, ReaderInv, GotInv, Resetting, FlushesInput,
        StopsMuxer, BetweenCalls
  <2> QED
    BY <2>7, <2>8, <2>9, <2>10 DEF Sound
<1>16. CASE SetHead
  <2>1. /\ writer = "head" /\ writer' = "compare"
        /\ UNCHANGED <<reader, len, rAhead, uart, resets, frameLen, wAhead, wHead, wFull,
                       direct, notes, leftover, written, got>>
        /\ rb' = [rb EXCEPT !.head = wHead]
        /\ wHead # rb.tail /\ spoilt' = (spoilt \/ FALSE)
    BY <1>16 DEF SetHead, WriterStep, get
  <2>2. /\ frameLen \in Nat \ {0} /\ frameLen =< Size - Held /\ frameLen =< written
        /\ wHead = Wrap(rb.head + frameLen) /\ wHead \in Index
        /\ \A i \in 0 .. frameLen - 1 : rb.cell[Wrap(rb.head + i)] = Visible + i + 1
    BY <2>1 DEF Sound, WriterInv, TypeOK
  <2>3. /\ rb' \in Buffers
        /\ rb'.head = wHead /\ rb'.tail = rb.tail /\ rb'.full = FALSE /\ rb'.cell = rb.cell
    <3>1. rb \in Buffers
      BY DEF Sound, TypeOK
    <3> QED
      BY <2>1, <2>2, <3>1 DEF Buffers
  <2>4. Held' = Held + frameLen
    BY <2>1, <2>2, <2>3, HeldPut DEF Held
  <2>5. Visible' = Visible + frameLen /\ Resetting' = Resetting /\ ~Resetting
    BY <2>1, <2>2 DEF Visible, Resetting, FlushesInput, StopsMuxer, Sound, ReaderInv,
        BetweenCalls
  <2>6. TypeOK'
    <3>1. spoilt' \in BOOLEAN
      BY <2>1
    <3> QED
      BY <2>1, <2>3, <3>1 DEF Sound, TypeOK
  <2>7. ReaderInv'
    <3>1. rb.head < rb.tail => rb'.head < rb'.tail
      BY <2>1, <2>2, <2>3, HeldPut DEF Held
    <3>2. len \in Nat
      BY DEF Sound, TypeOK
    <3> QED
      BY <2>1, <2>2, <2>3, <2>4, <2>5, <3>1, <3>2 DEF Sound, ReaderInv, Resetting,
          FlushesInput, StopsMuxer, BetweenCalls
  <2>8. HeldInv'
    <3>1. ASSUME NEW i \in 0 .. Held + frameLen - 1
          PROVE  rb.cell[Wrap(rb.tail + i)] = Visible - Held + i + 1
      <4>1. CASE i < Held
        BY <2>5, <4>1 DEF Sound, HeldInv
      <4>2. CASE i >= Held
        <5>1. Wrap(rb.tail + i) = Wrap(rb.head + (i - Held)) /\ i - Held \in 0 .. frameLen - 1
          <6>1. i \in Held .. Size - 1 /\ i - Held \in 0 .. frameLen - 1
            BY <2>2, <4>2
          <6> QED
            BY <6>1, HeldBehind DEF Held
        <5>2. rb.cell[Wrap(rb.head + (i - Held))] = Visible + (i - Held) + 1
          BY <2>2, <5>1
        <5> QED
          BY <5>1, <5>2
      <4> QED
        BY <2>2, <4>1, <4>2
    <3>2. Held =< Visible
      BY <2>5 DEF Sound, HeldInv
    <3>3. Held' =< Visible' /\ Visible' - Held' = Visible - Held
      BY <2>2, <2>4, <2>5, <3>2
    <3>4. ASSUME NEW i \in 0 .. Held' - 1
          PROVE  rb'.cell[Wrap(rb'.tail + i)] = Visible' - Held' + i + 1
      <4>1. i \in 0 .. Held + frameLen - 1
        BY <2>2, <2>4
      <4>2. rb.cell[Wrap(rb.tail + i)] = Visible - Held + i + 1
        BY <3>1, <4>1
      <4>3. Visible' - Held' + i + 1 = Visible - Held + i + 1
        BY ONLY <3>3
      <4> QED
        BY ONLY <2>3, <4>2, <4>3
    <3> QED
      BY <3>3, <3>4 DEF HeldInv
  <2>9. NotFull' /\ WriterInv'
    BY <2>1, <2>3 DEF NotFull, WriterInv
  <2>10. GotInv'
    <3>1. Visible' - Held' = Visible - Held
      BY <2>2, <2>4, <2>5
    <3> QED
      BY <2>1, <2>5, <3>1 DEF Sound, GotInv
  <2> QED
    BY <2>6, <2>7, <2>8, <2>9, <2>10 DEF Sound
<1>17. CASE SetTail
  <2> DEFINE taken == [i \in 1 .. len |-> rb.cell[(rb.tail + i - 1) % Size]]
  <2>1. /\ reader = "check" /\ reader' = "clear"
        /\ UNCHANGED <<writer, frameLen, wAhead, wHead, wFull, written, len, rAhead, uart,
                       direct, notes, leftover, resets, spoilt>>
        /\ got' = got \o taken
        /\ rb' = [rb EXCEPT !.tail = (rb.tail + len) % Size]
    BY <1>17 DEF SetTail, ReaderStep, core, put, Taken
  <2>2. len \in 1 .. Held /\ got \in Seq(Byte)
    BY <2>1 DEF Sound, ReaderInv, TypeOK
  <2>3. (rb.tail + len) % Size = Wrap(rb.tail + len) /\ Wrap(rb.tail + len) \in Index
    BY <2>2, HeldGet DEF Held
  <2>4. /\ rb' \in Buffers
        /\ rb'.head = rb.head /\ rb'.tail = Wrap(rb.tail + len) /\ rb'.full = FALSE
        /\ rb'.cell = rb.cell
    <3>1. rb \in Buffers
      BY DEF Sound, TypeOK
    <3> QED
      BY <2>1, <2>3, <3>1 DEF Buffers
  <2>5. Held' = Held - len
    BY <2>2, <2>4, HeldGet DEF Held
  <2>6. Visible' = Visible /\ ~Resetting /\ ~Resetting'
    BY <2>1
    DEF Sound, ReaderInv, Visible, Resetting, FlushesInput, StopsMuxer, BetweenCalls
  <2>7. Held =< Visible /\ \A i \in 0 .. Held - 1 :
            rb.cell[Wrap(rb.tail + i)] = Visible - Held + i + 1
    BY <2>6 DEF Sound, HeldInv
  <2>8. taken = [i \in 1 .. len |-> Visible - Held + i]
    <3>1. ASSUME NEW i \in 1 .. len PROVE taken[i] = Visible - Held + i
      <4>1. i - 1 \in 0 .. Held - 1 /\ rb.tail + i - 1 = rb.tail + (i - 1)
            /\ rb.tail + (i - 1) \in 0 .. 2 * Size - 1
        BY <2>2 DEF Index
      <4>2. (rb.tail + i - 1) % Size = Wrap(rb.tail + (i - 1))
        BY <4>1, WrapIsMod
      <4>3. rb.cell[Wrap(rb.tail + (i - 1))] = Visible - Held + (i - 1) + 1
        BY <2>7, <4>1
      <4> QED
        BY <4>2, <4>3
    <3> QED
      BY <3>1
  <2> HIDE DEF taken
  <2>9. /\ Len(got') = Len(got) + len
        /\ \A i \in 1 .. Len(got) : got'[i] = got[i]
        /\ \A i \in Len(got) + 1 .. Len(got) + len : got'[i] = Visible - Held + (i - Len(got))
        /\ got' \in Seq(Byte)
    <3>1. \A i \in 1 .. len : Visible - Held + i \in Byte
      <4>1. Visible =< written /\ written =< MaxBytes
        BY DEF Sound, TypeOK, Visible, WriterInv
      <4> QED
        BY <2>2, <2>7, <4>1
    <3>2. taken \in [1 .. len -> Byte] /\ len \in Nat
      <4>1. len \in Nat
        BY <2>2
      <4>2. [i \in 1 .. len |-> Visible - Held + i] \in [1 .. len -> Byte]
        BY <3>1
      <4> QED
        BY <2>8, <4>1, <4>2
    <3>3. taken \in Seq(Byte)
      BY <3>2, SeqDef
    <3>4. Len(taken) = len
      BY <3>2, <3>3, LenProperties
    <3>5. /\ got' \in Seq(Byte)
          /\ Len(got') = Len(got) + len
          /\ \A i \in 1 .. Len(got) + len :
                 got'[i] = IF i =< Len(got) THEN got[i] ELSE taken[i - Len(got)]
      BY <2>1, <2>2, <3>3, <3>4, ConcatProperties
    <3>6. Len(got) \in Nat
      BY <2>2
    <3>7. ASSUME NEW i \in Len(got) + 1 .. Len(got) + len
          PROVE  got'[i] = Visible - Held + (i - Len(got))
      <4>1. i - Len(got) \in 1 .. len /\ i \in 1 .. Len(got) + len /\ ~(i =< Len(got))
        BY <2>2, <3>6
      <4>2. taken[i - Len(got)] = Visible - Held + (i - Len(got))
        BY <2>8, <4>1
      <4> QED
        BY <3>5, <4>1, <4>2
    <3> QED
      BY <2>2, <3>5, <3>6, <3>7
  <2>10. TypeOK'
    BY <2>1, <2>4, <2>9 DEF Sound, TypeOK
  <2>11. NotFull' /\ WriterInv'
    <3>1. Held' =< Held /\ Held' \in Int
      BY <2>2, <2>5
    <3>2. rb.head >= rb.tail => rb'.head >= rb'.tail
      BY <2>2, <2>4, HeldGet DEF Held
    <3>3. writer = "head" => frameLen =< Size - Held'
      BY <2>1, <3>1 DEF Sound, WriterInv
    <3> QED
      BY <2>1, <2>4, <2>6, <3>2, <3>3 DEF Sound, NotFull, WriterInv
  <2>12. ReaderInv'
    BY <2>1, <2>6 DEF ReaderInv, Resetting, FlushesInput, StopsMuxer
  <2>13. HeldInv'
    <3>1. ASSUME NEW i \in 0 .. Held - len - 1
          PROVE  rb.cell[Wrap(Wrap(rb.tail + len) + i)] = Visible - (Held - len) + i + 1
      <4>1. /\ Wrap(Wrap(rb.tail + len) + i) = Wrap(rb.tail + (len + i))
            /\ len + i \in 0 .. Held - 1
        BY <2>2, WrapTwice
      <4>2. rb.cell[Wrap(rb.tail + (len + i))] = Visible - Held + (len + i) + 1
        BY <2>7, <4>1
      <4> QED
        BY <2>2, <4>1, <4>2
    <3> QED
      BY <2>2, <2>4, <2>5, <2>6, <2>7, <3>1 DEF HeldInv
  <2>14. GotInv'
    <3>1. /\ \A i \in 1 .. Len(got) : got[i] =< Visible - Held /\ got[i] \in Nat
          /\ \A i, j \in 1 .. Len(got) : i < j => got[i] < got[j]
          /\ resets = 0 => Len(got) = Visible - Held /\ \A i \in 1 .. Len(got) : got[i] = i
      BY <2>2, <2>6 DEF Sound, GotInv
    <3>2. Len(got) \in Nat
      BY <2>2
    <3>3. len \in Nat /\ Visible - Held \in Nat /\ Visible' - Held' = Visible - Held + len
      BY <2>2, <2>5, <2>6, <2>7
    <3>4. ASSUME NEW i \in 1 .. Len(got')
          PROVE  \/ /\ i \in 1 .. Len(got) /\ got'[i] = got[i]
                    /\ got'[i] =< Visible - Held /\ got'[i] \in Nat
                 \/ /\ i \in Len(got) + 1 .. Len(got) + len
                    /\ got'[i] = Visible - Held + (i - Len(got))
      <4>1. CASE i =< Len(got)
        <5>1. i \in 1 .. Len(got)
          BY <3>2, <4>1
        <5> QED
          BY <2>9, <3>1, <5>1
      <4>2. CASE i > Len(got)
        <5>1. i \in Len(got) + 1 .. Len(got) + len
          BY <2>9, <3>2, <3>3, <4>2
        <5> QED
          BY <2>9, <5>1
      <4>3. i =< Len(got) \/ i > Len(got)
        <5>1. Len(got') \in Nat
          BY <2>9, <3>2, <3>3
        <5> QED
          BY ONLY <3>2, <5>1
      <4> QED
        BY <4>1, <4>2, <4>3
    <3>5. \A i \in 1 .. Len(got') : got'[i] =< Visible' - Held'
      BY <3>2, <3>3, <3>4
    <3>6. ASSUME NEW i \in 1 .. Len(got'), NEW j \in 1 .. Len(got'), i < j
          PROVE  got'[i] < got'[j]
      <4>1. CASE j \in 1 .. Len(got)
        <5>1. i \in 1 .. Len(got)
          BY <3>6, <4>1, <3>2
        <5> QED
          BY <2>9, <3>1, <3>6, <4>1, <5>1
      <4>2. CASE j \in Len(got) + 1 .. Len(got) + len
        <5>1. got'[j] = Visible - Held + (j - Len(got)) /\ j > Len(got)
          BY <2>9, <3>2, <3>3, <4>2
        <5>2. CASE i \in 1 .. Len(got)
          <6>1. got'[i] = got[i] /\ got[i] =< Visible - Held /\ got[i] \in Nat
            BY <2>9, <3>1, <5>2
          <6> QED
            BY <3>2, <3>3, <4>2, <5>1, <6>1
        <5>3. CASE i \in Len(got) + 1 .. Len(got) + len
          <6>1. got'[i] = Visible - Held + (i - Len(got))
            BY <2>9, <5>3
          <6> QED
            BY <3>2, <3>3, <3>6, <4>2, <5>1, <5>3, <6>1
        <5> QED
          BY <3>4, <5>2, <5>3
      <4> QED
        BY <3>4, <4>1, <4>2
    <3>7. ASSUME resets' = 0
          PROVE  Len(got') = Visible' - Held' /\ \A i \in 1 .. Len(got') : got'[i] = i
      <4>1. Len(got) = Visible - Held /\ \A i \in 1 .. Len(got) : got[i] = i
        BY <2>1, <3>1, <3>7
      <4>2. ASSUME NEW i \in 1 .. Len(got') PROVE got'[i] = i
        <5>1. CASE i \in 1 .. Len(got)
          BY <2>9, <4>1, <5>1
        <5>2. CASE i \in Len(got) + 1 .. Len(got) + len
          BY <2>9, <3>2, <4>1, <5>2
        <5> QED
          BY <3>4, <5>1, <5>2
      <4> QED
        BY <2>9, <3>3, <4>1, <4>2
    <3> QED
      BY <2>6, <3>5, <3>6, <3>7 DEF GotInv
  <2> QED
    BY <2>10, <2>11, <2>12, <2>13, <2>14 DEF Sound
<1>18. CASE FlushInput \/ StopMuxer
  <2>1. /\ writer = "idle" /\ resets < MaxResets
        /\ UNCHANGED <<writer, frameLen, wAhead, wHead, wFull, written, len, rAhead, direct,
                       notes, leftover, got>>
        /\ resets' = resets + 1
        /\ rb' = [rb EXCEPT !.tail = 0]
        /\ spoilt' = (spoilt \/ FALSE)
        /\ \/ /\ reader = "direct" /\ reader' = "reset_head" /\ uart' = uart /\ ~StopsMuxer
           \/ /\ uart = "session" /\ uart' = "reset_head" /\ reader' = reader /\ BetweenCalls
    BY <1>18 DEF FlushInput, StopMuxer, ReaderStep, UartStep, core, put, get
  <2>2. resets \in 0 .. MaxResets /\ rb \in Buffers
    BY DEF Sound, TypeOK
  <2>3. /\ rb' \in Buffers
        /\ rb'.head = rb.head /\ rb'.tail = 0 /\ rb'.full = FALSE /\ rb'.cell = rb.cell
    <3>1. 0 \in Index
      BY DEF Index
    <3> QED
      BY <2>1, <2>2, <3>1 DEF Buffers
  <2>4. TypeOK'
    <3>1. resets' \in 0 .. MaxResets /\ spoilt' \in BOOLEAN
      BY <2>1, <2>2
    <3> QED
      BY <2>1, <2>3, <3>1 DEF Sound, TypeOK
  <2>5. ~Resetting /\ Resetting' /\ Visible' = Visible /\ resets' # 0
    BY <2>1, <2>2 DEF Resetting, FlushesInput, StopsMuxer, BetweenCalls, Visible
  <2>6. GotInv'
    <3>1. \A i \in 1 .. Len(got) : got[i] \in Nat
      BY DEF Sound, TypeOK
    <3>2. \A i \in 1 .. Len(got) : got[i] =< Visible
      BY <2>5, <3>1 DEF Sound, GotInv
    <3> QED
      BY <2>1, <2>5, <3>2 DEF Sound, GotInv
  <2>7. ReaderInv'
    BY <2>1, <2>3, <2>5
    DEF Sound, ReaderInv, Resetting, FlushesInput, StopsMuxer, BetweenCalls
  <2>8. NotFull' /\ WriterInv' /\ HeldInv'
    BY <2>1, <2>3, <2>5 DEF NotFull, WriterInv, HeldInv
  <2> QED
    BY <2>4, <2>6, <2>7, <2>8 DEF Sound
<1>19. CASE ResetHead \/ StopResetsHead
  <2>1. /\ UNCHANGED <<writer, frameLen, wAhead, wHead, wFull, written, len, rAhead, direct,
                       notes, leftover, got, resets, spoilt>>
        /\ rb' = [rb EXCEPT !.head = 0]
        /\ \/ reader = "reset_head" /\ reader' = "reset_full" /\ uart' = uart
           \/ uart = "reset_head" /\ uart' = "reset_full" /\ reader' = reader
    BY <1>19 DEF ResetHead, StopResetsHead, ReaderStep, UartStep, core, put, get
  <2>2. Resetting /\ Resetting' /\ Visible' = Visible
    BY <2>1 DEF Resetting, FlushesInput, StopsMuxer, Visible
  <2>3. /\ rb \in Buffers /\ writer = "idle" /\ rb.tail = 0 /\ resets # 0
        /\ StopsMuxer => BetweenCalls
    BY <2>2 DEF Sound, TypeOK, ReaderInv
  <2>4. /\ rb' \in Buffers
        /\ rb'.head = 0 /\ rb'.tail = 0 /\ rb'.full = FALSE /\ rb'.cell = rb.cell
    BY <2>1, <2>3 DEF Buffers, Index
  <2>5. TypeOK'
    BY <2>1, <2>4 DEF Sound, TypeOK
  <2>6. ReaderInv'
    BY <2>1, <2>3, <2>4
    DEF Sound, ReaderInv, Resetting, FlushesInput, StopsMuxer, BetweenCalls
  <2>7. NotFull' /\ WriterInv' /\ HeldInv' /\ GotInv'
    BY <2>1, <2>2, <2>3, <2>4 DEF Sound, NotFull, WriterInv, HeldInv, GotInv
  <2> QED
    BY <2>5, <2>6, <2>7 DEF Sound
<1>20. CASE ResetFull \/ StopResetsFull
  <2>1. /\ UNCHANGED <<writer, frameLen, wAhead, wHead, wFull, written, len, rAhead, direct,
                       notes, leftover, got, resets, spoilt>>
        /\ rb' = [rb EXCEPT !.full = FALSE]
        /\ \/ reader = "reset_full" /\ reader' = "flushed" /\ uart' = uart
           \/ uart = "reset_full" /\ uart' = "over" /\ reader' = reader
    BY <1>20 DEF ResetFull, StopResetsFull, ReaderStep, UartStep, core, put, get
  <2>2. Resetting /\ Visible' = Visible
    BY <2>1 DEF Resetting, FlushesInput, StopsMuxer, Visible
  <2>3. /\ rb \in Buffers /\ writer = "idle" /\ rb.tail = 0 /\ rb.head = 0 /\ resets # 0
        /\ StopsMuxer => BetweenCalls
    BY <2>1, <2>2 DEF Sound, TypeOK, ReaderInv
  <2>4. rb' = rb
    BY <2>1, <2>3 DEF Buffers
  <2>5. TypeOK'
    <3>1. reader' \in {reader, "flushed"} /\ uart' \in {uart, "over"}
      BY <2>1
    <3>2. UNCHANGED <<rb, writer, frameLen, wAhead, wHead, wFull, written, len, rAhead,
                      direct, notes, leftover, got, resets, spoilt>>
      BY <2>1, <2>4
    <3> QED
      BY <3>1, <3>2 DEF Sound, TypeOK
  <2>6. ~Resetting' /\ Held' = 0
    BY <2>1, <2>3, <2>4
    DEF Resetting, FlushesInput, StopsMuxer, BetweenCalls, Held, HeldFrom
  <2>7. ReaderInv'
    BY <2>1, <2>3, <2>4, <2>6
    DEF Sound, ReaderInv, Resetting, FlushesInput, StopsMuxer, BetweenCalls
  <2>8. NotFull' /\ WriterInv' /\ HeldInv' /\ GotInv'
    BY <2>1, <2>2, <2>3, <2>4, <2>6 DEF Sound, NotFull, WriterInv, HeldInv, GotInv
  <2> QED
    BY <2>5, <2>7, <2>8 DEF Sound
<1>21. CASE CoreAsksBelow
  <2>1. TypeOK'
    BY <1>21 DEF CoreAsksBelow, ReaderStep, core, put, Sound, TypeOK
  <2>2. NotFull' /\ WriterInv'
    BY <1>21
    DEF CoreAsksBelow, ReaderStep, core, put, Sound, NotFull, WriterInv, Visible, Held
  <2>3. ReaderInv'
    BY <1>21
    DEF CoreAsksBelow, ReaderStep, core, put, Sound, ReaderInv, Held, Resetting,
        FlushesInput, StopsMuxer, BetweenCalls
  <2>4. /\ UNCHANGED <<rb, got, resets>>
        /\ Visible' = Visible /\ Resetting' = Resetting
    BY <1>21
    DEF CoreAsksBelow, ReaderStep, core, put, Visible, Resetting, FlushesInput, StopsMuxer
  <2> QED
    BY <2>1, <2>2, <2>3, <2>4, Quiet DEF Sound
<1>22. CASE EnterDirect
  <2>1. TypeOK'
    BY <1>22 DEF EnterDirect, ReaderStep, core, put, Sound, TypeOK
  <2>2. NotFull' /\ WriterInv'
    BY <1>22
    DEF EnterDirect, ReaderStep, core, put, Sound, NotFull, WriterInv, Visible, Held
  <2>3. ReaderInv'
    BY <1>22
    DEF EnterDirect, ReaderStep, core, put, Sound, ReaderInv, Held, Resetting,
        FlushesInput, StopsMuxer, BetweenCalls
  <2>4. /\ UNCHANGED <<rb, got, resets>>
        /\ Visible' = Visible /\ Resetting' = Resetting
    BY <1>22
    DEF EnterDirect, ReaderStep, core, put, Visible, Resetting, FlushesInput, StopsMuxer
  <2> QED
    BY <2>1, <2>2, <2>3, <2>4, Quiet DEF Sound
<1>23. CASE LeaveDirect
  <2>1. TypeOK'
    <3>1. /\ leftover' \in BOOLEAN /\ direct' = FALSE /\ reader' \in {"ask", "idle"}
          /\ UNCHANGED <<rb, put, uart, written, len, rAhead, notes, got, resets, spoilt>>
      BY <1>23 DEF LeaveDirect, ReaderStep, Sound, TypeOK
    <3> QED
      BY <3>1 DEF put, Sound, TypeOK
  <2>2. NotFull' /\ WriterInv'
    BY <1>23
    DEF LeaveDirect, ReaderStep, core, put, Sound, NotFull, WriterInv, Visible, Held
  <2>3. ReaderInv'
    BY <1>23
    DEF LeaveDirect, ReaderStep, core, put, Sound, ReaderInv, Held, Resetting,
        FlushesInput, StopsMuxer, BetweenCalls
  <2>4. /\ UNCHANGED <<rb, got, resets>>
        /\ Visible' = Visible /\ Resetting' = Resetting
    BY <1>23
    DEF LeaveDirect, ReaderStep, core, put, Visible, Resetting, FlushesInput, StopsMuxer
  <2> QED
    BY <2>1, <2>2, <2>3, <2>4, Quiet DEF Sound
<1>24. CASE NewSession
  <2>1. TypeOK'
    BY <1>24 DEF NewSession, put, Sound, TypeOK
  <2>2. NotFull' /\ WriterInv'
    BY <1>24
    DEF NewSession, put, Sound, NotFull, WriterInv, Visible, Held
  <2>3. ReaderInv'
    BY <1>24
    DEF NewSession, put, Sound, ReaderInv, Held, Resetting,
        FlushesInput, StopsMuxer, BetweenCalls
  <2>4. /\ UNCHANGED <<rb, got, resets>>
        /\ Visible' = Visible /\ Resetting' = Resetting
    BY <1>24
    DEF NewSession, put, Visible, Resetting, FlushesInput, StopsMuxer
  <2> QED
    BY <2>1, <2>2, <2>3, <2>4, Quiet DEF Sound
<1> QED
  BY <1>1, <1>2, <1>3, <1>4, <1>5, <1>6, <1>7, <1>8, <1>9, <1>10, <1>11, <1>12, <1>13,
     <1>14, <1>15, <1>16, <1>17, <1>18, <1>19, <1>20, <1>21, <1>22, <1>23, <1>24
  DEF Next, MuxerThread, AtTask, UartThread

-------------------------------------------------------------------------------
(* Theorems *)

\* As long as put() never sees head_ meet tail_ and no reset meets a put(), the AT
\* task reads the bytes of the AT channel in order and without loss, although nothing
\* locks the buffer: for any size, frames and reads.
THEOREM OrderKept == Safe => []ReadInOrderUnlessMet
<1>1. IInv => ReadInOrderUnlessMet
  BY DEF IInv, Sound, GotInv, ReadInOrderUnlessMet, ReadInOrder
<1> QED
  BY <1>1, InitIInv, NextIInv, PTL DEF Safe

\* As long, a put() is refused only for want of space and a get() never, unless the
\* other task wraps around between the two halves of data().
THEOREM RefusalsOnlyTorn == Safe => RefusedOnlyTorn
<1> DEFINE A == ~spoilt =>
                  /\ writer = "space" /\ writer' = "notify" =>
                         Space(rb) < frameLen \/ wAhead # Ahead
                  /\ reader = "check" /\ reader' \in {"ask", "direct"} => rAhead # Ahead
<1>1. IInv /\ [Next]_vars => A
  <2> SUFFICES ASSUME Sound, [Next]_vars PROVE A
    BY DEF IInv
  <2>1. /\ wAhead = Ahead => Data(wAhead) = DataSize(rb)
        /\ rAhead = Ahead => Data(rAhead) = DataSize(rb)
    BY DEF Data, DataSize, Ahead
  <2>2. DataSize(rb) = Held /\ Held \in 0 .. Size - 1
    BY DataFacts DEF Sound, NotFull
  <2>3. ASSUME writer = "space", writer' = "notify", wAhead = Ahead
        PROVE  Space(rb) < frameLen
    <3>1. DropFrame
      BY <2>3
      DEF Next, MuxerThread, AtTask, vars, put, WriterStep, ReaderStep, core, Frame,
          FillCells, SetHead, CompareHead, SetFull, Notify, CoreWakes, CompareTail,
          NothingThere, CoreReads, XmodemPolls, ClipLength, RefuseGet, SetTail, ClearFull,
          FlushInput, ResetHead, ResetFull, Caller, UartThread, UartStep, CoreAsksBelow,
          EnterDirect, LeaveDirect, StopMuxer, StopResetsHead, StopResetsFull, NewSession
    <3>2. ~(Size - Held >= frameLen)
      BY <2>1, <2>2, <2>3, <3>1 DEF DropFrame, Fits
    <3>3. frameLen \in Nat
      BY <2>3 DEF Sound, WriterInv
    <3> QED
      BY <2>2, <3>2, <3>3, RingAssumption DEF Space
  <2>4. ASSUME reader = "check", reader' \in {"ask", "direct"}, rAhead = Ahead
        PROVE  FALSE
    <3>1. RefuseGet
      BY <2>4
      DEF Next, MuxerThread, AtTask, vars, get, WriterStep, ReaderStep, core, Frame,
          DropFrame, FillCells, SetHead, CompareHead, SetFull, Notify, CoreWakes,
          CompareTail, NothingThere, CoreReads, XmodemPolls, ClipLength, SetTail,
          ClearFull, FlushInput, ResetHead, ResetFull, Caller, UartThread, UartStep,
          CoreAsksBelow, EnterDirect, LeaveDirect, StopMuxer, StopResetsHead,
          StopResetsFull, NewSession
    <3>2. Held < len
      BY <2>1, <2>2, <2>4, <3>1 DEF RefuseGet, Caller
    <3>3. len =< Held /\ len \in Nat
      BY <2>4 DEF Sound, ReaderInv, TypeOK
    <3> QED
      BY <2>2, <3>2, <3>3
  <2> QED
    BY <2>3, <2>4
<1> QED
  BY <1>1, InitIInv, NextIInv, PTL DEF Safe, RefusedOnlyTorn

-------------------------------------------------------------------------------
(* Wake-ups *)

\* A frame is visible, or dropped, and its notification is to come.
Announcing == writer \in {"compare", "full", "notify"}

\* While the AT core rests, bytes of the AT channel do not lie in the buffer unless it has
\* been notified or will be, or direct mode has left them.
CoreKnows ==
    ~spoilt /\ ~Resetting /\ reader = "idle" /\ ~Empty(rb) =>
        notes > 0 \/ Announcing \/ leftover

\* It may be about to rest on an old comparison, and rests when a session is over.
WakeInv ==
    /\ reader \in {"idle", "ask", "asked"} => direct = FALSE
    /\ uart # "session" => writer = "idle"
    /\ uart = "over" /\ ~Resetting => rb.head = rb.tail
    /\ reader = "idle" /\ ~Resetting /\ rb.head # rb.tail =>
           notes > 0 \/ Announcing \/ leftover = TRUE
    /\ reader = "asked" /\ rAhead = TRUE /\ rb.head < rb.tail => notes > 0 \/ Announcing

KInv == ~spoilt => Sound /\ WakeInv

\* Three kinds of steps move the head or the tail.
LEMMA Pointers ==
    ASSUME Sound, [Next]_vars
    PROVE  \/ rb'.head = rb.head /\ rb'.tail = rb.tail
           \/ SetHead /\ rb'.tail = rb.tail
           \/ SetTail
           \/ Resetting'
<1>1. rb \in Buffers
  BY DEF Sound, TypeOK
<1>2. CASE SetHead
  BY <1>1, <1>2 DEF SetHead, Buffers
<1>3. CASE FillCells \/ SetFull \/ ClearFull \/ ResetFull \/ StopResetsFull
  BY <1>1, <1>3 DEF FillCells, SetFull, ClearFull, ResetFull, StopResetsFull, Buffers
<1>4. CASE FlushInput \/ ResetHead \/ StopMuxer \/ StopResetsHead
  BY <1>4
  DEF FlushInput, ResetHead, StopMuxer, StopResetsHead, ReaderStep, UartStep, Resetting,
      FlushesInput, StopsMuxer
<1>5. CASE \/ DropFrame \/ CompareHead \/ Notify \/ CoreWakes \/ CompareTail \/ NothingThere
           \/ CoreAsksBelow \/ ClipLength \/ RefuseGet \/ EnterDirect \/ LeaveDirect
           \/ NewSession \/ UNCHANGED vars
           \/ \E n \in FrameLengths : Frame(n)
           \/ \E n \in ReadLengths : CoreReads(n) \/ XmodemPolls(n)
  BY <1>5
  DEF DropFrame, CompareHead, Notify, CoreWakes, CompareTail, NothingThere, CoreAsksBelow,
      ClipLength, RefuseGet, EnterDirect, LeaveDirect, NewSession, Frame, CoreReads,
      XmodemPolls, vars
<1> QED
  BY <1>2, <1>3, <1>4, <1>5 DEF Next, MuxerThread, AtTask, UartThread

\* A reset ends with head and tail at the same place.
LEMMA ResetEnds ==
    ASSUME Sound, [Next]_vars, ~Resetting', Resetting
    PROVE  rb'.head = rb'.tail
<1>1. ResetFull \/ StopResetsFull
  BY DEF Next, MuxerThread, AtTask, UartThread, vars, core, get, WriterStep, ReaderStep,
      UartStep, Caller, Frame, DropFrame, FillCells, SetHead, CompareHead, SetFull, Notify,
      CoreWakes, CompareTail, NothingThere, CoreAsksBelow, CoreReads, XmodemPolls,
      ClipLength, RefuseGet, SetTail, ClearFull, EnterDirect, LeaveDirect, FlushInput,
      ResetHead, StopMuxer, StopResetsHead, NewSession, Resetting, FlushesInput, StopsMuxer
<1>2. rb \in Buffers /\ rb.head = 0 /\ rb.tail = 0
  BY <1>1
  DEF Sound, TypeOK, ReaderInv, ResetFull, StopResetsFull, ReaderStep, UartStep, Resetting,
      FlushesInput, StopsMuxer
<1> QED
  BY <1>1, <1>2 DEF ResetFull, StopResetsFull, Buffers

LEMMA WakeStep ==
    ASSUME Sound, Sound', WakeInv, [Next]_vars, ~spoilt'
    PROVE  WakeInv'
<1>1. /\ rb.head \in Index /\ rb.tail \in Index /\ Held \in 0 .. Size - 1 /\ len \in Nat
      /\ direct \in BOOLEAN /\ rAhead \in BOOLEAN /\ notes \in Nat
      /\ rb.full = FALSE /\ (Ahead <=> rb.head >= rb.tail)
      /\ (Empty(rb) <=> rb.head = rb.tail)
  <2>1. TypeOK /\ rb.full = FALSE
    BY DEF Sound, NotFull
  <2>2. Empty(rb) <=> rb.head = rb.tail
    BY <2>1, DataFacts, RingAssumption DEF Empty, DataSize, Index
  <2>3. len \in Nat /\ direct \in BOOLEAN /\ rAhead \in BOOLEAN /\ notes \in Nat
    BY <2>1, MuxBufferAssumption DEF TypeOK
  <2> QED
    BY <2>1, <2>2, <2>3, DataFacts
<1>2. reader' \in {"idle", "ask", "asked"} => direct' = FALSE
  BY <1>1
  DEF Next, MuxerThread, AtTask, UartThread, vars, core, put, get, WriterStep, ReaderStep,
      UartStep, Caller, Frame, DropFrame, FillCells, SetHead, CompareHead, SetFull, Notify,
      CoreWakes, CompareTail, NothingThere, CoreAsksBelow, CoreReads, XmodemPolls,
      ClipLength, RefuseGet, SetTail, ClearFull, EnterDirect, LeaveDirect, FlushInput,
      ResetHead, ResetFull, StopMuxer, StopResetsHead, StopResetsFull, NewSession, WakeInv
<1>3. uart' # "session" => writer' = "idle"
  BY DEF Next, MuxerThread, AtTask, UartThread, vars, core, put, get, WriterStep, ReaderStep,
      UartStep, Caller, Frame, DropFrame, FillCells, SetHead, CompareHead, SetFull, Notify,
      CoreWakes, CompareTail, NothingThere, CoreAsksBelow, CoreReads, XmodemPolls,
      ClipLength, RefuseGet, SetTail, ClearFull, EnterDirect, LeaveDirect, FlushInput,
      ResetHead, ResetFull, StopMuxer, StopResetsHead, StopResetsFull, NewSession, WakeInv
<1>4. ASSUME uart' = "over", ~Resetting' PROVE rb'.head = rb'.tail
  <2>1. CASE Resetting
    BY <1>4, <2>1, ResetEnds
  <2>2. CASE ~Resetting
    <3>1. uart = "over"
      BY <1>4, <2>2
      DEF Next, MuxerThread, AtTask, UartThread, vars, core, put, get, WriterStep,
          ReaderStep, UartStep, Caller, Frame, DropFrame, FillCells, SetHead, CompareHead,
          SetFull, Notify, CoreWakes, CompareTail, NothingThere, CoreAsksBelow, CoreReads,
          XmodemPolls, ClipLength, RefuseGet, SetTail, ClearFull, EnterDirect, LeaveDirect,
          FlushInput, ResetHead, ResetFull, StopMuxer, StopResetsHead, StopResetsFull,
          NewSession, Resetting, FlushesInput, StopsMuxer
    <3>2. rb.head = rb.tail /\ writer = "idle"
      BY <2>2, <3>1 DEF WakeInv
    <3>3. ~SetHead
      BY <3>2 DEF SetHead, WriterStep
    <3>4. ~SetTail
      BY <1>1, <3>2, RingAssumption
      DEF SetTail, ReaderStep, Sound, ReaderInv, Held, HeldFrom, Index
    <3> QED
      BY <1>4, <3>2, <3>3, <3>4, Pointers
  <2> QED
    BY <2>1, <2>2
<1>5. ASSUME reader' = reader, reader \in {"idle", "asked"}, notes > 0 \/ Announcing
      PROVE  notes' > 0 \/ Announcing'
  <2>1. CASE Notify
    BY <1>1, <1>5, <2>1, MuxBufferAssumption DEF Notify, WakeInv
  <2>2. CASE ~Notify
    <3>1. notes' = notes
      BY <1>5, <2>2
      DEF Next, MuxerThread, AtTask, UartThread, vars, core, put, get, WriterStep,
          ReaderStep, UartStep, Caller, Frame, DropFrame, FillCells, SetHead, CompareHead,
          SetFull, CoreWakes, CompareTail, NothingThere, CoreAsksBelow, CoreReads,
          XmodemPolls, ClipLength, RefuseGet, SetTail, ClearFull, EnterDirect, LeaveDirect,
          FlushInput, ResetHead, ResetFull, StopMuxer, StopResetsHead, StopResetsFull,
          NewSession
    <3>2. Announcing => Announcing'
      BY <1>5, <2>2
      DEF Next, MuxerThread, AtTask, UartThread, vars, core, put, get, WriterStep,
          ReaderStep, UartStep, Caller, Frame, DropFrame, FillCells, SetHead, CompareHead,
          SetFull, CoreWakes, CompareTail, NothingThere, CoreAsksBelow, CoreReads,
          XmodemPolls, ClipLength, RefuseGet, SetTail, ClearFull, EnterDirect, LeaveDirect,
          FlushInput, ResetHead, ResetFull, StopMuxer, StopResetsHead, StopResetsFull,
          NewSession, Announcing
    <3> QED
      BY <1>5, <3>1, <3>2
  <2> QED
    BY <2>1, <2>2
<1>6. SetHead => Announcing'
  BY DEF SetHead, WriterStep, Announcing
<1>7. SetTail => reader' = "clear"
  BY DEF SetTail, ReaderStep
<1>8. ASSUME reader' = "idle", ~Resetting', rb'.head # rb'.tail
      PROVE  notes' > 0 \/ Announcing' \/ leftover' = TRUE
  <2>1. ~Resetting
    BY <1>8, ResetEnds
  <2>2. CASE reader = "idle"
    <3>1. SetHead \/ rb.head # rb.tail
      BY <1>7, <1>8, Pointers
    <3>2. leftover' = leftover
      BY <1>8, <2>2
      DEF Next, MuxerThread, AtTask, UartThread, vars, core, put, get, WriterStep,
          ReaderStep, UartStep, Caller, Frame, DropFrame, FillCells, SetHead, CompareHead,
          SetFull, Notify, CoreWakes, CompareTail, NothingThere, CoreAsksBelow, CoreReads,
          XmodemPolls, ClipLength, RefuseGet, SetTail, ClearFull, EnterDirect, LeaveDirect,
          FlushInput, ResetHead, ResetFull, StopMuxer, StopResetsHead, StopResetsFull,
          NewSession
    <3> QED
      BY <1>5, <1>6, <1>8, <2>1, <2>2, <3>1, <3>2 DEF WakeInv
  <2>3. CASE NothingThere
    <3>1. rb.head # rb.tail /\ reader = "asked" /\ Data(rAhead) =< 0
          /\ notes' = notes /\ writer' = writer
      BY <1>8, <2>3 DEF NothingThere, ReaderStep, put, core
    <3>2. rAhead = TRUE
      BY <1>1, <3>1, RingAssumption DEF Sound, ReaderInv, Data, Index
    <3>3. rb.head < rb.tail
      BY <1>1, <3>1, <3>2 DEF Data, Index
    <3> QED
      BY <3>1, <3>2, <3>3 DEF WakeInv, Announcing
  <2>4. CASE CoreAsksBelow
    <3>1. rb' = rb /\ uart \in {"over", "reset_head", "reset_full"}
      BY <2>4 DEF CoreAsksBelow, Sound, TypeOK
    <3> QED
      BY <1>8, <2>1, <3>1 DEF WakeInv, Resetting, StopsMuxer
  <2>5. CASE LeaveDirect
    <3>1. rb' = rb /\ notes' = notes /\ leftover' = (~Empty(rb) /\ notes = 0)
      BY <1>8, <2>5 DEF LeaveDirect, ReaderStep
    <3>2. ~Empty(rb)
      BY <1>1, <1>8, <3>1
    <3>3. notes = 0 => leftover' = TRUE
      BY <3>1, <3>2, Zenon
    <3>4. notes # 0 => notes' > 0
      BY <1>1, <3>1
    <3> QED
      BY <3>3, <3>4
  <2>6. reader = "idle" \/ NothingThere \/ CoreAsksBelow \/ LeaveDirect
    BY <1>8
    DEF Next, MuxerThread, AtTask, UartThread, vars, core, put, get, WriterStep,
        ReaderStep, UartStep, Caller, Frame, DropFrame, FillCells, SetHead, CompareHead,
        SetFull, Notify, CoreWakes, CompareTail, CoreReads, XmodemPolls, ClipLength,
        RefuseGet, SetTail, ClearFull, EnterDirect, FlushInput, ResetHead, ResetFull,
        StopMuxer, StopResetsHead, StopResetsFull, NewSession
  <2> QED
    BY <2>2, <2>3, <2>4, <2>5, <2>6
<1>9. ASSUME reader' = "asked", rAhead' = TRUE, rb'.head < rb'.tail
      PROVE  notes' > 0 \/ Announcing'
  <2>1. CASE reader = "asked"
    <3>1. rAhead' = TRUE /\ rAhead = TRUE
      BY <1>9, <2>1
      DEF Next, MuxerThread, AtTask, UartThread, vars, core, put, get, WriterStep,
          ReaderStep, UartStep, Caller, Frame, DropFrame, FillCells, SetHead, CompareHead,
          SetFull, Notify, CoreWakes, CompareTail, NothingThere, CoreAsksBelow, CoreReads,
          XmodemPolls, ClipLength, RefuseGet, SetTail, ClearFull, EnterDirect, LeaveDirect,
          FlushInput, ResetHead, ResetFull, StopMuxer, StopResetsHead, StopResetsFull,
          NewSession
    <3>2. ~Resetting'
      BY <1>9
      DEF Sound, ReaderInv, Resetting, FlushesInput, StopsMuxer, BetweenCalls
    <3>3. SetHead \/ rb.head < rb.tail
      BY <1>7, <1>9, <3>2, Pointers
    <3> QED
      BY <1>5, <1>6, <1>9, <2>1, <3>1, <3>3 DEF WakeInv
  <2>2. CASE reader # "asked"
    <3>1. CompareTail
      BY <1>9, <2>2
      DEF Next, MuxerThread, AtTask, UartThread, vars, core, put, get, WriterStep,
          ReaderStep, UartStep, Caller, Frame, DropFrame, FillCells, SetHead, CompareHead,
          SetFull, Notify, CoreWakes, NothingThere, CoreAsksBelow, CoreReads, XmodemPolls,
          ClipLength, RefuseGet, SetTail, ClearFull, EnterDirect, LeaveDirect, FlushInput,
          ResetHead, ResetFull, StopMuxer, StopResetsHead, StopResetsFull, NewSession
    <3>2. rAhead' = Ahead /\ rb' = rb
      BY <3>1 DEF CompareTail
    <3> QED
      BY <1>1, <1>9, <3>2 DEF Index
  <2> QED
    BY <2>1, <2>2
<1> QED
  BY <1>2, <1>3, <1>4, <1>8, <1>9 DEF WakeInv

\* No wake-up is lost: as long as nothing is spoilt, the AT core does not rest on bytes that
\* nobody tells it of, whatever getDataLength() saw in the middle of a put(), and although
\* a notification may find the AT core's queue full; the bytes direct mode leaves excepted.
THEOREM WakeUpKept == Safe => []CoreKnows
<1>1. Init => KInv
  <2> SUFFICES ASSUME Init PROVE Sound /\ WakeInv
    BY DEF KInv
  <2>1. Sound
    BY InitIInv DEF Init, IInv
  <2>2. rb.head = rb.tail
    BY DEF Init, New
  <2> QED
    BY <2>1, <2>2 DEF Init, WakeInv
<1>2. KInv /\ [Next]_vars => KInv'
  <2> SUFFICES ASSUME Sound, WakeInv, [Next]_vars, ~spoilt' PROVE Sound' /\ WakeInv'
    BY StaysSpoilt DEF KInv
  <2>1. Sound'
    BY NextIInv DEF IInv
  <2> QED
    BY <2>1, WakeStep
<1>3. KInv => CoreKnows
  <2> SUFFICES ASSUME Sound, WakeInv, ~Resetting, reader = "idle", ~Empty(rb)
               PROVE  notes > 0 \/ Announcing \/ leftover
    BY DEF KInv, CoreKnows
  <2>1. rb.head # rb.tail
    BY DEF Sound, NotFull, Empty
  <2> QED
    BY <2>1 DEF WakeInv
<1> QED
  BY <1>1, <1>2, <1>3, PTL DEF Safe

-------------------------------------------------------------------------------
(* The refinement *)

Run(base, n) == [i \in 1 .. n |-> base + i]
Abs == IF spoilt \/ Resetting THEN <<>> ELSE Contents(rb)

LEMMA RunFacts ==
    ASSUME NEW base \in Nat, NEW n \in Nat
    PROVE  Len(Run(base, n)) = n /\ \A i \in 1 .. n : Run(base, n)[i] = base + i
<1>1. Run(base, n) \in [1 .. n -> Nat]
  BY DEF Run
<1>2. Run(base, n) \in Seq(Nat)
  BY <1>1, SeqDef
<1> QED
  BY <1>1, <1>2, LenProperties DEF Run

\* The bytes that the buffer holds are a run of consecutive ones.
LEMMA ContentsAreRun ==
    Sound /\ ~Resetting =>
        /\ Contents(rb) = Run(Visible - Held, Held)
        /\ Visible - Held \in Nat /\ Held \in 0 .. Size - 1
<1> SUFFICES ASSUME Sound, ~Resetting
             PROVE  /\ Contents(rb) = Run(Visible - Held, Held)
                    /\ Visible - Held \in Nat /\ Held \in 0 .. Size - 1
  OBVIOUS
<1>1. DataSize(rb) = Held /\ Held \in 0 .. Size - 1 /\ rb.tail \in Index
  BY DataFacts DEF Sound, NotFull
<1>2. Held =< Visible /\ Visible \in Int
  BY MuxBufferAssumption DEF Sound, HeldInv, Visible, TypeOK, WriterInv
<1>3. ASSUME NEW i \in 1 .. Held
      PROVE  rb.cell[Wrap(rb.tail + i - 1)] = Visible - Held + i
  <2>1. i - 1 \in 0 .. Held - 1 /\ rb.tail + i - 1 = rb.tail + (i - 1)
    BY <1>1 DEF Index
  <2>2. rb.cell[Wrap(rb.tail + (i - 1))] = Visible - Held + (i - 1) + 1
    BY <2>1 DEF Sound, HeldInv
  <2> QED
    BY <1>1, <1>2, <2>1, <2>2
<1> QED
  BY <1>1, <1>2, <1>3 DEF Contents, Run

\* Only two steps change what the buffer holds: one adds bytes, one takes some.
LEMMA Moves ==
    ASSUME Sound, [Next]_vars, ~spoilt', ~Resetting, ~Resetting'
    PROVE  \/ Visible' = Visible /\ Held' = Held
           \/ \E n \in Nat \ {0} : Visible' = Visible + n /\ Held' = Held + n
           \/ \E n \in 1 .. Held : Visible' = Visible /\ Held' = Held - n
<1>1. rb \in Buffers /\ rb.full = FALSE /\ Held \in 0 .. Size - 1 /\ written \in Nat
      /\ rb.head \in Index /\ rb.tail \in Index
  <2>1. TypeOK /\ rb.full = FALSE
    BY DEF Sound, NotFull
  <2>2. rb \in Buffers /\ written \in Nat
    BY <2>1, MuxBufferAssumption DEF TypeOK
  <2> QED
    BY <2>1, <2>2, DataFacts
<1>2. CASE SetHead
  <2>1. writer = "head" /\ writer' = "compare" /\ wHead # rb.tail
        /\ rb' = [rb EXCEPT !.head = wHead] /\ UNCHANGED <<written, frameLen>>
    BY <1>2 DEF SetHead, WriterStep
  <2>2. frameLen \in 1 .. Size - Held /\ wHead = Wrap(rb.head + frameLen)
    BY <1>1, <2>1, RingAssumption DEF Sound, WriterInv
  <2>3. rb'.head = wHead /\ rb'.tail = rb.tail
    BY <1>1, <2>1 DEF Buffers
  <2>4. Held' = Held + frameLen
    BY <1>1, <2>1, <2>2, <2>3, HeldPut DEF Held
  <2>5. Visible' = Visible + frameLen
    BY <1>1, <2>1, <2>2 DEF Visible
  <2> QED
    BY <2>2, <2>4, <2>5
<1>3. CASE SetTail
  <2>1. reader = "check" /\ UNCHANGED <<writer, written, frameLen>>
        /\ rb' = [rb EXCEPT !.tail = (rb.tail + len) % Size]
    BY <1>3 DEF SetTail, ReaderStep, core, put, Taken
  <2>2. len \in 1 .. Held
    BY <1>1, <2>1 DEF Sound, ReaderInv, TypeOK
  <2>3. (rb.tail + len) % Size = Wrap(rb.tail + len)
    BY <1>1, <2>2, HeldGet DEF Held
  <2>4. rb'.head = rb.head /\ rb'.tail = Wrap(rb.tail + len)
    BY <1>1, <2>1, <2>3 DEF Buffers
  <2>5. Held' = Held - len
    BY <1>1, <2>2, <2>4, HeldGet DEF Held
  <2>6. Visible' = Visible
    BY <2>1 DEF Visible
  <2> QED
    BY <2>2, <2>5, <2>6
<1>4. CASE FillCells
  <2>1. rb'.head = rb.head /\ rb'.tail = rb.tail
    BY <1>1, <1>4 DEF FillCells, Buffers
  <2>2. writer = "space" /\ writer' = "head" /\ written' = written + frameLen
        /\ frameLen' = frameLen /\ frameLen \in Nat
    BY <1>4 DEF FillCells, WriterStep, Sound, WriterInv
  <2> QED
    BY <1>1, <2>1, <2>2 DEF Held, Visible
<1>5. CASE SetFull \/ ClearFull
  <2>1. rb'.head = rb.head /\ rb'.tail = rb.tail
    BY <1>1, <1>5 DEF SetFull, ClearFull, Buffers, Caller
  <2>2. Visible' = Visible
    BY <1>5 DEF SetFull, ClearFull, WriterStep, ReaderStep, core, put, Visible, Caller
  <2> QED
    BY <2>1, <2>2 DEF Held
<1>6. CASE \/ FlushInput \/ ResetHead \/ ResetFull
           \/ StopMuxer \/ StopResetsHead \/ StopResetsFull
  BY <1>6
  DEF FlushInput, ResetHead, ResetFull, StopMuxer, StopResetsHead, StopResetsFull,
      ReaderStep, UartStep, Resetting, FlushesInput, StopsMuxer
<1>7. CASE \/ DropFrame \/ CompareHead \/ Notify
           \/ \E n \in FrameLengths : Frame(n)
  BY <1>7 DEF DropFrame, CompareHead, Notify, Frame, WriterStep, Visible, Held
<1>8. CASE \/ CoreWakes \/ CompareTail \/ NothingThere \/ CoreAsksBelow \/ ClipLength
           \/ RefuseGet \/ EnterDirect \/ LeaveDirect \/ NewSession
           \/ \E n \in ReadLengths : CoreReads(n) \/ XmodemPolls(n)
  BY <1>8 DEF CoreWakes, CompareTail, NothingThere, CoreAsksBelow, ClipLength, RefuseGet,
      EnterDirect, LeaveDirect, NewSession, CoreReads, XmodemPolls, ReaderStep, put, Visible,
      Held
<1>9. CASE UNCHANGED vars
  BY <1>9 DEF vars, put, Visible, Held
<1> QED
  BY <1>2, <1>3, <1>4, <1>5, <1>6, <1>7, <1>8, <1>9
  DEF Next, MuxerThread, AtTask, UartThread

LEMMA PrimedContents ==
    Sound' /\ ~Resetting' =>
        /\ Contents(rb)' = Run(Visible' - Held', Held')
        /\ Visible' - Held' \in Nat /\ Held' \in 0 .. Size - 1
<1>1. (Sound /\ ~Resetting =>
          /\ Contents(rb) = Run(Visible - Held, Held)
          /\ Visible - Held \in Nat /\ Held \in 0 .. Size - 1)'
  BY ContentsAreRun, PTL
<1> QED
  BY <1>1

LEMMA Step == IInv /\ IInv' /\ [Next]_vars => [Queue!Next]_Abs
<1> SUFFICES ASSUME IInv, IInv', [Next]_vars PROVE Queue!Next \/ Abs' = Abs
  OBVIOUS
<1> USE DEF Queue!Next, Queue!Clear
<1>1. CASE spoilt' \/ Resetting'
  BY <1>1 DEF Abs
<1>2. CASE ~spoilt' /\ ~Resetting' /\ Resetting
  <2>1. ~spoilt /\ Sound /\ Sound'
    BY <1>2, StaysSpoilt DEF IInv
  <2>2. Held' = 0
    <3>1. ResetFull \/ StopResetsFull
      BY <1>2
      DEF Next, MuxerThread, AtTask, UartThread, vars, get, WriterStep, ReaderStep, UartStep,
          Frame, DropFrame, FillCells, SetHead, CompareHead, SetFull, Notify, CoreWakes,
          CompareTail, NothingThere, CoreAsksBelow, CoreReads, XmodemPolls, ClipLength,
          RefuseGet, SetTail, ClearFull, EnterDirect, LeaveDirect, FlushInput, ResetHead,
          StopMuxer, StopResetsHead, NewSession, Resetting, FlushesInput, StopsMuxer
    <3>2. rb \in Buffers /\ rb.head = 0 /\ rb.tail = 0
      BY <1>2, <2>1, <3>1
      DEF Sound, TypeOK, ReaderInv, ResetFull, StopResetsFull, ReaderStep, UartStep
    <3>3. rb'.head = 0 /\ rb'.tail = 0
      BY <3>1, <3>2 DEF ResetFull, StopResetsFull, Buffers
    <3> QED
      BY <3>3 DEF Held, HeldFrom
  <2>3. Contents(rb)' = <<>>
    <3>1. Contents(rb)' = Run(Visible' - Held', Held')
      BY <1>2, <2>1, PrimedContents
    <3> QED
      BY <2>2, <3>1 DEF Run
  <2> QED
    BY <1>2, <2>3 DEF Abs
<1>3. CASE ~spoilt' /\ ~Resetting' /\ ~Resetting
  <2>1. ~spoilt /\ Sound /\ Sound'
    BY <1>3, StaysSpoilt DEF IInv
  <2>2. /\ Abs = Run(Visible - Held, Held)
        /\ Visible - Held \in Nat /\ Held \in 0 .. Size - 1
    BY <1>3, <2>1, ContentsAreRun DEF Abs
  <2>3. /\ Abs' = Run(Visible' - Held', Held')
        /\ Visible' - Held' \in Nat /\ Held' \in 0 .. Size - 1
    BY <1>3, <2>1, PrimedContents DEF Abs
  <2>4. /\ Len(Abs) = Held /\ \A i \in 1 .. Held : Abs[i] = Visible - Held + i
        /\ Len(Abs') = Held' /\ \A i \in 1 .. Held' : Abs'[i] = Visible' - Held' + i
    <3>1. Held \in Nat /\ Held' \in Nat
      BY <2>2, <2>3
    <3> QED
      BY <2>2, <2>3, <3>1, RunFacts
  <2>5. Visible \in Int
    BY <2>1, MuxBufferAssumption DEF Sound, TypeOK, WriterInv, Visible
  <2>6. CASE Visible' = Visible /\ Held' = Held
    BY <2>2, <2>3, <2>6
  <2>7. CASE \E n \in Nat \ {0} : Visible' = Visible + n /\ Held' = Held + n
    <3>1. PICK n \in Nat \ {0} : Visible' = Visible + n /\ Held' = Held + n
      BY <2>7
    <3>2. Len(Abs') \in Len(Abs) + 1 .. Size
      BY <2>2, <2>3, <2>4, <3>1, RingAssumption
    <3>3. \A i \in 1 .. Len(Abs) : Abs'[i] = Abs[i]
      BY <2>2, <2>4, <2>5, <3>1
    <3> QED
      BY <3>2, <3>3 DEF Queue!Enqueue, Abs
  <2>8. CASE \E n \in 1 .. Held : Visible' = Visible /\ Held' = Held - n
    <3>1. PICK n \in 1 .. Held : Visible' = Visible /\ Held' = Held - n
      BY <2>8
    <3>2. n \in 1 .. Len(Abs) /\ Len(Abs') = Len(Abs) - n
      BY <2>2, <2>4, <3>1
    <3>3. \A i \in 1 .. Len(Abs') : Abs'[i] = Abs[i + n]
      BY <2>2, <2>4, <2>5, <3>1
    <3> QED
      BY <3>2, <3>3 DEF Queue!Dequeue, Abs
  <2> QED
    BY <1>3, <2>1, <2>6, <2>7, <2>8, Moves
<1> QED
  BY <1>1, <1>2, <1>3

\* As long, the buffer that the two tasks share is a bounded queue.
THEOREM ImplementsByteQueue == Safe => RingIsQueue
<1>1. Init => Queue!Init
  <2> SUFFICES ASSUME Init PROVE Abs = <<>>
    BY DEF Queue!Init, Abs
  <2>1. Sound /\ ~Resetting /\ Held = 0
    <3>1. rb.head = 0 /\ rb.tail = 0
      BY DEF Init, New
    <3> QED
      BY <3>1, InitIInv DEF IInv, Init, Resetting, FlushesInput, StopsMuxer, Held,
          HeldFrom
  <2>2. Contents(rb) = Run(Visible - Held, Held)
    BY <2>1, ContentsAreRun
  <2> QED
    BY <2>1, <2>2 DEF Abs, Run
<1>2. IInv /\ IInv' /\ [Next]_vars => [Queue!Next]_Abs
  BY Step
<1> QED
  BY <1>1, <1>2, InitIInv, NextIInv, PTL DEF Safe, RingIsQueue, Queue!Safe, Abs

===============================================================================
