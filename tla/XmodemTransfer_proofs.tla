------------------------ MODULE XmodemTransfer_proofs -------------------------
(***************************************************************************)
(* Proofs about XmodemTransfer, for every file, packet size, limit and     *)
(* timeout, any number of losses and damaged payloads, and packet numbers  *)
(* of any width.  Most of them speak of a sender that does not repeat      *)
(* itself too soon.                                                        *)
(***************************************************************************)
EXTENDS XmodemTransfer, XmodemReceiver_proofs, SequenceTheorems

Frames == [start : {"SOH", "STX", "EOT"}, num : 0 .. NumMod - 1,
           data : 0 .. FileSize - 1, ok : BOOLEAN]
ControlBytes == {"C", "ACK", "NAK", "CAN"}

Has(c, q) == \E i \in 1 .. Len(q) : q[i] = c
Answered(q) == Has("ACK", q) \/ Has("NAK", q)
OneAnswer(q) ==
    \A i, j \in 1 .. Len(q) : {q[i], q[j]} \subseteq {"ACK", "NAK"} => i = j

\* What the sender and the link may hold.
LinkTypeOK ==
    /\ sendState \in {"start", "packet", "eot", "done", "stopped"}
    /\ sendNum \in Nat /\ sendOffs \in Nat
    /\ sendState = "packet" => sendOffs < FileSize
    /\ sendState = "eot" => sendOffs >= FileSize
    /\ Waiting => sendNum > 0
    /\ toReceiver \in Seq(Frames)
    /\ toSender \in Seq(ControlBytes)
    /\ early \in Nat

\* A frame stays at the head of the link until its payload has been read.
MidFrame ==
    state \in {"RECV_PACKET_HEADER", "RECV_PACKET_DATA"} =>
      toReceiver # <<>> /\ start = Head(toReceiver).start /\ start # "EOT"

\* One frame, or the answer to it, is on the way, never both and never two.
TokenInv ==
    /\ Len(toReceiver) =< 1
    /\ OneAnswer(toSender)
    /\ Answered(toSender) =>
         toReceiver = <<>> /\ state \in {"RECV_SOH", "SEND_CAN", "NEW"}
    /\ state \in {"SEND_PACKET_ACK", "SEND_PACKET_NAK", "SEND_EOT_ACK"} =>
         toReceiver = <<>>

\* Before the sender has heard the invitation nothing but invitations is on the way.
StartInv ==
    sendState = "start" =>
      /\ packetNum = 0 /\ packetSize = 0 /\ fileOffs = 0
      /\ toReceiver = <<>> /\ ~Answered(toSender) /\ ~Has("CAN", toSender)
      /\ state \in {"SEND_NCG", "RECV_SOH", "NEW"}

\* The sender ends after the receiver, and ACK for EOT comes from a receiver that is done.
EndInv ==
    /\ Has("CAN", toSender) \/ sendState \in {"stopped", "done"} => state = "NEW"
    /\ sendState = "done" \/ (sendState = "eot" /\ Has("ACK", toSender)) => ret = "DONE"

\* The frame, damaged or not, is packet num, which starts at offs.
Carries(frame, num, offs) ==
    frame.start = StartByte(offs) /\ frame.num = num % NumMod /\ frame.data = offs

\* The frame on the way is the one that the sender waits for an answer to.
FrameInv ==
    state # "NEW" /\ toReceiver # <<>> =>
      \/ /\ sendState = "packet"
         /\ Carries(Head(toReceiver), sendNum, sendOffs)
      \/ sendState = "eot" /\ Head(toReceiver) = Eot

\* The receiver has accepted the header of the packet that is being sent; it
\* acknowledges it only with the payload in its buffer.
Same ==
    /\ packetNum = sendNum /\ sendState = "packet"
    /\ state # "SEND_CAN" =>
         /\ state \notin {"SEND_NCG", "SEND_EOT_ACK"}
         /\ fileOffs = sendOffs /\ packetSize = SizeOf(StartByte(sendOffs))
         /\ state = "SEND_PACKET_ACK" \/ Has("ACK", toSender) =>
              packet = [data |-> sendOffs, ok |-> TRUE]

\* The packet before the one that is being sent is in the buffer, verified.
Buffered ==
    IF packetNum = 0 THEN sendOffs = 0 /\ fileOffs = 0 /\ packetSize = 0
    ELSE /\ packetSize = SizeOf(StartByte(fileOffs))
         /\ packet = [data |-> fileOffs, ok |-> TRUE]
         /\ sendOffs = fileOffs + PayloadSize(fileOffs)

\* The sender is one packet ahead.
Ahead ==
    /\ packetNum = sendNum - 1 /\ ~Answered(toSender)
    /\ state \in {"SEND_NCG", "RECV_SOH", "RECV_PACKET_HEADER", "SEND_EOT_ACK", "SEND_CAN"}
    /\ state \notin {"SEND_CAN", "SEND_EOT_ACK"} => Buffered
    /\ state = "SEND_EOT_ACK" => sendState = "eot"

StepInv == state # "NEW" /\ Waiting => Same \/ Ahead

StopAndWait ==
    TokenInv /\ StartInv /\ EndInv /\ FrameInv /\ StepInv /\ WrittenIsTheFile

TInv ==
    /\ IInv
    /\ LinkTypeOK
    /\ MidFrame
    /\ early = 0 => StopAndWait

-------------------------------------------------------------------------------
(* Sizes, packet numbers and the link *)

\* What a packet holds and what the buffer holds of it.
LEMMA PacketSizeFacts ==
    ASSUME NEW offs \in Nat
    PROVE  /\ StartByte(offs) \in {"SOH", "STX"}
           /\ PayloadSize(offs) \in {SohSize, StxSize}
           /\ SizeOf(StartByte(offs)) = PayloadSize(offs) + Overhead
           /\ SizeOf(StartByte(offs)) \in PacketSizes
BY Sizes DEF StartByte, PayloadSize, SizeOf, PacketSizes, Overhead, HeaderSize, CrcSize

\* Two packets in a row have different numbers.
LEMMA NumbersDiffer ==
    ASSUME NEW n \in Nat
    PROVE  n % NumMod # (n + 1) % NumMod
<1>1. NumMod \in Nat /\ NumMod > 1
  BY LimitsAssumption
<1> DEFINE a == n \div NumMod
           b == (n + 1) \div NumMod
<1>2. /\ a \in Int /\ b \in Int
      /\ n = NumMod * a + (n % NumMod)
      /\ n + 1 = NumMod * b + ((n + 1) % NumMod)
  BY <1>1
<1>3. SUFFICES ASSUME n % NumMod = (n + 1) % NumMod PROVE FALSE
  OBVIOUS
<1> HIDE DEF a, b
<1>4. n % NumMod \in Int
  BY <1>1
<1>5. NumMod * b - NumMod * a = 1
  BY <1>1, <1>2, <1>3, <1>4
<1>6. NumMod * (b - a) = 1
  BY <1>1, <1>2, <1>5
<1>7. CASE b - a =< 0
  BY <1>1, <1>2, <1>6, <1>7
<1>8. CASE b - a >= 1
  BY <1>1, <1>2, <1>6, <1>8
<1>9. QED
  BY <1>2, <1>7, <1>8

\* What is sent is a frame.
LEMMA FrameType ==
    /\ Eot \in Frames
    /\ \A num \in Nat, offs \in 0 .. FileSize - 1, ok \in BOOLEAN :
         /\ Frame(num, offs, ok) \in Frames
         /\ Frame(num, offs, ok).start = StartByte(offs)
         /\ Frame(num, offs, ok).num = num % NumMod
         /\ Frame(num, offs, ok).data = offs
         /\ Frame(num, offs, ok).ok = ok
         /\ Frame(num, offs, ok) # Eot
<1>1. Eot \in Frames
  BY Sizes, LimitsAssumption DEF Eot, Frames
<1>2. ASSUME NEW num \in Nat, NEW offs \in 0 .. FileSize - 1, NEW ok \in BOOLEAN
      PROVE  /\ Frame(num, offs, ok) \in Frames
             /\ Frame(num, offs, ok).start = StartByte(offs)
             /\ Frame(num, offs, ok).num = num % NumMod
             /\ Frame(num, offs, ok).data = offs
             /\ Frame(num, offs, ok).ok = ok
             /\ Frame(num, offs, ok) # Eot
  <2>1. StartByte(offs) \in {"SOH", "STX"}
    BY PacketSizeFacts, Sizes
  <2>2. num % NumMod \in 0 .. NumMod - 1
    BY LimitsAssumption
  <2>3. QED
    BY <2>1, <2>2 DEF Frame, Frames, Eot
<1>3. QED
  BY <1>1, <1>2

\* Reading the head of a queue.
LEMMA HasTail ==
    ASSUME NEW S, NEW q \in Seq(S), q # <<>>, NEW c
    PROVE  Has(c, q) <=> Head(q) = c \/ Has(c, Tail(q))
<1>1. /\ Len(q) \in Nat /\ Len(q) > 0 /\ Head(q) = q[1] /\ Len(Tail(q)) = Len(q) - 1
      /\ \A i \in 1 .. Len(Tail(q)) : Tail(q)[i] = q[i + 1]
  BY HeadTailProperties, EmptySeq, LenProperties
<1>2. ASSUME NEW i \in 1 .. Len(q), q[i] = c, Head(q) # c PROVE Has(c, Tail(q))
  <2>1. i - 1 \in 1 .. Len(Tail(q)) /\ Tail(q)[i - 1] = c
    BY <1>1, <1>2
  <2>2. QED
    BY <2>1 DEF Has
<1>3. ASSUME NEW i \in 1 .. Len(Tail(q)), Tail(q)[i] = c PROVE Has(c, q)
  <2>1. i + 1 \in 1 .. Len(q) /\ q[i + 1] = c
    BY <1>1, <1>3
  <2>2. QED
    BY <2>1 DEF Has
<1>4. Head(q) = c => Has(c, q)
  BY <1>1 DEF Has
<1>5. QED
  BY <1>2, <1>3, <1>4 DEF Has

\* Appending to a queue.
LEMMA HasAppend ==
    ASSUME NEW S, NEW q \in Seq(S), NEW d \in S, NEW c
    PROVE  Has(c, Append(q, d)) <=> Has(c, q) \/ c = d
<1>1. /\ Len(q) \in Nat /\ Len(Append(q, d)) = Len(q) + 1
      /\ \A i \in 1 .. Len(q) : Append(q, d)[i] = q[i]
      /\ Append(q, d)[Len(q) + 1] = d
  BY AppendProperties, LenProperties
<1>2. QED
  BY <1>1 DEF Has

\* Once the only answer has been heard no other is on the way.
LEMMA OneAnswerTail ==
    ASSUME NEW S, NEW q \in Seq(S), q # <<>>, OneAnswer(q)
    PROVE  /\ OneAnswer(Tail(q))
           /\ Head(q) \in {"ACK", "NAK"} => ~Answered(Tail(q))
<1>1. /\ Len(q) \in Nat /\ Len(q) > 0 /\ Head(q) = q[1] /\ Len(Tail(q)) = Len(q) - 1
      /\ \A i \in 1 .. Len(Tail(q)) : Tail(q)[i] = q[i + 1]
  BY HeadTailProperties, EmptySeq, LenProperties
<1>2. OneAnswer(Tail(q))
  <2>1. SUFFICES ASSUME NEW i \in 1 .. Len(Tail(q)), NEW j \in 1 .. Len(Tail(q)),
                        {Tail(q)[i], Tail(q)[j]} \subseteq {"ACK", "NAK"}
                 PROVE  i = j
    BY DEF OneAnswer
  <2>2. i + 1 \in 1 .. Len(q) /\ j + 1 \in 1 .. Len(q)
    BY <1>1
  <2>3. i + 1 = j + 1
    BY <1>1, <2>1, <2>2 DEF OneAnswer
  <2>4. QED
    BY <1>1, <2>3
<1>3. ASSUME Head(q) \in {"ACK", "NAK"}, NEW i \in 1 .. Len(Tail(q)),
             Tail(q)[i] \in {"ACK", "NAK"}
      PROVE  FALSE
  <2>1. i + 1 \in 1 .. Len(q) /\ 1 \in 1 .. Len(q) /\ i + 1 # 1
    BY <1>1
  <2>2. {q[i + 1], q[1]} \subseteq {"ACK", "NAK"}
    BY <1>1, <1>3
  <2>3. QED
    BY <2>1, <2>2 DEF OneAnswer
<1>4. QED
  BY <1>2, <1>3 DEF Answered, Has

\* An answer can be sent when there is none on the way.
LEMMA OneAnswerAppend ==
    ASSUME NEW S, NEW q \in Seq(S), NEW d \in S, OneAnswer(q),
           d \notin {"ACK", "NAK"} \/ ~Answered(q)
    PROVE  OneAnswer(Append(q, d))
<1>1. /\ Len(q) \in Nat /\ Len(Append(q, d)) = Len(q) + 1
      /\ \A i \in 1 .. Len(q) : Append(q, d)[i] = q[i]
      /\ Append(q, d)[Len(q) + 1] = d
  BY AppendProperties, LenProperties
<1>2. SUFFICES ASSUME NEW i \in 1 .. Len(q) + 1, NEW j \in 1 .. Len(q) + 1,
                      {Append(q, d)[i], Append(q, d)[j]} \subseteq {"ACK", "NAK"}
               PROVE  i = j
  BY <1>1 DEF OneAnswer
<1>3. CASE d \notin {"ACK", "NAK"}
  <2>1. i # Len(q) + 1 /\ j # Len(q) + 1
    BY <1>1, <1>2, <1>3
  <2>2. i \in 1 .. Len(q) /\ j \in 1 .. Len(q)
    BY <1>1, <2>1
  <2>3. QED
    BY <1>1, <1>2, <2>2 DEF OneAnswer
<1>4. CASE ~Answered(q)
  <2>1. \A k \in 1 .. Len(q) : Append(q, d)[k] \notin {"ACK", "NAK"}
    BY <1>1, <1>4 DEF Answered, Has
  <2>2. i \notin 1 .. Len(q) /\ j \notin 1 .. Len(q)
    BY <1>2, <2>1
  <2>3. QED
    BY <1>1, <2>2
<1>5. QED
  BY <1>2, <1>3, <1>4

-------------------------------------------------------------------------------
(* XmodemTransfer implements XmodemReceiver *)

\* The receiver finds a frame at the head of the link.
LEMMA HeadIsFrame ==
    ASSUME LinkTypeOK, toReceiver # <<>>
    PROVE  Head(toReceiver) \in Frames
BY HeadTailProperties DEF LinkTypeOK

\* With the sender and the link around it the receiver does nothing else than it does
\* with an arbitrary other side.
LEMMA IsReceiverStep ==
    ASSUME IInv, LinkTypeOK, [TransferNext]_allVars
    PROVE  [Next]_vars
<1> USE DEF IInv, TypeOK
<1>1. CASE ReceiverAnswers
  <2>1. ASSUME SendCan(SEND_CAN_COUNT - packetOffs) PROVE Run
    <3>1. SEND_CAN_COUNT - packetOffs \in CanBytes
      BY <2>1, Sizes DEF SendCan, CanBytes, StaysInPacket, BufferTypeOK
    <3>2. QED
      BY <2>1, <3>1 DEF Run
  <2>2. QED
    BY <1>1, <2>1 DEF ReceiverAnswers, Next, Run
<1>2. CASE ReceiverReads
  <2> DEFINE f == Head(toReceiver)
             h == [num |-> f.num, ok |-> TRUE]
             p == [data |-> f.data, ok |-> f.ok]
  <2>1. f \in Frames
    BY <1>2, HeadIsFrame DEF ReceiverReads
  <2>2. f.start \in Controls /\ h \in Headers /\ p \in Payloads
    BY <2>1, OffsetsAssumption DEF Frames, Controls, Headers, Payloads
  <2>3. ASSUME RecvPacketHeader(HeaderSize - packetOffs, h, TRUE) PROVE Run
    <3>1. HeaderSize - packetOffs \in HeaderBytes
      BY <2>3 DEF RecvPacketHeader, HeaderBytes, StaysInPacket, HeaderSize
    <3>2. QED
      BY <2>2, <2>3, <3>1 DEF Run
  <2>4. ASSUME RecvPacketData(packetSize - packetOffs, p) PROVE Run
    <3>1. packetSize - packetOffs \in DataBytes
      BY <2>4, Sizes DEF RecvPacketData, DataBytes, StaysInPacket, BufferTypeOK,
         PacketSizes, Overhead, HeaderSize, CrcSize
    <3>2. QED
      BY <2>2, <2>4, <3>1 DEF Run
  <2>5. ASSUME RecvSoh(f.start, TRUE) PROVE Run
    BY <2>2, <2>5 DEF Run
  <2>6. QED
    BY <1>2, <2>3, <2>4, <2>5 DEF ReceiverReads, Next
<1>3. CASE ReceiverIdles
  <2>1. ASSUME SendCan(0) PROVE Run
    <3>1. 0 \in CanBytes
      BY <2>1, Sizes DEF SendCan, CanBytes, StaysInPacket, BufferTypeOK
    <3>2. QED
      BY <2>1, <3>1 DEF Run
  <2>2. ASSUME NEW h \in Headers, RecvPacketHeader(0, h, TRUE) PROVE Run
    <3>1. 0 \in HeaderBytes
      BY <2>2 DEF RecvPacketHeader, HeaderBytes, StaysInPacket, HeaderSize
    <3>2. QED
      BY <2>2, <3>1 DEF Run
  <2>3. ASSUME NEW p \in Payloads, RecvPacketData(0, p) PROVE Run
    <3>1. 0 \in DataBytes
      BY <2>3, Sizes DEF RecvPacketData, DataBytes, StaysInPacket, BufferTypeOK,
         PacketSizes, Overhead, HeaderSize, CrcSize
    <3>2. QED
      BY <2>3, <3>1 DEF Run
  <2>4. ASSUME \/ SendNcg(0) \/ SendPacketAck(0) \/ SendPacketNak(0) \/ SendEotAck(0)
               \/ RecvSoh("none", TRUE)
        PROVE  Run
    BY <2>4 DEF Run
  <2>5. QED
    BY <1>3, <2>1, <2>2, <2>3, <2>4 DEF ReceiverIdles, Idle, Next
<1>4. CASE SenderStep
  BY <1>4 DEF SenderStep, HearControl, SenderTimeout, receiver
<1>5. CASE Time
  BY <1>5 DEF Time, Next
<1>6. CASE UNCHANGED allVars
  BY <1>6 DEF allVars, receiver
<1>7. QED
  BY <1>1, <1>2, <1>3, <1>4, <1>5, <1>6 DEF TransferNext, ReceiverStep

-------------------------------------------------------------------------------
(* Types of the sender and the link *)

\* Only an empty queue has no length.
LEMMA LenZero ==
    ASSUME NEW S, NEW q \in Seq(S)
    PROVE  Len(q) \in Nat /\ (q = <<>> <=> Len(q) = 0)
BY LenProperties, EmptySeq

\* Putting a frame onto the link keeps what is at its head.
LEMMA PutFrame ==
    ASSUME toReceiver \in Seq(Frames), NEW f \in Frames, NEW damaged \in BOOLEAN,
           Put(damaged, f)
    PROVE  /\ toReceiver' \in Seq(Frames)
           /\ toReceiver # <<>> => toReceiver' # <<>> /\ Head(toReceiver') = Head(toReceiver)
           /\ toReceiver = <<>> =>
                \/ toReceiver' = <<>>
                \/ Len(toReceiver') = 1 /\ Head(toReceiver') = f
                \/ /\ damaged /\ Len(toReceiver') = 1
                   /\ Head(toReceiver').start = f.start /\ Head(toReceiver').num = f.num
                   /\ Head(toReceiver').data = f.data
<1> DEFINE g == [f EXCEPT !.ok = FALSE]
<1>1. g \in Frames /\ g.start = f.start /\ g.num = f.num /\ g.data = f.data
  BY DEF Frames
<1>2. ASSUME NEW e \in Frames, toReceiver' = Append(toReceiver, e)
      PROVE  /\ toReceiver' \in Seq(Frames)
             /\ toReceiver # <<>> =>
                  toReceiver' # <<>> /\ Head(toReceiver') = Head(toReceiver)
             /\ toReceiver = <<>> => Len(toReceiver') = 1 /\ Head(toReceiver') = e
  <2>1. /\ toReceiver' \in Seq(Frames) /\ Len(toReceiver') = Len(toReceiver) + 1
        /\ \A i \in 1 .. Len(toReceiver) : toReceiver'[i] = toReceiver[i]
        /\ toReceiver'[Len(toReceiver) + 1] = e
    BY <1>2, AppendProperties
  <2>2. Len(toReceiver) \in Nat /\ (toReceiver # <<>> => Len(toReceiver) > 0)
    BY LenProperties, EmptySeq
  <2>3. toReceiver' # <<>>
    BY <2>1, <2>2, EmptySeq
  <2>4. Head(toReceiver') = toReceiver'[1] /\ Head(toReceiver) = toReceiver[1]
    OBVIOUS
  <2>5. QED
    BY <2>1, <2>2, <2>3, <2>4, EmptySeq
<1>3. CASE UNCHANGED toReceiver
  BY <1>3
<1> HIDE DEF g
<1>4. CASE toReceiver' = Append(toReceiver, f)
  BY <1>2, <1>4
<1>5. CASE damaged /\ toReceiver' = Append(toReceiver, g)
  BY <1>1, <1>2, <1>5
<1>6. QED
  BY <1>3, <1>4, <1>5 DEF Put, g

\* What the sender sends from an offset of the file.
LEMMA SendFromFacts ==
    ASSUME toReceiver \in Seq(Frames), NEW num \in Nat, num > 0, NEW offs \in Nat,
           SendFrom(num, offs)
    PROVE  /\ sendNum' = num /\ sendOffs' = offs
           /\ sendState' = IF offs < FileSize THEN "packet" ELSE "eot"
           /\ toReceiver' \in Seq(Frames)
           /\ toReceiver # <<>> => toReceiver' # <<>> /\ Head(toReceiver') = Head(toReceiver)
           /\ toReceiver = <<>> => Len(toReceiver') =< 1
           /\ toReceiver = <<>> /\ toReceiver' # <<>> =>
                IF offs < FileSize
                THEN Carries(Head(toReceiver'), num, offs)
                ELSE Head(toReceiver') = Eot
<1>1. CASE offs < FileSize
  <2> DEFINE f == Frame(num, offs, TRUE)
  <2>1. f \in Frames /\ Carries(f, num, offs)
    <3>1. offs \in 0 .. FileSize - 1
      BY <1>1, Sizes
    <3>2. QED
      BY <3>1, FrameType DEF Carries
  <2>2. Put(TRUE, f)
    BY <1>1 DEF SendFrom
  <2> HIDE DEF f
  <2>3. /\ toReceiver' \in Seq(Frames)
        /\ toReceiver # <<>> => toReceiver' # <<>> /\ Head(toReceiver') = Head(toReceiver)
        /\ toReceiver = <<>> =>
             \/ toReceiver' = <<>>
             \/ Len(toReceiver') = 1 /\ Carries(Head(toReceiver'), num, offs)
    BY <2>1, <2>2, PutFrame DEF Carries
  <2>4. toReceiver = <<>> => Len(toReceiver') =< 1
    <3>1. CASE toReceiver' = <<>>
      BY <3>1
    <3>2. CASE toReceiver' # <<>>
      BY <2>3, <3>2
    <3>3. QED
      BY <3>1, <3>2
  <2>5. toReceiver = <<>> /\ toReceiver' # <<>> =>
          Carries(Head(toReceiver'), num, offs)
    BY <2>3
  <2>6. sendNum' = num /\ sendOffs' = offs /\ sendState' = "packet"
    BY <1>1 DEF SendFrom
  <2>7. QED
    BY <1>1, <2>3, <2>4, <2>5, <2>6
<1>2. CASE ~(offs < FileSize)
  <2>1. Put(FALSE, Eot)
    BY <1>2 DEF SendFrom
  <2>2. /\ toReceiver' \in Seq(Frames)
        /\ toReceiver # <<>> => toReceiver' # <<>> /\ Head(toReceiver') = Head(toReceiver)
        /\ toReceiver = <<>> =>
             toReceiver' = <<>> \/ (Len(toReceiver') = 1 /\ Head(toReceiver') = Eot)
    BY <2>1, PutFrame, FrameType
  <2>3. toReceiver = <<>> => Len(toReceiver') =< 1
    BY <2>2, LenZero
  <2>4. sendNum' = num /\ sendOffs' = offs /\ sendState' = "eot"
    BY <1>2 DEF SendFrom
  <2>5. QED
    BY <1>2, <2>2, <2>3, <2>4
<1>3. QED
  BY <1>1, <1>2

\* What the receiver reads from the link stays at its head until it is read completely.
LEMMA ReadsFacts ==
    ASSUME LinkTypeOK, ReceiverReads
    PROVE  /\ toReceiver # <<>> /\ toReceiver' \in Seq(Frames)
           /\ Len(toReceiver') =< Len(toReceiver)
           /\ Len(toReceiver) = 1 /\ toReceiver' # toReceiver => toReceiver' = <<>>
<1>1. toReceiver # <<>> /\ toReceiver \in Seq(Frames)
  BY DEF ReceiverReads, LinkTypeOK
<1>2. /\ Tail(toReceiver) \in Seq(Frames) /\ Len(Tail(toReceiver)) = Len(toReceiver) - 1
      /\ Len(toReceiver) \in Nat
  BY <1>1, HeadTailProperties, LenProperties
<1>3. Len(toReceiver) = 1 => Tail(toReceiver) = <<>>
  <2> DEFINE t == Tail(toReceiver)
  <2>1. t \in Seq(Frames) /\ Len(t) = Len(toReceiver) - 1
    BY <1>2
  <2> HIDE DEF t
  <2>2. Len(toReceiver) = 1 => t = <<>>
    BY <2>1, LenZero
  <2>3. QED
    BY <2>2 DEF t
<1>4. toReceiver' \in {toReceiver, Tail(toReceiver)}
  BY DEF ReceiverReads
<1>5. QED
  BY <1>1, <1>2, <1>3, <1>4

\* The sender and the link keep their types, and a frame that is being read its place.
LEMMA LinkTypeInv ==
    ASSUME IInv, IInv', LinkTypeOK, MidFrame, [TransferNext]_allVars
    PROVE  LinkTypeOK' /\ MidFrame'
<1> USE DEF IInv, TypeOK
<1>1. toReceiver \in Seq(Frames) /\ toSender \in Seq(ControlBytes)
  BY DEF LinkTypeOK
<1>2. ASSUME NEW c \in ControlBytes, Answer(c)
      PROVE  toSender' \in Seq(ControlBytes) /\ toReceiver' = toReceiver
  BY <1>1, <1>2, AppendProperties DEF Answer
<1>3. CASE ReceiverAnswers
  <2>1. toSender' \in Seq(ControlBytes) /\ toReceiver' = toReceiver
    BY <1>2, <1>3 DEF ReceiverAnswers, ControlBytes
  <2>2. state' \notin {"RECV_PACKET_HEADER", "RECV_PACKET_DATA"}
    BY <1>3, Sizes DEF ReceiverAnswers, SendNcg, SendPacketAck, SendPacketNak, SendByte,
       SendEotAck, SendCan, SetState, WaitToSend, Return, control
  <2>3. QED
    BY <1>3, <2>1, <2>2 DEF ReceiverAnswers, LinkTypeOK, MidFrame, Waiting, sender
<1>4. CASE ReceiverReads
  <2> DEFINE f == Head(toReceiver)
  <2>1. LinkTypeOK'
    BY <1>4, ReadsFacts DEF ReceiverReads, LinkTypeOK, Waiting, sender, link, budget
  <2>2. ASSUME state' \in {"RECV_PACKET_HEADER", "RECV_PACKET_DATA"}
        PROVE  toReceiver' = toReceiver /\ start' = f.start /\ f.start # "EOT"
    <3>1. f \in Frames
      BY <1>4, HeadIsFrame DEF ReceiverReads
    <3>2. CASE RecvSoh(f.start, TRUE)
      <4>1. f.start \in {"SOH", "STX"} /\ start' = f.start /\ state = "RECV_SOH"
        BY <2>2, <3>1, <3>2 DEF RecvSoh, RecvEot, RecvStart, FlushError, SetError,
           SetState, SetStateKeepTimer, Frames
      <4>2. f # Eot
        BY <4>1 DEF Eot
      <4>3. QED
        BY <1>4, <4>1, <4>2 DEF ReceiverReads
    <3>3. CASE RecvPacketHeader(HeaderSize - packetOffs, [num |-> f.num, ok |-> TRUE], TRUE)
      <4>1. state = "RECV_PACKET_HEADER" /\ start' = start
        BY <2>2, <3>3 DEF RecvPacketHeader, CheckPacketTimeout, BadHeader,
           DuplicateHeader, NextHeader, FlushError, RecvData, SetError
      <4>2. f # Eot
        BY <4>1 DEF MidFrame, Eot
      <4>3. QED
        BY <1>4, <4>1, <4>2 DEF ReceiverReads, MidFrame
    <3>4. CASE RecvPacketData(packetSize - packetOffs, [data |-> f.data, ok |-> f.ok])
      <4>1. packetOffs + (packetSize - packetOffs) = packetSize
        BY Sizes DEF BufferTypeOK, PacketSizes, Overhead, HeaderSize, CrcSize
      <4>2. QED
        BY <2>2, <3>4, <4>1 DEF RecvPacketData, SetState, SetError
    <3>5. QED
      BY <1>4, <3>2, <3>3, <3>4 DEF ReceiverReads
  <2>3. QED
    BY <1>4, <2>1, <2>2 DEF MidFrame, ReceiverReads
<1>5. CASE ReceiverIdles
  <2>1. LinkTypeOK'
    BY <1>5 DEF ReceiverIdles, LinkTypeOK, Waiting, sender, link, budget
  <2>2. state' \in {"RECV_PACKET_HEADER", "RECV_PACKET_DATA"} =>
          state' = state /\ start' = start
    <3>1. CASE SendNcg(0) \/ SendPacketAck(0) \/ SendPacketNak(0) \/ SendEotAck(0) \/ SendCan(0)
      BY <3>1 DEF SendNcg, SendPacketAck, SendPacketNak, SendByte, SendEotAck, SendCan,
         WaitToSend, Return, control
    <3>2. CASE RecvSoh("none", TRUE)
      BY <3>2 DEF RecvSoh, NoStart, SetState, SetError, Return, Controls
    <3>3. ASSUME NEW h \in Headers, RecvPacketHeader(0, h, TRUE)
          PROVE  (state' = state /\ start' = start) \/ state' = "SEND_CAN"
      <4>1. ~HeaderComplete(0)
        BY <3>3 DEF RecvPacketHeader, HeaderComplete, StaysInPacket, HeaderSize
      <4>2. QED
        BY <3>3, <4>1 DEF RecvPacketHeader, CheckPacketTimeout, SetError, control
    <3>4. ASSUME NEW p \in Payloads, RecvPacketData(0, p)
          PROVE  (state' = state /\ start' = start)
                 \/ state' \notin {"RECV_PACKET_HEADER", "RECV_PACKET_DATA"}
      BY <3>4 DEF RecvPacketData, CheckPacketTimeout, SetState, SetError, control
    <3>5. QED
      BY <1>5, <3>1, <3>2, <3>3, <3>4 DEF ReceiverIdles, Idle
  <2>3. QED
    BY <1>5, <2>1, <2>2 DEF ReceiverIdles, MidFrame, link
<1>6. CASE HearControl
  <2> DEFINE c == Head(toSender)
  <2>1. toSender' \in Seq(ControlBytes) /\ UNCHANGED <<state, start, early>>
    BY <1>1, <1>6, HeadTailProperties DEF HearControl, receiver, vars, control, buffer
  <2>2. CASE Begin(c)
    BY <1>1, <2>1, <2>2, SendFromFacts, Sizes DEF Begin, LinkTypeOK, MidFrame, Waiting
  <2>3. CASE Advance(c)
    <3>1. CASE sendState = "packet" /\ SendFrom(sendNum + 1, sendOffs + PayloadSize(sendOffs))
      <4>1. sendNum + 1 \in Nat /\ sendNum + 1 > 0 /\ sendOffs + PayloadSize(sendOffs) \in Nat
        BY PacketSizeFacts, Sizes DEF LinkTypeOK
      <4>2. QED
        BY <1>1, <2>1, <3>1, <4>1, SendFromFacts, Sizes DEF LinkTypeOK, MidFrame, Waiting
    <3>2. CASE sendState' = "done" /\ UNCHANGED <<sendNum, sendOffs, toReceiver>>
      BY <2>1, <3>2 DEF LinkTypeOK, MidFrame, Waiting
    <3>3. QED
      BY <2>3, <3>1, <3>2 DEF Advance
  <2>4. CASE Repeat(c)
    BY <1>1, <2>1, <2>4, SendFromFacts, Sizes DEF Repeat, LinkTypeOK, MidFrame, Waiting
  <2>5. CASE GiveUp(c) \/ Ignore(c)
    BY <2>1, <2>5 DEF GiveUp, Ignore, LinkTypeOK, MidFrame, Waiting, sender
  <2>6. QED
    BY <1>6, <2>2, <2>3, <2>4, <2>5 DEF HearControl
<1>7. CASE SenderTimeout
  <2>1. UNCHANGED <<state, start, toSender>> /\ early' \in Nat
    BY <1>7 DEF SenderTimeout, LinkTypeOK, receiver, vars, control, buffer
  <2>2. QED
    BY <1>1, <1>7, <2>1, SendFromFacts, Sizes DEF SenderTimeout, LinkTypeOK, MidFrame,
       Waiting
<1>8. CASE Time
  BY <1>8 DEF Time, Tick, LinkTypeOK, MidFrame, Waiting, sender, link, budget, buffer
<1>9. CASE UNCHANGED allVars
  BY <1>9 DEF allVars, receiver, vars, control, buffer, sender, link, budget, LinkTypeOK,
     MidFrame, Waiting
<1>10. QED
  BY <1>3, <1>4, <1>5, <1>6, <1>7, <1>8, <1>9 DEF TransferNext, ReceiverStep, SenderStep

-------------------------------------------------------------------------------
(* Stop and wait: the sender's steps *)

\* What a byte that the sender hears leaves on the link.
LEMMA HearFacts ==
    ASSUME LinkTypeOK, TokenInv, HearControl
    PROVE  /\ toSender # <<>> /\ Has(Head(toSender), toSender)
           /\ \A c \in ControlBytes : Has(c, toSender') => Has(c, toSender)
           /\ Answered(toSender') => Answered(toSender)
           /\ OneAnswer(toSender')
           /\ Head(toSender) \in {"ACK", "NAK"} => ~Answered(toSender')
           /\ UNCHANGED <<state, ret, fileOffs, written, packetNum, packetSize, packet>>
           /\ UNCHANGED early
<1>1. toSender \in Seq(ControlBytes) /\ toSender # <<>> /\ toSender' = Tail(toSender)
  BY DEF LinkTypeOK, HearControl
<1>2. ASSUME NEW c
      PROVE  Has(c, toSender) <=> Head(toSender) = c \/ Has(c, toSender')
  BY <1>1, HasTail
<1>3. /\ OneAnswer(toSender')
      /\ Head(toSender) \in {"ACK", "NAK"} => ~Answered(toSender')
  BY <1>1, OneAnswerTail DEF TokenInv
<1>4. /\ UNCHANGED <<state, ret, fileOffs, written, packetNum, packetSize, packet>>
      /\ UNCHANGED early
  BY DEF HearControl, receiver, vars, control, counters, buffer, file
<1>5. Answered(toSender') => Answered(toSender)
  BY <1>2 DEF Answered
<1>6. QED
  BY <1>1, <1>2, <1>3, <1>4, <1>5

\* The first invitation that is heard starts the transfer.
LEMMA BeginKeeps ==
    ASSUME TInv, StopAndWait, HearControl, Begin(Head(toSender))
    PROVE  StopAndWait'
<1> USE HearFacts DEF StopAndWait, TInv
<1>1. sendState = "start" /\ SendFrom(1, 0) /\ toReceiver = <<>>
  BY DEF Begin, StartInv
<1>2. /\ sendNum' = 1 /\ sendOffs' = 0 /\ sendState' = "packet"
      /\ Len(toReceiver') =< 1
      /\ toReceiver' # <<>> => Carries(Head(toReceiver'), 1, 0)
  BY <1>1, SendFromFacts, Sizes DEF LinkTypeOK
<1>3. TokenInv'
  BY <1>1, <1>2 DEF TokenInv, StartInv
<1>4. StartInv' /\ EndInv' /\ FrameInv' /\ WrittenIsTheFile'
  BY <1>1, <1>2 DEF StartInv, EndInv, FrameInv, WrittenIsTheFile, ControlBytes
<1>5. ASSUME state # "NEW" PROVE Ahead'
  BY <1>1, <1>2, <1>5 DEF Ahead, StartInv, Buffered, Answered
<1>6. QED
  BY <1>3, <1>4, <1>5 DEF StepInv

\* ACK for a packet brings the next one, or EOT.
LEMMA NextPacketKeeps ==
    ASSUME TInv, StopAndWait, HearControl, Head(toSender) = "ACK", sendState = "packet",
           SendFrom(sendNum + 1, sendOffs + PayloadSize(sendOffs))
    PROVE  StopAndWait'
<1> USE HearFacts DEF StopAndWait, TInv
<1>1. /\ Answered(toSender) /\ ~Answered(toSender') /\ Has("ACK", toSender)
      /\ toReceiver = <<>> /\ state \in {"RECV_SOH", "SEND_CAN", "NEW"}
  BY DEF TokenInv, Answered
<1>2. sendNum \in Nat /\ sendNum > 0 /\ sendOffs \in Nat
  BY DEF LinkTypeOK, Waiting
<1>3. sendOffs + PayloadSize(sendOffs) \in Nat
  BY <1>2, PacketSizeFacts, Sizes
<1>4. /\ sendNum' = sendNum + 1 /\ sendOffs' = sendOffs + PayloadSize(sendOffs)
      /\ sendState' = IF sendOffs' < FileSize THEN "packet" ELSE "eot"
      /\ Len(toReceiver') =< 1
      /\ toReceiver' # <<>> => IF sendOffs' < FileSize
                               THEN Carries(Head(toReceiver'), sendNum', sendOffs')
                               ELSE Head(toReceiver') = Eot
  BY <1>1, <1>2, <1>3, SendFromFacts DEF LinkTypeOK
<1>5. TokenInv' /\ StartInv' /\ EndInv' /\ FrameInv' /\ WrittenIsTheFile'
  BY <1>1, <1>4 DEF TokenInv, StartInv, EndInv, FrameInv, WrittenIsTheFile, Answered,
     ControlBytes
<1>6. ASSUME state # "NEW" PROVE Ahead'
  <2>1. Same
    BY <1>1, <1>6 DEF StepInv, Ahead, Waiting
  <2>2. packetNum' = sendNum' - 1 /\ packetNum' # 0
    BY <1>2, <1>4, <2>1 DEF Same
  <2>3. state = "RECV_SOH" => Buffered'
    BY <1>1, <1>4, <2>1, <2>2 DEF Same, Buffered, PayloadSize
  <2>4. QED
    BY <1>1, <1>6, <2>2, <2>3 DEF Ahead
<1>7. QED
  BY <1>5, <1>6 DEF StepInv

\* ACK for EOT ends the sender.
LEMMA SenderDoneKeeps ==
    ASSUME TInv, StopAndWait, HearControl, Head(toSender) = "ACK", sendState = "eot",
           sendState' = "done", UNCHANGED <<sendNum, sendOffs, toReceiver>>
    PROVE  StopAndWait'
<1> USE HearFacts DEF StopAndWait, TInv
<1>1. ret = "DONE" /\ state = "NEW"
  BY DEF EndInv, IInv, ResultInv, Running
<1>2. QED
  BY <1>1 DEF TokenInv, StartInv, EndInv, FrameInv, StepInv, WrittenIsTheFile, Waiting

\* A repetition of what is awaited, with nothing else on the way.
LEMMA RepeatKeeps ==
    ASSUME TInv, StopAndWait, SendFrom(sendNum, sendOffs), Waiting,
           toReceiver = <<>>, ~Answered(toSender'), OneAnswer(toSender'),
           state \in {"RECV_SOH", "SEND_CAN", "NEW"},
           Has("CAN", toSender') => Has("CAN", toSender),
           UNCHANGED <<state, ret, fileOffs, written, packetNum, packetSize, packet>>
    PROVE  StopAndWait'
<1> USE DEF StopAndWait, TInv
<1>1. sendNum \in Nat /\ sendNum > 0 /\ sendOffs \in Nat
  BY DEF LinkTypeOK
<1>2. /\ sendNum' = sendNum /\ sendOffs' = sendOffs /\ sendState' = sendState
      /\ sendState' = IF sendOffs < FileSize THEN "packet" ELSE "eot"
      /\ Len(toReceiver') =< 1
      /\ toReceiver' # <<>> => IF sendOffs' < FileSize
                               THEN Carries(Head(toReceiver'), sendNum', sendOffs')
                               ELSE Head(toReceiver') = Eot
  BY <1>1, SendFromFacts, Sizes DEF LinkTypeOK, Waiting
<1>3. TokenInv' /\ StartInv' /\ EndInv' /\ FrameInv' /\ WrittenIsTheFile'
  BY <1>2 DEF TokenInv, StartInv, EndInv, FrameInv, WrittenIsTheFile, Answered, Waiting
<1>4. Same => Same'
  BY <1>2 DEF Same, Answered
<1>5. Ahead => Ahead'
  BY <1>2 DEF Ahead, Buffered, PayloadSize
<1>6. QED
  BY <1>3, <1>4, <1>5 DEF StepInv

\* What a sender hears keeps it in step with the receiver.
LEMMA HearKeeps == ASSUME TInv, StopAndWait, HearControl PROVE StopAndWait'
<1> DEFINE c == Head(toSender)
<1>1. CASE Begin(c)
  BY <1>1, BeginKeeps
<1>2. CASE Advance(c)
  BY <1>2, NextPacketKeeps, SenderDoneKeeps DEF Advance
<1>3. CASE Repeat(c)
  <2>1. LinkTypeOK /\ TokenInv /\ c = "NAK" /\ Waiting /\ SendFrom(sendNum, sendOffs)
    BY <1>3 DEF Repeat, TInv, StopAndWait
  <2>2. toReceiver = <<>> /\ state \in {"RECV_SOH", "SEND_CAN", "NEW"}
    BY <2>1, HearFacts DEF TokenInv, Answered
  <2>3. QED
    BY <2>1, <2>2, HearFacts, RepeatKeeps DEF ControlBytes
<1>4. CASE GiveUp(c)
  <2>1. LinkTypeOK /\ TokenInv /\ state = "NEW"
    BY <1>4, HearFacts DEF GiveUp, TInv, StopAndWait, EndInv
  <2>2. QED
    BY <1>4, <2>1, HearFacts DEF GiveUp, StopAndWait, TokenInv, StartInv, EndInv,
       FrameInv, StepInv, WrittenIsTheFile, Waiting
<1>5. CASE Ignore(c)
  <2>1. LinkTypeOK /\ TokenInv
    BY DEF TInv, StopAndWait
  <2>2. /\ UNCHANGED <<sendState, sendNum, sendOffs, toReceiver>>
        /\ UNCHANGED <<state, ret, fileOffs, written, packetNum, packetSize, packet>>
        /\ Has("ACK", toSender') => Has("ACK", toSender)
        /\ Has("CAN", toSender') => Has("CAN", toSender)
        /\ Answered(toSender') => Answered(toSender)
        /\ OneAnswer(toSender')
    BY <1>5, <2>1, HearFacts DEF Ignore, sender, ControlBytes
  <2>3. TokenInv' /\ StartInv' /\ EndInv' /\ FrameInv' /\ WrittenIsTheFile'
    BY <2>2 DEF StopAndWait, TokenInv, StartInv, EndInv, FrameInv, WrittenIsTheFile,
       Carries, StartByte
  <2>4. Same => Same'
    BY <2>2 DEF Same, StartByte
  <2>5. Ahead => Ahead'
    BY <2>2 DEF Ahead, Buffered
  <2>6. QED
    BY <2>2, <2>3, <2>4, <2>5 DEF StopAndWait, StepInv, Waiting
<1>6. QED
  BY <1>1, <1>2, <1>3, <1>4, <1>5 DEF HearControl

\* A timeout of the sender keeps it in step, when nothing was on the way.
LEMMA TimeoutKeeps ==
    ASSUME TInv, StopAndWait, SenderTimeout, early' = early
    PROVE  StopAndWait'
<1>1. /\ early \in Nat /\ NothingInFlight /\ Waiting /\ SendFrom(sendNum, sendOffs)
  BY DEF SenderTimeout, TInv, LinkTypeOK
<1>2. toReceiver = <<>> /\ toSender = <<>> /\ toSender' = toSender
  BY <1>1 DEF NothingInFlight, link, SenderTimeout
<1>3. ~Answered(toSender') /\ OneAnswer(toSender') /\ ~Has("CAN", toSender')
  BY <1>2 DEF Answered, OneAnswer, Has
<1>4. UNCHANGED <<state, ret, fileOffs, written, packetNum, packetSize, packet>>
  BY DEF SenderTimeout, receiver, vars, control, counters, buffer, file
<1>5. state \in {"RECV_SOH", "SEND_CAN", "NEW"}
  BY <1>1 DEF NothingInFlight
<1>6. QED
  BY <1>1, <1>2, <1>3, <1>4, <1>5, RepeatKeeps

-------------------------------------------------------------------------------
(* Stop and wait: the receiver's steps *)

\* What an answer adds to the link.
LEMMA AnswerFacts ==
    ASSUME LinkTypeOK, TokenInv, NEW c \in ControlBytes, Answer(c),
           c \notin {"ACK", "NAK"} \/ ~Answered(toSender)
    PROVE  /\ toReceiver' = toReceiver
           /\ \A d \in ControlBytes : Has(d, toSender') => Has(d, toSender) \/ d = c
           /\ Answered(toSender') => Answered(toSender) \/ c \in {"ACK", "NAK"}
           /\ OneAnswer(toSender')
<1>1. toReceiver' = toReceiver /\ toSender' \in {toSender, Append(toSender, c)}
  BY DEF Answer
<1>2. toSender \in Seq(ControlBytes) /\ OneAnswer(toSender)
  BY DEF LinkTypeOK, TokenInv
<1>3. CASE toSender' = toSender
  BY <1>1, <1>2, <1>3
<1>4. CASE toSender' = Append(toSender, c)
  <2>1. \A d : Has(d, toSender') <=> Has(d, toSender) \/ c = d
    BY <1>2, <1>4, HasAppend
  <2>2. OneAnswer(toSender')
    BY <1>2, <1>4, OneAnswerAppend
  <2>3. QED
    BY <1>1, <2>1, <2>2 DEF Answered
<1>5. QED
  BY <1>1, <1>3, <1>4

\* The receiver's answers keep it in step with the sender.
LEMMA AnswersKeep == ASSUME TInv, StopAndWait, ReceiverAnswers PROVE StopAndWait'
<1> USE DEF StopAndWait, TInv
<1>1. UNCHANGED <<sendState, sendNum, sendOffs>>
  BY DEF ReceiverAnswers, sender
<1>2. state \notin {"RECV_SOH", "NEW", "SEND_CAN"} => ~Answered(toSender)
  BY DEF TokenInv
<1>3. state # "NEW" => ret # "DONE"
  BY DEF IInv, ResultInv, Running
<1>4. CASE SendNcg(1) /\ Answer("C")
  <2>1. /\ state = "SEND_NCG" /\ state' = "RECV_SOH"
        /\ UNCHANGED <<ret, fileOffs, written, packetNum, packetSize, packet>>
    BY <1>4 DEF SendNcg, SendByte, SetState, WaitToSend, counters, buffer, file
  <2>2. /\ toReceiver' = toReceiver /\ ~Answered(toSender) /\ ~Answered(toSender')
        /\ OneAnswer(toSender')
        /\ Has("CAN", toSender') => Has("CAN", toSender)
        /\ ~Has("ACK", toSender')
    BY <1>2, <1>4, <2>1, AnswerFacts DEF ControlBytes, Answered
  <2>3. TokenInv' /\ StartInv' /\ EndInv' /\ FrameInv' /\ WrittenIsTheFile'
    BY <1>1, <2>1, <2>2 DEF TokenInv, StartInv, EndInv, FrameInv, WrittenIsTheFile,
       Carries, StartByte
  <2>4. StepInv'
    BY <1>1, <2>1, <2>2 DEF StepInv, Waiting, Same, Ahead, Buffered
  <2>5. QED
    BY <2>3, <2>4
<1>5. ASSUME NEW c \in {"ACK", "NAK"}, Answer(c), SendPacketAck(1) \/ SendPacketNak(1),
             c = "ACK" => state = "SEND_PACKET_ACK"
      PROVE  StopAndWait'
  <2>1. /\ state \in {"SEND_PACKET_ACK", "SEND_PACKET_NAK"} /\ state' = "RECV_SOH"
        /\ UNCHANGED <<ret, fileOffs, written, packetNum, packetSize, packet>>
    BY <1>5 DEF SendPacketAck, SendPacketNak, SendByte, SetState, WaitToSend, counters,
       buffer, file
  <2>2. /\ toReceiver' = toReceiver /\ ~Answered(toSender)
        /\ OneAnswer(toSender')
        /\ Has("CAN", toSender') => Has("CAN", toSender)
        /\ Has("ACK", toSender') => c = "ACK"
    BY <1>2, <1>5, <2>1, AnswerFacts DEF ControlBytes, Answered
  <2>3. toReceiver = <<>> /\ Same
    BY <2>1 DEF TokenInv, StartInv, EndInv, StepInv, Ahead, Waiting, LinkTypeOK
  <2>4. TokenInv' /\ StartInv' /\ EndInv' /\ FrameInv' /\ WrittenIsTheFile'
    BY <1>1, <2>1, <2>2, <2>3 DEF TokenInv, StartInv, EndInv, FrameInv,
       WrittenIsTheFile, Same
  <2>5. Same'
    BY <1>1, <1>5, <2>1, <2>2, <2>3 DEF Same, StartByte
  <2>6. QED
    BY <2>4, <2>5 DEF StepInv
<1>6. CASE SendEotAck(1) /\ Answer("ACK")
  <2>1. /\ state = "SEND_EOT_ACK" /\ state' = "NEW" /\ ret' = "DONE"
        /\ UNCHANGED <<fileOffs, written, packetNum, packetSize, packet>>
    BY <1>6 DEF SendEotAck, Return, WaitToSend, counters, buffer, file
  <2>2. /\ toReceiver' = toReceiver /\ toReceiver = <<>> /\ OneAnswer(toSender')
        /\ sendState # "start"
    BY <1>2, <1>6, <2>1, AnswerFacts DEF ControlBytes, TokenInv, StartInv
  <2>3. QED
    BY <1>1, <2>1, <2>2 DEF TokenInv, StartInv, EndInv, FrameInv, StepInv,
       WrittenIsTheFile
<1>7. CASE SendCan(SEND_CAN_COUNT - packetOffs) /\ Answer("CAN")
  <2>1. packetOffs + (SEND_CAN_COUNT - packetOffs) = SEND_CAN_COUNT
    BY Sizes DEF IInv, TypeOK, BufferTypeOK
  <2>2. /\ state = "SEND_CAN" /\ state' = "NEW"
        /\ UNCHANGED <<fileOffs, written, packetNum>>
    BY <1>7, <2>1 DEF SendCan, Return, counters, file
  <2>3. /\ toReceiver' = toReceiver /\ OneAnswer(toSender')
        /\ Answered(toSender') => Answered(toSender)
        /\ Has("ACK", toSender') => Has("ACK", toSender)
    BY <1>7, AnswerFacts DEF ControlBytes
  <2>4. sendState \notin {"start", "stopped", "done"} /\ ~(sendState = "eot" /\ Has("ACK", toSender))
    BY <1>3, <2>2 DEF StartInv, EndInv
  <2>5. QED
    BY <1>1, <2>2, <2>3, <2>4 DEF TokenInv, StartInv, EndInv, FrameInv, StepInv,
       WrittenIsTheFile
<1>8. CASE SendPacketAck(1) /\ Answer("ACK")
  BY <1>5, <1>8 DEF SendPacketAck, SendByte
<1>9. CASE SendPacketNak(1) /\ Answer("NAK")
  BY <1>5, <1>9
<1>10. QED
  BY <1>4, <1>6, <1>7, <1>8, <1>9 DEF ReceiverAnswers

\* An abort, or the end of the receiver without DONE, at any place of the transfer.
LEMMA AbortKeeps ==
    ASSUME TInv, StopAndWait, state \notin {"NEW", "SEND_CAN"},
           state' \in {"SEND_CAN", "NEW"},
           state' = "SEND_CAN" => sendState # "start" /\ state # "SEND_EOT_ACK",
           UNCHANGED <<sendState, sendNum, sendOffs, packetNum, toSender>>,
           toReceiver' = toReceiver \/ toReceiver' = <<>>,
           ret' # "DONE", WrittenIsTheFile', ret' = "RUNNING" \/ state' = "NEW",
           sendState = "start" => UNCHANGED <<packetSize, fileOffs>>
    PROVE  StopAndWait'
<1> USE DEF StopAndWait, TInv
<1>1. ret # "DONE"
  BY DEF IInv, ResultInv, Running
<1>2. Len(<<>>) = 0
  OBVIOUS
<1>3. TokenInv' /\ StartInv'
  BY <1>2 DEF TokenInv, StartInv, Answered
<1>4. EndInv'
  BY <1>1 DEF EndInv
<1>5. FrameInv' /\ StepInv'
  BY DEF FrameInv, StepInv, Same, Ahead, Waiting, Carries, StartByte
<1>6. QED
  BY <1>3, <1>4, <1>5

\* A step that the sender, the link and the file do not notice.
LEMMA UnnoticedKeeps ==
    ASSUME StopAndWait, UNCHANGED <<sendState, sendNum, sendOffs, toReceiver, toSender>>,
           UNCHANGED <<state, ret, fileOffs, written, packetNum, packetSize, packet>>
    PROVE  StopAndWait'
<1>1. TokenInv' /\ StartInv' /\ EndInv' /\ FrameInv' /\ WrittenIsTheFile'
  BY DEF StopAndWait, TokenInv, StartInv, EndInv, FrameInv, WrittenIsTheFile, Carries,
     StartByte, Answered
<1>2. (Same => Same') /\ (Ahead => Ahead')
  BY DEF Same, Ahead, Buffered, StartByte, PayloadSize, Answered
<1>3. QED
  BY <1>1, <1>2 DEF StopAndWait, StepInv, Waiting

\* flush() writes the verified packet to where it belongs.
LEMMA FlushBuffered ==
    ASSUME TInv, WrittenIsTheFile, Buffered, Flush,
           state \in {"RECV_SOH", "RECV_PACKET_HEADER"}
    PROVE  /\ WrittenIsTheFile'
           /\ sendOffs < FileSize => fileOffs' = sendOffs
           /\ sendOffs >= FileSize => fileOffs' = FileSize
<1> USE DEF TInv, IInv, TypeOK
<1>1. fileOffs \in 0 .. FileSize /\ FileSize \in Nat /\ FileSize > 0
  BY Sizes DEF FileTypeOK
<1>2. CASE packetNum = 0
  <2>1. FlushSize = 0 /\ fileOffs = 0 /\ sendOffs = 0
    BY <1>2 DEF Buffered, FlushSize
  <2>2. fileOffs' = 0 /\ written' = written
    BY <1>1, <2>1 DEF Flush, FileTypeOK
  <2>3. QED
    BY <1>1, <2>1, <2>2 DEF WrittenIsTheFile
<1>3. CASE packetNum # 0
  <2>1. /\ packetSize = PayloadSize(fileOffs) + Overhead /\ PayloadSize(fileOffs) \in Nat
        /\ packet = [data |-> fileOffs, ok |-> TRUE]
        /\ sendOffs = fileOffs + PayloadSize(fileOffs)
    BY <1>1, <1>3, PacketSizeFacts, Sizes DEF Buffered
  <2>2. packetSize # 0 /\ packetSize - Overhead = PayloadSize(fileOffs)
    BY <2>1 DEF Overhead, HeaderSize, CrcSize
  <2>3. FlushSize = IF FileSize - fileOffs < PayloadSize(fileOffs) THEN FileSize - fileOffs
                    ELSE PayloadSize(fileOffs)
    BY <2>2 DEF FlushSize
  <2>4. /\ FlushSize \in Nat
        /\ sendOffs < FileSize => fileOffs' = sendOffs
        /\ sendOffs >= FileSize => fileOffs' = FileSize
    BY <1>1, <2>1, <2>3 DEF Flush
  <2>5. packet # NoPacket
    <3>1. packet \in Payloads
      BY <2>1, <2>2, Sizes DEF BufferInv, PacketSizes, Overhead, HeaderSize, CrcSize
    <3>2. QED
      BY <3>1, DataAssumption DEF Payloads
  <2>6. ASSUME NEW i \in 0 .. FileSize - 1, written'[i] # Unwritten
        PROVE  written'[i] = [data |-> i, ok |-> TRUE]
    <3>1. CASE i \in fileOffs .. (fileOffs + FlushSize - 1)
      <4>1. written'[i] = PayloadByte(i - fileOffs)
        BY <3>1 DEF Flush, FileTypeOK
      <4>2. PayloadByte(i - fileOffs) = [data |-> fileOffs + (i - fileOffs), ok |-> TRUE]
        BY <2>1, <2>5 DEF PayloadByte
      <4>3. fileOffs + (i - fileOffs) = i
        BY <1>1
      <4>4. QED
        BY <4>1, <4>2, <4>3
    <3>2. CASE i \notin fileOffs .. (fileOffs + FlushSize - 1)
      <4>1. written'[i] = written[i]
        BY <3>2 DEF Flush, FileTypeOK
      <4>2. QED
        BY <2>6, <4>1 DEF WrittenIsTheFile
    <3>3. QED
      BY <3>1, <3>2
  <2>7. QED
    BY <2>4, <2>6 DEF WrittenIsTheFile
<1>4. QED
  BY <1>2, <1>3

\* What a receiver that finds a frame knows of the sender.
LEMMA ReadingFacts ==
    ASSUME TInv, StopAndWait, ReceiverReads
    PROVE  /\ toReceiver # <<>> /\ Head(toReceiver) \in Frames
           /\ UNCHANGED <<sendState, sendNum, sendOffs, toSender>>
           /\ toReceiver' \in {toReceiver, <<>>}
           /\ ~Answered(toSender) /\ sendState # "start"
           /\ state # "NEW" => Waiting /\ (Same \/ Ahead)
           /\ state # "NEW" => ret # "DONE" /\ ret = "RUNNING"
<1> USE DEF TInv, StopAndWait
<1>1. toReceiver # <<>> /\ Head(toReceiver) \in Frames
  BY HeadIsFrame DEF ReceiverReads
<1>2. Len(toReceiver) = 1 /\ toReceiver' \in {toReceiver, <<>>}
  <2>0. toReceiver \in Seq(Frames)
    BY DEF LinkTypeOK
  <2>1. Len(toReceiver) \in Nat /\ Len(toReceiver) # 0
    BY <1>1, <2>0, EmptySeq
  <2>2. Len(toReceiver) =< 1
    BY DEF TokenInv
  <2>3. Len(toReceiver) = 1
    BY ONLY <2>1, <2>2
  <2>4. QED
    BY <2>3, ReadsFacts
<1>3. ~Answered(toSender) /\ sendState # "start"
  BY <1>1 DEF TokenInv, StartInv
<1>4. state # "NEW" => Waiting
  BY <1>3 DEF EndInv, LinkTypeOK, Waiting
<1>5. state # "NEW" => ret = "RUNNING"
  BY DEF IInv, ResultInv, Running
<1>6. QED
  BY <1>1, <1>2, <1>3, <1>4, <1>5 DEF StepInv, ReceiverReads, sender

\* recvSoh() reads the start of the packet that is awaited, or EOT after the last one.
LEMMA ReadStartKeeps ==
    ASSUME TInv, StopAndWait, ReceiverReads, RecvSoh(Head(toReceiver).start, TRUE)
    PROVE  StopAndWait'
<1> DEFINE f == Head(toReceiver)
<1>1. state = "RECV_SOH"
  BY DEF RecvSoh
<1>2. /\ toReceiver # <<>> /\ f \in Frames /\ ~Answered(toSender) /\ sendState # "start"
      /\ UNCHANGED <<sendState, sendNum, sendOffs, toSender>>
      /\ toReceiver' \in {toReceiver, <<>>}
      /\ Waiting /\ (Same \/ Ahead) /\ ret = "RUNNING"
  BY <1>1, ReadingFacts
<1>3. ~Has("ACK", toSender) /\ ~Has("CAN", toSender)
  BY <1>1, <1>2 DEF Answered, StopAndWait, EndInv
<1>4. \/ sendState = "packet" /\ Carries(f, sendNum, sendOffs)
      \/ sendState = "eot" /\ f = Eot
  BY <1>1, <1>2 DEF StopAndWait, FrameInv
<1>5. CASE f.start = "EOT"
  <2>1. sendState = "eot" /\ f = Eot
    BY <1>4, <1>5, PacketSizeFacts DEF Carries, TInv, LinkTypeOK
  <2>2. Ahead /\ Buffered /\ sendOffs >= FileSize
    BY <1>1, <1>2, <2>1 DEF Same, Ahead, TInv, LinkTypeOK
  <2>3. RecvEot(TRUE) /\ UNCHANGED packetNum
    BY <1>5 DEF RecvSoh, Controls
  <2>4. Flush /\ UNCHANGED packet
    BY <2>3 DEF RecvEot, FlushFails
  <2>5. fileOffs' = FileSize /\ WrittenIsTheFile'
    BY <1>1, <2>2, <2>4, FlushBuffered DEF StopAndWait
  <2>6. state' = "SEND_EOT_ACK" /\ ret' = ret
    BY <2>3, <2>5, Sizes DEF RecvEot, FlushFails, SetState
  <2>7. toReceiver' = <<>>
    <3>1. toReceiver' = Tail(toReceiver)
      BY <2>1 DEF ReceiverReads
    <3>2. toReceiver \in Seq(Frames) /\ Tail(toReceiver) # toReceiver
      <4>1. toReceiver \in Seq(Frames)
        BY DEF TInv, LinkTypeOK
      <4>2. Len(Tail(toReceiver)) = Len(toReceiver) - 1 /\ Len(toReceiver) \in Nat
        BY <1>2, <4>1, HeadTailProperties, LenProperties
      <4>3. QED
        BY <4>1, <4>2
    <3>3. QED
      BY <1>2, <3>1, <3>2
  <2>8. TokenInv' /\ StartInv' /\ EndInv' /\ FrameInv'
    <3>1. Len(<<>>) = 0
      OBVIOUS
    <3>2. QED
      BY <1>2, <1>3, <2>1, <2>6, <2>7, <3>1 DEF StopAndWait, TokenInv, StartInv, EndInv,
         FrameInv, Answered
  <2>9. Ahead'
    BY <1>2, <2>1, <2>2, <2>3, <2>6 DEF Ahead, Answered
  <2>10. QED
    BY <2>5, <2>8, <2>9 DEF StopAndWait, StepInv
<1>6. CASE f.start # "EOT"
  <2>1. sendState = "packet" /\ Carries(f, sendNum, sendOffs) /\ f # Eot
    BY <1>4, <1>6 DEF Eot
  <2>2. toReceiver' = toReceiver
    BY <1>1, <2>1 DEF ReceiverReads
  <2>3. /\ RecvStart(f.start) /\ UNCHANGED packetNum
        /\ UNCHANGED <<packet, fileOffs, written>>
    BY <1>2, <1>6 DEF RecvSoh, RecvStart, Frames, file
  <2>4. WrittenIsTheFile'
    BY <2>3 DEF StopAndWait, WrittenIsTheFile
  <2>5. CASE state' = "SEND_CAN" /\ ret' = ret
    BY <1>1, <1>2, <2>2, <2>3, <2>4, <2>5, AbortKeeps
  <2>6. CASE state' = "RECV_PACKET_HEADER" /\ ret' = ret /\ UNCHANGED packetSize
    <3>1. TokenInv' /\ StartInv' /\ EndInv' /\ FrameInv'
      BY <1>2, <1>3, <2>1, <2>2, <2>6 DEF StopAndWait, TokenInv, StartInv, EndInv,
         FrameInv, Carries, StartByte, Answered
    <3>2. (Same => Same') /\ (Ahead => Ahead')
      BY <1>1, <1>2, <1>3, <2>3, <2>6 DEF Same, Ahead, Buffered, StartByte, PayloadSize,
         Answered
    <3>3. QED
      BY <1>2, <2>4, <3>1, <3>2 DEF StopAndWait, StepInv
  <2>7. QED
    BY <2>3, <2>5, <2>6 DEF RecvStart, SetError, SetStateKeepTimer
<1>7. QED
  BY <1>5, <1>6

\* recvPacketHeader() tells the packet that it has from the next one.
LEMMA ReadHeaderKeeps ==
    ASSUME TInv, StopAndWait, ReceiverReads,
           RecvPacketHeader(HeaderSize - packetOffs,
                            [num |-> Head(toReceiver).num, ok |-> TRUE], TRUE)
    PROVE  StopAndWait'
<1> DEFINE f == Head(toReceiver)
           h == [num |-> f.num, ok |-> TRUE]
<1>1. state = "RECV_PACKET_HEADER" /\ UNCHANGED packet
  BY DEF RecvPacketHeader
<1>2. /\ toReceiver # <<>> /\ f \in Frames /\ ~Answered(toSender) /\ sendState # "start"
      /\ UNCHANGED <<sendState, sendNum, sendOffs, toSender>>
      /\ toReceiver' \in {toReceiver, <<>>}
      /\ Waiting /\ (Same \/ Ahead) /\ ret = "RUNNING"
  BY <1>1, ReadingFacts
<1>3. ~Has("ACK", toSender) /\ ~Has("CAN", toSender)
  BY <1>1, <1>2 DEF Answered, StopAndWait, EndInv
<1>4. /\ sendState = "packet" /\ Carries(f, sendNum, sendOffs) /\ f # Eot
      /\ start = StartByte(sendOffs)
  BY <1>1, <1>2 DEF TInv, MidFrame, StopAndWait, FrameInv, Carries, Eot
<1>5. toReceiver' = toReceiver
  BY <1>1, <1>4 DEF ReceiverReads
<1>6. /\ sendNum \in Nat /\ sendNum > 0 /\ sendOffs \in Nat /\ sendOffs < FileSize
      /\ packetNum \in Nat
  BY <1>2, <1>4 DEF TInv, LinkTypeOK, IInv, TypeOK, CounterTypeOK
<1>7. HeaderComplete(HeaderSize - packetOffs)
  BY <1>1, Sizes DEF HeaderComplete, TInv, IInv, StaysInPacket, HeaderSize
<1>8. ASSUME state' = "SEND_CAN", ret' = ret, UNCHANGED <<packetNum, written>>
      PROVE  StopAndWait'
  BY <1>1, <1>2, <1>5, <1>8, AbortKeeps DEF StopAndWait, WrittenIsTheFile
<1>9. CASE Same
  <2>1. h.num = packetNum % NumMod /\ packetNum # 0
    BY <1>4, <1>6, <1>9 DEF Same, Carries
  <2>2. DuplicateHeader
    BY <1>7, <2>1 DEF RecvPacketHeader, IsDuplicate
  <2>3. UNCHANGED <<packetNum, fileOffs, written>>
    BY <2>2 DEF DuplicateHeader, file
  <2>4. CASE state' = "SEND_CAN" /\ ret' = ret
    BY <1>8, <2>3, <2>4
  <2>5. CASE state' = "RECV_PACKET_DATA" /\ ret' = ret /\ packetSize' = SizeOf(start)
    <3>1. TokenInv' /\ StartInv' /\ EndInv' /\ FrameInv' /\ WrittenIsTheFile'
      BY <1>2, <1>3, <1>4, <1>5, <2>3, <2>5 DEF StopAndWait, TokenInv, StartInv, EndInv,
         FrameInv, WrittenIsTheFile, Carries, StartByte, Answered
    <3>2. Same'
      BY <1>1, <1>2, <1>3, <1>4, <1>9, <2>3, <2>5 DEF Same, StartByte, Answered
    <3>3. QED
      BY <3>1, <3>2 DEF StopAndWait, StepInv
  <2>6. QED
    BY <2>2, <2>4, <2>5 DEF DuplicateHeader, SetError, RecvData, SetStateKeepTimer
<1>10. CASE Ahead
  <2>1. packetNum = sendNum - 1 /\ packetNum + 1 = sendNum /\ Buffered
    BY <1>1, <1>6, <1>10 DEF Ahead
  <2>2. h.num = (packetNum + 1) % NumMod /\ ~IsDuplicate(h) /\ IsSuccessor(h)
    BY <1>4, <1>6, <2>1, NumbersDiffer DEF Carries, IsDuplicate, IsSuccessor
  <2>3. NextHeader(TRUE)
    BY <1>7, <2>2 DEF RecvPacketHeader
  <2>4. Flush /\ packetNum' = sendNum /\ RecvData
    BY <2>1, <2>3 DEF NextHeader, FlushFails
  <2>5. fileOffs' = sendOffs /\ WrittenIsTheFile'
    BY <1>1, <1>6, <2>1, <2>4, FlushBuffered DEF StopAndWait
  <2>6. state' = "RECV_PACKET_DATA" /\ ret' = ret /\ packetSize' = SizeOf(start)
    BY <2>4 DEF RecvData, SetStateKeepTimer
  <2>7. TokenInv' /\ StartInv' /\ EndInv' /\ FrameInv'
    BY <1>2, <1>3, <1>4, <1>5, <2>6 DEF StopAndWait, TokenInv, StartInv, EndInv,
       FrameInv, Carries, StartByte, Answered
  <2>8. Same'
    BY <1>2, <1>3, <1>4, <2>4, <2>5, <2>6 DEF Same, StartByte, Answered
  <2>9. QED
    BY <2>5, <2>7, <2>8 DEF StopAndWait, StepInv
<1>11. QED
  BY <1>2, <1>9, <1>10

\* recvPacketData() acknowledges the packet only when its checksum matches.
LEMMA ReadDataKeeps ==
    ASSUME TInv, StopAndWait, ReceiverReads,
           RecvPacketData(packetSize - packetOffs,
                          [data |-> Head(toReceiver).data, ok |-> Head(toReceiver).ok])
    PROVE  StopAndWait'
<1> DEFINE f == Head(toReceiver)
           p == [data |-> f.data, ok |-> f.ok]
<1>1. /\ state = "RECV_PACKET_DATA" /\ UNCHANGED <<packetNum, fileOffs, written>>
      /\ WrittenIsTheFile'
  BY DEF RecvPacketData, counters, file, StopAndWait, WrittenIsTheFile
<1>2. /\ toReceiver # <<>> /\ f \in Frames /\ ~Answered(toSender) /\ sendState # "start"
      /\ UNCHANGED <<sendState, sendNum, sendOffs, toSender>>
      /\ toReceiver' \in {toReceiver, <<>>}
      /\ Waiting /\ (Same \/ Ahead) /\ ret = "RUNNING"
  BY <1>1, ReadingFacts
<1>3. ~Has("ACK", toSender) /\ ~Has("CAN", toSender)
  BY <1>1, <1>2 DEF Answered, StopAndWait, EndInv
<1>4. Same /\ p.data = sendOffs /\ sendState = "packet"
  BY <1>1, <1>2 DEF Ahead, Same, StopAndWait, FrameInv, Carries
<1>5. toReceiver' = <<>>
  <2>1. toReceiver' = Tail(toReceiver)
    BY <1>1 DEF ReceiverReads
  <2>2. Tail(toReceiver) # toReceiver
    <3>1. toReceiver \in Seq(Frames)
      BY DEF TInv, LinkTypeOK
    <3>2. Len(Tail(toReceiver)) = Len(toReceiver) - 1 /\ Len(toReceiver) \in Nat
      BY <1>2, <3>1, HeadTailProperties, LenProperties
    <3>3. QED
      BY <3>1, <3>2
  <2>3. QED
    BY <1>2, <2>1, <2>2
<1>6. packetOffs + (packetSize - packetOffs) = packetSize
  BY Sizes DEF TInv, IInv, TypeOK, BufferTypeOK, PacketSizes, Overhead, HeaderSize, CrcSize
<1>7. CASE state' = "SEND_CAN" /\ ret' = ret
  BY <1>1, <1>2, <1>7, AbortKeeps
<1>8. CASE /\ state' = (IF p.ok THEN "SEND_PACKET_ACK" ELSE "SEND_PACKET_NAK")
           /\ ret' = ret /\ packet' = p /\ UNCHANGED packetSize
  <2>1. TokenInv' /\ StartInv' /\ EndInv' /\ FrameInv'
    <3>1. Len(<<>>) = 0
      OBVIOUS
    <3>2. QED
      BY <1>2, <1>3, <1>4, <1>5, <1>8, <3>1 DEF StopAndWait, TokenInv, StartInv, EndInv,
         FrameInv, Answered
  <2>2. state' = "SEND_PACKET_ACK" => packet' = [data |-> sendOffs, ok |-> TRUE]
    BY <1>2, <1>4, <1>8 DEF Frames
  <2>3. Same'
    BY <1>1, <1>2, <1>3, <1>4, <1>8, <2>2 DEF Same, StartByte
  <2>4. QED
    BY <1>1, <2>1, <2>3 DEF StopAndWait, StepInv
<1>9. QED
  BY <1>6, <1>7, <1>8 DEF RecvPacketData, SetState, SetError

\* A receiver that finds nothing to read keeps waiting, invites again or gives up.
LEMMA IdleKeeps == ASSUME TInv, StopAndWait, ReceiverIdles PROVE StopAndWait'
<1> USE DEF TInv, StopAndWait
<1>1. UNCHANGED <<sendState, sendNum, sendOffs, toReceiver, toSender>>
  BY DEF ReceiverIdles, sender, link
<1>2. state # "NEW" => ret = "RUNNING"
  BY DEF IInv, ResultInv, Running
<1>3. ASSUME state \notin {"NEW", "SEND_CAN"}, state' \in {"SEND_CAN", "NEW"},
             state' = "SEND_CAN" => packetNum # 0 \/ state # "RECV_SOH",
             state' = "SEND_CAN" => state # "SEND_EOT_ACK" /\ state # "SEND_NCG",
             ret' # "DONE", ret' = "RUNNING" \/ state' = "NEW",
             UNCHANGED <<packetNum, file>>, UNCHANGED packetSize \/ state' = "SEND_CAN"
      PROVE  StopAndWait'
  <2>1. WrittenIsTheFile' /\ UNCHANGED fileOffs
    BY <1>3 DEF WrittenIsTheFile, file
  <2>2. state' = "SEND_CAN" => sendState # "start"
    BY <1>3 DEF StartInv
  <2>3. QED
    BY <1>1, <1>3, <2>1, <2>2, AbortKeeps
<1>4. CASE SendNcg(0) \/ SendPacketAck(0) \/ SendPacketNak(0) \/ SendEotAck(0)
  <2>1. /\ state \notin {"NEW", "SEND_CAN"} /\ state' = "NEW" /\ ret' = "TIMEOUT"
        /\ UNCHANGED <<packetNum, file>> /\ UNCHANGED packetSize
    BY <1>4 DEF SendNcg, SendPacketAck, SendPacketNak, SendByte, SendEotAck, WaitToSend,
       Return, counters, buffer
  <2>2. QED
    BY <1>3, <2>1
<1>5. CASE SendCan(0)
  <2>1. /\ state = "SEND_CAN" /\ state' \in {"SEND_CAN", "NEW"}
        /\ UNCHANGED <<packetNum, fileOffs, written>>
    BY <1>5 DEF SendCan, Return, counters, control, file
  <2>2. state' = "SEND_CAN" => ret' = ret
    BY <1>5 DEF SendCan, Return, control
  <2>3. TokenInv' /\ StartInv' /\ EndInv' /\ FrameInv' /\ WrittenIsTheFile'
    BY <1>1, <1>2, <2>1, <2>2 DEF TokenInv, StartInv, EndInv, FrameInv,
       WrittenIsTheFile, Carries, StartByte, Answered
  <2>4. StepInv'
    BY <1>1, <2>1 DEF StepInv, Same, Ahead, Waiting, Answered
  <2>5. QED
    BY <2>3, <2>4
<1>6. CASE RecvSoh("none", TRUE)
  <2>1. state = "RECV_SOH" /\ NoStart /\ UNCHANGED <<packetNum, packet, file>>
    BY <1>6 DEF RecvSoh, NoStart, Controls
  <2>2. CASE packetNum # 0
    BY <1>2, <1>3, <2>1, <2>2 DEF NoStart, SetError
  <2>3. CASE packetNum = 0 /\ state' = "NEW"
    BY <1>2, <1>3, <2>1, <2>3 DEF NoStart, SetState, Return
  <2>4. CASE packetNum = 0 /\ state' # "NEW"
    <3>1. state' = "SEND_NCG" /\ ret' = ret /\ UNCHANGED <<packetSize, fileOffs, written>>
      BY <2>1, <2>4 DEF NoStart, SetState, Return, file
    <3>2. ~Same
      BY <2>4 DEF Same, LinkTypeOK, Waiting
    <3>3. ~Answered(toSender)
      BY <2>1, <3>2 DEF StartInv, EndInv, StepInv, Ahead, LinkTypeOK, Waiting
    <3>4. TokenInv' /\ StartInv' /\ EndInv' /\ FrameInv' /\ WrittenIsTheFile'
      BY <1>1, <2>1, <3>1, <3>3 DEF TokenInv, StartInv, EndInv, FrameInv,
         WrittenIsTheFile, Carries, StartByte, Answered
    <3>5. Ahead => Ahead'
      BY <1>1, <2>1, <3>1 DEF Ahead, Buffered, StartByte, PayloadSize, Answered
    <3>6. QED
      BY <1>1, <2>1, <3>2, <3>4, <3>5 DEF StepInv, Waiting
  <2>5. QED
    BY <2>2, <2>3, <2>4
<1>7. ASSUME NEW h \in Headers, RecvPacketHeader(0, h, TRUE) PROVE StopAndWait'
  <2>1. ~HeaderComplete(0)
    BY <1>7 DEF RecvPacketHeader, HeaderComplete, IInv, StaysInPacket, HeaderSize
  <2>2. /\ state = "RECV_PACKET_HEADER" /\ CheckPacketTimeout
        /\ UNCHANGED <<packet, packetNum, file>>
    BY <1>7, <2>1 DEF RecvPacketHeader
  <2>3. CASE TimedOut(PACKET_TIMEOUT)
    BY <1>2, <1>3, <2>2, <2>3 DEF CheckPacketTimeout, SetError
  <2>4. CASE ~TimedOut(PACKET_TIMEOUT)
    BY <1>1, <2>2, <2>4, UnnoticedKeeps DEF CheckPacketTimeout, control, file
  <2>5. QED
    BY <2>3, <2>4
<1>8. ASSUME NEW p \in Payloads, RecvPacketData(0, p) PROVE StopAndWait'
  <2>1. packetOffs + 0 # packetSize
    BY <1>8, Sizes DEF RecvPacketData, IInv, StaysInPacket, TypeOK, BufferTypeOK,
       HeaderSize
  <2>2. /\ state = "RECV_PACKET_DATA" /\ CheckPacketTimeout
        /\ UNCHANGED <<packet, packetNum, file>>
    BY <1>8, <2>1 DEF RecvPacketData, counters
  <2>3. CASE TimedOut(PACKET_TIMEOUT)
    BY <1>2, <1>3, <2>2, <2>3 DEF CheckPacketTimeout, SetError
  <2>4. CASE ~TimedOut(PACKET_TIMEOUT)
    BY <1>1, <2>2, <2>4, UnnoticedKeeps DEF CheckPacketTimeout, control, file
  <2>5. QED
    BY <2>3, <2>4
<1>9. QED
  BY <1>4, <1>5, <1>6, <1>7, <1>8 DEF ReceiverIdles, Idle

-------------------------------------------------------------------------------
(* The specification *)

\* A sender and a receiver that are in step stay so unless the sender times out too soon.
LEMMA StopAndWaitKeeps ==
    ASSUME TInv, early = 0, early' = 0, [TransferNext]_allVars
    PROVE  StopAndWait'
<1>1. StopAndWait
  BY DEF TInv
<1>2. CASE ReceiverReads
  BY <1>1, <1>2, ReadStartKeeps, ReadHeaderKeeps, ReadDataKeeps DEF ReceiverReads
<1>3. CASE ReceiverAnswers \/ ReceiverIdles
  BY <1>1, <1>3, AnswersKeep, IdleKeeps
<1>4. CASE SenderStep
  BY <1>1, <1>4, HearKeeps, TimeoutKeeps DEF SenderStep
<1>5. CASE Time
  BY <1>1, <1>5, UnnoticedKeeps DEF Time, Tick, sender, link, counters, buffer, file
<1>6. CASE UNCHANGED allVars
  BY <1>1, <1>6, UnnoticedKeeps DEF allVars, receiver, vars, control, counters, buffer,
     file, sender, link
<1>7. QED
  BY <1>2, <1>3, <1>4, <1>5, <1>6 DEF TransferNext, ReceiverStep

\* How often the sender has timed out too soon is only counted up.
LEMMA EarlyGrows ==
    ASSUME LinkTypeOK, [TransferNext]_allVars, early' = 0
    PROVE  early = 0
<1>1. CASE UNCHANGED early
  BY <1>1
<1>2. CASE SenderTimeout
  BY <1>2 DEF SenderTimeout, LinkTypeOK
<1>3. ReceiverStep \/ HearControl \/ Time \/ UNCHANGED allVars => UNCHANGED early
  BY DEF ReceiverStep, ReceiverAnswers, ReceiverReads, ReceiverIdles, HearControl, Time,
     budget, allVars
<1>4. QED
  BY <1>1, <1>2, <1>3 DEF TransferNext, SenderStep

\* The invariant holds at first.
LEMMA InitTInv == TransferInit => TInv
<1> SUFFICES ASSUME TransferInit PROVE TInv
    OBVIOUS
<1>1. IInv
  BY InitIInv DEF TransferInit
<1>2. LinkTypeOK /\ MidFrame
  BY EmptySeq DEF TransferInit, Init, LinkTypeOK, MidFrame, Waiting
<1>3. StopAndWait
  BY Sizes DEF TransferInit, Init, StopAndWait, TokenInv, StartInv, EndInv, FrameInv,
     StepInv, Waiting, WrittenIsTheFile, Answered, OneAnswer, Has, Unwritten
<1>4. QED
  BY <1>1, <1>2, <1>3 DEF TInv

\* Every step preserves the invariant.
LEMMA NextTInv == TInv /\ [TransferNext]_allVars => TInv'
<1> SUFFICES ASSUME TInv, [TransferNext]_allVars PROVE TInv'
    OBVIOUS
<1>1. IInv'
  BY IsReceiverStep, NextIInv DEF TInv
<1>2. LinkTypeOK' /\ MidFrame'
  BY <1>1, LinkTypeInv DEF TInv
<1>3. early' = 0 => StopAndWait'
  BY EarlyGrows, StopAndWaitKeeps DEF TInv
<1>4. QED
  BY <1>1, <1>2, <1>3 DEF TInv

\* The invariant holds throughout a transfer.
LEMMA TransferInvariance == TransferSafely => []TInv
BY InitTInv, NextTInv, PTL DEF TransferSafely

\* With this sender and this link the receiver behaves as XmodemReceiver says, so that
\* everything proved of it there holds here.
THEOREM ReceiverInTransfer == TransferSafely => Safe
<1>1. TransferInit => Init
  BY DEF TransferInit
<1>2. TInv /\ [TransferNext]_allVars => [Next]_vars
  BY IsReceiverStep DEF TInv
<1>3. QED
  BY <1>1, <1>2, TransferInvariance, PTL DEF TransferSafely, Safe

\* Every byte written is the byte of the file that belongs there and has been verified,
\* whatever the link loses or damages, when the sender does not repeat itself too soon.
THEOREM OnlyVerifiedWritten == TransferSafely => []WrittenIsVerified
<1>1. TInv => WrittenIsVerified
  BY DEF TInv, StopAndWait, WrittenIsVerified
<1>2. QED
  BY <1>1, TransferInvariance, PTL

\* The sender is never ahead of the receiver by more than the packet on the link.
InStep ==
    early = 0 /\ state # "NEW" /\ Waiting => sendNum - packetNum \in {0, 1}

\* The sender and the receiver never disagree by more than the packet on the link.
THEOREM StaysInStep == TransferSafely => []InStep
<1>1. TInv => InStep
  BY DEF TInv, StopAndWait, StepInv, Same, Ahead, InStep, LinkTypeOK
<1>2. QED
  BY <1>1, TransferInvariance, PTL

\* The sender takes the file for delivered only when the receiver has reported DONE.
THEOREM SenderDoneMeansDone == TransferSafely => []EotAckMeansDone
<1>1. TInv => EotAckMeansDone
  BY DEF TInv, StopAndWait, EndInv, EotAckMeansDone
<1>2. QED
  BY <1>1, TransferInvariance, PTL

\* A transfer that either side takes for complete has put the file into the OTA partition,
\* every byte of it verified, when the sender does not repeat itself too soon.
THEOREM CompleteMeansTheFile ==
    TransferSafely =>
        [](early = 0 /\ (ret = "DONE" \/ sendState = "done") =>
               \A i \in 0 .. FileSize - 1 : written[i] = [data |-> i, ok |-> TRUE])
<1>1. TInv => (early = 0 /\ (ret = "DONE" \/ sendState = "done") =>
                   \A i \in 0 .. FileSize - 1 : written[i] = [data |-> i, ok |-> TRUE])
  <2> SUFFICES ASSUME TInv, early = 0, ret = "DONE" \/ sendState = "done"
               PROVE  \A i \in 0 .. FileSize - 1 : written[i] = [data |-> i, ok |-> TRUE]
    OBVIOUS
  <2>1. StopAndWait /\ ret = "DONE"
    BY DEF TInv, StopAndWait, EndInv
  <2>2. \A i \in 0 .. FileSize - 1 : written[i] # Unwritten
    BY <2>1 DEF TInv, IInv, TypeOK, FileTypeOK, WrittenIsPrefix, ResultInv
  <2>3. WrittenIsTheFile
    BY <2>1 DEF StopAndWait
  <2>4. QED
    BY <2>2, <2>3 DEF WrittenIsTheFile
<1>2. QED
  BY <1>1, TransferInvariance, PTL
===============================================================================
