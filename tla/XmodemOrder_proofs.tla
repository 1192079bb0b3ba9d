-------------------------- MODULE XmodemOrder_proofs --------------------------
(***************************************************************************)
(* Proof that every byte is written where it belongs although the sender   *)
(* may repeat itself too soon, as long as packet numbers can tell the      *)
(* packets apart that may then be on the way.                              *)
(***************************************************************************)
EXTENDS XmodemTransfer_proofs

-------------------------------------------------------------------------------
(* The inductive invariant *)

\* The receiver may still write to the file.
Live == state \notin {"NEW", "SEND_CAN", "SEND_EOT_ACK"}

\* o[k] is the offset of packet k, for the packets that the sender has come to.
Offsets(o) ==
    /\ o \in [Nat -> Nat] /\ o[1] = 0
    /\ \A k \in 1 .. sendNum - 1 : o[k + 1] = o[k] + PayloadSize(o[k])
    /\ sendNum > 0 => o[sendNum] = sendOffs

\* The frame is packet num, damaged or not, or EOT after the end of the file.
Shows(frame, num, offs) ==
    IF offs < FileSize THEN Carries(frame, num, offs) ELSE frame = Eot

\* ks[i] is the number, not cut to a byte, of the i-th frame on the link.
Numbered(o, ks) ==
    /\ ks \in [Nat -> Nat] /\ ks[0] = packetNum
    /\ \A i, j \in 0 .. Len(toReceiver) : i =< j => ks[i] =< ks[j]
    /\ ks[Len(toReceiver)] =< sendNum
    /\ \A i \in 1 .. Len(toReceiver) :
           ks[i] > 0 /\ Shows(toReceiver[i], ks[i], o[ks[i]])
    /\ state = "RECV_PACKET_DATA" => toReceiver # <<>> /\ ks[1] = packetNum

\* The packet in the receiver's buffer, which flush() will write, is packet packetNum.
Held(o) ==
    IF packetNum = 0 THEN fileOffs = 0 /\ packetSize = 0
    ELSE /\ fileOffs = o[packetNum]
         /\ packetSize = SizeOf(StartByte(fileOffs))
         /\ state # "RECV_PACKET_DATA" => packet \in Payloads /\ packet.data = fileOffs

\* c[i] counts at least the places of J up to i.
Credits(c, n, J) ==
    /\ c \in [Nat -> Int] /\ c[0] = 0
    /\ \A i, j \in 0 .. n : i =< j => c[i] =< c[j]
    /\ \A i \in 1 .. n : i \in J => c[i - 1] < c[i]

\* The frames that repeat the one before them or the packet in the buffer, and the answers
\* among the control bytes.
Again(ks) == {i \in Nat : i > 0 /\ ks[i] = ks[i - 1]}
AnswersIn(q) == {i \in 1 .. Len(q) : q[i] \in {"ACK", "NAK"}}
Due == IF state \in {"SEND_PACKET_ACK", "SEND_PACKET_NAK"} THEN 1 ELSE 0

\* Each answer on the way and each repetition, which will be answered like the packet that
\* it repeats, may take the sender one packet further ahead.  One of them is right; the
\* others come from timeouts that were too soon.
Bounded(ks, c, a) ==
    /\ Credits(c, Len(toReceiver), Again(ks))
    /\ Credits(a, Len(toSender), AnswersIn(toSender))
    /\ sendNum + c[Len(toReceiver)] + a[Len(toSender)] + Due =< packetNum + 1 + early

Tracked(o, ks, c, a) ==
    Offsets(o) /\ Numbered(o, ks) /\ Held(o) /\ Bounded(ks, c, a)

OInv ==
    /\ sendState = "start" => early = 0 /\ sendNum = 0
    /\ early < NumMod - 1 =>
         WrittenInOrder /\ (Live => \E o, ks, c, a : Tracked(o, ks, c, a))

-------------------------------------------------------------------------------
(* Numbers, queues and credits *)

\* Numbers less than NumMod apart stay different when they are cut to a byte.
LEMMA ResiduesDiffer ==
    ASSUME NEW m \in Nat, NEW n \in Nat, m =< n, n - m < NumMod, m % NumMod = n % NumMod
    PROVE  m = n
<1>1. NumMod \in Nat /\ NumMod > 1
  BY LimitsAssumption
<1> DEFINE x == m \div NumMod
           y == n \div NumMod
<1>2. /\ x \in Int /\ y \in Int
      /\ m = NumMod * x + (m % NumMod)
      /\ n = NumMod * y + (n % NumMod)
  BY <1>1
<1> HIDE DEF x, y
<1>3. m % NumMod \in Int
  BY <1>1
<1>4. NumMod * (y - x) = n - m
  BY <1>1, <1>2, <1>3
<1>5. PICK d \in Int : d = y - x
  BY <1>2
<1>6. NumMod * d = n - m
  BY <1>4, <1>5
<1>7. CASE d =< 0
  <2>1. NumMod * d =< 0
    BY <1>1, <1>7
  <2>2. QED
    BY <1>6, <2>1
<1>8. CASE d >= 1
  <2>1. NumMod * d >= NumMod
    BY <1>1, <1>8
  <2>2. QED
    BY <1>1, <1>6, <2>1
<1>9. QED
  BY <1>5, <1>7, <1>8

\* A queue and its head.
LEMMA QueueHead ==
    ASSUME NEW S, NEW q \in Seq(S), q # <<>>
    PROVE  /\ Len(q) \in Nat /\ Len(q) > 0 /\ 1 \in 1 .. Len(q)
           /\ Head(q) = q[1] /\ Head(q) \in S
           /\ Tail(q) \in Seq(S) /\ Len(Tail(q)) = Len(q) - 1
           /\ \A i \in 1 .. Len(q) - 1 : Tail(q)[i] = q[i + 1]
<1>1. Len(q) \in Nat /\ Len(q) # 0
  BY LenProperties, EmptySeq
<1>2. /\ Head(q) = q[1] /\ Head(q) \in S /\ Tail(q) \in Seq(S) /\ Len(Tail(q)) = Len(q) - 1
      /\ \A i \in 1 .. Len(Tail(q)) : Tail(q)[i] = q[i + 1]
  BY HeadTailProperties
<1>3. QED
  BY <1>1, <1>2

\* A queue and its new end.
LEMMA QueueEnd ==
    ASSUME NEW S, NEW q \in Seq(S), NEW e \in S
    PROVE  /\ Len(q) \in Nat /\ Append(q, e) \in Seq(S) /\ Len(Append(q, e)) = Len(q) + 1
           /\ \A i \in 1 .. Len(q) : Append(q, e)[i] = q[i]
           /\ Append(q, e)[Len(q) + 1] = e
BY AppendProperties, LenProperties

\* Nothing counted so far.
LEMMA CreditsSign ==
    ASSUME NEW c, NEW n \in Nat, NEW J, Credits(c, n, J)
    PROVE  c[n] \in Int /\ c[n] >= 0
<1>1. 0 \in 0 .. n /\ n \in 0 .. n /\ 0 =< n
  OBVIOUS
<1>2. QED
  BY <1>1 DEF Credits

\* What is counted depends on the places up to n.
LEMMA CreditsSame ==
    ASSUME NEW c, NEW n \in Nat, NEW J, NEW K, Credits(c, n, J),
           \A i \in 1 .. n : i \in K => i \in J
    PROVE  Credits(c, n, K)
BY DEF Credits

\* One more place, counted or not.
LEMMA CreditsAppend ==
    ASSUME NEW c, NEW n \in Nat, NEW J, NEW K, NEW d \in {0, 1}, Credits(c, n, J),
           \A i \in 1 .. n : i \in K => i \in J,
           n + 1 \in K => d = 1
    PROVE  \E e : Credits(e, n + 1, K) /\ e[n + 1] = c[n] + d
<1> DEFINE e == [i \in Nat |-> IF i = n + 1 THEN c[n] + d ELSE c[i]]
<1>1. c \in [Nat -> Int]
  BY DEF Credits
<1>2. e \in [Nat -> Int] /\ e[0] = 0 /\ e[n + 1] = c[n] + d
  BY <1>1 DEF Credits
<1>3. \A i \in 0 .. n : e[i] = c[i]
  OBVIOUS
<1> HIDE DEF e
<1>4. ASSUME NEW i \in 0 .. n + 1, NEW j \in 0 .. n + 1, i =< j PROVE e[i] =< e[j]
  <2>1. CASE j \in 0 .. n
    BY <1>3, <1>4, <2>1 DEF Credits
  <2>2. CASE j = n + 1 /\ i = n + 1
    BY <1>2, <2>2
  <2>3. CASE j = n + 1 /\ i \in 0 .. n
    <3>1. c[i] =< c[n] /\ e[i] = c[i] /\ c[i] \in Int /\ c[n] \in Int
      BY <1>1, <1>3, <2>3 DEF Credits
    <3>2. QED
      BY <1>2, <2>3, <3>1
  <2>4. QED
    BY <2>1, <2>2, <2>3
<1>5. ASSUME NEW i \in 1 .. n + 1, i \in K PROVE e[i - 1] < e[i]
  <2>1. CASE i = n + 1
    <3>1. e[i - 1] = c[n] /\ e[i] = c[n] + 1 /\ c[n] \in Int
      BY <1>1, <1>2, <1>3, <1>5, <2>1
    <3>2. QED
      BY <3>1
  <2>2. CASE i \in 1 .. n
    <3>1. e[i - 1] = c[i - 1] /\ e[i] = c[i] /\ i \in J
      BY <1>3, <1>5, <2>2
    <3>2. QED
      BY <2>2, <3>1 DEF Credits
  <2>3. QED
    BY <2>1, <2>2
<1>6. QED
  BY <1>2, <1>4, <1>5 DEF Credits

\* The first place goes, and with it what it was counted for.
LEMMA CreditsTail ==
    ASSUME NEW c, NEW n \in Nat, n > 0, NEW J, NEW K, Credits(c, n, J),
           \A i \in 1 .. n - 1 : i \in K => i + 1 \in J
    PROVE  \E e : /\ Credits(e, n - 1, K) /\ e[n - 1] =< c[n]
                  /\ 1 \in J => e[n - 1] =< c[n] - 1
<1> DEFINE e == [i \in Nat |-> c[i + 1] - c[1]]
<1>1. c \in [Nat -> Int] /\ c[0] = 0
  BY DEF Credits
<1>2. e \in [Nat -> Int] /\ e[0] = 0 /\ \A i \in Nat : e[i] = c[i + 1] - c[1]
  BY <1>1
<1> HIDE DEF e
<1>3. ASSUME NEW i \in 0 .. n - 1, NEW j \in 0 .. n - 1, i =< j PROVE e[i] =< e[j]
  <2>1. c[i + 1] =< c[j + 1] /\ c[i + 1] \in Int /\ c[j + 1] \in Int /\ c[1] \in Int
    BY <1>1, <1>3 DEF Credits
  <2>2. QED
    BY <1>2, <2>1
<1>4. ASSUME NEW i \in 1 .. n - 1, i \in K PROVE e[i - 1] < e[i]
  <2>1. i + 1 \in J /\ i + 1 \in 1 .. n /\ (i + 1) - 1 = i /\ (i - 1) + 1 = i
    BY <1>4
  <2>2. c[i] < c[i + 1]
    BY <2>1 DEF Credits
  <2>3. c[i] \in Int /\ c[i + 1] \in Int /\ c[1] \in Int
    BY <1>1
  <2>4. e[i - 1] = c[i] - c[1] /\ e[i] = c[i + 1] - c[1]
    BY <1>2, <2>1
  <2>5. QED
    BY <2>2, <2>3, <2>4
<1>5. e[n - 1] = c[n] - c[1] /\ c[n] \in Int /\ c[1] \in Int
  BY <1>1, <1>2
<1>6. c[1] >= 0
  <2>1. 0 \in 0 .. n /\ 1 \in 0 .. n
    OBVIOUS
  <2>2. QED
    BY <1>1, <2>1 DEF Credits
<1>7. 1 \in J => c[1] >= 1
  <2>1. 1 \in 1 .. n /\ 1 - 1 = 0
    OBVIOUS
  <2>2. 1 \in J => 0 < c[1]
    BY <1>1, <2>1 DEF Credits
  <2>3. QED
    BY <1>5, <2>2
<1>8. Credits(e, n - 1, K)
  BY <1>2, <1>3, <1>4 DEF Credits
<1>9. e[n - 1] =< c[n] /\ (1 \in J => e[n - 1] =< c[n] - 1)
  <2>1. PICK x \in Int, y \in Int : x = c[n] /\ y = c[1]
    BY <1>5
  <2>2. e[n - 1] = x - y /\ y >= 0 /\ (1 \in J => y >= 1)
    BY <1>5, <1>6, <1>7, <2>1
  <2>3. x - y =< x /\ (y >= 1 => x - y =< x - 1)
    BY <2>2
  <2>4. QED
    BY <2>1, <2>2, <2>3
<1>10. QED
  BY <1>8, <1>9

\* The first place is counted from now on.
LEMMA CreditsRaise ==
    ASSUME NEW c, NEW n \in Nat, n > 0, NEW J, NEW K, Credits(c, n, J),
           \A i \in 2 .. n : i \in K => i \in J
    PROVE  \E e : Credits(e, n, K) /\ e[n] = c[n] + 1
<1> DEFINE e == [i \in Nat |-> IF i = 0 THEN 0 ELSE c[i] + 1]
<1>1. c \in [Nat -> Int] /\ c[0] = 0
  BY DEF Credits
<1>2. e \in [Nat -> Int] /\ e[0] = 0 /\ \A i \in 1 .. n : e[i] = c[i] + 1
  BY <1>1
<1> HIDE DEF e
<1>3. \A i \in 0 .. n : c[i] \in Int /\ c[i] >= 0
  BY <1>1 DEF Credits
<1>4. ASSUME NEW i \in 0 .. n, NEW j \in 0 .. n, i =< j PROVE e[i] =< e[j]
  <2>1. CASE i = 0
    BY <1>2, <1>3, <2>1
  <2>2. CASE i # 0
    <3>1. c[i] =< c[j] /\ i \in 1 .. n /\ j \in 1 .. n
      BY <1>4, <2>2 DEF Credits
    <3>2. QED
      BY <1>2, <1>3, <3>1
  <2>3. QED
    BY <2>1, <2>2
<1>5. ASSUME NEW i \in 1 .. n, i \in K PROVE e[i - 1] < e[i]
  <2>1. CASE i = 1
    BY <1>2, <1>3, <2>1
  <2>2. CASE i # 1
    <3>1. c[i - 1] < c[i] /\ i - 1 \in 1 .. n
      BY <1>5, <2>2 DEF Credits
    <3>2. QED
      BY <1>2, <1>3, <3>1
  <2>3. QED
    BY <2>1, <2>2
<1>6. QED
  BY <1>2, <1>4, <1>5 DEF Credits

-------------------------------------------------------------------------------
(* The sender's steps *)

\* What is sent from an offset of the file shows where it is from.
LEMMA SentShows ==
    ASSUME NEW num \in Nat, NEW offs \in Nat, SendFrom(num, offs)
    PROVE  /\ sendNum' = num /\ sendOffs' = offs /\ sendState' \in {"packet", "eot"}
           /\ \/ toReceiver' = toReceiver
              \/ \E f \in Frames : Shows(f, num, offs) /\ toReceiver' = Append(toReceiver, f)
<1>1. CASE offs < FileSize
  <2> DEFINE f == Frame(num, offs, TRUE)
             g == [f EXCEPT !.ok = FALSE]
  <2>1. f \in Frames /\ Carries(f, num, offs)
    <3>1. offs \in 0 .. FileSize - 1
      BY <1>1, Sizes
    <3>2. QED
      BY <3>1, FrameType DEF Carries
  <2>2. g \in Frames /\ Carries(g, num, offs)
    <3> HIDE DEF f
    <3>1. g \in Frames /\ g.start = f.start /\ g.num = f.num /\ g.data = f.data
      BY <2>1 DEF Frames
    <3>2. QED
      BY <2>1, <3>1 DEF Carries
  <2>3. Put(TRUE, f) /\ sendNum' = num /\ sendOffs' = offs /\ sendState' = "packet"
    BY <1>1 DEF SendFrom
  <2>4. toReceiver' \in {toReceiver, Append(toReceiver, f), Append(toReceiver, g)}
    BY <2>3 DEF Put
  <2> HIDE DEF f, g
  <2>5. QED
    BY <1>1, <2>1, <2>2, <2>3, <2>4 DEF Shows
<1>2. CASE ~(offs < FileSize)
  <2>1. Put(FALSE, Eot) /\ sendNum' = num /\ sendOffs' = offs /\ sendState' = "eot"
    BY <1>2 DEF SendFrom
  <2>2. toReceiver' \in {toReceiver, Append(toReceiver, Eot)}
    BY <2>1 DEF Put
  <2>3. QED
    BY <1>2, <2>1, <2>2, FrameType DEF Shows
<1>3. QED
  BY <1>1, <1>2

\* The receiver is not ahead of the sender.
LEMMA NotAhead ==
    ASSUME LinkTypeOK, NEW o, NEW ks, Numbered(o, ks)
    PROVE  /\ Len(toReceiver) \in Nat /\ packetNum \in Nat /\ sendNum \in Nat
           /\ packetNum =< ks[Len(toReceiver)] /\ ks[Len(toReceiver)] \in Nat
           /\ ks[Len(toReceiver)] =< sendNum /\ packetNum =< sendNum
           /\ \A i \in 0 .. Len(toReceiver) : packetNum =< ks[i] /\ ks[i] =< sendNum
<1>1. Len(toReceiver) \in Nat /\ sendNum \in Nat /\ ks \in [Nat -> Nat] /\ ks[0] = packetNum
  BY LenProperties DEF LinkTypeOK, Numbered
<1>2. ks[Len(toReceiver)] =< sendNum
  BY DEF Numbered
<1>3. ASSUME NEW i \in 0 .. Len(toReceiver)
      PROVE  packetNum =< ks[i] /\ ks[i] =< sendNum /\ ks[i] \in Nat
  <2>1. 0 \in 0 .. Len(toReceiver) /\ 0 =< i
        /\ Len(toReceiver) \in 0 .. Len(toReceiver) /\ i =< Len(toReceiver)
    BY <1>1, <1>3
  <2>2. ks[0] =< ks[i] /\ ks[i] =< ks[Len(toReceiver)]
    BY <2>1 DEF Numbered
  <2>3. ks[i] \in Nat /\ ks[Len(toReceiver)] \in Nat
    BY <1>1, <2>1
  <2>4. QED
    BY <1>1, <1>2, <2>2, <2>3
<1>4. Len(toReceiver) \in 0 .. Len(toReceiver) /\ 0 \in 0 .. Len(toReceiver)
  BY <1>1
<1>5. packetNum \in Nat
  BY <1>1
<1>6. QED
  BY <1>1, <1>2, <1>3, <1>4, <1>5

\* The offset of the packet that is sent joins those of the packets before.
LEMMA OffsetsGrow ==
    ASSUME LinkTypeOK, NEW o, Offsets(o), NEW num \in Nat, num > 0, NEW offs \in Nat,
           \/ num = sendNum /\ offs = sendOffs
           \/ /\ num = sendNum + 1
              /\ offs = IF sendNum = 0 THEN 0 ELSE sendOffs + PayloadSize(sendOffs),
           sendNum' = num, sendOffs' = offs
    PROVE  \E p : Offsets(p)' /\ p[num] = offs /\ \A k \in 1 .. sendNum : p[k] = o[k]
<1>1. sendNum \in Nat /\ o \in [Nat -> Nat]
  BY DEF LinkTypeOK, Offsets
<1>2. CASE num = sendNum /\ offs = sendOffs
  BY <1>1, <1>2 DEF Offsets
<1>3. CASE num = sendNum + 1
           /\ offs = IF sendNum = 0 THEN 0 ELSE sendOffs + PayloadSize(sendOffs)
  <2> DEFINE p == [k \in Nat |-> IF k = num THEN offs ELSE o[k]]
  <2>1. p \in [Nat -> Nat] /\ p[num] = offs
    BY <1>1
  <2>2. \A k \in 1 .. sendNum : p[k] = o[k]
    BY <1>1, <1>3
  <2>3. p[1] = 0
    BY <1>1, <1>3 DEF Offsets
  <2> HIDE DEF p
  <2>4. ASSUME NEW k \in 1 .. num - 1 PROVE p[k + 1] = p[k] + PayloadSize(p[k])
    <3>1. CASE k = sendNum
      BY <1>1, <1>3, <2>1, <2>2, <3>1 DEF Offsets
    <3>2. CASE k # sendNum
      <4>1. k \in 1 .. sendNum - 1 /\ k \in 1 .. sendNum /\ k + 1 \in 1 .. sendNum
        BY <1>1, <1>3, <3>2
      <4>2. QED
        BY <2>2, <4>1 DEF Offsets
    <3>3. QED
      BY <3>1, <3>2
  <2>5. Offsets(p)'
    BY <2>1, <2>3, <2>4 DEF Offsets, PayloadSize, StartByte
  <2>6. QED
    BY <2>1, <2>2, <2>5
<1>4. QED
  BY <1>2, <1>3

\* The packet in the buffer is one that the sender has come to.
LEMMA HeldSame ==
    ASSUME LinkTypeOK, NEW o, NEW p, NEW ks, Numbered(o, ks), Held(o),
           \A k \in 1 .. sendNum : p[k] = o[k],
           UNCHANGED <<state, packetNum, fileOffs, packetSize, packet>>
    PROVE  Held(p)'
<1>1. packetNum # 0 => packetNum \in 1 .. sendNum
  BY NotAhead
<1>2. packetNum # 0 => p[packetNum] = o[packetNum]
  BY <1>1
<1>3. QED
  BY <1>2 DEF Held, StartByte

\* Sending keeps track of the frames, and counts a repetition.
LEMMA SendKeepsTrack ==
    ASSUME LinkTypeOK, NEW o, NEW ks, NEW c,
           Offsets(o), Numbered(o, ks), Held(o), Credits(c, Len(toReceiver), Again(ks)),
           NEW num \in Nat, num > 0, NEW offs \in Nat, SendFrom(num, offs),
           \/ num = sendNum /\ offs = sendOffs
           \/ /\ num = sendNum + 1
              /\ offs = IF sendNum = 0 THEN 0 ELSE sendOffs + PayloadSize(sendOffs),
           UNCHANGED <<state, packetNum, fileOffs, packetSize, packet>>
    PROVE  \E p, ms, e :
               /\ Offsets(p)' /\ Numbered(p, ms)' /\ Held(p)'
               /\ Credits(e, Len(toReceiver'), Again(ms))
               /\ e[Len(toReceiver')] =< c[Len(toReceiver)]
                                         + (IF num = ks[Len(toReceiver)] THEN 1 ELSE 0)
<1>0. PICK n \in Nat : n = Len(toReceiver)
  BY NotAhead
<1>1. /\ sendNum' = num /\ sendOffs' = offs
      /\ \/ toReceiver' = toReceiver
         \/ \E f \in Frames : Shows(f, num, offs) /\ toReceiver' = Append(toReceiver, f)
  BY SentShows
<1>2. PICK p : Offsets(p)' /\ p[num] = offs /\ \A k \in 1 .. sendNum : p[k] = o[k]
  BY <1>1, OffsetsGrow
<1>3. /\ n \in Nat /\ sendNum \in Nat /\ ks \in [Nat -> Nat] /\ sendNum =< num
      /\ ks[n] \in Nat /\ ks[n] =< sendNum
      /\ \A i \in 0 .. n : packetNum =< ks[i] /\ ks[i] =< sendNum
      /\ toReceiver \in Seq(Frames) /\ ks[0] = packetNum
  <2>1. ks \in [Nat -> Nat] /\ ks[0] = packetNum /\ toReceiver \in Seq(Frames)
    BY DEF Numbered, LinkTypeOK
  <2>2. sendNum \in Nat /\ sendNum =< num
    BY NotAhead
  <2>3. QED
    BY <1>0, <2>1, <2>2, NotAhead
<1>4. Held(p)'
  BY <1>2, HeldSame
<1>5. c \in [Nat -> Int] /\ c[n] \in Int
  BY <1>0, <1>3 DEF Credits
<1>6. ASSUME NEW i \in 1 .. n PROVE ks[i] > 0 /\ Shows(toReceiver[i], ks[i], p[ks[i]])
  <2>1. ks[i] > 0 /\ Shows(toReceiver[i], ks[i], o[ks[i]])
    BY <1>0 DEF Numbered
  <2>2. ks[i] \in 1 .. sendNum
    BY <1>3, <2>1
  <2>3. QED
    BY <1>2, <2>1, <2>2
<1>7. CASE toReceiver' = toReceiver
  <2>1. Numbered(p, ks)'
    <3>1. ks[n] =< sendNum'
      BY <1>1, <1>3
    <3>2. QED
      BY <1>0, <1>3, <1>6, <1>7, <3>1 DEF Numbered, Shows, Carries, StartByte
  <2>2. c[n] =< c[n] + (IF num = ks[n] THEN 1 ELSE 0)
    BY <1>5
  <2>3. QED
    BY <1>0, <1>2, <1>4, <1>7, <2>1, <2>2
<1>8. ASSUME NEW f \in Frames, Shows(f, num, offs), toReceiver' = Append(toReceiver, f)
      PROVE  \E ms, e :
               /\ Numbered(p, ms)'
               /\ Credits(e, Len(toReceiver'), Again(ms))
               /\ e[Len(toReceiver')] =< c[n] + (IF num = ks[n] THEN 1 ELSE 0)
  <2> DEFINE ms == [i \in Nat |-> IF i = n + 1 THEN num ELSE ks[i]]
  <2>1. /\ Len(toReceiver') = n + 1
        /\ \A i \in 1 .. n : toReceiver'[i] = toReceiver[i]
        /\ toReceiver'[n + 1] = f
    BY <1>0, <1>3, <1>8, QueueEnd
  <2>2. /\ ms \in [Nat -> Nat] /\ ms[n + 1] = num /\ \A i \in 0 .. n : ms[i] = ks[i]
        /\ ms[0] = packetNum
    <3>1. /\ ms \in [Nat -> Nat] /\ ms[n + 1] = num
          /\ \A i \in Nat : i # n + 1 => ms[i] = ks[i]
      <4>1. \A i \in Nat : (IF i = n + 1 THEN num ELSE ks[i]) \in Nat
        BY <1>3
      <4>2. n + 1 \in Nat
        OBVIOUS
      <4>3. QED
        BY <4>1, <4>2
    <3>2. \A i \in 0 .. n : i \in Nat /\ i # n + 1
      OBVIOUS
    <3>3. 0 \in 0 .. n
      OBVIOUS
    <3> HIDE DEF ms
    <3>4. QED
      BY <1>3, <3>1, <3>2, <3>3
  <2> HIDE DEF ms
  <2>3. ASSUME NEW i \in 0 .. n + 1, NEW j \in 0 .. n + 1, i =< j PROVE ms[i] =< ms[j]
    <3>1. CASE j \in 0 .. n
      <4>1. i \in 0 .. n
        BY <1>3, <2>3, <3>1
      <4>2. QED
        BY <1>0, <2>2, <2>3, <3>1, <4>1 DEF Numbered
    <3>2. CASE j = n + 1 /\ i \in 0 .. n
      <4>1. ms[i] \in Nat /\ ms[i] =< sendNum /\ ms[j] = num
        <5>1. ms[i] = ks[i] /\ ks[i] =< sendNum /\ ms[j] = num
          BY <1>3, <2>2, <3>2
        <5>2. i \in Nat
          BY <3>2
        <5>3. ks[i] \in Nat
          BY <1>3, <5>2
        <5>4. QED
          BY <5>1, <5>3
      <4>2. sendNum \in Nat /\ sendNum =< num
        BY <1>3
      <4>3. QED
        BY <4>1, <4>2
    <3>3. CASE j = n + 1 /\ i = n + 1
      BY <2>2, <3>3
    <3>4. QED
      BY <1>3, <2>3, <3>1, <3>2, <3>3
  <2>4. ASSUME NEW i \in 1 .. n + 1
        PROVE  ms[i] > 0 /\ Shows(toReceiver'[i], ms[i], p[ms[i]])
    <3>1. CASE i = n + 1
      BY <1>2, <1>8, <2>1, <2>2, <3>1
    <3>2. CASE i # n + 1
      <4>1. i \in 1 .. n /\ i \in 0 .. n
        BY <3>2
      <4>2. QED
        BY <1>6, <2>1, <2>2, <4>1
    <3>3. QED
      BY <3>1, <3>2
  <2>5. state = "RECV_PACKET_DATA" => toReceiver' # <<>> /\ ms[1] = packetNum
    <3>1. toReceiver' # <<>>
      BY <1>3, <2>1
    <3>2. ASSUME state = "RECV_PACKET_DATA" PROVE ms[1] = packetNum
      <4>1. toReceiver # <<>> /\ ks[1] = packetNum
        BY <3>2 DEF Numbered
      <4>2. 1 \in 0 .. n
        BY <1>0, <1>3, <4>1, EmptySeq
      <4>3. QED
        BY <2>2, <4>1, <4>2
    <3>3. QED
      BY <3>1, <3>2
  <2>6. Numbered(p, ms)'
    <3>1. ms[Len(toReceiver')] =< sendNum'
      <4>1. ms[n + 1] = num /\ sendNum' = num /\ Len(toReceiver') = n + 1
        BY <1>1, <2>1, <2>2
      <4>2. QED
        BY <4>1
    <3>2. QED
      BY <2>1, <2>2, <2>3, <2>4, <2>5, <3>1 DEF Numbered, Shows, Carries, StartByte
  <2>7. \A i \in 1 .. n : i \in Again(ms) => i \in Again(ks)
    <3>1. ASSUME NEW i \in 1 .. n, ms[i] = ms[i - 1] PROVE ks[i] = ks[i - 1]
      <4>1. i \in 0 .. n /\ i - 1 \in 0 .. n
        BY <1>3
      <4>2. QED
        BY <2>2, <3>1, <4>1
    <3>2. QED
      BY <3>1 DEF Again
  <2>8. n + 1 \in Again(ms) => num = ks[n]
    <3>1. (n + 1) - 1 = n /\ n \in 0 .. n
      BY <1>3
    <3>2. QED
      BY <2>2, <3>1 DEF Again
  <2>9. PICK d \in {0, 1} : d = IF num = ks[n] THEN 1 ELSE 0
    OBVIOUS
  <2>10. PICK e : Credits(e, n + 1, Again(ms)) /\ e[n + 1] = c[n] + d
    <3>1. Credits(c, n, Again(ks))
      BY <1>0
    <3>2. n + 1 \in Again(ms) => d = 1
      BY <2>8, <2>9
    <3>3. QED
      BY <2>7, <3>1, <3>2, CreditsAppend
  <2>11. e[n + 1] =< c[n] + (IF num = ks[n] THEN 1 ELSE 0)
    BY <1>5, <2>9, <2>10
  <2>12. QED
    BY <2>1, <2>6, <2>10, <2>11
<1>9. QED
  BY <1>0, <1>1, <1>2, <1>4, <1>7, <1>8

\* An answer that the sender hears is no longer on the way.
LEMMA HeardCredits ==
    ASSUME LinkTypeOK, toSender # <<>>, toSender' = Tail(toSender),
           NEW a, Credits(a, Len(toSender), AnswersIn(toSender))
    PROVE  \E b : /\ Credits(b, Len(toSender'), AnswersIn(toSender'))
                  /\ b[Len(toSender')] =< a[Len(toSender)]
                  /\ Head(toSender) \in {"ACK", "NAK"} =>
                       b[Len(toSender')] =< a[Len(toSender)] - 1
<1>1. /\ Len(toSender) \in Nat /\ Len(toSender) > 0 /\ 1 \in 1 .. Len(toSender)
      /\ Head(toSender) = toSender[1] /\ Len(toSender') = Len(toSender) - 1
      /\ \A i \in 1 .. Len(toSender) - 1 : toSender'[i] = toSender[i + 1]
  BY QueueHead DEF LinkTypeOK
<1>2. Head(toSender) \in {"ACK", "NAK"} => 1 \in AnswersIn(toSender)
  BY <1>1 DEF AnswersIn
<1>3. ASSUME NEW i \in 1 .. Len(toSender) - 1, i \in AnswersIn(toSender')
      PROVE  i + 1 \in AnswersIn(toSender)
  <2>1. toSender[i + 1] \in {"ACK", "NAK"}
    BY <1>1, <1>3 DEF AnswersIn
  <2>2. i + 1 \in 1 .. Len(toSender)
    BY <1>1
  <2>3. QED
    BY <2>1, <2>2 DEF AnswersIn
<1>4. PICK b : /\ Credits(b, Len(toSender) - 1, AnswersIn(toSender'))
               /\ b[Len(toSender) - 1] =< a[Len(toSender)]
               /\ 1 \in AnswersIn(toSender) =>
                    b[Len(toSender) - 1] =< a[Len(toSender)] - 1
  BY <1>1, <1>3, CreditsTail
<1>5. QED
  BY <1>1, <1>2, <1>4

\* The sum in Bounded.
LEMMA Sums ==
    ASSUME LinkTypeOK, NEW o, NEW ks, NEW c, NEW a, Numbered(o, ks), Bounded(ks, c, a)
    PROVE  /\ c[Len(toReceiver)] \in Int /\ c[Len(toReceiver)] >= 0
           /\ a[Len(toSender)] \in Int /\ a[Len(toSender)] >= 0
           /\ Due \in {0, 1} /\ early \in Nat /\ sendNum \in Nat /\ packetNum \in Nat
           /\ sendNum + c[Len(toReceiver)] + a[Len(toSender)] + Due =< packetNum + 1 + early
           /\ sendNum =< packetNum + 1 + early
<1>1. Len(toReceiver) \in Nat /\ Len(toSender) \in Nat /\ early \in Nat
  BY LenProperties DEF LinkTypeOK
<1>2. /\ c[Len(toReceiver)] \in Int /\ c[Len(toReceiver)] >= 0
      /\ a[Len(toSender)] \in Int /\ a[Len(toSender)] >= 0
  BY <1>1, CreditsSign DEF Bounded
<1>3. Due \in {0, 1}
  BY DEF Due
<1>4. sendNum \in Nat /\ packetNum \in Nat
  BY NotAhead
<1>5. sendNum + c[Len(toReceiver)] + a[Len(toSender)] + Due =< packetNum + 1 + early
  BY DEF Bounded
<1>6. ASSUME NEW s \in Nat, NEW x \in Int, NEW y \in Int, NEW d \in {0, 1}, NEW t \in Int,
             x >= 0, y >= 0, s + x + y + d =< t
      PROVE  s =< t
  BY <1>6
<1>7. packetNum + 1 + early \in Int
  BY <1>1, <1>4
<1>8. sendNum =< packetNum + 1 + early
  BY ONLY <1>2, <1>3, <1>4, <1>5, <1>6, <1>7
<1>9. QED
  BY <1>1, <1>2, <1>3, <1>4, <1>5, <1>8

\* A step of the sender, which sends and perhaps has heard an answer, keeps the sum.
LEMMA SendKeepsTracked ==
    ASSUME TInv, NEW o, NEW ks, NEW c, NEW a, Tracked(o, ks, c, a), early' \in Nat,
           NEW num \in Nat, num > 0, NEW offs \in Nat, SendFrom(num, offs),
           \/ num = sendNum /\ offs = sendOffs
           \/ /\ num = sendNum + 1
              /\ offs = IF sendNum = 0 THEN 0 ELSE sendOffs + PayloadSize(sendOffs),
           UNCHANGED <<state, packetNum, fileOffs, packetSize, packet>>,
           NEW b, Credits(b, Len(toSender'), AnswersIn(toSender')),
           num + c[Len(toReceiver)] + (IF num = ks[Len(toReceiver)] THEN 1 ELSE 0)
               + b[Len(toSender')] + Due =< packetNum + 1 + early',
           toSender' \in Seq(ControlBytes)
    PROVE  \E p, ms, e : Tracked(p, ms, e, b)'
<1>1. LinkTypeOK
  BY DEF TInv
<1>2. /\ Offsets(o) /\ Numbered(o, ks) /\ Held(o) /\ Bounded(ks, c, a)
      /\ Credits(c, Len(toReceiver), Again(ks))
  BY DEF Tracked, Bounded
<1>3. PICK p, ms, e :
               /\ Offsets(p)' /\ Numbered(p, ms)' /\ Held(p)'
               /\ Credits(e, Len(toReceiver'), Again(ms))
               /\ e[Len(toReceiver')] =< c[Len(toReceiver)]
                                         + (IF num = ks[Len(toReceiver)] THEN 1 ELSE 0)
  BY <1>1, <1>2, SendKeepsTrack
<1>4. c[Len(toReceiver)] \in Int /\ packetNum \in Nat
  BY <1>1, <1>2, Sums
<1>5. e[Len(toReceiver')] \in Int
  <2>1. toReceiver' \in Seq(Frames)
    <3>1. toReceiver \in Seq(Frames)
      BY <1>1 DEF LinkTypeOK
    <3>2. QED
      BY <3>1, SentShows, QueueEnd
  <2>2. Len(toReceiver') \in Nat
    BY <2>1, LenProperties
  <2>3. QED
    BY <1>3, <2>2, CreditsSign
<1>6. b[Len(toSender')] \in Int
  <2>1. Len(toSender') \in Nat
    BY LenProperties
  <2>2. QED
    BY <2>1, CreditsSign
<1>7. PICK d \in {0, 1} : d = IF num = ks[Len(toReceiver)] THEN 1 ELSE 0
  OBVIOUS
<1>8. PICK due \in {0, 1} : due = Due
  BY DEF Due
<1>9. num + e[Len(toReceiver')] + b[Len(toSender')] + due =< packetNum + 1 + early'
  <2>1. PICK x \in Int, y \in Int, z \in Int, t \in Int :
             /\ x = c[Len(toReceiver)] /\ y = e[Len(toReceiver')] /\ z = b[Len(toSender')]
             /\ t = packetNum + 1 + early'
    <3>1. packetNum + 1 + early' \in Int
      BY <1>4
    <3>2. c[Len(toReceiver)] \in Int
      BY <1>4
    <3>3. QED
      BY ONLY <1>5, <1>6, <3>1, <3>2
  <2>2. y =< x + d
    BY <1>3, <1>7, <2>1
  <2>3. num + x + d + z + due =< t
    BY <1>7, <1>8, <2>1
  <2>4. num + y + z + due =< t
    BY <2>2, <2>3
  <2>5. QED
    BY <2>1, <2>4
<1>10. sendNum' = num /\ Due' = due /\ packetNum' = packetNum
  BY <1>8, SentShows DEF Due
<1>11. Bounded(ms, e, b)'
  BY <1>3, <1>9, <1>10 DEF Bounded
<1>12. QED
  BY <1>3, <1>11 DEF Tracked

\* A step that leaves the sender, the frames and the buffer alone.
LEMMA QuietKeeps ==
    ASSUME NEW o, NEW ks, NEW c, NEW a, Tracked(o, ks, c, a),
           UNCHANGED <<sendNum, sendOffs, toReceiver, packetNum, fileOffs, packetSize>>,
           UNCHANGED <<packet, early>>,
           state = "RECV_PACKET_DATA" <=> state' = "RECV_PACKET_DATA",
           NEW b, Credits(b, Len(toSender'), AnswersIn(toSender')),
           sendNum + c[Len(toReceiver)] + b[Len(toSender')] + Due' =< packetNum + 1 + early
    PROVE  Tracked(o, ks, c, b)'
<1>1. Offsets(o)'
  BY DEF Tracked, Offsets, PayloadSize, StartByte
<1>2. Numbered(o, ks)'
  BY DEF Tracked, Numbered, Shows, Carries, StartByte
<1>3. Held(o)'
  BY DEF Tracked, Held, StartByte
<1>4. Bounded(ks, c, b)'
  BY DEF Tracked, Bounded
<1>5. QED
  BY <1>1, <1>2, <1>3, <1>4 DEF Tracked

\* What the sender hears keeps the order.
LEMMA HearKeepsOrder == ASSUME TInv, OInv, HearControl PROVE OInv'
<1> DEFINE ch == Head(toSender)
<1>1. /\ toSender # <<>> /\ toSender' = Tail(toSender) /\ LinkTypeOK /\ early \in Nat
      /\ UNCHANGED <<state, packetNum, fileOffs, packetSize, packet, written, early>>
  BY DEF HearControl, TInv, LinkTypeOK, receiver, vars, control, counters, buffer, file
<1>2. toSender' \in Seq(ControlBytes)
  BY <1>1, QueueHead DEF LinkTypeOK
<1>3. sendState' = "start" => early' = 0 /\ sendNum' = 0
  <2>1. ASSUME NEW num, NEW offs, SendFrom(num, offs) PROVE sendState' # "start"
    BY <2>1 DEF SendFrom
  <2>2. sendState' # "start" \/ UNCHANGED sender
    BY <2>1 DEF HearControl, Begin, Advance, Repeat, GiveUp, Ignore
  <2>3. QED
    BY <1>1, <2>2 DEF OInv, sender
<1>4. early < NumMod - 1 => WrittenInOrder'
  BY <1>1 DEF OInv, WrittenInOrder
<1>5. ASSUME NEW o, NEW ks, NEW c, NEW a, Tracked(o, ks, c, a), Live
      PROVE  \E p, ms, e, b : Tracked(p, ms, e, b)'
  <2>1. Offsets(o) /\ Numbered(o, ks) /\ Held(o) /\ Bounded(ks, c, a)
    BY <1>5 DEF Tracked
  <2>2. PICK b : /\ Credits(b, Len(toSender'), AnswersIn(toSender'))
                 /\ b[Len(toSender')] =< a[Len(toSender)]
                 /\ ch \in {"ACK", "NAK"} => b[Len(toSender')] =< a[Len(toSender)] - 1
    BY <1>1, <2>1, HeardCredits DEF Bounded
  <2>3. /\ c[Len(toReceiver)] \in Int /\ c[Len(toReceiver)] >= 0
        /\ a[Len(toSender)] \in Int /\ a[Len(toSender)] >= 0
        /\ Due \in {0, 1} /\ sendNum \in Nat /\ packetNum \in Nat
        /\ sendNum + c[Len(toReceiver)] + a[Len(toSender)] + Due =< packetNum + 1 + early
    BY <1>1, <2>1, Sums
  <2>4. b[Len(toSender')] \in Int
    <3>1. Len(toSender') \in Nat
      BY <1>2, LenProperties
    <3>2. QED
      BY <2>2, <3>1, CreditsSign
  <2>5. ks[Len(toReceiver)] \in Nat /\ ks[Len(toReceiver)] =< sendNum
    BY <1>1, <2>1, NotAhead
  <2>6. PICK x \in Int, y \in Int, z \in Int, d \in {0, 1} :
             /\ x = c[Len(toReceiver)] /\ y = a[Len(toSender)]
             /\ z = b[Len(toSender')] /\ d = Due
    BY <2>3, <2>4
  <2>7. /\ sendNum + x + y + d =< packetNum + 1 + early /\ z =< y
        /\ ch \in {"ACK", "NAK"} => z =< y - 1
    BY <2>2, <2>3, <2>6
  <2>8. CASE Begin(ch)
    <3>1. /\ sendState = "start" /\ early = 0 /\ sendNum = 0 /\ SendFrom(1, 0)
      BY <2>8 DEF Begin, OInv
    <3>2. /\ packetNum = 0 /\ toReceiver = <<>> /\ ~Answered(toSender)
          /\ state \in {"SEND_NCG", "RECV_SOH"}
      BY <1>5, <3>1 DEF TInv, StopAndWait, StartInv, Live
    <3>3. PICK zero : zero = [i \in Nat |-> 0]
      OBVIOUS
    <3>4. AnswersIn(toSender') = {}
      <4>1. toSender \in Seq(ControlBytes) /\ \A i \in 1 .. Len(toSender) - 1 :
                 i + 1 \in 1 .. Len(toSender) /\ toSender'[i] = toSender[i + 1]
        BY <1>1, QueueHead DEF LinkTypeOK
      <4>2. Len(toSender') = Len(toSender) - 1
        BY <1>1, QueueHead DEF LinkTypeOK
      <4>3. QED
        BY <3>2, <4>1, <4>2 DEF AnswersIn, Answered, Has
    <3>5. Credits(zero, Len(toSender'), AnswersIn(toSender')) /\ zero[Len(toSender')] = 0
      <4>1. Len(toSender') \in Nat
        BY <1>2, LenProperties
      <4>2. QED
        BY <3>3, <3>4, <4>1 DEF Credits
    <3>6. Len(toReceiver) = 0 /\ ks[0] = 0 /\ c[0] = 0
      BY <2>1, <3>2 DEF Numbered, Bounded, Credits
    <3>7. Due = 0
      BY <3>2 DEF Due
    <3>8. 1 + c[Len(toReceiver)] + (IF 1 = ks[Len(toReceiver)] THEN 1 ELSE 0)
            + zero[Len(toSender')] + Due =< packetNum + 1 + early'
      BY <1>1, <3>1, <3>2, <3>5, <3>6, <3>7
    <3>9. /\ \/ 1 = sendNum /\ 0 = sendOffs
             \/ /\ 1 = sendNum + 1
                /\ 0 = IF sendNum = 0 THEN 0 ELSE sendOffs + PayloadSize(sendOffs)
          /\ 1 \in Nat /\ 1 > 0 /\ 0 \in Nat /\ early' \in Nat
      BY <1>1, <3>1
    <3>10. \E p, ms, e : Tracked(p, ms, e, zero)'
      BY <1>1, <1>2, <1>5, <3>1, <3>5, <3>8, <3>9, SendKeepsTracked
    <3>11. QED
      BY <3>10
  <2>9. ASSUME ch = "ACK", sendState = "packet",
               SendFrom(sendNum + 1, sendOffs + PayloadSize(sendOffs))
        PROVE  \E p, ms, e : Tracked(p, ms, e, b)'
    <3>1. sendNum \in Nat /\ sendNum > 0 /\ sendOffs \in Nat
      BY <1>1, <2>9 DEF LinkTypeOK, Waiting
    <3>2. sendNum + 1 \in Nat /\ sendNum + 1 > 0 /\ sendOffs + PayloadSize(sendOffs) \in Nat
          /\ sendNum + 1 # ks[Len(toReceiver)] /\ early' \in Nat
      BY <1>1, <2>5, <3>1, PacketSizeFacts, Sizes
    <3>3. sendNum + 1 + x + 0 + z + d =< packetNum + 1 + early
      BY <1>1, <2>3, <2>7, <2>9
    <3>4. sendNum + 1 + c[Len(toReceiver)]
            + (IF sendNum + 1 = ks[Len(toReceiver)] THEN 1 ELSE 0)
            + b[Len(toSender')] + Due =< packetNum + 1 + early'
      BY <1>1, <2>6, <3>2, <3>3
    <3>5. \/ sendNum + 1 = sendNum /\ sendOffs + PayloadSize(sendOffs) = sendOffs
          \/ /\ sendNum + 1 = sendNum + 1
             /\ sendOffs + PayloadSize(sendOffs)
                  = IF sendNum = 0 THEN 0 ELSE sendOffs + PayloadSize(sendOffs)
      BY <3>1
    <3>6. QED
      BY <1>1, <1>2, <1>5, <2>2, <2>9, <3>2, <3>4, <3>5, SendKeepsTracked
  <2>10. CASE Repeat(ch)
    <3>1. /\ sendNum \in Nat /\ sendNum > 0 /\ sendOffs \in Nat /\ early' \in Nat
          /\ SendFrom(sendNum, sendOffs) /\ ch = "NAK"
      BY <1>1, <2>10 DEF Repeat, LinkTypeOK
    <3>2. PICK k \in {0, 1} : k = IF sendNum = ks[Len(toReceiver)] THEN 1 ELSE 0
      OBVIOUS
    <3>3. sendNum + x + k + z + d =< packetNum + 1 + early
      BY <1>1, <2>3, <2>7, <3>1
    <3>4. sendNum + c[Len(toReceiver)] + (IF sendNum = ks[Len(toReceiver)] THEN 1 ELSE 0)
            + b[Len(toSender')] + Due =< packetNum + 1 + early'
      BY <1>1, <2>6, <3>2, <3>3
    <3>5. \E p, ms, e : Tracked(p, ms, e, b)'
      BY <1>1, <1>2, <1>5, <2>2, <3>1, <3>4, SendKeepsTracked
    <3>6. QED
      BY <3>5
  <2>11. ASSUME UNCHANGED <<sendNum, sendOffs, toReceiver>>
         PROVE  Tracked(o, ks, c, b)'
    <3>1. sendNum + x + z + d =< packetNum + 1 + early
      BY <1>1, <2>3, <2>7
    <3>2. Due' = Due
      BY <1>1 DEF Due
    <3>3. sendNum + c[Len(toReceiver)] + b[Len(toSender')] + Due' =< packetNum + 1 + early
      BY <2>6, <3>1, <3>2
    <3>4. QED
      BY <1>1, <1>5, <2>2, <2>11, <3>3, QuietKeeps
  <2>12. QED
    <3>1. CASE Advance(ch)
      BY <2>9, <2>11, <3>1 DEF Advance
    <3>2. CASE GiveUp(ch) \/ Ignore(ch)
      BY <2>11, <3>2 DEF GiveUp, Ignore, sender
    <3>3. QED
      BY <2>8, <2>10, <3>1, <3>2 DEF HearControl
<1>6. Live' => Live
  BY <1>1 DEF Live
<1>7. QED
  BY <1>1, <1>3, <1>4, <1>5, <1>6 DEF OInv

\* So does a timeout of the sender, which adds a repetition, or the one that is missing.
LEMMA TimeoutKeepsOrder == ASSUME TInv, OInv, SenderTimeout PROVE OInv'
<1>1. /\ Waiting /\ toSender' = toSender /\ LinkTypeOK /\ early \in Nat /\ early' \in Nat
      /\ early =< early' /\ SendFrom(sendNum, sendOffs)
      /\ UNCHANGED <<state, packetNum, fileOffs, packetSize, packet, written>>
  BY DEF SenderTimeout, TInv, LinkTypeOK, receiver, vars, control, counters, buffer, file
<1>2. sendNum \in Nat /\ sendNum > 0 /\ sendOffs \in Nat
  BY <1>1 DEF LinkTypeOK
<1>3. sendState' # "start"
  BY <1>1, <1>2, SentShows
<1>4. early' < NumMod - 1 => early < NumMod - 1
  BY <1>1, LimitsAssumption
<1>5. early' < NumMod - 1 => WrittenInOrder'
  BY <1>1, <1>4 DEF OInv, WrittenInOrder
<1>6. ASSUME NEW o, NEW ks, NEW c, NEW a, Tracked(o, ks, c, a)
      PROVE  \E p, ms, e, b : Tracked(p, ms, e, b)'
  <2>1. Offsets(o) /\ Numbered(o, ks) /\ Held(o) /\ Bounded(ks, c, a)
    BY <1>6 DEF Tracked
  <2>2. Credits(a, Len(toSender'), AnswersIn(toSender')) /\ toSender' \in Seq(ControlBytes)
    BY <1>1, <2>1 DEF Bounded, LinkTypeOK
  <2>3. /\ c[Len(toReceiver)] \in Int /\ c[Len(toReceiver)] >= 0
        /\ a[Len(toSender)] \in Int /\ a[Len(toSender)] >= 0
        /\ Due \in {0, 1} /\ sendNum \in Nat /\ packetNum \in Nat
        /\ sendNum + c[Len(toReceiver)] + a[Len(toSender)] + Due =< packetNum + 1 + early
    BY <1>1, <2>1, Sums
  <2>4. PICK x \in Int, y \in Int, d \in {0, 1}, k \in {0, 1} :
             /\ x = c[Len(toReceiver)] /\ y = a[Len(toSender')] /\ d = Due
             /\ k = IF sendNum = ks[Len(toReceiver)] THEN 1 ELSE 0
    BY <1>1, <2>3
  <2>5. sendNum + x + k + y + d =< packetNum + 1 + early'
    <3>1. sendNum + x + y + d =< packetNum + 1 + early
      BY <1>1, <2>3, <2>4
    <3>2. CASE early' = early + 1
      BY <1>1, <1>2, <2>3, <3>1, <3>2
    <3>3. CASE NothingInFlight /\ UNCHANGED early
      <4>1. toReceiver = <<>> /\ toSender = <<>> /\ state \in {"RECV_SOH", "NEW"}
        BY <3>3 DEF NothingInFlight, link
      <4>2. x = 0 /\ y = 0 /\ ks[Len(toReceiver)] = packetNum
        BY <1>1, <2>1, <2>4, <4>1 DEF Bounded, Credits, Numbered
      <4>3. d = 0
        BY <2>4, <4>1 DEF Due
      <4>4. k = IF sendNum = packetNum THEN 1 ELSE 0
        BY <2>4, <4>2
      <4>5. QED
        BY <1>1, <1>2, <2>3, <3>1, <3>3, <4>2, <4>3, <4>4
    <3>4. QED
      BY <3>2, <3>3 DEF SenderTimeout
  <2>6. sendNum + c[Len(toReceiver)] + (IF sendNum = ks[Len(toReceiver)] THEN 1 ELSE 0)
          + a[Len(toSender')] + Due =< packetNum + 1 + early'
    BY <2>4, <2>5
  <2>7. \E p, ms, e : Tracked(p, ms, e, a)'
    BY <1>1, <1>2, <1>6, <2>2, <2>6, SendKeepsTracked
  <2>8. QED
    BY <2>7
<1>7. Live' => Live
  BY <1>1 DEF Live
<1>8. QED
  BY <1>3, <1>4, <1>5, <1>6, <1>7 DEF OInv


-------------------------------------------------------------------------------
(* The receiver's steps *)

\* flush() writes the packet in the buffer to where it belongs.
LEMMA FlushHeld ==
    ASSUME TInv, WrittenInOrder, NEW o, Held(o), Flush,
           state \in {"RECV_SOH", "RECV_PACKET_HEADER"}
    PROVE  /\ WrittenInOrder'
           /\ packetNum = 0 => fileOffs' = 0
           /\ packetNum # 0 /\ fileOffs + PayloadSize(fileOffs) < FileSize =>
                fileOffs' = fileOffs + PayloadSize(fileOffs)
<1> USE DEF TInv, IInv, TypeOK
<1>1. fileOffs \in 0 .. FileSize /\ FileSize \in Nat /\ FileSize > 0
  BY Sizes DEF FileTypeOK
<1>2. CASE packetNum = 0
  <2>1. FlushSize = 0 /\ fileOffs = 0
    BY <1>2 DEF Held, FlushSize
  <2>2. fileOffs' = 0 /\ written' = written
    BY <1>1, <2>1 DEF Flush, FileTypeOK
  <2>3. QED
    BY <1>2, <2>2 DEF WrittenInOrder
<1>3. CASE packetNum # 0
  <2>1. /\ packetSize = PayloadSize(fileOffs) + Overhead /\ PayloadSize(fileOffs) \in Nat
        /\ packet \in Payloads /\ packet.data = fileOffs
    BY <1>1, <1>3, PacketSizeFacts, Sizes DEF Held
  <2>2. packetSize # 0 /\ packetSize - Overhead = PayloadSize(fileOffs)
    BY <2>1 DEF Overhead, HeaderSize, CrcSize
  <2>3. FlushSize = IF FileSize - fileOffs < PayloadSize(fileOffs) THEN FileSize - fileOffs
                    ELSE PayloadSize(fileOffs)
    BY <2>2 DEF FlushSize
  <2>4. /\ FlushSize \in Nat
        /\ fileOffs + PayloadSize(fileOffs) < FileSize =>
             fileOffs' = fileOffs + PayloadSize(fileOffs)
    BY <1>1, <2>1, <2>3 DEF Flush
  <2>5. packet # NoPacket
    BY <2>1, DataAssumption DEF Payloads
  <2>6. ASSUME NEW i \in 0 .. FileSize - 1, written'[i] # Unwritten
        PROVE  written'[i].data = i
    <3>1. CASE i \in fileOffs .. (fileOffs + FlushSize - 1)
      <4>1. written'[i] = PayloadByte(i - fileOffs)
        BY <3>1 DEF Flush, FileTypeOK
      <4>2. PayloadByte(i - fileOffs).data = fileOffs + (i - fileOffs)
        BY <2>1, <2>5 DEF PayloadByte
      <4>3. fileOffs + (i - fileOffs) = i
        BY <1>1
      <4>4. QED
        BY <4>1, <4>2, <4>3
    <3>2. CASE i \notin fileOffs .. (fileOffs + FlushSize - 1)
      <4>1. written'[i] = written[i]
        BY <3>2 DEF Flush, FileTypeOK
      <4>2. QED
        BY <2>6, <4>1 DEF WrittenInOrder
    <3>3. QED
      BY <3>1, <3>2
  <2>7. QED
    BY <1>3, <2>4, <2>6 DEF WrittenInOrder
<1>4. QED
  BY <1>2, <1>3

\* An answer that is due becomes an answer on the way, or is lost.
LEMMA AnswerKeepsTracked ==
    ASSUME LinkTypeOK, NEW o, NEW ks, NEW c, NEW a, Tracked(o, ks, c, a),
           NEW ch \in ControlBytes, Answer(ch), state' = "RECV_SOH",
           state \in {"SEND_NCG", "SEND_PACKET_ACK", "SEND_PACKET_NAK"},
           ch \in {"ACK", "NAK"} => state # "SEND_NCG",
           UNCHANGED <<sendNum, sendOffs, packetNum, fileOffs, packetSize>>,
           UNCHANGED <<packet, early>>
    PROVE  \E b : Tracked(o, ks, c, b)'
<1>1. Numbered(o, ks) /\ Bounded(ks, c, a)
  BY DEF Tracked
<1>2. /\ c[Len(toReceiver)] \in Int /\ a[Len(toSender)] \in Int
      /\ sendNum \in Nat /\ packetNum \in Nat /\ early \in Nat
      /\ sendNum + c[Len(toReceiver)] + a[Len(toSender)] + Due =< packetNum + 1 + early
  BY <1>1, Sums
<1>3. PICK d \in {0, 1} : d = IF ch \in {"ACK", "NAK"} THEN 1 ELSE 0
  OBVIOUS
<1>4. d =< Due /\ Due' = 0 /\ Due \in {0, 1}
  BY <1>3 DEF Due
<1>5. PICK b : /\ Credits(b, Len(toSender'), AnswersIn(toSender'))
               /\ b[Len(toSender')] \in Int /\ b[Len(toSender')] =< a[Len(toSender)] + d
  <2>1. toSender \in Seq(ControlBytes) /\ Len(toSender) \in Nat
    BY LenProperties DEF LinkTypeOK
  <2>2. Credits(a, Len(toSender), AnswersIn(toSender))
    BY <1>1 DEF Bounded
  <2>3. CASE toSender' = toSender
    <3>1. a[Len(toSender)] =< a[Len(toSender)] + d
      BY <1>2
    <3>2. QED
      BY <1>2, <2>2, <2>3, <3>1
  <2>4. CASE toSender' = Append(toSender, ch)
    <3>1. /\ Len(toSender') = Len(toSender) + 1 /\ toSender'[Len(toSender) + 1] = ch
          /\ \A i \in 1 .. Len(toSender) : toSender'[i] = toSender[i]
      BY <2>1, <2>4, QueueEnd
    <3>2. \A i \in 1 .. Len(toSender) :
               i \in AnswersIn(toSender') => i \in AnswersIn(toSender)
      BY <3>1 DEF AnswersIn
    <3>3. Len(toSender) + 1 \in AnswersIn(toSender') => d = 1
      BY <1>3, <3>1 DEF AnswersIn
    <3>4. PICK e : /\ Credits(e, Len(toSender) + 1, AnswersIn(toSender'))
                   /\ e[Len(toSender) + 1] = a[Len(toSender)] + d
      BY <2>1, <2>2, <3>2, <3>3, CreditsAppend
    <3>5. e[Len(toSender')] \in Int /\ e[Len(toSender')] =< a[Len(toSender)] + d
      BY <1>2, <3>1, <3>4
    <3>6. QED
      BY <3>1, <3>4, <3>5
  <2>5. QED
    BY <2>3, <2>4 DEF Answer
<1>6. sendNum + c[Len(toReceiver)] + b[Len(toSender')] + Due' =< packetNum + 1 + early
  <2>1. PICK x \in Int, y \in Int, z \in Int, due \in {0, 1} :
             /\ x = c[Len(toReceiver)] /\ y = a[Len(toSender)] /\ z = b[Len(toSender')]
             /\ due = Due
    BY <1>2, <1>4, <1>5
  <2>2. sendNum + x + y + due =< packetNum + 1 + early /\ z =< y + d /\ d =< due
    BY <1>2, <1>4, <1>5, <2>1
  <2>3. sendNum + x + z + 0 =< packetNum + 1 + early
    BY <1>2, <2>2
  <2>4. QED
    BY <1>4, <2>1, <2>3
<1>7. toReceiver' = toReceiver
  BY DEF Answer
<1>8. QED
  BY <1>5, <1>6, <1>7, QuietKeeps

\* The receiver's answers keep the order.
LEMMA AnswersKeepOrder == ASSUME TInv, OInv, ReceiverAnswers PROVE OInv'
<1>1. /\ UNCHANGED <<sendState, sendNum, sendOffs, early, written>> /\ LinkTypeOK
  BY DEF ReceiverAnswers, sender, TInv, SendNcg, SendPacketAck, SendPacketNak, SendByte,
     SendEotAck, SendCan, file
<1>2. early < NumMod - 1 => WrittenInOrder'
  BY <1>1 DEF OInv, WrittenInOrder
<1>3. ASSUME NEW ch \in ControlBytes, Answer(ch),
             SendNcg(1) \/ SendPacketAck(1) \/ SendPacketNak(1),
             ch \in {"ACK", "NAK"} => state # "SEND_NCG"
      PROVE  OInv'
  <2>1. /\ state \in {"SEND_NCG", "SEND_PACKET_ACK", "SEND_PACKET_NAK"}
        /\ state' = "RECV_SOH" /\ UNCHANGED <<packetNum, fileOffs, packetSize, packet>>
    BY <1>3 DEF SendNcg, SendPacketAck, SendPacketNak, SendByte, SetState, counters,
       buffer, file
  <2>2. ASSUME NEW o, NEW ks, NEW c, NEW a, Tracked(o, ks, c, a)
        PROVE  \E p, ms, e, b : Tracked(p, ms, e, b)'
    BY <1>1, <1>3, <2>1, <2>2, AnswerKeepsTracked
  <2>3. Live
    BY <2>1 DEF Live
  <2>4. QED
    BY <1>1, <1>2, <2>2, <2>3 DEF OInv
<1>4. CASE SendEotAck(1) \/ SendCan(SEND_CAN_COUNT - packetOffs)
  <2>1. ~Live'
    BY <1>4 DEF Live, SendEotAck, SendCan, Return, WaitToSend, control
  <2>2. QED
    BY <1>1, <1>2, <2>1 DEF OInv
<1>5. SendPacketAck(1) \/ SendPacketNak(1) => state # "SEND_NCG"
  BY DEF SendPacketAck, SendPacketNak, SendByte
<1>6. QED
  BY <1>3, <1>4, <1>5 DEF ReceiverAnswers, ControlBytes

\* recvSoh() flushes the last packet when it reads EOT.
LEMMA ReadStartKeepsOrder ==
    ASSUME TInv, OInv, ReceiverReads, RecvSoh(Head(toReceiver).start, TRUE)
    PROVE  OInv'
<1> DEFINE f == Head(toReceiver)
<1>1. /\ state = "RECV_SOH" /\ toReceiver # <<>> /\ f \in Frames
      /\ UNCHANGED <<sendState, sendNum, sendOffs, toSender, early>>
  BY HeadIsFrame DEF RecvSoh, ReceiverReads, TInv, sender, budget
<1>2. CASE f.start = "EOT"
  <2>1. RecvEot(TRUE)
    BY <1>2 DEF RecvSoh, Controls
  <2>2. Flush /\ state' \in {"SEND_CAN", "SEND_EOT_ACK"}
    BY <2>1 DEF RecvEot, FlushFails, SetError, SetState
  <2>3. ASSUME early < NumMod - 1 PROVE WrittenInOrder'
    <3>1. Live
      BY <1>1 DEF Live
    <3>2. PICK o, ks, c, a : Tracked(o, ks, c, a)
      BY <2>3, <3>1 DEF OInv
    <3>3. WrittenInOrder /\ Held(o)
      BY <2>3, <3>2 DEF OInv, Tracked
    <3>4. QED
      BY <1>1, <2>2, <3>3, FlushHeld
  <2>4. ~Live'
    BY <2>2 DEF Live
  <2>5. QED
    BY <1>1, <2>3, <2>4 DEF OInv
<1>3. CASE f.start # "EOT"
  <2>1. /\ toReceiver' = toReceiver
        /\ UNCHANGED <<packet, fileOffs, written, packetNum>>
        /\ \/ state' = "SEND_CAN"
           \/ state' = "RECV_PACKET_HEADER" /\ UNCHANGED packetSize
    <3>1. RecvStart(f.start) /\ UNCHANGED packetNum
      BY <1>1, <1>3 DEF RecvSoh, Frames
    <3>2. f # Eot
      BY <1>3 DEF Eot
    <3>3. QED
      BY <1>1, <3>1, <3>2 DEF ReceiverReads, RecvStart, SetError, SetStateKeepTimer, file
  <2>2. early < NumMod - 1 => WrittenInOrder'
    BY <2>1 DEF OInv, WrittenInOrder
  <2>3. CASE state' = "SEND_CAN"
    BY <1>1, <2>2, <2>3 DEF OInv, Live
  <2>4. CASE state' = "RECV_PACKET_HEADER" /\ UNCHANGED packetSize
    <3>1. Live /\ Due' = Due
      BY <1>1, <2>4 DEF Live, Due
    <3>2. ASSUME NEW o, NEW ks, NEW c, NEW a, Tracked(o, ks, c, a)
          PROVE  Tracked(o, ks, c, a)'
      <4>1. /\ Credits(a, Len(toSender'), AnswersIn(toSender'))
            /\ sendNum + c[Len(toReceiver)] + a[Len(toSender')] + Due'
                 =< packetNum + 1 + early
        BY <1>1, <3>1, <3>2 DEF Tracked, Bounded
      <4>2. QED
        BY <1>1, <2>1, <2>4, <3>2, <4>1, QuietKeeps
    <3>3. QED
      BY <1>1, <2>2, <3>1, <3>2 DEF OInv
  <2>5. QED
    BY <2>1, <2>3, <2>4
<1>4. QED
  BY <1>2, <1>3

\* What the number of the frame at the head of the link tells recvPacketHeader().
LEMMA HeadNumber ==
    ASSUME TInv, early < NumMod - 1, state = "RECV_PACKET_HEADER",
           NEW o, NEW ks, NEW c, NEW a, Tracked(o, ks, c, a),
           NEW h, h.num = Head(toReceiver).num
    PROVE  /\ toReceiver # <<>> /\ ks[1] \in Nat /\ ks[1] > 0 /\ ks[1] =< sendNum
           /\ o[ks[1]] < FileSize /\ Carries(Head(toReceiver), ks[1], o[ks[1]])
           /\ start = StartByte(o[ks[1]])
           /\ IsDuplicate(h) => ks[1] = packetNum
           /\ IsSuccessor(h) => ks[1] = packetNum + 1
<1>1. /\ LinkTypeOK /\ toReceiver # <<>> /\ start = Head(toReceiver).start /\ start # "EOT"
      /\ Numbered(o, ks) /\ Bounded(ks, c, a)
  BY DEF TInv, MidFrame, Tracked
<1>2. toReceiver \in Seq(Frames) /\ ks \in [Nat -> Nat]
  BY <1>1 DEF LinkTypeOK, Numbered
<1>3. /\ Head(toReceiver) = toReceiver[1]
      /\ 1 \in 1 .. Len(toReceiver) /\ 1 \in 0 .. Len(toReceiver)
  BY <1>1, <1>2, QueueHead
<1>4. PICK k \in Nat : k = ks[1]
  BY <1>2
<1>5. k > 0 /\ Shows(Head(toReceiver), k, o[k])
  BY <1>1, <1>3, <1>4 DEF Numbered
<1>6. /\ packetNum \in Nat /\ sendNum \in Nat /\ packetNum =< k /\ k =< sendNum
      /\ sendNum =< packetNum + 1 + early /\ early \in Nat
  BY <1>1, <1>3, <1>4, NotAhead, Sums
<1>7. o[k] < FileSize /\ Carries(Head(toReceiver), k, o[k])
  BY <1>1, <1>5 DEF Shows, Eot
<1>8. k - packetNum < NumMod /\ k - (packetNum + 1) < NumMod /\ NumMod \in Nat
  BY <1>6, LimitsAssumption
<1>9. h.num = k % NumMod
  BY <1>7 DEF Carries
<1>10. IsDuplicate(h) => k = packetNum
  BY <1>6, <1>8, <1>9, ResiduesDiffer DEF IsDuplicate
<1>11. ASSUME IsSuccessor(h) PROVE k = packetNum + 1
  <2>1. k % NumMod = (packetNum + 1) % NumMod
    BY <1>9, <1>11 DEF IsSuccessor
  <2>2. k # packetNum
    BY <1>6, <2>1, NumbersDiffer
  <2>3. packetNum + 1 \in Nat /\ packetNum + 1 =< k
    BY <1>6, <2>2
  <2>4. QED
    BY <1>8, <2>1, <2>3, ResiduesDiffer
<1>12. QED
  BY <1>1, <1>4, <1>5, <1>6, <1>7, <1>10, <1>11 DEF Carries

\* A repetition is read over the packet in the buffer, which is the same packet.
LEMMA DuplicateKeepsTracked ==
    ASSUME TInv, early < NumMod - 1, state = "RECV_PACKET_HEADER",
           NEW o, NEW ks, NEW c, NEW a, Tracked(o, ks, c, a),
           NEW h, h.num = Head(toReceiver).num, IsDuplicate(h), RecvData,
           UNCHANGED <<sendNum, sendOffs, toReceiver, toSender, early>>,
           UNCHANGED <<packetNum, fileOffs, packet>>
    PROVE  Tracked(o, ks, c, a)'
<1>1. /\ toReceiver # <<>> /\ ks[1] = packetNum /\ start = StartByte(o[packetNum])
      /\ packetNum # 0
  BY HeadNumber
<1>2. state' = "RECV_PACKET_DATA" /\ packetSize' = SizeOf(start)
  BY DEF RecvData, SetStateKeepTimer
<1>3. Due' = Due
  BY <1>2 DEF Due
<1>4. Offsets(o)'
  BY DEF Tracked, Offsets, PayloadSize, StartByte
<1>5. Numbered(o, ks)'
  BY <1>1, <1>2 DEF Tracked, Numbered, Shows, Carries, StartByte
<1>6. Held(o)'
  BY <1>1, <1>2 DEF Tracked, Held, StartByte
<1>7. Bounded(ks, c, a)'
  BY <1>3 DEF Tracked, Bounded
<1>8. QED
  BY <1>4, <1>5, <1>6, <1>7 DEF Tracked

\* The next packet is awaited no longer, but it will be answered now like its repetitions.
LEMMA SuccessorKeepsTracked ==
    ASSUME TInv, WrittenInOrder, early < NumMod - 1, state = "RECV_PACKET_HEADER",
           NEW o, NEW ks, NEW c, NEW a, Tracked(o, ks, c, a),
           NEW h, h.num = Head(toReceiver).num, IsSuccessor(h), Flush, RecvData,
           packetNum' = packetNum + 1, UNCHANGED packet,
           UNCHANGED <<sendNum, sendOffs, toReceiver, toSender, early>>
    PROVE  WrittenInOrder' /\ \E ms, e : Tracked(o, ms, e, a)'
<1>1. /\ toReceiver # <<>> /\ ks[1] = packetNum + 1 /\ start = StartByte(o[packetNum + 1])
      /\ packetNum + 1 =< sendNum /\ o[packetNum + 1] < FileSize
  BY HeadNumber
<1>2. /\ Offsets(o) /\ Numbered(o, ks) /\ Held(o) /\ Bounded(ks, c, a) /\ LinkTypeOK
  BY DEF Tracked, TInv
<1>3. /\ c[Len(toReceiver)] \in Int /\ a[Len(toSender)] \in Int
      /\ sendNum \in Nat /\ packetNum \in Nat /\ early \in Nat
      /\ sendNum + c[Len(toReceiver)] + a[Len(toSender)] + Due =< packetNum + 1 + early
  BY <1>2, Sums
<1>4. PICK n \in Nat : n = Len(toReceiver) /\ n > 0 /\ 1 \in 0 .. n
  <2>1. toReceiver \in Seq(Frames)
    BY <1>2 DEF LinkTypeOK
  <2>2. QED
    BY <1>1, <2>1, QueueHead
<1>5. state' = "RECV_PACKET_DATA" /\ packetSize' = SizeOf(start) /\ Due = 0 /\ Due' = 0
  BY DEF RecvData, SetStateKeepTimer, Due
<1>6. /\ WrittenInOrder'
      /\ packetNum = 0 => fileOffs' = 0
      /\ packetNum # 0 /\ fileOffs + PayloadSize(fileOffs) < FileSize =>
           fileOffs' = fileOffs + PayloadSize(fileOffs)
  BY <1>2, FlushHeld
<1>7. fileOffs' = o[packetNum + 1]
  <2>1. CASE packetNum = 0
    BY <1>2, <1>6, <2>1 DEF Offsets
  <2>2. CASE packetNum # 0
    <3>1. packetNum \in 1 .. sendNum - 1
      BY <1>1, <1>3, <2>2
    <3>2. o[packetNum + 1] = o[packetNum] + PayloadSize(o[packetNum])
      BY <1>2, <3>1 DEF Offsets
    <3>3. o[packetNum] = fileOffs
      BY <1>2, <2>2 DEF Held
    <3>4. QED
      BY <1>1, <1>6, <2>2, <3>2, <3>3
  <2>3. QED
    BY <2>1, <2>2
<1>8. PICK ms : ms = [i \in Nat |-> IF i = 0 THEN packetNum + 1 ELSE ks[i]]
  OBVIOUS
<1>9. /\ ms \in [Nat -> Nat] /\ ms[0] = packetNum + 1 /\ ks \in [Nat -> Nat]
      /\ \A i \in 1 .. n : ms[i] = ks[i]
  <2>1. ks \in [Nat -> Nat]
    BY <1>2 DEF Numbered
  <2>2. \A i \in Nat : (IF i = 0 THEN packetNum + 1 ELSE ks[i]) \in Nat
    BY <1>3, <2>1
  <2>3. ms \in [Nat -> Nat] /\ ms[0] = packetNum + 1 /\ \A i \in Nat : i # 0 => ms[i] = ks[i]
    BY <1>8, <2>2
  <2>4. \A i \in 1 .. n : i \in Nat /\ i # 0
    OBVIOUS
  <2>5. QED
    BY <2>1, <2>3, <2>4
<1>10. \A i \in 1 .. n : packetNum + 1 =< ks[i]
  BY <1>1, <1>2, <1>4 DEF Numbered
<1>11. Numbered(o, ms)'
  <2>1. ASSUME NEW i \in 0 .. n, NEW j \in 0 .. n, i =< j PROVE ms[i] =< ms[j]
    <3>1. CASE i = 0 /\ j = 0
      BY <1>9, <3>1
    <3>2. CASE i = 0 /\ j # 0
      BY <1>9, <1>10, <3>2
    <3>3. CASE i # 0
      <4>1. i \in 1 .. n /\ j \in 1 .. n /\ ks[i] =< ks[j]
        BY <1>2, <1>4, <2>1, <3>3 DEF Numbered
      <4>2. QED
        BY <1>9, <4>1
    <3>4. QED
      BY <3>1, <3>2, <3>3
  <2>2. ms[n] =< sendNum /\ ms[1] = packetNum + 1
    <3>1. n \in 1 .. n /\ 1 \in 1 .. n
      BY <1>4
    <3>2. QED
      BY <1>1, <1>2, <1>4, <1>9, <3>1 DEF Numbered
  <2>3. \A i \in 1 .. n : ms[i] > 0 /\ Shows(toReceiver[i], ms[i], o[ms[i]])
    BY <1>2, <1>4, <1>9 DEF Numbered
  <2>4. QED
    BY <1>1, <1>4, <1>9, <2>1, <2>2, <2>3 DEF Numbered, Shows, Carries, StartByte
<1>12. Offsets(o)'
  BY <1>2 DEF Offsets, PayloadSize, StartByte
<1>13. Held(o)'
  BY <1>1, <1>3, <1>5, <1>7 DEF Held, StartByte
<1>14. PICK e : Credits(e, n, Again(ms)) /\ e[n] = c[n] + 1
  <2>1. ASSUME NEW i \in 2 .. n, i \in Again(ms) PROVE i \in Again(ks)
    <3>1. i \in 1 .. n /\ i - 1 \in 1 .. n
      BY <1>4
    <3>2. QED
      BY <1>9, <2>1, <3>1 DEF Again
  <2>2. Credits(c, n, Again(ks))
    BY <1>2, <1>4 DEF Bounded
  <2>3. QED
    BY <1>4, <2>1, <2>2, CreditsRaise
<1>15. Bounded(ms, e, a)'
  <2>1. sendNum + e[n] + a[Len(toSender)] + 0 =< packetNum + 1 + 1 + early
    <3>1. PICK x \in Int, y \in Int : x = c[n] /\ y = a[Len(toSender)]
      BY <1>3, <1>4
    <3>2. sendNum + x + y + 0 =< packetNum + 1 + early
      BY <1>3, <1>4, <1>5, <3>1
    <3>3. sendNum + (x + 1) + y + 0 =< packetNum + 1 + 1 + early
      BY <1>3, <3>2
    <3>4. QED
      BY <1>14, <3>1, <3>3
  <2>2. QED
    BY <1>2, <1>4, <1>5, <1>14, <2>1 DEF Bounded
<1>16. QED
  BY <1>6, <1>11, <1>12, <1>13, <1>15 DEF Tracked

\* recvPacketHeader() flushes the packet in the buffer only for its successor.
LEMMA ReadHeaderKeepsOrder ==
    ASSUME TInv, OInv, ReceiverReads,
           RecvPacketHeader(HeaderSize - packetOffs,
                            [num |-> Head(toReceiver).num, ok |-> TRUE], TRUE)
    PROVE  OInv'
<1> DEFINE f == Head(toReceiver)
           h == [num |-> f.num, ok |-> TRUE]
<1>1. /\ state = "RECV_PACKET_HEADER" /\ UNCHANGED packet
      /\ UNCHANGED <<sendState, sendNum, sendOffs, toSender, early>>
  BY DEF RecvPacketHeader, ReceiverReads, sender, budget
<1>2. toReceiver' = toReceiver
  <2>1. f # Eot
    BY <1>1 DEF TInv, MidFrame, Eot
  <2>2. QED
    BY <1>1, <2>1 DEF ReceiverReads
<1>3. HeaderComplete(HeaderSize - packetOffs)
  BY <1>1, Sizes DEF HeaderComplete, TInv, IInv, StaysInPacket, HeaderSize
<1>4. \/ state' = "SEND_CAN" /\ UNCHANGED written
      \/ IsDuplicate(h) /\ RecvData /\ UNCHANGED <<packetNum, fileOffs, written>>
      \/ IsSuccessor(h) /\ Flush /\ packetNum' = packetNum + 1 /\ RecvData
  BY <1>3 DEF RecvPacketHeader, BadHeader, DuplicateHeader, NextHeader, FlushFails,
     SetError, file
<1>5. Live /\ h.num = f.num
  BY <1>1 DEF Live
<1> HIDE DEF h
<1>6. CASE state' = "SEND_CAN" /\ UNCHANGED written
  BY <1>1, <1>6 DEF OInv, Live, WrittenInOrder
<1>7. CASE IsDuplicate(h) /\ RecvData /\ UNCHANGED <<packetNum, fileOffs, written>>
  <2>1. ASSUME early < NumMod - 1 PROVE WrittenInOrder' /\ \E o, ks, c, a : Tracked(o, ks, c, a)'
    <3>1. WrittenInOrder'
      BY <1>7, <2>1 DEF OInv, WrittenInOrder
    <3>2. PICK o, ks, c, a : Tracked(o, ks, c, a)
      BY <1>5, <2>1 DEF OInv
    <3>3. Tracked(o, ks, c, a)'
      BY <1>1, <1>2, <1>5, <1>7, <2>1, <3>2, DuplicateKeepsTracked
    <3>4. QED
      BY <3>1, <3>3
  <2>2. QED
    BY <1>1, <2>1 DEF OInv
<1>8. CASE IsSuccessor(h) /\ Flush /\ packetNum' = packetNum + 1 /\ RecvData
  <2>1. ASSUME early < NumMod - 1 PROVE WrittenInOrder' /\ \E o, ks, c, a : Tracked(o, ks, c, a)'
    <3>1. WrittenInOrder
      BY <2>1 DEF OInv
    <3>2. PICK o, ks, c, a : Tracked(o, ks, c, a)
      BY <1>5, <2>1 DEF OInv
    <3>3. WrittenInOrder' /\ \E ms, e : Tracked(o, ms, e, a)'
      BY <1>1, <1>2, <1>5, <1>8, <2>1, <3>1, <3>2, SuccessorKeepsTracked
    <3>4. QED
      BY <3>3
  <2>2. QED
    BY <1>1, <2>1 DEF OInv
<1>9. QED
  BY <1>4, <1>6, <1>7, <1>8

\* A payload that has been read leaves the link, and an answer to it is due.
LEMMA PayloadKeepsTracked ==
    ASSUME TInv, state = "RECV_PACKET_DATA",
           NEW o, NEW ks, NEW c, NEW a, Tracked(o, ks, c, a),
           toReceiver # <<>>, toReceiver' = Tail(toReceiver),
           packet' = [data |-> Head(toReceiver).data, ok |-> Head(toReceiver).ok],
           state' \in {"SEND_PACKET_ACK", "SEND_PACKET_NAK"},
           UNCHANGED <<sendNum, sendOffs, toSender, early>>,
           UNCHANGED <<packetNum, fileOffs, packetSize>>
    PROVE  \E ms, e : Tracked(o, ms, e, a)'
<1>1. /\ Offsets(o) /\ Numbered(o, ks) /\ Held(o) /\ Bounded(ks, c, a) /\ LinkTypeOK
      /\ start = Head(toReceiver).start /\ start # "EOT"
  BY DEF Tracked, TInv, MidFrame
<1>2. /\ c[Len(toReceiver)] \in Int /\ a[Len(toSender)] \in Int
      /\ sendNum \in Nat /\ packetNum \in Nat /\ early \in Nat
      /\ sendNum + c[Len(toReceiver)] + a[Len(toSender)] + Due =< packetNum + 1 + early
  BY <1>1, Sums
<1>3. toReceiver \in Seq(Frames)
  BY <1>1 DEF LinkTypeOK
<1>4. PICK n \in Nat : n = Len(toReceiver) /\ n > 0
  BY <1>3, QueueHead
<1>5. /\ Head(toReceiver) = toReceiver[1] /\ Head(toReceiver) \in Frames
      /\ 1 \in 1 .. n /\ Len(toReceiver') = n - 1
      /\ \A i \in 1 .. n - 1 : toReceiver'[i] = toReceiver[i + 1]
  BY <1>3, <1>4, QueueHead
<1>6. Due = 0 /\ Due' = 1
  BY DEF Due
<1>7. /\ ks \in [Nat -> Nat] /\ ks[0] = packetNum /\ ks[1] = packetNum /\ packetNum > 0
      /\ Shows(Head(toReceiver), packetNum, o[packetNum])
  BY <1>1, <1>4, <1>5 DEF Numbered
<1>8. Carries(Head(toReceiver), packetNum, o[packetNum])
  BY <1>1, <1>7 DEF Shows, Eot
<1>9. Held(o)'
  <2>1. fileOffs = o[packetNum] /\ packetSize = SizeOf(StartByte(fileOffs))
    BY <1>1, <1>7 DEF Held
  <2>2. packet' \in Payloads /\ packet'.data = o[packetNum]
    BY <1>5, <1>8, OffsetsAssumption DEF Carries, Frames, Payloads
  <2>3. QED
    BY <1>7, <2>1, <2>2 DEF Held, StartByte
<1>10. Offsets(o)'
  BY <1>1 DEF Offsets, PayloadSize, StartByte
<1>11. PICK ms : ms = [i \in Nat |-> ks[i + 1]]
  OBVIOUS
<1>12. ms \in [Nat -> Nat] /\ ms[0] = packetNum /\ \A i \in 0 .. n : ms[i] = ks[i + 1]
  <2>1. \A i \in Nat : i + 1 \in Nat /\ ks[i + 1] \in Nat
    BY <1>7
  <2>2. ms \in [Nat -> Nat] /\ ms[0] = ks[0 + 1] /\ \A i \in Nat : ms[i] = ks[i + 1]
    BY <1>11, <2>1
  <2>3. \A i \in 0 .. n : i \in Nat
    OBVIOUS
  <2>4. 0 + 1 = 1
    OBVIOUS
  <2>5. QED
    BY <1>7, <2>2, <2>3, <2>4
<1>13. Numbered(o, ms)'
  <2>1. ASSUME NEW i \in 0 .. n - 1, NEW j \in 0 .. n - 1, i =< j PROVE ms[i] =< ms[j]
    <3>1. i + 1 \in 0 .. n /\ j + 1 \in 0 .. n /\ i + 1 =< j + 1 /\ i \in 0 .. n /\ j \in 0 .. n
      BY <2>1
    <3>2. QED
      BY <1>1, <1>4, <1>12, <3>1 DEF Numbered
  <2>2. ms[n - 1] =< sendNum
    <3>1. n - 1 \in 0 .. n /\ (n - 1) + 1 = n
      BY <1>4
    <3>2. QED
      BY <1>1, <1>4, <1>12, <3>1 DEF Numbered
  <2>3. ASSUME NEW i \in 1 .. n - 1
        PROVE  ms[i] > 0 /\ Shows(toReceiver'[i], ms[i], o[ms[i]])
    <3>1. i + 1 \in 1 .. n /\ ms[i] = ks[i + 1] /\ toReceiver'[i] = toReceiver[i + 1]
      <4>1. i \in 0 .. n /\ i + 1 \in 1 .. n
        BY <1>4
      <4>2. QED
        BY <1>5, <1>12, <4>1
    <3>2. QED
      BY <1>1, <1>4, <3>1 DEF Numbered
  <2>4. state' # "RECV_PACKET_DATA"
    OBVIOUS
  <2>5. QED
    BY <1>1, <1>5, <1>12, <2>1, <2>2, <2>3, <2>4 DEF Numbered, Shows, Carries, StartByte
<1>14. PICK e : Credits(e, n - 1, Again(ms)) /\ e[n - 1] =< c[n] - 1
  <2>1. ASSUME NEW i \in 1 .. n - 1, i \in Again(ms) PROVE i + 1 \in Again(ks)
    <3>1. i \in 0 .. n /\ i - 1 \in 0 .. n /\ (i - 1) + 1 = i /\ (i + 1) - 1 = i
          /\ i + 1 \in Nat /\ i + 1 > 0
      BY <1>4
    <3>2. ms[i] = ks[i + 1] /\ ms[i - 1] = ks[i] /\ ms[i] = ms[i - 1]
      BY <1>12, <2>1, <3>1 DEF Again
    <3>3. QED
      BY <3>1, <3>2 DEF Again
  <2>2. 1 \in Again(ks)
    <3>1. 1 - 1 = 0
      OBVIOUS
    <3>2. QED
      BY <1>7, <3>1 DEF Again
  <2>3. Credits(c, n, Again(ks))
    BY <1>1, <1>4 DEF Bounded
  <2>4. QED
    BY <1>4, <2>1, <2>2, <2>3, CreditsTail
<1>15. e[n - 1] \in Int
  <2>1. n - 1 \in Nat
    BY <1>4
  <2>2. QED
    BY <1>14, <2>1, CreditsSign
<1>16. Bounded(ms, e, a)'
  <2>1. sendNum + e[n - 1] + a[Len(toSender)] + 1 =< packetNum + 1 + early
    <3>1. PICK x \in Int, y \in Int, z \in Int :
               x = c[n] /\ y = a[Len(toSender)] /\ z = e[n - 1]
      BY <1>2, <1>4, <1>15
    <3>2. sendNum + x + y + 0 =< packetNum + 1 + early /\ z =< x - 1
      BY <1>2, <1>4, <1>6, <1>14, <3>1
    <3>3. sendNum + z + y + 1 =< packetNum + 1 + early
      BY <1>2, <3>2
    <3>4. QED
      BY <3>1, <3>3
  <2>2. QED
    BY <1>1, <1>5, <1>6, <1>14, <2>1 DEF Bounded
<1>17. QED
  BY <1>9, <1>10, <1>13, <1>16 DEF Tracked

\* recvPacketData() answers once for every payload that it reads.
LEMMA ReadDataKeepsOrder ==
    ASSUME TInv, OInv, ReceiverReads,
           RecvPacketData(packetSize - packetOffs,
                          [data |-> Head(toReceiver).data, ok |-> Head(toReceiver).ok])
    PROVE  OInv'
<1> DEFINE p == [data |-> Head(toReceiver).data, ok |-> Head(toReceiver).ok]
<1>1. /\ state = "RECV_PACKET_DATA" /\ UNCHANGED <<packetNum, fileOffs, written>>
      /\ UNCHANGED <<sendState, sendNum, sendOffs, toSender, early>>
      /\ toReceiver # <<>> /\ toReceiver' = Tail(toReceiver)
  BY DEF RecvPacketData, ReceiverReads, sender, budget, counters, file
<1>2. packetOffs + (packetSize - packetOffs) = packetSize
  BY Sizes DEF TInv, IInv, TypeOK, BufferTypeOK, PacketSizes, Overhead, HeaderSize, CrcSize
<1>3. \/ state' = "SEND_CAN"
      \/ /\ state' \in {"SEND_PACKET_ACK", "SEND_PACKET_NAK"}
         /\ packet' = p /\ UNCHANGED packetSize
  BY <1>2 DEF RecvPacketData, SetState, SetError
<1>4. early < NumMod - 1 => WrittenInOrder'
  BY <1>1 DEF OInv, WrittenInOrder
<1>5. CASE state' = "SEND_CAN"
  BY <1>1, <1>4, <1>5 DEF OInv, Live
<1>6. CASE /\ state' \in {"SEND_PACKET_ACK", "SEND_PACKET_NAK"}
           /\ packet' = p /\ UNCHANGED packetSize
  <2>1. ASSUME NEW o, NEW ks, NEW c, NEW a, Tracked(o, ks, c, a)
        PROVE  \E ms, e : Tracked(o, ms, e, a)'
    BY <1>1, <1>6, <2>1, PayloadKeepsTracked
  <2>2. Live
    BY <1>1 DEF Live
  <2>3. QED
    BY <1>1, <1>4, <2>1, <2>2 DEF OInv
<1>7. QED
  BY <1>3, <1>5, <1>6

\* A receiver that finds nothing to read writes nothing.
LEMMA IdleFacts ==
    ASSUME TInv, ReceiverIdles
    PROVE  /\ UNCHANGED <<sender, link, budget, written>>
           /\ \/ ~Live'
              \/ /\ Live /\ UNCHANGED <<packetNum, fileOffs, packetSize, packet>>
                 /\ \/ state' = state
                    \/ state = "RECV_SOH" /\ state' = "SEND_NCG"
<1> USE DEF TInv
<1>1. UNCHANGED <<sender, link, budget>>
  BY DEF ReceiverIdles
<1>2. CASE SendNcg(0) \/ SendPacketAck(0) \/ SendPacketNak(0) \/ SendEotAck(0)
  BY <1>1, <1>2 DEF SendNcg, SendPacketAck, SendPacketNak, SendByte, SendEotAck, WaitToSend,
     Return, file, Live
<1>3. CASE SendCan(0)
  BY <1>1, <1>3 DEF SendCan, Return, control, file, Live
<1>4. CASE RecvSoh("none", TRUE)
  <2>1. state = "RECV_SOH" /\ NoStart /\ UNCHANGED <<packetNum, packet, fileOffs, written>>
    BY <1>4 DEF RecvSoh, NoStart, Controls, file
  <2>2. \/ state' \in {"SEND_CAN", "NEW"}
        \/ state' = "SEND_NCG" /\ UNCHANGED packetSize
    BY <2>1 DEF NoStart, SetError, SetState, Return
  <2>3. QED
    BY <1>1, <2>1, <2>2 DEF Live
<1>5. ASSUME NEW h \in Headers, RecvPacketHeader(0, h, TRUE)
      PROVE  /\ state = "RECV_PACKET_HEADER" /\ CheckPacketTimeout
             /\ UNCHANGED <<packet, packetNum, file>>
  <2>1. ~HeaderComplete(0)
    BY <1>5 DEF RecvPacketHeader, HeaderComplete, IInv, StaysInPacket, HeaderSize
  <2>2. QED
    BY <1>5, <2>1 DEF RecvPacketHeader
<1>6. ASSUME NEW p \in Payloads, RecvPacketData(0, p)
      PROVE  /\ state = "RECV_PACKET_DATA" /\ CheckPacketTimeout
             /\ UNCHANGED <<packet, packetNum, file>>
  <2>1. packetOffs + 0 # packetSize
    BY <1>6, Sizes DEF RecvPacketData, IInv, StaysInPacket, TypeOK, BufferTypeOK,
       HeaderSize
  <2>2. QED
    BY <1>6, <2>1 DEF RecvPacketData, counters
<1>7. CASE /\ state \in {"RECV_PACKET_HEADER", "RECV_PACKET_DATA"} /\ CheckPacketTimeout
           /\ UNCHANGED <<packet, packetNum, file>>
  <2>1. UNCHANGED <<packet, packetNum, fileOffs, written>> /\ Live
    BY <1>7 DEF file, Live
  <2>2. CASE TimedOut(PACKET_TIMEOUT)
    BY <1>1, <1>7, <2>1, <2>2 DEF CheckPacketTimeout, SetError, Live
  <2>3. CASE ~TimedOut(PACKET_TIMEOUT)
    BY <1>1, <1>7, <2>1, <2>3 DEF CheckPacketTimeout, control
  <2>4. QED
    BY <2>2, <2>3
<1>8. QED
  BY <1>2, <1>3, <1>4, <1>5, <1>6, <1>7 DEF ReceiverIdles, Idle

\* A step that only the receiver's clock or its wait for the sender notices.
LEMMA UnnoticedKeepsOrder ==
    ASSUME OInv, UNCHANGED <<sender, link, early, written>>,
           \/ ~Live'
           \/ /\ Live /\ UNCHANGED <<packetNum, fileOffs, packetSize, packet>>
              /\ \/ state' = state
                 \/ state = "RECV_SOH" /\ state' = "SEND_NCG"
    PROVE  OInv'
<1>1. UNCHANGED <<sendState, sendNum, sendOffs, toReceiver, toSender>>
  BY DEF sender, link
<1>2. early < NumMod - 1 => WrittenInOrder'
  BY DEF OInv, WrittenInOrder
<1>3. CASE ~Live'
  BY <1>1, <1>2, <1>3 DEF OInv
<1>4. CASE /\ Live /\ UNCHANGED <<packetNum, fileOffs, packetSize, packet>>
           /\ \/ state' = state
              \/ state = "RECV_SOH" /\ state' = "SEND_NCG"
  <2>1. Due' = Due /\ (state = "RECV_PACKET_DATA" <=> state' = "RECV_PACKET_DATA")
    BY <1>4 DEF Due
  <2>2. ASSUME NEW o, NEW ks, NEW c, NEW a, Tracked(o, ks, c, a)
        PROVE  Tracked(o, ks, c, a)'
    <3>1. /\ Credits(a, Len(toSender'), AnswersIn(toSender'))
          /\ sendNum + c[Len(toReceiver)] + a[Len(toSender')] + Due' =< packetNum + 1 + early
      BY <1>1, <2>1, <2>2 DEF Tracked, Bounded
    <3>2. QED
      BY <1>1, <1>4, <2>1, <2>2, <3>1, QuietKeeps
  <2>3. QED
    BY <1>1, <1>2, <1>4, <2>2 DEF OInv
<1>5. QED
  BY <1>3, <1>4

-------------------------------------------------------------------------------
(* The specification *)

\* The invariant holds at first.
LEMMA InitOInv == TransferInit => OInv
<1> SUFFICES ASSUME TransferInit PROVE OInv
    OBVIOUS
<1>1. /\ sendState = "start" /\ sendNum = 0 /\ sendOffs = 0 /\ early = 0
      /\ toReceiver = <<>> /\ toSender = <<>> /\ packetNum = 0 /\ fileOffs = 0
      /\ packetSize = 0 /\ state = "SEND_NCG"
      /\ written = [i \in 0 .. FileSize - 1 |-> Unwritten]
  BY DEF TransferInit, Init
<1>2. WrittenInOrder
  BY <1>1 DEF WrittenInOrder
<1>3. PICK z : z = [i \in Nat |-> 0]
  OBVIOUS
<1>4. /\ z \in [Nat -> Nat] /\ z \in [Nat -> Int] /\ z[0] = 0 /\ z[1] = 0
      /\ Len(<<>>) = 0
  BY <1>3
<1>5. Offsets(z)
  BY <1>1, <1>4 DEF Offsets
<1>6. Numbered(z, z)
  BY <1>1, <1>4 DEF Numbered
<1>7. Held(z)
  BY <1>1 DEF Held
<1>8. \A J : Credits(z, 0, J)
  BY <1>4 DEF Credits
<1>9. Bounded(z, z, z)
  BY <1>1, <1>4, <1>8 DEF Bounded, Due
<1>10. QED
  BY <1>1, <1>2, <1>5, <1>6, <1>7, <1>9 DEF OInv, Tracked

\* Every step preserves the invariant.
LEMMA NextOInv == TInv /\ OInv /\ [TransferNext]_allVars => OInv'
<1> SUFFICES ASSUME TInv, OInv, [TransferNext]_allVars PROVE OInv'
    OBVIOUS
<1>1. CASE ReceiverReads
  BY <1>1, ReadStartKeepsOrder, ReadHeaderKeepsOrder, ReadDataKeepsOrder
     DEF ReceiverReads
<1>2. CASE ReceiverAnswers
  BY <1>2, AnswersKeepOrder
<1>3. CASE ReceiverIdles
  BY <1>3, IdleFacts, UnnoticedKeepsOrder DEF budget
<1>4. CASE SenderStep
  BY <1>4, HearKeepsOrder, TimeoutKeepsOrder DEF SenderStep
<1>5. CASE Time
  <2>1. UNCHANGED <<sender, link, early, written>>
        /\ UNCHANGED <<state, packetNum, fileOffs, packetSize, packet>>
    BY <1>5 DEF Time, Tick, budget, counters, buffer, file
  <2>2. QED
    BY <2>1, UnnoticedKeepsOrder DEF Live
<1>6. CASE UNCHANGED allVars
  <2>1. UNCHANGED <<sender, link, early, written>>
        /\ UNCHANGED <<state, packetNum, fileOffs, packetSize, packet>>
    BY <1>6 DEF allVars, receiver, vars, control, counters, buffer, file, budget
  <2>2. QED
    BY <2>1, UnnoticedKeepsOrder DEF Live
<1>7. QED
  BY <1>1, <1>2, <1>3, <1>4, <1>5, <1>6 DEF TransferNext, ReceiverStep

\* The invariant holds throughout a transfer.
LEMMA OrderInvariance == TransferSafely => []OInv
BY InitOInv, NextOInv, TransferInvariance, PTL DEF TransferSafely

\* The sender repeats itself too soon only as often as it is allowed to.
EarlyInv == early =< MaxEarlyTimeouts

\* That bound holds throughout a transfer.
LEMMA EarlyLimited == TransferSafely => []EarlyInv
<1>1. TransferInit => EarlyInv
  BY LinkAssumption DEF TransferInit, EarlyInv
<1>2. TInv /\ EarlyInv /\ [TransferNext]_allVars => EarlyInv'
  <2> SUFFICES ASSUME TInv, EarlyInv, [TransferNext]_allVars PROVE EarlyInv'
      OBVIOUS
  <2>1. CASE SenderTimeout
    <3>1. early \in Nat /\ MaxEarlyTimeouts \in Nat
      BY LinkAssumption DEF TInv, LinkTypeOK
    <3>2. UNCHANGED early \/ (early < MaxEarlyTimeouts /\ early' = early + 1)
      BY <2>1 DEF SenderTimeout
    <3>3. QED
      BY <3>1, <3>2 DEF EarlyInv
  <2>2. ReceiverStep \/ HearControl \/ Time \/ UNCHANGED allVars => UNCHANGED early
    BY DEF ReceiverStep, ReceiverAnswers, ReceiverReads, ReceiverIdles, HearControl, Time,
       budget, allVars
  <2>3. QED
    BY <2>1, <2>2 DEF TransferNext, SenderStep, EarlyInv
<1>3. QED
  BY <1>1, <1>2, TransferInvariance, PTL DEF TransferSafely

\* As long as the sender has repeated itself too soon at most NumMod - 2 times, every byte
\* written is in its place, whatever the link loses or damages: the packets on the way are
\* so few that their numbers, cut to a byte, tell them apart in recvPacketHeader().
THEOREM NumbersTellPacketsApart ==
    TransferSafely => [](early < NumMod - 1 => WrittenInOrder)
<1>1. OInv => (early < NumMod - 1 => WrittenInOrder)
  BY DEF OInv
<1>2. QED
  BY <1>1, OrderInvariance, PTL

\* A sender that repeats itself too soon at most NumMod - 2 times (254 times for a number
\* of one byte) never gets a byte into the wrong place of the OTA partition.
THEOREM EveryByteInPlace ==
    ASSUME MaxEarlyTimeouts < NumMod - 1
    PROVE  TransferSafely => []WrittenInOrder
<1>1. TInv /\ OInv /\ EarlyInv => WrittenInOrder
  <2> SUFFICES ASSUME TInv, OInv, EarlyInv PROVE WrittenInOrder
      OBVIOUS
  <2>1. early < NumMod - 1
    BY LinkAssumption, LimitsAssumption DEF TInv, LinkTypeOK, EarlyInv
  <2>2. QED
    BY <2>1 DEF OInv
<1>2. QED
  BY <1>1, OrderInvariance, TransferInvariance, EarlyLimited, PTL

\* DONE is then reported only for a file of which every byte is in its place.
THEOREM DoneInPlace ==
    ASSUME MaxEarlyTimeouts < NumMod - 1
    PROVE  TransferSafely =>
               [](ret = "DONE" => \A i \in 0 .. FileSize - 1 : written[i].data = i)
<1>1. TInv /\ WrittenInOrder =>
          (ret = "DONE" => \A i \in 0 .. FileSize - 1 : written[i].data = i)
  <2> SUFFICES ASSUME TInv, WrittenInOrder, ret = "DONE"
               PROVE  \A i \in 0 .. FileSize - 1 : written[i].data = i
      OBVIOUS
  <2>1. \A i \in 0 .. FileSize - 1 : written[i] # Unwritten
    BY DEF TInv, IInv, TypeOK, FileTypeOK, WrittenIsPrefix, ResultInv
  <2>2. QED
    BY <2>1 DEF WrittenInOrder
<1>2. TransferSafely => []WrittenInOrder
  BY EveryByteInPlace
<1>3. QED
  BY <1>1, <1>2, TransferInvariance, PTL

\* Each repetition that was too soon lets the sender get ahead by one more packet at most.
THEOREM DriftsByEarlyTimeouts == TransferSafely => []DriftBounded
<1>1. TInv /\ OInv => DriftBounded
  <2> SUFFICES ASSUME TInv, OInv, early < NumMod - 1, Live
               PROVE  sendNum - packetNum \in 0 .. 1 + early
      BY DEF DriftBounded, Live
  <2>1. PICK o, ks, c, a : Numbered(o, ks) /\ Bounded(ks, c, a)
    BY DEF OInv, Tracked
  <2>2. LinkTypeOK
    BY DEF TInv
  <2>3. /\ early \in Nat /\ sendNum \in Nat /\ packetNum \in Nat
        /\ sendNum =< packetNum + 1 + early
    BY <2>1, <2>2, Sums
  <2>4. packetNum =< sendNum
    BY <2>1, <2>2, NotAhead
  <2>5. QED
    BY ONLY <2>3, <2>4
<1>2. QED
  BY <1>1, OrderInvariance, TransferInvariance, PTL
===============================================================================
