------------------------ MODULE XmodemReceiver_proofs -------------------------
(***************************************************************************)
(* Proofs about XmodemReceiver, for every file size, packet size, limit    *)
(* and timeout, and whatever the other side sends.                         *)
(***************************************************************************)
EXTENDS XmodemReceiver, TLAPS

\* run() still has something to do.
Running == state # "NEW"
Active == state \notin {"NEW", "SEND_CAN"}

\* What the buffer holds before a flush is one complete packet or nothing.
BufferInv ==
    /\ state \in {"RECV_SOH", "RECV_PACKET_HEADER"} =>
         packetSize = 0 \/ (packetSize \in PacketSizes /\ packet \in Payloads)
    /\ state \in {"SEND_PACKET_ACK", "SEND_PACKET_NAK"} =>
         packetSize \in PacketSizes /\ packet \in Payloads
    /\ state = "RECV_PACKET_DATA" => packetSize \in PacketSizes
    /\ state = "SEND_NCG" => packetSize = 0
    /\ state \in {"RECV_PACKET_DATA", "SEND_PACKET_ACK", "SEND_PACKET_NAK"} => packetNum # 0
    /\ state \in {"RECV_SOH", "RECV_PACKET_HEADER"} /\ packetNum = 0 => packetSize = 0

\* The counters stop below their limits while the transfer goes on.
CounterInv ==
    Active => retryCount =< MAX_NCG_RETRY_COUNT /\ canCount < RECV_CAN_COUNT

\* The result is final exactly when the receiver is destroyed, and DONE only when
\* the file was complete; an abort has an error to report.
ResultInv ==
    /\ Running <=> ret = "RUNNING"
    /\ ret = "DONE" \/ state = "SEND_EOT_ACK" => fileOffs = FileSize
    /\ state = "SEND_CAN" => lastError \in Errors

IInv ==
    /\ TypeOK
    /\ StaysInPacket
    /\ WrittenIsPrefix
    /\ BufferInv
    /\ CounterInv
    /\ ResultInv

-------------------------------------------------------------------------------
(* Sizes and flush() *)

\* What the assumptions say of the sizes, limits and timeouts.
LEMMA Sizes ==
    /\ FileSize \in Nat /\ FileSize > 0
    /\ SohSize \in Nat /\ StxSize \in Nat /\ SohSize > 0 /\ SohSize < StxSize
    /\ SEND_CAN_COUNT \in Nat /\ SEND_CAN_COUNT > 0
    /\ RECV_CAN_COUNT \in Nat /\ RECV_CAN_COUNT > 1
    /\ MAX_NCG_RETRY_COUNT \in Nat /\ MAX_PACKET_RETRY_COUNT \in Nat
    /\ MAX_PACKET_RETRY_COUNT =< MAX_NCG_RETRY_COUNT
    /\ PACKET_TIMEOUT \in Nat
BY SizesAssumption, LimitsAssumption, TimeoutsAssumption

\* The packet that flush() may find in the buffer.
Flushable == packetSize = 0 \/ (packetSize \in PacketSizes /\ packet \in Payloads)

\* What flush() takes from the buffer is neither more than the payload nor more than
\* the rest of the file.
LEMMA FlushSizeBounds ==
    ASSUME FileTypeOK, Flushable
    PROVE  /\ FlushSize \in Nat
           /\ fileOffs + FlushSize =< FileSize
           /\ packetSize = 0 => FlushSize = 0
BY Sizes DEF FileTypeOK, Flushable, FlushSize, PacketSizes, Overhead, HeaderSize,
   CrcSize

\* A byte of a complete payload can be told from a byte not written yet.
LEMMA PayloadByteWritten ==
    ASSUME packet \in Payloads, NEW k \in Nat
    PROVE  PayloadByte(k) \in [data : Int, ok : BOOLEAN] /\ PayloadByte(k) # Unwritten
<1>1. packet # NoPacket /\ packet.data \in Nat /\ packet.ok \in BOOLEAN
  BY DataAssumption DEF Payloads
<1>2. PayloadByte(k) = [data |-> packet.data + k, ok |-> packet.ok]
  BY <1>1 DEF PayloadByte
<1>3. packet.data + k \in Nat
  BY <1>1
<1>4. PayloadByte(k) # Unwritten
  <2>1. PayloadByte(k).data # Unwritten.data
    BY <1>2, <1>3 DEF Unwritten
  <2>2. QED
    BY <2>1
<1>5. QED
  BY <1>1, <1>2, <1>4

\* flush() extends the written prefix of the file.
LEMMA FlushExtendsPrefix ==
    ASSUME FileTypeOK, WrittenIsPrefix, Flushable, Flush
    PROVE  FileTypeOK' /\ WrittenIsPrefix' /\ fileOffs' >= fileOffs
<1> DEFINE Offs == fileOffs + FlushSize
<1>1. /\ FlushSize \in Nat /\ fileOffs \in Nat /\ Offs =< FileSize
      /\ fileOffs' = Offs
  BY FlushSizeBounds DEF FileTypeOK, Flush
<1>2. ASSUME NEW i \in 0 .. FileSize - 1, i \in fileOffs .. Offs - 1
      PROVE  /\ written'[i] = PayloadByte(i - fileOffs)
             /\ written'[i] \in [data : Int, ok : BOOLEAN]
             /\ written'[i] # Unwritten
  <2>1. packet \in Payloads
    BY <1>1, <1>2, FlushSizeBounds DEF Flushable
  <2>2. i - fileOffs \in Nat
    BY <1>1, <1>2
  <2>3. written'[i] = PayloadByte(i - fileOffs)
    BY <1>1, <1>2 DEF Flush, FileTypeOK
  <2>4. QED
    BY <2>1, <2>2, <2>3, PayloadByteWritten
<1>3. ASSUME NEW i \in 0 .. FileSize - 1, i \notin fileOffs .. Offs - 1
      PROVE  written'[i] = written[i]
  BY <1>1, <1>3 DEF Flush, FileTypeOK
<1>4. written' \in [0 .. FileSize - 1 -> [data : Int, ok : BOOLEAN]]
  <2>1. ASSUME NEW i \in 0 .. FileSize - 1
        PROVE  written'[i] \in [data : Int, ok : BOOLEAN]
    BY <1>2, <1>3 DEF FileTypeOK
  <2>2. DOMAIN written = 0 .. FileSize - 1
    BY DEF FileTypeOK
  <2>3. written' = [i \in 0 .. FileSize - 1 |-> written'[i]]
    BY <2>2 DEF Flush
  <2>4. QED
    BY <2>1, <2>3
<1>5. ASSUME NEW i \in 0 .. FileSize - 1
      PROVE  (written'[i] # Unwritten) <=> (i < fileOffs')
  <2>1. CASE i \in fileOffs .. Offs - 1
    BY <1>1, <1>2, <2>1
  <2>2. CASE i \notin fileOffs .. Offs - 1
    BY <1>1, <1>3, <2>2 DEF WrittenIsPrefix
  <2>3. QED
    BY <2>1, <2>2
<1>6. QED
  BY <1>1, <1>4, <1>5 DEF FileTypeOK, WrittenIsPrefix

-------------------------------------------------------------------------------
(* The actions *)

\* sendNcg(), sendPacketAck() and sendPacketNak() preserve the invariant.
LEMMA SendByteInv ==
    ASSUME IInv, NEW from, NEW n,
           from \in {"SEND_NCG", "SEND_PACKET_ACK", "SEND_PACKET_NAK"},
           SendByte(from, n)
    PROVE  IInv'
<1> USE DEF IInv, TypeOK
<1>1. ControlTypeOK' /\ CounterTypeOK'
  BY TimeoutsAssumption DEF SendByte, SetState, Return, WaitToSend, ControlTypeOK,
     CounterTypeOK, States, Errors, counters
<1>2. BufferTypeOK'
  BY DEF SendByte, WaitToSend, BufferTypeOK, buffer
<1>3. FileTypeOK' /\ WrittenIsPrefix' /\ fileOffs' >= fileOffs
  BY DEF SendByte, FileTypeOK, WrittenIsPrefix, file
<1>4. StaysInPacket' /\ BufferInv'
  BY Sizes DEF SendByte, SetState, Return, WaitToSend, StaysInPacket, BufferInv,
     PacketSizes, Overhead, HeaderSize, CrcSize, counters, buffer
<1>5. CounterInv' /\ ResultInv'
  BY DEF SendByte, SetState, Return, WaitToSend, CounterInv, ResultInv, Active,
     Running, counters
<1>6. QED
  BY <1>1, <1>2, <1>3, <1>4, <1>5

\* sendEotAck() preserves the invariant.
LEMMA SendEotAckInv == ASSUME IInv, NEW n, SendEotAck(n) PROVE IInv'
<1> USE DEF IInv, TypeOK
<1>1. ControlTypeOK' /\ CounterTypeOK'
  BY DEF SendEotAck, Return, WaitToSend, ControlTypeOK, CounterTypeOK, States, Errors,
     counters
<1>2. BufferTypeOK'
  BY DEF SendEotAck, WaitToSend, BufferTypeOK, buffer
<1>3. FileTypeOK' /\ WrittenIsPrefix' /\ fileOffs' >= fileOffs
  BY DEF SendEotAck, FileTypeOK, WrittenIsPrefix, file
<1>4. StaysInPacket' /\ BufferInv'
  BY DEF SendEotAck, Return, WaitToSend, StaysInPacket, BufferInv
<1>5. CounterInv' /\ ResultInv'
  BY DEF SendEotAck, Return, WaitToSend, CounterInv, ResultInv, Active, Running, file
<1>6. QED
  BY <1>1, <1>2, <1>3, <1>4, <1>5

\* sendCan() preserves the invariant.
LEMMA SendCanInv == ASSUME IInv, NEW n \in CanBytes, SendCan(n) PROVE IInv'
<1> USE DEF IInv, TypeOK
<1>1. ControlTypeOK' /\ CounterTypeOK'
  BY DEF SendCan, Return, ControlTypeOK, CounterTypeOK, ResultInv, States, Errors,
     control, counters
<1>2. BufferTypeOK'
  BY Sizes DEF SendCan, CanBytes, BufferTypeOK, Overhead, HeaderSize, CrcSize
<1>3. FileTypeOK' /\ WrittenIsPrefix' /\ fileOffs' >= fileOffs
  BY DEF SendCan, FileTypeOK, WrittenIsPrefix, file
<1>4. StaysInPacket' /\ BufferInv'
  BY Sizes DEF SendCan, CanBytes, Return, BufferTypeOK, StaysInPacket, BufferInv,
     control
<1>5. CounterInv' /\ ResultInv'
  BY DEF SendCan, Return, CounterInv, ResultInv, Active, Running, Errors, control
<1>6. QED
  BY <1>1, <1>2, <1>3, <1>4, <1>5

\* An error of the source stream preserves the invariant.
LEMMA StreamErrorInv == ASSUME IInv, StreamError PROVE IInv'
<1> USE DEF IInv, TypeOK
<1>1. ControlTypeOK' /\ CounterTypeOK'
  BY DEF StreamError, Return, ControlTypeOK, CounterTypeOK, States, Errors, counters
<1>2. BufferTypeOK'
  BY DEF StreamError, BufferTypeOK, buffer
<1>3. FileTypeOK' /\ WrittenIsPrefix' /\ fileOffs' >= fileOffs
  BY DEF StreamError, FileTypeOK, WrittenIsPrefix, file
<1>4. StaysInPacket' /\ BufferInv'
  BY DEF StreamError, Return, StaysInPacket, BufferInv
<1>5. CounterInv' /\ ResultInv'
  BY DEF StreamError, Return, CounterInv, ResultInv, Active, Running
<1>6. QED
  BY <1>1, <1>2, <1>3, <1>4, <1>5

\* The passing of time preserves the invariant.
LEMMA TickInv == ASSUME IInv, Tick PROVE IInv'
<1> USE DEF IInv, TypeOK
<1>1. ControlTypeOK' /\ CounterTypeOK'
  BY TimeoutsAssumption DEF Tick, ControlTypeOK, CounterTypeOK, counters
<1>2. BufferTypeOK'
  BY DEF Tick, BufferTypeOK, buffer
<1>3. FileTypeOK' /\ WrittenIsPrefix' /\ fileOffs' >= fileOffs
  BY DEF Tick, FileTypeOK, WrittenIsPrefix, file
<1>4. StaysInPacket' /\ BufferInv'
  BY DEF Tick, StaysInPacket, BufferInv, counters, buffer
<1>5. CounterInv' /\ ResultInv'
  BY DEF Tick, CounterInv, ResultInv, Active, Running, counters, file
<1>6. QED
  BY <1>1, <1>2, <1>3, <1>4, <1>5

\* recvSoh() without a byte to read preserves the invariant.
LEMMA NoStartInv == ASSUME IInv, state = "RECV_SOH", NoStart PROVE IInv'
<1> USE DEF IInv, TypeOK
<1>1. ControlTypeOK' /\ CounterTypeOK'
  BY Sizes DEF NoStart, SetError, SetState, Return, ControlTypeOK, CounterTypeOK,
     CounterInv, Active, States, Errors
<1>2. BufferTypeOK'
  BY Sizes DEF NoStart, SetError, BufferTypeOK, Overhead, HeaderSize, CrcSize
<1>3. FileTypeOK' /\ WrittenIsPrefix' /\ fileOffs' >= fileOffs
  BY DEF NoStart, FileTypeOK, WrittenIsPrefix, file
<1>4. StaysInPacket' /\ BufferInv'
  BY Sizes DEF NoStart, SetError, SetState, Return, StaysInPacket, BufferInv
<1>5. CounterInv' /\ ResultInv'
  BY Sizes DEF NoStart, SetError, SetState, Return, CounterTypeOK, CounterInv,
     ResultInv, Active, Running, Errors
<1>6. QED
  BY <1>1, <1>2, <1>3, <1>4, <1>5

\* recvSoh() preserves the invariant when it reads CAN.
LEMMA RecvCanInv ==
    ASSUME IInv, state = "RECV_SOH", RecvCan, UNCHANGED <<retryCount, packetNum>>
    PROVE  IInv'
<1> USE DEF IInv, TypeOK
<1>1. ControlTypeOK' /\ CounterTypeOK'
  BY Sizes DEF RecvCan, SetError, ControlTypeOK, CounterTypeOK, CounterInv, Active,
     States, Errors, control
<1>2. BufferTypeOK'
  BY Sizes DEF RecvCan, SetError, BufferTypeOK, Overhead, HeaderSize, CrcSize
<1>3. FileTypeOK' /\ WrittenIsPrefix' /\ fileOffs' >= fileOffs
  BY DEF RecvCan, FileTypeOK, WrittenIsPrefix, file
<1>4. StaysInPacket' /\ BufferInv'
  BY Sizes DEF RecvCan, SetError, StaysInPacket, BufferInv, control
<1>5. CounterInv' /\ ResultInv'
  BY Sizes DEF RecvCan, SetError, CounterTypeOK, CounterInv, ResultInv, Active,
     Running, Errors, control
<1>6. QED
  BY <1>1, <1>2, <1>3, <1>4, <1>5

\* recvSoh() preserves the invariant when it reads the start of a packet or a wrong byte.
LEMMA RecvStartInv ==
    ASSUME IInv, state = "RECV_SOH", NEW c \in Controls, RecvStart(c),
           UNCHANGED <<retryCount, packetNum>>
    PROVE  IInv'
<1> USE DEF IInv, TypeOK
<1>1. ControlTypeOK' /\ CounterTypeOK'
  BY Sizes DEF RecvStart, SetError, SetStateKeepTimer, ControlTypeOK, CounterTypeOK,
     States, Errors
<1>2. BufferTypeOK'
  BY Sizes DEF RecvStart, SetError, BufferTypeOK, Overhead, HeaderSize, CrcSize
<1>3. FileTypeOK' /\ WrittenIsPrefix' /\ fileOffs' >= fileOffs
  BY DEF RecvStart, FileTypeOK, WrittenIsPrefix, file
<1>4. StaysInPacket' /\ BufferInv'
  BY Sizes DEF RecvStart, SetError, SetStateKeepTimer, StaysInPacket, BufferInv,
     HeaderSize
<1>5. CounterInv' /\ ResultInv'
  BY Sizes DEF RecvStart, SetError, SetStateKeepTimer, CounterInv, ResultInv, Active,
     Running, Errors
<1>6. QED
  BY <1>1, <1>2, <1>3, <1>4, <1>5

\* recvSoh() preserves the invariant when it reads EOT.
LEMMA RecvEotInv ==
    ASSUME IInv, state = "RECV_SOH", NEW flushed \in BOOLEAN, RecvEot(flushed),
           UNCHANGED <<retryCount, packetNum>>
    PROVE  IInv'
<1> USE DEF IInv, TypeOK
<1>1. ControlTypeOK' /\ CounterTypeOK'
  BY Sizes DEF RecvEot, FlushError, SetError, SetState, ControlTypeOK, CounterTypeOK,
     States, Errors
<1>2. BufferTypeOK'
  BY Sizes DEF RecvEot, FlushError, SetError, BufferTypeOK, Overhead, HeaderSize,
     CrcSize
<1>3. FileTypeOK' /\ WrittenIsPrefix' /\ fileOffs' >= fileOffs
  <2>1. Flushable
    BY DEF Flushable, BufferInv
  <2>2. CASE Flush
    BY <2>1, <2>2, FlushExtendsPrefix
  <2>3. CASE UNCHANGED file
    BY <2>3 DEF FileTypeOK, WrittenIsPrefix, file
  <2>4. QED
    BY <2>2, <2>3 DEF RecvEot, FlushError
<1>4. StaysInPacket' /\ BufferInv'
  BY Sizes DEF RecvEot, FlushError, SetError, SetState, StaysInPacket, BufferInv
<1>5. CounterInv' /\ ResultInv'
  BY Sizes, <1>3 DEF RecvEot, FlushError, SetError, SetState, FileTypeOK, CounterInv,
     ResultInv, Active, Running, Errors
<1>6. QED
  BY <1>1, <1>2, <1>3, <1>4, <1>5

\* recvPacketHeader() preserves the invariant while the header is incomplete.
LEMMA HeaderPartInv ==
    ASSUME IInv, state = "RECV_PACKET_HEADER", UNCHANGED <<canCount, packet>>,
           NEW n \in HeaderBytes, ~HeaderComplete(n), CheckPacketTimeout,
           TimedOut(PACKET_TIMEOUT) \/ packetOffs' = packetOffs + n,
           UNCHANGED <<retryCount, packetNum, file>>
    PROVE  IInv'
<1> USE DEF IInv, TypeOK
<1>1. ControlTypeOK' /\ CounterTypeOK'
  BY TimeoutsAssumption DEF CheckPacketTimeout, SetError, ControlTypeOK,
     CounterTypeOK, States, Errors, control
<1>2. BufferTypeOK'
  BY Sizes DEF CheckPacketTimeout, HeaderBytes, SetError, BufferTypeOK, Overhead,
     HeaderSize, CrcSize
<1>3. FileTypeOK' /\ WrittenIsPrefix' /\ fileOffs' >= fileOffs
  BY DEF FileTypeOK, WrittenIsPrefix, file
<1>4. StaysInPacket' /\ BufferInv'
  BY Sizes DEF CheckPacketTimeout, HeaderComplete, HeaderBytes, SetError,
     StaysInPacket, BufferInv, HeaderSize, control
<1>5. CounterInv' /\ ResultInv'
  BY DEF CheckPacketTimeout, SetError, CounterInv, ResultInv, Active, Running, Errors,
     control
<1>6. QED
  BY <1>1, <1>2, <1>3, <1>4, <1>5

\* recvPacketHeader() preserves the invariant when it refuses a header.
LEMMA BadHeaderInv ==
    ASSUME IInv, state = "RECV_PACKET_HEADER", UNCHANGED <<canCount, packet>>,
           BadHeader
    PROVE  IInv'
<1> USE DEF IInv, TypeOK
<1>1. ControlTypeOK' /\ CounterTypeOK'
  BY TimeoutsAssumption DEF BadHeader, SetError, ControlTypeOK, CounterTypeOK, States,
     Errors
<1>2. BufferTypeOK'
  BY Sizes DEF BadHeader, SetError, BufferTypeOK, Overhead, HeaderSize, CrcSize
<1>3. FileTypeOK' /\ WrittenIsPrefix' /\ fileOffs' >= fileOffs
  BY DEF BadHeader, FileTypeOK, WrittenIsPrefix, file
<1>4. StaysInPacket' /\ BufferInv'
  BY Sizes DEF BadHeader, SetError, StaysInPacket, BufferInv
<1>5. CounterInv' /\ ResultInv'
  BY DEF BadHeader, SetError, CounterInv, ResultInv, Active, Running, Errors
<1>6. QED
  BY <1>1, <1>2, <1>3, <1>4, <1>5

\* recvPacketHeader() preserves the invariant when a packet is repeated.
LEMMA DuplicateHeaderInv ==
    ASSUME IInv, state = "RECV_PACKET_HEADER", UNCHANGED <<canCount, packet>>,
           packetNum # 0, DuplicateHeader
    PROVE  IInv'
<1> USE DEF IInv, TypeOK
<1>1. ControlTypeOK' /\ CounterTypeOK'
  BY Sizes DEF DuplicateHeader, SetError, RecvData, SetStateKeepTimer, ControlTypeOK,
     CounterTypeOK, CounterInv, Active, States, Errors
<1>2. BufferTypeOK'
  BY Sizes DEF DuplicateHeader, SetError, RecvData, SizeOf, BufferTypeOK, PacketSizes,
     Overhead, HeaderSize, CrcSize
<1>3. FileTypeOK' /\ WrittenIsPrefix' /\ fileOffs' >= fileOffs
  BY DEF DuplicateHeader, FileTypeOK, WrittenIsPrefix, file
<1>4. StaysInPacket' /\ BufferInv'
  BY Sizes DEF DuplicateHeader, SetError, RecvData, SetStateKeepTimer, SizeOf,
     StaysInPacket, BufferInv, PacketSizes, Overhead, HeaderSize, CrcSize
<1>5. CounterInv' /\ ResultInv'
  BY Sizes DEF DuplicateHeader, SetError, RecvData, SetStateKeepTimer, CounterInv,
     ResultInv, Active, Running, Errors
<1>6. QED
  BY <1>1, <1>2, <1>3, <1>4, <1>5

\* recvPacketHeader() preserves the invariant when it accepts the next packet.
LEMMA NextHeaderInv ==
    ASSUME IInv, state = "RECV_PACKET_HEADER", UNCHANGED <<canCount, packet>>,
           NEW flushed \in BOOLEAN, NextHeader(flushed)
    PROVE  IInv'
<1> USE DEF IInv, TypeOK
<1>1. ControlTypeOK' /\ CounterTypeOK'
  BY Sizes DEF NextHeader, FlushError, SetError, RecvData, SetStateKeepTimer,
     ControlTypeOK, CounterTypeOK, States, Errors
<1>2. BufferTypeOK'
  BY Sizes DEF NextHeader, FlushError, SetError, RecvData, SizeOf, BufferTypeOK,
     PacketSizes, Overhead, HeaderSize, CrcSize
<1>3. FileTypeOK' /\ WrittenIsPrefix' /\ fileOffs' >= fileOffs
  <2>1. Flushable
    BY DEF Flushable, BufferInv
  <2>2. CASE Flush
    BY <2>1, <2>2, FlushExtendsPrefix
  <2>3. CASE UNCHANGED file
    BY <2>3 DEF FileTypeOK, WrittenIsPrefix, file
  <2>4. QED
    BY <2>2, <2>3 DEF NextHeader, FlushError
<1>4. StaysInPacket' /\ BufferInv'
  BY Sizes DEF NextHeader, FlushError, SetError, RecvData, SetStateKeepTimer, SizeOf,
     CounterTypeOK, StaysInPacket, BufferInv, PacketSizes, Overhead, HeaderSize, CrcSize
<1>5. CounterInv' /\ ResultInv'
  BY Sizes DEF NextHeader, FlushError, SetError, RecvData, SetStateKeepTimer,
     CounterInv, ResultInv, Active, Running, Errors
<1>6. QED
  BY <1>1, <1>2, <1>3, <1>4, <1>5

\* recvPacketData() preserves the invariant.
LEMMA RecvPacketDataInv ==
    ASSUME IInv, NEW n \in DataBytes, NEW p \in Payloads, RecvPacketData(n, p)
    PROVE  IInv'
<1> USE DEF IInv, TypeOK
<1>1. ControlTypeOK' /\ CounterTypeOK'
  BY TimeoutsAssumption DEF RecvPacketData, CheckPacketTimeout, SetError, SetState,
     ControlTypeOK, CounterTypeOK, States, Errors, control, counters
<1>2. BufferTypeOK'
  BY Sizes DEF RecvPacketData, CheckPacketTimeout, DataBytes, SetError, BufferTypeOK,
     PacketSizes, Overhead, HeaderSize, CrcSize
<1>3. FileTypeOK' /\ WrittenIsPrefix' /\ fileOffs' >= fileOffs
  BY DEF RecvPacketData, FileTypeOK, WrittenIsPrefix, file
<1>4. StaysInPacket' /\ BufferInv'
  BY Sizes DEF RecvPacketData, CheckPacketTimeout, DataBytes, SetError, SetState,
     StaysInPacket, BufferInv, PacketSizes, Overhead, HeaderSize, CrcSize, control,
     counters
<1>5. CounterInv' /\ ResultInv'
  BY DEF RecvPacketData, CheckPacketTimeout, SetError, SetState, CounterInv,
     ResultInv, Active, Running, Errors, control, counters
<1>6. QED
  BY <1>1, <1>2, <1>3, <1>4, <1>5

-------------------------------------------------------------------------------
(* The specification *)

\* recvSoh() preserves the invariant, whatever it reads.
LEMMA RecvSohInv ==
    ASSUME IInv, NEW c \in Controls \cup {"none"}, NEW flushed \in BOOLEAN,
           RecvSoh(c, flushed)
    PROVE  IInv'
BY NoStartInv, RecvCanInv, RecvEotInv, RecvStartInv DEF RecvSoh

\* recvPacketHeader() preserves the invariant, whatever it reads.
LEMMA RecvPacketHeaderInv ==
    ASSUME IInv, NEW n \in HeaderBytes, NEW h \in Headers, NEW flushed \in BOOLEAN,
           RecvPacketHeader(n, h, flushed)
    PROVE  IInv'
<1>1. CASE ~HeaderComplete(n)
  BY <1>1, HeaderPartInv DEF RecvPacketHeader
<1>2. CASE HeaderComplete(n) /\ BadHeader
  BY <1>2, BadHeaderInv DEF RecvPacketHeader
<1>3. CASE HeaderComplete(n) /\ IsDuplicate(h) /\ DuplicateHeader
  BY <1>3, DuplicateHeaderInv DEF RecvPacketHeader, IsDuplicate
<1>4. CASE HeaderComplete(n) /\ NextHeader(flushed)
  BY <1>4, NextHeaderInv DEF RecvPacketHeader
<1>5. QED
  BY <1>1, <1>2, <1>3, <1>4 DEF RecvPacketHeader

\* init() establishes the invariant.
LEMMA InitIInv == Init => IInv
<1> SUFFICES ASSUME Init PROVE IInv
    OBVIOUS
<1>1. ControlTypeOK /\ CounterTypeOK /\ BufferTypeOK
  BY Sizes DEF Init, ControlTypeOK, CounterTypeOK, BufferTypeOK, States, Controls,
     Overhead, HeaderSize, CrcSize
<1>2. FileTypeOK /\ WrittenIsPrefix
  BY Sizes DEF Init, FileTypeOK, WrittenIsPrefix, Unwritten
<1>3. StaysInPacket /\ BufferInv /\ CounterInv /\ ResultInv
  BY Sizes DEF Init, StaysInPacket, BufferInv, CounterInv, ResultInv, Running
<1>4. QED
  BY <1>1, <1>2, <1>3 DEF IInv, TypeOK

\* Every step preserves the invariant.
LEMMA NextIInv == IInv /\ [Next]_vars => IInv'
<1> SUFFICES ASSUME IInv, [Next]_vars PROVE IInv'
    OBVIOUS
<1>1. ASSUME NEW n \in {0, 1}, SendNcg(n) \/ SendPacketAck(n) \/ SendPacketNak(n)
      PROVE  IInv'
  BY <1>1, SendByteInv DEF SendNcg, SendPacketAck, SendPacketNak
<1>2. ASSUME NEW n \in {0, 1}, SendEotAck(n) PROVE IInv'
  BY <1>2, SendEotAckInv
<1>3. ASSUME NEW n \in CanBytes, SendCan(n) PROVE IInv'
  BY <1>3, SendCanInv
<1>4. ASSUME NEW c \in Controls \cup {"none"}, NEW flushed \in BOOLEAN, RecvSoh(c, flushed)
      PROVE  IInv'
  BY <1>4, RecvSohInv
<1>5. ASSUME NEW n \in HeaderBytes, NEW h \in Headers, NEW flushed \in BOOLEAN,
             RecvPacketHeader(n, h, flushed)
      PROVE  IInv'
  BY <1>5, RecvPacketHeaderInv
<1>6. ASSUME NEW n \in DataBytes, NEW p \in Payloads, RecvPacketData(n, p) PROVE IInv'
  BY <1>6, RecvPacketDataInv
<1>7. CASE StreamError \/ Tick
  BY <1>7, StreamErrorInv, TickInv
<1>8. CASE UNCHANGED vars
  BY <1>8 DEF vars, control, counters, buffer, file, IInv, TypeOK, ControlTypeOK,
     CounterTypeOK, BufferTypeOK, FileTypeOK, StaysInPacket, WrittenIsPrefix,
     BufferInv, CounterInv, ResultInv, Active, Running
<1>9. QED
  BY <1>1, <1>2, <1>3, <1>4, <1>5, <1>6, <1>7, <1>8 DEF Next, Run

\* The invariant holds throughout a transfer.
LEMMA Invariance == Safe => []IInv
BY InitIInv, NextIInv, PTL DEF Safe

\* Every variable of the receiver keeps its type and no counter passes its limit.
THEOREM TypeCorrect == Safe => []TypeOK
<1>1. IInv => TypeOK
  BY DEF IInv
<1>2. QED
  BY <1>1, Invariance, PTL

\* run() asks the stream for bytes, and flushes bytes, only within the packet: none of
\* its unsigned subtractions wraps around, whatever the sizes of the packets and
\* however few bytes each read returns.
THEOREM ReadsStayInPacket == Safe => []StaysInPacket
<1>1. IInv => StaysInPacket
  BY DEF IInv
<1>2. QED
  BY <1>1, Invariance, PTL

\* The destination stream holds exactly the first fileOffs bytes, each from a complete
\* packet, whatever the sender repeats or cuts short.
THEOREM WritesPrefix == Safe => []WrittenIsPrefix
<1>1. IInv => WrittenIsPrefix
  BY DEF IInv
<1>2. QED
  BY <1>1, Invariance, PTL

\* run() reports DONE only when every byte of the file has been written.
DoneMeansWholeFile ==
    ret = "DONE" => \A i \in 0 .. FileSize - 1 : written[i] # Unwritten

\* DONE is reported only for a file of which every byte was written.
THEOREM DoneIsWhole == Safe => []DoneMeansWholeFile
<1>1. IInv => DoneMeansWholeFile
  BY DEF IInv, TypeOK, FileTypeOK, WrittenIsPrefix, ResultInv, DoneMeansWholeFile
<1>2. QED
  BY <1>1, Invariance, PTL

-------------------------------------------------------------------------------
(* The number of packets *)

\* Where packets can be counted, the packet before is in the buffer, and a header is
\* read only while the file is incomplete.
CountableInv ==
    /\ state = "SEND_NCG" => packetNum = 0
    /\ state \in {"RECV_SOH", "RECV_PACKET_HEADER"} /\ packetNum # 0 =>
         packetSize \in PacketSizes
    /\ state = "RECV_PACKET_HEADER" => fileOffs < FileSize

\* Every packet but the last has brought at least SohSize bytes of an incomplete file.
PacketsInv ==
    /\ CountableInv
    /\ packetNum # 0 /\ fileOffs < FileSize => (packetNum - 1) * SohSize =< fileOffs
    /\ AtMostOnePacketTooMany

\* What one step does to the number of packets.
CountEffect ==
    \/ packetNum' = packetNum /\ fileOffs' \in fileOffs .. FileSize
    \/ state = "RECV_PACKET_HEADER" /\ packetNum' = packetNum + 1 /\ Flush

\* A packet is counted only by recvPacketHeader(), with the flush of the one before.
LEMMA StepHasCountEffect ==
    ASSUME IInv, CountableInv, [Next]_vars
    PROVE  CountEffect /\ CountableInv'
<1> USE DEF IInv, TypeOK
<1>1. fileOffs \in 0 .. FileSize /\ FileSize \in Nat
  BY Sizes DEF FileTypeOK
<1>2. Flushable /\ Flush => fileOffs' \in fileOffs .. FileSize
  BY <1>1, FlushSizeBounds DEF Flush
<1>3. state \in {"RECV_SOH", "RECV_PACKET_HEADER"} => Flushable
  BY DEF BufferInv, Flushable
<1>4. ASSUME NEW n \in {0, 1}, SendNcg(n) \/ SendPacketAck(n) \/ SendPacketNak(n)
      PROVE  CountEffect /\ CountableInv'
  BY <1>1, <1>4 DEF SendNcg, SendPacketAck, SendPacketNak, SendByte, SetState,
     WaitToSend, Return, CountEffect, CountableInv, BufferInv, counters, buffer, file
<1>5. ASSUME NEW n \in {0, 1}, SendEotAck(n) PROVE CountEffect /\ CountableInv'
  BY <1>1, <1>5 DEF SendEotAck, WaitToSend, Return, CountEffect, CountableInv,
     counters, file
<1>6. ASSUME NEW n \in CanBytes, SendCan(n) PROVE CountEffect /\ CountableInv'
  BY <1>1, <1>6 DEF SendCan, Return, CountEffect, CountableInv, counters, control, file
<1>7. ASSUME NEW c \in Controls \cup {"none"}, NEW flushed \in BOOLEAN, RecvSoh(c, flushed)
      PROVE  CountEffect /\ CountableInv'
  <2>1. CountEffect
    BY <1>1, <1>2, <1>3, <1>7 DEF RecvSoh, NoStart, RecvCan, RecvEot, RecvStart,
       FlushError, CountEffect, file
  <2>2. CountableInv'
    BY <1>1, <1>7 DEF RecvSoh, NoStart, RecvCan, RecvEot, RecvStart, FlushError,
       SetError, SetState, SetStateKeepTimer, Return, CountableInv, PacketSizes, file,
       control
  <2>3. QED
    BY <2>1, <2>2
<1>8. ASSUME NEW n \in HeaderBytes, NEW h \in Headers, NEW flushed \in BOOLEAN,
             RecvPacketHeader(n, h, flushed)
      PROVE  CountEffect /\ CountableInv'
  <2>1. CountEffect
    BY <1>1, <1>8 DEF RecvPacketHeader, BadHeader, DuplicateHeader, NextHeader,
       FlushError, CountEffect, file
  <2>2. CountableInv'
    BY <1>1, <1>8 DEF RecvPacketHeader, CheckPacketTimeout, BadHeader,
       DuplicateHeader, NextHeader, RecvData, FlushError, SetError, SetStateKeepTimer,
       CountableInv, PacketSizes, file, control
  <2>3. QED
    BY <2>1, <2>2
<1>9. ASSUME NEW n \in DataBytes, NEW p \in Payloads, RecvPacketData(n, p)
      PROVE  CountEffect /\ CountableInv'
  BY <1>1, <1>9 DEF RecvPacketData, CheckPacketTimeout, SetError, SetState,
     CountEffect, CountableInv, counters, control, file
<1>10. CASE StreamError \/ Tick
  BY <1>1, <1>10 DEF StreamError, Tick, Return, CountEffect, CountableInv, counters,
     buffer, file
<1>11. CASE UNCHANGED vars
  BY <1>1, <1>11 DEF CountEffect, CountableInv, PacketSizes, vars, control, counters,
     buffer, file
<1>12. QED
  BY <1>4, <1>5, <1>6, <1>7, <1>8, <1>9, <1>10, <1>11 DEF Next, Run

\* A counted packet accounts for at least SohSize bytes or completes the file.
LEMMA CountPreserves ==
    ASSUME IInv, IInv', PacketsInv, CountableInv', CountEffect
    PROVE  PacketsInv'
<1>1. /\ packetNum \in Nat /\ fileOffs \in 0 .. FileSize /\ fileOffs' \in 0 .. FileSize
      /\ FileSize \in Nat /\ SohSize \in Nat /\ StxSize \in Nat /\ SohSize < StxSize
  BY Sizes DEF IInv, TypeOK, CounterTypeOK, FileTypeOK
<1>2. CASE packetNum' = packetNum /\ fileOffs' \in fileOffs .. FileSize
  <2>1. (packetNum - 1) * SohSize \in Int
    BY <1>1
  <2>2. QED
    BY <1>1, <1>2, <2>1 DEF PacketsInv, AtMostOnePacketTooMany
<1>3. CASE state = "RECV_PACKET_HEADER" /\ packetNum' = packetNum + 1 /\ Flush
  <2>1. fileOffs < FileSize
    BY <1>3 DEF PacketsInv, CountableInv
  <2>2. CASE packetNum = 0
    <3>1. packetNum' = 1 /\ 0 * SohSize = 0
      BY <1>1, <1>3, <2>2
    <3>2. QED
      BY <1>1, <3>1 DEF PacketsInv, AtMostOnePacketTooMany
  <2>3. CASE packetNum # 0
    <3> DEFINE Before == (packetNum - 1) * SohSize
    <3>1. Before \in Int /\ Before =< fileOffs
      BY <1>1, <2>1, <2>3 DEF PacketsInv
    <3>2. (packetNum' - 2) * SohSize = Before
      <4>1. packetNum' - 2 = packetNum - 1
        BY <1>1, <1>3
      <4>2. QED
        BY <4>1
    <3>3. (packetNum' - 1) * SohSize = Before + SohSize
      <4>1. packetNum' - 1 = (packetNum - 1) + 1
        BY <1>1, <1>3
      <4>2. ((packetNum - 1) + 1) * SohSize = (packetNum - 1) * SohSize + SohSize
        BY <1>1
      <4>3. QED
        BY <4>1, <4>2
    <3>4. fileOffs' = FileSize \/ fileOffs' >= fileOffs + SohSize
      <4>1. packetSize \in PacketSizes
        BY <1>3, <2>3 DEF PacketsInv, CountableInv
      <4>2. QED
        BY <1>1, <1>3, <4>1 DEF Flush, FlushSize, PacketSizes, Overhead, HeaderSize,
           CrcSize
    <3> HIDE DEF Before
    <3>5. AtMostOnePacketTooMany'
      BY <1>1, <2>1, <3>1, <3>2 DEF AtMostOnePacketTooMany
    <3>6. fileOffs' < FileSize => (packetNum' - 1) * SohSize =< fileOffs'
      BY <1>1, <3>1, <3>3, <3>4
    <3>7. QED
      BY <3>5, <3>6 DEF PacketsInv
  <2>4. QED
    BY <2>2, <2>3
<1>4. QED
  BY <1>2, <1>3 DEF CountEffect

\* However short the packets are and however often they are repeated, the receiver
\* accepts at most one packet more than the file can need: a sender that never stops is
\* refused by recvSoh().
THEOREM PacketsBounded == Safe => []AtMostOnePacketTooMany
<1>1. Init => PacketsInv
  BY Sizes DEF Init, PacketsInv, CountableInv, AtMostOnePacketTooMany
<1>2. IInv /\ IInv' /\ PacketsInv /\ [Next]_vars => PacketsInv'
  BY StepHasCountEffect, CountPreserves DEF PacketsInv
<1>3. PacketsInv => AtMostOnePacketTooMany
  BY DEF PacketsInv
<1>4. QED
  BY <1>1, <1>2, <1>3, Invariance, PTL DEF Safe

-------------------------------------------------------------------------------
(* XmodemReceiver implements FileTransfer *)

\* What one step does to the file offset and to the result.
StepEffect ==
    \/ ret' = ret /\ fileOffs' = fileOffs
    \/ ret = "RUNNING" /\ ret' = ret /\ fileOffs' \in fileOffs .. FileSize
    \/ ret = "RUNNING" /\ fileOffs' = fileOffs /\ ret' \in Errors
    \/ ret = "RUNNING" /\ fileOffs' = fileOffs /\ ret' = "DONE" /\ fileOffs = FileSize

\* No step does anything else to the file offset and the result.
LEMMA StepHasEffect == ASSUME IInv, IInv', [Next]_vars PROVE StepEffect
<1> USE DEF IInv, TypeOK
<1>1. fileOffs \in 0 .. FileSize
  BY DEF FileTypeOK
<1>2. Flushable /\ Flush => fileOffs' \in fileOffs .. FileSize
  BY <1>1, FlushSizeBounds DEF Flush
<1>3. state \in {"RECV_SOH", "RECV_PACKET_HEADER"} => Flushable
  BY DEF BufferInv, Flushable
<1>4. state # "NEW" => ret = "RUNNING"
  BY DEF ResultInv, Running
<1>5. ASSUME NEW n \in {0, 1}, SendNcg(n) \/ SendPacketAck(n) \/ SendPacketNak(n)
      PROVE  StepEffect
  BY <1>4, <1>5 DEF SendNcg, SendPacketAck, SendPacketNak, SendByte, SetState,
     WaitToSend, Return, StepEffect, Errors, file
<1>6. ASSUME NEW n \in {0, 1}, SendEotAck(n) PROVE StepEffect
  BY <1>4, <1>6 DEF SendEotAck, WaitToSend, Return, StepEffect, Errors, ResultInv, file
<1>7. ASSUME NEW n \in CanBytes, SendCan(n) PROVE StepEffect
  BY <1>4, <1>7 DEF SendCan, Return, StepEffect, Errors, ResultInv, file, control
<1>8. ASSUME NEW c \in Controls \cup {"none"}, NEW flushed \in BOOLEAN, RecvSoh(c, flushed)
      PROVE  StepEffect
  BY <1>2, <1>3, <1>4, <1>8 DEF RecvSoh, NoStart, RecvCan, RecvEot, RecvStart,
     FlushError, SetError, SetState, SetStateKeepTimer, Return, StepEffect, Errors,
     file, control
<1>9. ASSUME NEW n \in HeaderBytes, NEW h \in Headers, NEW flushed \in BOOLEAN,
             RecvPacketHeader(n, h, flushed)
      PROVE  StepEffect
  BY <1>2, <1>3, <1>4, <1>9 DEF RecvPacketHeader, CheckPacketTimeout, BadHeader,
     DuplicateHeader, NextHeader, RecvData, FlushError, SetError, SetStateKeepTimer,
     StepEffect, file, control
<1>10. ASSUME NEW n \in DataBytes, NEW p \in Payloads, RecvPacketData(n, p)
       PROVE  StepEffect
  BY <1>10 DEF RecvPacketData, CheckPacketTimeout, SetError, SetState, StepEffect,
     file, control
<1>11. CASE StreamError \/ Tick
  BY <1>4, <1>11 DEF StreamError, Tick, Return, StepEffect, Errors, file
<1>12. CASE UNCHANGED vars
  BY <1>12 DEF StepEffect, vars, control, file
<1>13. QED
  BY <1>5, <1>6, <1>7, <1>8, <1>9, <1>10, <1>11, <1>12 DEF Next, Run

\* Every step of the receiver is a step of the file transfer or leaves it unchanged.
THEOREM ImplementsFileTransfer == Safe => TransferSafe
<1>1. Init => Transfer!Init
  BY DEF Init, Transfer!Init, Outcome
<1>2. ASSUME IInv, IInv', [Next]_vars
      PROVE  [Transfer!Next]_<<fileOffs, Outcome>>
  <2>1. StepEffect /\ fileOffs \in Nat /\ FileSize \in Nat
    BY <1>2, StepHasEffect, Sizes DEF IInv, TypeOK, FileTypeOK
  <2>2. ret \in Errors \cup {"RUNNING", "DONE"}
    BY <1>2 DEF IInv, TypeOK, ControlTypeOK
  <2>3. CASE ret' = ret /\ fileOffs' = fileOffs
    BY <2>3 DEF Outcome
  <2>4. CASE ret' = ret /\ fileOffs' # fileOffs
    <3>1. ret = "RUNNING" /\ fileOffs' \in fileOffs .. FileSize
      BY <2>1, <2>4 DEF StepEffect
    <3>2. PICK n \in 1 .. (FileSize - fileOffs) : fileOffs' = fileOffs + n
      BY <2>1, <2>4, <3>1
    <3>3. Outcome = "running" /\ Outcome' = Outcome
      BY <2>4, <3>1 DEF Outcome
    <3>4. QED
      BY <3>2, <3>3 DEF Transfer!Next, Transfer!Deliver
  <2>5. CASE ret' # ret
    BY <2>1, <2>5 DEF StepEffect, Outcome, Errors, Transfer!Next, Transfer!Succeed,
       Transfer!Fail
  <2>6. QED
    BY <2>3, <2>4, <2>5
<1>3. QED
  BY <1>1, <1>2, Invariance, PTL DEF Safe, TransferSafe, Transfer!Safe, Transfer!vars
===============================================================================
