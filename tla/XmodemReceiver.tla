---------------------------- MODULE XmodemReceiver ----------------------------
(***************************************************************************)
(* The XMODEM-1K receiver of main/xmodem_receiver.cpp.  An action is one   *)
(* call of run() in one state of the receiver; its parameters are what the *)
(* call gets from the source stream (how many bytes were read or written,  *)
(* which byte, header or payload) and from the destination stream (whether *)
(* the write of a flushed packet succeeds).  Next lets the other side send *)
(* anything at all; XmodemTransfer puts a sender and a link there.         *)
(*                                                                         *)
(* The bytes of a packet are abstracted to a header [num, ok], where ok    *)
(* says that num and numComp agree, and a payload [data, ok], where ok     *)
(* says that the checksum matches and data + k names the k-th byte.        *)
(***************************************************************************)
EXTENDS Integers

CONSTANTS
    FileSize,               \* the `size` argument of init()
    SohSize, StxSize,       \* payload sizes: 128 and 1024
    NumMod,                 \* packet numbers are bytes: 256
    NCG_INTERVAL, SEND_TIMEOUT, PACKET_TIMEOUT,
    MAX_NCG_RETRY_COUNT, MAX_PACKET_RETRY_COUNT,
    SEND_CAN_COUNT, RECV_CAN_COUNT,
    Data,                   \* names of the first byte of a payload
    NoPacket                \* the payload area holds no complete payload

ASSUME SizesAssumption ==
    /\ FileSize \in Nat \ {0}
    /\ SohSize \in Nat \ {0}
    /\ StxSize \in Nat
    /\ SohSize < StxSize

ASSUME LimitsAssumption ==
    /\ NumMod \in Nat
    /\ NumMod > 1
    /\ MAX_NCG_RETRY_COUNT \in Nat
    /\ MAX_PACKET_RETRY_COUNT \in Nat
    /\ MAX_PACKET_RETRY_COUNT =< MAX_NCG_RETRY_COUNT
    /\ SEND_CAN_COUNT \in Nat \ {0}
    /\ RECV_CAN_COUNT \in Nat \ {0}
    /\ RECV_CAN_COUNT > 1

ASSUME TimeoutsAssumption ==
    /\ NCG_INTERVAL \in Nat \ {0}
    /\ SEND_TIMEOUT \in Nat \ {0}
    /\ PACKET_TIMEOUT \in Nat
    /\ NCG_INTERVAL =< PACKET_TIMEOUT
    /\ SEND_TIMEOUT =< PACKET_TIMEOUT

ASSUME DataAssumption ==
    /\ Data \subseteq Nat
    /\ NoPacket \notin [data : Data, ok : BOOLEAN]

VARIABLES
    state,          \* state_
    elapsed,        \* util::millis() - stateTime_, kept at PACKET_TIMEOUT at most
    retryCount,     \* retryCount_
    canCount,       \* canCount_
    lastError,      \* lastError_
    fileOffs,       \* fileOffs_
    packetSize,     \* packetSize_
    packetOffs,     \* packetOffs_
    packetNum,      \* packetNum_
    start,          \* buf_[0]
    packet,         \* the payload in buf_, from buf_[3] on
    written,        \* what the destination stream holds, byte by byte
    ret             \* the last result of run()

control == <<state, elapsed, lastError, ret>>
counters == <<retryCount, canCount, packetNum>>
buffer == <<packetSize, packetOffs, start, packet>>
file == <<fileOffs, written>>
vars == <<control, counters, buffer, file>>

HeaderSize == 3     \* sizeof(PacketHeader)
CrcSize == 2        \* sizeof(PacketCrc)
Overhead == HeaderSize + CrcSize

States == {"NEW", "SEND_NCG", "RECV_SOH", "RECV_PACKET_HEADER",
           "RECV_PACKET_DATA", "SEND_PACKET_ACK", "SEND_PACKET_NAK",
           "SEND_EOT_ACK", "SEND_CAN"}
Errors == {"TIMEOUT", "CANCELLED", "PROTOCOL_ERROR", "LIMIT_EXCEEDED",
           "WRITE_FAILED", "STREAM_ERROR"}
Controls == {"SOH", "STX", "EOT", "CAN", "other"}
Headers == [num : 0 .. NumMod - 1, ok : BOOLEAN]
Payloads == [data : Data, ok : BOOLEAN]
Unwritten == [data |-> -1, ok |-> FALSE]

\* The whole packet that a start byte announces.
SizeOf(c) == (IF c = "SOH" THEN SohSize ELSE StxSize) + Overhead

-------------------------------------------------------------------------------
(* setState(), the timeouts, setError() and the return of run() *)

SetState(s) == state' = s /\ elapsed' = 0 /\ UNCHANGED <<lastError, ret>>

\* setState(s, false)
SetStateKeepTimer(s) == state' = s /\ UNCHANGED <<elapsed, lastError, ret>>

TimedOut(timeout) == elapsed >= timeout

\* Variant: the abort forgets to rewind the packet offset.
SetErrorKeepsOffset(e) ==
    /\ state' = "SEND_CAN" /\ elapsed' = 0 /\ lastError' = e
    /\ packetSize' = 0
    /\ UNCHANGED <<packetOffs, ret>>

SetError(e) ==
    /\ state' = "SEND_CAN"
    /\ elapsed' = 0
    /\ lastError' = e
    /\ packetSize' = 0
    /\ packetOffs' = 0
    /\ UNCHANGED ret

\* run() returns a final result and destroys the receiver.
Return(r) == state' = "NEW" /\ ret' = r /\ UNCHANGED <<elapsed, lastError>>

\* A call that cannot make progress: nothing changes until the timeout.
WaitToSend ==
    /\ TimedOut(SEND_TIMEOUT)
    /\ Return("TIMEOUT")
    /\ UNCHANGED buffer

CheckPacketTimeout ==
    IF TimedOut(PACKET_TIMEOUT) THEN SetError("TIMEOUT") /\ UNCHANGED start
    ELSE UNCHANGED <<control, packetSize, start>>

-------------------------------------------------------------------------------
(* flush(): the packet received last goes to the destination stream only   *)
(* when the sender has shown, by its next packet or by EOT, that it will   *)
(* not send that packet again.                                             *)

\* Variant: the padding of the last packet is taken for data.
FlushSizeWithPadding == IF packetSize = 0 THEN 0 ELSE packetSize - Overhead

FlushSize ==
    IF packetSize = 0 THEN 0
    ELSE IF FileSize - fileOffs < packetSize - Overhead THEN FileSize - fileOffs
    ELSE packetSize - Overhead

\* Byte k of the payload in the buffer.
PayloadByte(k) ==
    IF packet = NoPacket THEN Unwritten
    ELSE [data |-> packet.data + k, ok |-> packet.ok]

Flush ==
    /\ fileOffs' = fileOffs + FlushSize
    /\ written' = [i \in DOMAIN written |->
                     IF i \in fileOffs .. (fileOffs + FlushSize - 1)
                     THEN PayloadByte(i - fileOffs) ELSE written[i]]

\* A flush fails only when it has something to write.
FlushFails(flushed) == packetSize > 0 /\ ~flushed
FlushError == SetError("WRITE_FAILED") /\ UNCHANGED <<start, file>>

-------------------------------------------------------------------------------
(* init(), as called by the AT+FWUPD handler *)

Init ==
    /\ state = "SEND_NCG"
    /\ elapsed = 0
    /\ retryCount = 0 /\ canCount = 0 /\ packetNum = 0
    /\ lastError = "none"
    /\ fileOffs = 0
    /\ packetSize = 0 /\ packetOffs = 0
    /\ start = "other" /\ packet = NoPacket
    /\ written = [i \in 0 .. FileSize - 1 |-> Unwritten]
    /\ ret = "RUNNING"

(* sendNcg(), sendPacketAck(), sendPacketNak(): n of one byte is written *)
SendByte(from, n) ==
    /\ state = from
    /\ \/ n = 1 /\ SetState("RECV_SOH") /\ UNCHANGED buffer
       \/ n = 0 /\ WaitToSend
    /\ UNCHANGED <<counters, file>>

SendNcg(n) == SendByte("SEND_NCG", n)
SendPacketAck(n) == SendByte("SEND_PACKET_ACK", n)
SendPacketNak(n) == SendByte("SEND_PACKET_NAK", n)

SendEotAck(n) ==
    /\ state = "SEND_EOT_ACK"
    /\ \/ n = 1 /\ Return("DONE") /\ UNCHANGED buffer
       \/ n = 0 /\ WaitToSend
    /\ UNCHANGED <<counters, file>>

(* sendCan(): n more of the CAN bytes are written *)
SendCan(n) ==
    /\ state = "SEND_CAN"
    /\ packetSize' = SEND_CAN_COUNT
    /\ packetOffs' = packetOffs + n
    /\ packet' = IF packetSize = 0 THEN NoPacket ELSE packet
    /\ \/ packetOffs' = SEND_CAN_COUNT /\ Return(lastError)
       \/ packetOffs' # SEND_CAN_COUNT /\ TimedOut(SEND_TIMEOUT) /\ Return("TIMEOUT")
       \/ packetOffs' # SEND_CAN_COUNT /\ ~TimedOut(SEND_TIMEOUT) /\ UNCHANGED control
    /\ UNCHANGED <<counters, start, file>>

-------------------------------------------------------------------------------
(* recvSoh() *)

\* Variant: the number of invitations is not counted.
NoStartUncounted ==
    /\ UNCHANGED <<canCount, packetNum, packet, file, retryCount, start>>
    /\ IF packetNum # 0 THEN TimedOut(PACKET_TIMEOUT) /\ SetError("TIMEOUT")
       ELSE /\ TimedOut(NCG_INTERVAL)
            /\ SetState("SEND_NCG")
            /\ UNCHANGED <<packetSize, packetOffs>>

\* Nothing to read: the sender is invited again, or the packet is late.
NoStart ==
    /\ UNCHANGED <<canCount, packetNum, packet, file>>
    /\ IF packetNum # 0
       THEN /\ TimedOut(PACKET_TIMEOUT)
            /\ SetError("TIMEOUT")
            /\ UNCHANGED <<retryCount, start>>
       ELSE /\ TimedOut(NCG_INTERVAL)
            /\ retryCount' = retryCount + 1
            /\ IF retryCount' > MAX_NCG_RETRY_COUNT THEN Return("TIMEOUT")
               ELSE SetState("SEND_NCG")
            /\ UNCHANGED <<packetSize, packetOffs, start>>

RecvCan ==
    /\ canCount' = canCount + 1
    /\ IF canCount' = RECV_CAN_COUNT THEN SetError("CANCELLED") /\ UNCHANGED start
       ELSE UNCHANGED <<control, packetSize, packetOffs, start>>
    /\ UNCHANGED <<packet, file>>

\* Variant: the file is taken for complete when the last flush fails.
RecvEotIgnoresWriteError(flushed) ==
    /\ canCount' = 0
    /\ IF ~FlushFails(flushed) /\ fileOffs + FlushSize < FileSize
       THEN Flush /\ SetError("PROTOCOL_ERROR")
       ELSE /\ IF flushed THEN Flush ELSE UNCHANGED file
            /\ SetState("SEND_EOT_ACK")
            /\ packetSize' = 0
            /\ UNCHANGED packetOffs
    /\ UNCHANGED <<start, packet>>

\* Variant: EOT is acknowledged like a packet and the transfer goes on.
RecvEotAsPacket(flushed) ==
    /\ canCount' = 0
    /\ IF FlushFails(flushed) THEN FlushError
       ELSE Flush /\ SetState("SEND_PACKET_ACK") /\ packetSize' = 0 /\ UNCHANGED <<packetOffs, start>>
    /\ UNCHANGED packet

\* The last packet is flushed; the file must be complete.
RecvEot(flushed) ==
    /\ canCount' = 0
    /\ UNCHANGED packet
    /\ IF FlushFails(flushed) THEN FlushError
       ELSE /\ Flush
            /\ UNCHANGED start
            /\ IF fileOffs' < FileSize THEN SetError("PROTOCOL_ERROR")
               ELSE /\ SetState("SEND_EOT_ACK")
                    /\ packetSize' = 0
                    /\ UNCHANGED packetOffs

\* Variant: packets are accepted even when the file is complete.
RecvStartUnchecked(c) ==
    /\ canCount' = 0
    /\ IF c \notin {"SOH", "STX"} THEN SetError("PROTOCOL_ERROR") /\ UNCHANGED start
       ELSE /\ start' = c
            /\ packetOffs' = 1
            /\ SetStateKeepTimer("RECV_PACKET_HEADER")
            /\ UNCHANGED packetSize
    /\ UNCHANGED <<packet, file>>

RecvStart(c) ==
    /\ canCount' = 0
    /\ IF c \notin {"SOH", "STX"} \/ fileOffs = FileSize
       THEN SetError("PROTOCOL_ERROR") /\ UNCHANGED start
       ELSE /\ start' = c
            /\ packetOffs' = 1
            /\ SetStateKeepTimer("RECV_PACKET_HEADER")
            /\ UNCHANGED packetSize
    /\ UNCHANGED <<packet, file>>

RecvSoh(c, flushed) ==
    /\ state = "RECV_SOH"
    /\ \/ c = "none" /\ NoStart
       \/ c = "CAN" /\ RecvCan /\ UNCHANGED <<retryCount, packetNum>>
       \/ c = "EOT" /\ RecvEot(flushed) /\ UNCHANGED <<retryCount, packetNum>>
       \/ /\ c \in Controls \ {"CAN", "EOT"}
          /\ RecvStart(c)
          /\ UNCHANGED <<retryCount, packetNum>>

-------------------------------------------------------------------------------
(* recvPacketHeader(): n more bytes are read; h is the header once it is   *)
(* complete.                                                               *)

HeaderComplete(n) == packetOffs + n = HeaderSize

\* The announced payload is read next, over the one in the buffer.
RecvData ==
    /\ SetStateKeepTimer("RECV_PACKET_DATA")
    /\ packetSize' = SizeOf(start)
    /\ packetOffs' = HeaderSize
    /\ UNCHANGED start

IsDuplicate(h) == packetNum # 0 /\ h.num = packetNum % NumMod
IsSuccessor(h) == h.num = (packetNum + 1) % NumMod

\* Variant: retransmissions are not limited.
DuplicateHeaderUnlimited ==
    /\ retryCount' = retryCount + 1
    /\ RecvData
    /\ UNCHANGED <<packetNum, file>>

\* Variant: the last retransmission that the limit allows is refused.
DuplicateHeaderTooStrict ==
    /\ retryCount' = retryCount + 1
    /\ IF retryCount' >= MAX_PACKET_RETRY_COUNT
       THEN SetError("LIMIT_EXCEEDED") /\ UNCHANGED start
       ELSE RecvData
    /\ UNCHANGED <<packetNum, file>>

\* Variant: a repeated packet is taken for the next one.
DuplicateHeaderCounted ==
    /\ Flush
    /\ packetNum' = packetNum + 1
    /\ retryCount' = 0
    /\ RecvData

DuplicateHeader ==
    /\ retryCount' = retryCount + 1
    /\ IF retryCount' > MAX_PACKET_RETRY_COUNT
       THEN SetError("LIMIT_EXCEEDED") /\ UNCHANGED start
       ELSE RecvData
    /\ UNCHANGED <<packetNum, file>>

NextHeader(flushed) ==
    IF FlushFails(flushed)
    THEN FlushError /\ UNCHANGED <<retryCount, packetNum>>
    ELSE /\ Flush
         /\ packetNum' = packetNum + 1
         /\ retryCount' = 0
         /\ RecvData

BadHeader ==
    /\ SetError("PROTOCOL_ERROR")
    /\ UNCHANGED <<retryCount, packetNum, start, file>>

RecvPacketHeader(n, h, flushed) ==
    /\ state = "RECV_PACKET_HEADER"
    /\ UNCHANGED <<canCount, packet>>
    /\ \/ /\ ~HeaderComplete(n)
          /\ CheckPacketTimeout
          /\ TimedOut(PACKET_TIMEOUT) \/ packetOffs' = packetOffs + n
          /\ UNCHANGED <<retryCount, packetNum, file>>
       \/ /\ HeaderComplete(n)
          /\ \/ ~h.ok /\ BadHeader
             \/ h.ok /\ IsDuplicate(h) /\ DuplicateHeader
             \/ h.ok /\ ~IsDuplicate(h) /\ ~IsSuccessor(h) /\ BadHeader
             \/ h.ok /\ ~IsDuplicate(h) /\ IsSuccessor(h) /\ NextHeader(flushed)

\* Variant: the checksum is not verified.
RecvPacketDataUnverified(n, p) ==
    /\ state = "RECV_PACKET_DATA"
    /\ UNCHANGED <<counters, start, file>>
    /\ \/ /\ packetOffs + n # packetSize
          /\ packet' = IF n > 0 THEN NoPacket ELSE packet
          /\ CheckPacketTimeout
          /\ TimedOut(PACKET_TIMEOUT) \/ packetOffs' = packetOffs + n
       \/ /\ packetOffs + n = packetSize
          /\ packet' = p
          /\ SetState("SEND_PACKET_ACK")
          /\ packetOffs' = packetSize
          /\ UNCHANGED packetSize

(* recvPacketData(): n more bytes are read; p is the payload once it is    *)
(* complete.                                                               *)
RecvPacketData(n, p) ==
    /\ state = "RECV_PACKET_DATA"
    /\ UNCHANGED <<counters, start, file>>
    /\ \/ /\ packetOffs + n # packetSize
          /\ packet' = IF n > 0 THEN NoPacket ELSE packet
          /\ CheckPacketTimeout
          /\ TimedOut(PACKET_TIMEOUT) \/ packetOffs' = packetOffs + n
       \/ /\ packetOffs + n = packetSize
          /\ packet' = p
          /\ \/ /\ p.ok \/ retryCount < MAX_PACKET_RETRY_COUNT
                /\ SetState(IF p.ok THEN "SEND_PACKET_ACK" ELSE "SEND_PACKET_NAK")
                /\ packetOffs' = packetSize
                /\ UNCHANGED packetSize
             \/ /\ ~p.ok
                /\ retryCount >= MAX_PACKET_RETRY_COUNT
                /\ SetError("LIMIT_EXCEEDED")

-------------------------------------------------------------------------------
(* The source stream returns an error: CHECK() passes it on to run(). *)
StreamError ==
    /\ state # "NEW"
    /\ Return("STREAM_ERROR")
    /\ UNCHANGED <<counters, buffer, file>>

(* Time passes between two calls of run(). *)
Tick ==
    /\ state # "NEW"
    /\ elapsed < PACKET_TIMEOUT
    /\ elapsed' = elapsed + 1
    /\ UNCHANGED <<state, lastError, ret, counters, buffer, file>>

\* A call of run() that the streams give nothing to.
Idle ==
    \/ SendNcg(0) \/ SendPacketAck(0) \/ SendPacketNak(0) \/ SendEotAck(0)
    \/ SendCan(0)
    \/ RecvSoh("none", TRUE)
    \/ \E h \in Headers : RecvPacketHeader(0, h, TRUE)
    \/ \E p \in Payloads : RecvPacketData(0, p)

\* How many of the bytes that it asks for a call can get.
HeaderBytes == IF state = "RECV_PACKET_HEADER" THEN 0 .. HeaderSize - packetOffs ELSE {}
DataBytes == IF state = "RECV_PACKET_DATA" THEN 0 .. packetSize - packetOffs ELSE {}
CanBytes == IF state = "SEND_CAN" THEN 0 .. SEND_CAN_COUNT - packetOffs ELSE {}

Run ==
    \/ \E n \in {0, 1} :
          SendNcg(n) \/ SendPacketAck(n) \/ SendPacketNak(n) \/ SendEotAck(n)
    \/ \E n \in CanBytes : SendCan(n)
    \/ \E c \in Controls \cup {"none"}, flushed \in BOOLEAN : RecvSoh(c, flushed)
    \/ \E n \in HeaderBytes, h \in Headers, flushed \in BOOLEAN :
          RecvPacketHeader(n, h, flushed)
    \/ \E n \in DataBytes, p \in Payloads : RecvPacketData(n, p)
    \/ StreamError

Next == Run \/ Tick

Safe == Init /\ [][Next]_vars

\* The handler calls run() in a loop and time goes on; nothing is assumed of
\* the other side.
Spec == Safe /\ WF_vars(Tick) /\ WF_vars(Idle)

-------------------------------------------------------------------------------
(* Properties *)

PacketSizes == {SohSize + Overhead, StxSize + Overhead}

ControlTypeOK ==
    /\ state \in States
    /\ elapsed \in 0 .. PACKET_TIMEOUT
    /\ lastError \in Errors \cup {"none"}
    /\ ret \in Errors \cup {"RUNNING", "DONE"}
CounterTypeOK ==
    /\ retryCount \in 0 .. MAX_NCG_RETRY_COUNT + 1
    /\ canCount \in 0 .. RECV_CAN_COUNT
    /\ packetNum \in Nat
BufferTypeOK ==
    /\ packetSize \in PacketSizes \cup {0, SEND_CAN_COUNT}
    /\ packetOffs \in 0 .. (IF SEND_CAN_COUNT > StxSize + Overhead
                            THEN SEND_CAN_COUNT ELSE StxSize + Overhead)
    /\ start \in Controls
    /\ packet \in Payloads \cup {NoPacket}
FileTypeOK ==
    /\ fileOffs \in 0 .. FileSize
    /\ written \in [0 .. FileSize - 1 -> [data : Int, ok : BOOLEAN]]

\* What every variable may hold; in particular, no counter passes its limit.
TypeOK == ControlTypeOK /\ CounterTypeOK /\ BufferTypeOK /\ FileTypeOK

\* The unsigned subtractions that say how many bytes a call may read, write or
\* flush never wrap around, and at least one byte is missing when it asks for
\* some: run() reads into buf_ and flushes from it within the packet
\* (recvPacketHeader, recvPacketData, sendCan, flush).
StaysInPacket ==
    /\ state = "RECV_PACKET_HEADER" => packetOffs \in 1 .. HeaderSize - 1
    /\ state = "RECV_PACKET_DATA" =>
         packetSize >= Overhead /\ packetOffs \in HeaderSize .. packetSize - 1
    /\ state \in {"RECV_SOH", "RECV_PACKET_HEADER"} =>
         packetSize = 0 \/ packetSize > Overhead
    /\ state = "SEND_CAN" =>
         packetSize \in {packetOffs, SEND_CAN_COUNT} /\ packetOffs < SEND_CAN_COUNT

\* The destination holds exactly the first fileOffs bytes of the file, each of
\* them from a packet that had been received completely when flush() wrote it,
\* however packets are repeated, resized or cut short.
WrittenIsPrefix ==
    /\ fileOffs =< FileSize
    /\ \A i \in 0 .. FileSize - 1 : (written[i] # Unwritten) <=> (i < fileOffs)

\* The receiver accepts at most one packet more than the file can need, so that
\* a sender that never stops cannot keep the AT task in the transfer.
AtMostOnePacketTooMany ==
    packetNum < 2 \/ (packetNum - 2) * SohSize < FileSize

\* recvSoh() promises to refuse a packet that starts after the whole file has
\* been received ("Unexpected packet").
NoPacketBeyondFile ==
    [][packetNum' # packetNum => fileOffs' < FileSize]_vars

\* run() ends the transfer whatever the other side sends or fails to send, by
\* its timeouts and retry limits alone.
Termination == <>(state = "NEW")

\* The receiver implements the file transfer that the AT+FWUPD handler counts on.
Outcome ==
    CASE ret = "RUNNING" -> "running"
      [] ret = "DONE" -> "done"
      [] OTHER -> "failed"

Transfer == INSTANCE FileTransfer WITH delivered <- fileOffs, outcome <- Outcome
TransferSafe == Transfer!Safe
TransferSpec == Transfer!Spec
===============================================================================
