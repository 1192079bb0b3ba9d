---------------------------- MODULE XmodemTransfer ----------------------------
(***************************************************************************)
(* XmodemReceiver with a sender and a serial link.  The sender is not in   *)
(* this repository (README: sx -k of lrzsz): it is a stop-and-wait sender  *)
(* that the receiver's code is written for.  It waits for C, sends one     *)
(* packet at a time, sends the next one on ACK and the same one on NAK or  *)
(* when it hears nothing, ends with EOT, and gives up on CAN.              *)
(*                                                                         *)
(* The link keeps the order of what it carries.  It may lose a frame or a  *)
(* control byte and damage a payload, MaxFaults times in all.              *)
(***************************************************************************)
EXTENDS XmodemReceiver, Sequences

CONSTANTS
    MaxFaults,          \* bound: losses and damaged payloads
    MaxEarlyTimeouts,   \* bound: times the sender repeats itself too soon
    Prompt              \* whether sender and link answer within the timeouts

ASSUME LinkAssumption ==
    /\ MaxFaults \in Nat
    /\ MaxEarlyTimeouts \in Nat
    /\ Prompt \in BOOLEAN

\* A payload is named by the offset of its first byte.
ASSUME OffsetsAssumption == 0 .. FileSize - 1 \subseteq Data

VARIABLES
    sendState,          \* "start", "packet", "eot", "done" or "stopped"
    sendNum,            \* number of the packet being sent
    sendOffs,           \* offset of that packet in the file
    toReceiver,         \* frames on the way; the receiver reads the head in parts
    toSender,           \* control bytes on the way
    faults, early       \* how many of each have happened

sender == <<sendState, sendNum, sendOffs>>
link == <<toReceiver, toSender>>
receiver == vars
budget == <<faults, early>>
allVars == <<receiver, sender, link, budget>>

-------------------------------------------------------------------------------
(* The sender *)

\* The long packet is used while it can be filled.
StartByte(offs) == IF FileSize - offs >= StxSize THEN "STX" ELSE "SOH"
PayloadSize(offs) == SizeOf(StartByte(offs)) - Overhead

Frame(num, offs, ok) ==
    [start |-> StartByte(offs), num |-> num % NumMod, data |-> offs, ok |-> ok]
Eot == [start |-> "EOT", num |-> 0, data |-> 0, ok |-> TRUE]

NoFault == UNCHANGED faults
Fault == faults < MaxFaults /\ faults' = faults + 1

\* The frame goes onto the link, perhaps damaged, or is lost.
Put(Damaged, f) ==
    \/ NoFault /\ toReceiver' = Append(toReceiver, f)
    \/ Fault /\ UNCHANGED toReceiver
    \/ Fault /\ Damaged /\ toReceiver' = Append(toReceiver, [f EXCEPT !.ok = FALSE])

\* Send the part of the file that starts at offs, or EOT after its end.
SendFrom(num, offs) ==
    /\ sendNum' = num
    /\ sendOffs' = offs
    /\ sendState' = IF offs < FileSize THEN "packet" ELSE "eot"
    /\ IF offs < FileSize THEN Put(TRUE, Frame(num, offs, TRUE)) ELSE Put(FALSE, Eot)

Begin(c) == sendState = "start" /\ c = "C" /\ SendFrom(1, 0)

Advance(c) ==
    /\ c = "ACK"
    /\ \/ /\ sendState = "packet"
          /\ SendFrom(sendNum + 1, sendOffs + PayloadSize(sendOffs))
       \/ /\ sendState = "eot"
          /\ sendState' = "done"
          /\ NoFault
          /\ UNCHANGED <<sendNum, sendOffs, toReceiver>>

Waiting == sendState \in {"packet", "eot"}

Repeat(c) == c = "NAK" /\ Waiting /\ SendFrom(sendNum, sendOffs)

GiveUp(c) ==
    /\ c = "CAN"
    /\ sendState' = "stopped"
    /\ NoFault
    /\ UNCHANGED <<sendNum, sendOffs, toReceiver>>

\* A byte that means nothing to the sender in its state.
Ignore(c) ==
    /\ \/ c = "C" /\ sendState # "start"
       \/ c \in {"ACK", "NAK"} /\ ~Waiting
    /\ NoFault
    /\ UNCHANGED <<sender, toReceiver>>

HearControl ==
    /\ toSender # <<>>
    /\ toSender' = Tail(toSender)
    /\ LET c == Head(toSender)
       IN  Begin(c) \/ Advance(c) \/ Repeat(c) \/ GiveUp(c) \/ Ignore(c)
    /\ UNCHANGED <<receiver, early>>

\* Nothing is on the way in either direction and the receiver only waits.
NothingInFlight == link = <<<<>>, <<>>>> /\ state \in {"RECV_SOH", "NEW"}

\* The sender hears nothing and repeats itself: rightly, or too soon.
SenderTimeout ==
    /\ Waiting
    /\ state # "NEW"
    /\ \/ NothingInFlight /\ UNCHANGED early
       \/ ~NothingInFlight /\ early < MaxEarlyTimeouts /\ early' = early + 1
    /\ SendFrom(sendNum, sendOffs)
    /\ UNCHANGED <<receiver, toSender>>

-------------------------------------------------------------------------------
(* The receiver, reading the head of the link and answering on it *)

Answer(c) ==
    /\ \/ NoFault /\ toSender' = Append(toSender, c)
       \/ Fault /\ UNCHANGED toSender
    /\ UNCHANGED toReceiver

ReceiverAnswers ==
    /\ \/ SendNcg(1) /\ Answer("C")
       \/ SendPacketAck(1) /\ Answer("ACK")
       \/ SendPacketNak(1) /\ Answer("NAK")
       \/ SendEotAck(1) /\ Answer("ACK")
       \/ SendCan(SEND_CAN_COUNT - packetOffs) /\ Answer("CAN")
    /\ UNCHANGED <<sender, early>>

ReceiverReads ==
    /\ toReceiver # <<>>
    /\ LET f == Head(toReceiver)
       IN  \/ RecvSoh(f.start, TRUE)
           \/ RecvPacketHeader(HeaderSize - packetOffs, [num |-> f.num, ok |-> TRUE], TRUE)
           \/ RecvPacketData(packetSize - packetOffs, [data |-> f.data, ok |-> f.ok])
    /\ toReceiver' = IF state = "RECV_PACKET_DATA" \/ Head(toReceiver) = Eot
                     THEN Tail(toReceiver) ELSE toReceiver
    /\ UNCHANGED <<sender, toSender, budget>>

\* The receiver finds nothing to read or no room to write.
ReceiverIdles == Idle /\ UNCHANGED <<sender, link, budget>>

\* When sender and link are prompt, only the wait for a sender that has not
\* heard the invitation is long enough for a timeout.
Time ==
    /\ Prompt => sendState = "start" /\ NothingInFlight
    /\ Tick
    /\ UNCHANGED <<sender, link, budget>>

TransferInit ==
    /\ Init
    /\ sendState = "start" /\ sendNum = 0 /\ sendOffs = 0
    /\ toReceiver = <<>> /\ toSender = <<>>
    /\ faults = 0 /\ early = 0

ReceiverStep == ReceiverAnswers \/ ReceiverReads \/ ReceiverIdles
SenderStep == HearControl \/ SenderTimeout
TransferNext == ReceiverStep \/ SenderStep \/ Time

TransferSafely == TransferInit /\ [][TransferNext]_allVars

\* Both sides run and time goes on.
TransferFairly ==
    TransferSafely /\ WF_allVars(ReceiverStep) /\ WF_allVars(SenderStep) /\ WF_allVars(Time)

-------------------------------------------------------------------------------
(* Properties *)

\* Every byte in the OTA partition is the byte of the file that belongs there,
\* and comes from a packet whose checksum matched: recvPacketData() verifies the
\* checksum before it acknowledges a packet, and flush() writes it afterwards.
WrittenIsTheFile ==
    \A i \in 0 .. FileSize - 1 :
        written[i] # Unwritten => written[i] = [data |-> i, ok |-> TRUE]

\* The same, for a sender that never repeats itself too soon.
WrittenIsVerified == early = 0 => WrittenIsTheFile

\* Even then every byte is in its place: packet numbers tell a repetition from
\* the next packet, and a lost packet from a received one, in recvPacketHeader().
WrittenInOrder ==
    \A i \in 0 .. FileSize - 1 : written[i] # Unwritten => written[i].data = i

\* Each repetition that was too soon lets the sender get ahead by one more packet at most,
\* as an answer carries no number, and by no more, as long as packet numbers can tell the
\* packets apart.
DriftBounded ==
    early < NumMod - 1 /\ state \notin {"NEW", "SEND_CAN", "SEND_EOT_ACK"} =>
        sendNum - packetNum \in 0 .. 1 + early

\* A sender whose EOT was acknowledged has delivered the whole file.
EotAckMeansDone == early = 0 /\ sendState = "done" => ret = "DONE"

\* With a prompt sender and link, and no more faults than one packet may suffer,
\* the transfer succeeds.
Completes == <>(ret = "DONE")
===============================================================================
