----------------------------- MODULE SdioTransmit -----------------------------
(***************************************************************************)
(* The transmit half of main/at_transport_sdio.cpp: writeData(), called by *)
(* any task, the TX thread, waitWriteComplete() and destroyTransport().    *)
(* rb is txBuf_.  A block between a lock of txMutex_ and its unlock is one *)
(* action.  The SDIO driver of ESP-IDF lends the queued block to the host, *)
(* which reads it from the memory of the ring buffer at any later time.    *)
(*                                                                         *)
(* The n-th byte that is ever written has the value n, so that the host    *)
(* can tell which bytes it gets; 0 is memory never written.                *)
(***************************************************************************)
EXTENDS RingBuffer

CONSTANTS
    Block,          \* CONFIG_AT_SDIO_BLOCK_SIZE
    Lengths,        \* the lengths that writeData() is called with
    MaxBytes,       \* bound: bytes written
    MaxFailures     \* bound: failures of sdio_slave_send_queue()

Word == 4           \* sizeof(uint32_t)

ASSUME TransmitAssumption ==
    /\ Block \in Nat \ {0}
    /\ Block % 4 = 0
    /\ Size % Block = 0
    /\ Lengths \subseteq Nat \ {0}
    /\ MaxBytes \in Nat
    /\ MaxFailures \in Nat
    /\ Byte = 0 .. MaxBytes

VARIABLES
    transmitting,       \* transmitting_
    queued,             \* blocks queued to the driver: [from, len, consume]
    finished,           \* their consume arguments, once the host has read them
    exit,               \* exit_
    tx, taken,          \* the TX thread, and what get_finished() gave it
    rxRuns,             \* whether the RX thread runs
    task,               \* the AT task, in waitWriteComplete() or destroyTransport()
    closing,            \* destroyTransport() has been called
    written,            \* bytes put into txBuf_ by writeData()
    waitFrom,           \* written when waitWriteComplete() was called
    received,           \* what the host has read
    failures

driver == <<queued, finished>>
txThread == <<tx, taken>>
atTask == <<task, closing, waitFrom>>
vars == <<rb, transmitting, driver, exit, txThread, rxRuns, atTask,
          written, received, failures>>

Least(m, n) == IF m < n THEN m ELSE n
NewBytes(n) == [i \in 1 .. n |-> written + i]

-------------------------------------------------------------------------------
(* startTransmission(), on a buffer b that the caller may have filled *)

\* What is sent next, before it is padded to whole words.
Sendable(b) == Least(Consumable(b), Block)
Padding(b) == IF Sendable(b) % Word = 0 THEN 0 ELSE Word - (Sendable(b) % Word)
Padded(b) == IF Padding(b) = 0 THEN b ELSE Skip(b, Padding(b))
\* consumable is computed anew after padding
Lent(b) == IF Padding(b) = 0 THEN Sendable(b) ELSE Consumable(Padded(b))

Descriptor(b) ==
    [from |-> Wrap(b.tail + b.tailPending),
     len |-> Lent(b) - Padding(b),
     consume |-> Lent(b)]

\* RESULT_NO_MEMORY: there is no space for the padding.
NoSpace(b) == Padding(b) > 0 /\ Space(b) < Padding(b)
\* RESULT_ERROR: these are no whole words even with the padding.
NotWhole(b) == Lent(b) % Word # 0
Refused(b) == NoSpace(b) \/ NotWhole(b)

\* Nothing is queued; RESULT_ERROR leaves the padding in the buffer.
NothingStarted(b) ==
    /\ transmitting \/ Sendable(b) = 0 \/ Refused(b)
    /\ rb' = IF transmitting \/ Sendable(b) = 0 \/ NoSpace(b) THEN b ELSE Padded(b)
    /\ UNCHANGED <<transmitting, queued, failures>>

\* Variant: the block is queued although one is on its way.
StartTwice(b) ==
    /\ Sendable(b) # 0 /\ ~Refused(b)
    /\ rb' = Consume(Padded(b), Lent(b))
    /\ queued' = Append(queued, Descriptor(b))
    /\ transmitting' = TRUE
    /\ UNCHANGED failures

\* Variant: the block is not padded to whole words.
StartUnpadded(b) ==
    /\ ~transmitting /\ Sendable(b) # 0
    /\ rb' = Consume(b, Sendable(b))
    /\ queued' = Append(queued, [from |-> Wrap(b.tail + b.tailPending),
                                 len |-> Sendable(b), consume |-> Sendable(b)])
    /\ transmitting' = TRUE
    /\ UNCHANGED failures

Start(b) ==
    /\ ~transmitting /\ Sendable(b) # 0 /\ ~Refused(b)
    /\ rb' = Consume(Padded(b), Lent(b))
    /\ queued' = Append(queued, Descriptor(b))
    /\ transmitting' = TRUE
    /\ UNCHANGED failures

\* sdio_slave_send_queue() fails: what was lent is taken back.
StartFails(b) ==
    /\ ~transmitting /\ Sendable(b) # 0 /\ ~Refused(b)
    /\ failures < MaxFailures
    /\ failures' = failures + 1
    /\ rb' = ConsumeCommit(Consume(Padded(b), Lent(b)), 0, Lent(b))
    /\ UNCHANGED <<transmitting, queued>>

StartTransmission(b) == NothingStarted(b) \/ Start(b) \/ StartFails(b)

-------------------------------------------------------------------------------
(* writeData(): as much as there is space for is put into the buffer *)

Stored(len) == Least(Space(rb), len)
Filled(len) == IF Stored(len) > 0 THEN Put(rb, NewBytes(Stored(len))) ELSE rb

\* No task writes any more when the AT task tears the transport down.
MayWrite(len) == ~closing /\ written + Stored(len) =< MaxBytes

WriteData(len) ==
    /\ MayWrite(len)
    /\ StartTransmission(Filled(len))
    /\ written' = written + Stored(len)
    /\ UNCHANGED <<finished, exit, txThread, rxRuns, atTask, received>>

-------------------------------------------------------------------------------
(* The SDIO driver and the host *)

HostReads ==
    /\ queued # <<>>
    /\ received' = received \o [i \in 1 .. Head(queued).len |->
                                   rb.cell[Wrap(Head(queued).from + i - 1)]]
    /\ finished' = Append(finished, Head(queued).consume)
    /\ queued' = Tail(queued)
    /\ UNCHANGED <<rb, transmitting, exit, txThread, rxRuns, atTask, written, failures>>

-------------------------------------------------------------------------------
(* txRun() *)

TxStep(from, to) == tx = from /\ tx' = to

\* while (!exit_)
TxLoop ==
    /\ TxStep("loop", IF exit = 0 THEN "wait" ELSE "exit")
    /\ UNCHANGED <<rb, transmitting, driver, exit, taken, rxRuns, atTask,
                   written, received, failures>>

\* waitTransmissionFinished() up to the lock
TxFinished ==
    /\ TxStep("wait", "commit")
    /\ finished # <<>>
    /\ taken' = Head(finished)
    /\ finished' = Tail(finished)
    /\ UNCHANGED <<rb, transmitting, queued, exit, rxRuns, atTask,
                   written, received, failures>>

TxTimeout ==
    /\ TxStep("wait", "loop")
    /\ finished = <<>>
    /\ UNCHANGED <<rb, transmitting, driver, exit, taken, rxRuns, atTask,
                   written, received, failures>>

TxCommit ==
    /\ TxStep("commit", "start")
    /\ rb' = ConsumeCommit(rb, taken, 0)
    /\ transmitting' = FALSE
    /\ UNCHANGED <<driver, exit, taken, rxRuns, atTask, written, received, failures>>

\* Variant: the thread does not look for more to send.
TxStartNothing ==
    /\ TxStep("start", "loop")
    /\ UNCHANGED <<rb, transmitting, driver, exit, taken, rxRuns, atTask,
                   written, received, failures>>

TxStart ==
    /\ TxStep("start", "loop")
    /\ StartTransmission(rb)
    /\ UNCHANGED <<finished, exit, taken, rxRuns, atTask, written, received>>

TxReset ==
    /\ TxStep("exit", "leave")
    /\ rb' = Reset(rb)
    /\ transmitting' = FALSE
    /\ UNCHANGED <<driver, exit, taken, rxRuns, atTask, written, received, failures>>

TxLeave ==
    /\ TxStep("leave", "gone")
    /\ exit' = exit - 1
    /\ UNCHANGED <<rb, transmitting, driver, taken, rxRuns, atTask,
                   written, received, failures>>

\* rxRun() leaves its loop in the same way.
RxLeave ==
    /\ rxRuns /\ exit > 0
    /\ rxRuns' = FALSE
    /\ exit' = exit - 1
    /\ UNCHANGED <<rb, transmitting, driver, txThread, atTask, written, received, failures>>

-------------------------------------------------------------------------------
(* waitWriteComplete() and destroyTransport(), called by the AT task *)

TaskStep(from, to) ==
    /\ task = from /\ task' = to
    /\ UNCHANGED <<rb, transmitting, driver, txThread, rxRuns, written, received, failures>>

WaitWriteComplete ==
    /\ TaskStep("idle", "loop")
    /\ waitFrom' = written
    /\ UNCHANGED <<exit, closing>>

\* Without a timeout when the transport is torn down (portMAX_DELAY).
WaitLoop ==
    /\ \/ TaskStep("loop", "spin") /\ UNCHANGED waitFrom
       \/ ~closing /\ TaskStep("loop", "idle") /\ waitFrom' = 0
    /\ UNCHANGED <<exit, closing>>

\* The inner loop pays no attention to the timeout.
WaitSpin ==
    /\ TaskStep("spin", "check")
    /\ ~transmitting
    /\ UNCHANGED <<exit, closing, waitFrom>>

\* RESULT_OK is returned.
Returned == IF closing THEN "stopped" ELSE "idle"

\* Variant: the buffer is not looked at again.
WaitCheckNothing ==
    /\ TaskStep("check", Returned) /\ waitFrom' = 0
    /\ UNCHANGED <<exit, closing>>

WaitCheck ==
    /\ \/ Empty(rb) /\ TaskStep("check", Returned) /\ waitFrom' = 0
       \/ ~Empty(rb) /\ TaskStep("check", "loop") /\ UNCHANGED waitFrom
    /\ UNCHANGED <<exit, closing>>

\* Variant: only one thread is counted.
DestroyCountsOne ==
    /\ TaskStep("idle", "join")
    /\ exit' = 1 /\ closing' = TRUE
    /\ UNCHANGED waitFrom

Destroy ==
    /\ TaskStep("idle", "join")
    /\ exit' = 2
    /\ closing' = TRUE
    /\ UNCHANGED waitFrom

Joined ==
    /\ TaskStep("join", "loop")
    /\ exit = 0
    /\ UNCHANGED <<exit, closing, waitFrom>>

-------------------------------------------------------------------------------

\* initTransport(): both threads run
Init ==
    /\ rb = New
    /\ transmitting = FALSE
    /\ queued = <<>> /\ finished = <<>>
    /\ exit = 0
    /\ tx = "loop" /\ taken = 0
    /\ rxRuns = TRUE
    /\ task = "idle" /\ closing = FALSE
    /\ written = 0
    /\ waitFrom = 0
    /\ received = <<>>
    /\ failures = 0

TxThread == TxLoop \/ TxFinished \/ TxTimeout \/ TxCommit \/ TxStart \/ TxReset \/ TxLeave
AtTask == WaitLoop \/ WaitSpin \/ WaitCheck \/ Joined

Next ==
    \/ \E len \in Lengths : WriteData(len)
    \/ HostReads
    \/ TxThread \/ RxLeave
    \/ WaitWriteComplete \/ Destroy \/ AtTask

Safe == Init /\ [][Next]_vars

\* The host reads what is queued, and every task gets its share of the processor.
Spec == Safe /\ WF_vars(HostReads) /\ WF_vars(TxThread) /\ WF_vars(RxLeave) /\ WF_vars(AtTask)

-------------------------------------------------------------------------------
(* Properties *)

Descriptors == [from : Index, len : 1 .. Block, consume : 1 .. Block]

\* What every variable may hold.
TypeOK ==
    /\ rb \in Buffers
    /\ transmitting \in BOOLEAN
    /\ queued \in Seq(Descriptors) /\ finished \in Seq(1 .. Block)
    /\ exit \in 0 .. 2
    /\ tx \in {"loop", "wait", "commit", "start", "exit", "leave", "gone"}
    /\ taken \in 0 .. Block
    /\ rxRuns \in BOOLEAN
    /\ task \in {"idle", "loop", "spin", "check", "join", "stopped"}
    /\ closing \in BOOLEAN
    /\ written \in 0 .. MaxBytes
    /\ waitFrom \in 0 .. MaxBytes
    /\ received \in Seq(Byte)
    /\ failures \in 0 .. MaxFailures

\* txBuf_ is a queue: whatever is put, padded, lent, taken back or given up, no byte
\* in it is overwritten, moved or lost.
Ring == INSTANCE ByteQueue WITH Capacity <- Size, queue <- Contents(rb)
RingIsQueue == Ring!Safe

\* The host gets the bytes that were written, in order, and none of the padding.
ReceivesWritten == \A i \in 1 .. Len(received) : received[i] = i

\* The same, as long as the driver takes every block.
ReceivesWrittenIfSent == failures = 0 => ReceivesWritten

\* transmitting_ says exactly whether a block is lent, and only one ever is: the
\* driver may read memory of txBuf_ only while no one else may write to it.
OneBlockLent ==
    tx \notin {"leave", "gone"} =>
        /\ Len(queued) + Len(finished) + (IF tx = "commit" THEN 1 ELSE 0)
              = (IF transmitting THEN 1 ELSE 0)
        /\ rb.tailPending = (CASE queued # <<>> -> Head(queued).consume
                               [] finished # <<>> -> Head(finished)
                               [] tx = "commit" -> taken
                               [] OTHER -> 0)

\* startTransmission() never finds the buffer without space for the padding or with an
\* odd number of bytes, whether the TX thread calls it or writeData(), which has put
\* more bytes before: what it has sent always ends on a word boundary.
Handed == {rb} \cup {Filled(len) : len \in {n \in Lengths : MayWrite(n)}}
NeverRefused == ~transmitting => \A b \in Handed : Sendable(b) # 0 => ~Refused(b)

\* waitWriteComplete() succeeds only when the host has read everything that was
\* written before the call.
CompleteMeansRead ==
    [][task = "check" /\ task' = "idle" => Len(received) >= waitFrom]_vars

\* Everything written is read by the host, without a further call, whenever the
\* writers pause, unless the transport is torn down or the driver refuses a block.
AllRead == []<>(Len(received) >= written \/ closing \/ failures > 0)

\* destroyTransport() returns: both threads see exit_, and nothing is left to wait for.
DestroyReturns == task = "join" ~> task = "stopped"
===============================================================================
