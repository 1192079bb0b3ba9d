------------------------------ MODULE MuxBuffer -------------------------------
(***************************************************************************)
(* rxBuf_ of main/at_transport_mux.cpp, which three tasks share without a  *)
(* lock: the muxer's thread puts the frames of the AT channel into it, the *)
(* AT task asks for its length, gets bytes and, at the end of AT+FWUPD,    *)
(* resets it, and the UART thread resets it when a session ends.  One      *)
(* action is one access to head_, tail_ or full_; data() compares first    *)
(* and reads them again afterwards.  Cells are written and read together   *)
(* with the access that follows them.                                      *)
(*                                                                         *)
(* The n-th byte that is ever put has the value n.                         *)
(***************************************************************************)
EXTENDS RingBuffer

CONSTANTS
    FrameLengths,   \* how many bytes a frame brings
    ReadLengths,    \* the lengths that readData() is called with
    CoreDepth,      \* notifications that the AT core keeps
    MaxBytes,       \* bound: bytes put
    MaxResets       \* bound: calls of reset()

ASSUME MuxBufferAssumption ==
    /\ FrameLengths \subseteq Nat \ {0} /\ ReadLengths \subseteq Nat \ {0}
    /\ CoreDepth \in Nat \ {0}
    /\ MaxBytes \in Nat /\ MaxResets \in Nat
    /\ Byte = 0 .. MaxBytes

VARIABLES
    writer, frameLen,   \* the muxer's thread in put(), and the frame's length
    wAhead, wHead, wFull,   \* its locals: comparison, new head_, new full_
    reader, len,        \* the AT task in readData(), and how much is to be read
    rAhead,             \* its local: comparison
    uart,               \* the UART thread: a session, in stopMuxer(), or none
    direct,             \* direct_ of the mux transport
    notes,              \* notifications that the AT core has not taken yet
    leftover,           \* direct mode has left bytes, and the AT core has not looked since
    written, got,       \* bytes put, and bytes read
    resets,             \* calls of reset()
    spoilt              \* put() has seen head_ meet tail_, or a reset met another access

put == <<writer, frameLen, wAhead, wHead, wFull>>
get == <<reader, len, rAhead>>
core == <<direct, notes, leftover>>
vars == <<rb, put, get, uart, core, written, got, resets, spoilt>>

\* The comparison of curData(), and what it returns after it.
Ahead == rb.head >= rb.tail /\ ~rb.full
Data(ahead) == IF ahead THEN rb.head - rb.tail ELSE Size + rb.head - rb.tail

FlushesInput == reader \in {"reset_head", "reset_full"}
StopsMuxer == uart \in {"reset_head", "reset_full"}
Resetting == FlushesInput \/ StopsMuxer

-------------------------------------------------------------------------------
(* The muxer's thread: channelAtDataHandler() *)

WriterStep(from, to) ==
    /\ writer = from /\ writer' = to
    /\ UNCHANGED <<get, uart, direct, leftover, resets>>

\* put(): the comparison that its test of space() begins with
Frame(n) ==
    /\ WriterStep("idle", "space")
    /\ uart = "session"
    /\ written + n =< MaxBytes
    /\ frameLen' = n
    /\ wAhead' = Ahead
    /\ spoilt' = (spoilt \/ FlushesInput)
    /\ UNCHANGED <<rb, wHead, wFull, notes, written, got>>

\* Variants: a frame is put whatever the space; only if it leaves some space.
FitsAlways(n) == TRUE
FitsBelow(n) == Size - Data(wAhead) > n

Fits(n) == Size - Data(wAhead) >= n

\* There is no space: the frame is dropped and its result ignored.
DropFrame ==
    /\ WriterStep("space", "notify")
    /\ ~Fits(frameLen)
    /\ UNCHANGED <<rb, frameLen, wAhead, wHead, wFull, notes, written, got, spoilt>>

FillCells ==
    /\ WriterStep("space", "head")
    /\ Fits(frameLen)
    /\ rb' = [rb EXCEPT !.cell =
                [i \in Index |-> IF Behind(rb.head, i) < frameLen
                                 THEN written + Behind(rb.head, i) + 1 ELSE rb.cell[i]]]
    /\ wHead' = Wrap(rb.head + frameLen)
    /\ written' = written + frameLen
    /\ UNCHANGED <<frameLen, wAhead, wFull, notes, got, spoilt>>

SetHead ==
    /\ WriterStep("head", "compare")
    /\ rb' = [rb EXCEPT !.head = wHead]
    /\ spoilt' = (spoilt \/ wHead = rb.tail)
    /\ UNCHANGED <<frameLen, wAhead, wHead, wFull, notes, written, got>>

\* full_ = (head_ == tail_)
CompareHead ==
    /\ WriterStep("compare", "full")
    /\ wFull' = (rb.head = rb.tail)
    /\ spoilt' = (spoilt \/ wFull')
    /\ UNCHANGED <<rb, frameLen, wAhead, wHead, notes, written, got>>

SetFull ==
    /\ WriterStep("full", "notify")
    /\ rb' = [rb EXCEPT !.full = wFull]
    /\ UNCHANGED <<frameLen, wAhead, wHead, wFull, notes, written, got, spoilt>>

\* Variant: the AT core is not notified.
NotifyNobody ==
    /\ WriterStep("notify", "idle")
    /\ UNCHANGED <<rb, frameLen, wAhead, wHead, wFull, notes, written, got, spoilt>>

\* notifyReceivedData(len, 1): in direct mode nobody is told, for want of a handler;
\* otherwise it times out when the AT core takes no more.
Notify ==
    /\ WriterStep("notify", "idle")
    /\ notes' = IF ~direct /\ notes < CoreDepth THEN notes + 1 ELSE notes
    /\ UNCHANGED <<rb, frameLen, wAhead, wHead, wFull, written, got, spoilt>>

-------------------------------------------------------------------------------
(* The AT task: readData() and getDataLength().  The AT core is not in the *)
(* repository: on a notification it reads until getDataLength() returns 0. *)

ReaderStep(from, to) ==
    /\ reader = from /\ reader' = to
    /\ UNCHANGED <<put, uart, written>>

CoreWakes ==
    /\ ReaderStep("idle", "ask")
    /\ notes > 0
    /\ notes' = notes - 1
    /\ leftover' = FALSE
    /\ UNCHANGED <<rb, len, rAhead, direct, got, resets, spoilt>>

\* data(), in getDataLength(), in readData(), and in get()
CompareTail ==
    /\ \/ ReaderStep("ask", "asked")
       \/ ReaderStep("see", "seen")
       \/ ReaderStep("get", "check")
    /\ rAhead' = Ahead
    /\ spoilt' = (spoilt \/ StopsMuxer)
    /\ UNCHANGED <<rb, len, core, got, resets>>

\* An error of data() counts as nothing there.
NothingThere ==
    /\ ReaderStep("asked", "idle")
    /\ Data(rAhead) =< 0
    /\ UNCHANGED <<rb, len, rAhead, core, got, resets, spoilt>>

\* The session is over: the AT core asks the transport below instead, and rests.
CoreAsksBelow ==
    /\ ReaderStep("ask", "idle")
    /\ uart # "session"
    /\ UNCHANGED <<rb, len, rAhead, core, got, resets, spoilt>>

\* readData() is called: by the AT core, or by the XMODEM receiver, which polls.
CoreReads(n) ==
    /\ ReaderStep("asked", "see")
    /\ Data(rAhead) > 0
    /\ len' = n
    /\ UNCHANGED <<rb, rAhead, core, got, resets, spoilt>>

XmodemPolls(n) ==
    /\ ReaderStep("direct", "see")
    /\ len' = n
    /\ UNCHANGED <<rb, rAhead, core, got, resets, spoilt>>

\* Where readData() returns to.
Caller == IF direct THEN "direct" ELSE "ask"

\* willRead = min(len, canRead); readData() returns when it is 0 or an error.
ClipLength ==
    /\ \/ Data(rAhead) > 0 /\ ReaderStep("seen", "get")
          /\ len' = IF Data(rAhead) < len THEN Data(rAhead) ELSE len
       \/ Data(rAhead) =< 0 /\ ReaderStep("seen", Caller) /\ UNCHANGED len
    /\ UNCHANGED <<rb, rAhead, core, got, resets, spoilt>>

\* get() refuses, and readData() returns the error.
RefuseGet ==
    /\ ReaderStep("check", Caller)
    /\ Data(rAhead) < len
    /\ UNCHANGED <<rb, len, rAhead, core, got, resets, spoilt>>

\* Variant: one byte more is read than there is.
TakenOneMore == len + 1

\* How many bytes get() reads.
Taken == len

SetTail ==
    /\ ReaderStep("check", "clear")
    /\ Data(rAhead) >= len
    /\ got' = got \o [i \in 1 .. Taken |-> rb.cell[(rb.tail + i - 1) % Size]]
    /\ rb' = [rb EXCEPT !.tail = (rb.tail + Taken) % Size]
    /\ UNCHANGED <<len, rAhead, core, resets, spoilt>>

ClearFull ==
    /\ ReaderStep("clear", Caller)
    /\ rb' = [rb EXCEPT !.full = FALSE]
    /\ UNCHANGED <<len, rAhead, core, got, resets, spoilt>>

-------------------------------------------------------------------------------
(* AT+FWUPD, run by the AT task: setDirectMode(true), and at its end       *)
(* flushInput(), which is reset(), and setDirectMode(false)                *)

EnterDirect ==
    /\ ReaderStep("ask", "direct")
    /\ uart = "session" /\ resets < MaxResets
    /\ direct' = TRUE
    /\ UNCHANGED <<rb, len, rAhead, notes, leftover, got, resets, spoilt>>

FlushInput ==
    /\ ReaderStep("direct", "reset_head")
    /\ resets < MaxResets
    /\ resets' = resets + 1
    /\ rb' = [rb EXCEPT !.tail = 0]
    /\ spoilt' = (spoilt \/ writer # "idle" \/ StopsMuxer)
    /\ UNCHANGED <<len, rAhead, core, got>>

ResetHead ==
    /\ ReaderStep("reset_head", "reset_full")
    /\ rb' = [rb EXCEPT !.head = 0]
    /\ UNCHANGED <<len, rAhead, core, got, resets, spoilt>>

ResetFull ==
    /\ ReaderStep("reset_full", "flushed")
    /\ rb' = [rb EXCEPT !.full = FALSE]
    /\ UNCHANGED <<len, rAhead, core, got, resets, spoilt>>

\* Afterwards the AT core may or may not look for more.
LeaveDirect ==
    /\ \/ ReaderStep("flushed", "ask") /\ UNCHANGED leftover
       \/ ReaderStep("flushed", "idle") /\ leftover' = (~Empty(rb) /\ notes = 0)
    /\ direct' = FALSE
    /\ UNCHANGED <<rb, len, rAhead, notes, got, resets, spoilt>>

-------------------------------------------------------------------------------
(* The UART thread in stopMuxer().  muxer_.stop() comes first, so that no  *)
(* put() is going on; the AT task may be anywhere in its calls.            *)

UartStep(from, to) ==
    /\ uart = from /\ uart' = to
    /\ UNCHANGED <<put, get, core, written, got>>

\* The AT task is not between two accesses of one call.
BetweenCalls == reader \in {"idle", "ask", "see", "direct", "flushed"}

StopMuxer ==
    /\ UartStep("session", "reset_head")
    /\ writer = "idle"
    /\ resets < MaxResets
    /\ resets' = resets + 1
    /\ rb' = [rb EXCEPT !.tail = 0]
    /\ spoilt' = (spoilt \/ ~BetweenCalls)

StopResetsHead ==
    /\ UartStep("reset_head", "reset_full")
    /\ rb' = [rb EXCEPT !.head = 0]
    /\ UNCHANGED <<resets, spoilt>>

StopResetsFull ==
    /\ UartStep("reset_full", "over")
    /\ rb' = [rb EXCEPT !.full = FALSE]
    /\ UNCHANGED <<resets, spoilt>>

\* AT+CMUX, read over the transport below, begins another session.
NewSession ==
    /\ uart = "over" /\ uart' = "session"
    /\ reader \in {"idle", "ask"} /\ reader' = "ask"
    /\ leftover' = FALSE
    /\ UNCHANGED <<rb, put, len, rAhead, direct, notes, written, got, resets, spoilt>>

-------------------------------------------------------------------------------

Init ==
    /\ rb = New
    /\ writer = "idle" /\ frameLen = 0 /\ wAhead = FALSE /\ wHead = 0 /\ wFull = FALSE
    /\ reader = "idle" /\ len = 0 /\ rAhead = FALSE
    /\ uart = "session" /\ direct = FALSE
    /\ notes = 0 /\ leftover = FALSE
    /\ written = 0 /\ got = <<>>
    /\ resets = 0
    /\ spoilt = FALSE

MuxerThread == DropFrame \/ FillCells \/ SetHead \/ CompareHead \/ SetFull \/ Notify
AtTask ==
    \/ CoreWakes \/ CompareTail \/ NothingThere \/ CoreAsksBelow \/ ClipLength \/ RefuseGet
    \/ SetTail \/ ClearFull \/ ResetHead \/ ResetFull \/ LeaveDirect
    \/ \E n \in ReadLengths : CoreReads(n)
UartThread == StopResetsHead \/ StopResetsFull

Next ==
    \/ \E n \in FrameLengths : Frame(n)
    \/ MuxerThread \/ AtTask \/ UartThread
    \/ \E n \in ReadLengths : XmodemPolls(n)
    \/ EnterDirect \/ FlushInput
    \/ StopMuxer \/ NewSession

Safe == Init /\ [][Next]_vars

\* All tasks get their share of the processor, and a notified AT core reads.
Spec == Safe /\ WF_vars(MuxerThread) /\ WF_vars(AtTask) /\ WF_vars(UartThread)

-------------------------------------------------------------------------------
(* Properties *)

\* What every variable may hold.
TypeOK ==
    /\ rb \in Buffers
    /\ writer \in {"idle", "space", "head", "compare", "full", "notify"}
    /\ reader \in {"idle", "ask", "asked", "see", "seen", "get", "check", "clear",
                   "direct", "reset_head", "reset_full", "flushed"}
    /\ uart \in {"session", "reset_head", "reset_full", "over"}
    /\ direct \in BOOLEAN /\ leftover \in BOOLEAN
    /\ wAhead \in BOOLEAN /\ wFull \in BOOLEAN /\ rAhead \in BOOLEAN /\ spoilt \in BOOLEAN
    /\ frameLen \in FrameLengths \cup {0} /\ wHead \in Index
    /\ len \in Nat
    /\ notes \in 0 .. CoreDepth
    /\ written \in 0 .. MaxBytes
    /\ got \in Seq(Byte)
    /\ resets \in 0 .. MaxResets

\* The AT task reads the bytes of the AT channel in their order, none of them twice,
\* and none is lost but by reset().
ReadInOrder ==
    /\ \A i, j \in 1 .. Len(got) : i < j => got[i] < got[j]
    /\ resets = 0 => \A i \in 1 .. Len(got) : got[i] = i

\* So it is as long as put() never sees head_ meet tail_ and no reset meets another
\* access: then full_ stays FALSE, and the rest of put() and get() needs no lock.
ReadInOrderUnlessMet == ~spoilt => ReadInOrder

\* As long, the buffer is a bounded queue for all tasks.
Queue == INSTANCE ByteQueue WITH
            Capacity <- Size,
            queue <- IF spoilt \/ Resetting THEN <<>> ELSE Contents(rb)
RingIsQueue == Queue!Safe

\* As long, a frame is dropped only for want of space, and get() fails never, unless
\* the other task wraps around between the two halves of data().
RefusedOnlyTorn ==
    [][~spoilt =>
        /\ writer = "space" /\ writer' = "notify" =>
               Space(rb) < frameLen \/ wAhead # Ahead
        /\ reader = "check" /\ reader' \in {"ask", "direct"} => rAhead # Ahead]_vars

\* As long, everything that is put is read (or reset) some time, although getDataLength()
\* may see nothing in the middle of a put() and a notification may time out. Direct mode
\* is the exception while it lasts, and so is what it leaves: a frame put between
\* flushInput() and setDirectMode(false) was not notified to the AT core.
AllRead == []<>(spoilt \/ direct \/ leftover \/ Empty(rb))
===============================================================================
