----------------------------- MODULE SdioReceive ------------------------------
(***************************************************************************)
(* The receive half of main/at_transport_sdio.cpp: the SDIO driver fills   *)
(* buffers that were loaded into it, the RX thread (fetchData(), rxRun())  *)
(* appends them to a linked list, and the AT task (readData()) takes them  *)
(* off, reads them and loads them again.  What is done under rxMutex_ is   *)
(* one action; listHead_ is read and rxData_ changed without it.           *)
(*                                                                         *)
(* The n-th byte that the host sends has the value n.                      *)
(***************************************************************************)
EXTENDS Integers, Sequences, FiniteSetsExt, SequencesExt

CONSTANTS
    Buffer,         \* list_, a fixed array
    Null,
    PacketLengths,  \* how much the host sends in one buffer
    ReadLengths,    \* the lengths that readData() is called with
    CoreDepth,      \* notifications that the AT core keeps
    MaxBytes        \* bound: bytes sent

ASSUME ReceiveAssumption ==
    /\ IsFiniteSet(Buffer) /\ Null \notin Buffer
    /\ PacketLengths \subseteq Nat \ {0} /\ ReadLengths \subseteq Nat \ {0}
    /\ CoreDepth \in Nat \ {0} /\ MaxBytes \in Nat

VARIABLES
    loaded,             \* driver: empty buffers, in the order they are filled
    filled,             \* driver: buffers that wait for sdio_slave_recv()
    data, left, pos, next,      \* the fields of each Buffer
    listHead, listTail,
    rxData,             \* rxData_ as the int that getDataLength() makes of it
    rx, fetched, ret,   \* the RX thread, the buffer in its hands and its length
    reader,             \* the AT task: in the AT core, AT+FWUPD or readData()
    toRead, done, buf,  \* locals of readData()
    direct,             \* isDirectMode()
    notes,              \* notifications that the AT core has not taken yet
    leftover,           \* direct mode has left bytes, and no notification came since
    sent, got           \* bytes sent by the host, and read by the AT task

driver == <<loaded, filled>>
list == <<next, listHead, listTail>>
rxThread == <<rx, fetched, ret>>
call == <<toRead, done, buf>>
core == <<direct, notes, leftover>>
vars == <<driver, data, left, pos, list, rxData, rxThread, reader, call, core, sent, got>>

Lesser(m, n) == IF m < n THEN m ELSE n

-------------------------------------------------------------------------------
(* The host and the SDIO driver *)

HostSends(n) ==
    /\ loaded # <<>>
    /\ sent + n =< MaxBytes
    /\ data' = [data EXCEPT ![Head(loaded)] = [i \in 1 .. n |-> sent + i]]
    /\ loaded' = Tail(loaded)
    /\ filled' = Append(filled, Head(loaded))
    /\ sent' = sent + n
    /\ UNCHANGED <<left, pos, list, rxData, rxThread, reader, call, core, got>>

-------------------------------------------------------------------------------
(* rxRun() *)

\* Variant: the AT core is notified before the bytes are counted.
AfterNotifiesFirst(step) ==
    CASE step = "fetch" -> "link" [] step = "link" -> "notify"
      [] step = "notify" -> "count" [] step = "count" -> "fetch"

\* The order of the RX thread's steps.
After(step) ==
    CASE step = "fetch" -> "link" [] step = "link" -> "count"
      [] step = "count" -> "notify" [] step = "notify" -> "fetch"

RxStep(step) == rx = step /\ rx' = After(step)

\* fetchData() up to the lock.
Fetch ==
    /\ RxStep("fetch")
    /\ filled # <<>>
    /\ fetched' = Head(filled)
    /\ filled' = Tail(filled)
    /\ ret' = Len(data[fetched'])
    /\ left' = [left EXCEPT ![fetched'] = ret']
    /\ pos' = [pos EXCEPT ![fetched'] = 0]
    /\ next' = [next EXCEPT ![fetched'] = Null]
    /\ UNCHANGED <<loaded, data, listHead, listTail, rxData, reader, call, core, sent, got>>

\* The rest of fetchData(), under the lock.
Link ==
    /\ RxStep("link")
    /\ listTail' = fetched
    /\ \/ listTail = Null /\ listHead' = fetched /\ UNCHANGED next
       \/ listTail # Null /\ next' = [next EXCEPT ![listTail] = fetched] /\ UNCHANGED listHead
    /\ UNCHANGED <<driver, data, left, pos, rxData, fetched, ret>>
    /\ UNCHANGED <<reader, call, core, sent, got>>

Count ==
    /\ RxStep("count")
    /\ rxData' = rxData + ret
    /\ UNCHANGED <<driver, data, left, pos, list, fetched, ret, reader, call, core, sent, got>>

\* notifyReceivedData(): in direct mode nobody is told, for want of a handler;
\* otherwise it may time out while the AT core takes no more.
Notify ==
    /\ RxStep("notify")
    /\ \/ direct /\ UNCHANGED <<notes, leftover>>
       \/ ~direct /\ notes < CoreDepth /\ notes' = notes + 1 /\ leftover' = FALSE
       \/ ~direct /\ notes = CoreDepth /\ UNCHANGED <<notes, leftover>>
    /\ UNCHANGED <<driver, data, left, pos, list, rxData, fetched, ret>>
    /\ UNCHANGED <<reader, call, direct, sent, got>>

-------------------------------------------------------------------------------
(* The AT task between two calls of readData().  The AT core is not in the *)
(* repository: on a notification it reads until getDataLength() returns 0. *)

ReaderStep(from, to) ==
    /\ reader = from /\ reader' = to
    /\ UNCHANGED <<data, rxThread, sent>>

CoreWakes ==
    /\ ReaderStep("idle", "core")
    /\ notes > 0
    /\ notes' = notes - 1
    /\ UNCHANGED <<driver, left, pos, list, rxData, call, direct, leftover, got>>

CoreRests ==
    /\ ReaderStep("core", "idle")
    /\ rxData =< 0
    /\ UNCHANGED <<driver, left, pos, list, rxData, call, core, got>>

\* AT+FWUPD: setDirectMode(true); later flushInput(), which does nothing, and
\* setDirectMode(false).  Afterwards the AT core may or may not look for more.
EnterDirect ==
    /\ ReaderStep("core", "direct")
    /\ direct' = TRUE
    /\ UNCHANGED <<driver, left, pos, list, rxData, call, notes, leftover, got>>

LeaveDirect ==
    /\ \/ ReaderStep("direct", "core") /\ UNCHANGED leftover
       \/ ReaderStep("direct", "idle") /\ leftover' = (rxData > 0 \/ leftover)
    /\ direct' = FALSE
    /\ UNCHANGED <<driver, left, pos, list, rxData, call, notes, got>>

\* readData(data, n) is called: when there is something, or by the XMODEM
\* receiver, which polls.
ReadData(n) ==
    /\ \/ rxData > 0 /\ ReaderStep("core", "read")
       \/ ReaderStep("direct", "read")
    /\ toRead' = n
    /\ done' = 0
    /\ UNCHANGED <<driver, left, pos, list, rxData, buf, core, got>>

-------------------------------------------------------------------------------
(* readData() *)

ReadEnds ==
    /\ toRead = 0 \/ listHead = Null
    /\ ReaderStep("read", "return")
    /\ UNCHANGED <<driver, left, pos, list, rxData, call, core, got>>

\* Variant: a buffer is given back whether or not it is read to its end.
EmptiedAlways(b, n) == TRUE

\* After n more bytes buffer b can be given back.
Emptied(b, n) == left[b] = n

\* One turn of the loop up to the lock; listHead_ is read without it.
CopyBytes ==
    /\ toRead > 0 /\ listHead # Null
    /\ LET n == Lesser(left[listHead], toRead)
       IN  /\ ReaderStep("read", IF Emptied(listHead, n) THEN "unlink" ELSE "read")
           /\ got' = got \o SubSeq(data[listHead], pos[listHead] + 1, pos[listHead] + n)
           /\ pos' = [pos EXCEPT ![listHead] = @ + n]
           /\ left' = [left EXCEPT ![listHead] = @ - n]
           /\ done' = done + n
           /\ toRead' = toRead - n
    /\ buf' = listHead
    /\ UNCHANGED <<driver, list, rxData, core>>

\* Variant: listTail_ keeps pointing to a buffer that has left the list.
UnlinkKeepsTail ==
    /\ ReaderStep("unlink", "reload")
    /\ listHead' = next[buf]
    /\ next' = [next EXCEPT ![buf] = Null]
    /\ UNCHANGED <<driver, left, pos, listTail, rxData, call, core, got>>

\* Under the lock.
Unlink ==
    /\ ReaderStep("unlink", "reload")
    /\ listHead' = next[buf]
    /\ next' = [next EXCEPT ![buf] = Null]
    /\ listTail' = IF listHead' = Null THEN Null ELSE listTail
    /\ UNCHANGED <<driver, left, pos, rxData, call, core, got>>

\* sdio_slave_recv_load_buf()
Reload ==
    /\ ReaderStep("reload", "read")
    /\ loaded' = Append(loaded, buf)
    /\ UNCHANGED <<filled, left, pos, list, rxData, call, core, got>>

\* Variant: what was asked for is subtracted, not what was there.
UncountWhole ==
    /\ ReaderStep("return", IF direct THEN "direct" ELSE "core")
    /\ rxData' = rxData - done - toRead
    /\ done' = 0 /\ toRead' = 0 /\ buf' = Null
    /\ UNCHANGED <<driver, left, pos, list, core, got>>

Uncount ==
    /\ ReaderStep("return", IF direct THEN "direct" ELSE "core")
    /\ rxData' = rxData - done
    /\ done' = 0 /\ toRead' = 0 /\ buf' = Null
    /\ UNCHANGED <<driver, left, pos, list, core, got>>

-------------------------------------------------------------------------------

\* initTransport(): all buffers are loaded and the RX thread runs.
Init ==
    /\ loaded = SetToSeq(Buffer) /\ filled = <<>>
    /\ data = [b \in Buffer |-> <<>>]
    /\ left = [b \in Buffer |-> 0] /\ pos = [b \in Buffer |-> 0]
    /\ next = [b \in Buffer |-> Null]
    /\ listHead = Null /\ listTail = Null
    /\ rxData = 0
    /\ rx = "fetch" /\ fetched = Null /\ ret = 0
    /\ reader = "idle" /\ toRead = 0 /\ done = 0 /\ buf = Null
    /\ direct = FALSE /\ notes = 0 /\ leftover = FALSE
    /\ sent = 0 /\ got = <<>>

RxThread == Fetch \/ Link \/ Count \/ Notify
ReaderRuns ==
    \/ CoreWakes \/ CoreRests \/ LeaveDirect
    \/ ReadEnds \/ CopyBytes \/ Unlink \/ Reload \/ Uncount
    \/ \E n \in ReadLengths : ReadData(n)

Next == (\E n \in PacketLengths : HostSends(n)) \/ RxThread \/ ReaderRuns \/ EnterDirect

Safe == Init /\ [][Next]_vars

\* Both threads get their share of the processor, and a notified AT core reads.
Spec == Safe /\ WF_vars(RxThread) /\ WF_vars(ReaderRuns)

-------------------------------------------------------------------------------
(* Properties *)

\* The list from listHead_ on, as far as next leads.
Chain == LET at[i \in 0 .. Cardinality(Buffer)] ==
                 IF i = 0 THEN listHead ELSE IF at[i - 1] = Null THEN Null ELSE next[at[i - 1]]
         IN  at
OnList == {Chain[i] : i \in DOMAIN Chain} \ {Null}

\* What every variable may hold.
TypeOK ==
    /\ loaded \in Seq(Buffer) /\ filled \in Seq(Buffer)
    /\ \A b \in Buffer : data[b] \in Seq(1 .. MaxBytes)
    /\ left \in [Buffer -> 0 .. MaxBytes] /\ pos \in [Buffer -> 0 .. MaxBytes]
    /\ next \in [Buffer -> Buffer \cup {Null}]
    /\ {listHead, listTail, fetched, buf} \subseteq Buffer \cup {Null}
    /\ rxData \in -MaxBytes .. MaxBytes
    /\ rx \in {"fetch", "link", "count", "notify"}
    /\ reader \in {"idle", "core", "direct", "read", "unlink", "reload", "return"}
    /\ ret \in 0 .. MaxBytes /\ toRead \in Nat /\ done \in 0 .. MaxBytes
    /\ direct \in BOOLEAN /\ leftover \in BOOLEAN
    /\ notes \in 0 .. CoreDepth
    /\ sent \in 0 .. MaxBytes /\ got \in Seq(1 .. MaxBytes)

\* The AT task reads what the host sent: in order, nothing lost, nothing twice,
\* however readData() and the RX thread interleave on the list.
ReadInOrder == \A i \in 1 .. Len(got) : got[i] = i

\* The list is well formed, and every buffer is at any time in exactly one place: in
\* the driver, in the hands of one thread, or on the list.
OneOwner ==
    /\ Chain[Cardinality(Buffer)] = Null
    /\ listTail = Null => listHead = Null
    /\ listTail # Null => listTail \in OnList /\ next[listTail] = Null
    /\ \A b \in Buffer :
           Cardinality({i \in DOMAIN loaded : loaded[i] = b})
           + Cardinality({i \in DOMAIN filled : filled[i] = b})
           + (IF b \in OnList THEN 1 ELSE 0)
           + (IF rx = "link" /\ fetched = b THEN 1 ELSE 0)
           + (IF reader = "reload" /\ buf = b THEN 1 ELSE 0) = 1

\* rxData_ counts the bytes on the list, but for those that one of the threads has
\* linked or read and is about to count: getDataLength() may lag behind the list and
\* even be negative, but it never promises a byte that is not there.
DataCounted ==
    rxData + (IF rx = "count" THEN ret ELSE 0) - done
        = FoldSet(LAMBDA b, sum : left[b] + sum, 0, OnList)

\* No wake-up is lost: bytes that are counted while the AT core rests are known to it, or
\* the RX thread is about to tell it, whatever readData() took and however notifications
\* timed out before. What direct mode has left is the exception.
CoreKnows ==
    reader = "idle" /\ rxData > 0 => notes > 0 \/ rx = "notify" \/ leftover

\* Everything the host sends is read, although a notification may time out, or come
\* when its bytes have been read. The exception is what is left on the list when
\* direct mode ends: the AT core was not notified of it, or has forgotten about it.
AllRead == []<>(Len(got) = sent \/ direct \/ leftover)
===============================================================================
