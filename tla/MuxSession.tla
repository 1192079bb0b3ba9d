------------------------------ MODULE MuxSession ------------------------------
(***************************************************************************)
(* Who gets the bytes that the host sends: the transport base of           *)
(* main/at_transport.cpp, the UART transport and its thread                *)
(* (main/at_transport_uart.cpp), the start and the end of a multiplexed    *)
(* session (main/at_transport_mux.cpp, AT+CMUX), direct mode (AT+FWUPD)    *)
(* and the shutdown of the UART before a restart.                          *)
(*                                                                         *)
(* The host sends chunks: "cmd", a line of text; "frame", a frame of the   *)
(* AT channel; "close", the frame that ends the session.  The UART driver, *)
(* the AT core and the muxer are not in the repository.                    *)
(***************************************************************************)
EXTENDS Naturals, Sequences

CONSTANTS
    EventDepth,     \* entries of the UART driver's event queue
    CoreDepth,      \* notifications that the AT core keeps
    RxDepth,        \* frames that fit into rxBuf_
    UartPreempts,   \* whether the UART thread may preempt the AT task
    MaxChunks       \* bound: chunks the host sends

ASSUME SessionAssumption ==
    /\ EventDepth \in Nat \ {0} /\ CoreDepth \in Nat \ {0} /\ RxDepth \in Nat \ {0}
    /\ UartPreempts \in BOOLEAN
    /\ MaxChunks \in Nat

VARIABLES
    sent, speaks,       \* the host: chunks sent; "at" or "mux"
    line,               \* UART driver: received and not read
    events,             \* UART driver: queue_
    uart, exit,         \* the UART thread, exit_
    mode,               \* the UART transport's direct_, handler_ and handlerCtx_
    muxDirect,          \* the mux transport's direct_; it never has a handler
    instance,           \* instance_: "uart" or "mux"
    running, input,     \* the muxer: isRunning(), and input it was notified of
    rxBuf,              \* frames in rxBuf_
    notes,              \* notifications that the AT core has not taken yet
    task, at,           \* the AT task, and the transport AT+FWUPD found active
    overlap             \* AT+CMUX has begun a session while stopMuxer() ended one

host == <<sent, speaks>>
muxer == <<running, input, rxBuf>>
modes == <<mode, muxDirect, instance>>
vars == <<host, line, events, uart, exit, modes, muxer, notes, task, at, overlap>>

AtMode == [direct |-> FALSE, handler |-> FALSE, ctx |-> FALSE]

-------------------------------------------------------------------------------
(* The host and the UART driver; an event that finds the queue full is lost. *)

Queued(q) == IF Len(q) < EventDepth THEN Append(q, "data") ELSE q

Chunks == IF speaks = "mux" THEN {"frame", "close"} ELSE {"cmd"}

HostSends(c) ==
    /\ sent < MaxChunks /\ c \in Chunks
    /\ sent' = sent + 1
    /\ speaks' = IF c = "close" THEN "at" ELSE speaks
    /\ line' = Append(line, c)
    /\ events' = Queued(events)
    /\ UNCHANGED <<uart, exit, modes, muxer, notes, task, at, overlap>>

-------------------------------------------------------------------------------
(* AtUartTransport::run(), with notifyReceivedData() and dataHandler() *)

Switching == {"set_direct", "set_handler", "set_ctx", "set_instance"}

UartStep(from, to) ==
    /\ task \in Switching => UartPreempts
    /\ uart = from /\ uart' = to
    /\ UNCHANGED <<host, line, muxDirect, task, at, overlap>>

\* while (!exit_); afterwards exit_ = false
UartLoop ==
    /\ \/ ~exit /\ UartStep("loop", "wait")
       \/ exit /\ UartStep("loop", "gone")
    /\ exit' = FALSE
    /\ UNCHANGED <<events, mode, instance, muxer, notes>>

UartEvent ==
    /\ events # <<>>
    /\ events' = Tail(events)
    /\ UartStep("wait", IF Head(events) = "data" THEN "notify" ELSE "loop")
    /\ UNCHANGED <<exit, mode, instance, muxer, notes>>

\* notifyReceivedData(size, portMAX_DELAY): without a handler nobody is told.
NotifyReceivedData ==
    /\ UartStep("notify", IF ~mode.direct THEN "post"
                          ELSE IF mode.handler THEN "call" ELSE "loop")
    /\ UNCHANGED <<events, exit, mode, instance, muxer, notes>>

\* It waits for ever while the AT core has no room.
PostNote ==
    /\ UartStep("post", "loop")
    /\ notes < CoreDepth
    /\ notes' = notes + 1
    /\ UNCHANGED <<events, exit, mode, instance, muxer>>

\* dataHandlerCb(): a null context is the end.
DataHandler ==
    /\ UartStep("call", IF mode.ctx THEN "check" ELSE "crashed")
    /\ input' = (input \/ (mode.ctx /\ running))
    /\ UNCHANGED <<events, exit, mode, instance, running, rxBuf, notes>>

\* Variant: the session is not ended when the muxer has stopped.
CheckRunningOnly ==
    /\ UartStep("check", "loop")
    /\ UNCHANGED <<events, exit, mode, instance, muxer, notes>>

CheckRunning ==
    /\ UartStep("check", IF running THEN "loop" ELSE "stop")
    /\ UNCHANGED <<events, exit, mode, instance, muxer, notes>>

\* stopMuxer(): muxer_.stop() and transport_->setActive(), ...
StopMuxer ==
    /\ UartStep("stop", "undirect")
    /\ running' = FALSE /\ input' = FALSE
    /\ instance' = "uart"
    /\ UNCHANGED <<events, exit, mode, rxBuf, notes>>

\* ... transport_->setDirectMode(false), ...
Undirect ==
    /\ UartStep("undirect", "unhandle")
    /\ mode' = [mode EXCEPT !.direct = FALSE]
    /\ UNCHANGED <<events, exit, instance, muxer, notes>>

\* ... whose handler and context are nullptr, and rxBuf_.reset().
Unhandle ==
    /\ UartStep("unhandle", "loop")
    /\ mode' = [mode EXCEPT !.handler = FALSE, !.ctx = FALSE]
    /\ rxBuf' = 0
    /\ UNCHANGED <<events, exit, instance, running, input, notes>>

-------------------------------------------------------------------------------
(* The muxer's thread: it reads what the UART transport has *)

\* Variant: a frame is put into rxBuf_ whether or not it fits.
StoredAlways(n) == n + 1

\* rxBuf_.put(): a frame that does not fit is dropped.
Stored(n) == IF n < RxDepth THEN n + 1 ELSE n

MuxerReads ==
    /\ running /\ input
    /\ \/ /\ line = <<>>
          /\ input' = FALSE
          /\ UNCHANGED <<line, running, rxBuf, notes>>
       \/ /\ line # <<>> /\ Head(line) = "frame"      \* channelAtDataHandler()
          /\ line' = Tail(line)
          /\ rxBuf' = Stored(rxBuf)
          /\ notes' = IF ~muxDirect /\ notes < CoreDepth THEN notes + 1 ELSE notes
          /\ UNCHANGED <<running, input>>
       \/ /\ line # <<>> /\ Head(line) # "frame"
          /\ line' = Tail(line)
          /\ running' = (Head(line) # "close")
          /\ UNCHANGED <<input, rxBuf, notes>>
    /\ UNCHANGED <<host, events, uart, exit, modes, task, at, overlap>>

-------------------------------------------------------------------------------
(* The AT task *)

TaskStep(from, to) ==
    /\ task = from /\ task' = to
    /\ overlap' = (overlap \/ (to \in Switching /\ uart \in {"undirect", "unhandle"}))
    /\ UNCHANGED <<sent, uart, running>>

TakeNote ==
    /\ TaskStep("idle", "read")
    /\ notes > 0
    /\ notes' = notes - 1
    /\ UNCHANGED <<speaks, line, events, exit, modes, input, rxBuf, at>>

\* espAtReadData(), espAtGetDataLength(): -1 in direct mode.
Readable ==
    \/ instance = "uart" /\ ~mode.direct /\ line # <<>>
    \/ instance = "mux" /\ ~muxDirect /\ rxBuf > 0

\* The AT core reads until nothing is left; a command may be any of those modelled.
ReadNothing ==
    /\ TaskStep("read", "idle")
    /\ ~Readable
    /\ UNCHANGED <<speaks, line, events, exit, modes, notes, input, rxBuf, at>>

ReadCommand ==
    /\ Readable
    /\ \E to \in {"read", "cmux", "fwupd", "restart"} :
           /\ TaskStep("read", to)
           /\ instance = "uart" /\ Head(line) # "cmd" => to = "read"
    /\ line' = IF instance = "uart" THEN Tail(line) ELSE line
    /\ rxBuf' = IF instance = "mux" THEN rxBuf - 1 ELSE rxBuf
    /\ UNCHANGED <<speaks, events, exit, modes, notes, input, at>>

-------------------------------------------------------------------------------
(* AT+CMUX *)

CmuxRefused ==
    /\ TaskStep("cmux", "read")
    /\ UNCHANGED <<speaks, line, events, exit, modes, notes, input, rxBuf, at>>

\* startMuxer() and the result code OK, ...
CmuxStarts ==
    /\ task = "cmux" /\ task' = "answer"
    /\ instance # "mux"
    /\ running' = TRUE
    /\ speaks' = "mux"
    /\ UNCHANGED <<sent, line, events, uart, exit, modes, input, rxBuf, notes, at, overlap>>

\* ... and esp_at_port_wait_write_complete(), while the UART thread goes on.
CmuxAnswered ==
    /\ TaskStep("answer", "set_direct")
    /\ UNCHANGED <<speaks, line, events, exit, modes, input, rxBuf, notes, at>>

\* AtMuxTransport::setActive(): setDirectMode(true, dataHandlerCb, this), ...
SetMode(from, to, m) ==
    /\ TaskStep(from, to)
    /\ mode' = m
    /\ UNCHANGED <<speaks, line, events, exit, muxDirect, instance, notes, input, rxBuf, at>>

SetDirect == SetMode("set_direct", "set_handler", [mode EXCEPT !.direct = TRUE])
SetHandler == SetMode("set_handler", "set_ctx", [mode EXCEPT !.handler = TRUE])
SetCtx == SetMode("set_ctx", "set_instance", [mode EXCEPT !.ctx = TRUE])

\* ... and AtTransportBase::setActive(); ESP_AT_RESULT_CODE_PROCESS_DONE
SetInstance ==
    /\ TaskStep("set_instance", "read")
    /\ instance' = "mux"
    /\ UNCHANGED <<speaks, line, events, exit, mode, muxDirect, notes, input, rxBuf, at>>

-------------------------------------------------------------------------------
(* AT+FWUPD: direct mode of the active transport while XMODEM runs *)

FwupdBegins ==
    /\ TaskStep("fwupd", "xmodem")
    /\ at' = instance
    /\ mode' = IF instance = "uart" THEN [AtMode EXCEPT !.direct = TRUE] ELSE mode
    /\ muxDirect' = (muxDirect \/ instance = "mux")
    /\ UNCHANGED <<speaks, line, events, exit, instance, notes, input, rxBuf>>

\* One call of readData(); the mux transport has to notify the muxer itself.
XmodemReads ==
    /\ TaskStep("xmodem", "xmodem")
    /\ \/ /\ at = "uart" /\ line # <<>>
          /\ line' = Tail(line)
          /\ UNCHANGED <<input, rxBuf>>
       \/ /\ at = "mux"
          /\ input' = (input \/ (running /\ line # <<>>))
          /\ \/ rxBuf > 0 /\ rxBuf' = rxBuf - 1
             \/ UNCHANGED rxBuf
          /\ UNCHANGED line
    /\ UNCHANGED <<speaks, events, exit, modes, notes, at>>

\* Variant: direct mode of the mux transport outlives the transfer.
FwupdForgetsMux ==
    /\ TaskStep("xmodem", "read")
    /\ mode' = IF at = "uart" THEN AtMode ELSE mode
    /\ UNCHANGED <<speaks, line, events, exit, muxDirect, instance, notes, input, rxBuf, at>>

\* flushInput(), setDirectMode(false); the transfer has failed.
FwupdEnds ==
    /\ TaskStep("xmodem", "read")
    /\ line' = IF at = "uart" THEN <<>> ELSE line
    /\ rxBuf' = IF at = "mux" THEN 0 ELSE rxBuf
    /\ mode' = IF at = "uart" THEN AtMode ELSE mode
    /\ muxDirect' = (muxDirect /\ at # "mux")
    /\ UNCHANGED <<speaks, events, exit, instance, notes, input, at>>

-------------------------------------------------------------------------------
(* espAtPreRestartCallback(), AtUartTransport::destroyTransport() *)

IsDirectMode == IF instance = "uart" THEN mode.direct ELSE muxDirect

\* In direct mode nothing is done, and the mux transport only forgets that it was
\* started. stopMuxer() leaves the UART transport active and in direct mode for a while.
PreRestart ==
    /\ \/ /\ IsDirectMode \/ instance = "mux"
          /\ TaskStep("restart", "stopped")
          /\ UNCHANGED exit
       \/ /\ ~IsDirectMode /\ instance = "uart"
          /\ TaskStep("restart", "send_exit")
          /\ exit' = TRUE
    /\ UNCHANGED <<speaks, line, events, modes, notes, input, rxBuf, at>>

\* Variant: the thread is told to stop but not woken up.
SendNoExit ==
    /\ TaskStep("send_exit", "join")
    /\ UNCHANGED <<speaks, line, events, exit, modes, notes, input, rxBuf, at>>

\* xQueueSend(queue_, &ev, portMAX_DELAY)
SendExit ==
    /\ TaskStep("send_exit", "join")
    /\ Len(events) < EventDepth
    /\ events' = Append(events, "exit")
    /\ UNCHANGED <<speaks, line, exit, modes, notes, input, rxBuf, at>>

\* Join thread
Joined ==
    /\ TaskStep("join", "stopped")
    /\ ~exit
    /\ UNCHANGED <<speaks, line, events, exit, modes, notes, input, rxBuf, at>>

-------------------------------------------------------------------------------

\* atInitialize(): the UART transport is active and its thread runs.
Init ==
    /\ sent = 0 /\ speaks = "at"
    /\ line = <<>> /\ events = <<>>
    /\ uart = "loop" /\ exit = FALSE
    /\ mode = AtMode /\ muxDirect = FALSE /\ instance = "uart"
    /\ running = FALSE /\ input = FALSE /\ rxBuf = 0
    /\ notes = 0
    /\ task = "idle" /\ at = "uart"
    /\ overlap = FALSE

UartThread ==
    \/ UartLoop \/ UartEvent \/ NotifyReceivedData \/ PostNote \/ DataHandler
    \/ CheckRunning \/ StopMuxer \/ Undirect \/ Unhandle
AtTask ==
    \/ TakeNote \/ ReadNothing \/ ReadCommand
    \/ CmuxRefused \/ CmuxStarts \/ CmuxAnswered
    \/ SetDirect \/ SetHandler \/ SetCtx \/ SetInstance
    \/ FwupdBegins \/ FwupdEnds
    \/ PreRestart \/ SendExit \/ Joined

Next == (\E c \in Chunks : HostSends(c)) \/ UartThread \/ MuxerReads \/ AtTask \/ XmodemReads

Safe == Init /\ [][Next]_vars

\* Every task gets its share of the processor, and a transfer comes to an end.
Spec == Safe /\ WF_vars(UartThread) /\ WF_vars(MuxerReads) /\ WF_vars(AtTask)

-------------------------------------------------------------------------------
(* Properties *)

\* What every variable may hold.
TypeOK ==
    /\ sent \in 0 .. MaxChunks /\ speaks \in {"at", "mux"}
    /\ line \in Seq({"cmd", "frame", "close"})
    /\ events \in Seq({"data", "exit"}) /\ Len(events) =< EventDepth
    /\ uart \in {"loop", "wait", "notify", "post", "call", "check", "stop", "undirect",
                 "unhandle", "gone", "crashed"}
    /\ mode \in [direct : BOOLEAN, handler : BOOLEAN, ctx : BOOLEAN]
    /\ exit \in BOOLEAN /\ muxDirect \in BOOLEAN /\ running \in BOOLEAN
    /\ input \in BOOLEAN /\ overlap \in BOOLEAN
    /\ instance \in {"uart", "mux"} /\ at \in {"uart", "mux"}
    /\ rxBuf \in 0 .. RxDepth /\ notes \in 0 .. CoreDepth
    /\ task \in {"idle", "read", "cmux", "answer", "fwupd", "xmodem", "restart",
                 "send_exit", "join", "stopped"} \cup Switching

\* Whenever both tasks are between two pieces of work, all flags agree on who gets
\* the host's bytes: in a session the muxer, through a handler that has its context,
\* otherwise the AT core. The handler is never called without its context.
ModesAgree ==
    ~overlap =>
    /\ uart # "crashed"
    /\ uart \in {"loop", "wait", "gone"} /\ task \in {"idle", "read", "cmux"} =>
           /\ mode = IF instance = "mux" THEN [direct |-> TRUE, handler |-> TRUE, ctx |-> TRUE]
                     ELSE AtMode
           /\ ~muxDirect
           /\ running => instance = "mux"

\* When the host has ended the session, the next data it sends makes the UART
\* transport the active one again, in its normal mode.
SessionEnds ==
    ~running /\ instance = "mux" /\ events # <<>> /\ task # "stopped"
        ~> (instance = "uart" /\ ~mode.direct) \/ overlap

\* destroyTransport() comes back from waiting for the UART thread, unless that thread
\* itself waits for room in the AT core, which the AT task will not make, or has
\* already left a full event queue, to which the AT task waits to send.
Stuck ==
    \/ uart = "post" /\ notes = CoreDepth
    \/ uart = "gone" /\ Len(events) = EventDepth
DestroyReturns == task \in {"send_exit", "join"} ~> task = "stopped" \/ Stuck
===============================================================================
