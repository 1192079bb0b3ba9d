# Formal models of the ESP32 NCP firmware

TLA+ models, TLC runs and TLAPS proofs for the firmware in this repository: the
network co-processor of Particle's Argon (UART) and Tracker (SDIO) boards. The
firmware runs Espressif's AT command interpreter (`esp32-at`, closed source) on
top of a transport, adds a few commands of its own, updates itself with XMODEM-1K
over the same transport, and forwards network packets between lwIP and a GSM 07.10
multiplexer.

- [The system](#the-system): its parts, their state, what is hard about them
- [The models](#the-models): modules, correspondence to the code, abstractions
- [The runs](#the-runs): what TLC checks, with which bounds and which fairness
- [The proofs](#the-proofs): what TLAPS proves and along which argument
- [What the models say about the code](#what-the-models-say-about-the-code)
- [Not modelled](#not-modelled) and [the plan](#the-plan)

## The system

| Component | Code | State | Operations |
|---|---|---|---|
| XMODEM receiver | `xmodem_receiver.*` | `state_`, timer, retry and CAN counters, packet number, size and offset, packet buffer, file offset | `init()`, `run()` (9 states), `destroy()` |
| Firmware update | `update_manager.*`, AT+FWUPD in `at_command_manager.cpp` | update object `d_`, OTA handle, boot partition, direct mode | `beginUpdate()`, `finishUpdate()`, `cancelUpdate()`, the handler |
| Other AT commands | `at_command_manager.*` | GPIO configuration; otherwise none | AT+CGMR, +MVER, +GETMAC, +CMUX, +GPIOC, +GPIOR, +GPIOW |
| Transport base | `at_transport.*` | `direct_`, `handler_`, `handlerCtx_`; the active transport | `init()`, `setDirectMode()`, `notifyReceivedData()`, status callbacks |
| UART transport | `at_transport_uart.*` | `exit_`, event queue, thread | start, stop, event loop; reads and writes go to the driver |
| SDIO transport | `at_transport_sdio.*` | `txBuf_`, `transmitting_`, `exit_`, two threads; receive list, `rxData_` | `writeData()`, `readData()`, `fetchData()`, TX and RX loops, `waitWriteComplete()`, start, stop |
| Mux transport | `at_transport_mux.*` | `rxBuf_`, the muxer, whether it is the active transport | start and stop of the muxer, `dataHandler()`, channel handlers |
| Ring buffer | `util/ringbuffer.h` | `head_`, `tail_`, pending counts, `full_`, `curSize_` | `put`, `get`, `peek`, `acquire*`, `consume*`, `reset` |
| Network input, start-up | `main.cpp` | packet queue | lwIP hook, `app_main()` loop |

How they interact. The AT interpreter's task calls the command handlers and, through
the active transport, `readData()`, `writeData()` and `waitWriteComplete()`. The
transport's own threads call `notifyReceivedData()`, which wakes the interpreter or, in
direct mode, a handler. AT+FWUPD switches the transport to direct mode and calls
`XmodemReceiver::run()` in a loop; `run()` reads from the transport and writes to the
`UpdateManager`, which writes to the OTA partition. After a success the handler sets the
boot partition, answers OK and restarts the chip. AT+CMUX makes the mux transport the
active one; it sits on the serial transport and hands channel data to the interpreter
through `rxBuf_` and to the network through the packet queue.

What is hard. Two or more tasks meet in the transports: the SDIO transport lends memory
of its ring buffer to a DMA engine while others fill it, threads are joined through a
counter, `rxBuf_` is shared without a lock. The XMODEM receiver faces a lossy line,
repetitions and an arbitrary peer, works with short reads and unsigned subtractions, and
writes a packet one packet late. The update must survive a power failure at any point
and clean up after a failure of any step.

What makes each part correct:

- XMODEM receiver: writes the file in order and only what it verified; reports DONE only
  for a whole file; never leaves its buffer; always ends.
- Firmware update: the device can always boot; an ERROR changes nothing; the next update
  can begin; the device switches only to the image that was sent.
- SDIO transmit: the host reads what was written, in order; lent memory is not touched;
  nothing is left unsent; waiting and shutting down end.
- SDIO receive: bytes are read in order; each buffer has one owner; `rxData_` agrees with
  the list at rest.
- Ring buffer: a bounded queue.
- UART shutdown: the thread and the task that joins it do not wait for each other for ever.
- Mode switching: the flags of both transports agree on who gets the bytes, a handler is
  never called without its context, and the end of a session gives the transport back.
- `rxBuf_`: a bounded queue for three tasks without a lock, and no wake-up of the AT core lost.
- GPIO commands: what is reported for a pin is what the driver was told about it.
- Network input: a packet is freed exactly once.

## The models

| Module | What it is |
|---|---|
| `FileTransfer` | Abstract: what a file transfer promises to the AT+FWUPD handler |
| `XmodemReceiver` | The receiver, against an arbitrary peer; implements `FileTransfer` |
| `XmodemTransfer` | The receiver with a stop-and-wait sender and a lossy link |
| `FirmwareUpdate` | Handler, `UpdateManager`, flash and boot loader; instantiates `FileTransfer` for the transfer |
| `ByteQueue` | Abstract: a bounded queue of bytes |
| `RingBuffer` | The ring buffer's operations, as operators on a record |
| `SdioTransmit` | The transmit half of the SDIO transport on a `RingBuffer`; its buffer implements `ByteQueue` |
| `SdioReceive` | The receive half: buffer list, RX thread, `readData()`, notifications |
| `MuxBuffer` | `rxBuf_` between the muxer's thread, the AT task and the UART thread that ends a session, access by access, without a lock; on the definitions of `RingBuffer`, implements `ByteQueue` |
| `MuxSession` | Transport base, UART transport and mux transport together: who gets the host's bytes over AT+CMUX, AT+FWUPD and a restart |
| `GpioCommands` | AT+GPIOC, AT+GPIOR and AT+GPIOW over the GPIO driver |
| `XmodemReceiver_proofs`, `XmodemTransfer_proofs`, `XmodemOrder_proofs`, `FirmwareUpdate_proofs`, `MuxSession_proofs`, `MuxBuffer_proofs`, `SdioTransmit_proofs`, `SdioReceive_proofs` | TLAPS proofs |
| `MC...` | Small instances for TLC |

Definitions marked `Variant:` are not part of any specification. Each stands beside the
definition it is a wrong version of (a dropped test, a missing reset) and documents
which property would notice; `PROJECT.json` lists the pairs under `mutants`.

### XmodemReceiver

One action is one call of `run()` in one `state_`; `SetState`, `SetError`,
`CheckPacketTimeout` and `Flush` translate the helpers of the same name. Everything a
call gets from outside is a parameter: how many bytes are read or written (short reads
and writes included), the start byte, the header, the payload, and whether the write of
a flushed packet succeeds. `Tick` is time; `elapsed` is `millis() - stateTime_`, kept at
the longest timeout. A header is `[num, ok]`, where `ok` says that number and complement
agree; a payload is `[data, ok]`, where `ok` says that the checksum matches, so the CRC
is modelled by the decision it leads to. `packet = NoPacket` means that the payload area
of the buffer has been partly overwritten. `written` is history: which byte of which
payload was written at each offset of the file.

### XmodemTransfer

The sender (README: `sx -k`) and the link are not in the repository and are modelled as
external: a stop-and-wait sender which repeats on NAK or silence, and a link in order that
loses frames and control bytes and damages payloads, `MaxFaults` times. A frame reaches
the receiver whole, since `XmodemReceiver` already covers partial reads.
`MaxEarlyTimeouts` lets the sender repeat a packet although the answer is on its way.

### FirmwareUpdate

One action per call of the handler that can fail or changes flash; `Crash` is possible
between any two. `Return` is the early return with the scope guard's `cancelUpdate()`.
An image is `[ver, len, good]`; ESP-IDF's verification is `Valid`. `Receive` is a step of
`FileTransfer`, so that the update is checked against what the receiver is shown to
implement and not against its detail. ESP-IDF's OTA calls are modelled from their use:
`esp_ota_begin()` erases the slot and may fail before or after, `esp_ota_end()` frees the
handle in every case, the boot loader falls back to another valid slot.

### RingBuffer and SdioTransmit

`rb` is the record of the fields of `txBuf_`. The firmware never calls `acquire()`, so
`headPending_` stays 0 and `curSize_` stays `size_`; both are left out. Cells have values
so that the module can say what the host reads.

In `SdioTransmit` an action is a stretch under `txMutex_`, or an unlocked access of
`transmitting_` or `exit_`. The n-th byte written has the value n and padding is whatever
the cell holds. `HostReads` is external: the driver reads the lent block from the ring
buffer's memory, at any time after `sdio_slave_send_queue()`, and then reports it as
finished. `StartTransmission` keeps the order of the code: minimum with the block size,
padding to whole words by an empty `put()`, `consumable()` computed anew, `consume()`,
queueing, and the cancellation if queueing fails. `closing` assumes that no task writes
any more once the AT task is in `destroyTransport()`; see the hazard at
`at_transport_sdio.cpp:149` for what would happen otherwise.

### SdioReceive

An action is a stretch under `rxMutex_` (`Link`, `Unlink`) or one access outside it:
`CopyBytes` follows `listHead_` without the lock, `Count` and `Uncount` change `rxData_`
without it. `After` is the order of the RX thread's steps. The buffers are model values
with the fields of `Buffer`; the n-th byte that the host sends has the value n. The AT
core is external: on a notification it reads until `getDataLength()` returns 0, and it
keeps `CoreDepth` notifications, beyond which `notifyReceivedData()` times out. AT+FWUPD
is `EnterDirect` and `LeaveDirect`, after which the core may or may not look for more.
`rxData` is the `int` that `getDataLength()` makes of it, so that a count that falls
below zero for a moment shows as what the core sees.

### MuxBuffer

`writer` and `reader` are the places of the muxer's thread and of the AT task inside
`put()`, `get()`, `data()` and `reset()`, and `uart` is that of the UART thread inside
`stopMuxer()`. One action is one access to `head_`, `tail_` or `full_`, because the fields
are plain members and no task takes a lock. `data()` compares first (`Ahead`,
kept in `wAhead` or `rAhead`) and reads the fields again afterwards (`Data`), as the code
does. Cells are written and read together with the access that follows them; the
compiler may keep a value in a register where the source reads twice, which is the case
in which both readings fall together and so one of the behaviours.

`reset()` has two callers. The AT task calls it at the end of AT+FWUPD: `EnterDirect` is
`setDirectMode(true)`, after which the XMODEM receiver polls and `Notify` tells nobody,
since direct mode of this transport has no handler; `FlushInput`, `ResetHead` and `ResetFull`
are `flushInput()`, and `LeaveDirect` is `setDirectMode(false)`. The UART thread calls it when
a session ends: `StopMuxer`, `StopResetsHead` and `StopResetsFull`. `muxer_.stop()` comes
first there and is taken to end the muxer's thread, so that the UART thread meets no
`put()`; the AT task may be anywhere in its calls. Without a session the AT core asks the
transport below (`CoreAsksBelow`), over which AT+CMUX begins another one (`NewSession`).

`leftover` is history: direct mode has ended with bytes in the buffer and no notification.
It is the exception of `AllRead`, as in `SdioReceive`; see the findings below.

`spoilt` is history as well. It becomes TRUE when `put()` sees `head_` meet `tail_` (the frame
filled the buffer, or the reader emptied it in between), when `flushInput()` meets a `put()`,
or when the reset of `stopMuxer()` meets `flushInput()` or a call of the AT task that has
compared and not yet ended. The properties speak of the behaviours before that; what
happens after it is in
[What the models say about the code](#what-the-models-say-about-the-code). `rxBuf_`
is fed by a host that normally waits for each answer, so that its bound is far away:
`spoilt` is the exceptional case, not the rule.

### MuxSession

The host sends chunks: a command line, a frame of the AT channel, or the frame that ends
the session. What is a byte or a frame inside does not matter to who gets it. The UART
driver queues one event for each chunk, or none if its queue is full. `uart` is the place
of the UART thread in `run()`, `notifyReceivedData()`, `dataHandler()` and `stopMuxer()`;
`task` is that of the AT task in AT+CMUX, AT+FWUPD or `destroyTransport()`. The three
assignments of `setDirectMode()` are three actions. The muxer is external: notified of
input, it reads what the UART transport has, and stops when it reads the closing frame. A
frame for which `rxBuf_` has no space is dropped (`Stored`). `PreRestart` does nothing while
the active transport is in direct mode.

`UartPreempts` says whether the UART thread may run between those three assignments.
On the Argon it has the lowest priority above idle (`at_uart_t`, `at_transport_uart.cpp:22`)
and there is one core (`CONFIG_FREERTOS_UNICORE`), so the runs and the theorem about
`ModesAgree` take it to be FALSE. This assumes that the AT task, which the library creates,
has a higher priority. With TRUE, TLC finds within seconds that the thread calls the
handler before `handlerCtx_` is set: the order of the assignments in
`at_transport.cpp:83-85` is right only by priority.

`overlap` is history as well: AT+CMUX has begun to switch while the UART thread was inside
`stopMuxer()`. See the findings below.

### GpioCommands

The AT task runs one command after the other, so a command is one action. `Bit` is the
shift of a 32-bit value, with the instruction of the core for amounts of 32 and more.
Parsing is abstracted: a parameter that is no number counts as out of range, or as
`Omitted` where the code treats it so.

## The runs

| Run | Question | Result |
|---|---|---|
| `xmodem_receiver` | Does the receiver keep to its buffer and the file, end, and implement `FileTransfer`, whatever the peer does? | holds |
| `xmodem_extra_packet` | Does it refuse every packet after the end of the file, as its message says? | violated |
| `xmodem_transfer` | With a real sender and a lossy link, is what is written the file, and how far can the two sides get apart, also when the sender repeats itself too soon? | holds |
| `xmodem_early_timeout` | Is every byte written verified also when the sender repeats a packet too soon? | violated |
| `xmodem_completes` | Does the transfer succeed with few faults? | holds |
| `firmware_update` | Does the device always boot, clean up, and switch only to the sent image? | holds |
| `sdio_transmit` | Does the host read what was written, in order and all of it, does somebody always see to what is in the buffer, while tasks wait and shut down? | holds |
| `sdio_padding` | Also when the driver refuses a block? | violated |
| `sdio_receive` | Are bytes read in order and all of them, each buffer owned once, `rxData_` right, and is the AT core told in time? | holds |
| `mux_buffer` | Is `rxBuf_` a bounded queue without a lock, until `head_` meets `tail_`? | holds |
| `mux_session` | Do all flags agree on who gets the bytes, and do sessions and the shutdown end? | holds |
| `gpio_high_pins` | Is what AT+GPIOC? reports what was configured, for all pins? | violated |

Bounds and why they are enough.

- `XmodemReceiver.cfg`: a file of 5 bytes with packets of 2 and 3 makes both sizes needed,
  a last packet partly used, and a third packet superfluous. Header and CRC keep their
  real sizes, so that partial reads of each are covered. Packet numbers are modulo 3: the
  previous, the present and the next number differ, and they wrap around within the file.
  The limits are 2 and 3 instead of 5 and 30, reached one by one; `PACKET_TIMEOUT`
  stays longer than the other two timeouts, as in the code.
- `XmodemTransfer.cfg`: 8 bytes are three packets of two sizes; 4 faults are more than
  one packet may suffer, so that a transfer also fails for good. One early timeout is as many
  as numbers modulo 3 can stand (see `XmodemOrder_proofs`). `XmodemTransferCompletes`
  has 2 faults, which `MAX_PACKET_RETRY_COUNT` = 2 must absorb, and no early timeouts.
- `FirmwareUpdate.cfg`: two slots as in the partition tables, three commands (one after
  a failure, one after a success) and two power failures, one of them in the command
  that follows the other.
- `SdioTransmit.cfg`: a buffer of two blocks of two words, writes of 5 and 9 bytes, 22
  bytes in all. That fills the buffer (a write that is cut short), wraps it, needs
  padding, sends blocks with and without padding, and splits what exceeds a block.
- `SdioReceive.cfg`: three buffers are a list with a head, a middle and a tail, and 7 bytes
  reuse each of them; reads of 1 and 3 end inside a buffer, at its end and beyond it;
  a notification depth of 1 makes notifications time out.
- `MuxBuffer.cfg`: a buffer of 4 with frames of 2 and 3 wraps at different places, is
  filled exactly (2 and 2) and refuses frames; 7 bytes are more than one round; reads of
  1 and 5 are clipped and not. One reset, by AT+FWUPD or by the end of a session, at any
  point of the run; two (one of each, or two updates or sessions) were checked with 5 bytes.
  The inductive invariant was also checked on frames of 1, 2, 3 and 5 bytes.
- `MuxSession.cfg`: queues of 2 fill up; 7 chunks are enough for a session with data, its
  end, and a second one that overlaps with the end of the first.
- `GpioCommands.cfg`: pins on both sides of 32, inputs, outputs and missing pins.

Fairness. `XmodemReceiver`: `WF(Tick)` and `WF(Idle)`, since the handler calls `run()` in
a loop and time goes on; nothing is assumed of the peer, hence `Termination` says that
timeouts and limits alone end a transfer. `XmodemTransfer`: both sides run and time
goes on; `Prompt` restricts time to where a prompt peer and link would let a timeout
happen. `FirmwareUpdate`: `WF(Handler)`, the AT task goes on, and a transfer ends by
itself, which is `TransferSpec` of the receiver. That `Reply` ends assumes that the host
goes on reading: on SDIO, `waitWriteComplete()` does not look at its timeout while a
block is on its way (`at_transport_sdio.cpp:327`). `SdioTransmit`: each thread is
scheduled and the host reads what is queued for it; FreeRTOS runs both threads at the
same priority above idle, and without a reading host nothing can be promised.
`SdioReceive` and `MuxBuffer`: all threads are scheduled, and an AT core that has been
notified reads until nothing is left, which is the contract of `esp_at_port_recv_data_notify()`
as far as the firmware relies on it; nothing is assumed of the host, nor of when an XMODEM
transfer polls or ends (`AllRead` of `MuxBuffer` does not speak of direct mode while it lasts). `MuxSession`: the UART thread, the muxer and the AT task are scheduled, and
a transfer ends by itself (`TransferSpec`); nothing is assumed of the host. A task that
waits for room in a queue is not helped by fairness, which is how `Stuck` was found.

`CHECK_DEADLOCK FALSE` is set in all runs: a transfer ends, the bounded numbers of
commands, power failures and bytes run out, and the transport stops.

## The proofs

`tlapm` proves the following for every value of the constants that the named assumptions
allow. It discharges them with Z3, Zenon and LS4; nothing is left out or assumed.

`XmodemReceiver_proofs`, for every file size, packet size, limit and timeout
(`SizesAssumption`, `LimitsAssumption`, `TimeoutsAssumption`, `DataAssumption`):

- `TypeCorrect`: all types, among them the bounds of the counters.
- `ReadsStayInPacket`: the unsigned subtractions never wrap around.
- `WritesPrefix`: the destination holds exactly the first `fileOffs` bytes.
- `DoneIsWhole`: DONE means that every byte is written.
- `PacketsBounded`: at most one packet more than the file can need is accepted.
- `ImplementsFileTransfer`: every step is a step of `FileTransfer` or a stutter.

None of these is inductive alone. `IInv` adds what they rest on: `BufferInv` (in every
state from which `flush()` can be called the buffer holds one complete packet or nothing;
this is what makes `packetSize_ - 5` safe), `CounterInv` (while a transfer is active both
counters are strictly within their limits, so that the next increment is too) and
`ResultInv` (a result is final exactly when the receiver is destroyed; in the state that
acknowledges EOT the file is complete). `PacketsBounded` adds `PacketsInv`: every packet but
the last one counted has brought at least `SohSize` bytes, or the file is complete; it rests
on `CountableInv`, that a header is read only while the flushed file is incomplete and with
the packet before still in the buffer. There is one lemma per state of `run()`, and
`recvSoh()` and `recvPacketHeader()` are split by their branches. For the refinement,
`StepHasEffect` says what a step can do to the file offset and the result, and the
theorem matches its four cases with the actions of `FileTransfer`.

`XmodemTransfer_proofs`, for every file, packet size, limit, timeout and number of faults, and
packet numbers of any width above one (the same assumptions, `LinkAssumption` and
`OffsetsAssumption`; it extends `XmodemReceiver_proofs`):

- `ReceiverInTransfer`: with the sender and the link, the receiver behaves as its own
  specification says, so all theorems above hold here too.
- `OnlyVerifiedWritten`: every byte written is the byte of the file that belongs there, from
  a payload that was verified.
- `StaysInStep`: the sender is at most one packet ahead.
- `SenderDoneMeansDone`: a sender that gets an ACK for EOT has a receiver that is DONE.
- `CompleteMeansTheFile`: when either side takes the transfer for complete, the partition
  holds the file, every byte of it verified.

The last four hold for a sender that never repeats itself too soon (`early = 0`); the run
`xmodem_early_timeout` shows why they need it. The invariant `TInv` is `IInv` of the receiver,
the types of the link, `MidFrame` (a frame stays on the link until its payload has been read)
and `early = 0 => StopAndWait`. `TokenInv` is the heart of the latter: one frame or one answer
is on the way, never both and never two, so that a lost one can be repeated without meeting
an old one. `StartInv` and `EndInv` describe the link before the first and after the last
packet, and `FrameInv` says that the frame on the way is the one the sender waits for.
`StepInv` then has two cases. In `Same` the receiver has accepted the header of the packet
that is being sent; in `Ahead` the sender has gone on, and the packet before is in the buffer,
verified and not yet flushed. The packet number on the line is what tells the two apart when
a packet is repeated, and `NumbersDiffer` is all that is used of it. Because `flush()` runs
one packet late, `WrittenIsTheFile` rests on `Buffered`, which says what it will write.

`XmodemOrder_proofs` (it extends `XmodemTransfer_proofs`, with the same assumptions) drops
`early = 0`:

- `NumbersTellPacketsApart`: as long as there were fewer than `NumMod - 1` early timeouts, every
  byte written is in its place. `EveryByteInPlace` and `DoneInPlace` say the same of a whole
  transfer with at most `NumMod - 2` of them, 254 for the numbers of one byte on the line.
- `DriftsByEarlyTimeouts`: each early timeout lets the sender get one packet further ahead of
  the receiver, at most.

An answer carries no number. When the sender repeats a packet although the answer is on its
way, the copy is answered too, and the sender takes the second ACK for one to the packet it
has gone on to; from then on it is one packet further ahead, whatever happens later. `OInv`
keeps track of this with four functions, of which it says only that they exist (`Tracked`):
`o[k]` is the offset of packet k (`Offsets`); `ks[i]` is the number, not cut to a byte, of the
i-th frame on the link, and `ks[0]` is the receiver's `packetNum` (`Numbered`: they never
decrease, and end at most at the sender's number); `c` counts at least the frames that
repeat the one before (`Again`), and `a` the answers on the way. The sum in `Bounded` is what
does not grow but with `early`:

    sendNum + repetitions + answers + Due =< packetNum + 1 + early

`Due` is the answer that the receiver is about to send. Reading a repetition turns it into an
answer that is due, reading the next packet increases `packetNum` with it, hearing an ACK
turns an answer into a packet, hearing a NAK into a repetition, losing anything makes the left
side smaller, a rightful timeout happens when both counts are 0, and an early one adds 1 to
both sides. All frames on the way have numbers between `packetNum` and
`packetNum + 1 + early`, so if `early < NumMod - 1` they differ by less than `NumMod`, and equal
bytes mean equal numbers (`ResiduesDiffer`): `recvPacketHeader()` tells a copy from the next
packet and both from any later one. `Held` carries that over to `flush()`, which writes one
packet late. The counts are bounds and not cardinalities so that the proof needs no induction:
an action moves a function by one place or adds one at its end (`CreditsTail`). TLC checked
`NumbersTellPacketsApart` before the proof with (`NumMod`, early timeouts) = (3, 1) and (4, 2) and
a file of 14 bytes. The bound is sharp: with (2, 1) and (3, 2) TLC finds a byte in the wrong
place.

`FirmwareUpdate_proofs`, for any number of slots, image size, commands and power failures
(`SlotsAssumption`, `UpdateBounds`):

- `TypeCorrect`; `AlwaysBoots` (the boot partition and the running slot are valid at every
  point where power may fail); `HandlerCleansUp`; `ErrorChangesNothing`;
  `SwitchesToSentImage` (an action property).

The strengthening: `TargetInv` (update object, handle and target slot go together, and the
target is not the running slot), `BootInv` (boot partition and running slot differ only
between a successful `esp_ota_set_boot_partition()` and the restart, so that erasing the
other slot cannot hit the boot partition), `ContentInv` (the target holds what was
delivered), `ReplyInv` and `DirectInv`.

`MuxSession_proofs`, for queues of any depth (`SessionAssumption`):

- `Types`, whatever the priorities; `FlagsAgree`, while the UART thread does not preempt the
  AT task (`~UartPreempts`), for any number of chunks.

`ModesAgree` speaks of the moments when both tasks are at rest. Between them `Handover`
holds: `ActiveInv` says at which places of either task which transport is active (a muxer
that runs is the active one unless AT+CMUX is about to switch; the UART thread calls the
handler only in a session; AT+CMUX does not switch while `stopMuxer()` is on its way),
`ModeInv` what the three flags are at each of these places. An action moves one task from
one place to the next, and the proof has a step for each.

`MuxBuffer_proofs`, for a buffer, frames and reads of any size (`RingAssumption`,
`MuxBufferAssumption`):

- `OrderKept`: the bytes are read in order, each once, none lost but by `reset()`.
- `RefusalsOnlyTorn` (an action property): a frame is dropped only for want of space, and
  `get()` never fails, unless the other task wraps around between the halves of `data()`.
- `ImplementsByteQueue`: every access is a step of a bounded queue, or none.
- `WakeUpKept`: while the AT core rests, bytes do not lie in the buffer unless it has been
  notified or will be, the leftovers of direct mode excepted. It is the safety half of
  `AllRead`. `WakeInv` adds where this could fail: when the core is about to rest on an old
  comparison, a `put()` has come in between and its notification is still to come; a core
  that rests because the session is over leaves an empty buffer.

The inductive invariant is `~spoilt => Sound`. `NotFull`: `full_` is FALSE, so that
`ClearFull` and `SetFull` change nothing, which is why the tasks can share the third
field at all. `HeldInv`: the cells from tail to head hold the latest bytes, in order.
`GotInv`: the AT task has got those before them. `WriterInv` and `ReaderInv` say that
what a task found out by an earlier comparison still holds when it acts on it: a stale
comparison may make the writer see less space than there is and the reader less data,
never more; a reset finds no `put()` and no `get()` on its way. That is the whole argument
why no lock is needed.

`SdioTransmit_proofs`, for a buffer, blocks and writes of any size and any number of
failures of the driver (`RingAssumption`, `TransmitAssumption`: a block is whole words and
the buffer whole blocks):

- `Types`; `LentOnce`: one block is lent at a time, and `transmitting_` says when.
- `PaddingFits`: `startTransmission()` never returns `RESULT_NO_MEMORY` or `RESULT_ERROR`,
  that is it finds space for the padding and hands whole words to the driver, also in the
  buffer that `writeData()` has just filled. The refusals are part of the model
  (`NothingStarted`) and are shown to be unreachable, not assumed to be.
- `HostGetsWritten`: the host gets what was written, as long as the driver takes every block.
- `WaitedForIsRead` (an action property): `waitWriteComplete()` returns `RESULT_OK` only
  when the host has read what was written before, also after failures.
- `NothingStranded`: as long as the driver takes every block, bytes in `txBuf_` have a block on
  its way, or a TX thread that is about to look for them.
- `TxBufferIsQueue`: every step is a step of a bounded queue, or none.

The heart of the inductive invariant is `RingInv`: the tail is on a word boundary and what
is lent are whole words in one piece. The head may be anywhere, and it is the reason why the
padding fits: a block that needs padding ends at the head, so all that lies between the head
and the next word boundary is free, and that boundary is at most the end of the buffer
(`SendableFacts`). `LoanInv`
says that the block queued is the first in the buffer, `Unsent` and `Intact` which bytes the
cells hold behind it and in it, `CountInv` that no written byte is missing from the count
even when padding stays in the buffer after a failure, and `ExitInv` that `exit_` counts the
threads that run, so that nobody writes after the TX thread has reset the buffer. The
operations of the ring buffer have a lemma each (`SkipRing`, `PutRing`, `LendRing`,
`CommitRing`), and `StartKeeps` is shared by the two callers of `startTransmission()`.
`NothingLeftBehind` (in `SdioTransmit_proofs`) is the safety half of `AllRead`: a writer that finds a block on its way
leaves its bytes to the TX thread, which looks for them after it has cleared
`transmitting_`. It is inductive beside that invariant, because `startTransmission()`
finds nothing to send in an empty buffer only (`NothingToSend`).

`SdioReceive_proofs`, for any number of buffers, packets and reads of any length, and any
number of notifications (`ReceiveAssumption`: the buffers are finitely many, as `list_` is
an array):

- `OrderKept`: the bytes are read in the order they were sent, each once, none left out.
- `EachBufferOnce`: each buffer is in one place, once: loaded into the driver, filled, with
  the RX thread, on the list, or with `readData()`; and the list ends at `listTail_`.
- `CountAgrees`: `rxData_` differs from the bytes on the list by exactly what the two threads
  have linked or read and not counted yet.
- `NoWakeUpLost`: while the AT core rests, it knows of the bytes that are counted or is about to
  be told, but for what direct mode has left. This is the safety half of `AllRead`.
- `Types`.

What makes the list hard to reason about is that it is spread over `next` of all buffers,
and that `CopyBytes` follows `listHead_` without the lock. The invariant `RInv` says that
there are a sequence `q` of buffers and a map `place` from buffers to places such that: each
buffer is where `place` says (`Placed`); `listHead`, `next` and `listTail` link exactly the
buffers of `q` (`Chained`); only the first of them has been partly read, and it is empty
exactly while `readData()` is about to take it off (`Reading`, which is why an unlocked look
at `listHead_` is right: the RX thread only ever appends behind it); and the buffers on the
list, then the one with the RX thread, then those in the driver hold consecutive bytes, the
first of them the next to be read (`Ordered`). Each action keeps this with a new `q` and
`place`, and has two lemmas, one for that and one for the types.

`OneOwner` and `DataCounted` speak of the list in other words: by following `next` as many
times as there are buffers, and by a fold over a set. Both are recursive functions, and the
proofs get by without induction theorems, with the least number at which a claim would
fail (`Least`): `ChainIs` shows that the walk along `next` visits `q`, and `SumOfLeft` that
the sum of `left` is the number of bytes not yet read, since the buffers hold disjoint
intervals.

Only model-checked: everything temporal beyond safety (`Termination`, the liveness half of
`TransferSpec`, `Completes`, `OkRestarts`, `HandlerReturns`, `AllRead`, `DestroyReturns`,
`SessionEnds`), which is out of the prover's reach, and the properties that the runs find
violated. Every invariant and every action property of a run that holds is a theorem. Four
listed theorems state properties that no run checks, because others say nearly the same:
`DoneIsWhole` (`TransferSpec` and `WrittenIsPrefix`), `StaysInStep` (`DriftBounded` without
early timeouts), `NothingStranded` and `WakeUpKept` (the safety halves of `AllRead` in
`SdioTransmit` and in `MuxBuffer`; TLC has checked the latter with 5 bytes and two resets). The type
invariant of `MuxBuffer` is not an invariant of a run but part of `Sound`: after `spoilt` the
buffer may hand out bytes that were never put.

## What the models say about the code

1. `xmodem_extra_packet`: `recvSoh()` tests for an unexpected packet with the flushed
   offset, which lags one packet behind, and accepts one packet after the whole file. Its
   data is not written (`AtMostOnePacketTooMany` and `WrittenIsPrefix` hold).
2. `xmodem_early_timeout`: a repetition of an acknowledged packet is received over it. If
   it is damaged it is refused, but the next header flushes the buffer all the same, and
   the damaged bytes are written. It needs a sender that repeats a packet just before its
   ACK arrives; the image verification at the end then rejects the update.
3. `sdio_padding`: when the driver refuses a padded block, `startTransmission()` takes
   back what it lent but not the padding, which later reaches the host as data.
4. `gpio_high_pins`: `BIT(pin)` is a 32-bit shift. AT+GPIOC of pin 33 answers OK, configures
   pin 1, and reports a configuration of pin 33 that the driver never got.

Races and corner cases that the properties name or leave out, and why:

- `rxBuf_` (`ringbuffer.h:165-166`). The AT task may empty the buffer between `head_ = head`
  and `full_ = (head_ == tail_)`. Then `full_` is set on an empty buffer, `data()` returns
  its whole size, and the AT core reads stale bytes. The same happens the other way when
  the buffer is really full and `get()` clears `full_` late. All of it lies beyond
  `spoilt`. It needs the AT task to run inside a few instructions of the muxer's thread.
- AT+CMUX and `stopMuxer()` (`at_transport_mux.cpp:174-176`). Once `direct_` is FALSE the AT
  task can read a command. If that is AT+CMUX, its handler is cleared again when the UART
  thread goes on: the session has no handler and is dead until a reset. That is
  `overlap`; without it `ModesAgree` and `SessionEnds` would be violated.
- UART shutdown (`Stuck`). The UART thread may wait for ever for room in the AT core, which
  the AT task does not make while it joins the thread; or it may leave at once on `exit_`
  with a full event queue, to which the AT task then waits to send.
- Bytes left by direct mode. On SDIO, `flushInput()` does nothing although the handler
  calls it to "Discard any extra CAN bytes" (`at_command_manager.cpp:240`). They stay in
  the list until the next notification and are then read as the beginning of a command
  (`leftover` in `SdioReceive`, the exception in `AllRead`). Over the mux transport
  `flushInput()` does empty the buffer, but a frame that arrives between it and
  `setDirectMode(false)` (`at_command_manager.cpp:240-243`) is stored and not notified
  (`at_transport.cpp:105-110`), with the same effect (`leftover` in `MuxBuffer`).
- `reset()` by `stopMuxer()` (`at_transport_mux.cpp:177`) takes no lock either. When the AT task is
  in `get()` at that moment, the new `tail_` it stores makes an empty buffer look full of old
  bytes, which are read when the next session begins. It lies beyond `spoilt` in `MuxBuffer`.
- `notifyReceivedData()` may time out. In `SdioReceive` that loses nothing, because the order
  of `Count` before `Notify` and a core that reads until nothing is left make up for it;
  with the order reversed `AllRead` is violated.

## Not modelled

- The `esp32-at` interpreter and the GSM 07.10 muxer: not in the repository (library and
  submodule). ESP-IDF: modelled as external where the code relies on it.
- AT+CGMR, AT+MVER, AT+GETMAC; result codes, logging, version, build files: no state.
- `peek()`, `acquire()` and their relatives in the ring buffer: no caller.
- Start-up: a sequence of calls whose result is the initial state of the models. A thread
  that cannot be created (`at_transport_uart.cpp:48`, `at_transport_sdio.cpp:113`) leaves a
  destroyed transport that is marked as started; the firmware cannot serve a command then.
- Network input and output (`main.cpp`, the network channels of the mux transport): a frame
  is handed on, and a packet is freed by the statement that follows the queue's answer.
  There is no state in common but a FreeRTOS queue and the reference counts of lwIP.
- Writes of the UART transport and of the mux transport: one call of a library each.
- The receive half of the SDIO transport beside a shutdown, and both halves at once: they
  share only `exit_`.
- MuxSession on the Tracker: there the mux transport sits on SDIO, whose RX thread calls the
  same `notifyReceivedData()` but waits a limited time; the session part is the same.
- The strength of CRC-16: a damaged payload is one whose checksum does not match.

## The plan

Done: the modules listed above, and the proofs of the receiver, the transfer (with and without
early timeouts), the update, the session, `rxBuf_`, and both halves of the SDIO transport.

What could follow:

- The receive half of the SDIO transport beside a shutdown, and both halves at once.
- The mux transport on top of SDIO, as on the Tracker.
