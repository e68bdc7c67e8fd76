# JABI in TLA+

Models, model-checking runs and proofs for JABI, a bridge that gives hosts RPC
access to the peripherals of a microcontroller: firmware on Zephyr (`firmware/`),
the message formats both sides share (`include/`), and client libraries
(`clients/`). Paths below are relative to the repository; `main.c`, `can.c` and
so on are under `firmware/src`.

    tlc -workers 2 -config Can.cfg MCCan      # a run; PROJECT.json lists them all
    tlapm CanProofs.tla                       # a module of proofs

## 1. The system

| Part | State it keeps | Operations | Talks to |
|---|---|---|---|
| dispatcher, `main.c:27-87` | per interface thread: request, response; one semaphore per device | `process_interface`: get_req, three range checks, `k_sem_take` with 100 ms, the function, `k_sem_give`, send_resp | interfaces (calls), peripherals (calls), other threads (semaphores) |
| start-up, `main.c:89-139` | list of device locks, table of locks | `main` | malloc, peripherals' init, threads |
| CAN, `peripherals/can.c` | two filters, receive queue, `tx_lock`, `tx_was_busy` | set_filter, set_rate, set_style, state, write, read; `can_write_cb` | controller (calls and interrupts) |
| LIN, `peripherals/lin.c` | mode, `tx_msgs`, filters, receive queue, status, two semaphores | set_mode, set_rate, set_filter, mode, status, write, read; three callbacks | controller (calls and interrupts) |
| SPI, `peripherals/spi.c` | two `spi_config` per instance and which is in use | set_freq, set_mode, set_bitorder, write, read, transceive | bus driver, which compares pointers |
| UART peripheral, `peripherals/uart.c` | `tx_buf`, `tx_len`, `tx_ptr`, `tx_was_busy`, receive queue | set_config, write, read; `uart_handler` | UART (interrupts) |
| I2C, GPIO, PWM, ADC, DAC, metadata | none of their own | see `DeviceApi` | drivers |
| UART interface, `firmware/src/interfaces/uart.c` | receive queue of one request, transmit pointer | get_req, send_resp; handler | serial line, dispatcher |
| USB interface, `interfaces/usb.c` | none beyond the endpoints | get_req, send_resp | USB stack, dispatcher |
| libjabi (C++), `clients/cpp` | maximal sizes, a mutex per interface | one method per function; `send_request`, `list_devices`, `get_device` | interfaces, the application's threads |
| Rust client, `clients/rust` | the same | the same; resets the device on a time-out | interfaces |
| gRPC server, `clients/grpc-server` | the devices found at its start | one handler per function | libjabi, which makes the call |
| Python bindings, `clients/python` | none | one name per function and value | libjabi, which makes the call |

What is hard in it:

* **Concurrency.** Every interface has a thread ("Multiple interfaces running
  concurrently is supported", README.md:13), several instances may share one
  device, and every peripheral with state shares it with interrupt handlers and
  driver callbacks.
* **Time-outs that race with completions.** A lock, a CAN write, a UART write and
  a client's request all give up and leave something running that ends later.
* **Half-done work.** A bus reconfiguration, a filter change, a mode change or
  start-up that fails in the middle; a request that is written in part.
* **No framing.** Messages carry no number and no checksum, and a host learns the
  length of an answer from its header; a late answer looks like the next one.
* **Tables written by hand.** 38 functions compute the lengths of requests and
  answers in C, in C++ and in Rust, and nine enumerations are written out in the
  firmware's switches, in C++, Rust, the protocol buffers and the bindings.

What makes each part correct:

* dispatcher: one answer per request, one user per device, BUSY only for a device
  in use, errors without payload, no lost lock, everyone answered;
* start-up: one lock per device, threads only when everything is ready;
* CAN: frames in the order of the writes, success only for a frame that was sent,
  no completion taken for another's, no filter lost, started when success is reported;
* LIN: nothing survives a change of mode that could be taken for an answer, frames
  and filters are used whole, frames are sent once, commands come back;
* SPI: transfers use the settings hosts were told are set;
* UART peripheral: bytes leave once and in order, success means sent, BUSY is not
  for ever, what is read has no gap;
* links: a request is executed as it was sent, an answer goes to its own request,
  the link recovers from whatever was lost or late, nobody hangs;
* device API: the firmware understands what every client sends and the reverse, in
  length and in value.

`PROJECT.json` lists the hazards one by one, each with its line and the
properties that would catch it.

## 2. The modules

Three abstract specifications say what a component promises: `DeviceService` (one user
per device, an answer for every request) is implemented by `Dispatch`, `LinkService`
(a function runs once, a call gets its own answer or fails) by `UsbLink`, `WriteService`
(a write that may time out hands over its units when none of an earlier write is left,
they leave in order, success means all have left) by `Can` and `UartPeriph`, which
track late completions in the same way.

`Firmware` composes `Boot` and `Dispatch`: `main` builds the table of locks and starts
the threads one by one, and those that exist run the dispatcher on that table.
`Dispatch` alone takes the table for given, with one lock per device; `Firmware`
implements it (`ImplementsDispatch`), with the semaphore that the table gives a device
for its lock and `main` as steps that change nothing, and so implements `DeviceService`
too. `Can`, `Lin`, `Spi` and `UartPeriph` each model one peripheral under the exclusion that `Dispatch` proves: their functions never
overlap, so one thread per device is enough, and what interleaves with it are
interrupts. `UartLink` and `UsbLink` model the two transports, client and firmware
together, for the C++ and the Rust client. `UsbLink` extends `ApiValues`, which extends
`RustApi`, which extends `DeviceApi`: the functions, their formats and their enumerated
arguments. `MC*` modules give constants for TLC; `*Proofs` modules hold theorems.

A step of a model is a piece of code between two points where something else can
observe or change the state: a lock, a semaphore, an interrupt, a call of a driver
that may fail. Locals that nobody reads again are reset or forgotten.

| Module | Models | State and actions |
|---|---|---|
| `Dispatch` | `process_interface` | `pc[i]` follows one thread from `get` (36-44) through `check` (46-64), `pend` (waiting in 67), `call` (73-75), `give` (76-81) to `send` (83-86). `Tick` is time; `waited` and `ran` count it. `GiveLock` and `HandOver` are the two ways `k_sem_give` ends. |
| `DeviceService` | what the dispatcher promises | `owner` of each device, requests accepted, refused, done and answered. |
| `Boot` | `main` | `i`, `j` are its loop counters, `ShareLock`/`NewLock` the list search and its failure, `InitPeriph` the init that may fail. |
| `Firmware` | `main` and the threads | `Main` is a step of `Boot` with `k_sem_init`, `Thread(f)` and `Receive(f)` are those of `Dispatch` for a thread that was started, with `sem[a]`, the semaphore at an address, for the lock of a device. |
| `Can` | `can.c` | `pending`, `tx_lock`, `tx_was_busy` are the mailboxes and the two variables that track them; `Transmit` is `can_write_cb`; `WriteBegin`, `SendOk`/`SendFails`, `WriteDone`/`WriteTimeout` are 255-274; `Stop`..`Start` 118-182; `RemoveFilters`, `AddStd`, `AddExt` 83-116; reads 276-302. |
| `Spi` | `spi.c` | `configs`, `curr_cfg`, `stale`; `ctx` and `hw` are the driver's last pointer and programming. `requested` records what hosts were told. |
| `Lin` | `lin.c` | `HeaderSend`/`HeaderReceive`, `Sent`, `ReceiveFailed`, `Received` are the callbacks; `SwitchDriver`/`Switch` are the two halves of set_mode, `FilterType`/`FilterLen` those of set_filter, `WriteActive`/`WriteMsg` those of a responder's write. `written`, `raced`, `sent_since` are history. |
| `UartPeriph` | `peripherals/uart.c` | `TxDone`, `TxFill`, `RxChunk` are `uart_handler`; `WriteCopy`, `WriteStart`, `WriteDone`/`WriteTimeout` are 139-161; `ReadByte`, `ReadEnd` the loop 177-182. Bytes are numbered. |
| `UartLink` | `clients/cpp/libjabi/interfaces/uart.cpp:210-274`, `clients/rust/src/interfaces/uart.rs` and `firmware/src/interfaces/uart.c` | `library` is the client; `pc[t]` follows `send_request`; `fpc` follows get_req (67-87) and the service. A cell stands for some bytes, a tick for the firmware's 10 ms. |
| `DeviceApi` | `clients/cpp/libjabi/peripherals/*.cpp`, `firmware/src/peripherals/*.c` | no state: `Host` is what libjabi sends and accepts, `Device` what the firmware takes and answers, and `Answers` puts the two together. |
| `RustApi` | `clients/rust/src/peripherals/*.rs` | no state: `Rust` is `Host` for the Rust client. |
| `ApiValues` | `device.h`, `jabi.proto`, the Rust enums, `jabi.cpp`, the switches of the firmware | no state: the nine enumerations in each of their five places, and `Replies`, what the firmware makes of the number a client sends. |
| `LinkService` | what a link promises | the call in progress, whose function runs, whose answer is under way; an answer may get lost. |
| `WriteService` | what a write with a time-out promises | the numbers of the last unit handed over and of the last that has left, whether a write waits. |
| `UsbLink` | `clients/cpp/libjabi/interfaces/usb.cpp`, `clients/rust/src/interfaces/usb.rs`, `device.rs`, `firmware/src/interfaces/usb.c` | `pc` follows `send_request` packet by packet, `phase` and `tried` follow the probes of `list_devices`, `device` follows get_req, the function, send_resp; `mine` and `answer.own` say whether that is for the call in progress. `Resets` says who resets when. `EndsRead` and `LeavesEmpty` are the two buffers full to the last byte, after which `empty`, the empty packet that ends a transfer, stays unread. |

## 3. The runs

TLC runs of sizes between a few thousand and a million states.

| Run | Question | Bounds, and why they are enough |
|---|---|---|
| `firmware` | does `main` build the right table, whatever fails, do its locks protect the devices, do the threads implement `Dispatch` on it, does every request get as far as its answer, and is nobody told BUSY without need? | 3 peripherals: two pins on one port, one absent, one bus; 2 addresses for malloc, which may fail; 3 interfaces. Sharing, not sharing, an empty row and the last row all happen. Functions of 1 tick, time-out 3: the two other threads together need 2. |
| `dispatch` | exclusion, lock accounting, refinement of `DeviceService` | 3 interfaces (one holds, two wait), 4 instances on 2 devices; functions outlast the time-out (2 > 1 ticks), so every path is taken. |
| `can` | FIFO, completions (refinement of `WriteService`, the one way to lose one), filters, started | 3 writes (one late, one refused, one after), 2 mailboxes (reordering is possible), queue of 2, 3 filter ranges. |
| `can_stale_busy` | is `tx_was_busy` true only while a frame is queued? | as `can`; **violated**, see 6. |
| `spi` | do transfers use the settings asked for? | 2 instances on the bus, one frequency the driver refuses, one invalid mode. |
| `lin` | mode changes, whole frames, whole filters, commands have something to wait for and end | 2 identifiers, 2 writes, queue of 2. |
| `lin_status` | is lin_status what lin.h says? | as `lin`; **violated**. |
| `uart_link` | recovery after lost bytes, late answers, half-written requests | 2 threads, 3 calls (the one that goes wrong, the one that suffers, the one that recovers), 1 lost cell, payloads of 0 or 1 cell, a service that outlasts the time-out (3 > 2 ticks). |
| `uart_periph` | order of bytes, success (refinement of `WriteService`), BUSY, gaps | 4 bytes out in writes of up to 2 (two writes overlap a late one), 4 bytes in through a queue of 2 (it overflows). |
| `usb_link` | packets, resets, lengths and values, refinement of `LinkService`, recovery | packets of 64, and payloads (184 and 188) that fill three of them with their headers, a size Kconfig allows: both buffers can be full to the last byte. A serial number as long as an answer may be. Lengths at every limit: 0, a LIN and a CAN frame and one more, one and two full packets, the maxima, one past `uint16_t`, with those sent and to be read equal or one of them 0 (`CallsOf`; no format relates two others). All 38 functions, every value of every enumeration, from an application in C++, Rust, Python or behind the gRPC server. |
| `python_values` | do the names of the Python bindings mean what they say? | as `usb_link` with the defaults of Kconfig and requests of one packet; **violated**, see 6. |

Each property of a passing run is shown to depend on the code by a mutant: a
plausible wrong version of one action (a "Mutant of" definition beside it) under
which TLC finds the property violated.

Symmetry is used in runs without liveness only (interfaces, filter identifiers,
SPI instances). Deadlock is checked everywhere but in `firmware`, where `main` may
fail and return before there is any thread.

**Fairness**, and why the code has it:

* `Firmware`: a thread that has a request and can run does, up to usb_send_resp or
  uart_send_resp (`WF Handle`): one priority, all block between requests. Time passes
  (`SF Tick`): receiving a request takes time, so the threads cannot serve an infinity
  of requests between two ticks. Functions end within `FnTime`. Hosts need neither send
  anything nor read their answers, and `main` need not go on. usb_send_resp waits for
  its host with `K_FOREVER` (usb.c:177), so `EveryRequestAnswered` ends where the answer
  is handed to it; it does say that a thread stuck there, which holds no lock, keeps no
  other interface from its answers. What becomes of that answer is `Recovers` of `UsbLink`.
* `Lin`: a driver ends the transfer it accepted, and a function that has begun
  goes on. Headers need never come.
* `UartPeriph`: an enabled UART shifts out what it is given.
* `UartLink`: both programs go on and time passes. Lines may lose bytes and I/O may
  fail (`IoFails`), neither need happen.
* `UsbLink`: transfers happen or time out, a driver takes an answer or refuses it,
  functions end, and for `Recovers` the
  application goes on making calls, as without another call nothing resets a device.
  For the C++ library that is not enough: there `Recovers` also assumes that
  `list_devices` is called again and again.

## 4. The proofs

TLAPS checks them for every value of the constants that satisfies the named
assumptions (`SizeAssumption`, `DeviceAssumption`, `RequestAssumption`,
`BootAssumption`, `CanAssumption`, `SpiAssumption`, `LinAssumption`,
`UartAssumption`, `HostAssumption`, `LengthAssumption`, `PacketAssumption`,
`LinkAssumption`), so for any number of interfaces, devices, threads, frames, bytes and packets.
That there are finitely many interfaces is one of the assumptions: they are an array of
`main.c`, and the bound on a wait is a multiple of their number.

* `DispatchProofs`. `TypeOK`, `DeviceExclusion` and `LockAccounted`. The last two are
  inductive only together: `lock[d] = 1` must mean that nobody is between take and
  give, or `TakeLock` would break the exclusion; `HandOver` passes the lock on
  without ever raising it. And `ImplementsService`: under the refinement mapping of
  `Dispatch.tla` (owner of `d` is the thread that holds its lock) every step is a
  step of `DeviceService` or a stutter; `LockTimeout` maps to `Refuse`, which needs
  the invariant that a waiter's device has an owner. `WaitBounded` is the argument behind
  `NoBusyWhenFast`: as long as no lock has timed out, what a thread has waited, plus
  `FnTime` for each waiter ahead of it, plus what the holder may still run, is at most
  (n - 1) * `FnTime` for n interfaces. A tick moves time from the last summand to the
  first; `HandOver` takes a waiter off the queue as it starts a function, because it
  goes to the one that waited longest (`Longest`; to any other, those passed over would
  exceed the bound); who joins finds at most n - 2 ahead of it. The bound is reached.
* `FirmwareProofs`. For `Boot` the invariant relates list and table: one node per device, one
  node per address, every lock of the table in the list with its device; it also knows
  which slots the loops have passed, so that at the end these are all of them. For
  `Firmware`, `main` changes the table no more once a thread exists, so the threads
  can be told apart by the semaphore the table gives them. A semaphore is 0 exactly
  while one thread holds it, those that wait have a holder to wait for, and with the
  invariant of `Boot` (one semaphore per device) exclusion per semaphore is
  exclusion per device. From the same invariant, every step of a thread is the step
  of `Dispatch` for the lock of its device, and every step of `main` changes nothing
  `Dispatch` sees (`DispatchRefined`): before a thread exists no lock is used, and
  afterwards the table stays, so a device and the semaphore it has name each other. The
  theorems about `Dispatch` then hold of the devices of `Firmware` by instantiation:
  `FastNeverBusy`, and `Served`, that the firmware implements `DeviceService`.
* `CanProofs`. The heart is the count of what is outstanding, a frame in the controller
  or a completion not yet taken, at each point of can_write; success and FIFO
  follow since a write begins with none. The filter part knows at each point of
  set_filter which of the two identifiers are live. `SuccessMeansStarted`
  needs no invariant: each step that reports success leaves the controller started.
  `WritesRefined` maps `SendOk` to the hand-over, so that a frame the controller refuses
  was never written, and `Stop` to the one thing that drops a frame. `Stranding` shows that
  the sequence of `can_stale_busy` is the only one that loses a completion.
* `SpiProofs`. If the driver's last pointer is the one it would be given next, then the
  hardware has the settings; with `stale` the next pointer is the other one.
* `LinProofs`. What each program counter knows about `cmd_lock`, the transfer in
  progress and the queue in commander mode, and about `msg_lock` and the two halves
  of frames and filters in responder mode. `CompletionComes`, the safety half of
  `CommandsEnd`, does not need the exclusion of `raced` that the others have.
* `UartPeriphProofs`. `tx_buf[tx_ptr ..]` is what `tx_len` says is left, it continues
  what was sent, and the completion exists exactly when nothing is left and nobody
  took it. `WritesRefined` and `BusySending` (BUSY is only said while the UART sends, the
  safety half of `BusyEnds`) follow from that; the read result followed by the queue is contiguous until a purge.
* `UartLinkProofs`. `TypeOK`, `RequestsIntact`, `AnswersMatch` and `TimeoutOnlyWhenSlow` follow
  from what is true of a clean call. Until it is served, what it has written is in
  the frame and behind that in the queue, cell by cell, and nothing is on the way back;
  so a header in the firmware is its own, get_req waits for as many cells as were sent,
  finds them all and is held up nowhere, and the client has waited no longer than the
  service has taken. From then on all there is under way is its answer.
* `UsbLinkProofs`. `ImplementsLink`. What was sent and what is left are the request; what
  the device has read of a transfer that is not over are full packets, so it knows the
  end when the host has reached it, with the empty packet or without; `mine` means that
  the host waits for the answer or has only the empty packet left to send; an answer is
  on the endpoint exactly while the device is in usb_send_resp. Hence `Packet` and
  `EmptyPacket` map to `Take` or a stutter, `Respond` to `Work`, `Receive` to `Deliver`
  or `GiveUp`, a time-out to `GiveUp`. `PacketAssumption` asks of the sizes only that none
  is zero. A packet that fills the firmware's buffer maps to `Take`, and the empty one
  behind it to a stutter; `ReceiveEmpty` maps to `GiveUp`, and `RespondFails` to a `Work`
  whose answer is lost.

  `ApiAgrees`. Entry by entry, what a library sends is within what the device takes
  (`LensFit`, `HostLens`), and the form of the device's answer is one that the library
  accepts (`RepliesFit`, `LibraryReplies`); every copy of an enumeration lists the names
  of `device.h` in its order, so a number means its name wherever it is read
  (`NumberOfName`, `Prefixes`). The invariant adds that the call in progress passed the
  library's own check. `TypeOK` follows, as an answer of each form fits
  `RESP_PAYLOAD_MAX_SIZE`.

Model-checked only: liveness (`EveryRequestAnswered`, `CommandsEnd`,
`BusyEnds`, `NobodyHangs`, `Recovers`), as the prover has no rule for fairness and
ENABLED. Every invariant and every action property of the passing runs is proved.

## 5. What the models assume of code outside the repository

* Zephyr semaphores hand over to the thread that waited longest.
* A CAN controller reports a frame as sent without error while it is started, as
  can.c:206 says, and aborts everything when stopped.
* An SPI driver reprograms exactly when the pointer differs from that of its last
  success.
* The LIN driver (another repository) refuses a transfer while one is in progress,
  ends each with one callback, and drops it at a change of mode.
* `uart_irq_tx_ready` is true only while the transmit interrupt is enabled.
* A serial line loses bytes but does not alter them; a USB line does neither. A bulk
  endpoint refuses packets, an empty one too, while the device does not read; a reset
  cancels transfers.
* usb_transfer_sync ends a transfer of full packets with an empty one; a reader whose
  buffer they fill, on either side, does not read it. An answer queues behind an empty
  packet left on its endpoint, or the driver refuses it and it is dropped.
* A serial line takes no time: `UartLink` sees the time-outs that functions and lost
  bytes cause, and not those of a baud rate too low for the length of a request.
* The serial number fits an answer. metadata.c:22-23 copies `CONFIG_JABI_SERIAL` whatever
  its length; the default has five characters.

## 6. What the runs found

* `can_stale_busy`: can_write takes the late completion of a frame that timed out, and
  if the controller then refuses the next frame, `tx_was_busy` stays true though nothing
  is queued; from then on every write answers BUSY.
* `lin_status`: the status is neither cleared on read nor limited to sent frames.
* `python_values`: the bindings register `UARTStop.B1_5` with the value of `B0_5`; the call
  succeeds and the UART gets half a stop bit. Everything else in the five
  tables agrees (`ValuesAgree`).

Beyond these, and without a text of the repository that says otherwise: a C++ UART
client that timed out takes the late answer for the next call's (`AnswersMatch` of
`UartLink` therefore speaks of calls that start on a quiet line); a C++ USB client
that timed out is blocked until `list_devices` resets the device (for it `Recovers`
assumes that this is called again); where Kconfig's sizes let full packets fill a buffer, a
request that does so fails though its function has run, and after an answer that does so
the next call fails, as each leaves the empty packet to somebody who does not expect it; a
mode that spi_set_mode refuses has by then cleared the mode bits of a configuration
(`mode_lost`); a LIN transfer that ends between lin_set_mode and the
assignment of `lin->mode` gives a completion nobody waits for (`raced`); an SPI
configuration the driver refused can hide the next change (`change_lost`); a read of
more than 65535 bytes is truncated without an error in the Rust client; libjabi lets
an empty lin_write through, which the firmware refuses (`FormatsAgree` excepts both); the
gRPC server lists devices only when it starts, so nothing it can do frees a blocked
USB interface.

## 7. What is not modelled, and the plan

* Values other than enumerations: frame contents, frequencies, voltages, and the float and
  integer conversions of PWM, ADC and DAC. Reading them showed narrowing that the
  models leave out: an instance index, an SPI mode, a number of data bits or a LIN
  identifier is cast to its wire type unchecked and wraps; pwm_write of libjabi wraps
  at 4.29 s where the Rust client refuses; proto3 enums are open, so a gRPC client
  may send a number no enumeration has.
* USB enumeration and descriptors, which belong to the USB stacks of both sides; ttys and
  their discovery.
* Of the gRPC server, options and start, and the defaults of absent fields.
* Examples, boards and build, which are demonstrations and configuration. The repository
  has no tests.

Done, by importance: dispatcher and start-up, and their composition; the peripherals
with state (CAN, SPI, LIN, UART); the links with both clients; lengths; enumerated
values; abstract specifications of the dispatcher, of the USB link and of the writes that
time out, with the proofs that they are implemented. Next:

1. The functions that convert values (dac.c:54, pwm.cpp:22-23, adc.c) with their widths,
   against reference definitions.
2. An abstract specification for the serial link. It cannot be `LinkService`, which lets
   no late answer reach another call; the UART link keeps that promise for the calls that
   start on a quiet line only (`AnswersMatch`), and it would have to say what the
   others may get.
