# Formal model of the L21 USB bridge firmware

The firmware turns a SAM L21 into a composite USB device: a CDC virtual serial port that is
bridged to a SERCOM UART, and a generic HID interface that carries a small command protocol
(U5030) to an I2C bus. This directory holds TLA+ modules for the concurrent core of that firmware,
the TLC runs that check them on small instances and the theorems the TLA+ proof system checks for
every value of the constants. All paths below are relative to `src/L21UsbBridgeAsf/src/`.

## 1. The system

### How the code runs

`main.c` initialises everything, starts the USB device and then only sleeps. All the rest runs in
interrupt handlers of one and the same priority: the USB handler
(`ASF/sam0/drivers/usb/usb_sam_l/usb.c:1757`), the SERCOM handlers
(`ASF/sam0/drivers/sercom/sercom_interrupt.c`) and nothing else. Handlers do not nest, so the unit
of interleaving is a whole handler; between two handlers only hardware moves (the host's packets,
the banks of the USB endpoints, the UART's shift register). The difficulty is inside the handlers:
callbacks nest (`udi_cdc_getc` restarts reception, which notifies the UART side, which calls
`udi_cdc_getc`), the hardware runs on while a handler's decision waits, and a control request may
tear everything down between any two handlers.

### Components

| Component | Files | State | Operations | Modelled in |
|---|---|---|---|---|
| CDC data interface, reception | `.../cdc/device/udi_cdc.c` | two buffers of 5 packets, the one being read, read position, "transfer on-going" | enable, disable, OUT callback, `getc`, restart of reception | `BridgeOut` |
| CDC data interface, transmission | same | two buffers, the one being filled, both-to-send flag, frame number of the last short packet, empty-packet counter | enable, disable, IN callback, start of frame, `putc` | `BridgeIn` |
| UART bridge | `uart_samd.c` | `tx_data`, `rx_data`, one byte each | callbacks of the USART, notification of received data, configure, open, close | `BridgeOut`, `BridgeIn` |
| USART driver | `.../sercom/usart/*` | remaining bytes of a job, callback masks, interrupt enables | one-byte jobs, interrupt handler, init, enable, disable | `Usart`, `UsartRx` |
| Endpoint jobs | `.../usb/stack_interface/usb_device_udd.c` | a job for each endpoint and direction | run, abort, halt, clear halt, alloc, free, next transfer | `UddEp` |
| Endpoint driver | `.../usb/usb_sam_l/usb.c` | banks, flags and callback masks | bank jobs, halt, configure, interrupt handler | `UddEp`, `CtrlEp`, `UsbEvents` |
| Bus events | `usb_device_udd.c`, `usb.c` | power state, enabled callbacks | attach, suspend, wake-up, disable | `UsbEvents` |
| Control endpoint | `usb_device_udd.c` | stage, payload positions | setup, data, handshake, stall | `CtrlEp` |
| USB device core | `.../usb/udc/udc.c` | address, configuration | standard requests, reset, start of frame | `UsbDevice` |
| CDC communication interface | `udi_cdc.c` | line coding, SERIAL_STATE message | line coding, notification | `UsbDevice`, bridge modules |
| HID generic and application | `udi_hid*.c`, `main.c` | report buffers, report free flag | reports in and out, response pump | `UsbDevice` |
| I2C master and board layer | `board/board_i2c.c`, `.../i2c_sam0/*` | packet, bus state | packets with bounded waits | `I2cMaster` |
| Sleep manager | `sleepmgr` | lock counters | lock, unlock, sleep | `UsbEvents` |
| Critical sections, checksums | `interrupt_sam_nvic.c`, `app/crc.c` | nesting count | | not modelled |
| Mass storage and memories | `udi_msc.c`, `ctrl_access.c`, `virtual_mem.c` | | disabled by `conf_usb.h` | not modelled |
| Clocks, pins, board, descriptors, mouse, keyboard, start-up | the rest | | set-up only, or not in the configured device | not modelled |

`PROJECT.json` lists them with their status and reason.

How they interact. The host's packet fills an OUT bank; its interrupt continues the endpoint job;
the job's callback (`udi_cdc_data_received`) swaps buffers and notifies `uart_samd.c`, which
starts a one-byte job of the USART; from then on each transmit-complete callback fetches the next
byte with `udi_cdc_getc`, whose last byte of a buffer restarts the OUT job. In the other direction
a byte's interrupt calls `udi_cdc_putc`, and transfers start from the start of frame or from the
end of the last transfer. Control requests (line coding, interface, configuration, halts) and the
bus reset call into all of this between any two handlers.

### What makes each component correct

- Reception: bytes keep their order, none is repeated, none is lost except where the code cannot
  keep it; the peripheral and the reader never share a buffer; reception never stops; no
  handler polls for ever.
- Transmission: the same, and in addition at most one short packet a frame, no full buffer left
  behind an empty one, and every read of the host completed.
- USART: the byte job is never lost while the port is open, also after line errors; the port of an
  enabled interface is closed by SET_INTERFACE only.
- Endpoint jobs: every accepted transfer ends with one callback that tells what was on the bus,
  whatever halts, resets and other directions do; the peripheral stays inside the buffer.
- Control endpoint: a request that was accepted is carried out once, not before its handshake,
  with exactly the data of its data stage; every request is answered, with STALL only when it
  should be.
- Device: what the class drivers believe of their endpoints is so after any sequence of requests;
  an enable that fails leaves nothing taken; overruns are reported; a report is not overwritten
  while it is sent.
- Bus events: the driver and the application know whether the bus is suspended, and the main loop
  never sleeps so deeply that the bus cannot wake it.
- I2C: success means the data went over the bus, and no failure after the address leaves the bus
  taken.

## 2. Modules

```
LossyWire        abstract: bytes come out in order, at most once
Usart            transmit half of the USART driver
UsartRx          receive half
BridgeOut        EXTENDS Usart; implements LossyWire
BridgeIn         EXTENDS UsartRx; implements LossyWire
UddEp            both directions of one endpoint number
CtrlEp           endpoint 0
UsbDevice        the three interfaces, their endpoints and the requests that reach them
UsbEvents        suspend and wake-up, sleep modes, the main loop
I2cMaster        polled I2C packets
..._proofs       theorems about the module of that name
MC...            instances for TLC, and claims of the repository the code does not keep
```

**Conventions.** A handler is one action. What it calls are operators that take the state the
handler works on, a record, and return it changed, so that nested calls compose as in C; an action
assigns the result to the variables (`Becomes`). A byte is its position in the stream that enters
the bridge. History variables (`excused`, `short`, `open`, `owed`, `seen`, ...) record what a
property refers to; no action reads them. An operator whose comment begins with *Slip* is a
plausible mistake in the code, next to the operator it would replace; it is used to see that a
property notices it and by nothing else.

**Usart, UsartRx.** `usart_module` as far as one-byte jobs need it: `remaining_tx_buffer_length`
or `remaining_rx_buffer_length`, the callback enable, the DRE/TXC/RXC interrupt enables and the
hardware behind them: the data register and shifter as a sequence `line` of at most two bytes, the
receive buffer of two bytes with their STATUS bits. `HandleDre`, `HandleTxc`, `HandleRxc` are the
three branches of `_usart_interrupt_handler`. `InitModule` is `usart_init`, which fails without
touching the hardware when the rate cannot be made.

**BridgeOut.** `cdc` is the receive state of `udi_cdc.c`, `job` the OUT endpoint's job and bank,
`tx_data` the one byte of `uart_samd.c`. `RxStart`, `Consume`, `RxNotify`, `TxCallback`,
`DataReceived` are `udi_cdc_rx_start`, `udi_cdc_getc`, `uart_rx_notify`, `usart_tx_callback`,
`udi_cdc_data_received`, nested as in the code. Handlers: `OutTransferComplete`, `UsartInterrupt`;
hardware: `HostPacket`, `FrameSent`; control: `LineCodingReceived` with a rate that can or cannot
be made, `SetInterfaceData`, `Reset`, `SetConfiguration`.

**BridgeIn.** `tx` is the transmit state of `udi_cdc.c`, `job` the IN endpoint's. `TxSend` is
`udi_cdc_tx_send` with its parts (`TxWaits`, `TxSkipsEmpty`, `TxChoice`, `TxStart`), `MakeRoom` is
`udi_cdc_get_free_tx_buffer`, `RxCallback` is `usart_rx_callback`. `FrameStart` counts frames and
sets the start-of-frame flag, which `SofInterrupt` serves only when no endpoint interrupt is
pending, as in `usb.c:1764`; a flag may thus stand for several frames. `PutcIfReady` asks for room
twice, as the callback and `udi_cdc_putc` do; the first question moves on to the other buffer and
takes it to be empty (`FreeTxBuffer`), which `Agree` in section 4 proves.

**UddEp.** `job` and `hw` for each direction, the shared callback registration `irq`. Data is
counted. `EpRun`, `EpAbort`, `TransInNext`, `TransOutNext`, `EpFree`, `EpAlloc` are the functions
of the same names; `SetHalt`, `ClearHalt`, `WaitStallClear`, `Disable`, `Enable` the requests that
reach them; `StallInterrupt` and `TransferInterrupt` the branches of the interrupt handler in its
order, one flag a call.

**CtrlEp.** `ctrl` is `udd_ep_control_state` with the request and its counters, `hw` the two banks
of endpoint 0, `ram` what lies in `udd_ctrl_buffer`, `host` the host's stage of the request.
`OnSetup`, `InSent`, `OutReceived`, `Underflow`, `Overflow`, `TransferOk`, `StallData` are the
functions of `usb_device_udd.c`; each branch of the handler of `usb.c` is an action, in the order
of the flags. What a request asks for, whether it is accepted and whether it has a callback comes
with the setup packet, from the kinds `udc_process_setup` distinguishes. The host sends or takes
packets, may end the data stage too early or too late, give up a request for the next, and reset
the bus.

**UsbDevice.** One flag for each transfer a class driver believes to be running, next to the
endpoint's own state; so the module shows what happens *between* the layers: `udc.c` enables and
disables the interfaces, `usb_device_udd.c` takes and aborts jobs, `udi_cdc.c`,
`udi_hid_generic.c` and `main.c` are told or not told of it. A request is one step, a transfer
with its interrupt another. Where the data decides (is there something to send, was the other
buffer read, does a report ask for an answer) both outcomes are possible.

**UsbEvents.** `flags` and `enabled` are the registers of the device interrupts. `Pass` is one run
of the device branch of the handler, which clears all flags it read, enabled or not, and serves
them in the order of its table. `OnSuspend`, `OnLpmSuspend`, `OnWakeup`, `Attach`, `UddDisable`,
`SleepMode` are the functions of `usb_device_udd.c`; `ReadMode` and `EnterSleep` the two halves of
`sleepmgr_enter_sleep`, between which interrupts come.

**I2cMaster.** The functions run between two waits for the bus, so `BusAnswered` and `TimedOut`
are the two outcomes of `_i2c_master_wait_for_bus`; `AddressResponse`, `WriteLoop`, `ReadLoop`,
`EndPacket` the code that follows. A slave may answer after the wait was given up, and another
master may take the bus.

The lines each definition stands for are in `PROJECT.json` under `map`.

## 3. Runs

| Run | Bounds | What it shows |
|---|---|---|
| `bridge_out_stream` | buffers of 2 packets of 2 bytes, 5 bytes, 2 disturbances | While the host reconfigures, re-enables and resets at any moment: `InOrder`, no byte overtakes or repeats. `OnlySwapsLoseBytes`: a byte is lost only as the first or last of a transfer at a swap, or to a disturbance. `ReceptionAlive`, `DmaOwnsOtherBuffer`, `NeverHangs`, `ImplementsLossyWire`. `Drains`: in a session nothing disturbs, all that is received is sent. `IndInv`: the invariant of the proof. |
| `bridge_in_stream` | buffers of 2 packets of 2 bytes, 5 bytes, a line error, frame counter modulo 2, 1 disturbance | `InOrder`, `OnlyOverrunsLoseBytes`, `TransferOwnsOtherBuffer`, `FullBufferNotStranded`, `ReceiverArmed`, `NeverHangs`, `OneShortPerFrame`, `ImplementsLossyWire`; `Delivers`: every byte that was not lost reaches the host; `ReadsComplete`: no read of the host stays open. `ReceiverArmed` also says what a closed port may mean: SET_INTERFACE closed it, and nothing received waits behind it |
| `udd_ep_jobs` | packets of 2, hardware transfers of at most 3 bytes, jobs of 0 to 5 | `OneAnswer`, `TransferAlive`, `OutInsideBuffer`, `AnswersExact`; `Answered`: every accepted transfer ends |
| `ctrl_ep_requests` | packets of 2, requests of up to 3 bytes | `OneCallback`, `EarlyOnlyWhenGivenUp`: the effect of a request comes once and after its handshake. `DataExact`, `PayloadIsData`: in both directions the bytes are the right ones. `StallMeansRefused`. `Answered`: whatever the host does with a request, it gets data, handshake or STALL in the end |
| `usb_device` | all interfaces; one endpoint of each is not halted by the host in the CDC data interface (`in`) | `FlagsMatchJobs`, `OverrunReported`, `EnabledAsConfigured`, `FailsOnlyForHalt`, `ReportIntact` |
| `usb_events` | none | `StateFollowsBus`, `LockedWhileInUse`, with a host that gives the device time between two changes of the bus |
| `i2c_packets` | packets of 1 to 3 bytes | `OkMeansTransferred`: STATUS_OK means the whole packet went over the bus, or all of it but the last byte if that lost arbitration. `BusReleased`: a call that returned does not hold the bus, unless its address was not answered in time |

Five more runs look for a counterexample to what a comment or a document says, and find it:

| Run | Claim | What happens |
|---|---|---|
| `bridge_out_byte_lost` | `main.c:361`, characters echo | `usart_tx_callback` gets the last byte of a buffer while the other is full; the nested notification's byte in `tx_data` is overwritten. It needs no slow interrupt: the run gives SERCOM interrupts priority over every USB event. |
| `udd_ep_unhalted` | `usb_device_udd.c:578`, only a job registered for the clear is called | clearing a halt that is not there calls a running transfer's callback |
| `udd_ep_toggle` | `udd.h:268-269`, the toggle restarts at DATA0 | the interrupt of the other direction took the STALL flag the reset depends on |
| `ctrl_refused` | `usb_device_udd.c:226`, STALL on IN and OUT | `udd_ctrl_stall_data` takes the halt off OUT: the data of a refused request is met with NAK for ever |
| `usb_events_late` | `main.h:127`, the application is told when the suspend ends | a suspend and the wake-up that ends it, served in one pass, are served in the wrong order; the application stays suspended until a later suspend and its wake-up |

**Other disagreements** the modules show, without a run of their own:

- SET_LINE_CODING resets the USART under its job (`uart_samd.c:187`): bytes that wait in the
  receive buffer stay until the host sends more.
- SET_INTERFACE on the data interface closes the UART (`udi_cdc.c:364`) and does not open it,
  though `main.h:101-109` ties the port to the interface; SET_LINE_CODING opens it, even when the
  interface is disabled.
- `udi_cdc.c:749` means 0 as "no wait"; in the frame numbered 0 `udi_cdc_tx_send` waits.
- A new setup packet that comes before the handshake of the last request runs its callback
  (`usb_device_udd.c:887`). A setup packet that comes while the interrupt of the last data packet
  is pending overwrites that packet in `udd_ctrl_buffer`: with `SetupOvertakes = TRUE`
  `PayloadIsData` fails.
- An accepted request with an empty answer, which is what an empty string descriptor is, is
  answered with an empty packet or with STALL, depending on the `b_shortpacket` the last request
  left (`usb_device_udd.c:784`).
- After a halt no class driver starts again: `tx`, `rx` flags of `udi_cdc.c` stay set, the HID
  report is not asked for. An overrun while the notification endpoint is halted silences later
  ones.
- `udc_sof_notify`, halts and class requests reach interfaces that failed to be enabled. The
  counters of `udi_cdc.c` then fail their assertions (`udi_cdc.c:353`, `361`) when such an
  interface is disabled.
- `main_hid_set_feature` compares four bytes of a three-byte report.
- The device advertises remote wake-up and no compiled file calls `udc_remotewakeup`.
- The I2C driver looks for lost arbitration only together with SB (`i2c_master.c:374`), and the
  mask `BUSSTATE(2)` of `i2c_master.c:564` passes BUSY too, so a call may return STATUS_OK
  where `i2c_master.c:617` promises a collision: a write whose last byte was not acknowledged, a
  read whose last byte is old data. `OkMeansTransferred` shows that only a loss at the last byte
  ends so; an earlier one ends with an error. The board has one master.

**Why the bounds are enough.** Two buffers of two packets, and a stream longer than one of them,
make every combination of full, partly filled, partly read and empty buffers with a running or
refused transfer; short packets end a transfer early, so both buffers wait with data and are
reused within five bytes. A byte is its position, so one repeated, lost or moved is seen. A frame
counter that comes round within the run meets a stale `sof_num` and the frame 0; the empty-packet
period of 2 (100 in the code) reaches its limit between any two transfers. Two disturbances of
reception make one hit the state another left; setting the configuration again is not counted. In
`UddEp` an OUT job of 5 bytes takes two hardware transfers and then the cache buffer, an IN job of
3 one of two packets; jobs of a whole number of packets and of none are among the sizes. In
`CtrlEp` 3 bytes are a full packet and a short one, 2 bytes end with or without an empty packet,
and the host may stop before each. `UsbDevice` and `UsbEvents` have no counters: all their states
are explored; `Haltable` of `usb_device` leaves out one of five endpoints, whose halts are those
of the other IN endpoint of the three. In `I2cMaster` 3 bytes make a first, a middle and a last
one. Named bounds: `MaxBytes`, `MaxControl`, `LineErrors`, `MaxSize`, `MaxLength`, `Haltable`. The
configurations of `BridgeOut` do not check deadlock, because the host's stream ends, nor do those
of `UsbDevice` and `UsbEvents`, where a report may make the device detach for good; the others do.
(`BridgeIn` never stops: frames go on.)

**Fairness.** Pending interrupts are served (weak fairness of each handler): nothing masks them
for ever, and the main loop only sleeps. The transmitter finishes the frame it shifts out. The
host keeps the bus running and reads or writes the endpoint, in the liveness properties that need
it. In `BridgeIn` start-of-frame interrupts are served, for ever, at least once with a counter
that differs from `sof_num`: a frame lasts 1 ms and a handler microseconds. In `UddEp`
`TransferInterrupt` is strongly fair for each direction: the handler serves one flag and is
entered again at once, faster than a packet takes on the bus, so a flag that keeps getting to the
head of the order is served. In `CtrlEp` the handler is weakly fair, and the host repeats a token
that got NAK; it need not send requests, cut them or reset. In `UsbEvents` bus interrupts are
strongly fair, since endpoint interrupts go first but leave gaps. Nothing is assumed of the UART
line or of control requests.

## 4. Proofs

`BridgeOut_proofs` proves, with no assumption but `SizesAssumption` (sizes are positive and a
buffer is a whole number of packets, as `UDI_CDC_RX_BUFFERS` is), for every buffer size, packet
size, stream and number of disturbances:

| Theorem | States |
|---|---|
| `Invariance` | `Spec => []IndInv` |
| `TypeCorrect` | `[]TypeOK` |
| `NoHang` | `[]NeverHangs` |
| `BuffersSeparate` | `[]DmaOwnsOtherBuffer` |
| `ReceptionContinues` | `[]ReceptionAlive` |
| `OrderKept` | `[]InOrder` |
| `LossesExplained` | `[]OnlySwapsLoseBytes` |
| `Refinement` | `ImplementsLossyWire` |

None of these is inductive alone. `InOrder`, for instance, survives a read of the next byte only
if that byte is newer than everything in the USART, which follows from *where* it lies: the two
buffers and the running transfer together hold the last bytes of the stream without a gap.
`IndInv` says so (`QueueInv`: the byte at a place of a buffer is a number computed from the
counters alone, with `Taken` the number of bytes read so far), adds that the line and the pending
byte are no newer than what was taken (`LineInv`, `PendingInv`), that counters and job agree
(`SwapInv`, `JobInv`), and what a stopped device looks like. The difficult case is `udi_cdc_getc`,
which calls `udi_cdc_rx_start`, which calls `uart_rx_notify`, which reads again. The proof follows
the calls: inside a handler a weaker invariant holds (`CallInv`, without the job and the pending
byte), each operator has a lemma that says what it needs and keeps (`ConsumeNext`, `RxStartSwap`,
`RxStartOrder`, `SendByteOrder`), and the handler's own lemma restores the full invariant. Then
there is one step for each action of `Next`, and the temporal step by `PTL`. `Refinement` maps
`sent` and `wire` to themselves: only the host's packet changes `sent`, only `FrameSent` changes
`wire`, and `OrderKept` makes the byte it appends a newer one.

`LossesExplained` needs a second invariant on top of `IndInv`, `LossInv`: each byte `udi_cdc_getc`
has taken is on the wire, in the transmitter, excused, or pending in `tx_data` (`Covered`). A
nested notification overwrites `tx_data`, so the invariant follows what may be in it: a byte that
is excused already, or the one taken last (`LatestInv`). At a swap the one taken last is the last
of its buffer, and the ends of the transfers in the buffers are excused (`EndsInv`), so whichever
of the two bytes is overwritten had an excuse. In the callback proper nothing can be overwritten:
the transmit complete flag means an idle line, so the data register interrupt, served first, has
emptied `tx_data` (`UsartFacts`). What was not taken is in the buffers by `QueueInv`.

`BridgeIn_proofs` and `BridgeInOrder_proofs` do the same for the other direction, from its
`SizesAssumption` alone; only `ShortThenWait` assumes more, `ZlpPeriod > 1` (the code has 100):
with a period of one the SET_INTERFACE handler would send an empty packet behind a short one.

| Theorem | States |
|---|---|
| `Invariance` | `Spec => []IInv` |
| `TypeCorrect` | `[]TypeOK` |
| `BuffersSeparate` | `[]TransferOwnsOtherBuffer` |
| `NotStranded` | `[]FullBufferNotStranded` |
| `ReceptionContinues` | `[]ReceiverArmed` |
| `NoHang` | `[]NeverHangs` |
| `ShortThenWait` | `OneShortPerFrame` |
| `OrderInvariance` | `Spec => []OrderInv` |
| `OrderKept` | `[]InOrder` |
| `LossesExcused` | `[]OnlyOverrunsLoseBytes` |
| `Refinement` | `ImplementsLossyWire` |

`IInv` relates the two sides that keep a record of one transfer: `Agree` says that the flags of
`udi_cdc.c` and the endpoint's job describe the same transfer, and what the two buffers hold when
there is none; `ShortInv` that the frame of a short transfer is the one in `sof_num`. The lemmas
about `TxSend`, `DataSent` and `Putc` also say how the buffers change (`Turned`, `Sent`, `Added`):
they turn only when the other one is empty, or has what goes first. From these `OrderInv` follows
without opening the handlers again: a queue of four parts, receiver, buffer being filled, buffer
being sent and host, each with older bytes than the one before (`QueueInv`), and for each byte a
place where it is or an excuse (`LostInv`). The excuse of a byte that found no room is the same
condition `TxReady` tests, because of `Agree`. `ReceiverArmed` needs one invariant more
(`ClosedInv`): while the port of an enabled interface is closed no byte arrives, and the request
that closed it gave up all that had.

`UddEp_proofs` proves four properties of the endpoint jobs for every packet size, longest hardware
transfer and transfer size. Its theorems assume `~ClearsUnhalted`, that the host clears only
halts that there are; without it they are false, as `udd_ep_unhalted` shows.

| Theorem | States |
|---|---|
| `Invariance` | `Spec => []IInv` |
| `AnsweredOnce` | `[]OneAnswer` |
| `AlwaysAlive` | `[]TransferAlive` |
| `InsideBuffer` | `[]OutInsideBuffer` |
| `Exactness` | `[]AnswersExact` |

`AnswersExact` looks at the moment a callback is called; what makes it true was decided when the
bank was armed. `IInv` therefore says of a running transfer what its bank may hold (`Bank`): what
was on the bus is what the job has counted and what the bank has; an OUT bank takes whole packets
that fit, or the last, partial one into the cache (`OutBank`); an IN bank sends whole packets
except at its end, and a transfer that wants a short packet has one to come, or is in the bank
that ends with it (`InBank`). An interrupt handler passes through states where a transfer has no
bank: `MidInv` is what holds there, and the lemmas about `SendNext` and `ReceiveNext` say how the
next bank restores the invariant, or how the callback ends it. Callbacks may start a transfer
again; they have their own lemmas, used by all four places that call them. A step touches one
direction (`OneDirection`), so the other keeps its part.

`I2cMaster_proofs` proves two properties of the polled I2C calls, for packets of every length:

| Theorem | States |
|---|---|
| `Invariance` | `Spec => []IInv` |
| `SuccessTrue` | `[]OkMeansTransferred` |
| `Released` | `[]BusReleased` |

The driver's loops are cut at their waits, so `IInv` says for each wait what the bus may be in and
how far the transfer is: bytes acknowledged, bytes stored and the place in the packet agree, and
the bus belongs to the master from the answered address to the stop (`Ready` is where a pass of a
loop begins). A slave that refuses or a timeout leaves these states by the error returns only. An
arbitration lost is not always noticed: `DataInv` says what is so while its flag is pending (the
bytes before the one that lost are in their place) and that without a flag nothing is on its way,
so the call can only time out. `SuccessTrue` therefore says less of a packet that lost arbitration
(`Nearly`: all but the last byte); `Released` excepts the address that was not answered in time,
where the code sends no stop.

`CtrlEp_proofs` proves the safety properties of endpoint 0 for every packet size, setup packet
size and payload. Its theorems assume `~SetupOvertakes`, that the host's next setup packet comes
after the interrupts of the last data packet were served; with `SetupOvertakes = TRUE` TLC finds
each of the five properties violated.

| Theorem | States |
|---|---|
| `Invariance` | `Spec => []IInv` |
| `CalledOnce` | `[]OneCallback` |
| `NotEarly` | `[]EarlyOnlyWhenGivenUp` |
| `Exact` | `[]DataExact` |
| `OwnData` | `[]PayloadIsData` |
| `Refused` | `[]StallMeansRefused` |

Most of these look at a history that is written when something goes wrong, so the invariant is
what keeps it from being written. It is one relation between the driver's control state, the
banks of the peripheral and the host for each `udd_ep_control_state` (`StageInv`): in the OUT data
stage the packet in the bank is the next one and short only at the end (`GivenInv`), in the IN
data stage the loaded packet starts where the host is and ends the answer if it is short
(`LoadedInv`), while waiting for a handshake only that handshake can be raised, and so on. While a
setup packet waits for the handler none of these holds, and all there is to know is that
everything else stands still (`TakenInv`). `CallInv` ties the debt of a callback to the states it
may be called from. Each branch of the handler is one lemma from one of these to another, which
is where the order of IN and OUT interrupts at the end of a data stage is settled.

`UsbDevice_proofs` proves five properties of the device core and its three interfaces, with any
set of endpoints halted (`HaltableAssumption` only):

| Theorem | States |
|---|---|
| `Invariance` | `Spec => []IInv` |
| `Believed` | `[]FlagsMatchJobs` |
| `Reported` | `[]OverrunReported` |
| `Configures` | `[]EnabledAsConfigured` |
| `FailsForHalt` | `[]FailsOnlyForHalt` |
| `Intact` | `[]ReportIntact` |

`IInv` has one part per interface (`CommInv`, `DataInv`, `ReportInv`) and one for the device
without a configuration (`OffInv`). Each says more than the property: what the flags mean also
while the interface is disabled or failed, since they are what the next enable finds. A report
endpoint that is not configured, for instance, may take a job and be thought free, but then there
is no response left that would fill the report again. A request or interrupt of one interface
leaves the parts of the others alone (`CommSame`, `DataSame`, `ReportSame`), so each handler is
looked at once. A reset disables the interfaces in turn and passes through states where the parts
do not hold; `LooseInv` is what does, and each disabled interface gets its part back.

`UsbEvents_proofs` proves the properties of the power state:

| Theorem | States |
|---|---|
| `LockInvariance` | `Spec => []LockInv` |
| `TypeCorrect` | `Spec => []TypeOK` |
| `BusInvariance` | `HostWaits /\ Spec => []BusInv` |
| `BusFollowed` | `HostWaits /\ Spec => []StateFollowsBus` |
| `Locked` | `HostWaits /\ Spec => []LockedWhileInUse` |

That the driver holds one lock of the sleep mode while it is not off is proved for any host
(`Limited`: the lock of the new state is taken before that of the old one is given back, and equal
states change nothing). The others assume `HostWaits`, that the host changes the bus again no
sooner than the interrupts of the last change were served: with `HostWaits = FALSE` TLC finds both
violated, as one pass of the handler serves WAKEUP before SUSPEND (see `usb_events_late`).
`StateFollowsBus` speaks of the moments without a pending interrupt, and what leads there is
`Follows`: for each state of the bus the driver has the state it should have, or the flag that
leads to it is raised; `Callbacks`, that its callback is then enabled; and `Fresh`, that no flag
is older than the last change of the bus.

Every invariant the passing runs check is a theorem now, and so are `OneShortPerFrame` and both
refinements. Only model-checked, beyond this prover: the liveness properties (`Drains`,
`Delivers`, `ReadsComplete`, `Answered` of `UddEp` and of `CtrlEp`), and what the five runs that
expect a violation refute.

## 5. Abstractions and what is left out

- Bytes of 9-bit characters (`bDataBits` = 9) take two bytes in the buffers; only 5 to 8 bits are
  modelled. `uart_config` never sets the USART to 9 bits.
- The LED callbacks, the wording of descriptors and the register set-up.
- A control request is one step everywhere but in `CtrlEp`. That is what the class drivers see:
  its effects happen in one handler.
- The host halts no endpoint in `BridgeOut` and `BridgeIn`; `UddEp` covers halts below the class
  drivers, `UsbDevice` what the class drivers make of them, without data.
- In `UsbDevice` the host gives no address 0, and a halt is cleared only where there is one
  (`udd_ep_unhalted` has the other case).
- In `CtrlEp` `over_under_run` is never set, and a setup packet has 8 bytes; the peripheral
  accepts a setup packet at any time and drops what the IN bank held.
- VBUS monitoring and remote wake-up are left out of `UsbEvents`: the first is not configured, the
  second never called.
- In `I2cMaster` packets have a byte at least; a read of none would store one. High speed, 10-bit
  addresses, packets without stop and the callback driver are not used by the firmware.
- In `UddEp` the class driver is anything that runs a transfer when it may; its buffers are not
  shared with other endpoints.
- The SAM L21 hardware is modelled from how the drivers use it and marked external.
- The U5030 protocol is in the repository as a binary object.

## 6. What is left

Not modelled yet, and worth it in this order:

1. Halts with data: `BridgeIn` and `BridgeOut` on top of `UddEp`, so that a halt in the middle of
   the stream meets the buffers. `UsbDevice` has the halts and `UddEp` the aborted transfers, but
   no run has both with bytes.
2. The status requests and descriptors of `udc.c`: pure reads of tables, apart from the halt
   status.
3. The callback driver of the I2C master and the polled operations of the USART, which the
   firmware does not call.

Not modelled because the code here does nothing with it: the CRC functions (called from the
binary object of the protocol only), mass storage and memory access (not configured), HID mouse
and keyboard and the composite descriptors (not part of this device), clocks, pins and the
start-up code (register writes in a fixed order), the critical-section counter, CMSIS headers.

Proofs left: none of the safety properties. What is assumed of the host in `UddEp_proofs`
(`~ClearsUnhalted`), `CtrlEp_proofs` (`~SetupOvertakes`) and for the bus in `UsbEvents_proofs`
(`HostWaits`) cannot be dropped: TLC refutes the properties without it.
