------------------------------ MODULE BridgeIn ------------------------------
(***************************************************************************)
(* UART to host half of the bridge: the receive callback of uart_samd.c,   *)
(* the double transmit buffer of udi_cdc.c and the bulk IN endpoint job of *)
(* usb_device_udd.c, on top of the USART driver.                           *)
(*                                                                         *)
(* As in BridgeOut an action is one interrupt handler or one step of the   *)
(* hardware, and a byte is its position in the stream that arrives at the  *)
(* UART, 1, 2, 3, ...                                                      *)
(***************************************************************************)
EXTENDS UsartRx, Integers

CONSTANTS
    TxBuffers,   \* UDI_CDC_TX_BUFFERS: capacity of one transmit buffer
    EpSize,      \* wMaxPacketSize of the IN endpoint
    Frames,      \* the frame number counts modulo this (2048)
    ZlpPeriod,   \* frames without data before an empty packet goes (100)
    LineErrors,  \* bound: STATUS bits a character arrives with
    MaxBytes,    \* bound: bytes that arrive at the UART
    MaxControl   \* bound: control requests and resets

ASSUME SizesAssumption ==
    /\ TxBuffers \in Nat \ {0}
    /\ EpSize \in Nat \ {0}
    /\ TxBuffers % EpSize = 0
    /\ Frames \in Nat \ {0}
    /\ ZlpPeriod \in Nat \ {0}
    /\ LineErrors \in 0 .. MaxStatus
    /\ MaxBytes \in Nat
    /\ MaxControl \in Nat

VARIABLES
    tx,       \* transmit side of udi_cdc.c
    job,      \* udd_ep_job of the IN endpoint and its bank
    usart,    \* receive half of usart_module_edbg and its peripheral
    hung,     \* a handler spins in udi_cdc_multi_putc
    frame,    \* the peripheral's frame number
    sof,      \* start of frame flag waiting for its handler
    arrived,  \* number of bytes the UART line has brought
    host,     \* bytes the host has taken, in order
    control,  \* disturbing requests so far
    excused,  \* history: positions that may be missing at the host
    short,    \* history: a short transfer began in this frame
    open      \* history: the host's last packet was a full one

vars == <<tx, job, usart, hung, frame, sof, arrived, host, control, excused,
          short, open>>
bus == <<frame, sof>>

Byte   == 0 .. MaxBytes
Buffer == 0 .. 1
Other(b) == 1 - b

-----------------------------------------------------------------------------
(* Operators on the firmware state of one handler, as in BridgeOut.        *)

Fw == [tx |-> tx, job |-> job, usart |-> usart, hung |-> hung]

Becomes(s) ==
    /\ tx' = s.tx
    /\ job' = s.job
    /\ usart' = s.usart
    /\ hung' = s.hung

EmptyBuffer == [i \in 0 .. TxBuffers - 1 |-> 0]

CdcReset == [buf |-> [b \in Buffer |-> EmptyBuffer],
             nb |-> [b \in Buffer |-> 0], sel |-> 0, both |-> FALSE,
             ongoing |-> FALSE, sof_num |-> 0, zlp_counter |-> 0,
             running |-> FALSE]

(* armed: the bank holds bytes for the host.  trcpt: transfer-complete     *)
(* flag waiting for its handler.  off: bytes of the job the host has.      *)
JobIdle == [busy |-> FALSE, buf |-> 0, size |-> 0, off |-> 0, zlp |-> FALSE,
            armed |-> FALSE, trcpt |-> FALSE]

(* udd_ep_run on the IN endpoint with n bytes of buffer b.  A transfer     *)
(* that must end in a short packet and has none gets an empty one, at once *)
(* when it has no data, otherwise after them.                              *)
EpRunIn(s, shortpacket, b, n) ==
    IF s.job.busy THEN s
    ELSE [s EXCEPT !.job =
            [busy |-> TRUE, buf |-> b, size |-> n, off |-> 0,
             zlp |-> shortpacket /\ n > 0 /\ n % EpSize = 0,
             armed |-> TRUE, trcpt |-> FALSE]]

(* Slip: a short packet does not hold the frame.                           *)
TxWaitsOngoing(c) == c.ongoing
(* The early returns of udi_cdc_tx_send: a transfer is on its way, or the  *)
(* current frame is the one in sof_num.                                    *)
TxWaits(c) == c.ongoing \/ c.sof_num = frame

(* An empty buffer is counted ZlpPeriod times before it is sent.           *)
TxSkipsEmpty(c) == c.nb[c.sel] = 0 /\ c.zlp_counter + 1 < ZlpPeriod

(* Slip: the current buffer goes before the full one.                      *)
TxChoiceCurrent(c) == c.sel
(* The buffer udi_cdc_tx_send sends.                                       *)
TxChoice(c) == IF c.both THEN Other(c.sel) ELSE c.sel

TxStart(s) ==
    LET b == TxChoice(s.tx)
        n == s.tx.nb[b]
        shortpacket == n # TxBuffers
    IN  EpRunIn([s EXCEPT !.tx.zlp_counter = 0, !.tx.sel = Other(b),
                          !.tx.ongoing = TRUE,
                          !.tx.sof_num = IF shortpacket THEN frame ELSE 0],
                shortpacket, b, n)

(* Slip: the empty frames are not counted.                                 *)
TxSendNoCount(s) ==
    IF TxWaits(s.tx) \/ TxSkipsEmpty(s.tx) THEN s ELSE TxStart(s)

(* udi_cdc_tx_send *)
TxSend(s) ==
    IF TxWaits(s.tx) THEN s
    ELSE IF TxSkipsEmpty(s.tx) THEN [s EXCEPT !.tx.zlp_counter = @ + 1]
    ELSE TxStart(s)

(* Slip: no second buffer.                                                 *)
TxMovesNever(c) == FALSE
(* A full buffer makes room by moving on to the other one, unless that is  *)
(* being sent or is full as well.                                          *)
TxMoves(c) == c.nb[c.sel] = TxBuffers /\ ~c.ongoing /\ ~c.both

(* udi_cdc_multi_get_free_tx_buffer: what it does, and what it returns,    *)
(* which takes the other buffer to be empty.                               *)
MakeRoom(c) == IF TxMoves(c) THEN [c EXCEPT !.both = TRUE, !.sel = Other(@)] ELSE c
FreeTxBuffer(c) == TxBuffers - (IF TxMoves(c) THEN 0 ELSE c.nb[c.sel])

(* Slip: the buffer's limit is forgotten.                                  *)
TxReadyAlways(c) == TRUE
TxReady(c) == FreeTxBuffer(c) # 0

(* udi_cdc_multi_putc asks for room; without it spins while the port is up. *)
Putc(s, byte) ==
    LET c == MakeRoom(s.tx) IN
    IF ~TxReady(s.tx) THEN [s EXCEPT !.hung = s.tx.running]
    ELSE [s EXCEPT !.tx = [c EXCEPT !.buf[c.sel][c.nb[c.sel]] = byte,
                                    !.nb[c.sel] = @ + 1]]

(* udi_cdc_is_tx_ready, which moves on already, and udi_cdc_putc. *)
PutcIfReady(s, byte) ==
    IF TxReady(s.tx) THEN Putc([s EXCEPT !.tx = MakeRoom(@)], byte) ELSE s

(* Slips: room is made before it is needed; the byte is written without    *)
(* asking for room.                                                        *)
RxCallbackProbe(s, byte) ==
    [PutcIfReady(s, byte) EXCEPT !.usart = ReadBufferJob(@), !.tx = MakeRoom(@)]
RxCallbackUnchecked(s, byte) ==
    [Putc(s, byte) EXCEPT !.usart = ReadBufferJob(@)]

(* usart_rx_callback: a byte without room is dropped; the next one-byte    *)
(* job follows in any case.                                                *)
RxCallback(s, byte) == [PutcIfReady(s, byte) EXCEPT !.usart = ReadBufferJob(@)]

(* Slip: the transfer stays marked ongoing.                                *)
DataSentOngoing(s) ==
    TxSend([s EXCEPT !.tx.nb[Other(s.tx.sel)] = 0, !.tx.both = FALSE])

(* udi_cdc_data_sent with status UDD_EP_TRANSFER_OK.                       *)
DataSent(s) ==
    TxSend([s EXCEPT !.tx.nb[Other(s.tx.sel)] = 0, !.tx.both = FALSE,
                     !.tx.ongoing = FALSE])

(* Slip: the buffer counts survive.                                        *)
DataEnableKeepCounts(s) ==
    LET c == [CdcReset EXCEPT !.buf = s.tx.buf, !.nb = s.tx.nb,
                              !.zlp_counter = s.tx.zlp_counter]
    IN  [TxSend([s EXCEPT !.tx = c]) EXCEPT !.tx.running = TRUE]

(* udi_cdc_data_enable: the transmit side.  The counter of empty frames is *)
(* a static of udi_cdc_tx_send and survives.                               *)
DataEnable(s) ==
    LET c == [CdcReset EXCEPT !.buf = s.tx.buf,
                              !.zlp_counter = s.tx.zlp_counter]
    IN  [TxSend([s EXCEPT !.tx = c]) EXCEPT !.tx.running = TRUE]

(* Slip: the endpoint keeps its job.                                       *)
DataDisableJobKept(s) ==
    [s EXCEPT !.tx.running = FALSE, !.usart = Disable(@)]

(* Disabling the data interface frees its endpoint, whose aborted job      *)
(* calls back with a status udi_cdc_data_sent ignores, and then closes the *)
(* UART (main_cdc_disable).                                                *)
DataDisable(s) ==
    [s EXCEPT !.job = JobIdle, !.tx.running = FALSE, !.usart = Disable(@)]

(* Slip: no job is started on the new settings.                            *)
UartConfigNoJob(u, baudOk) ==
    EnableCallback(Enable(InitModule(Disable(u), baudOk)))

(* uart_config: stop, reprogram and restart the USART.                     *)
UartConfig(u, baudOk) ==
    ReadBufferJob(EnableCallback(Enable(InitModule(Disable(u), baudOk))))

-----------------------------------------------------------------------------
(* Where a byte can be between the UART line and the host, oldest first.   *)

Elements(seq) == {seq[i] : i \in 1 .. Len(seq)}
Slice(b, from, to) == [i \in 1 .. to - from |-> tx.buf[b][from + i - 1]]

InFlight == IF tx.ongoing THEN Slice(job.buf, job.off, job.size)
            ELSE Slice(Other(tx.sel), 0, tx.nb[Other(tx.sel)])
Waiting  == Slice(tx.sel, 0, tx.nb[tx.sel])
Received == [i \in 1 .. Len(usart.fifo) |-> usart.fifo[i].byte]

Stages == IF tx.running THEN <<host, InFlight, Waiting, Received>>
          ELSE <<host>>
Held == UNION {Elements(Stages[a]) : a \in DOMAIN Stages}

(* A transfer begins, and one that ends in a short packet.                 *)
Starts == ~job.armed /\ ~job.zlp /\ job'.armed
NoteShort == short' = (short \/ (Starts /\ job'.size # TxBuffers))

-----------------------------------------------------------------------------
(* Hardware, line and host *)

ByteArrives(status) ==
    /\ usart.enabled
    /\ arrived < MaxBytes
    /\ arrived' = arrived + 1
    /\ usart' = Arrive(usart, arrived + 1, status)
    /\ excused' = IF Overflows(usart) THEN excused \cup {arrived + 1}
                  ELSE excused
    /\ UNCHANGED <<tx, job, hung, bus, host, control, short, open>>

FrameStart ==
    /\ frame' = (frame + 1) % Frames
    /\ sof' = TRUE
    /\ short' = FALSE
    /\ UNCHANGED <<tx, job, usart, hung, arrived, host, control, excused,
                   open>>

(* An IN token takes the next packet from the buffer's memory.             *)
HostIn ==
    /\ job.armed
    /\ LET rest == job.size - job.off
           n    == IF rest < EpSize THEN rest ELSE EpSize
       IN  /\ host' = host \o Slice(job.buf, job.off, job.off + n)
           /\ job' = [job EXCEPT !.off = @ + n, !.armed = n # rest,
                                 !.trcpt = n = rest]
           /\ open' = (n = EpSize)
    /\ UNCHANGED <<tx, usart, hung, bus, arrived, control, excused, short>>

-----------------------------------------------------------------------------
(* Interrupt handlers *)

(* _usart_interrupt_handler, Receive Complete, into usart_rx_callback.     *)
UsartInterrupt ==
    /\ ~hung
    /\ InterruptPending(usart)
    /\ LET after == [Fw EXCEPT !.usart = HandleRxc(@)]
           byte  == Head(usart.fifo).byte
       IN  Becomes(IF TakesByte(usart) /\ usart.cb
                   THEN RxCallback(after, byte) ELSE after)
    /\ excused' = IF /\ TakesByte(usart)
                     /\ tx.nb[tx.sel] = TxBuffers
                     /\ tx.ongoing \/ tx.nb[Other(tx.sel)] = TxBuffers
                  THEN excused \cup {Head(usart.fifo).byte} ELSE excused
    /\ UNCHANGED <<bus, arrived, host, control, short, open>>

(* _usb_device_interrupt_handler, TRCPT1, through udd_ep_trans_in_next.    *)
InTransferComplete ==
    /\ ~hung
    /\ job.trcpt
    /\ Becomes(IF job.zlp
               THEN [Fw EXCEPT !.job.zlp = FALSE, !.job.armed = TRUE,
                               !.job.trcpt = FALSE]
               ELSE DataSent([Fw EXCEPT !.job = JobIdle]))
    /\ NoteShort
    /\ UNCHANGED <<bus, arrived, host, control, excused, open>>

(* _usb_device_interrupt_handler, SOF, which only runs when no endpoint    *)
(* interrupt is pending: udc_sof_notify into udi_cdc_data_sof_notify.      *)
SofInterrupt ==
    /\ ~hung
    /\ sof
    /\ ~job.trcpt
    /\ sof' = FALSE
    /\ Becomes(IF tx.running THEN TxSend(Fw) ELSE Fw)
    /\ NoteShort
    /\ UNCHANGED <<frame, arrived, host, control, excused, open>>

-----------------------------------------------------------------------------
(* Control requests and bus events *)

Disturb == ~hung /\ control < MaxControl /\ control' = control + 1

(* SET_LINE_CODING *)
LineCodingReceived(baudOk) ==
    /\ Disturb
    /\ tx.running
    /\ usart' = UartConfig(usart, baudOk)
    /\ excused' = excused \cup Elements(Received)
    /\ UNCHANGED <<tx, job, hung, bus, arrived, host, short, open>>

(* SET_INTERFACE on the data interface *)
SetInterfaceData ==
    /\ Disturb
    /\ tx.running
    /\ Becomes(DataEnable(DataDisable(Fw)))
    /\ excused' = 1 .. arrived
    /\ short' = FALSE
    /\ UNCHANGED <<bus, arrived, host, open>>

(* udc_reset, on a bus reset or at the start of SET_CONFIGURATION.         *)
Reset ==
    /\ Disturb
    /\ tx.running
    /\ Becomes(DataDisable(Fw))
    /\ excused' = 1 .. arrived
    /\ short' = FALSE
    /\ open' = FALSE
    /\ UNCHANGED <<bus, arrived, host>>

(* SET_CONFIGURATION(1) of a reset device *)
SetConfiguration ==
    /\ ~hung
    /\ ~tx.running
    /\ Becomes(DataEnable([Fw EXCEPT !.usart = UartConfig(@, TRUE)]))
    /\ NoteShort
    /\ UNCHANGED <<bus, arrived, host, control, excused, open>>

-----------------------------------------------------------------------------
Init ==
    /\ tx = CdcReset
    /\ job = JobIdle
    /\ usart = UsartReset
    /\ hung = FALSE
    /\ frame = 0
    /\ sof = FALSE
    /\ arrived = 0
    /\ host = <<>>
    /\ control = 0
    /\ excused = {}
    /\ short = FALSE
    /\ open = FALSE

Next ==
    \/ \E status \in 0 .. LineErrors : ByteArrives(status)
    \/ FrameStart
    \/ HostIn
    \/ UsartInterrupt
    \/ InTransferComplete
    \/ SofInterrupt
    \/ \E baudOk \in BOOLEAN : LineCodingReceived(baudOk)
    \/ SetInterfaceData
    \/ Reset
    \/ SetConfiguration

Spec == Init /\ [][Next]_vars

(* Pending interrupts are served, the host keeps the bus running and reads *)
(* the endpoint.  A frame is longer than a handler: starts of frame are    *)
(* not served, for ever, only when the counter has come round to sof_num.  *)
(* Nothing is assumed of the UART line.                                    *)
Fairness ==
    /\ WF_vars(UsartInterrupt)
    /\ WF_vars(InTransferComplete)
    /\ WF_vars(SofInterrupt)
    /\ SF_vars(SofInterrupt /\ frame # tx.sof_num)
    /\ WF_vars(FrameStart)
    /\ WF_vars(HostIn)

FairSpec == Spec /\ Fairness

-----------------------------------------------------------------------------
(* Properties *)

TxType == [buf : [Buffer -> [0 .. TxBuffers - 1 -> Byte]],
           nb : [Buffer -> 0 .. TxBuffers], sel : Buffer, both : BOOLEAN,
           ongoing : BOOLEAN, sof_num : 0 .. Frames - 1,
           zlp_counter : 0 .. ZlpPeriod - 1, running : BOOLEAN]

JobType == [busy : BOOLEAN, buf : Buffer, size : 0 .. TxBuffers,
            off : 0 .. TxBuffers, zlp : BOOLEAN, armed : BOOLEAN,
            trcpt : BOOLEAN]

(* Counters stay within the buffers they index.                            *)
TypeOK ==
    /\ tx \in TxType
    /\ job \in JobType
    /\ usart \in UsartType(Byte)
    /\ hung \in BOOLEAN
    /\ frame \in 0 .. Frames - 1
    /\ sof \in BOOLEAN
    /\ arrived \in 0 .. MaxBytes
    /\ host \in Seq(Byte)
    /\ control \in 0 .. MaxControl
    /\ excused \subseteq Byte
    /\ short \in BOOLEAN
    /\ open \in BOOLEAN

Ascending(seq) == \A i, j \in 1 .. Len(seq) : i < j => seq[i] < seq[j]
Before(seq, later) ==
    \A i \in 1 .. Len(seq), j \in 1 .. Len(later) : seq[i] < later[j]

(* The host reads the UART's bytes in order and none twice, whichever      *)
(* buffer they went through and whenever it polls.                         *)
InOrder ==
    \A a, b \in DOMAIN Stages :
        /\ Ascending(Stages[a])
        /\ a < b => Before(Stages[a], Stages[b])

(* A byte is lost only to a receiver nobody emptied in time, to a control  *)
(* request, or when one buffer was full and the other full or being sent.  *)
OnlyOverrunsLoseBytes == \A k \in 1 .. arrived : k \in Held \cup excused

(* udi_cdc believes a transfer is on its way exactly when the endpoint has *)
(* one, it is the buffer putc does not fill, and it has all its bytes.     *)
TransferOwnsOtherBuffer ==
    tx.running =>
      /\ tx.ongoing = job.busy
      /\ job.busy = (job.armed \/ job.trcpt)
      /\ job.busy => /\ job.buf = Other(tx.sel)
                     /\ job.size = tx.nb[Other(tx.sel)]

(* A full buffer never waits behind an empty current one, where            *)
(* udi_cdc_tx_send would count ZlpPeriod frames before it looks at it.     *)
FullBufferNotStranded ==
    tx.running /\ ~tx.ongoing /\ tx.nb[Other(tx.sel)] > 0 =>
      tx.both /\ tx.nb[tx.sel] > 0

(* While the UART is on, one byte can always be received: every path of    *)
(* the handler that takes a byte starts the next job.  Only SET_INTERFACE  *)
(* closes the port under an enabled interface, no line error and no rate   *)
(* that cannot be made; nothing that arrived waits behind a closed port.   *)
ReceiverArmed ==
    /\ usart.enabled => usart.remaining = 1 /\ usart.rxc_en /\ usart.cb
    /\ tx.running /\ ~usart.enabled => excused = 1 .. arrived

(* udi_cdc_multi_putc is never called without room for the byte, where it  *)
(* would spin with the endpoint's interrupt blocked behind it.             *)
NeverHangs == ~hung

(* After a transfer with a short packet nothing is sent until the next     *)
(* start of frame, as long as the interface is not enabled anew, which     *)
(* forgets the frame.                                                      *)
OneShortPerFrame == [][Starts => ~short]_vars

(* What arrives reaches the host, and a read of the host that ended in     *)
(* full packets is completed by a short or an empty one.                   *)
Delivers == []<>(\A k \in 1 .. arrived : k \in Elements(host) \cup excused)
ReadsComplete == []<>~open

(* What the bridge promises the host.                                      *)
Abstract == INSTANCE LossyWire WITH sent <- arrived, wire <- host
ImplementsLossyWire == Abstract!Spec
=============================================================================
