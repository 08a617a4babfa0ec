------------------------------ MODULE BridgeOut ------------------------------
(***************************************************************************)
(* Host to UART half of the bridge: the bulk OUT endpoint job of           *)
(* usb_device_udd.c, the double receive buffer of udi_cdc.c and the        *)
(* transmit callbacks of uart_samd.c, on top of the USART driver.          *)
(*                                                                         *)
(* All of this code runs in interrupt handlers of one priority, which do   *)
(* not nest: an action is one handler from entry to exit, or one step of   *)
(* the USB or SERCOM hardware between two handlers.                        *)
(*                                                                         *)
(* A byte is its position in the stream the host sends, 1, 2, 3, ...       *)
(***************************************************************************)
EXTENDS Usart, Integers

CONSTANTS
    RxBuffers,   \* UDI_CDC_RX_BUFFERS: capacity of one receive buffer
    EpSize,      \* wMaxPacketSize of the OUT endpoint
    MaxBytes,    \* bound: bytes the host sends
    MaxControl   \* bound: control requests and resets that disturb the stream

ASSUME SizesAssumption ==
    /\ RxBuffers \in Nat \ {0}
    /\ EpSize \in Nat \ {0}
    /\ RxBuffers % EpSize = 0
    /\ MaxBytes \in Nat
    /\ MaxControl \in Nat

VARIABLES
    cdc,      \* receive side of udi_cdc.c
    job,      \* udd_ep_job of the OUT endpoint and its bank
    usart,    \* usart_module_edbg and its peripheral
    tx_data,  \* the byte usart_write_buffer_job points to
    hung,     \* a handler spins in udi_cdc_multi_getc
    sent,     \* number of bytes the host has sent
    wire,     \* bytes that left the UART, in order
    control,  \* disturbing requests so far
    excused   \* history: positions that may be missing on the wire

firmware == <<cdc, job, usart, tx_data, hung>>
vars == <<cdc, job, usart, tx_data, hung, sent, wire, control, excused>>

Byte   == 0 .. MaxBytes     \* 0 is the value getc returns without data
Buffer == 0 .. 1
Other(b) == 1 - b

-----------------------------------------------------------------------------
(* The operators below take and return the firmware state a handler works  *)
(* on, one record, so that nested calls compose as they do in C.           *)

Fw == [cdc |-> cdc, job |-> job, usart |-> usart, tx_data |-> tx_data,
       hung |-> hung]

Becomes(s) ==
    /\ cdc' = s.cdc
    /\ job' = s.job
    /\ usart' = s.usart
    /\ tx_data' = s.tx_data
    /\ hung' = s.hung

EmptyBuffer == [i \in 0 .. RxBuffers - 1 |-> 0]

CdcReset == [rx_buf |-> [b \in Buffer |-> EmptyBuffer],
             nb |-> [b \in Buffer |-> 0], sel |-> 0, pos |-> 0,
             ongoing |-> FALSE, running |-> FALSE]

(* The bank is armed while the hardware may store packets; trcpt is the    *)
(* transfer-complete flag waiting for its handler.                         *)
JobIdle == [busy |-> FALSE, buf |-> 0, count |-> 0, armed |-> FALSE,
            trcpt |-> FALSE]

(* udd_ep_run on the OUT endpoint.  A busy job refuses.  The buffer is a   *)
(* whole number of packets, so one bank setup covers the transfer.         *)
EpRunOut(s, b) ==
    IF s.job.busy THEN s
    ELSE [s EXCEPT !.job = [busy |-> TRUE, buf |-> b, count |-> 0,
                            armed |-> TRUE, trcpt |-> FALSE]]

(* udi_cdc_multi_is_rx_ready *)
RxReady(c) == c.nb[c.sel] # c.pos

(* The read in udi_cdc_multi_getc, before it restarts reception.           *)
ReadByte(c) == IF c.pos < c.nb[c.sel] THEN c.rx_buf[c.sel][c.pos] ELSE 0
(* Slip: the read position is not advanced.                                *)
ConsumeInPlace(s) == IF s.cdc.pos < s.cdc.nb[s.cdc.sel] THEN s
                     ELSE [s EXCEPT !.hung = s.cdc.running]
Consume(s) ==
    IF s.cdc.pos < s.cdc.nb[s.cdc.sel] THEN [s EXCEPT !.cdc.pos = @ + 1]
    ELSE [s EXCEPT !.hung = s.cdc.running]

(* tx_data = udi_cdc_getc() is complete in s; the one-byte job follows.    *)
SendByte(s, byte) ==
    [s EXCEPT !.tx_data = byte, !.usart = WriteBufferJob(@)]

(* uart_rx_notify.  It only runs inside udi_cdc_rx_start, after ongoing    *)
(* was set, so the udi_cdc_rx_start its getc makes returns at its guard.   *)
RxNotify(s) ==
    SendByte([Consume(s) EXCEPT !.usart = EnableCallback(@)],
             ReadByte(s.cdc))

(* Slip: bytes still unread do not hold the swap back.                     *)
RxStartRefusedOngoing(c) == c.ongoing
RxStartRefused(c) == c.ongoing \/ c.pos < c.nb[c.sel]

(* Slip: the endpoint gets the buffer just selected.                       *)
RxStartSameBuffer(s) ==
    LET new     == Other(s.cdc.sel)
        swapped == [s EXCEPT !.cdc.pos = 0, !.cdc.sel = new,
                             !.cdc.ongoing = TRUE]
    IN  IF RxStartRefused(s.cdc) THEN s
        ELSE EpRunOut(IF RxReady(swapped.cdc) THEN RxNotify(swapped)
                      ELSE swapped, new)

(* udi_cdc_rx_start: swap the buffers, hand the new one to the UART and    *)
(* give the old one to the endpoint.                                       *)
RxStart(s) ==
    LET old     == s.cdc.sel
        swapped == [s EXCEPT !.cdc.pos = 0, !.cdc.sel = Other(old),
                             !.cdc.ongoing = TRUE]
    IN  IF RxStartRefused(s.cdc) THEN s
        ELSE EpRunOut(IF RxReady(swapped.cdc) THEN RxNotify(swapped)
                      ELSE swapped, old)

(* Slip: a byte is read without asking whether there is one.               *)
TxCallbackUnchecked(s) == SendByte(RxStart(Consume(s)), ReadByte(s.cdc))

(* usart_tx_callback.  Its getc may swap the buffers and so run            *)
(* uart_rx_notify before the byte it read reaches tx_data.                 *)
TxCallback(s) ==
    IF RxReady(s.cdc) THEN SendByte(RxStart(Consume(s)), ReadByte(s.cdc))
    ELSE [s EXCEPT !.usart = DisableCallback(@)]

(* Slips: the count is one too large; the transfer stays marked ongoing.   *)
DataReceivedOneMore(s, n) ==
    LET b == Other(s.cdc.sel) IN
    IF n = 0 THEN EpRunOut(s, b)
    ELSE RxStart([s EXCEPT !.cdc.nb[b] = n + 1, !.cdc.ongoing = FALSE])
DataReceivedOngoing(s, n) ==
    LET b == Other(s.cdc.sel) IN
    IF n = 0 THEN EpRunOut(s, b) ELSE RxStart([s EXCEPT !.cdc.nb[b] = n])

(* udi_cdc_data_received with status UDD_EP_TRANSFER_OK and n bytes.       *)
DataReceived(s, n) ==
    LET b == Other(s.cdc.sel) IN
    IF n = 0 THEN EpRunOut(s, b)
    ELSE RxStart([s EXCEPT !.cdc.nb[b] = n, !.cdc.ongoing = FALSE])

(* uart_config: stop, reprogram and restart the USART.                     *)
UartConfig(u, baudOk, finishes) ==
    EnableCallback(Enable(InitModule(Disable(u, finishes), baudOk)))

(* Slip: the buffer counts survive.                                        *)
DataEnableKeepCounts(s) ==
    LET c == [CdcReset EXCEPT !.rx_buf = s.cdc.rx_buf, !.nb = s.cdc.nb] IN
    [RxStart([s EXCEPT !.cdc = c]) EXCEPT !.cdc.running = TRUE]

(* udi_cdc_data_enable: the receive side.                                  *)
DataEnable(s) ==
    LET c == [CdcReset EXCEPT !.rx_buf = s.cdc.rx_buf] IN
    [RxStart([s EXCEPT !.cdc = c]) EXCEPT !.cdc.running = TRUE]

(* Slip: the endpoint keeps its job.                                       *)
DataDisableJobKept(s, finishes) ==
    [s EXCEPT !.cdc.running = FALSE, !.usart = Disable(@, finishes)]

(* Disabling the data interface frees its endpoint, whose aborted job      *)
(* calls back with a status udi_cdc_data_received ignores, and then closes *)
(* the UART (main_cdc_disable).                                            *)
DataDisable(s, finishes) ==
    [s EXCEPT !.job = JobIdle, !.cdc.running = FALSE,
              !.usart = Disable(@, finishes)]

-----------------------------------------------------------------------------
(* Where a byte can be between the host and the wire, oldest first.  An    *)
(* unconfigured device has forgotten what it held.                         *)

Slice(b, from, to) == [i \in 1 .. to - from |-> cdc.rx_buf[b][from + i - 1]]

(* Bytes in the buffer the USB side owns: completed and waiting for the    *)
(* swap, or stored by the job so far.                                      *)
Fill(s) == IF s.cdc.ongoing THEN s.job.count
           ELSE s.cdc.nb[Other(s.cdc.sel)]

Pending  == IF usart.remaining > 0 THEN <<tx_data>> ELSE <<>>
Unread   == Slice(cdc.sel, cdc.pos, cdc.nb[cdc.sel])
Incoming == Slice(Other(cdc.sel), 0, Fill(Fw))

Stages == IF cdc.running
          THEN <<wire, usart.line, Pending, Unread, Incoming>>
          ELSE <<wire>>

Elements(seq) == {seq[i] : i \in 1 .. Len(seq)}
Held == UNION {Elements(Stages[a]) : a \in DOMAIN Stages}

-----------------------------------------------------------------------------
(* Hardware and host *)

(* The host sends a packet of n bytes, which the bank stores in the job's  *)
(* buffer.  A short packet or a full buffer completes the transfer.        *)
HostPacket(n) ==
    /\ job.armed
    /\ sent + n <= MaxBytes
    /\ LET count == job.count + n
           done  == n < EpSize \/ count = RxBuffers
       IN  /\ job' = [job EXCEPT !.count = count, !.armed = ~done,
                                 !.trcpt = done]
           /\ cdc' = [cdc EXCEPT !.rx_buf[job.buf] =
                        [i \in 0 .. RxBuffers - 1 |->
                           IF job.count <= i /\ i < count
                           THEN sent + 1 + i - job.count ELSE @[i]]]
    /\ sent' = sent + n
    /\ UNCHANGED <<usart, tx_data, hung, wire, control, excused>>

(* The transmitter finishes one frame.                                     *)
FrameSent ==
    /\ usart.enabled
    /\ usart.line # <<>>
    /\ wire' = Append(wire, Head(usart.line))
    /\ usart' = ShiftFrame(usart)
    /\ UNCHANGED <<cdc, job, tx_data, hung, sent, control, excused>>

-----------------------------------------------------------------------------
(* Interrupt handlers *)

(* _usb_device_interrupt_handler, TRCPT0 of the OUT endpoint, through      *)
(* udd_ep_trans_out_next into udi_cdc_data_received.                       *)
OutTransferComplete ==
    /\ ~hung
    /\ job.trcpt
    /\ Becomes(DataReceived([Fw EXCEPT !.job = JobIdle], job.count))
    /\ excused' = excused \cup
         (IF job.count = 0 THEN {}
          ELSE {cdc.rx_buf[job.buf][0], cdc.rx_buf[job.buf][job.count - 1]})
    /\ UNCHANGED <<sent, wire, control>>

(* _usart_interrupt_handler.  Flags and callback mask are read once on     *)
(* entry; the TXC branch runs on the flag as it was then, even when the    *)
(* DRE branch has just written DATA.                                       *)
UsartInterrupt ==
    /\ ~hung
    /\ InterruptPending(usart)
    /\ LET afterDre == IF DreRaised(usart)
                       THEN [Fw EXCEPT !.usart = HandleDre(@, tx_data)]
                       ELSE Fw
           afterTxc == IF TxcRaised(usart)
                       THEN [afterDre EXCEPT !.usart = HandleTxc(@)]
                       ELSE afterDre
       IN  Becomes(IF TxcRaised(usart) /\ usart.cb THEN TxCallback(afterTxc)
                   ELSE afterTxc)
    /\ UNCHANGED <<sent, wire, control, excused>>

-----------------------------------------------------------------------------
(* Control requests and bus events that disturb the stream; finishes says  *)
(* whether the frame in the shift register completes (see Disable).        *)

LeavesWire(finishes) ==
    wire' = IF finishes /\ usart.line # <<>>
            THEN Append(wire, Head(usart.line)) ELSE wire

Disturb == ~hung /\ control < MaxControl /\ control' = control + 1

(* SET_LINE_CODING: udi_cdc_line_coding_received, after the status stage,  *)
(* calls uart_config; bDataBits is 5 to 8 here.  SET_INTERFACE on the      *)
(* communication interface (udi_cdc_comm_enable) does the same with the    *)
(* default coding and opens the UART, which uart_config has done already.  *)
LineCodingReceived(baudOk, finishes) ==
    /\ Disturb
    /\ cdc.running
    /\ usart' = UartConfig(usart, baudOk, finishes)
    /\ LeavesWire(finishes)
    /\ excused' = excused \cup
         Elements(IF baudOk THEN usart.line \o Pending ELSE usart.line)
    /\ UNCHANGED <<cdc, job, tx_data, hung, sent>>

(* SET_INTERFACE on the data interface disables and enables it, but only   *)
(* the communication interface opens the UART.                             *)
SetInterfaceData(finishes) ==
    /\ Disturb
    /\ cdc.running
    /\ Becomes(DataEnable(DataDisable(Fw, finishes)))
    /\ LeavesWire(finishes)
    /\ excused' = 1 .. sent
    /\ UNCHANGED sent

(* udc_reset, on a bus reset or at the start of SET_CONFIGURATION.         *)
Reset(finishes) ==
    /\ Disturb
    /\ cdc.running
    /\ Becomes(DataDisable(Fw, finishes))
    /\ LeavesWire(finishes)
    /\ excused' = 1 .. sent
    /\ UNCHANGED sent

(* SET_CONFIGURATION(1) of a reset device: the communication interface     *)
(* configures and opens the UART, then the data interface starts.          *)
SetConfiguration(finishes) ==
    /\ ~hung
    /\ ~cdc.running
    /\ Becomes(DataEnable([Fw EXCEPT !.usart =
                             UartConfig(@, TRUE, finishes)]))
    /\ LeavesWire(finishes)
    /\ UNCHANGED <<sent, control, excused>>

-----------------------------------------------------------------------------
Init ==
    /\ cdc = CdcReset
    /\ job = JobIdle
    /\ usart = UsartReset
    /\ tx_data = 0
    /\ hung = FALSE
    /\ sent = 0
    /\ wire = <<>>
    /\ control = 0
    /\ excused = {}

Next ==
    \/ \E n \in 0 .. EpSize : HostPacket(n)
    \/ FrameSent
    \/ OutTransferComplete
    \/ UsartInterrupt
    \/ \E finishes \in BOOLEAN :
          \/ \E baudOk \in BOOLEAN : LineCodingReceived(baudOk, finishes)
          \/ SetInterfaceData(finishes)
          \/ Reset(finishes)
          \/ SetConfiguration(finishes)

Spec == Init /\ [][Next]_vars

(* The hardware raises what it owes and a pending interrupt is served: the *)
(* handlers are short and no code masks interrupts for good.  The host is  *)
(* not assumed to do anything.                                             *)
Fairness ==
    /\ WF_vars(FrameSent)
    /\ WF_vars(OutTransferComplete)
    /\ WF_vars(UsartInterrupt)

FairSpec == Spec /\ Fairness

-----------------------------------------------------------------------------
(* Properties *)

CdcType == [rx_buf : [Buffer -> [0 .. RxBuffers - 1 -> Byte]],
            nb : [Buffer -> 0 .. RxBuffers], sel : Buffer,
            pos : 0 .. RxBuffers, ongoing : BOOLEAN, running : BOOLEAN]

JobType == [busy : BOOLEAN, buf : Buffer, count : 0 .. RxBuffers,
            armed : BOOLEAN, trcpt : BOOLEAN]

(* The firmware's counters stay within the buffers they index.             *)
TypeOK ==
    /\ cdc \in CdcType
    /\ job \in JobType
    /\ usart \in UsartType(Byte)
    /\ tx_data \in Byte
    /\ hung \in BOOLEAN
    /\ sent \in 0 .. MaxBytes
    /\ wire \in Seq(Byte)
    /\ control \in 0 .. MaxControl
    /\ excused \subseteq Byte

Ascending(seq) == \A i, j \in 1 .. Len(seq) : i < j => seq[i] < seq[j]
Before(seq, later) ==
    \A i \in 1 .. Len(seq), j \in 1 .. Len(later) : seq[i] < later[j]

(* Bytes never overtake or repeat one another between the host and the     *)
(* wire: whatever swaps, nested notifications, resets and reconfigurations *)
(* happen, what has left the UART followed by what will is a subsequence   *)
(* of the host's stream.                                                   *)
InOrder ==
    \A a, b \in DOMAIN Stages :
        /\ Ascending(Stages[a])
        /\ a < b => Before(Stages[a], Stages[b])

(* A byte is lost only next to a buffer swap: it is the first or the last  *)
(* of a USB transfer, or it was inside the USART or the buffers when a     *)
(* control request or reset emptied them.                                  *)
OnlySwapsLoseBytes == \A k \in 1 .. sent : k \in Held \cup excused

(* While configured, the OUT endpoint has a job whenever udi_cdc believes  *)
(* so, and only lacks one when both buffers hold data, so that the next    *)
(* read of a last byte restarts it: reception never stops for good.        *)
ReceptionAlive ==
    cdc.running =>
      /\ cdc.ongoing = job.busy
      /\ job.busy = (job.armed \/ job.trcpt)
      /\ ~cdc.ongoing => cdc.pos < cdc.nb[cdc.sel] /\ cdc.nb[Other(cdc.sel)] > 0

(* The endpoint never stores packets in the buffer the UART side reads.    *)
DmaOwnsOtherBuffer == job.busy => job.buf = Other(cdc.sel)

(* udi_cdc_multi_getc is never called in a handler without a byte to read, *)
(* where it would spin with every interrupt of the device blocked.         *)
NeverHangs == ~hung

(* Every completed transfer is read out and sent, as long as no control    *)
(* request disturbs the UART.                                              *)
Quiet == usart.line = <<>> /\ Pending = <<>> /\ Unread = <<>> /\ ~job.trcpt
Drains == [](control = 0) => []<>Quiet

-----------------------------------------------------------------------------
(* Inductive strengthening: the buffers hold the last bytes of the stream, *)
(* so how many bytes getc has taken follows from the counters, and all it  *)
(* has taken is older than all it has not.                                 *)

Taken(s, top) == top - Fill(s) - (s.cdc.nb[s.cdc.sel] - s.cdc.pos)

(* The swap invariant: counters and endpoint job of a configured device.   *)
SwapInv(s) ==
    /\ s.cdc.pos <= s.cdc.nb[s.cdc.sel]
    /\ s.cdc.ongoing = s.job.busy
    /\ ~s.job.busy => s.job = JobIdle
    /\ s.job.busy => s.job.buf = Other(s.cdc.sel)
    /\ ~s.cdc.ongoing => s.cdc.nb[Other(s.cdc.sel)] > 0

(* The last bytes of the stream are in the buffers, in order.              *)
QueueInv(s, top) ==
    /\ Taken(s, top) >= 0
    /\ \A i \in 0 .. Fill(s) - 1 :
          s.cdc.rx_buf[Other(s.cdc.sel)][i] = top - Fill(s) + 1 + i
    /\ \A i \in s.cdc.pos .. s.cdc.nb[s.cdc.sel] - 1 :
          s.cdc.rx_buf[s.cdc.sel][i] =
            top - Fill(s) - s.cdc.nb[s.cdc.sel] + 1 + i

(* What getc has taken is on the wire, in the transmitter or pending, in   *)
(* that order.                                                             *)
LineInv(s, top, w) ==
    /\ Ascending(s.usart.line)
    /\ Before(w, s.usart.line)
    /\ \A i \in 1 .. Len(w) : w[i] <= Taken(s, top)
    /\ \A i \in 1 .. Len(s.usart.line) :
          s.usart.line[i] \in 1 .. Taken(s, top)

PendingInv(s, top, w) ==
    s.usart.remaining > 0 =>
      /\ s.tx_data \in 1 .. Taken(s, top)
      /\ \A i \in 1 .. Len(w) : w[i] < s.tx_data
      /\ \A i \in 1 .. Len(s.usart.line) : s.usart.line[i] < s.tx_data

WireInv ==
    /\ Ascending(wire)
    /\ \A i \in 1 .. Len(wire) : wire[i] \in 1 .. sent

(* A job lacks only a whole number of packets, and none without data.      *)
JobInv(s) ==
    /\ s.job.busy = (s.job.armed \/ s.job.trcpt)
    /\ s.job.armed => /\ s.job.count < RxBuffers
                      /\ (RxBuffers - s.job.count) % EpSize = 0
    /\ ~s.cdc.ongoing => s.cdc.pos < s.cdc.nb[s.cdc.sel]

IndInv ==
    /\ TypeOK
    /\ ~hung
    /\ WireInv
    /\ cdc.running => /\ SwapInv(Fw)
                      /\ JobInv(Fw)
                      /\ QueueInv(Fw, sent)
                      /\ LineInv(Fw, sent, wire)
                      /\ PendingInv(Fw, sent, wire)
    /\ ~cdc.running => /\ ~usart.enabled
                       /\ usart.line = <<>>
                       /\ job = JobIdle

-----------------------------------------------------------------------------
(* What the bridge promises the reader of the UART.                        *)
Abstract == INSTANCE LossyWire
ImplementsLossyWire == Abstract!Spec
=============================================================================
