------------------------------- MODULE UsartRx -------------------------------
(***************************************************************************)
(* Receive half of the SERCOM USART driver in callback mode (usart.c,      *)
(* usart_interrupt.c) as operators on the driver's state.  The application *)
(* only starts one-byte jobs.                                              *)
(*                                                                         *)
(* A record u has the fields                                               *)
(*   remaining  remaining_rx_buffer_length                                 *)
(*   cb         BUFFER_RECEIVED in callback_enable_mask                    *)
(*   rxc_en     INTENSET.RXC                                               *)
(*   enabled    CTRLA.ENABLE and the NVIC line, always switched together   *)
(*   fifo       received characters, DATA first; each with the number of   *)
(*              STATUS bits (frame or parity error, overflow) set with it  *)
(***************************************************************************)
EXTENDS Naturals, Sequences

(* Characters the receiver holds before it overflows.                      *)
FifoDepth == 2
MaxStatus == 2

UsartReset == [remaining |-> 0, cb |-> FALSE, rxc_en |-> FALSE,
               enabled |-> FALSE, fifo |-> <<>>]

UsartType(Byte) ==
    [remaining : {0, 1}, cb : BOOLEAN, rxc_en : BOOLEAN, enabled : BOOLEAN,
     fifo : Seq([byte : Byte, status : 0 .. MaxStatus])]

-----------------------------------------------------------------------------
(* Driver calls *)

(* usart_read_buffer_job: a job in progress answers STATUS_BUSY, which     *)
(* uart_samd.c ignores.                                                    *)
ReadBufferJob(u) ==
    IF u.remaining > 0 THEN u
    ELSE [u EXCEPT !.remaining = 1, !.rxc_en = TRUE]

EnableCallback(u) == [u EXCEPT !.cb = TRUE]

(* Disabling the peripheral flushes the receive buffer and its status.     *)
Disable(u) == [u EXCEPT !.enabled = FALSE, !.fifo = <<>>]
Enable(u)  == [u EXCEPT !.enabled = TRUE]

(* usart_init, see Usart: an unreachable baud rate returns early.          *)
InitModule(u, baudOk) ==
    IF baudOk THEN [u EXCEPT !.remaining = 0, !.cb = FALSE] ELSE u

-----------------------------------------------------------------------------
(* Receive Complete branch of the interrupt handler *)

InterruptPending(u) == u.enabled /\ u.rxc_en /\ u.fifo # <<>>

(* The branch that reads DATA; the others leave the character there.       *)
TakesByte(u) == u.remaining > 0 /\ Head(u.fifo).status = 0

(* One STATUS bit is cleared per interrupt and the character stays in DATA *)
(* for the next; without a job the interrupt is switched off.              *)
HandleRxc(u) ==
    IF u.remaining = 0 THEN [u EXCEPT !.rxc_en = FALSE]
    ELSE IF ~TakesByte(u) THEN [u EXCEPT !.fifo[1].status = @ - 1]
    ELSE [u EXCEPT !.fifo = Tail(@), !.remaining = 0, !.rxc_en = FALSE]

-----------------------------------------------------------------------------
(* The receiver itself: a character arrives with some status bits.  A full *)
(* receiver drops it and sets BUFOVF behind the last one it kept.          *)
Overflows(u) == Len(u.fifo) = FifoDepth

Arrive(u, byte, status) ==
    IF Overflows(u)
    THEN [u EXCEPT !.fifo[FifoDepth].status = IF @ < MaxStatus THEN @ + 1
                                              ELSE @]
    ELSE [u EXCEPT !.fifo = Append(@, [byte |-> byte, status |-> status])]
=============================================================================
