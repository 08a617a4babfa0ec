-------------------------------- MODULE Usart --------------------------------
(***************************************************************************)
(* Transmit half of the SERCOM USART driver in callback mode               *)
(* (usart.c, usart_interrupt.c) as operators on the driver's state, so     *)
(* that the modules that own an interrupt handler can call them in the     *)
(* order the C code does.  The application only starts one-byte jobs.      *)
(*                                                                         *)
(* A record u has the fields                                               *)
(*   remaining  remaining_tx_buffer_length                                 *)
(*   cb         BUFFER_TRANSMITTED in callback_enable_mask                 *)
(*   dre_en     INTENSET.DRE          txc_en  INTENSET.TXC                 *)
(*   enabled    CTRLA.ENABLE and the NVIC line, always switched together   *)
(*   line       shift register followed by DATA                            *)
(*   txc        INTFLAG.TXC                                                *)
(***************************************************************************)
EXTENDS Naturals, Sequences

(* Shift register and DATA: two bytes can be inside the transmitter.       *)
PipelineDepth == 2

UsartReset == [remaining |-> 0, cb |-> FALSE, dre_en |-> FALSE,
               txc_en |-> FALSE, enabled |-> FALSE, line |-> <<>>,
               txc |-> FALSE]

UsartType(Byte) ==
    [remaining : {0, 1}, cb : BOOLEAN, dre_en : BOOLEAN, txc_en : BOOLEAN,
     enabled : BOOLEAN, line : Seq(Byte), txc : BOOLEAN]

-----------------------------------------------------------------------------
(* Driver calls *)

(* usart_write_buffer_job: a job in progress answers STATUS_BUSY, which    *)
(* both callers in uart_samd.c ignore, and nothing changes.                *)
WriteBufferJob(u) ==
    IF u.remaining > 0 THEN u
    ELSE [u EXCEPT !.remaining = 1, !.dre_en = TRUE]

EnableCallback(u)  == [u EXCEPT !.cb = TRUE]
DisableCallback(u) == [u EXCEPT !.cb = FALSE]

(* usart_disable drops what the transmitter holds.  Whether the frame      *)
(* being shifted still completes is up to the peripheral: when it does,    *)
(* finishes is TRUE and TXC is raised.                                     *)
Disable(u, finishes) ==
    [u EXCEPT !.enabled = FALSE, !.line = <<>>,
              !.txc = @ \/ (finishes /\ u.line # <<>>)]

Enable(u) == [u EXCEPT !.enabled = TRUE]

(* usart_init: a baud rate the clock cannot reach returns before the job   *)
(* counters and callback masks are cleared.  The interrupt enables are     *)
(* written in neither case.                                                *)
InitModule(u, baudOk) ==
    IF baudOk THEN [u EXCEPT !.remaining = 0, !.cb = FALSE] ELSE u

-----------------------------------------------------------------------------
(* Interrupt handler *)

DreRaised(u) == u.dre_en /\ Len(u.line) < PipelineDepth
TxcRaised(u) == u.txc_en /\ u.txc

InterruptPending(u) == u.enabled /\ (DreRaised(u) \/ TxcRaised(u))

(* Slip: the last byte leaves without asking for the TXC interrupt.        *)
HandleDreNoTxc(u, byte) ==
    IF u.remaining = 0 THEN [u EXCEPT !.dre_en = FALSE]
    ELSE [u EXCEPT !.line = Append(@, byte), !.txc = FALSE, !.remaining = 0,
                   !.dre_en = FALSE]

(* Data Register Empty branch.  Writing DATA also clears INTFLAG.TXC.      *)
HandleDre(u, byte) ==
    IF u.remaining = 0 THEN [u EXCEPT !.dre_en = FALSE]
    ELSE [u EXCEPT !.line = Append(@, byte), !.txc = FALSE, !.remaining = 0,
                   !.dre_en = FALSE, !.txc_en = TRUE]

(* Transmit Complete branch up to the callback.                            *)
HandleTxc(u) == [u EXCEPT !.txc_en = FALSE]

-----------------------------------------------------------------------------
(* The transmitter itself: one frame leaves, TXC rises behind the last.    *)
ShiftFrame(u) ==
    [u EXCEPT !.line = Tail(@), !.txc = @ \/ Len(u.line) = 1]
=============================================================================
