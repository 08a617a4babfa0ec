------------------------------- MODULE CtrlEp -------------------------------
(***************************************************************************)
(* Endpoint 0 of usb_device_udd.c: the state machine that takes a control  *)
(* request from its setup packet through the data stage to the handshake,  *)
(* on the endpoint driver of usb_sam_l/usb.c, and the host that sends the  *)
(* request.  Which requests are accepted, with which data, is udc.c's      *)
(* choice; here it comes with the setup packet.                            *)
(*                                                                         *)
(* No code of the repository sets over_under_run, so a payload has no      *)
(* second buffer, and a setup packet always has its 8 bytes.  The branches *)
(* for the rest are left out, and with them udd_ep_set_halt(0).            *)
(***************************************************************************)
EXTENDS Integers

CONSTANTS
    CtrlSize,      \* USB_DEVICE_EP_CTRL_SIZE
    SetupSize,     \* bytes of a setup packet
    MaxLength,     \* bound: wLength
    SetupOvertakes \* a setup packet may come before the handler has served
                   \* the end of the last request

ASSUME CtrlAssumption ==
    /\ CtrlSize \in Nat
    /\ SetupSize \in 1 .. CtrlSize - 1
    /\ MaxLength \in Nat
    /\ SetupOvertakes \in BOOLEAN

VARIABLES
    ctrl,     \* udd_ep_control_state, udd_g_ctrlreq and the counters
    hw,       \* registers and bank descriptors of endpoint 0
    received, \* ep_callback_para.received_bytes
    ram,      \* udd_ctrl_buffer
    host,     \* the host's side of the request
    log       \* history, see Log

vars == <<ctrl, hw, received, ram, host, log>>

(* What a setup packet asks for and what udc_process_setup makes of it.    *)
(* Sizes are already cut to wLength.  Only requests of this device that    *)
(* receive data or set the address have a callback.                        *)
Request(dir, wLength, accepted, size, callback) ==
    [dir |-> dir, wLength |-> wLength, accepted |-> accepted, size |-> size,
     callback |-> callback]

Requests ==
    {Request("in", w, TRUE, n, FALSE) : w \in 1 .. MaxLength, n \in 0 .. MaxLength}
    \cup {Request("out", w, TRUE, w, TRUE) : w \in 0 .. MaxLength}
    \cup {Request("out", w, TRUE, 0, FALSE) : w \in 0 .. CtrlSize}
    \cup {Request(d, w, FALSE, 0, FALSE) : d \in {"in", "out"}, w \in 0 .. CtrlSize}

Legal(r) == r.size <= r.wLength

(* callback: udd_g_ctrlreq.callback is not NULL.  short: the static        *)
(* b_shortpacket of udd_ctrl_in_sent.                                      *)
CtrlReset == [state |-> "setup", dir |-> "out", wLength |-> 0, size |-> 0,
              callback |-> FALSE, prev |-> 0, nb |-> 0, short |-> FALSE]

(* armed: bank 0 takes an OUT packet.  loaded: bank 1 has a packet of      *)
(* length bytes, the payload from pos on; both are 0 while it has none.    *)
HwReset == [flags |-> {}, stallrq |-> {}, armed |-> TRUE, count |-> 0,
            loaded |-> FALSE, pos |-> 0, length |-> 0]

(* Flags that raise the interrupt; STALL flags are looked at but masked.   *)
Raising == {"rxstp", "trcpt1", "trcpt0", "trfail1", "trfail0"}

(* owed: the callback of the request in ctrl is still to be called.        *)
(* shook: the host has had the handshake of that request.                  *)
(* stored: bytes of the data stage in the payload, in order.  cut: the     *)
(* host ended the data stage of its request before its time.               *)
(* The rest become TRUE once: a callback came twice, or before the         *)
(* handshake although no new request came; the host or the callback got    *)
(* other than the next, or all, bytes; the payload got bytes that are not  *)
(* the data stage's.                                                       *)
(* spurned: accepted requests that were stalled, empty answers or others.  *)
LogReset == [owed |-> FALSE, shook |-> FALSE, stored |-> 0, cut |-> FALSE,
             twice |-> FALSE, early |-> FALSE, inexact |-> FALSE,
             foreign |-> FALSE, spurned |-> {}]

HostIdle == [stage |-> "idle", dir |-> "out", wLength |-> 0, got |-> 0]

Init ==
    /\ ctrl = CtrlReset
    /\ hw = HwReset
    /\ received = 0
    /\ ram = [kind |-> "data", pos |-> 0]
    /\ host = HostIdle
    /\ log = LogReset

St == [ctrl |-> ctrl, hw |-> hw, received |-> received, ram |-> ram, log |-> log]

Becomes(s) ==
    /\ ctrl' = s.ctrl
    /\ hw' = s.hw
    /\ received' = s.received
    /\ ram' = s.ram
    /\ log' = s.log

-----------------------------------------------------------------------------
(* The endpoint driver *)

(* usb_device_endpoint_setup_buffer_job and, for endpoint 0,               *)
(* usb_device_endpoint_read_buffer_job into udd_ctrl_buffer                *)
ArmOut(s) == [s EXCEPT !.hw.armed = TRUE, !.hw.count = 0]

(* usb_device_endpoint_write_buffer_job *)
LoadIn(s, pos, length) ==
    [s EXCEPT !.hw.loaded = TRUE, !.hw.pos = pos, !.hw.length = length]

-----------------------------------------------------------------------------
(* The control endpoint of usb_device_udd.c *)

(* udd_g_ctrlreq.callback, if there is one; fresh: a new setup packet came *)
RunCallback(s, fresh) ==
    IF ~s.ctrl.callback THEN s
    ELSE [s EXCEPT
            !.log.owed = FALSE,
            !.log.twice = @ \/ ~s.log.owed,
            !.log.early = @ \/ (~s.log.shook /\ ~fresh),
            !.log.inexact =
                @ \/ (s.log.shook /\ ~s.log.cut /\ s.ctrl.size # s.log.stored)]

(* udd_ctrl_stall_data: halts IN and takes the halt off OUT *)
StallData(s) ==
    [s EXCEPT !.ctrl.state = "stall_req",
              !.hw.stallrq = (@ \cup {"in"}) \ {"out"}]

(* udd_ctrl_send_zlp_in *)
SendZlpIn(s) ==
    LoadIn(ArmOut([s EXCEPT !.ctrl.state = "wait_in_zlp"]), 0, 0)

(* udd_ctrl_in_sent, the end of the data stage *)
DataSent(s) ==
    /\ s.ctrl.size = s.ctrl.nb
    /\ s.ctrl.wLength = s.ctrl.prev + s.ctrl.nb \/ s.ctrl.short

(* udd_ctrl_in_sent *)
(* Slip: each packet starts where the previous payload ended. *)
InSentFromPrevious(s) ==
    LET remain == s.ctrl.size - s.ctrl.nb
        n == IF remain >= CtrlSize THEN CtrlSize ELSE remain
        t == [s EXCEPT !.ctrl.prev = @ + (IF remain = 0 THEN s.ctrl.nb ELSE 0)]
    IN IF DataSent(s) THEN ArmOut([t EXCEPT !.ctrl.state = "wait_out_zlp"])
       ELSE LoadIn([t EXCEPT !.ctrl.short = n < CtrlSize, !.ctrl.nb = @ + n],
                   s.ctrl.prev, n)

InSent(s) ==
    LET remain == s.ctrl.size - s.ctrl.nb
        n == IF remain >= CtrlSize THEN CtrlSize ELSE remain
        t == [s EXCEPT !.ctrl.prev = @ + (IF remain = 0 THEN s.ctrl.nb ELSE 0)]
    IN IF DataSent(s) THEN ArmOut([t EXCEPT !.ctrl.state = "wait_out_zlp"])
       ELSE LoadIn([t EXCEPT !.ctrl.short = n < CtrlSize, !.ctrl.nb = @ + n],
                   s.ctrl.nb, n)

(* The memcpy of udd_ctrl_out_received: what udd_ctrl_buffer holds. *)
Copy(s, n) ==
    IF n = 0 THEN s
    ELSE IF s.ram.kind = "data" /\ s.ram.pos = s.ctrl.nb
         THEN [s EXCEPT !.log.stored = s.ctrl.nb + n]
         ELSE [s EXCEPT !.log.foreign = TRUE]

(* udd_ctrl_out_received *)
OutReceived(s) ==
    LET room == s.ctrl.size - s.ctrl.nb
        n == IF room < s.received THEN room ELSE s.received
        t == [Copy(s, n) EXCEPT !.ctrl.nb = @ + n]
    IN IF n # CtrlSize \/ s.ctrl.wLength <= t.ctrl.prev + t.ctrl.nb
       THEN SendZlpIn([t EXCEPT !.ctrl.size = t.ctrl.nb])
       ELSE ArmOut(t)

(* udd_ctrl_underflow: an IN token met no packet *)
(* Slip: only a request that still waits for the handshake is looked at. *)
UnderflowNotOut(s) ==
    CASE s.ctrl.state = "wait_out_zlp" -> [s EXCEPT !.hw.stallrq = @ \cup {"in"}]
      [] OTHER -> s

(* Slip: extra IN tokens are stalled already in the data stage. *)
UnderflowInData(s) ==
    CASE s.ctrl.state = "data_out" -> SendZlpIn(s)
      [] s.ctrl.state \in {"data_in", "wait_out_zlp"} ->
            [s EXCEPT !.hw.stallrq = @ \cup {"in"}]
      [] OTHER -> s

Underflow(s) ==
    CASE s.ctrl.state = "data_out" -> SendZlpIn(s)
      [] s.ctrl.state = "wait_out_zlp" -> [s EXCEPT !.hw.stallrq = @ \cup {"in"}]
      [] OTHER -> s

(* udd_ctrl_overflow: an OUT packet met no bank *)
Overflow(s) ==
    CASE s.ctrl.state = "data_in" -> [s EXCEPT !.ctrl.state = "wait_out_zlp"]
      [] s.ctrl.state = "wait_in_zlp" -> [s EXCEPT !.hw.stallrq = @ \cup {"out"}]
      [] OTHER -> s

(* _usb_ep0_on_tansfer_ok *)
(* Slip: the state stays after the handshake. *)
TransferOkKeepsState(s) ==
    CASE s.ctrl.state = "data_out" -> OutReceived(s)
      [] s.ctrl.state = "data_in" -> InSent(s)
      [] OTHER -> RunCallback(s, FALSE)

TransferOk(s) ==
    CASE s.ctrl.state = "data_out" -> OutReceived(s)
      [] s.ctrl.state = "data_in" -> InSent(s)
      [] OTHER -> [RunCallback(s, FALSE) EXCEPT !.ctrl.state = "setup"]

(* udd_ctrl_fetch_ram and udc_process_setup *)
Fetch(s) ==
    LET r == s.ram.request
    IN [s EXCEPT
          !.ctrl.dir = r.dir, !.ctrl.wLength = r.wLength,
          !.ctrl.size = r.size, !.ctrl.callback = r.callback,
          !.log.owed = r.callback, !.log.shook = FALSE, !.log.stored = 0]

(* _usb_ep0_on_setup: the request before this one, if it was not finished  *)
Finish(s) ==
    IF s.ctrl.state = "setup" THEN s
    ELSE [RunCallback(s, TRUE) EXCEPT !.ctrl.state = "setup"]

(* _usb_ep0_on_setup *)
(* Slip: the callback of a request without data is run at once. *)
OnSetupAtOnce(s) ==
    LET t == Fetch(Finish(s))
        begun == [t EXCEPT !.ctrl.prev = 0, !.ctrl.nb = 0]
    IN CASE ~s.ram.request.accepted -> StallData(t)
         [] s.ram.request.accepted /\ t.ctrl.dir = "in" ->
               InSent(ArmOut([begun EXCEPT !.ctrl.state = "data_in"]))
         [] s.ram.request.accepted /\ t.ctrl.dir = "out" /\ t.ctrl.wLength = 0 ->
               SendZlpIn([RunCallback(t, FALSE) EXCEPT !.ctrl.callback = FALSE])
         [] OTHER -> ArmOut([begun EXCEPT !.ctrl.state = "data_out"])

(* Slip: the counters of the last request stay for received data. *)
OnSetupKeepsCount(s) ==
    LET t == Fetch(Finish(s))
        begun == [t EXCEPT !.ctrl.prev = 0, !.ctrl.nb = 0]
    IN CASE ~s.ram.request.accepted -> StallData(t)
         [] s.ram.request.accepted /\ t.ctrl.dir = "in" ->
               InSent(ArmOut([begun EXCEPT !.ctrl.state = "data_in"]))
         [] s.ram.request.accepted /\ t.ctrl.dir = "out" /\ t.ctrl.wLength = 0 ->
               SendZlpIn(t)
         [] OTHER -> ArmOut([t EXCEPT !.ctrl.state = "data_out"])

OnSetup(s) ==
    LET t == Fetch(Finish(s))
        begun == [t EXCEPT !.ctrl.prev = 0, !.ctrl.nb = 0]
    IN CASE ~s.ram.request.accepted -> StallData(t)
         [] s.ram.request.accepted /\ t.ctrl.dir = "in" ->
               InSent(ArmOut([begun EXCEPT !.ctrl.state = "data_in"]))
         [] s.ram.request.accepted /\ t.ctrl.dir = "out" /\ t.ctrl.wLength = 0 ->
               SendZlpIn(t)
         [] OTHER -> ArmOut([begun EXCEPT !.ctrl.state = "data_out"])

-----------------------------------------------------------------------------
(* _usb_device_interrupt_handler for endpoint 0: one flag a call *)

Pending(f) == f \in hw.flags

Raised == \E f \in Raising : Pending(f)

Cleared(f) == [St EXCEPT !.hw.flags = @ \ {f}]

(* A STALL flag is cleared first, and nothing else is done. *)
StallInterrupt ==
    /\ Raised
    /\ \E f \in {"stall1", "stall0"} :
          /\ Pending(f)
          /\ f = "stall0" => ~Pending("stall1")
          /\ \E s \in {Cleared(f)} : Becomes(s)
    /\ UNCHANGED host

NoStall == ~Pending("stall1") /\ ~Pending("stall0")

SetupInterrupt ==
    /\ NoStall
    /\ Pending("rxstp")
    /\ \E s \in {OnSetup([Cleared("rxstp") EXCEPT !.received = hw.count])} : Becomes(s)
    /\ UNCHANGED host

(* TRCPT of bank 1 before that of bank 0; only the latter sets             *)
(* received_bytes.                                                         *)
SentInterrupt ==
    /\ NoStall /\ ~Pending("rxstp")
    /\ Pending("trcpt1")
    /\ \E s \in {TransferOk(Cleared("trcpt1"))} : Becomes(s)
    /\ UNCHANGED host

ReceivedInterrupt ==
    /\ NoStall /\ ~Pending("rxstp") /\ ~Pending("trcpt1")
    /\ Pending("trcpt0")
    /\ \E s \in {TransferOk([Cleared("trcpt0") EXCEPT !.received = hw.count])} : Becomes(s)
    /\ UNCHANGED host

NoTransfer == NoStall /\ ~Pending("rxstp") /\ ~Pending("trcpt1") /\ ~Pending("trcpt0")

UnderflowInterrupt ==
    /\ NoTransfer
    /\ Pending("trfail1")
    /\ \E s \in {Underflow(Cleared("trfail1"))} : Becomes(s)
    /\ UNCHANGED host

OverflowInterrupt ==
    /\ NoTransfer /\ ~Pending("trfail1")
    /\ Pending("trfail0")
    /\ \E s \in {Overflow(Cleared("trfail0"))} : Becomes(s)
    /\ UNCHANGED host

Interrupt ==
    \/ StallInterrupt
    \/ SetupInterrupt
    \/ SentInterrupt
    \/ ReceivedInterrupt
    \/ UnderflowInterrupt
    \/ OverflowInterrupt

-----------------------------------------------------------------------------
(* The host, and what the peripheral does with its packets *)

(* A setup packet is always taken: the peripheral removes the halts, fills *)
(* bank 0 and drops what bank 1 still held for the last request.  The host *)
(* may give up a request at any point.                                     *)
HostSetup(r) ==
    /\ Legal(r)
    /\ ~Pending("rxstp")
    /\ SetupOvertakes \/ ~Raised
    /\ hw' = [hw EXCEPT !.flags = @ \cup {"rxstp"}, !.stallrq = {},
                        !.armed = FALSE, !.count = SetupSize,
                        !.loaded = FALSE, !.pos = 0, !.length = 0]
    /\ ram' = [kind |-> "setup", request |-> r]
    /\ host' = [stage |-> IF r.wLength = 0 THEN "status" ELSE "data",
                dir |-> r.dir, wLength |-> r.wLength, got |-> 0]
    /\ log' = [log EXCEPT !.cut = FALSE]
    /\ UNCHANGED <<ctrl, received>>

StatusIn == host.dir = "out" \/ host.wLength = 0

SendsIn == \/ host.stage = "data" /\ host.dir = "in"
           \/ host.stage = "status" /\ StatusIn

SendsOut == \/ host.stage = "data" /\ host.dir = "out"
            \/ host.stage = "status" /\ ~StatusIn

Raise(h, f) == [h EXCEPT !.flags = @ \cup {f}]

(* A halted direction answers STALL, which ends the request.               *)
HostStalled(dir, f) ==
    /\ dir \in hw.stallrq
    /\ hw' = Raise(hw, f)
    /\ host' = HostIdle
    /\ log' = IF ctrl.state = "stall_req" THEN log
              ELSE [log EXCEPT !.spurned = @ \cup
                      {IF ctrl.dir = "in" /\ ctrl.size = 0 THEN "empty" ELSE "other"}]
    /\ UNCHANGED <<ctrl, received, ram>>

(* No packet or no room: NAK, and the error flow flag.                     *)
HostNaked(dir, ready, f) ==
    /\ dir \notin hw.stallrq
    /\ ~ready
    /\ hw' = Raise(hw, f)
    /\ UNCHANGED <<ctrl, received, ram, host, log>>

(* The packet of bank 1; a short one, or the last byte asked for, ends the *)
(* data stage.                                                             *)
HostTakes ==
    LET got == host.got + hw.length
        last == hw.length < CtrlSize \/ got >= host.wLength
    IN /\ "in" \notin hw.stallrq
       /\ hw.loaded
       /\ hw' = [Raise(hw, "trcpt1") EXCEPT !.loaded = FALSE, !.pos = 0, !.length = 0]
       /\ IF host.stage = "status"
          THEN /\ host' = HostIdle
               /\ log' = [log EXCEPT !.shook = TRUE]
          ELSE /\ host' = [host EXCEPT !.got = got,
                                       !.stage = IF last THEN "status" ELSE "data"]
               /\ log' = [log EXCEPT !.inexact =
                            @ \/ (hw.length > 0 /\ hw.pos # host.got)
                              \/ (last /\ got # ctrl.size)]
       /\ UNCHANGED <<ctrl, received, ram>>

(* A packet into bank 0, empty in the status stage.                        *)
HostGives ==
    LET left == host.wLength - host.got
        n == IF host.stage = "status" THEN 0 ELSE IF left < CtrlSize THEN left ELSE CtrlSize
    IN /\ "out" \notin hw.stallrq
       /\ hw.armed
       /\ hw' = [Raise(hw, "trcpt0") EXCEPT !.armed = FALSE, !.count = n]
       /\ ram' = IF n = 0 THEN ram ELSE [kind |-> "data", pos |-> host.got]
       /\ IF host.stage = "status"
          THEN /\ host' = HostIdle
               /\ log' = [log EXCEPT !.shook = TRUE]
          ELSE /\ host' = [host EXCEPT !.got = @ + n,
                                       !.stage = IF n = left THEN "status" ELSE "data"]
               /\ UNCHANGED log
       /\ UNCHANGED <<ctrl, received>>

HostIn ==
    /\ SendsIn
    /\ HostStalled("in", "stall1") \/ HostNaked("in", hw.loaded, "trfail1") \/ HostTakes

HostOut ==
    /\ SendsOut
    /\ HostStalled("out", "stall0") \/ HostNaked("out", hw.armed, "trfail0") \/ HostGives

(* The host goes to the status stage before the data is complete. *)
HostCuts ==
    /\ host.stage = "data"
    /\ host' = [host EXCEPT !.stage = "status"]
    /\ log' = [log EXCEPT !.cut = TRUE]
    /\ UNCHANGED <<ctrl, hw, received, ram>>

(* _usb_on_bus_reset, udd_ctrl_ep_enable: the request is forgotten.        *)
BusReset ==
    /\ hw' = HwReset
    /\ ctrl' = [ctrl EXCEPT !.state = "setup"]
    /\ host' = HostIdle
    /\ log' = [log EXCEPT !.owed = FALSE]
    /\ UNCHANGED <<received, ram>>
-----------------------------------------------------------------------------
(* Specification *)

Next ==
    \/ Interrupt
    \/ HostIn
    \/ HostOut
    \/ HostCuts
    \/ \E r \in Requests : HostSetup(r)
    \/ BusReset

Spec == Init /\ [][Next]_vars

(* The interrupt is served, and the host repeats a token that was not      *)
(* acknowledged.  It need not send a request, cut one short or reset.      *)
FairSpec ==
    /\ Spec
    /\ WF_vars(Interrupt)
    /\ WF_vars(HostIn)
    /\ WF_vars(HostOut)

-----------------------------------------------------------------------------
(* Properties *)

(* The callback of an accepted request is called once: never twice, and    *)
(* never not at all when the next request is taken up or the endpoint      *)
(* waits for one.                                                          *)
OneCallback ==
    /\ ~log.twice
    /\ log.owed => ctrl.state # "setup"

(* A request takes effect before the host has its handshake only if the    *)
(* host gives it up for another one.                                       *)
EarlyOnlyWhenGivenUp == ~log.early

(* What the host takes in a data stage is the payload in order and, unless *)
(* it ends the stage itself, all of it, full packets ended by an empty one *)
(* included; and a callback after the handshake finds in payload_size the  *)
(* bytes it was sent.                                                      *)
DataExact == ~log.inexact

(* The payload is only filled with the data stage's bytes, each at its     *)
(* place, never with what else was left in udd_ctrl_buffer.                *)
PayloadIsData == ~log.foreign

(* The host gets a STALL for a request the device refused or that has an   *)
(* empty answer, never for one that is being served.                       *)
StallMeansRefused == "other" \notin log.spurned

RefusedWrite == ctrl.state = "stall_req" /\ SendsOut

Taken == host.stage # "idle" /\ ~Pending("rxstp")

(* Every request the host stays with is answered: whichever of the data    *)
(* and the handshake interrupts come first, whoever ends the data stage.   *)
(* Data for a refused request is the exception, see RefusedIsStalled.      *)
Answered == Taken ~> (~Taken \/ RefusedWrite)
=============================================================================
