----------------------------- MODULE UsbDevice ------------------------------
(***************************************************************************)
(* The configured device: udc.c, which enables and disables the three      *)
(* interfaces, and their class drivers udi_cdc.c and udi_hid_generic.c     *)
(* with the callbacks of main.c, on the endpoint jobs of usb_device_udd.c. *)
(*                                                                         *)
(* Of a class driver only what it believes about its endpoints is kept:    *)
(* BridgeOut and BridgeIn have its data, UddEp the inside of a job, CtrlEp *)
(* the stages of a request, which is one step here, as is a transfer with  *)
(* its interrupt.                                                          *)
(***************************************************************************)
EXTENDS Integers, FiniteSets

CONSTANT Haltable \* bound: the endpoints the host may halt

ASSUME HaltableAssumption == Haltable \subseteq {"comm", "in", "out", "rin", "rout"}

VARIABLES
    core, \* udc.c: udc_num_configuration; address is not 0; attached
    ep,   \* the endpoints, see EpReset
    cdc,  \* udi_cdc.c, see CdcReset
    uart, \* the USART of the bridge is enabled
    hid,  \* udi_hid_generic.c and the response main.c passes on
    log   \* history, see Init

vars == <<core, ep, cdc, uart, hid, log>>

(* Interface 0 is CDC communication with endpoint 7 IN, 1 is CDC data with *)
(* 6 IN and 6 OUT, 2 is the generic HID with 5 IN and 5 OUT.               *)
Interfaces == 0 .. 2
Endpoints(i) == CASE i = 0 -> {"comm"}
                  [] i = 1 -> {"in", "out"}
                  [] i = 2 -> {"rin", "rout"}
AllEndpoints == UNION {Endpoints(i) : i \in Interfaces}
InterfaceOf(e) == CHOOSE i \in Interfaces : e \in Endpoints(i)
OutEndpoints == {"out", "rout"}

(* type: configured in EPCFG.                                              *)
EpReset == [type |-> FALSE, halted |-> FALSE, busy |-> FALSE]

(* held: a received buffer waits for the reader and reception with it.     *)
(* state, value: the overrun bit of udi_cdc_state and of the message that  *)
(* was sent last; ongoing: that message is on its way.                     *)
CdcReset == [rx |-> FALSE, tx |-> FALSE, held |-> FALSE, state |-> FALSE,
             value |-> FALSE, ongoing |-> FALSE]

(* free: udi_hid_generic_b_report_in_free.  response: one is in the cache  *)
(* of the protocol.                                                        *)
HidReset == [free |-> FALSE, on |-> FALSE, response |-> FALSE]

(* fate: how the last enable or disable of an interface ended: "off",      *)
(* "on", "failed" in its enable, "dropped" by a SET_INTERFACE to a setting *)
(* that does not exist, "skipped" as another failed before it.  halted:    *)
(* endpoints halted since their interface was enabled.  overwritten: the   *)
(* report was filled while the endpoint was sending it.                    *)
LogReset == [fate |-> [i \in Interfaces |-> "off"], halted |-> {},
             overwritten |-> FALSE]

Init ==
    /\ core = [num |-> 0, addressed |-> FALSE, attached |-> TRUE]
    /\ ep = [e \in AllEndpoints |-> EpReset]
    /\ cdc = CdcReset
    /\ uart = FALSE
    /\ hid = HidReset
    /\ log = LogReset

St == [core |-> core, ep |-> ep, cdc |-> cdc, uart |-> uart, hid |-> hid,
       log |-> log]

Becomes(s) ==
    /\ core' = s.core
    /\ ep' = s.ep
    /\ cdc' = s.cdc
    /\ uart' = s.uart
    /\ hid' = s.hid
    /\ log' = s.log

-----------------------------------------------------------------------------
(* Endpoint jobs *)

(* udd_ep_run.  On an endpoint that is not configured it fails after it    *)
(* has taken the job.                                                      *)
RunAccepted(s, e) == s.ep[e].type /\ ~s.ep[e].halted /\ ~s.ep[e].busy
EpRun(s, e) ==
    IF s.ep[e].halted \/ s.ep[e].busy THEN s
    ELSE [s EXCEPT !.ep[e].busy = TRUE]

-----------------------------------------------------------------------------
(* CDC: notifications *)

(* udi_cdc_ctrl_state_notify *)
Notify(s) ==
    IF s.cdc.ongoing \/ s.cdc.state = s.cdc.value THEN s
    ELSE [EpRun(s, "comm") EXCEPT !.cdc.value = s.cdc.state,
                                  !.cdc.ongoing = RunAccepted(s, "comm")]

(* udi_cdc_signal_overrun: udi_cdc_ctrl_state_change *)
SignalOverrun(s) == Notify([s EXCEPT !.cdc.state = TRUE])

(* udi_cdc_serial_state_msg_sent, whether sent or aborted *)
(* Slip: the bit stays in the message that was sent. *)
MsgSentKeepsValue(s) ==
    Notify([s EXCEPT !.cdc.ongoing = FALSE, !.cdc.state = FALSE])
MsgSent(s) ==
    Notify([s EXCEPT !.cdc.ongoing = FALSE, !.cdc.state = FALSE,
                     !.cdc.value = FALSE])

-----------------------------------------------------------------------------
(* CDC: data.  go: there is something to send and the frame allows it.     *)

(* udi_cdc_tx_send; the result of udd_ep_run is not looked at.             *)
TxSend(s, go) ==
    IF s.cdc.tx \/ ~go THEN s
    ELSE [EpRun(s, "in") EXCEPT !.cdc.tx = TRUE]

(* udi_cdc_rx_start on a buffer that was read *)
RxStart(s) ==
    IF s.cdc.rx THEN s ELSE [EpRun(s, "out") EXCEPT !.cdc.rx = TRUE]

-----------------------------------------------------------------------------
(* HID reports *)

(* udi_hid_generic_send_report_in *)
FillReport(s) == [s EXCEPT !.log.overwritten = @ \/ s.ep["rin"].busy]

(* Slip: the report is filled before the last one is known to be sent. *)
SendReportEarly(s) ==
    IF ~s.hid.free THEN FillReport(s)
    ELSE [EpRun(FillReport(s), "rin") EXCEPT !.hid.free = ~RunAccepted(s, "rin")]
SendReport(s) ==
    IF ~s.hid.free THEN s
    ELSE [EpRun(FillReport(s), "rin") EXCEPT !.hid.free = ~RunAccepted(s, "rin")]

(* main_generic_sof: the response is cleared, sent or not.                 *)
ReportPump(s) ==
    IF ~s.hid.response THEN s
    ELSE [SendReport(s) EXCEPT !.hid.response = FALSE]

-----------------------------------------------------------------------------
(* Endpoint operations that reach the class drivers *)

(* The callbacks of an aborted transfer: only notification and report in   *)
(* look at it.                                                             *)
Aborted(s, e) ==
    CASE e = "comm" -> MsgSent(s)
      [] e = "rin" -> [s EXCEPT !.hid.free = TRUE]
      [] OTHER -> s

(* udd_ep_abort *)
EpAbort(s, e) ==
    IF ~s.ep[e].busy THEN s ELSE Aborted([s EXCEPT !.ep[e].busy = FALSE], e)

(* udd_ep_free; the configuration register is shared by both directions.   *)
(* Slip: an endpoint already gone from the register is left alone. *)
EpFreeConfigured(s, e) ==
    LET t == IF s.ep[e].type THEN EpAbort(s, e) ELSE s IN
    [t EXCEPT !.ep = [f \in AllEndpoints |->
        IF f \in Endpoints(InterfaceOf(e)) THEN [t.ep[f] EXCEPT !.type = FALSE]
        ELSE t.ep[f]]]
EpFree(s, e) ==
    LET t == EpAbort(s, e) IN
    [t EXCEPT !.ep = [f \in AllEndpoints |->
        IF f \in Endpoints(InterfaceOf(e)) THEN [t.ep[f] EXCEPT !.type = FALSE]
        ELSE t.ep[f]]]

(* udd_ep_alloc; an endpoint is always free before.                        *)
EpAlloc(s, i) ==
    [s EXCEPT !.ep = [e \in AllEndpoints |->
        IF e \in Endpoints(i) THEN [s.ep[e] EXCEPT !.type = TRUE] ELSE s.ep[e]]]

-----------------------------------------------------------------------------
(* Enable and disable of the class drivers *)

(* The counters of enabled interfaces are only read by the assertions of   *)
(* udi_cdc_comm_disable and udi_cdc_data_disable.                          *)

(* udi_cdc_comm_enable, with uart_config and main_cdc_enable *)
CommEnable(s) ==
    [s EXCEPT !.cdc.state = FALSE, !.cdc.value = FALSE, !.uart = TRUE]

(* udi_cdc_data_enable *)
(* Slip: what the last session left in the flags is kept. *)
DataEnableKeepsFlags(s, go) == RxStart(TxSend([s EXCEPT !.cdc.held = FALSE], go))
DataEnable(s, go) ==
    RxStart(TxSend([s EXCEPT !.cdc.tx = FALSE, !.cdc.rx = FALSE,
                             !.cdc.held = FALSE], go))

(* udi_hid_generic_enable, with main_generic_enable *)
GenericEnable(s) ==
    LET t == [EpRun(s, "rout") EXCEPT !.hid.free = TRUE] IN
    IF ~RunAccepted(s, "rout") THEN t
    ELSE [t EXCEPT !.hid.on = TRUE, !.hid.response = FALSE]

(* The enable of interface i: comm always succeeds, the others need their  *)
(* OUT endpoint.                                                           *)
EnableSucceeds(s, i) == \A e \in Endpoints(i) \cap OutEndpoints : RunAccepted(s, e)

Enable(s, i, go) ==
    LET t == CASE i = 0 -> CommEnable(s)
               [] i = 1 -> DataEnable(s, go)
               [] i = 2 -> GenericEnable(s)
        halted == {e \in Endpoints(i) : s.ep[e].halted}
    IN [t EXCEPT !.log.fate[i] = IF EnableSucceeds(s, i) THEN "on" ELSE "failed",
                 !.log.halted = (@ \ Endpoints(i)) \cup halted]

(* udi_cdc_comm_disable, udi_cdc_data_disable with main_cdc_disable,       *)
(* udi_hid_generic_disable with main_generic_disable                       *)
Disable(s, i) ==
    LET t == CASE i = 0 -> s
               [] i = 1 -> [s EXCEPT !.uart = FALSE]
               [] i = 2 -> [s EXCEPT !.hid.on = FALSE]
    IN [t EXCEPT !.log.fate[i] = "off"]

-----------------------------------------------------------------------------
(* udc.c *)

(* udc_iface_disable *)
IfaceDisable(s, i) ==
    Disable(CASE i = 0 -> EpFree(s, "comm")
              [] i = 1 -> EpFree(EpFree(s, "in"), "out")
              [] i = 2 -> EpFree(EpFree(s, "rin"), "rout"), i)

(* udc_iface_enable of an alternate setting that exists *)
IfaceEnable(s, i, go) == Enable(EpAlloc(s, i), i, go)

(* udc_reset *)
(* Slip: the number is cleared first, and udc_iface_disable finds no       *)
(* configuration.                                                          *)
UdcResetEarly(s) == [s EXCEPT !.core.num = 0]
UdcReset(s) ==
    IF s.core.num = 0 THEN s
    ELSE [IfaceDisable(IfaceDisable(IfaceDisable(s, 0), 1), 2)
            EXCEPT !.core.num = 0]

(* The loop of udc_req_std_dev_set_configuration: it ends at the first     *)
(* interface that fails; the first one cannot.                             *)
EnableAll(s, go) ==
    LET one == IfaceEnable(IfaceEnable(s, 0, go), 1, go) IN
    IF one.log.fate[1] = "on" THEN IfaceEnable(one, 2, go)
    ELSE [one EXCEPT !.log.fate[2] = "skipped"]

-----------------------------------------------------------------------------
(* Requests *)

(* udc_valid_address; the host gives no address 0 *)
SetAddress ==
    /\ core.attached
    /\ core' = [core EXCEPT !.addressed = TRUE]
    /\ UNCHANGED <<ep, cdc, uart, hid, log>>

SetConfiguration(num) ==
    /\ core.attached /\ core.addressed
    /\ \E go \in BOOLEAN :
          LET s == UdcReset(St) IN
          Becomes(IF num = 0 THEN s
                  ELSE EnableAll([s EXCEPT !.core.num = num], go))

(* udc_req_std_iface_set_setting: only setting 0 exists, and that is found *)
(* out after the interface was disabled.                                   *)
SetInterface(i, setting) ==
    /\ core.attached /\ core.num # 0
    /\ \E go \in BOOLEAN :
          LET s == IfaceDisable(St, i) IN
          Becomes(IF setting # 0 THEN [s EXCEPT !.log.fate[i] = "dropped"]
                  ELSE IfaceEnable(s, i, go))

(* SET_FEATURE(ENDPOINT_HALT): udd_ep_abort and udd_ep_set_halt            *)
SetHalt(e) ==
    /\ core.attached
    /\ LET s == EpAbort(St, e)
       IN Becomes(EpAbort([s EXCEPT !.ep[e].halted = TRUE,
                                    !.log.halted = @ \cup {e}], e))

(* CLEAR_FEATURE(ENDPOINT_HALT) of a halted endpoint: a halted one has no  *)
(* job.                                                                    *)
ClearHalt(e) ==
    /\ core.attached
    /\ ep[e].halted
    /\ ep' = [ep EXCEPT ![e].halted = FALSE]
    /\ UNCHANGED <<core, cdc, uart, hid, log>>

(* SET_LINE_CODING: uart_config enables the USART, also when the interface *)
(* is disabled.                                                            *)
LineCodingReceived ==
    /\ core.attached /\ core.num # 0
    /\ uart' = TRUE
    /\ UNCHANGED <<core, ep, cdc, hid, log>>

(* SET_REPORT of the feature: main_hid_set_feature compares one byte more  *)
(* than the report has.  If it happens to match, udc_stop detaches.        *)
SetFeature ==
    /\ core.attached /\ core.num # 0
    /\ Becomes([UdcReset(St) EXCEPT !.core.attached = FALSE])

(* _usb_on_bus_reset; the peripheral has reset its endpoints before.       *)
BusReset ==
    /\ core.attached
    /\ LET cleared == [St EXCEPT !.ep = [e \in AllEndpoints |->
                         [ep[e] EXCEPT !.type = FALSE, !.halted = FALSE]]]
       IN Becomes([UdcReset(cleared) EXCEPT !.core.addressed = FALSE])

-----------------------------------------------------------------------------
(* Transfers *)

(* The host takes or sends the packets of a transfer, up to its interrupt. *)
Transfers(e) == core.attached /\ ep[e].type /\ ep[e].busy /\ ~ep[e].halted
Completed(e) == [St EXCEPT !.ep[e].busy = FALSE]

NotificationSent ==
    /\ Transfers("comm")
    /\ Becomes(MsgSent(Completed("comm")))

(* udi_cdc_data_sent *)
DataSent ==
    /\ Transfers("in")
    /\ \E go \in BOOLEAN :
          Becomes(TxSend([Completed("in") EXCEPT !.cdc.tx = FALSE], go))

(* udi_cdc_data_received: an empty transfer is run again; after another    *)
(* one the next starts if the reader has finished the other buffer.        *)
DataReceived ==
    /\ Transfers("out")
    /\ LET s == Completed("out") IN
       \/ Becomes(EpRun(s, "out"))
       \/ Becomes(RxStart([s EXCEPT !.cdc.rx = FALSE]))
       \/ Becomes([s EXCEPT !.cdc.rx = FALSE, !.cdc.held = TRUE])

(* udi_cdc_getc in the USART's handler, at the end of a buffer *)
BufferRead ==
    /\ uart
    /\ cdc.held
    /\ Becomes(RxStart([St EXCEPT !.cdc.held = FALSE]))

(* usart_rx_callback finds no room *)
Overrun ==
    /\ uart
    /\ Becomes(SignalOverrun(St))

(* udi_hid_generic_report_in_sent *)
ReportInSent ==
    /\ Transfers("rin")
    /\ Becomes([Completed("rin") EXCEPT !.hid.free = TRUE])

(* udi_hid_generic_report_out_received; main_generic_reportout hands the   *)
(* report to the protocol, which may answer.                               *)
ReportOutReceived ==
    /\ Transfers("rout")
    /\ LET s == EpRun(Completed("rout"), "rout") IN
       \/ Becomes(s)
       \/ Becomes([s EXCEPT !.hid.response = TRUE])

(* udc_sof_notify: every interface of the configuration, enabled or not    *)
SofInterrupt ==
    /\ core.attached /\ core.num # 0
    /\ \E go \in BOOLEAN : Becomes(ReportPump(TxSend(St, go)))

-----------------------------------------------------------------------------
(* Specification *)

Next ==
    \/ SetAddress
    \/ \E num \in {0, 1} : SetConfiguration(num)
    \/ \E i \in Interfaces, setting \in {0, 1} : SetInterface(i, setting)
    \/ \E e \in Haltable : SetHalt(e) \/ ClearHalt(e)
    \/ LineCodingReceived
    \/ SetFeature
    \/ BusReset
    \/ NotificationSent
    \/ DataSent
    \/ DataReceived
    \/ BufferRead
    \/ Overrun
    \/ ReportInSent
    \/ ReportOutReceived
    \/ SofInterrupt

Spec == Init /\ [][Next]_vars

-----------------------------------------------------------------------------
(* Properties *)

Enabled(i) == log.fate[i] = "on"
InUse(e) == Enabled(InterfaceOf(e)) /\ e \notin log.halted

(* What a class driver believes about its endpoint is so: it waits for a   *)
(* callback exactly while a transfer runs that will call it, whatever      *)
(* requests disabled, enabled or aborted it before.  After a halt it is    *)
(* not so: the drivers are never told that the halt was cleared.           *)
FlagsMatchJobs ==
    /\ InUse("comm") => cdc.ongoing = ep["comm"].busy
    /\ InUse("in") => cdc.tx = ep["in"].busy
    /\ InUse("out") => cdc.rx = ep["out"].busy /\ (cdc.rx \/ cdc.held)
    /\ InUse("rin") => hid.free = ~ep["rin"].busy
    /\ InUse("rout") => ep["rout"].busy

(* An overrun is on its way to the host until the message was sent: one    *)
(* that comes while a message is on its way is in that message.            *)
OverrunReported ==
    InUse("comm") /\ cdc.state => cdc.ongoing /\ cdc.value

(* Without a configuration nothing runs, and an interface that was enabled *)
(* and not disabled has its endpoints, whatever failed before.             *)
EnabledAsConfigured ==
    /\ core.num = 0 =>
         /\ \A i \in Interfaces : log.fate[i] = "off"
         /\ \A e \in AllEndpoints : ~ep[e].type /\ ~ep[e].busy
         /\ ~uart /\ ~hid.on
    /\ \A i \in Interfaces : Enabled(i) => \A e \in Endpoints(i) : ep[e].type

(* An interface fails to be enabled only when the host halted its OUT      *)
(* endpoint: no call that failed before leaves a job or an endpoint taken. *)
FailsOnlyForHalt ==
    \A i \in Interfaces :
        log.fate[i] = "failed" => Endpoints(i) \cap OutEndpoints \cap log.halted # {}

(* The host gets each report as it was given to the endpoint, not what a   *)
(* later response left in the buffer.                                      *)
ReportIntact == ~log.overwritten
=============================================================================
