-------------------------- MODULE UsbDevice_proofs --------------------------
(***************************************************************************)
(* Proofs about UsbDevice, for any set of endpoints the host may halt:     *)
(* what the class drivers believe about their endpoints is so, whatever    *)
(* requests enabled, disabled or failed before.                            *)
(***************************************************************************)
EXTENDS UsbDevice, TLAPS

Five == {"comm", "in", "out", "rin", "rout"}

Ep == [type : BOOLEAN, halted : BOOLEAN, busy : BOOLEAN]

Core == [num : {0, 1}, addressed : BOOLEAN, attached : BOOLEAN]

Cdc == [rx : BOOLEAN, tx : BOOLEAN, held : BOOLEAN, state : BOOLEAN,
        value : BOOLEAN, ongoing : BOOLEAN]

Hid == [free : BOOLEAN, on : BOOLEAN, response : BOOLEAN]

Fates == {"off", "on", "failed", "dropped", "skipped"}

Log == [fate : [Interfaces -> Fates], halted : SUBSET Five, overwritten : BOOLEAN]

States == [core : Core, ep : [Five -> Ep], cdc : Cdc, uart : BOOLEAN, hid : Hid,
           log : Log]

-----------------------------------------------------------------------------
(* The inductive invariant *)

On(s, i) == s.log.fate[i] = "on"
Works(s, i, e) == On(s, i) /\ e \notin s.log.halted

(* A halted endpoint has no job, and the history knows of the halt. *)
HaltInv(s, e) == s.ep[e].halted => e \in s.log.halted /\ ~s.ep[e].busy

(* A message on its way has the bit; one is only believed to be on its way *)
(* while there is a job for it, and there is no other job.                 *)
MessageInv(s) ==
    /\ HaltInv(s, "comm")
    /\ s.cdc.ongoing => s.ep["comm"].busy /\ s.cdc.value
    /\ s.cdc.value => s.cdc.state
    /\ s.log.fate[0] # "failed"

CommInv(s) ==
    /\ MessageInv(s)
    /\ s.ep["comm"].type /\ s.ep["comm"].busy => s.cdc.ongoing
    /\ On(s, 0) => s.ep["comm"].type
    /\ Works(s, 0, "comm") /\ s.cdc.state => s.cdc.ongoing

(* All but that reception goes on *)
FlagInv(s) ==
    /\ HaltInv(s, "in") /\ HaltInv(s, "out")
    /\ On(s, 1) => s.ep["in"].type /\ s.ep["out"].type
    /\ Works(s, 1, "in") => s.cdc.tx = s.ep["in"].busy
    /\ Works(s, 1, "out") => s.cdc.rx = s.ep["out"].busy
    /\ s.log.fate[1] = "failed" => "out" \in s.log.halted

DataInv(s) == FlagInv(s) /\ (Works(s, 1, "out") => s.cdc.rx \/ s.cdc.held)

(* A report endpoint that is not configured may take a job and be thought  *)
(* free, but then no response is left that would fill the report again.    *)
ReportInv(s) ==
    /\ HaltInv(s, "rin") /\ HaltInv(s, "rout")
    /\ s.ep["rin"].type = s.ep["rout"].type
    /\ On(s, 2) => s.ep["rin"].type
    /\ s.hid.free /\ s.ep["rin"].busy => ~s.ep["rin"].type /\ ~s.hid.response
    /\ Works(s, 2, "rin") => s.hid.free = ~s.ep["rin"].busy
    /\ Works(s, 2, "rout") => s.ep["rout"].busy
    /\ s.log.fate[2] = "failed" => "rout" \in s.log.halted
    /\ ~s.log.overwritten

(* Without a configuration nothing runs. *)
AllOff(s) ==
    /\ \A i \in Interfaces : s.log.fate[i] = "off"
    /\ \A e \in Five : ~s.ep[e].type /\ ~s.ep[e].busy
    /\ ~s.uart /\ ~s.hid.on

OffInv(s) == s.core.num = 0 => AllOff(s)

DeviceInv(s) == s \in States /\ CommInv(s) /\ DataInv(s) /\ ReportInv(s) /\ OffInv(s)

IInv == DeviceInv(St)

(* What holds also in the middle of a reset of the device *)
LooseInv(s) ==
    /\ s \in States
    /\ \A e \in Five : HaltInv(s, e)
    /\ MessageInv(s)
    /\ ~s.log.overwritten

-----------------------------------------------------------------------------
(* What a step leaves alone of each interface *)

CommSame(s, t) ==
    /\ t.ep["comm"] = s.ep["comm"]
    /\ t.cdc.ongoing = s.cdc.ongoing /\ t.cdc.state = s.cdc.state
    /\ t.cdc.value = s.cdc.value
    /\ t.log.fate[0] = s.log.fate[0]
    /\ "comm" \in t.log.halted <=> "comm" \in s.log.halted

DataSame(s, t) ==
    /\ t.ep["in"] = s.ep["in"] /\ t.ep["out"] = s.ep["out"]
    /\ t.cdc.tx = s.cdc.tx /\ t.cdc.rx = s.cdc.rx /\ t.cdc.held = s.cdc.held
    /\ t.log.fate[1] = s.log.fate[1]
    /\ "in" \in t.log.halted <=> "in" \in s.log.halted
    /\ "out" \in t.log.halted <=> "out" \in s.log.halted

ReportSame(s, t) ==
    /\ t.ep["rin"] = s.ep["rin"] /\ t.ep["rout"] = s.ep["rout"]
    /\ t.hid.free = s.hid.free /\ t.hid.response = s.hid.response
    /\ t.log.fate[2] = s.log.fate[2]
    /\ "rin" \in t.log.halted <=> "rin" \in s.log.halted
    /\ "rout" \in t.log.halted <=> "rout" \in s.log.halted
    /\ t.log.overwritten = s.log.overwritten

CoreSame(s, t) == t.core = s.core /\ t.uart = s.uart /\ t.hid.on = s.hid.on

LEMMA SameTwice ==
    ASSUME NEW s, NEW t, NEW u
    PROVE  /\ CommSame(s, t) /\ CommSame(t, u) => CommSame(s, u)
           /\ DataSame(s, t) /\ DataSame(t, u) => DataSame(s, u)
           /\ ReportSame(s, t) /\ ReportSame(t, u) => ReportSame(s, u)
BY DEF CommSame, DataSame, ReportSame

LEMMA CommFrame ==
    ASSUME NEW s, NEW t, CommSame(s, t), CommInv(s)
    PROVE  CommInv(t)
BY DEF CommSame, CommInv, MessageInv, HaltInv, On, Works

LEMMA MessageFrame ==
    ASSUME NEW s, NEW t, CommSame(s, t), MessageInv(s)
    PROVE  MessageInv(t)
BY DEF CommSame, MessageInv, HaltInv

LEMMA DataFrame ==
    ASSUME NEW s, NEW t, DataSame(s, t), DataInv(s)
    PROVE  DataInv(t)
BY DEF DataSame, DataInv, FlagInv, HaltInv, On, Works

LEMMA ReportFrame ==
    ASSUME NEW s, NEW t, ReportSame(s, t), ReportInv(s)
    PROVE  ReportInv(t)
BY DEF ReportSame, ReportInv, HaltInv, On, Works

-----------------------------------------------------------------------------
(* Endpoints *)

LEMMA EndpointFacts ==
    /\ Interfaces = {0, 1, 2}
    /\ Endpoints(0) = {"comm"} /\ Endpoints(1) = {"in", "out"}
    /\ Endpoints(2) = {"rin", "rout"}
    /\ AllEndpoints = Five
    /\ InterfaceOf("comm") = 0
    /\ InterfaceOf("in") = 1 /\ InterfaceOf("out") = 1
    /\ InterfaceOf("rin") = 2 /\ InterfaceOf("rout") = 2
<1>1. Interfaces = {0, 1, 2}
  BY DEF Interfaces
<1>2. /\ Endpoints(0) = {"comm"} /\ Endpoints(1) = {"in", "out"}
      /\ Endpoints(2) = {"rin", "rout"}
  BY DEF Endpoints
<1>3. AllEndpoints = Endpoints(0) \cup Endpoints(1) \cup Endpoints(2)
  BY <1>1 DEF AllEndpoints
<1>4. ASSUME NEW i \in Interfaces, NEW e \in Endpoints(i)
      PROVE  InterfaceOf(e) = i
  <2>1. \A j \in Interfaces : e \in Endpoints(j) => j = i
    BY <1>1, <1>2, <1>4
  <2> QED
    BY <1>4, <2>1 DEF InterfaceOf
<1>5. /\ InterfaceOf("comm") = 0
      /\ InterfaceOf("in") = 1 /\ InterfaceOf("out") = 1
      /\ InterfaceOf("rin") = 2 /\ InterfaceOf("rout") = 2
  BY <1>1, <1>2, <1>4
<1> QED
  BY <1>1, <1>2, <1>3, <1>5 DEF Five

LEMMA EpRunResult ==
    ASSUME NEW s \in States, NEW e \in Five
    PROVE  /\ EpRun(s, e) \in States
           /\ EpRun(s, e).core = s.core /\ EpRun(s, e).cdc = s.cdc
           /\ EpRun(s, e).uart = s.uart /\ EpRun(s, e).hid = s.hid
           /\ EpRun(s, e).log = s.log
           /\ \A f \in Five \ {e} : EpRun(s, e).ep[f] = s.ep[f]
           /\ EpRun(s, e).ep[e].type = s.ep[e].type
           /\ EpRun(s, e).ep[e].halted = s.ep[e].halted
           /\ EpRun(s, e).ep[e].busy = (s.ep[e].busy \/ ~s.ep[e].halted)
<1>1. s.ep \in [Five -> Ep] /\ s.ep[e] \in Ep
  BY DEF States
<1>2. CASE s.ep[e].halted \/ s.ep[e].busy
  <2>1. EpRun(s, e) = s
    BY <1>2 DEF EpRun
  <2>2. s.ep[e].busy = (s.ep[e].busy \/ ~s.ep[e].halted)
    BY <1>1, <1>2 DEF Ep
  <2> QED
    BY <2>1, <2>2
<1>3. CASE ~(s.ep[e].halted \/ s.ep[e].busy)
  <2> DEFINE b == [s.ep[e] EXCEPT !.busy = TRUE]
  <2>1. b \in Ep /\ b.type = s.ep[e].type /\ b.halted = s.ep[e].halted /\ b.busy = TRUE
    BY <1>1 DEF Ep
  <2>2. EpRun(s, e) = [s EXCEPT !.ep = [s.ep EXCEPT ![e] = b]]
    BY <1>3 DEF EpRun
  <2> HIDE DEF b
  <2>3. [s.ep EXCEPT ![e] = b] \in [Five -> Ep]
    BY <1>1, <2>1
  <2>4. EpRun(s, e) \in States /\ EpRun(s, e).ep = [s.ep EXCEPT ![e] = b]
    BY <2>2, <2>3 DEF States
  <2>5. /\ EpRun(s, e).core = s.core /\ EpRun(s, e).cdc = s.cdc
        /\ EpRun(s, e).uart = s.uart /\ EpRun(s, e).hid = s.hid
        /\ EpRun(s, e).log = s.log
    BY <2>2 DEF States
  <2>6. EpRun(s, e).ep[e] = b /\ \A f \in Five \ {e} : EpRun(s, e).ep[f] = s.ep[f]
    BY <1>1, <2>4
  <2> QED
    BY <1>3, <2>1, <2>4, <2>5, <2>6
<1> QED
  BY <1>2, <1>3
LEMMA FieldTypes ==
    ASSUME NEW s \in States
    PROVE  /\ s.core \in Core /\ s.cdc \in Cdc /\ s.hid \in Hid /\ s.log \in Log
           /\ s.uart \in BOOLEAN /\ s.ep \in [Five -> Ep]
           /\ s.log.fate \in [Interfaces -> Fates]
           /\ \A e \in Five : s.ep[e] \in Ep
BY DEF States, Log

-----------------------------------------------------------------------------
(* CDC: notifications *)

LEMMA MsgSentResult ==
    ASSUME NEW s \in States
    PROVE  /\ MsgSent(s) \in States
           /\ MsgSent(s).core = s.core /\ MsgSent(s).ep = s.ep
           /\ MsgSent(s).uart = s.uart /\ MsgSent(s).hid = s.hid
           /\ MsgSent(s).log = s.log
           /\ MsgSent(s).cdc = [s.cdc EXCEPT !.ongoing = FALSE, !.state = FALSE,
                                             !.value = FALSE]
<1> DEFINE c == [s.cdc EXCEPT !.ongoing = FALSE, !.state = FALSE, !.value = FALSE]
           t == [s EXCEPT !.cdc = c]
<1>1. c \in Cdc /\ c.ongoing = FALSE /\ c.state = FALSE /\ c.value = FALSE
  BY FieldTypes DEF Cdc
<1>2. t = [s EXCEPT !.cdc.ongoing = FALSE, !.cdc.state = FALSE, !.cdc.value = FALSE]
  BY DEF States, Cdc
<1> HIDE DEF c
<1>3. /\ t \in States /\ t.cdc = c /\ t.core = s.core /\ t.ep = s.ep
      /\ t.uart = s.uart /\ t.hid = s.hid /\ t.log = s.log
  BY <1>1 DEF States
<1>4. MsgSent(s) = Notify(t)
  BY <1>2 DEF MsgSent
<1> HIDE DEF t
<1>5. Notify(t) = t
  BY <1>1, <1>3 DEF Notify
<1> QED
  BY <1>3, <1>4, <1>5 DEF c

LEMMA MsgSentKeeps ==
    ASSUME NEW s \in States
    PROVE  /\ DataSame(s, MsgSent(s)) /\ ReportSame(s, MsgSent(s))
           /\ CoreSame(s, MsgSent(s))
           /\ ~MsgSent(s).cdc.ongoing /\ ~MsgSent(s).cdc.state /\ ~MsgSent(s).cdc.value
<1>1. s.cdc \in Cdc
  BY FieldTypes
<1> QED
  BY <1>1, MsgSentResult DEF DataSame, ReportSame, CoreSame, Cdc

LEMMA SignalOverrunKeeps ==
    ASSUME NEW s \in States, CommInv(s)
    PROVE  /\ SignalOverrun(s) \in States
           /\ CommInv(SignalOverrun(s))
           /\ DataSame(s, SignalOverrun(s)) /\ ReportSame(s, SignalOverrun(s))
           /\ CoreSame(s, SignalOverrun(s))
<1> DEFINE c == [s.cdc EXCEPT !.state = TRUE]
           t == [s EXCEPT !.cdc = c]
           r == EpRun(t, "comm")
           u == SignalOverrun(s)
<1>1. s.cdc \in Cdc /\ s.ep["comm"] \in Ep
  BY FieldTypes DEF Five
<1>2. /\ c \in Cdc /\ c.state = TRUE /\ c.ongoing = s.cdc.ongoing /\ c.value = s.cdc.value
      /\ c.tx = s.cdc.tx /\ c.rx = s.cdc.rx /\ c.held = s.cdc.held
  BY <1>1 DEF Cdc
<1>3. t = [s EXCEPT !.cdc.state = TRUE]
  BY DEF States, Cdc
<1> HIDE DEF c
<1>4. /\ t \in States /\ t.cdc = c /\ t.core = s.core /\ t.ep = s.ep
      /\ t.uart = s.uart /\ t.hid = s.hid /\ t.log = s.log
  BY <1>2 DEF States
<1>5. u = Notify(t)
  BY <1>3 DEF SignalOverrun
<1> HIDE DEF t
<1>6. CASE c.ongoing \/ c.value
  <2>1. u = t
    BY <1>2, <1>4, <1>5, <1>6 DEF Notify, Cdc
  <2> QED
    BY <1>2, <1>4, <1>6, <2>1
       DEF CommInv, MessageInv, HaltInv, On, Works, DataSame, ReportSame, CoreSame
<1>7. CASE ~c.ongoing /\ ~c.value
  <2> DEFINE ok == RunAccepted(t, "comm")
             d == [c EXCEPT !.value = TRUE, !.ongoing = ok]
  <2>1. /\ r \in States /\ r.cdc = c /\ r.core = s.core /\ r.uart = s.uart
        /\ r.hid = s.hid /\ r.log = s.log
        /\ \A f \in Five \ {"comm"} : r.ep[f] = s.ep[f]
        /\ r.ep["comm"].type = s.ep["comm"].type
        /\ r.ep["comm"].halted = s.ep["comm"].halted
        /\ r.ep["comm"].busy = (s.ep["comm"].busy \/ ~s.ep["comm"].halted)
    BY <1>4, EpRunResult DEF Five
  <2>2. ok \in BOOLEAN
    BY DEF RunAccepted
  <2>3. /\ d \in Cdc /\ d.value = TRUE /\ d.ongoing = ok /\ d.state = TRUE
        /\ d.tx = s.cdc.tx /\ d.rx = s.cdc.rx /\ d.held = s.cdc.held
    <3> HIDE DEF ok
    <3> QED
      BY <1>2, <2>2 DEF Cdc
  <2>4. u = [r EXCEPT !.cdc = d]
    <3>1. u = [r EXCEPT !.cdc.value = c.state, !.cdc.ongoing = ok]
      BY <1>2, <1>4, <1>5, <1>7 DEF Notify, Cdc
    <3> HIDE DEF ok, r
    <3> QED
      BY <1>2, <2>1, <3>1 DEF States, Cdc
  <2>5. ok <=> s.ep["comm"].type /\ ~s.ep["comm"].halted /\ ~s.ep["comm"].busy
    BY <1>4 DEF RunAccepted
  <2> HIDE DEF d, r, ok
  <2>6. /\ u \in States /\ u.cdc = d /\ u.core = s.core /\ u.uart = s.uart
        /\ u.hid = s.hid /\ u.log = s.log /\ u.ep = r.ep
    BY <2>1, <2>3, <2>4 DEF States
  <2>7. DataSame(s, u) /\ ReportSame(s, u) /\ CoreSame(s, u)
    BY <2>1, <2>3, <2>6 DEF DataSame, ReportSame, CoreSame, Five
  <2>8. CommInv(u)
    BY <1>1, <1>2, <1>7, <2>1, <2>3, <2>5, <2>6
       DEF CommInv, MessageInv, HaltInv, On, Works, Ep
  <2> QED
    BY <2>6, <2>7, <2>8
<1> QED
  BY <1>6, <1>7

-----------------------------------------------------------------------------
(* CDC: data *)

(* Flag and job agree, unless the endpoint is halted. *)
Pair(flag, p) == IF p.halted THEN ~p.busy ELSE flag = p.busy

LEMMA TxSendKeeps ==
    ASSUME NEW s \in States, NEW go \in BOOLEAN
    PROVE  /\ TxSend(s, go) \in States
           /\ CommSame(s, TxSend(s, go)) /\ ReportSame(s, TxSend(s, go))
           /\ CoreSame(s, TxSend(s, go)) /\ TxSend(s, go).log = s.log
           /\ TxSend(s, go).cdc.rx = s.cdc.rx /\ TxSend(s, go).cdc.held = s.cdc.held
           /\ TxSend(s, go).ep["out"] = s.ep["out"]
           /\ TxSend(s, go).ep["in"].type = s.ep["in"].type
           /\ TxSend(s, go).ep["in"].halted = s.ep["in"].halted
           /\ Pair(s.cdc.tx, s.ep["in"]) => Pair(TxSend(s, go).cdc.tx, TxSend(s, go).ep["in"])
           /\ FlagInv(s) => FlagInv(TxSend(s, go))
<1> DEFINE c == [s.cdc EXCEPT !.tx = TRUE]
           r == EpRun(s, "in")
           u == TxSend(s, go)
<1>1. s.cdc \in Cdc /\ s.ep["in"] \in Ep
  BY FieldTypes DEF Five
<1>2. CASE s.cdc.tx \/ ~go
  <2>1. u = s
    BY <1>2 DEF TxSend
  <2> QED
    BY <2>1 DEF CommSame, ReportSame, CoreSame
<1>3. CASE ~s.cdc.tx /\ go
  <2>1. /\ r \in States /\ r.cdc = s.cdc /\ r.core = s.core /\ r.uart = s.uart
        /\ r.hid = s.hid /\ r.log = s.log
        /\ \A f \in Five \ {"in"} : r.ep[f] = s.ep[f]
        /\ r.ep["in"].type = s.ep["in"].type
        /\ r.ep["in"].halted = s.ep["in"].halted
        /\ r.ep["in"].busy = (s.ep["in"].busy \/ ~s.ep["in"].halted)
    BY EpRunResult DEF Five
  <2>2. /\ c \in Cdc /\ c.tx = TRUE /\ c.rx = s.cdc.rx /\ c.held = s.cdc.held
        /\ c.ongoing = s.cdc.ongoing /\ c.state = s.cdc.state /\ c.value = s.cdc.value
    BY <1>1 DEF Cdc
  <2>3. u = [r EXCEPT !.cdc.tx = TRUE]
    BY <1>3 DEF TxSend
  <2> HIDE DEF r
  <2>4. u = [r EXCEPT !.cdc = c]
    BY <2>1, <2>3 DEF States, Cdc
  <2> HIDE DEF c
  <2>5. /\ u \in States /\ u.cdc = c /\ u.core = s.core /\ u.uart = s.uart
        /\ u.hid = s.hid /\ u.log = s.log /\ u.ep = r.ep
    BY <2>1, <2>2, <2>4 DEF States
  <2>6. CommSame(s, u) /\ ReportSame(s, u) /\ CoreSame(s, u) /\ u.ep["out"] = s.ep["out"]
    BY <2>1, <2>2, <2>5 DEF CommSame, ReportSame, CoreSame, Five
  <2>7. FlagInv(s) => FlagInv(u)
    BY <1>1, <1>3, <2>1, <2>2, <2>5, <2>6 DEF FlagInv, HaltInv, On, Works, Ep
  <2>8. Pair(s.cdc.tx, s.ep["in"]) => Pair(u.cdc.tx, u.ep["in"])
    BY <1>1, <1>3, <2>1, <2>2, <2>5 DEF Pair, Ep
  <2> QED
    BY <2>1, <2>2, <2>5, <2>6, <2>7, <2>8
<1> QED
  BY <1>2, <1>3

LEMMA RxStartKeeps ==
    ASSUME NEW s \in States
    PROVE  /\ RxStart(s) \in States
           /\ CommSame(s, RxStart(s)) /\ ReportSame(s, RxStart(s))
           /\ CoreSame(s, RxStart(s)) /\ RxStart(s).log = s.log
           /\ RxStart(s).cdc.tx = s.cdc.tx /\ RxStart(s).cdc.rx = TRUE
           /\ RxStart(s).ep["in"] = s.ep["in"]
           /\ RxStart(s).ep["out"].type = s.ep["out"].type
           /\ RxStart(s).ep["out"].halted = s.ep["out"].halted
           /\ Pair(s.cdc.rx, s.ep["out"]) => Pair(RxStart(s).cdc.rx, RxStart(s).ep["out"])
           /\ FlagInv(s) => DataInv(RxStart(s))
<1> DEFINE c == [s.cdc EXCEPT !.rx = TRUE]
           r == EpRun(s, "out")
           u == RxStart(s)
<1>1. s.cdc \in Cdc /\ s.ep["out"] \in Ep
  BY FieldTypes DEF Five
<1>2. CASE s.cdc.rx
  <2>1. u = s
    BY <1>2 DEF RxStart
  <2> QED
    BY <1>1, <1>2, <2>1 DEF CommSame, ReportSame, CoreSame, DataInv, Cdc
<1>3. CASE ~s.cdc.rx
  <2>1. /\ r \in States /\ r.cdc = s.cdc /\ r.core = s.core /\ r.uart = s.uart
        /\ r.hid = s.hid /\ r.log = s.log
        /\ \A f \in Five \ {"out"} : r.ep[f] = s.ep[f]
        /\ r.ep["out"].type = s.ep["out"].type
        /\ r.ep["out"].halted = s.ep["out"].halted
        /\ r.ep["out"].busy = (s.ep["out"].busy \/ ~s.ep["out"].halted)
    BY EpRunResult DEF Five
  <2>2. /\ c \in Cdc /\ c.rx = TRUE /\ c.tx = s.cdc.tx /\ c.held = s.cdc.held
        /\ c.ongoing = s.cdc.ongoing /\ c.state = s.cdc.state /\ c.value = s.cdc.value
    BY <1>1 DEF Cdc
  <2>3. u = [r EXCEPT !.cdc.rx = TRUE]
    BY <1>3 DEF RxStart
  <2> HIDE DEF r
  <2>4. u = [r EXCEPT !.cdc = c]
    BY <2>1, <2>3 DEF States, Cdc
  <2> HIDE DEF c
  <2>5. /\ u \in States /\ u.cdc = c /\ u.core = s.core /\ u.uart = s.uart
        /\ u.hid = s.hid /\ u.log = s.log /\ u.ep = r.ep
    BY <2>1, <2>2, <2>4 DEF States
  <2>6. CommSame(s, u) /\ ReportSame(s, u) /\ CoreSame(s, u) /\ u.ep["in"] = s.ep["in"]
    BY <2>1, <2>2, <2>5 DEF CommSame, ReportSame, CoreSame, Five
  <2>7. FlagInv(s) => DataInv(u)
    BY <1>1, <1>3, <2>1, <2>2, <2>5, <2>6 DEF FlagInv, DataInv, HaltInv, On, Works, Ep
  <2>8. Pair(s.cdc.rx, s.ep["out"]) => Pair(u.cdc.rx, u.ep["out"])
    BY <1>1, <1>3, <2>1, <2>2, <2>5 DEF Pair, Ep
  <2> QED
    BY <2>1, <2>2, <2>5, <2>6, <2>7, <2>8
<1> QED
  BY <1>2, <1>3
-----------------------------------------------------------------------------
(* HID reports *)

(* The report is only filled while the endpoint has no job. *)
LEMMA ReportPumpKeeps ==
    ASSUME NEW s \in States, ReportInv(s)
    PROVE  /\ ReportPump(s) \in States
           /\ ReportInv(ReportPump(s))
           /\ CommSame(s, ReportPump(s)) /\ DataSame(s, ReportPump(s))
           /\ CoreSame(s, ReportPump(s))
<1> DEFINE ok == RunAccepted(s, "rin")
           f == FillReport(s)
           r == EpRun(s, "rin")
           h == [s.hid EXCEPT !.response = FALSE, !.free = IF s.hid.free THEN ~ok ELSE FALSE]
           u == ReportPump(s)
<1>1. /\ s.hid \in Hid /\ s.ep["rin"] \in Ep /\ s.ep["rout"] \in Ep /\ s.log \in Log
      /\ "rin" \in Five
  BY FieldTypes DEF Five
<1>2. CASE ~s.hid.response
  <2>1. u = s
    BY <1>2 DEF ReportPump
  <2> QED
    BY <2>1 DEF CommSame, DataSame, CoreSame
<1>3. CASE s.hid.response
  <2>1. ok \in BOOLEAN
    BY DEF RunAccepted
  <2>2. ok <=> s.ep["rin"].type /\ ~s.ep["rin"].halted /\ ~s.ep["rin"].busy
    BY DEF RunAccepted
  <2> HIDE DEF ok
  <2>3. /\ h \in Hid /\ h.response = FALSE /\ h.on = s.hid.on
        /\ h.free = IF s.hid.free THEN ~ok ELSE FALSE
    BY <1>1, <2>1 DEF Hid
  <2>4. CASE s.hid.free
    <3>1. ~s.ep["rin"].busy
      BY <1>3, <2>4 DEF ReportInv
    <3>2. f = s
      <4>1. (s.log.overwritten \/ s.ep["rin"].busy) = s.log.overwritten
        BY <1>1, <3>1 DEF Log
      <4> QED
        BY <4>1 DEF FillReport, States, Log
    <3>3. u = [r EXCEPT !.hid.free = ~ok, !.hid.response = FALSE]
      <4>1. SendReport(s) = [r EXCEPT !.hid.free = ~ok]
        BY <2>4, <3>2 DEF SendReport, ok
      <4>2. u = [SendReport(s) EXCEPT !.hid.response = FALSE]
        BY <1>3 DEF ReportPump
      <4> HIDE DEF r, u
      <4> QED
        BY <4>1, <4>2
    <3>4. /\ r \in States /\ r.cdc = s.cdc /\ r.core = s.core /\ r.uart = s.uart
          /\ r.hid = s.hid /\ r.log = s.log
          /\ \A g \in Five \ {"rin"} : r.ep[g] = s.ep[g]
          /\ r.ep["rin"].type = s.ep["rin"].type
          /\ r.ep["rin"].halted = s.ep["rin"].halted
          /\ r.ep["rin"].busy = (s.ep["rin"].busy \/ ~s.ep["rin"].halted)
      BY <1>1, EpRunResult
    <3> HIDE DEF r
    <3>5. u = [r EXCEPT !.hid = h]
      <4>1. r.hid = s.hid /\ h = [s.hid EXCEPT !.free = ~ok, !.response = FALSE]
        BY <1>1, <2>4, <3>4 DEF Hid
      <4> HIDE DEF h, u
      <4> QED
        BY <3>3, <3>4, <4>1 DEF States
    <3> HIDE DEF h
    <3>6. /\ u \in States /\ u.hid = h /\ u.core = s.core /\ u.uart = s.uart
          /\ u.cdc = s.cdc /\ u.log = s.log /\ u.ep = r.ep
      BY <2>3, <3>4, <3>5 DEF States
    <3>7. CommSame(s, u) /\ DataSame(s, u) /\ CoreSame(s, u) /\ u.ep["rout"] = s.ep["rout"]
      BY <2>3, <3>4, <3>6 DEF CommSame, DataSame, CoreSame, Five
    <3>8. ReportInv(u)
      BY <1>1, <2>2, <2>3, <2>4, <3>1, <3>4, <3>6, <3>7
         DEF ReportInv, HaltInv, On, Works, Ep
    <3> QED
      BY <3>6, <3>7, <3>8
  <2>5. CASE ~s.hid.free
    <3>1. u = [s EXCEPT !.hid.response = FALSE]
      BY <1>3, <2>5 DEF ReportPump, SendReport
    <3>2. u = [s EXCEPT !.hid = h]
      <4>1. h = [s.hid EXCEPT !.response = FALSE]
        BY <1>1, <2>5 DEF Hid
      <4> HIDE DEF h, u
      <4> QED
        BY <3>1, <4>1 DEF States
    <3> HIDE DEF h
    <3>3. /\ u \in States /\ u.hid = h /\ u.core = s.core /\ u.uart = s.uart
          /\ u.cdc = s.cdc /\ u.log = s.log /\ u.ep = s.ep
      BY <2>3, <3>2 DEF States
    <3>4. CommSame(s, u) /\ DataSame(s, u) /\ CoreSame(s, u)
      BY <2>3, <3>3 DEF CommSame, DataSame, CoreSame
    <3>5. h.free = s.hid.free
      BY <1>1, <2>3, <2>5 DEF Hid
    <3>6. ReportInv(u)
      BY <2>3, <2>5, <3>3, <3>5 DEF ReportInv, HaltInv, On, Works
    <3> QED
      BY <3>3, <3>4, <3>6
  <2> QED
    BY <2>4, <2>5
<1> QED
  BY <1>2, <1>3

-----------------------------------------------------------------------------
(* Aborted transfers *)

Idle(s, e) == [s EXCEPT !.ep[e].busy = FALSE]

LEMMA IdleResult ==
    ASSUME NEW s \in States, NEW e \in Five
    PROVE  /\ Idle(s, e) \in States
           /\ Idle(s, e).core = s.core /\ Idle(s, e).cdc = s.cdc
           /\ Idle(s, e).uart = s.uart /\ Idle(s, e).hid = s.hid
           /\ Idle(s, e).log = s.log
           /\ \A f \in Five \ {e} : Idle(s, e).ep[f] = s.ep[f]
           /\ Idle(s, e).ep[e].type = s.ep[e].type
           /\ Idle(s, e).ep[e].halted = s.ep[e].halted
           /\ Idle(s, e).ep[e].busy = FALSE
<1> DEFINE b == [s.ep[e] EXCEPT !.busy = FALSE]
<1>1. s.ep \in [Five -> Ep] /\ s.ep[e] \in Ep
  BY DEF States
<1>2. b \in Ep /\ b.type = s.ep[e].type /\ b.halted = s.ep[e].halted /\ b.busy = FALSE
  BY <1>1 DEF Ep
<1>3. Idle(s, e) = [s EXCEPT !.ep = [s.ep EXCEPT ![e] = b]]
  BY DEF Idle
<1> HIDE DEF b
<1>4. [s.ep EXCEPT ![e] = b] \in [Five -> Ep]
  BY <1>1, <1>2
<1>5. Idle(s, e) \in States /\ Idle(s, e).ep = [s.ep EXCEPT ![e] = b]
  BY <1>3, <1>4 DEF States
<1>6. /\ Idle(s, e).core = s.core /\ Idle(s, e).cdc = s.cdc
      /\ Idle(s, e).uart = s.uart /\ Idle(s, e).hid = s.hid
      /\ Idle(s, e).log = s.log
  BY <1>3 DEF States
<1>7. Idle(s, e).ep[e] = b /\ \A f \in Five \ {e} : Idle(s, e).ep[f] = s.ep[f]
  BY <1>1, <1>5
<1> QED
  BY <1>2, <1>5, <1>6, <1>7

Freed(s) == [s EXCEPT !.hid.free = TRUE]

LEMMA FreedResult ==
    ASSUME NEW s \in States
    PROVE  /\ Freed(s) \in States
           /\ Freed(s).core = s.core /\ Freed(s).cdc = s.cdc
           /\ Freed(s).uart = s.uart /\ Freed(s).ep = s.ep
           /\ Freed(s).log = s.log
           /\ Freed(s).hid.free = TRUE /\ Freed(s).hid.on = s.hid.on
           /\ Freed(s).hid.response = s.hid.response
<1> DEFINE h == [s.hid EXCEPT !.free = TRUE]
<1>1. h \in Hid /\ h.free = TRUE /\ h.on = s.hid.on /\ h.response = s.hid.response
  BY FieldTypes DEF Hid
<1>2. Freed(s) = [s EXCEPT !.hid = h]
  BY DEF Freed
<1> HIDE DEF h
<1> QED
  BY <1>1, <1>2 DEF States

(* What udd_ep_abort does to the endpoints and to the class drivers *)
EndsJob(p, q, e) ==
    /\ \A f \in Five \ {e} : q[f] = p[f]
    /\ q[e].type = p[e].type
    /\ q[e].halted = p[e].halted
    /\ q[e].busy = FALSE

AbortKeeps(s, t) ==
    /\ t.core = s.core /\ t.uart = s.uart /\ t.log = s.log
    /\ t.hid.on = s.hid.on /\ t.hid.response = s.hid.response
    /\ t.cdc.tx = s.cdc.tx /\ t.cdc.rx = s.cdc.rx /\ t.cdc.held = s.cdc.held

AbortTells(s, t, e) ==
    /\ e # "comm" => t.cdc = s.cdc
    /\ e # "rin" => t.hid = s.hid
    /\ ~s.ep[e].busy => t = s
    /\ s.ep[e].busy /\ e = "comm" => ~t.cdc.ongoing /\ ~t.cdc.state /\ ~t.cdc.value
    /\ s.ep[e].busy /\ e = "rin" => t.hid.free = TRUE

LEMMA AbortResult ==
    ASSUME NEW s \in States, NEW e \in Five
    PROVE  /\ EpAbort(s, e) \in States
           /\ EndsJob(s.ep, EpAbort(s, e).ep, e)
           /\ AbortKeeps(s, EpAbort(s, e))
           /\ AbortTells(s, EpAbort(s, e), e)
<1> DEFINE u == EpAbort(s, e)
           t == Idle(s, e)
<1>1. s.ep[e] \in Ep
  BY FieldTypes
<1>2. CASE ~s.ep[e].busy
  <2>1. u = s /\ s.ep[e].busy = FALSE
    BY <1>1, <1>2 DEF EpAbort, Ep
  <2> QED
    BY <1>2, <2>1 DEF EndsJob, AbortKeeps, AbortTells
<1>3. CASE s.ep[e].busy
  <2>1. u = Aborted(t, e)
    BY <1>3 DEF EpAbort, Idle
  <2>2. /\ t \in States /\ EndsJob(s.ep, t.ep, e)
        /\ t.core = s.core /\ t.cdc = s.cdc /\ t.uart = s.uart /\ t.hid = s.hid
        /\ t.log = s.log
    BY IdleResult DEF EndsJob
  <2> HIDE DEF t
  <2>3. CASE e = "comm"
    <3>1. u = MsgSent(t)
      BY <2>1, <2>3 DEF Aborted
    <3>2. /\ u \in States /\ u.ep = t.ep /\ u.core = t.core /\ u.uart = t.uart
          /\ u.hid = t.hid /\ u.log = t.log /\ DataSame(t, u)
          /\ ~u.cdc.ongoing /\ ~u.cdc.state /\ ~u.cdc.value
      BY <2>2, <3>1, MsgSentResult, MsgSentKeeps, ZenonT(40)
    <3>3. EndsJob(s.ep, u.ep, e)
      BY <2>2, <3>2
    <3>4. AbortKeeps(s, u)
      BY <2>2, <3>2 DEF AbortKeeps, DataSame
    <3> QED
      BY <1>3, <2>2, <2>3, <3>2, <3>3, <3>4 DEF AbortTells
  <2>4. CASE e = "rin"
    <3>1. u = Freed(t)
      BY <2>1, <2>4 DEF Aborted, Freed
    <3>2. /\ u \in States /\ u.ep = t.ep /\ u.core = t.core /\ u.uart = t.uart
          /\ u.cdc = t.cdc /\ u.log = t.log /\ u.hid.free = TRUE
          /\ u.hid.on = t.hid.on /\ u.hid.response = t.hid.response
      BY <2>2, <3>1, FreedResult, ZenonT(40)
    <3>3. EndsJob(s.ep, u.ep, e)
      BY <2>2, <3>2
    <3>4. AbortKeeps(s, u)
      BY <2>2, <3>2 DEF AbortKeeps
    <3> QED
      BY <1>3, <2>2, <2>4, <3>2, <3>3, <3>4 DEF AbortTells
  <2>5. CASE e # "comm" /\ e # "rin"
    <3>1. u = t
      BY <2>1, <2>5 DEF Aborted
    <3> QED
      BY <1>3, <2>2, <2>5, <3>1 DEF AbortKeeps, AbortTells
  <2> QED
    BY <2>3, <2>4, <2>5
<1> QED
  BY <1>2, <1>3

(* The configuration register of endpoints of one interface *)
Typed(s, t, i, type) ==
    \A f \in Five :
        /\ t.ep[f].halted = s.ep[f].halted
        /\ t.ep[f].busy = s.ep[f].busy
        /\ f \in Endpoints(i) => t.ep[f].type = type
        /\ f \notin Endpoints(i) => t.ep[f] = s.ep[f]

RestSame(s, t) ==
    /\ t.core = s.core /\ t.uart = s.uart /\ t.log = s.log
    /\ t.cdc = s.cdc /\ t.hid = s.hid

SetType(s, i, type) ==
    [s EXCEPT !.ep = [f \in Five |->
        IF f \in Endpoints(i) THEN [s.ep[f] EXCEPT !.type = type] ELSE s.ep[f]]]

LEMMA SetTypeResult ==
    ASSUME NEW s \in States, NEW i \in Interfaces, NEW type \in BOOLEAN
    PROVE  /\ SetType(s, i, type) \in States
           /\ RestSame(s, SetType(s, i, type))
           /\ Typed(s, SetType(s, i, type), i, type)
<1> DEFINE q(f) == IF f \in Endpoints(i) THEN [s.ep[f] EXCEPT !.type = type] ELSE s.ep[f]
           p == [f \in Five |-> q(f)]
           u == SetType(s, i, type)
<1>1. \A f \in Five : s.ep[f] \in Ep
  BY FieldTypes
<1>2. \A f \in Five :
         /\ q(f) \in Ep /\ q(f).halted = s.ep[f].halted
         /\ q(f).busy = s.ep[f].busy
         /\ f \in Endpoints(i) => q(f).type = type
         /\ f \notin Endpoints(i) => q(f) = s.ep[f]
  BY <1>1 DEF Ep
<1>3. u = [s EXCEPT !.ep = p]
  BY DEF SetType
<1> HIDE DEF q
<1>4. p \in [Five -> Ep] /\ \A f \in Five : p[f] = q(f)
  BY <1>2
<1> HIDE DEF p, u
<1>5. /\ u \in States /\ u.ep = p /\ RestSame(s, u)
  BY <1>3, <1>4 DEF States, RestSame
<1>6. Typed(s, u, i, type)
  BY <1>2, <1>4, <1>5 DEF Typed
<1> QED
  BY <1>5, <1>6 DEF u

(* udd_ep_free *)
LEMMA FreeIs ==
    ASSUME NEW s \in States, NEW e \in Five
    PROVE  EpFree(s, e) = SetType(EpAbort(s, e), InterfaceOf(e), FALSE)
BY EndpointFacts DEF EpFree, SetType

(* udd_ep_alloc *)
LEMMA AllocIs ==
    ASSUME NEW s \in States, NEW i \in Interfaces
    PROVE  EpAlloc(s, i) = SetType(s, i, TRUE)
BY EndpointFacts DEF EpAlloc, SetType
-----------------------------------------------------------------------------
(* Disable *)

(* The history of interface i *)
Logged(s, i, fate, halted) ==
    [s EXCEPT !.log.fate[i] = fate, !.log.halted = halted]

LEMMA LoggedResult ==
    ASSUME NEW s \in States, NEW i \in Interfaces, NEW fate \in Fates,
           NEW halted \in SUBSET Five
    PROVE  /\ Logged(s, i, fate, halted) \in States
           /\ Logged(s, i, fate, halted).core = s.core
           /\ Logged(s, i, fate, halted).ep = s.ep
           /\ Logged(s, i, fate, halted).cdc = s.cdc
           /\ Logged(s, i, fate, halted).uart = s.uart
           /\ Logged(s, i, fate, halted).hid = s.hid
           /\ Logged(s, i, fate, halted).log.halted = halted
           /\ Logged(s, i, fate, halted).log.overwritten = s.log.overwritten
           /\ Logged(s, i, fate, halted).log.fate = [s.log.fate EXCEPT ![i] = fate]
<1> DEFINE g == [s.log.fate EXCEPT ![i] = fate]
           l == [s.log EXCEPT !.fate = g, !.halted = halted]
           u == Logged(s, i, fate, halted)
<1>1. s.log \in Log /\ s.log.fate \in [Interfaces -> Fates]
  BY FieldTypes
<1>2. g \in [Interfaces -> Fates]
  BY <1>1
<1>3. u = [s EXCEPT !.log.fate = g, !.log.halted = halted]
  BY DEF Logged
<1> HIDE DEF g
<1>4. u = [s EXCEPT !.log = l]
  BY <1>3 DEF States
<1>5. /\ l \in Log /\ l.fate = g /\ l.halted = halted
      /\ l.overwritten = s.log.overwritten
  BY <1>1, <1>2 DEF Log
<1> HIDE DEF l
<1>6. /\ u \in States /\ u.log = l /\ u.core = s.core /\ u.ep = s.ep
      /\ u.cdc = s.cdc /\ u.uart = s.uart /\ u.hid = s.hid
  BY <1>4, <1>5 DEF States
<1> QED
  BY <1>5, <1>6 DEF g

Fated(s, i, fate) == [s EXCEPT !.log.fate[i] = fate]

LEMMA FatedIs ==
    ASSUME NEW s \in States, NEW i \in Interfaces, NEW fate \in Fates
    PROVE  /\ Fated(s, i, fate) = Logged(s, i, fate, s.log.halted)
           /\ s.log.halted \in SUBSET Five
<1>1. s.log \in Log
  BY FieldTypes
<1> QED
  BY <1>1 DEF Fated, Logged, States, Log

LEMMA DisableIs ==
    ASSUME NEW s
    PROVE  /\ Disable(s, 0) = Fated(s, 0, "off")
           /\ Disable(s, 1) = Fated([s EXCEPT !.uart = FALSE], 1, "off")
           /\ Disable(s, 2) = Fated([s EXCEPT !.hid.on = FALSE], 2, "off")
<1> DEFINE d(i) == CASE i = 0 -> s
                     [] i = 1 -> [s EXCEPT !.uart = FALSE]
                     [] i = 2 -> [s EXCEPT !.hid.on = FALSE]
<1>1. d(0) = s
  OBVIOUS
<1>2. d(1) = [s EXCEPT !.uart = FALSE]
  OBVIOUS
<1>3. d(2) = [s EXCEPT !.hid.on = FALSE]
  OBVIOUS
<1>4. \A i : Disable(s, i) = Fated(d(i), i, "off")
  BY DEF Disable, Fated
<1> HIDE DEF d
<1> QED
  BY <1>1, <1>2, <1>3, <1>4

LEMMA IfaceDisableIs ==
    ASSUME NEW s
    PROVE  /\ IfaceDisable(s, 0) = Disable(EpFree(s, "comm"), 0)
           /\ IfaceDisable(s, 1) = Disable(EpFree(EpFree(s, "in"), "out"), 1)
           /\ IfaceDisable(s, 2) = Disable(EpFree(EpFree(s, "rin"), "rout"), 2)
<1> DEFINE d(i) == CASE i = 0 -> EpFree(s, "comm")
                     [] i = 1 -> EpFree(EpFree(s, "in"), "out")
                     [] i = 2 -> EpFree(EpFree(s, "rin"), "rout")
<1>1. d(0) = EpFree(s, "comm")
  OBVIOUS
<1>2. d(1) = EpFree(EpFree(s, "in"), "out")
  OBVIOUS
<1>3. d(2) = EpFree(EpFree(s, "rin"), "rout")
  OBVIOUS
<1>4. \A i : IfaceDisable(s, i) = Disable(d(i), i)
  BY DEF IfaceDisable
<1> HIDE DEF d
<1> QED
  BY <1>1, <1>2, <1>3, <1>4

(* An interface without jobs and endpoints *)
Gone(s, i) ==
    /\ s.log.fate[i] = "off"
    /\ \A e \in Endpoints(i) : ~s.ep[e].type /\ ~s.ep[e].busy

LEMMA GoneInv ==
    ASSUME NEW s, LooseInv(s)
    PROVE  /\ Gone(s, 0) => CommInv(s)
           /\ Gone(s, 1) => DataInv(s)
           /\ Gone(s, 2) => ReportInv(s)
<1>1. /\ Endpoints(0) = {"comm"} /\ Endpoints(1) = {"in", "out"}
      /\ Endpoints(2) = {"rin", "rout"}
  BY EndpointFacts
<1>2. s.ep["rin"] \in Ep /\ s.ep["rout"] \in Ep
  BY FieldTypes DEF LooseInv, Five
<1>3. \A e \in Five : HaltInv(s, e)
  BY DEF LooseInv
<1> QED
  BY <1>1, <1>2, <1>3
     DEF LooseInv, Gone, CommInv, DataInv, FlagInv, ReportInv, On, Works, Five, Ep

LEMMA CommDisabled ==
    ASSUME NEW s, LooseInv(s)
    PROVE  /\ LooseInv(IfaceDisable(s, 0)) /\ Gone(IfaceDisable(s, 0), 0)
           /\ DataSame(s, IfaceDisable(s, 0)) /\ ReportSame(s, IfaceDisable(s, 0))
           /\ CoreSame(s, IfaceDisable(s, 0))
<1> DEFINE a == EpAbort(s, "comm")
           b == SetType(a, 0, FALSE)
           u == IfaceDisable(s, 0)
<1>1. s \in States /\ s.log \in Log /\ s.log.fate \in [Interfaces -> Fates]
  BY FieldTypes DEF LooseInv
<1>2. "comm" \in Five /\ 0 \in Interfaces /\ "off" \in Fates
  BY EndpointFacts DEF Five, Fates
<1>3. /\ a \in States /\ EndsJob(s.ep, a.ep, "comm") /\ AbortKeeps(s, a)
      /\ AbortTells(s, a, "comm")
  BY <1>1, <1>2, AbortResult
<1>4. EpFree(s, "comm") = b
  BY <1>1, <1>2, FreeIs, EndpointFacts
<1> HIDE DEF a
<1>5. b \in States /\ RestSame(a, b) /\ Typed(a, b, 0, FALSE)
  BY <1>2, <1>3, SetTypeResult
<1>6. u = Fated(EpFree(s, "comm"), 0, "off")
  BY IfaceDisableIs, DisableIs
<1> HIDE DEF b
<1>7. /\ u \in States /\ u.ep = b.ep /\ u.cdc = b.cdc /\ u.hid = b.hid
      /\ u.core = b.core /\ u.uart = b.uart
      /\ u.log.halted = b.log.halted /\ u.log.overwritten = b.log.overwritten
      /\ u.log.fate = [b.log.fate EXCEPT ![0] = "off"]
  BY <1>2, <1>4, <1>5, <1>6, FatedIs, LoggedResult
<1>8. /\ u.log.fate[0] = "off" /\ u.log.fate[1] = s.log.fate[1]
      /\ u.log.fate[2] = s.log.fate[2] /\ u.log.halted = s.log.halted
      /\ u.log.overwritten = s.log.overwritten
  BY <1>1, <1>3, <1>5, <1>7, EndpointFacts DEF RestSame, AbortKeeps
<1>9. /\ \A f \in {"in", "out", "rin", "rout"} : u.ep[f] = s.ep[f]
      /\ u.ep["comm"].busy = FALSE /\ u.ep["comm"].type = FALSE
      /\ u.ep["comm"].halted = s.ep["comm"].halted
  BY <1>3, <1>5, <1>7, EndpointFacts DEF EndsJob, Typed, Five
<1>10. DataSame(s, u) /\ ReportSame(s, u) /\ CoreSame(s, u)
  BY <1>3, <1>5, <1>7, <1>8, <1>9
     DEF DataSame, ReportSame, CoreSame, AbortKeeps, AbortTells, RestSame
<1>11. Gone(u, 0)
  BY <1>8, <1>9, EndpointFacts DEF Gone
<1>12. MessageInv(u)
  <2>1. u.cdc = a.cdc
    BY <1>5, <1>7 DEF RestSame
  <2>2. ~u.cdc.ongoing /\ (u.cdc.value => u.cdc.state)
    <3>1. CASE s.ep["comm"].busy
      BY <1>3, <2>1, <3>1 DEF AbortTells
    <3>2. CASE ~s.ep["comm"].busy
      <4>1. a = s
        BY <1>3, <3>2 DEF AbortTells
      <4> QED
        BY <2>1, <3>2, <4>1 DEF LooseInv, MessageInv
    <3> QED
      BY <3>1, <3>2
  <2>3. HaltInv(u, "comm")
    BY <1>2, <1>8, <1>9 DEF LooseInv, HaltInv
  <2> QED
    BY <1>8, <2>2, <2>3 DEF MessageInv
<1>13. \A e \in Five : HaltInv(u, e)
  BY <1>8, <1>9 DEF LooseInv, HaltInv, Five
<1> QED
  BY <1>7, <1>8, <1>10, <1>11, <1>12, <1>13 DEF LooseInv
(* udd_ep_free of one direction, with the register of its interface *)
Frees(s, t, e) ==
    /\ AbortKeeps(s, t)
    /\ e # "comm" => t.cdc = s.cdc
    /\ e # "rin" => t.hid = s.hid
    /\ t.ep[e].busy = FALSE
    /\ \A f \in Five :
         /\ t.ep[f].halted = s.ep[f].halted
         /\ f # e => t.ep[f].busy = s.ep[f].busy
         /\ f \in Endpoints(InterfaceOf(e)) => t.ep[f].type = FALSE
         /\ f \notin Endpoints(InterfaceOf(e)) => t.ep[f] = s.ep[f]

LEMMA FreeResult ==
    ASSUME NEW s \in States, NEW e \in Five
    PROVE  EpFree(s, e) \in States /\ Frees(s, EpFree(s, e), e)
<1> DEFINE a == EpAbort(s, e)
           u == EpFree(s, e)
           i == InterfaceOf(e)
<1>1. /\ a \in States /\ EndsJob(s.ep, a.ep, e) /\ AbortKeeps(s, a) /\ AbortTells(s, a, e)
  BY AbortResult
<1>2. u = SetType(a, i, FALSE)
  BY FreeIs
<1>3. i \in Interfaces /\ e \in Endpoints(i)
  BY EndpointFacts DEF Five
<1> HIDE DEF a, u, i
<1>4. u \in States /\ RestSame(a, u) /\ Typed(a, u, i, FALSE)
  BY <1>1, <1>2, <1>3, SetTypeResult
<1>5. AbortKeeps(s, u)
  BY <1>1, <1>4 DEF AbortKeeps, RestSame
<1>6. (e # "comm" => u.cdc = s.cdc) /\ (e # "rin" => u.hid = s.hid)
  BY <1>1, <1>4 DEF AbortTells, RestSame
<1>7. /\ u.ep[e].busy = FALSE
      /\ \A f \in Five :
           /\ u.ep[f].halted = s.ep[f].halted
           /\ f # e => u.ep[f].busy = s.ep[f].busy
           /\ f \in Endpoints(i) => u.ep[f].type = FALSE
           /\ f \notin Endpoints(i) => u.ep[f] = s.ep[f]
  BY <1>1, <1>3, <1>4 DEF EndsJob, Typed
<1> QED
  BY <1>4, <1>5, <1>6, <1>7 DEF Frees, u, i

LEMMA DataDisabled ==
    ASSUME NEW s, LooseInv(s)
    PROVE  /\ LooseInv(IfaceDisable(s, 1)) /\ Gone(IfaceDisable(s, 1), 1)
           /\ CommSame(s, IfaceDisable(s, 1)) /\ ReportSame(s, IfaceDisable(s, 1))
           /\ IfaceDisable(s, 1).core = s.core /\ IfaceDisable(s, 1).uart = FALSE
           /\ IfaceDisable(s, 1).hid.on = s.hid.on
<1> DEFINE a == EpFree(s, "in")
           b == EpFree(a, "out")
           c == [b EXCEPT !.uart = FALSE]
           u == IfaceDisable(s, 1)
<1>1. s \in States /\ s.log.fate \in [Interfaces -> Fates]
  BY FieldTypes DEF LooseInv
<1>2. "in" \in Five /\ "out" \in Five /\ 1 \in Interfaces /\ "off" \in Fates
  BY EndpointFacts DEF Five, Fates
<1>3. a \in States /\ Frees(s, a, "in")
  BY <1>1, <1>2, FreeResult
<1> HIDE DEF a
<1>4. b \in States /\ Frees(a, b, "out")
  BY <1>2, <1>3, FreeResult
<1>5. u = Fated(c, 1, "off")
  BY IfaceDisableIs, DisableIs DEF a
<1> HIDE DEF b
<1>6. /\ c \in States /\ c.ep = b.ep /\ c.cdc = b.cdc /\ c.hid = b.hid
      /\ c.core = b.core /\ c.uart = FALSE /\ c.log = b.log
  BY <1>4 DEF States
<1> HIDE DEF c
<1>7. /\ u \in States /\ u.ep = c.ep /\ u.cdc = c.cdc /\ u.hid = c.hid
      /\ u.core = c.core /\ u.uart = c.uart
      /\ u.log.halted = c.log.halted /\ u.log.overwritten = c.log.overwritten
      /\ u.log.fate = [c.log.fate EXCEPT ![1] = "off"]
  BY <1>2, <1>5, <1>6, FatedIs, LoggedResult
<1>8. /\ c.log = s.log /\ c.core = s.core /\ c.cdc = s.cdc /\ c.hid = s.hid
  BY <1>3, <1>4, <1>6 DEF Frees, AbortKeeps
<1>9. /\ u.log.fate[0] = s.log.fate[0] /\ u.log.fate[1] = "off"
      /\ u.log.fate[2] = s.log.fate[2] /\ u.log.halted = s.log.halted
      /\ u.log.overwritten = s.log.overwritten
  BY <1>1, <1>7, <1>8, EndpointFacts
<1>10. /\ \A f \in {"comm", "rin", "rout"} : u.ep[f] = s.ep[f]
       /\ \A f \in {"in", "out"} : /\ u.ep[f].busy = FALSE /\ u.ep[f].type = FALSE
                                   /\ u.ep[f].halted = s.ep[f].halted
  BY <1>2, <1>3, <1>4, <1>6, <1>7, EndpointFacts DEF Frees, Five
<1>11. CommSame(s, u) /\ ReportSame(s, u)
  BY <1>7, <1>8, <1>9, <1>10 DEF CommSame, ReportSame
<1>12. Gone(u, 1)
  BY <1>9, <1>10, EndpointFacts DEF Gone
<1>13. \A e \in Five : HaltInv(u, e)
  BY <1>9, <1>10 DEF LooseInv, HaltInv, Five
<1>14. MessageInv(u)
  BY <1>11, MessageFrame DEF LooseInv
<1> QED
  BY <1>6, <1>7, <1>8, <1>9, <1>11, <1>12, <1>13, <1>14 DEF LooseInv

LEMMA ReportDisabled ==
    ASSUME NEW s, LooseInv(s)
    PROVE  /\ LooseInv(IfaceDisable(s, 2)) /\ Gone(IfaceDisable(s, 2), 2)
           /\ CommSame(s, IfaceDisable(s, 2)) /\ DataSame(s, IfaceDisable(s, 2))
           /\ IfaceDisable(s, 2).core = s.core /\ IfaceDisable(s, 2).uart = s.uart
           /\ IfaceDisable(s, 2).hid.on = FALSE
<1> DEFINE a == EpFree(s, "rin")
           b == EpFree(a, "rout")
           h == [b.hid EXCEPT !.on = FALSE]
           c == [b EXCEPT !.hid.on = FALSE]
           u == IfaceDisable(s, 2)
<1>1. s \in States /\ s.log.fate \in [Interfaces -> Fates]
  BY FieldTypes DEF LooseInv
<1>2. "rin" \in Five /\ "rout" \in Five /\ 2 \in Interfaces /\ "off" \in Fates
  BY EndpointFacts DEF Five, Fates
<1>3. a \in States /\ Frees(s, a, "rin")
  BY <1>1, <1>2, FreeResult
<1> HIDE DEF a
<1>4. b \in States /\ Frees(a, b, "rout")
  BY <1>2, <1>3, FreeResult
<1>5. u = Fated(c, 2, "off")
  BY IfaceDisableIs, DisableIs DEF a
<1> HIDE DEF b
<1>6. h \in Hid /\ h.on = FALSE
  BY <1>4, FieldTypes DEF Hid
<1>7. c = [b EXCEPT !.hid = h]
  OBVIOUS
<1> HIDE DEF h, c
<1>8. /\ c \in States /\ c.ep = b.ep /\ c.cdc = b.cdc /\ c.hid = h
      /\ c.core = b.core /\ c.uart = b.uart /\ c.log = b.log
  BY <1>4, <1>6, <1>7 DEF States
<1>9. /\ u \in States /\ u.ep = c.ep /\ u.cdc = c.cdc /\ u.hid = c.hid
      /\ u.core = c.core /\ u.uart = c.uart
      /\ u.log.halted = c.log.halted /\ u.log.overwritten = c.log.overwritten
      /\ u.log.fate = [c.log.fate EXCEPT ![2] = "off"]
  BY <1>2, <1>5, <1>8, FatedIs, LoggedResult
<1>10. /\ c.log = s.log /\ c.core = s.core /\ c.cdc = s.cdc /\ c.uart = s.uart
  BY <1>3, <1>4, <1>8 DEF Frees, AbortKeeps
<1>11. /\ u.log.fate[0] = s.log.fate[0] /\ u.log.fate[2] = "off"
      /\ u.log.fate[1] = s.log.fate[1] /\ u.log.halted = s.log.halted
      /\ u.log.overwritten = s.log.overwritten
  BY <1>1, <1>9, <1>10, EndpointFacts
<1>12. /\ \A f \in {"comm", "in", "out"} : u.ep[f] = s.ep[f]
       /\ \A f \in {"rin", "rout"} : /\ u.ep[f].busy = FALSE /\ u.ep[f].type = FALSE
                                     /\ u.ep[f].halted = s.ep[f].halted
  BY <1>2, <1>3, <1>4, <1>8, <1>9, EndpointFacts DEF Frees, Five
<1>13. CommSame(s, u) /\ DataSame(s, u)
  BY <1>9, <1>10, <1>11, <1>12 DEF CommSame, DataSame
<1>14. Gone(u, 2)
  BY <1>11, <1>12, EndpointFacts DEF Gone
<1>15. \A e \in Five : HaltInv(u, e)
  BY <1>11, <1>12 DEF LooseInv, HaltInv, Five
<1>16. MessageInv(u)
  BY <1>13, MessageFrame DEF LooseInv
<1> QED
  BY <1>6, <1>8, <1>9, <1>10, <1>11, <1>13, <1>14, <1>15, <1>16 DEF LooseInv
(* udc_reset leaves no job, no endpoint and no enabled interface. *)
LEMMA ResetResult ==
    ASSUME NEW s, LooseInv(s), s.core.num # 0
    PROVE  /\ LooseInv(UdcReset(s)) /\ DeviceInv(UdcReset(s)) /\ AllOff(UdcReset(s))
           /\ UdcReset(s).core = [s.core EXCEPT !.num = 0]
<1> DEFINE a == IfaceDisable(s, 0)
           b == IfaceDisable(a, 1)
           c == IfaceDisable(b, 2)
           k == [c.core EXCEPT !.num = 0]
           u == UdcReset(s)
<1>1. LooseInv(a) /\ Gone(a, 0) /\ CoreSame(s, a)
  BY CommDisabled
<1> HIDE DEF a
<1>2. /\ LooseInv(b) /\ Gone(b, 1) /\ CommSame(a, b)
      /\ b.core = a.core /\ b.uart = FALSE
  BY <1>1, DataDisabled
<1>3. Gone(b, 0)
  BY <1>1, <1>2, EndpointFacts DEF CommSame, Gone
<1> HIDE DEF b
<1>4. /\ LooseInv(c) /\ Gone(c, 2) /\ CommSame(b, c) /\ DataSame(b, c)
      /\ c.core = b.core /\ c.uart = b.uart /\ c.hid.on = FALSE
  BY <1>2, ReportDisabled
<1>5. Gone(c, 0) /\ Gone(c, 1)
  BY <1>2, <1>3, <1>4, EndpointFacts DEF CommSame, DataSame, Gone
<1>6. u = [c EXCEPT !.core.num = 0]
  BY DEF UdcReset, a, b
<1>7. c \in States /\ c.core \in Core
  BY <1>4, FieldTypes DEF LooseInv
<1> HIDE DEF c
<1>8. u = [c EXCEPT !.core = k] /\ k \in Core
  BY <1>6, <1>7 DEF Core
<1>9. k = [s.core EXCEPT !.num = 0]
  BY <1>1, <1>2, <1>4 DEF CoreSame
<1> HIDE DEF k
<1>10. /\ u \in States /\ u.core = k /\ u.ep = c.ep /\ u.cdc = c.cdc /\ u.uart = c.uart
       /\ u.hid = c.hid /\ u.log = c.log
  BY <1>7, <1>8 DEF States
<1>11. LooseInv(u) /\ Gone(u, 0) /\ Gone(u, 1) /\ Gone(u, 2)
  BY <1>4, <1>5, <1>10 DEF LooseInv, Gone, HaltInv, MessageInv
<1>12. AllOff(u)
  BY <1>2, <1>4, <1>10, <1>11, EndpointFacts DEF AllOff, Gone, Five
<1>13. DeviceInv(u)
  BY <1>10, <1>11, <1>12, GoneInv DEF DeviceInv, OffInv
<1> QED
  BY <1>9, <1>10, <1>11, <1>12, <1>13

LEMMA Loosened ==
    ASSUME NEW s, DeviceInv(s)
    PROVE  LooseInv(s)
BY DEF DeviceInv, CommInv, DataInv, FlagInv, ReportInv, LooseInv, MessageInv, Five

(* With or without a configuration *)
LEMMA ResetKeeps ==
    ASSUME NEW s, DeviceInv(s)
    PROVE  /\ DeviceInv(UdcReset(s)) /\ AllOff(UdcReset(s))
           /\ UdcReset(s).core = [s.core EXCEPT !.num = 0]
<1>1. CASE s.core.num = 0
  <2>1. UdcReset(s) = s /\ AllOff(s)
    BY <1>1 DEF UdcReset, DeviceInv, OffInv
  <2>2. s.core = [s.core EXCEPT !.num = 0]
    BY <1>1, FieldTypes DEF DeviceInv, Core
  <2> QED
    BY <2>1, <2>2
<1>2. CASE s.core.num # 0
  BY <1>2, Loosened, ResetResult
<1> QED
  BY <1>1, <1>2
-----------------------------------------------------------------------------
(* Enable *)

Sound(s) == s \in States /\ CommInv(s) /\ DataInv(s) /\ ReportInv(s)

NoJobs(s, i) == \A e \in Endpoints(i) : ~s.ep[e].busy

Outcome(s, i) == IF EnableSucceeds(s, i) THEN "on" ELSE "failed"

(* The halts of an interface that is enabled are those it has now. *)
HaltsNow(s, h, i) == (h \ Endpoints(i)) \cup {e \in Endpoints(i) : s.ep[e].halted}

LEMMA EnableIs ==
    ASSUME NEW s, NEW go
    PROVE  /\ Enable(s, 0, go) = Logged(CommEnable(s), 0, Outcome(s, 0),
                                        HaltsNow(s, CommEnable(s).log.halted, 0))
           /\ Enable(s, 1, go) = Logged(DataEnable(s, go), 1, Outcome(s, 1),
                                        HaltsNow(s, DataEnable(s, go).log.halted, 1))
           /\ Enable(s, 2, go) = Logged(GenericEnable(s), 2, Outcome(s, 2),
                                        HaltsNow(s, GenericEnable(s).log.halted, 2))
<1> DEFINE d(i) == CASE i = 0 -> CommEnable(s)
                     [] i = 1 -> DataEnable(s, go)
                     [] i = 2 -> GenericEnable(s)
<1>1. d(0) = CommEnable(s)
  OBVIOUS
<1>2. d(1) = DataEnable(s, go)
  OBVIOUS
<1>3. d(2) = GenericEnable(s)
  OBVIOUS
<1>4. \A i : Enable(s, i, go) = Logged(d(i), i, Outcome(s, i), HaltsNow(s, d(i).log.halted, i))
  BY DEF Enable, Logged, Outcome, HaltsNow
<1> HIDE DEF d
<1> QED
  BY <1>1, <1>2, <1>3, <1>4

(* The end of an enable: the class driver went from s to t, and u is logged. *)
Ended(s, t, u, i) ==
    /\ u \in States
    /\ u.core = t.core /\ u.ep = t.ep /\ u.cdc = t.cdc
    /\ u.uart = t.uart /\ u.hid = t.hid
    /\ u.log.overwritten = s.log.overwritten
    /\ u.log.fate[i] = Outcome(s, i)
    /\ \A j \in Interfaces \ {i} : u.log.fate[j] = s.log.fate[j]
    /\ \A e \in Endpoints(i) : e \in u.log.halted <=> s.ep[e].halted
    /\ \A e \in Five \ Endpoints(i) : e \in u.log.halted <=> e \in s.log.halted

LEMMA LogEnabled ==
    ASSUME NEW s \in States, NEW t \in States, NEW i \in Interfaces, t.log = s.log
    PROVE  Ended(s, t, Logged(t, i, Outcome(s, i), HaltsNow(s, t.log.halted, i)), i)
<1> DEFINE h == HaltsNow(s, t.log.halted, i)
           u == Logged(t, i, Outcome(s, i), h)
<1>1. s.log \in Log /\ s.log.fate \in [Interfaces -> Fates] /\ s.log.halted \subseteq Five
  BY FieldTypes DEF Log
<1>2. Outcome(s, i) \in Fates
  BY DEF Outcome, Fates
<1>3. Endpoints(i) \subseteq Five
  BY EndpointFacts DEF Five
<1>4. h \in SUBSET Five
  BY <1>1, <1>3 DEF HaltsNow
<1>5. /\ u \in States
      /\ u.core = t.core /\ u.ep = t.ep /\ u.cdc = t.cdc
      /\ u.uart = t.uart /\ u.hid = t.hid
      /\ u.log.overwritten = t.log.overwritten /\ u.log.halted = h
      /\ u.log.fate = [t.log.fate EXCEPT ![i] = Outcome(s, i)]
  <2> HIDE DEF h
  <2> QED
    BY <1>2, <1>4, LoggedResult
<1>6. /\ \A e \in Endpoints(i) : e \in h <=> s.ep[e].halted
      /\ \A e \in Five \ Endpoints(i) : e \in h <=> e \in s.log.halted
  BY DEF HaltsNow
<1> HIDE DEF h, u
<1>7. /\ u.log.fate[i] = Outcome(s, i)
      /\ \A j \in Interfaces \ {i} : u.log.fate[j] = s.log.fate[j]
  BY <1>1, <1>5
<1>8. Ended(s, t, u, i)
  BY <1>5, <1>6, <1>7 DEF Ended
<1> QED
  BY <1>8 DEF u, h

LEMMA CommEnabled ==
    ASSUME NEW s, Sound(s), NoJobs(s, 0), NEW go \in BOOLEAN
    PROVE  /\ Sound(IfaceEnable(s, 0, go))
           /\ DataSame(s, IfaceEnable(s, 0, go)) /\ ReportSame(s, IfaceEnable(s, 0, go))
           /\ IfaceEnable(s, 0, go).core = s.core
<1> DEFINE a == EpAlloc(s, 0)
           c == [a.cdc EXCEPT !.state = FALSE, !.value = FALSE]
           t == CommEnable(a)
           u == IfaceEnable(s, 0, go)
<1>1. s \in States /\ 0 \in Interfaces /\ "comm" \in Five /\ TRUE \in BOOLEAN
  BY EndpointFacts DEF Sound, Five
<1>2. a \in States /\ RestSame(s, a) /\ Typed(s, a, 0, TRUE)
  BY <1>1, AllocIs, SetTypeResult
<1>3. /\ a.ep["comm"].type = TRUE /\ a.ep["comm"].halted = s.ep["comm"].halted
      /\ ~a.ep["comm"].busy
      /\ \A f \in Five \ {"comm"} : a.ep[f] = s.ep[f]
  BY <1>1, <1>2, EndpointFacts DEF Typed, NoJobs
<1>4. u = Logged(t, 0, Outcome(a, 0), HaltsNow(a, t.log.halted, 0))
  BY EnableIs DEF IfaceEnable
<1> HIDE DEF a
<1>5. /\ c \in Cdc /\ c.state = FALSE /\ c.value = FALSE /\ c.ongoing = a.cdc.ongoing
      /\ c.tx = a.cdc.tx /\ c.rx = a.cdc.rx /\ c.held = a.cdc.held
  BY <1>2, FieldTypes DEF Cdc
<1>6. t = [a EXCEPT !.cdc = c, !.uart = TRUE]
  BY <1>2 DEF CommEnable, States
<1> HIDE DEF c
<1>7. /\ t \in States /\ t.core = a.core /\ t.ep = a.ep /\ t.cdc = c
      /\ t.hid = a.hid /\ t.log = a.log
  BY <1>2, <1>5, <1>6 DEF States
<1> HIDE DEF t
<1>8. /\ u \in States
      /\ u.core = t.core /\ u.ep = t.ep /\ u.cdc = t.cdc
      /\ u.uart = t.uart /\ u.hid = t.hid
      /\ u.log.overwritten = a.log.overwritten
      /\ u.log.fate[0] = Outcome(a, 0)
      /\ \A j \in {1, 2} : u.log.fate[j] = a.log.fate[j]
      /\ "comm" \in u.log.halted <=> a.ep["comm"].halted
      /\ \A e \in Five \ {"comm"} : e \in u.log.halted <=> e \in a.log.halted
  <2>1. Ended(a, t, u, 0)
    BY <1>1, <1>2, <1>4, <1>7, LogEnabled
  <2>2. /\ Endpoints(0) = {"comm"}
        /\ \A j \in {1, 2} : j \in Interfaces \ {0}
    BY EndpointFacts
  <2> QED
    BY <2>1, <2>2 DEF Ended
<1>9. Outcome(a, 0) = "on"
  BY EndpointFacts DEF Outcome, EnableSucceeds, OutEndpoints
<1> HIDE DEF u
<1>10. u.core = s.core /\ a.cdc = s.cdc /\ a.hid = s.hid /\ a.log = s.log
  BY <1>2, <1>7, <1>8 DEF RestSame
<1>11. DataSame(s, u)
  BY <1>3, <1>5, <1>7, <1>8, <1>10 DEF DataSame, Five
<1>12. ReportSame(s, u)
  BY <1>3, <1>7, <1>8, <1>10 DEF ReportSame, Five
<1>13. ~c.ongoing
  BY <1>5, <1>10 DEF NoJobs, Sound, CommInv, MessageInv, Endpoints
<1>14. CommInv(u)
  BY <1>3, <1>5, <1>7, <1>8, <1>9, <1>13 DEF CommInv, MessageInv, HaltInv, On, Works
<1>15. Sound(u)
  BY <1>8, <1>11, <1>12, <1>14, DataFrame, ReportFrame DEF Sound
<1> QED
  BY <1>10, <1>11, <1>12, <1>15 DEF u

LEMMA DataEnabled ==
    ASSUME NEW s, Sound(s), NoJobs(s, 1), NEW go \in BOOLEAN
    PROVE  /\ Sound(IfaceEnable(s, 1, go))
           /\ CommSame(s, IfaceEnable(s, 1, go)) /\ ReportSame(s, IfaceEnable(s, 1, go))
           /\ CoreSame(s, IfaceEnable(s, 1, go))
<1> DEFINE a == EpAlloc(s, 1)
           c == [a.cdc EXCEPT !.tx = FALSE, !.rx = FALSE, !.held = FALSE]
           b == [a EXCEPT !.cdc = c]
           x == TxSend(b, go)
           t == DataEnable(a, go)
           u == IfaceEnable(s, 1, go)
<1>1. s \in States /\ 1 \in Interfaces /\ "in" \in Five /\ "out" \in Five /\ TRUE \in BOOLEAN
  BY EndpointFacts DEF Sound, Five
<1>2. a \in States /\ RestSame(s, a) /\ Typed(s, a, 1, TRUE)
  BY <1>1, AllocIs, SetTypeResult
<1>3. /\ a.ep["in"].type = TRUE /\ a.ep["in"].halted = s.ep["in"].halted
      /\ a.ep["in"].busy = s.ep["in"].busy
      /\ a.ep["out"].type = TRUE /\ a.ep["out"].halted = s.ep["out"].halted
      /\ a.ep["out"].busy = s.ep["out"].busy
      /\ \A f \in Five \ {"in", "out"} : a.ep[f] = s.ep[f]
  BY <1>1, <1>2, EndpointFacts DEF Typed
<1>4. ~a.ep["in"].busy /\ ~a.ep["out"].busy
  BY <1>3, EndpointFacts DEF NoJobs
<1>5. u = Logged(t, 1, Outcome(a, 1), HaltsNow(a, t.log.halted, 1))
  BY EnableIs DEF IfaceEnable
<1> HIDE DEF a
<1>6. /\ c \in Cdc /\ c.tx = FALSE /\ c.rx = FALSE
      /\ c.ongoing = a.cdc.ongoing /\ c.state = a.cdc.state /\ c.value = a.cdc.value
  BY <1>2, FieldTypes DEF Cdc
<1>7. t = RxStart(x)
  <2>1. b = [a EXCEPT !.cdc.tx = FALSE, !.cdc.rx = FALSE, !.cdc.held = FALSE]
    BY <1>2 DEF States, Cdc
  <2> QED
    BY <2>1 DEF DataEnable
<1> HIDE DEF c
<1>8. /\ b \in States /\ b.core = a.core /\ b.ep = a.ep /\ b.cdc = c
      /\ b.hid = a.hid /\ b.log = a.log /\ b.uart = a.uart
  BY <1>2, <1>6 DEF States
<1> HIDE DEF b
<1>9. /\ x \in States /\ CommSame(b, x) /\ ReportSame(b, x) /\ CoreSame(b, x)
      /\ x.log = b.log /\ x.cdc.rx = b.cdc.rx /\ x.ep["out"] = b.ep["out"]
      /\ x.ep["in"].type = b.ep["in"].type /\ x.ep["in"].halted = b.ep["in"].halted
      /\ Pair(b.cdc.tx, b.ep["in"]) => Pair(x.cdc.tx, x.ep["in"])
  BY <1>8, TxSendKeeps
<1> HIDE DEF x
<1>10. /\ t \in States /\ CommSame(x, t) /\ ReportSame(x, t) /\ CoreSame(x, t)
       /\ t.log = x.log /\ t.cdc.tx = x.cdc.tx /\ t.cdc.rx = TRUE
       /\ t.ep["in"] = x.ep["in"]
       /\ t.ep["out"].type = x.ep["out"].type /\ t.ep["out"].halted = x.ep["out"].halted
       /\ Pair(x.cdc.rx, x.ep["out"]) => Pair(t.cdc.rx, t.ep["out"])
  BY <1>7, <1>9, RxStartKeeps, ZenonT(40)
<1> HIDE DEF t
<1>11. t.log = a.log /\ CommSame(s, t) /\ ReportSame(s, t) /\ CoreSame(s, t)
  <2>1. CommSame(s, b) /\ ReportSame(s, b) /\ CoreSame(s, b)
    BY <1>2, <1>3, <1>6, <1>8 DEF RestSame, CommSame, ReportSame, CoreSame, Five
  <2> QED
    BY <1>8, <1>9, <1>10, <2>1 DEF CommSame, ReportSame, CoreSame
<1>12. /\ Pair(t.cdc.tx, t.ep["in"]) /\ Pair(t.cdc.rx, t.ep["out"]) /\ t.cdc.rx = TRUE
       /\ t.ep["in"].type = TRUE /\ t.ep["out"].type = TRUE
       /\ t.ep["in"].halted = a.ep["in"].halted /\ t.ep["out"].halted = a.ep["out"].halted
  <2>1. b.ep["in"].busy = FALSE /\ b.ep["out"].busy = FALSE
    <3>1. a.ep["in"] \in Ep /\ a.ep["out"] \in Ep
      BY <1>1, <1>2, FieldTypes
    <3> QED
      BY <1>4, <1>8, <3>1 DEF Ep
  <2>2. Pair(b.cdc.tx, b.ep["in"]) /\ Pair(b.cdc.rx, b.ep["out"])
    BY <1>6, <1>8, <2>1 DEF Pair
  <2>3. Pair(t.cdc.tx, t.ep["in"]) /\ Pair(t.cdc.rx, t.ep["out"])
    BY <1>9, <1>10, <2>2
  <2> QED
    BY <1>3, <1>8, <1>9, <1>10, <2>3
<1>13. /\ u \in States
       /\ u.core = t.core /\ u.ep = t.ep /\ u.cdc = t.cdc
       /\ u.uart = t.uart /\ u.hid = t.hid
       /\ u.log.overwritten = a.log.overwritten
       /\ u.log.fate[1] = Outcome(a, 1)
       /\ u.log.fate[0] = a.log.fate[0] /\ u.log.fate[2] = a.log.fate[2]
       /\ "in" \in u.log.halted <=> a.ep["in"].halted
       /\ "out" \in u.log.halted <=> a.ep["out"].halted
       /\ \A e \in Five \ {"in", "out"} : e \in u.log.halted <=> e \in a.log.halted
  <2>1. Ended(a, t, u, 1)
    BY <1>1, <1>2, <1>5, <1>10, <1>11, LogEnabled
  <2>2. /\ Endpoints(1) = {"in", "out"}
        /\ 0 \in Interfaces \ {1} /\ 2 \in Interfaces \ {1}
    BY EndpointFacts
  <2> QED
    BY <2>1, <2>2 DEF Ended
<1>14. Outcome(a, 1) = "failed" => a.ep["out"].halted
  <2>1. Endpoints(1) \cap OutEndpoints = {"out"}
    BY EndpointFacts DEF OutEndpoints
  <2> QED
    BY <1>3, <1>4, <2>1 DEF Outcome, EnableSucceeds, RunAccepted
<1> HIDE DEF u
<1>15. CommSame(s, u) /\ ReportSame(s, u) /\ CoreSame(s, u)
  <2>1. CommSame(t, u) /\ ReportSame(t, u) /\ CoreSame(t, u)
    BY <1>11, <1>13 DEF CommSame, ReportSame, CoreSame, Five
  <2> QED
    BY <1>11, <2>1 DEF CommSame, ReportSame, CoreSame
<1>16. DataInv(u)
  BY <1>12, <1>13, <1>14 DEF Pair, DataInv, FlagInv, HaltInv, On, Works
<1>17. Sound(u)
  BY <1>13, <1>15, <1>16, CommFrame, ReportFrame DEF Sound
<1> QED
  BY <1>15, <1>17 DEF u

LEMMA ReportEnabled ==
    ASSUME NEW s, Sound(s), NoJobs(s, 2), NEW go \in BOOLEAN
    PROVE  /\ Sound(IfaceEnable(s, 2, go))
           /\ CommSame(s, IfaceEnable(s, 2, go)) /\ DataSame(s, IfaceEnable(s, 2, go))
           /\ IfaceEnable(s, 2, go).core = s.core
<1> DEFINE a == EpAlloc(s, 2)
           r == EpRun(a, "rout")
           ok == RunAccepted(a, "rout")
           h == [r.hid EXCEPT !.free = TRUE]
           g == [h EXCEPT !.on = TRUE, !.response = FALSE]
           k == IF ok THEN g ELSE h
           t == GenericEnable(a)
           u == IfaceEnable(s, 2, go)
<1>1. s \in States /\ 2 \in Interfaces /\ "rin" \in Five /\ "rout" \in Five /\ TRUE \in BOOLEAN
  BY EndpointFacts DEF Sound, Five
<1>2. a \in States /\ RestSame(s, a) /\ Typed(s, a, 2, TRUE)
  BY <1>1, AllocIs, SetTypeResult
<1>3. /\ a.ep["rin"].type = TRUE /\ a.ep["rin"].halted = s.ep["rin"].halted
      /\ a.ep["rin"].busy = s.ep["rin"].busy
      /\ a.ep["rout"].type = TRUE /\ a.ep["rout"].halted = s.ep["rout"].halted
      /\ a.ep["rout"].busy = s.ep["rout"].busy
      /\ \A f \in Five \ {"rin", "rout"} : a.ep[f] = s.ep[f]
  BY <1>1, <1>2, EndpointFacts DEF Typed
<1>4. ~a.ep["rin"].busy /\ ~a.ep["rout"].busy
  BY <1>3, EndpointFacts DEF NoJobs
<1>5. u = Logged(t, 2, Outcome(a, 2), HaltsNow(a, t.log.halted, 2))
  BY EnableIs DEF IfaceEnable
<1>6. ok <=> ~a.ep["rout"].halted
  BY <1>3, <1>4 DEF RunAccepted
<1>7. Outcome(a, 2) = IF ok THEN "on" ELSE "failed"
  <2>1. Endpoints(2) \cap OutEndpoints = {"rout"}
    BY EndpointFacts DEF OutEndpoints
  <2> QED
    BY <2>1 DEF Outcome, EnableSucceeds
<1> HIDE DEF a, ok
<1>8. /\ r \in States
      /\ r.core = a.core /\ r.cdc = a.cdc /\ r.uart = a.uart /\ r.hid = a.hid
      /\ r.log = a.log
      /\ \A f \in Five \ {"rout"} : r.ep[f] = a.ep[f]
      /\ r.ep["rout"].type = a.ep["rout"].type
      /\ r.ep["rout"].halted = a.ep["rout"].halted
      /\ r.ep["rout"].busy = (a.ep["rout"].busy \/ ~a.ep["rout"].halted)
  BY <1>1, <1>2, EpRunResult
<1>9. t = [r EXCEPT !.hid = k]
  <2>1. [r EXCEPT !.hid.free = TRUE] = [r EXCEPT !.hid = h]
    BY <1>8 DEF States, Hid
  <2>2. [[r EXCEPT !.hid = h] EXCEPT !.hid.on = TRUE, !.hid.response = FALSE]
            = [r EXCEPT !.hid = g]
    BY <1>8 DEF States, Hid
  <2>3. t = IF ok THEN [r EXCEPT !.hid = g] ELSE [r EXCEPT !.hid = h]
    BY <2>1, <2>2 DEF GenericEnable, ok
  <2> HIDE DEF t, r, h, g
  <2> QED
    BY <2>3
<1>10. k \in Hid /\ k.free = TRUE
  <2>1. r.hid \in Hid
    BY <1>8, FieldTypes
  <2>2. h \in Hid /\ h.free = TRUE
    BY <2>1 DEF Hid
  <2> HIDE DEF h
  <2>3. g \in Hid /\ g.free = TRUE
    BY <2>2 DEF Hid
  <2> HIDE DEF g
  <2> QED
    BY <2>2, <2>3
<1> HIDE DEF k, r
<1>11. /\ t \in States /\ t.core = r.core /\ t.ep = r.ep /\ t.cdc = r.cdc
       /\ t.uart = r.uart /\ t.hid = k /\ t.log = r.log
  BY <1>8, <1>9, <1>10 DEF States
<1> HIDE DEF t
<1>12. /\ u \in States
       /\ u.core = t.core /\ u.ep = t.ep /\ u.cdc = t.cdc
       /\ u.uart = t.uart /\ u.hid = t.hid
       /\ u.log.overwritten = a.log.overwritten
       /\ u.log.fate[2] = Outcome(a, 2)
       /\ u.log.fate[0] = a.log.fate[0] /\ u.log.fate[1] = a.log.fate[1]
       /\ "rin" \in u.log.halted <=> a.ep["rin"].halted
       /\ "rout" \in u.log.halted <=> a.ep["rout"].halted
       /\ \A e \in Five \ {"rin", "rout"} : e \in u.log.halted <=> e \in a.log.halted
  <2>1. Ended(a, t, u, 2)
    BY <1>1, <1>2, <1>5, <1>8, <1>11, LogEnabled
  <2>2. /\ Endpoints(2) = {"rin", "rout"}
        /\ 0 \in Interfaces \ {2} /\ 1 \in Interfaces \ {2}
    BY EndpointFacts
  <2> QED
    BY <2>1, <2>2 DEF Ended
<1> HIDE DEF u
<1>13. /\ u.core = s.core /\ u.cdc = s.cdc
       /\ a.log = s.log /\ a.hid = s.hid
  BY <1>2, <1>8, <1>11, <1>12 DEF RestSame
<1>14. CommSame(s, u) /\ DataSame(s, u)
  BY <1>3, <1>8, <1>11, <1>12, <1>13 DEF CommSame, DataSame, Five
<1>15. /\ u.ep["rin"].type = TRUE /\ u.ep["rin"].halted = a.ep["rin"].halted
       /\ u.ep["rin"].busy = FALSE /\ u.hid.free = TRUE
       /\ u.ep["rout"].type = TRUE /\ u.ep["rout"].halted = a.ep["rout"].halted
       /\ u.ep["rout"].busy = ~a.ep["rout"].halted
  <2>1. a.ep["rin"] \in Ep /\ a.ep["rout"] \in Ep
    BY <1>1, <1>2, FieldTypes
  <2>2. u.ep["rin"] = a.ep["rin"]
    BY <1>8, <1>11, <1>12 DEF Five
  <2> QED
    BY <1>3, <1>4, <1>8, <1>10, <1>11, <1>12, <2>1, <2>2 DEF Ep
<1>16. ReportInv(u)
  <2>1. ~u.log.overwritten
    BY <1>12, <1>13 DEF Sound, ReportInv
  <2> QED
    BY <1>6, <1>7, <1>12, <1>15, <2>1 DEF ReportInv, HaltInv, On, Works
<1>17. Sound(u)
  BY <1>12, <1>14, <1>16, CommFrame, DataFrame DEF Sound
<1> QED
  BY <1>13, <1>14, <1>17 DEF u

-----------------------------------------------------------------------------
(* Configurations and alternate settings *)

LEMMA EnableAllKeeps ==
    ASSUME NEW s, Sound(s), \A e \in Five : ~s.ep[e].busy, NEW go \in BOOLEAN
    PROVE  Sound(EnableAll(s, go)) /\ EnableAll(s, go).core = s.core
<1> DEFINE a == IfaceEnable(s, 0, go)
           b == IfaceEnable(a, 1, go)
           u == EnableAll(s, go)
<1>1. u = IF b.log.fate[1] = "on" THEN IfaceEnable(b, 2, go)
          ELSE Fated(b, 2, "skipped")
  BY DEF EnableAll, Fated
<1>2. NoJobs(s, 0)
  BY EndpointFacts DEF NoJobs, Five
<1>3. Sound(a) /\ DataSame(s, a) /\ ReportSame(s, a) /\ a.core = s.core
  BY <1>2, CommEnabled
<1> HIDE DEF a
<1>4. NoJobs(a, 1)
  BY <1>3, EndpointFacts DEF NoJobs, Five, DataSame
<1>5. Sound(b) /\ ReportSame(a, b) /\ CoreSame(a, b) /\ CommSame(a, b)
  BY <1>3, <1>4, DataEnabled
<1> HIDE DEF b
<1>6. ReportSame(s, b)
  BY <1>3, <1>5, SameTwice
<1>7. NoJobs(b, 2)
  BY <1>6, EndpointFacts DEF NoJobs, Five, ReportSame
<1>8. CASE b.log.fate[1] = "on"
  <2>1. u = IfaceEnable(b, 2, go)
    BY <1>1, <1>8
  <2> HIDE DEF u
  <2> QED
    BY <1>3, <1>5, <1>7, <2>1, ReportEnabled DEF u, CoreSame
<1>9. CASE b.log.fate[1] # "on"
  <2>1. u = Fated(b, 2, "skipped")
    BY <1>1, <1>9
  <2> HIDE DEF u
  <2>2. b \in States /\ 2 \in Interfaces /\ "skipped" \in Fates
    BY <1>5, EndpointFacts DEF Sound, Fates
  <2>3. u = Logged(b, 2, "skipped", b.log.halted) /\ b.log.halted \in SUBSET Five
    BY <2>1, <2>2, FatedIs
  <2>4. /\ u \in States /\ u.core = b.core /\ u.ep = b.ep /\ u.cdc = b.cdc
        /\ u.uart = b.uart /\ u.hid = b.hid /\ u.log.halted = b.log.halted
        /\ u.log.overwritten = b.log.overwritten
        /\ u.log.fate = [b.log.fate EXCEPT ![2] = "skipped"]
    BY <2>2, <2>3, LoggedResult
  <2>5. /\ u.log.fate[2] = "skipped"
        /\ u.log.fate[0] = b.log.fate[0] /\ u.log.fate[1] = b.log.fate[1]
    BY <2>2, <2>4, FieldTypes DEF Interfaces
  <2>6. CommSame(b, u) /\ DataSame(b, u)
    BY <2>4, <2>5 DEF CommSame, DataSame
  <2>7. ReportInv(u)
    BY <1>5, <2>4, <2>5 DEF Sound, ReportInv, HaltInv, On, Works
  <2>8. Sound(u)
    BY <1>5, <2>4, <2>6, <2>7, CommFrame, DataFrame DEF Sound
  <2> QED
    BY <1>3, <1>5, <2>4, <2>8 DEF u, CoreSame
<1> QED
  BY <1>8, <1>9

-----------------------------------------------------------------------------
(* Requests *)

(* A step that changes nothing the invariants speak about *)
LEMMA DeviceFrame ==
    ASSUME NEW s, NEW t \in States, DeviceInv(s),
           CommSame(s, t), DataSame(s, t), ReportSame(s, t),
           t.core.num = 0 => s.core.num = 0 /\ t.uart = s.uart /\ t.hid.on = s.hid.on
    PROVE  DeviceInv(t)
<1>1. CommInv(t) /\ DataInv(t) /\ ReportInv(t)
  BY CommFrame, DataFrame, ReportFrame DEF DeviceInv
<1>2. OffInv(t)
  <2> SUFFICES ASSUME t.core.num = 0
               PROVE  AllOff(t)
    BY DEF OffInv
  <2>1. AllOff(s) /\ t.uart = s.uart /\ t.hid.on = s.hid.on
    BY DEF DeviceInv, OffInv
  <2> QED
    BY <2>1, EndpointFacts DEF AllOff, CommSame, DataSame, ReportSame, Five
<1> QED
  BY <1>1, <1>2 DEF DeviceInv

(* With a configuration the parts are independent. *)
LEMMA Configured ==
    ASSUME NEW t, Sound(t), t.core.num # 0
    PROVE  DeviceInv(t)
BY DEF Sound, DeviceInv, OffInv

LEMMA ConfigurationKeeps ==
    ASSUME NEW s, DeviceInv(s), NEW go \in BOOLEAN
    PROVE  DeviceInv(EnableAll([UdcReset(s) EXCEPT !.core.num = 1], go))
<1> DEFINE a == UdcReset(s)
           k == [a.core EXCEPT !.num = 1]
           b == [a EXCEPT !.core.num = 1]
<1>1. DeviceInv(a) /\ AllOff(a)
  BY ResetKeeps
<1> HIDE DEF a
<1>2. k \in Core /\ k.num = 1
  BY <1>1, FieldTypes DEF DeviceInv, Core
<1>3. b = [a EXCEPT !.core = k]
  OBVIOUS
<1> HIDE DEF k
<1>4. /\ b \in States /\ b.core = k /\ b.ep = a.ep /\ b.cdc = a.cdc
      /\ b.uart = a.uart /\ b.hid = a.hid /\ b.log = a.log
  BY <1>1, <1>2, <1>3 DEF DeviceInv, States
<1> HIDE DEF b
<1>5. CommSame(a, b) /\ DataSame(a, b) /\ ReportSame(a, b)
  BY <1>4 DEF CommSame, DataSame, ReportSame
<1>6. Sound(b)
  BY <1>1, <1>4, <1>5, CommFrame, DataFrame, ReportFrame DEF DeviceInv, Sound
<1>7. \A e \in Five : ~b.ep[e].busy
  BY <1>1, <1>4 DEF AllOff
<1>8. Sound(EnableAll(b, go)) /\ EnableAll(b, go).core = b.core
  BY <1>6, <1>7, EnableAllKeeps
<1>9. DeviceInv(EnableAll(b, go))
  BY <1>2, <1>4, <1>8, Configured
<1> QED
  BY <1>9 DEF b, a

(* An interface that SET_INTERFACE has disabled *)
LEMMA SettingDisables ==
    ASSUME NEW s, DeviceInv(s), NEW i \in Interfaces
    PROVE  /\ Sound(IfaceDisable(s, i)) /\ Gone(IfaceDisable(s, i), i)
           /\ IfaceDisable(s, i).core = s.core
<1>1. LooseInv(s)
  BY Loosened
<1>2. CASE i = 0
  <2> DEFINE u == IfaceDisable(s, 0)
  <2>1. LooseInv(u) /\ Gone(u, 0) /\ DataSame(s, u) /\ ReportSame(s, u) /\ CoreSame(s, u)
    BY <1>1, CommDisabled
  <2> HIDE DEF u
  <2>2. Sound(u)
    BY <2>1, GoneInv, DataFrame, ReportFrame DEF DeviceInv, LooseInv, Sound
  <2> QED
    BY <1>2, <2>1, <2>2 DEF u, CoreSame
<1>3. CASE i = 1
  <2> DEFINE u == IfaceDisable(s, 1)
  <2>1. LooseInv(u) /\ Gone(u, 1) /\ CommSame(s, u) /\ ReportSame(s, u) /\ u.core = s.core
    BY <1>1, DataDisabled
  <2> HIDE DEF u
  <2>2. Sound(u)
    BY <2>1, GoneInv, CommFrame, ReportFrame DEF DeviceInv, LooseInv, Sound
  <2> QED
    BY <1>3, <2>1, <2>2 DEF u
<1>4. CASE i = 2
  <2> DEFINE u == IfaceDisable(s, 2)
  <2>1. LooseInv(u) /\ Gone(u, 2) /\ CommSame(s, u) /\ DataSame(s, u) /\ u.core = s.core
    BY <1>1, ReportDisabled
  <2> HIDE DEF u
  <2>2. Sound(u)
    BY <2>1, GoneInv, CommFrame, DataFrame DEF DeviceInv, LooseInv, Sound
  <2> QED
    BY <1>4, <2>1, <2>2 DEF u
<1> QED
  BY <1>2, <1>3, <1>4, EndpointFacts

LEMMA SettingEnables ==
    ASSUME NEW s, Sound(s), NEW i \in Interfaces, Gone(s, i), NEW go \in BOOLEAN
    PROVE  Sound(IfaceEnable(s, i, go)) /\ IfaceEnable(s, i, go).core = s.core
<1>1. NoJobs(s, i)
  BY DEF Gone, NoJobs
<1>2. CASE i = 0
  BY <1>1, <1>2, CommEnabled
<1>3. CASE i = 1
  <2>1. Sound(IfaceEnable(s, 1, go)) /\ CoreSame(s, IfaceEnable(s, 1, go))
    BY <1>1, <1>3, DataEnabled
  <2> QED
    BY <1>3, <2>1 DEF CoreSame
<1>4. CASE i = 2
  BY <1>1, <1>4, ReportEnabled
<1> QED
  BY <1>2, <1>3, <1>4, EndpointFacts

(* A setting that does not exist *)
LEMMA SettingDrops ==
    ASSUME NEW s, Sound(s), NEW i \in Interfaces, Gone(s, i)
    PROVE  Sound(Fated(s, i, "dropped")) /\ Fated(s, i, "dropped").core = s.core
<1> DEFINE u == Fated(s, i, "dropped")
<1>1. s \in States /\ "dropped" \in Fates
  BY DEF Sound, Fates
<1>2. u = Logged(s, i, "dropped", s.log.halted) /\ s.log.halted \in SUBSET Five
  BY <1>1, FatedIs
<1> HIDE DEF u
<1>3. /\ u \in States /\ u.core = s.core /\ u.ep = s.ep /\ u.cdc = s.cdc
      /\ u.uart = s.uart /\ u.hid = s.hid /\ u.log.halted = s.log.halted
      /\ u.log.overwritten = s.log.overwritten
      /\ u.log.fate = [s.log.fate EXCEPT ![i] = "dropped"]
  BY <1>1, <1>2, LoggedResult
<1>4. \A j \in Interfaces : u.log.fate[j] = IF j = i THEN "dropped" ELSE s.log.fate[j]
  BY <1>1, <1>3, FieldTypes
<1>5. /\ \A j \in {0, 1, 2} : \/ u.log.fate[j] = s.log.fate[j]
                              \/ j = i /\ u.log.fate[j] = "dropped"
  BY <1>4, EndpointFacts
<1>6. CommInv(u)
  BY <1>3, <1>5 DEF Sound, CommInv, MessageInv, HaltInv, On, Works
<1>7. DataInv(u)
  BY <1>3, <1>5 DEF Sound, DataInv, FlagInv, HaltInv, On, Works
<1>8. ReportInv(u)
  BY <1>3, <1>5 DEF Sound, ReportInv, HaltInv, On, Works
<1> QED
  BY <1>3, <1>6, <1>7, <1>8 DEF Sound, u

(* The endpoint e of s is halted, and has no job. *)
Halted(s, e) ==
    [s EXCEPT !.ep[e].halted = TRUE, !.log.halted = @ \cup {e}]

LEMMA HaltedResult ==
    ASSUME NEW s \in States, NEW e \in Five
    PROVE  /\ Halted(s, e) \in States
           /\ Halted(s, e).core = s.core /\ Halted(s, e).cdc = s.cdc
           /\ Halted(s, e).uart = s.uart /\ Halted(s, e).hid = s.hid
           /\ Halted(s, e).log.fate = s.log.fate
           /\ Halted(s, e).log.overwritten = s.log.overwritten
           /\ Halted(s, e).log.halted = s.log.halted \cup {e}
           /\ \A f \in Five \ {e} : Halted(s, e).ep[f] = s.ep[f]
           /\ Halted(s, e).ep[e].type = s.ep[e].type
           /\ Halted(s, e).ep[e].busy = s.ep[e].busy
           /\ Halted(s, e).ep[e].halted = TRUE
<1> DEFINE b == [s.ep[e] EXCEPT !.halted = TRUE]
           p == [s.ep EXCEPT ![e] = b]
           l == [s.log EXCEPT !.halted = @ \cup {e}]
           u == Halted(s, e)
<1>1. s.ep \in [Five -> Ep] /\ s.ep[e] \in Ep /\ s.log \in Log
  BY FieldTypes
<1>2. b \in Ep /\ b.type = s.ep[e].type /\ b.busy = s.ep[e].busy /\ b.halted = TRUE
  BY <1>1 DEF Ep
<1>3. u = [s EXCEPT !.ep = p, !.log = l]
  BY DEF Halted
<1> HIDE DEF b
<1>4. p \in [Five -> Ep] /\ p[e] = b /\ \A f \in Five \ {e} : p[f] = s.ep[f]
  BY <1>1, <1>2
<1>5. s.log.halted \cup {e} \in SUBSET Five
  BY <1>1 DEF Log
<1>6. /\ l \in Log /\ l.halted = s.log.halted \cup {e} /\ l.fate = s.log.fate
      /\ l.overwritten = s.log.overwritten
  BY <1>1, <1>5 DEF Log
<1> HIDE DEF p, l, u
<1>7. /\ u \in States /\ u.ep = p /\ u.log = l /\ u.core = s.core /\ u.cdc = s.cdc
      /\ u.uart = s.uart /\ u.hid = s.hid
  BY <1>3, <1>4, <1>6 DEF States
<1> QED
  BY <1>2, <1>4, <1>6, <1>7 DEF u

(* SET_FEATURE(ENDPOINT_HALT) tells the class driver of the job it ends. *)
LEMMA HaltKeeps ==
    ASSUME NEW s, DeviceInv(s), NEW e \in Five
    PROVE  DeviceInv(EpAbort(Halted(EpAbort(s, e), e), e))
<1> DEFINE a == EpAbort(s, e)
           u == Halted(a, e)
<1>1. s \in States /\ s.ep[e] \in Ep
  BY FieldTypes DEF DeviceInv
<1>2. /\ a \in States /\ EndsJob(s.ep, a.ep, e) /\ AbortKeeps(s, a) /\ AbortTells(s, a, e)
  BY <1>1, AbortResult
<1> HIDE DEF a
<1>3. /\ u \in States
      /\ u.core = a.core /\ u.cdc = a.cdc /\ u.uart = a.uart /\ u.hid = a.hid
      /\ u.log.fate = a.log.fate /\ u.log.overwritten = a.log.overwritten
      /\ u.log.halted = a.log.halted \cup {e}
      /\ \A f \in Five \ {e} : u.ep[f] = a.ep[f]
      /\ u.ep[e].type = a.ep[e].type /\ u.ep[e].busy = a.ep[e].busy
      /\ u.ep[e].halted = TRUE
  BY <1>2, HaltedResult
<1> HIDE DEF u
<1>4. /\ \A f \in Five \ {e} : u.ep[f] = s.ep[f] /\ (f \in u.log.halted <=> f \in s.log.halted)
      /\ u.ep[e].type = s.ep[e].type /\ u.ep[e].busy = FALSE /\ u.ep[e].halted = TRUE
      /\ e \in u.log.halted
      /\ u.log.fate = s.log.fate /\ u.log.overwritten = s.log.overwritten
      /\ u.core = s.core /\ u.uart = s.uart /\ u.hid.on = s.hid.on
      /\ u.hid.response = s.hid.response
      /\ u.cdc.tx = s.cdc.tx /\ u.cdc.rx = s.cdc.rx /\ u.cdc.held = s.cdc.held
  BY <1>2, <1>3 DEF EndsJob, AbortKeeps
<1>5. EpAbort(u, e) = u
  BY <1>4 DEF EpAbort
<1>6. CommInv(u)
  <2>1. CASE e = "comm"
    <3>1. ~u.cdc.ongoing /\ (u.cdc.value => u.cdc.state)
      <4>1. CASE s.ep["comm"].busy
        BY <1>2, <1>3, <2>1, <4>1 DEF AbortTells
      <4>2. CASE ~s.ep["comm"].busy
        <5>1. a = s
          BY <1>2, <2>1, <4>2 DEF AbortTells
        <5> QED
          BY <1>3, <4>2, <5>1 DEF DeviceInv, CommInv, MessageInv
      <4> QED
        BY <4>1, <4>2
    <3>2. /\ u.ep["comm"].type = s.ep["comm"].type /\ ~u.ep["comm"].busy
          /\ "comm" \in u.log.halted /\ u.log.fate = s.log.fate
      BY <1>4, <2>1
    <3> QED
      BY <3>1, <3>2 DEF DeviceInv, CommInv, MessageInv, HaltInv, On, Works
  <2>2. CASE e # "comm"
    <3>1. u.cdc = s.cdc
      BY <1>2, <1>3, <2>2 DEF AbortTells
    <3>2. CommSame(s, u)
      BY <1>4, <2>2, <3>1 DEF CommSame, Five
    <3> QED
      BY <3>2, CommFrame DEF DeviceInv
  <2> QED
    BY <2>1, <2>2
<1>7. DataInv(u)
  <2>1. CASE e = "in"
    BY <1>4, <2>1 DEF DeviceInv, DataInv, FlagInv, HaltInv, On, Works, Five
  <2>2. CASE e = "out"
    BY <1>4, <2>2 DEF DeviceInv, DataInv, FlagInv, HaltInv, On, Works, Five
  <2>3. CASE e # "in" /\ e # "out"
    <3>1. DataSame(s, u)
      BY <1>4, <2>3 DEF DataSame, Five
    <3> QED
      BY <3>1, DataFrame DEF DeviceInv
  <2> QED
    BY <2>1, <2>2, <2>3
<1>8. ReportInv(u)
  <2>1. CASE e = "rin"
    BY <1>4, <2>1 DEF DeviceInv, ReportInv, HaltInv, On, Works, Five
  <2>2. CASE e # "rin"
    <3>1. u.hid = s.hid
      BY <1>2, <1>3, <2>2 DEF AbortTells
    <3>2. CASE e = "rout"
      BY <1>4, <3>1, <3>2 DEF DeviceInv, ReportInv, HaltInv, On, Works, Five
    <3>3. CASE e # "rout"
      <4>1. ReportSame(s, u)
        BY <1>4, <2>2, <3>1, <3>3 DEF ReportSame, Five
      <4> QED
        BY <4>1, ReportFrame DEF DeviceInv
    <3> QED
      BY <3>2, <3>3
  <2> QED
    BY <2>1, <2>2
<1>9. OffInv(u)
  <2> SUFFICES ASSUME u.core.num = 0
               PROVE  AllOff(u)
    BY DEF OffInv
  <2>1. AllOff(s)
    BY <1>4 DEF DeviceInv, OffInv
  <2>2. \A f \in Five : ~u.ep[f].type /\ ~u.ep[f].busy
    BY <1>4, <2>1 DEF AllOff
  <2> QED
    BY <1>4, <2>1, <2>2 DEF AllOff
<1> QED
  BY <1>3, <1>5, <1>6, <1>7, <1>8, <1>9 DEF DeviceInv, a, u

(* Endpoints that are no longer halted: the class drivers are not told. *)
LEMMA UnhaltKeeps ==
    ASSUME NEW s, NEW u \in States, DeviceInv(s),
           \A f \in Five : /\ u.ep[f].busy = s.ep[f].busy /\ u.ep[f].type = s.ep[f].type
                           /\ u.ep[f].halted => s.ep[f].halted,
           u.core = s.core, u.cdc = s.cdc, u.uart = s.uart, u.hid = s.hid, u.log = s.log
    PROVE  DeviceInv(u)
<1>1. \A f \in Five : HaltInv(s, f) => HaltInv(u, f)
  BY DEF HaltInv
<1>2. /\ HaltInv(s, "comm") /\ HaltInv(s, "in") /\ HaltInv(s, "out")
      /\ HaltInv(s, "rin") /\ HaltInv(s, "rout")
  BY DEF DeviceInv, CommInv, MessageInv, DataInv, FlagInv, ReportInv
<1>3. "comm" \in Five /\ "in" \in Five /\ "out" \in Five /\ "rin" \in Five /\ "rout" \in Five
  BY DEF Five
<1>4. /\ HaltInv(u, "comm") /\ HaltInv(u, "in") /\ HaltInv(u, "out")
      /\ HaltInv(u, "rin") /\ HaltInv(u, "rout")
  BY <1>1, <1>2, <1>3
<1>5. /\ u.ep["comm"].busy = s.ep["comm"].busy /\ u.ep["comm"].type = s.ep["comm"].type
      /\ u.ep["in"].busy = s.ep["in"].busy /\ u.ep["in"].type = s.ep["in"].type
      /\ u.ep["out"].busy = s.ep["out"].busy /\ u.ep["out"].type = s.ep["out"].type
      /\ u.ep["rin"].busy = s.ep["rin"].busy /\ u.ep["rin"].type = s.ep["rin"].type
      /\ u.ep["rout"].busy = s.ep["rout"].busy /\ u.ep["rout"].type = s.ep["rout"].type
  BY <1>3
<1>6. CommInv(u)
  BY <1>4, <1>5 DEF DeviceInv, CommInv, MessageInv, On, Works
<1>7. DataInv(u)
  BY <1>4, <1>5 DEF DeviceInv, DataInv, FlagInv, On, Works
<1>8. ReportInv(u)
  BY <1>4, <1>5 DEF DeviceInv, ReportInv, On, Works
<1>9. OffInv(u)
  BY DEF DeviceInv, OffInv, AllOff
<1> QED
  BY <1>6, <1>7, <1>8, <1>9 DEF DeviceInv

(* The bus reset: the peripheral forgets its endpoints, and only that. *)
Cleared(s) ==
    [s EXCEPT !.ep = [e \in Five |->
                        [s.ep[e] EXCEPT !.type = FALSE, !.halted = FALSE]]]

LEMMA ClearedResult ==
    ASSUME NEW s \in States
    PROVE  /\ Cleared(s) \in States /\ RestSame(s, Cleared(s))
           /\ \A e \in Five : /\ Cleared(s).ep[e].type = FALSE
                              /\ Cleared(s).ep[e].halted = FALSE
                              /\ Cleared(s).ep[e].busy = s.ep[e].busy
<1> DEFINE q(e) == [s.ep[e] EXCEPT !.type = FALSE, !.halted = FALSE]
           p == [e \in Five |-> q(e)]
           u == Cleared(s)
<1>1. \A e \in Five : s.ep[e] \in Ep
  BY FieldTypes
<1>2. \A e \in Five : /\ q(e) \in Ep /\ q(e).type = FALSE /\ q(e).halted = FALSE
                      /\ q(e).busy = s.ep[e].busy
  BY <1>1 DEF Ep
<1>3. u = [s EXCEPT !.ep = p]
  BY DEF Cleared
<1> HIDE DEF q
<1>4. p \in [Five -> Ep] /\ \A e \in Five : p[e] = q(e)
  BY <1>2
<1> HIDE DEF p, u
<1>5. u \in States /\ u.ep = p /\ RestSame(s, u)
  BY <1>3, <1>4 DEF States, RestSame
<1> QED
  BY <1>2, <1>4, <1>5 DEF u

LEMMA BusResetKeeps ==
    ASSUME NEW s, DeviceInv(s)
    PROVE  DeviceInv([UdcReset(Cleared(s)) EXCEPT !.core.addressed = FALSE])
<1> DEFINE a == Cleared(s)
           b == UdcReset(a)
           k == [b.core EXCEPT !.addressed = FALSE]
           u == [b EXCEPT !.core.addressed = FALSE]
<1>1. s \in States
  BY DEF DeviceInv
<1>2. /\ a \in States /\ RestSame(s, a)
      /\ \A e \in Five : /\ a.ep[e].type = FALSE /\ a.ep[e].halted = FALSE
                         /\ a.ep[e].busy = s.ep[e].busy
  BY <1>1, ClearedResult
<1> HIDE DEF a
<1>3. LooseInv(a)
  BY <1>2 DEF DeviceInv, LooseInv, CommInv, MessageInv, ReportInv, HaltInv, RestSame, Five
<1>4. DeviceInv(b)
  <2>1. CASE s.core.num = 0
    <3>1. AllOff(a)
      BY <1>2, <2>1 DEF DeviceInv, OffInv, AllOff, RestSame
    <3>2. Gone(a, 0) /\ Gone(a, 1) /\ Gone(a, 2)
      BY <3>1, EndpointFacts DEF AllOff, Gone, Five
    <3>3. a.core.num = 0
      BY <1>2, <2>1 DEF RestSame
    <3>4. b = a
      BY <3>3 DEF UdcReset
    <3> QED
      BY <1>2, <1>3, <3>1, <3>2, <3>4, GoneInv DEF DeviceInv, OffInv
  <2>2. CASE s.core.num # 0
    BY <1>2, <1>3, <2>2, ResetResult DEF RestSame
  <2> QED
    BY <2>1, <2>2
<1> HIDE DEF b
<1>5. b \in States /\ b.core \in Core
  BY <1>4, FieldTypes DEF DeviceInv
<1>6. k \in Core /\ k.num = b.core.num
  BY <1>5 DEF Core
<1>7. u = [b EXCEPT !.core = k]
  OBVIOUS
<1> HIDE DEF k
<1>8. /\ u \in States /\ u.core = k /\ u.ep = b.ep /\ u.cdc = b.cdc
      /\ u.uart = b.uart /\ u.hid = b.hid /\ u.log = b.log
  BY <1>5, <1>6, <1>7 DEF States
<1> HIDE DEF u
<1>9. DeviceInv(u)
  BY <1>4, <1>6, <1>8, DeviceFrame DEF CommSame, DataSame, ReportSame
<1> QED
  BY <1>9 DEF u, b, a

LEMMA DetachKeeps ==
    ASSUME NEW s, DeviceInv(s)
    PROVE  DeviceInv([UdcReset(s) EXCEPT !.core.attached = FALSE])
<1> DEFINE b == UdcReset(s)
           k == [b.core EXCEPT !.attached = FALSE]
           u == [b EXCEPT !.core.attached = FALSE]
<1>1. DeviceInv(b)
  BY ResetKeeps
<1> HIDE DEF b
<1>2. b \in States /\ b.core \in Core
  BY <1>1, FieldTypes DEF DeviceInv
<1>3. k \in Core /\ k.num = b.core.num
  BY <1>2 DEF Core
<1>4. u = [b EXCEPT !.core = k]
  OBVIOUS
<1> HIDE DEF k
<1>5. /\ u \in States /\ u.core = k /\ u.ep = b.ep /\ u.cdc = b.cdc
      /\ u.uart = b.uart /\ u.hid = b.hid /\ u.log = b.log
  BY <1>2, <1>3, <1>4 DEF States
<1> HIDE DEF u
<1>6. DeviceInv(u)
  BY <1>1, <1>3, <1>5, DeviceFrame DEF CommSame, DataSame, ReportSame
<1> QED
  BY <1>6 DEF u, b

-----------------------------------------------------------------------------
(* Transfers *)

(* A transfer, and a received buffer, need a configuration. *)
LEMMA NeedsConfiguration ==
    ASSUME NEW s, DeviceInv(s)
    PROVE  /\ \A e \in Five : s.ep[e].type => s.core.num # 0
           /\ s.uart => s.core.num # 0
BY DEF DeviceInv, OffInv, AllOff

(* A transfer that is run again in its own callback is the same job. *)
LEMMA RunAgain ==
    ASSUME NEW s \in States, NEW e \in Five, s.ep[e].busy, ~s.ep[e].halted
    PROVE  EpRun(Idle(s, e), e) = s
<1> DEFINE a == Idle(s, e)
           r == EpRun(a, e)
<1>1. /\ a \in States /\ a.core = s.core /\ a.cdc = s.cdc /\ a.uart = s.uart
      /\ a.hid = s.hid /\ a.log = s.log
      /\ \A f \in Five \ {e} : a.ep[f] = s.ep[f]
      /\ a.ep[e].type = s.ep[e].type /\ a.ep[e].halted = s.ep[e].halted
      /\ a.ep[e].busy = FALSE
  BY IdleResult
<1> HIDE DEF a
<1>2. /\ r \in States /\ r.core = a.core /\ r.cdc = a.cdc /\ r.uart = a.uart
      /\ r.hid = a.hid /\ r.log = a.log
      /\ \A f \in Five \ {e} : r.ep[f] = a.ep[f]
      /\ r.ep[e].type = a.ep[e].type /\ r.ep[e].halted = a.ep[e].halted
      /\ r.ep[e].busy = (a.ep[e].busy \/ ~a.ep[e].halted)
  BY <1>1, EpRunResult
<1> HIDE DEF r
<1>3. r.ep[e] = s.ep[e]
  <2>1. s.ep[e] \in Ep /\ r.ep[e] \in Ep
    BY <1>2, FieldTypes
  <2> QED
    BY <1>1, <1>2, <2>1 DEF Ep
<1>4. r.ep = s.ep
  <2>1. s.ep \in [Five -> Ep] /\ r.ep \in [Five -> Ep]
    BY <1>2, FieldTypes
  <2>2. \A f \in Five : r.ep[f] = s.ep[f]
    BY <1>1, <1>2, <1>3
  <2> QED
    BY <2>1, <2>2
<1>5. r = s
  BY <1>1, <1>2, <1>4 DEF States
<1> QED
  BY <1>5 DEF r, a

LEMMA NotificationKeeps ==
    ASSUME NEW s, DeviceInv(s), s.ep["comm"].type
    PROVE  DeviceInv(MsgSent(Idle(s, "comm")))
<1> DEFINE a == Idle(s, "comm")
           u == MsgSent(a)
<1>1. s \in States /\ "comm" \in Five
  BY DEF DeviceInv, Five
<1>2. /\ a \in States /\ a.core = s.core /\ a.cdc = s.cdc /\ a.log = s.log
      /\ a.hid = s.hid /\ \A f \in Five \ {"comm"} : a.ep[f] = s.ep[f]
      /\ a.ep["comm"].busy = FALSE /\ a.ep["comm"].type = s.ep["comm"].type
      /\ a.ep["comm"].halted = s.ep["comm"].halted
  BY <1>1, IdleResult
<1> HIDE DEF a
<1>3. /\ u \in States /\ u.core = a.core /\ u.ep = a.ep /\ u.log = a.log
  BY <1>2, MsgSentResult
<1>4. /\ DataSame(a, u) /\ ReportSame(a, u)
      /\ ~u.cdc.ongoing /\ ~u.cdc.state /\ ~u.cdc.value
  BY <1>2, MsgSentKeeps
<1> HIDE DEF u
<1>5. DataSame(s, a) /\ ReportSame(s, a)
  BY <1>2 DEF DataSame, ReportSame, Five
<1>6. CommInv(u)
  BY <1>2, <1>3, <1>4 DEF DeviceInv, CommInv, MessageInv, HaltInv, On, Works
<1>7. Sound(u)
  BY <1>3, <1>4, <1>5, <1>6, DataFrame, ReportFrame DEF DeviceInv, Sound
<1>8. DeviceInv(u)
  BY <1>1, <1>2, <1>3, <1>7, NeedsConfiguration, Configured
<1> QED
  BY <1>8 DEF u, a

(* The CDC data flags with new values *)
WithFlags(s, tx, rx, held) ==
    [s EXCEPT !.cdc = [s.cdc EXCEPT !.tx = tx, !.rx = rx, !.held = held]]

Flagged(s, u, tx, rx, held) ==
    /\ u \in States /\ u.core = s.core /\ u.ep = s.ep /\ u.uart = s.uart
    /\ u.hid = s.hid /\ u.log = s.log
    /\ u.cdc.tx = tx /\ u.cdc.rx = rx /\ u.cdc.held = held
    /\ CommSame(s, u) /\ ReportSame(s, u)

LEMMA WithFlagsResult ==
    ASSUME NEW s \in States, NEW tx \in BOOLEAN, NEW rx \in BOOLEAN, NEW held \in BOOLEAN
    PROVE  Flagged(s, WithFlags(s, tx, rx, held), tx, rx, held)
<1> DEFINE c == [s.cdc EXCEPT !.tx = tx, !.rx = rx, !.held = held]
           u == WithFlags(s, tx, rx, held)
<1>1. /\ c \in Cdc /\ c.tx = tx /\ c.rx = rx /\ c.held = held
      /\ c.ongoing = s.cdc.ongoing /\ c.state = s.cdc.state /\ c.value = s.cdc.value
  BY FieldTypes DEF Cdc
<1>2. u = [s EXCEPT !.cdc = c]
  BY DEF WithFlags
<1> HIDE DEF c, u
<1>3. /\ u \in States /\ u.core = s.core /\ u.ep = s.ep /\ u.uart = s.uart
      /\ u.hid = s.hid /\ u.log = s.log /\ u.cdc = c
  BY <1>1, <1>2 DEF States
<1>4. CommSame(s, u) /\ ReportSame(s, u)
  BY <1>1, <1>3 DEF CommSame, ReportSame
<1>5. Flagged(s, u, tx, rx, held)
  BY <1>1, <1>3, <1>4 DEF Flagged
<1> QED
  BY <1>5 DEF u

(* The flags as the class driver sets them *)
LEMMA FlagsAre ==
    ASSUME NEW s \in States
    PROVE  /\ [s EXCEPT !.cdc.tx = FALSE] = WithFlags(s, FALSE, s.cdc.rx, s.cdc.held)
           /\ [s EXCEPT !.cdc.rx = FALSE] = WithFlags(s, s.cdc.tx, FALSE, s.cdc.held)
           /\ [s EXCEPT !.cdc.held = FALSE] = WithFlags(s, s.cdc.tx, s.cdc.rx, FALSE)
           /\ [s EXCEPT !.cdc.rx = FALSE, !.cdc.held = TRUE]
                 = WithFlags(s, s.cdc.tx, FALSE, TRUE)
           /\ s.cdc.tx \in BOOLEAN /\ s.cdc.rx \in BOOLEAN /\ s.cdc.held \in BOOLEAN
<1>1. s.cdc \in Cdc
  BY FieldTypes
<1> QED
  BY <1>1 DEF WithFlags, Cdc, States

LEMMA DataSentKeeps ==
    ASSUME NEW s, DeviceInv(s), s.ep["in"].type, NEW go \in BOOLEAN
    PROVE  DeviceInv(TxSend([Idle(s, "in") EXCEPT !.cdc.tx = FALSE], go))
<1> DEFINE a == Idle(s, "in")
           b == [a EXCEPT !.cdc.tx = FALSE]
           u == TxSend(b, go)
<1>1. s \in States /\ "in" \in Five
  BY DEF DeviceInv, Five
<1>2. /\ a \in States /\ a.core = s.core /\ a.cdc = s.cdc /\ a.log = s.log
      /\ a.hid = s.hid /\ \A f \in Five \ {"in"} : a.ep[f] = s.ep[f]
      /\ a.ep["in"].busy = FALSE /\ a.ep["in"].type = s.ep["in"].type
      /\ a.ep["in"].halted = s.ep["in"].halted
  BY <1>1, IdleResult
<1> HIDE DEF a
<1>3. Flagged(a, b, FALSE, a.cdc.rx, a.cdc.held)
  <2>1. b = WithFlags(a, FALSE, a.cdc.rx, a.cdc.held)
    BY <1>2, FlagsAre
  <2> HIDE DEF b
  <2>2. a.cdc.rx \in BOOLEAN /\ a.cdc.held \in BOOLEAN
    BY <1>2, FlagsAre
  <2> QED
    BY <1>2, <2>1, <2>2, WithFlagsResult
<1> HIDE DEF b
<1>4. /\ b \in States /\ b.core = a.core /\ b.ep = a.ep /\ b.log = a.log
      /\ b.cdc.tx = FALSE /\ b.cdc.rx = a.cdc.rx /\ b.cdc.held = a.cdc.held
      /\ CommSame(a, b) /\ ReportSame(a, b)
  BY <1>3 DEF Flagged
<1>5. FlagInv(b) /\ (Works(b, 1, "out") => b.cdc.rx \/ b.cdc.held)
  <2>1. b.ep["in"] = a.ep["in"] /\ b.ep["out"] = s.ep["out"] /\ b.log = s.log
        /\ b.cdc.rx = s.cdc.rx /\ b.cdc.held = s.cdc.held
    BY <1>2, <1>4 DEF Five
  <2> QED
    BY <1>2, <1>4, <2>1 DEF DeviceInv, DataInv, FlagInv, HaltInv, On, Works
<1>6. /\ u \in States /\ CommSame(b, u) /\ ReportSame(b, u) /\ CoreSame(b, u)
      /\ u.log = b.log /\ u.cdc.rx = b.cdc.rx /\ u.cdc.held = b.cdc.held
      /\ FlagInv(u)
  BY <1>4, <1>5, TxSendKeeps
<1> HIDE DEF u
<1>7. DataInv(u)
  BY <1>5, <1>6 DEF DataInv, Works, On
<1>8. CommSame(s, a) /\ ReportSame(s, a)
  BY <1>2 DEF CommSame, ReportSame, Five
<1>9. CommSame(s, u) /\ ReportSame(s, u)
  BY <1>4, <1>6, <1>8, SameTwice
<1>10. Sound(u)
  BY <1>6, <1>7, <1>9, CommFrame, ReportFrame DEF DeviceInv, Sound
<1>11. DeviceInv(u)
  BY <1>1, <1>2, <1>4, <1>6, <1>10, NeedsConfiguration, Configured DEF CoreSame
<1> QED
  BY <1>11 DEF u, b, a

(* The three ends of a received transfer *)
LEMMA DataReceivedKeeps ==
    ASSUME NEW s, DeviceInv(s), s.ep["out"].type, s.ep["out"].busy, ~s.ep["out"].halted
    PROVE  /\ DeviceInv(EpRun(Idle(s, "out"), "out"))
           /\ DeviceInv(RxStart([Idle(s, "out") EXCEPT !.cdc.rx = FALSE]))
           /\ DeviceInv([Idle(s, "out") EXCEPT !.cdc.rx = FALSE, !.cdc.held = TRUE])
<1> DEFINE a == Idle(s, "out")
           b == [a EXCEPT !.cdc.rx = FALSE]
           u == EpRun(a, "out")
           v == RxStart(b)
           w == [a EXCEPT !.cdc.rx = FALSE, !.cdc.held = TRUE]
<1>1. s \in States /\ "out" \in Five
  BY DEF DeviceInv, Five
<1>2. /\ a \in States /\ a.core = s.core /\ a.cdc = s.cdc /\ a.log = s.log
      /\ a.hid = s.hid /\ \A f \in Five \ {"out"} : a.ep[f] = s.ep[f]
      /\ a.ep["out"].busy = FALSE /\ a.ep["out"].type = s.ep["out"].type
      /\ a.ep["out"].halted = s.ep["out"].halted
  BY <1>1, IdleResult
<1>3. CommSame(s, a) /\ ReportSame(s, a)
  BY <1>2 DEF CommSame, ReportSame, Five
<1>4. DeviceInv(u)
  BY <1>1, RunAgain
<1> HIDE DEF a, u
<1>5. s.core.num # 0
  BY <1>1, NeedsConfiguration
<1>6. a.cdc.tx \in BOOLEAN /\ a.cdc.held \in BOOLEAN
  BY <1>2, FlagsAre
<1>7. DeviceInv(v)
  <2>1. Flagged(a, b, a.cdc.tx, FALSE, a.cdc.held)
    <3>1. b = WithFlags(a, a.cdc.tx, FALSE, a.cdc.held)
      BY <1>2, FlagsAre
    <3> HIDE DEF b
    <3> QED
      BY <1>2, <1>6, <3>1, WithFlagsResult
  <2> HIDE DEF b
  <2>2. /\ b \in States /\ b.core = a.core /\ b.ep = a.ep /\ b.log = a.log
        /\ b.cdc.tx = a.cdc.tx /\ b.cdc.rx = FALSE
        /\ CommSame(a, b) /\ ReportSame(a, b)
    BY <2>1 DEF Flagged
  <2>3. FlagInv(b)
    <3>1. b.ep["in"] = s.ep["in"] /\ b.ep["out"] = a.ep["out"] /\ b.log = s.log
          /\ b.cdc.tx = s.cdc.tx
      BY <1>2, <2>2 DEF Five
    <3> QED
      BY <1>2, <2>2, <3>1 DEF DeviceInv, DataInv, FlagInv, HaltInv, On, Works
  <2>4. /\ v \in States /\ CommSame(b, v) /\ ReportSame(b, v) /\ CoreSame(b, v)
        /\ DataInv(v)
    BY <2>2, <2>3, RxStartKeeps
  <2> HIDE DEF v
  <2>5. CommSame(s, v) /\ ReportSame(s, v)
    BY <1>3, <2>2, <2>4, SameTwice
  <2>6. Sound(v)
    BY <2>4, <2>5, CommFrame, ReportFrame DEF DeviceInv, Sound
  <2> QED
    BY <1>2, <1>5, <2>2, <2>4, <2>6, Configured DEF CoreSame
<1>8. DeviceInv(w)
  <2>1. Flagged(a, w, a.cdc.tx, FALSE, TRUE)
    <3>1. w = WithFlags(a, a.cdc.tx, FALSE, TRUE)
      BY <1>2, FlagsAre
    <3> HIDE DEF w
    <3> QED
      BY <1>2, <1>6, <3>1, WithFlagsResult
  <2> HIDE DEF w
  <2>2. /\ w \in States /\ w.core = a.core /\ w.ep = a.ep /\ w.log = a.log
        /\ w.cdc.tx = a.cdc.tx /\ w.cdc.rx = FALSE /\ w.cdc.held = TRUE
        /\ CommSame(a, w) /\ ReportSame(a, w)
    BY <2>1 DEF Flagged
  <2>3. DataInv(w)
    <3>1. w.ep["in"] = s.ep["in"] /\ w.ep["out"] = a.ep["out"] /\ w.log = s.log
          /\ w.cdc.tx = s.cdc.tx
      BY <1>2, <2>2 DEF Five
    <3> QED
      BY <1>2, <2>2, <3>1 DEF DeviceInv, DataInv, FlagInv, HaltInv, On, Works
  <2>4. CommSame(s, w) /\ ReportSame(s, w)
    BY <1>3, <2>2, SameTwice
  <2>5. Sound(w)
    BY <2>2, <2>3, <2>4, CommFrame, ReportFrame DEF DeviceInv, Sound
  <2> QED
    BY <1>2, <1>5, <2>2, <2>5, Configured
<1> QED
  BY <1>4, <1>7, <1>8 DEF u, v, w, b, a

LEMMA BufferReadKeeps ==
    ASSUME NEW s, DeviceInv(s), s.uart
    PROVE  DeviceInv(RxStart([s EXCEPT !.cdc.held = FALSE]))
<1> DEFINE b == [s EXCEPT !.cdc.held = FALSE]
           v == RxStart(b)
<1>1. s \in States /\ s.core.num # 0
  BY NeedsConfiguration DEF DeviceInv
<1>2. Flagged(s, b, s.cdc.tx, s.cdc.rx, FALSE)
  <2>1. b = WithFlags(s, s.cdc.tx, s.cdc.rx, FALSE)
    BY <1>1, FlagsAre
  <2> HIDE DEF b
  <2>2. s.cdc.tx \in BOOLEAN /\ s.cdc.rx \in BOOLEAN
    BY <1>1, FlagsAre
  <2> QED
    BY <1>1, <2>1, <2>2, WithFlagsResult
<1> HIDE DEF b
<1>3. /\ b \in States /\ b.core = s.core /\ b.ep = s.ep /\ b.log = s.log
      /\ b.cdc.tx = s.cdc.tx /\ b.cdc.rx = s.cdc.rx
      /\ CommSame(s, b) /\ ReportSame(s, b)
  BY <1>2 DEF Flagged
<1>4. FlagInv(b)
  BY <1>3 DEF DeviceInv, DataInv, FlagInv, HaltInv, On, Works
<1>5. /\ v \in States /\ CommSame(b, v) /\ ReportSame(b, v) /\ CoreSame(b, v)
      /\ DataInv(v)
  BY <1>3, <1>4, RxStartKeeps
<1> HIDE DEF v
<1>6. CommSame(s, v) /\ ReportSame(s, v)
  BY <1>3, <1>5, SameTwice
<1>7. Sound(v)
  BY <1>5, <1>6, CommFrame, ReportFrame DEF DeviceInv, Sound
<1>8. DeviceInv(v)
  BY <1>1, <1>3, <1>5, <1>7, Configured DEF CoreSame
<1> QED
  BY <1>8 DEF v, b

LEMMA OverrunKeeps ==
    ASSUME NEW s, DeviceInv(s), s.uart
    PROVE  DeviceInv(SignalOverrun(s))
<1> DEFINE u == SignalOverrun(s)
<1>1. /\ u \in States /\ CommInv(u) /\ DataSame(s, u) /\ ReportSame(s, u) /\ CoreSame(s, u)
  BY SignalOverrunKeeps DEF DeviceInv
<1>2. s.core.num # 0
  BY NeedsConfiguration
<1> HIDE DEF u
<1>3. Sound(u)
  BY <1>1, DataFrame, ReportFrame DEF DeviceInv, Sound
<1>4. DeviceInv(u)
  BY <1>1, <1>2, <1>3, Configured DEF CoreSame
<1> QED
  BY <1>4 DEF u

LEMMA ReportInSentKeeps ==
    ASSUME NEW s, DeviceInv(s), s.ep["rin"].type
    PROVE  DeviceInv(Freed(Idle(s, "rin")))
<1> DEFINE a == Idle(s, "rin")
           u == Freed(a)
<1>1. s \in States /\ "rin" \in Five
  BY DEF DeviceInv, Five
<1>2. /\ a \in States /\ a.core = s.core /\ a.cdc = s.cdc /\ a.log = s.log
      /\ a.hid = s.hid /\ \A f \in Five \ {"rin"} : a.ep[f] = s.ep[f]
      /\ a.ep["rin"].busy = FALSE /\ a.ep["rin"].type = s.ep["rin"].type
      /\ a.ep["rin"].halted = s.ep["rin"].halted
  BY <1>1, IdleResult
<1> HIDE DEF a
<1>3. /\ u \in States /\ u.core = a.core /\ u.cdc = a.cdc /\ u.ep = a.ep
      /\ u.log = a.log /\ u.hid.free = TRUE
  BY <1>2, FreedResult
<1> HIDE DEF u
<1>4. CommSame(s, u) /\ DataSame(s, u)
  BY <1>2, <1>3 DEF CommSame, DataSame, Five
<1>5. ReportInv(u)
  <2>1. u.ep["rout"] = s.ep["rout"] /\ u.ep["rin"] = a.ep["rin"] /\ u.log = s.log
    BY <1>2, <1>3 DEF Five
  <2> QED
    BY <1>2, <1>3, <2>1 DEF DeviceInv, ReportInv, HaltInv, On, Works
<1>6. Sound(u)
  BY <1>3, <1>4, <1>5, CommFrame, DataFrame DEF DeviceInv, Sound
<1>7. DeviceInv(u)
  BY <1>1, <1>2, <1>3, <1>6, NeedsConfiguration, Configured
<1> QED
  BY <1>7 DEF u, a

LEMMA ReportOutKeeps ==
    ASSUME NEW s, DeviceInv(s), s.ep["rout"].type, s.ep["rout"].busy, ~s.ep["rout"].halted
    PROVE  LET r == EpRun(Idle(s, "rout"), "rout")
           IN DeviceInv(r) /\ DeviceInv([r EXCEPT !.hid.response = TRUE])
<1> DEFINE r == EpRun(Idle(s, "rout"), "rout")
           h == [s.hid EXCEPT !.response = TRUE]
           u == [s EXCEPT !.hid.response = TRUE]
<1>1. s \in States /\ "rout" \in Five
  BY DEF DeviceInv, Five
<1>2. r = s
  BY <1>1, RunAgain
<1> HIDE DEF r
<1>3. h \in Hid /\ h.free = s.hid.free
  BY <1>1, FieldTypes DEF Hid
<1>4. u = [s EXCEPT !.hid = h]
  OBVIOUS
<1> HIDE DEF h
<1>5. /\ u \in States /\ u.core = s.core /\ u.cdc = s.cdc /\ u.ep = s.ep
      /\ u.log = s.log /\ u.hid = h
  BY <1>1, <1>3, <1>4 DEF States
<1> HIDE DEF u
<1>6. CommSame(s, u) /\ DataSame(s, u)
  BY <1>5 DEF CommSame, DataSame
<1>7. ReportInv(u)
  <2>1. s.ep["rin"].type
    BY DEF DeviceInv, ReportInv
  <2> QED
    BY <1>3, <1>5, <2>1 DEF DeviceInv, ReportInv, HaltInv, On, Works
<1>8. Sound(u)
  BY <1>5, <1>6, <1>7, CommFrame, DataFrame DEF DeviceInv, Sound
<1>9. DeviceInv(u)
  BY <1>1, <1>5, <1>8, NeedsConfiguration, Configured
<1> QED
  BY <1>2, <1>9 DEF u, r

LEMMA SofKeeps ==
    ASSUME NEW s, DeviceInv(s), s.core.num # 0, NEW go \in BOOLEAN
    PROVE  DeviceInv(ReportPump(TxSend(s, go)))
<1> DEFINE a == TxSend(s, go)
           u == ReportPump(a)
<1>1. s \in States /\ FlagInv(s)
  BY DEF DeviceInv, DataInv
<1>2. /\ a \in States /\ CommSame(s, a) /\ ReportSame(s, a) /\ CoreSame(s, a)
      /\ a.log = s.log /\ a.cdc.rx = s.cdc.rx /\ a.cdc.held = s.cdc.held /\ FlagInv(a)
  BY <1>1, TxSendKeeps
<1> HIDE DEF a
<1>3. DataInv(a)
  BY <1>2 DEF DeviceInv, DataInv, Works, On
<1>4. CommInv(a) /\ ReportInv(a)
  BY <1>2, CommFrame, ReportFrame DEF DeviceInv
<1>5. /\ u \in States /\ ReportInv(u) /\ CommSame(a, u) /\ DataSame(a, u) /\ CoreSame(a, u)
  BY <1>2, <1>4, ReportPumpKeeps
<1> HIDE DEF u
<1>6. Sound(u)
  BY <1>3, <1>4, <1>5, CommFrame, DataFrame DEF Sound
<1>7. DeviceInv(u)
  BY <1>2, <1>5, <1>6, Configured DEF CoreSame
<1> QED
  BY <1>7 DEF u, a

-----------------------------------------------------------------------------
(* The specification *)

LEMMA BecomesIs ==
    ASSUME NEW u \in States, Becomes(u)
    PROVE  St' = u
BY DEF Becomes, St, States

LEMMA StFields ==
    /\ St.core = core /\ St.ep = ep /\ St.cdc = cdc /\ St.uart = uart
    /\ St.hid = hid /\ St.log = log
BY DEF St

LEMMA StepKeeps ==
    ASSUME NEW u, Becomes(u), DeviceInv(u)
    PROVE  IInv'
<1>1. u \in States
  BY DEF DeviceInv
<1>2. St' = u
  BY <1>1, BecomesIs
<1> QED
  BY <1>2 DEF IInv

LEMMA SetAddressKeeps ==
    ASSUME IInv, SetAddress
    PROVE  IInv'
<1> DEFINE k == [core EXCEPT !.addressed = TRUE]
           u == [St EXCEPT !.core = k]
<1>1. St \in States /\ core \in Core
  BY FieldTypes, StFields DEF IInv, DeviceInv
<1>2. k \in Core /\ k.num = core.num
  BY <1>1 DEF Core
<1>3. core' = k /\ UNCHANGED <<ep, cdc, uart, hid, log>>
  BY DEF SetAddress
<1> HIDE DEF k
<1>4. /\ u \in States /\ u.core = k /\ u.ep = ep /\ u.cdc = cdc /\ u.uart = uart
      /\ u.hid = hid /\ u.log = log
  BY <1>1, <1>2, StFields DEF States
<1> HIDE DEF u
<1>5. Becomes(u)
  BY <1>3, <1>4 DEF Becomes
<1>6. DeviceInv(u)
  BY <1>2, <1>4, StFields, DeviceFrame DEF IInv, CommSame, DataSame, ReportSame
<1> QED
  BY <1>5, <1>6, StepKeeps

LEMMA LineCodingKeeps ==
    ASSUME IInv, LineCodingReceived
    PROVE  IInv'
<1> DEFINE u == [St EXCEPT !.uart = TRUE]
<1>1. St \in States
  BY DEF IInv, DeviceInv
<1>2. core.num # 0 /\ uart' = TRUE /\ UNCHANGED <<core, ep, cdc, hid, log>>
  BY DEF LineCodingReceived
<1>3. /\ u \in States /\ u.core = core /\ u.ep = ep /\ u.cdc = cdc /\ u.uart = TRUE
      /\ u.hid = hid /\ u.log = log
  BY <1>1, StFields DEF States
<1> HIDE DEF u
<1>4. Becomes(u)
  BY <1>2, <1>3 DEF Becomes
<1>5. DeviceInv(u)
  BY <1>2, <1>3, StFields, DeviceFrame DEF IInv, CommSame, DataSame, ReportSame
<1> QED
  BY <1>4, <1>5, StepKeeps

LEMMA ClearHaltKeeps ==
    ASSUME IInv, NEW e \in Five, ClearHalt(e)
    PROVE  IInv'
<1> DEFINE b == [ep[e] EXCEPT !.halted = FALSE]
           p == [ep EXCEPT ![e] = b]
           u == [St EXCEPT !.ep = p]
<1>1. St \in States /\ ep \in [Five -> Ep] /\ ep[e] \in Ep
  BY FieldTypes, StFields DEF IInv, DeviceInv
<1>2. /\ ep[e].halted /\ ep' = p /\ UNCHANGED <<core, cdc, uart, hid, log>>
  BY DEF ClearHalt
<1>3. b \in Ep /\ b.halted = FALSE /\ b.busy = ep[e].busy /\ b.type = ep[e].type
  BY <1>1 DEF Ep
<1> HIDE DEF b
<1>4. p \in [Five -> Ep] /\ p[e] = b /\ \A f \in Five \ {e} : p[f] = ep[f]
  BY <1>1, <1>3
<1> HIDE DEF p
<1>5. /\ u \in States /\ u.core = core /\ u.ep = p /\ u.cdc = cdc /\ u.uart = uart
      /\ u.hid = hid /\ u.log = log
  BY <1>1, <1>4, StFields DEF States
<1> HIDE DEF u
<1>6. Becomes(u)
  BY <1>2, <1>5 DEF Becomes
<1>7. \A f \in Five : /\ u.ep[f].busy = St.ep[f].busy /\ u.ep[f].type = St.ep[f].type
                      /\ u.ep[f].halted => St.ep[f].halted
  BY <1>3, <1>4, <1>5, StFields
<1>8. /\ u.core = St.core /\ u.cdc = St.cdc /\ u.uart = St.uart /\ u.hid = St.hid
      /\ u.log = St.log
  BY <1>5, StFields
<1>9. DeviceInv(u)
  BY <1>5, <1>7, <1>8, UnhaltKeeps DEF IInv
<1> QED
  BY <1>6, <1>9, StepKeeps

LEMMA SetConfigurationKeeps ==
    ASSUME IInv, NEW num \in {0, 1}, SetConfiguration(num)
    PROVE  IInv'
<1>1. PICK go \in BOOLEAN :
        Becomes(IF num = 0 THEN UdcReset(St)
                ELSE EnableAll([UdcReset(St) EXCEPT !.core.num = num], go))
  BY DEF SetConfiguration
<1>2. CASE num = 0
  <2>1. Becomes(UdcReset(St))
    BY <1>1, <1>2
  <2>2. DeviceInv(UdcReset(St))
    BY ResetKeeps DEF IInv
  <2> QED
    BY <2>1, <2>2, StepKeeps
<1>3. CASE num = 1
  <2> DEFINE u == EnableAll([UdcReset(St) EXCEPT !.core.num = 1], go)
  <2>1. Becomes(u)
    BY <1>1, <1>3
  <2>2. DeviceInv(u)
    BY ConfigurationKeeps DEF IInv
  <2> HIDE DEF u
  <2> QED
    BY <2>1, <2>2, StepKeeps
<1> QED
  BY <1>2, <1>3

LEMMA SetInterfaceKeeps ==
    ASSUME IInv, NEW i \in Interfaces, NEW setting \in {0, 1}, SetInterface(i, setting)
    PROVE  IInv'
<1> DEFINE s == IfaceDisable(St, i)
<1>1. core.num # 0
  BY DEF SetInterface
<1>2. PICK go \in BOOLEAN :
        Becomes(IF setting # 0 THEN [s EXCEPT !.log.fate[i] = "dropped"]
                ELSE IfaceEnable(s, i, go))
  BY DEF SetInterface
<1>3. Sound(s) /\ Gone(s, i) /\ s.core.num # 0
  BY <1>1, SettingDisables, StFields DEF IInv
<1> HIDE DEF s
<1>4. CASE setting # 0
  <2>1. Becomes(Fated(s, i, "dropped"))
    BY <1>2, <1>4 DEF Fated
  <2>2. DeviceInv(Fated(s, i, "dropped"))
    BY <1>3, SettingDrops, Configured
  <2> QED
    BY <2>1, <2>2, StepKeeps
<1>5. CASE setting = 0
  <2>1. Becomes(IfaceEnable(s, i, go))
    BY <1>2, <1>5
  <2>2. DeviceInv(IfaceEnable(s, i, go))
    BY <1>3, SettingEnables, Configured
  <2> QED
    BY <2>1, <2>2, StepKeeps
<1> QED
  BY <1>4, <1>5

LEMMA SetHaltKeeps ==
    ASSUME IInv, NEW e \in Five, SetHalt(e)
    PROVE  IInv'
<1>1. Becomes(EpAbort(Halted(EpAbort(St, e), e), e))
  BY DEF SetHalt, Halted
<1>2. DeviceInv(EpAbort(Halted(EpAbort(St, e), e), e))
  BY HaltKeeps DEF IInv
<1> QED
  BY <1>1, <1>2, StepKeeps

LEMMA SetFeatureKeeps ==
    ASSUME IInv, SetFeature
    PROVE  IInv'
<1>1. Becomes([UdcReset(St) EXCEPT !.core.attached = FALSE])
  BY DEF SetFeature
<1>2. DeviceInv([UdcReset(St) EXCEPT !.core.attached = FALSE])
  BY DetachKeeps DEF IInv
<1> QED
  BY <1>1, <1>2, StepKeeps

LEMMA ResetStepKeeps ==
    ASSUME IInv, BusReset
    PROVE  IInv'
<1>1. Becomes([UdcReset(Cleared(St)) EXCEPT !.core.addressed = FALSE])
  <2>1. Cleared(St) = [St EXCEPT !.ep = [e \in AllEndpoints |->
                         [ep[e] EXCEPT !.type = FALSE, !.halted = FALSE]]]
    BY StFields, EndpointFacts DEF Cleared
  <2> QED
    BY <2>1 DEF BusReset
<1>2. DeviceInv([UdcReset(Cleared(St)) EXCEPT !.core.addressed = FALSE])
  BY BusResetKeeps DEF IInv
<1> QED
  BY <1>1, <1>2, StepKeeps

LEMMA TransferKeeps ==
    ASSUME IInv, NotificationSent \/ DataSent \/ DataReceived \/ ReportInSent
                 \/ ReportOutReceived
    PROVE  IInv'
<1>1. \A e : /\ Transfers(e) => St.ep[e].type /\ St.ep[e].busy /\ ~St.ep[e].halted
             /\ Completed(e) = Idle(St, e)
  BY StFields DEF Transfers, Completed, Idle
<1>2. CASE NotificationSent
  <2>1. DeviceInv(MsgSent(Idle(St, "comm"))) /\ Becomes(MsgSent(Idle(St, "comm")))
    BY <1>1, <1>2, NotificationKeeps DEF NotificationSent, IInv
  <2> QED
    BY <2>1, StepKeeps
<1>3. CASE DataSent
  <2>1. PICK go \in BOOLEAN : Becomes(TxSend([Idle(St, "in") EXCEPT !.cdc.tx = FALSE], go))
    BY <1>1, <1>3 DEF DataSent
  <2>2. DeviceInv(TxSend([Idle(St, "in") EXCEPT !.cdc.tx = FALSE], go))
    BY <1>1, <1>3, DataSentKeeps DEF DataSent, IInv
  <2> QED
    BY <2>1, <2>2, StepKeeps
<1>4. CASE DataReceived
  <2> DEFINE a == Idle(St, "out")
             u == EpRun(a, "out")
             v == RxStart([a EXCEPT !.cdc.rx = FALSE])
             w == [a EXCEPT !.cdc.rx = FALSE, !.cdc.held = TRUE]
  <2>1. Becomes(u) \/ Becomes(v) \/ Becomes(w)
    BY <1>1, <1>4 DEF DataReceived
  <2>2. DeviceInv(u) /\ DeviceInv(v) /\ DeviceInv(w)
    BY <1>1, <1>4, DataReceivedKeeps DEF DataReceived, IInv
  <2> HIDE DEF u, v, w
  <2> QED
    BY <2>1, <2>2, StepKeeps
<1>5. CASE ReportInSent
  <2>1. Becomes(Freed(Idle(St, "rin")))
    BY <1>1, <1>5 DEF ReportInSent, Freed
  <2>2. DeviceInv(Freed(Idle(St, "rin")))
    BY <1>1, <1>5, ReportInSentKeeps DEF ReportInSent, IInv
  <2> QED
    BY <2>1, <2>2, StepKeeps
<1>6. CASE ReportOutReceived
  <2> DEFINE r == EpRun(Idle(St, "rout"), "rout")
             u == [r EXCEPT !.hid.response = TRUE]
  <2>1. Becomes(r) \/ Becomes(u)
    BY <1>1, <1>6 DEF ReportOutReceived
  <2>2. DeviceInv(r) /\ DeviceInv(u)
    BY <1>1, <1>6, ReportOutKeeps DEF ReportOutReceived, IInv
  <2> HIDE DEF r, u
  <2> QED
    BY <2>1, <2>2, StepKeeps
<1> QED
  BY <1>2, <1>3, <1>4, <1>5, <1>6

LEMMA HandlerKeeps ==
    ASSUME IInv, BufferRead \/ Overrun \/ SofInterrupt
    PROVE  IInv'
<1>1. CASE BufferRead
  <2>1. Becomes(RxStart([St EXCEPT !.cdc.held = FALSE])) /\ St.uart
    BY <1>1, StFields DEF BufferRead
  <2>2. DeviceInv(RxStart([St EXCEPT !.cdc.held = FALSE]))
    BY <2>1, BufferReadKeeps DEF IInv
  <2> QED
    BY <2>1, <2>2, StepKeeps
<1>2. CASE Overrun
  <2>1. Becomes(SignalOverrun(St)) /\ St.uart
    BY <1>2, StFields DEF Overrun
  <2>2. DeviceInv(SignalOverrun(St))
    BY <2>1, OverrunKeeps DEF IInv
  <2> QED
    BY <2>1, <2>2, StepKeeps
<1>3. CASE SofInterrupt
  <2>1. PICK go \in BOOLEAN : Becomes(ReportPump(TxSend(St, go)))
    BY <1>3 DEF SofInterrupt
  <2>2. St.core.num # 0
    BY <1>3, StFields DEF SofInterrupt
  <2>3. DeviceInv(ReportPump(TxSend(St, go)))
    BY <2>2, SofKeeps DEF IInv
  <2> QED
    BY <2>1, <2>3, StepKeeps
<1> QED
  BY <1>1, <1>2, <1>3

LEMMA InitHolds ==
    ASSUME Init
    PROVE  IInv
<1> DEFINE p == [e \in Five |-> EpReset]
           f == [i \in Interfaces |-> "off"]
<1>1. /\ ep = p /\ core = [num |-> 0, addressed |-> FALSE, attached |-> TRUE]
      /\ cdc = CdcReset /\ uart = FALSE /\ hid = HidReset /\ log = LogReset
  BY EndpointFacts DEF Init
<1>2. EpReset \in Ep /\ EpReset.type = FALSE /\ EpReset.halted = FALSE /\ EpReset.busy = FALSE
  BY DEF EpReset, Ep
<1>3. p \in [Five -> Ep] /\ \A e \in Five : p[e] = EpReset
  BY <1>2
<1> HIDE DEF p
<1>4. core \in Core /\ core.num = 0
  BY <1>1 DEF Core
<1>5. /\ cdc \in Cdc /\ cdc.ongoing = FALSE /\ cdc.state = FALSE /\ cdc.value = FALSE
      /\ hid \in Hid /\ hid.on = FALSE
  BY <1>1 DEF Cdc, CdcReset, Hid, HidReset
<1>6. LogReset = [fate |-> f, halted |-> {}, overwritten |-> FALSE]
  BY DEF LogReset
<1>7. "off" \in Fates
  BY DEF Fates
<1>8. f \in [Interfaces -> Fates] /\ \A i \in Interfaces : f[i] = "off"
  BY <1>7
<1> HIDE DEF f
<1>9. log \in Log /\ log.fate = f /\ log.overwritten = FALSE /\ log.halted = {}
  BY <1>1, <1>6, <1>8 DEF Log
<1>10. St \in States
  BY <1>1, <1>3, <1>4, <1>5, <1>9 DEF St, States
<1>11. \A e \in Five : St.ep[e].type = FALSE /\ St.ep[e].halted = FALSE /\ St.ep[e].busy = FALSE
  BY <1>1, <1>2, <1>3, StFields
<1>12. AllOff(St)
  BY <1>1, <1>5, <1>8, <1>9, <1>11, StFields DEF AllOff
<1>13. LooseInv(St)
  <2>1. \A e \in Five : HaltInv(St, e)
    BY <1>11 DEF HaltInv
  <2>2. St.log.fate[0] = "off"
    BY <1>12, EndpointFacts DEF AllOff
  <2>3. MessageInv(St)
    BY <1>5, <2>1, <2>2, StFields DEF MessageInv, Five
  <2> QED
    BY <1>9, <1>10, <2>1, <2>3, StFields DEF LooseInv
<1>14. Gone(St, 0) /\ Gone(St, 1) /\ Gone(St, 2)
  BY <1>12, EndpointFacts DEF AllOff, Gone, Five
<1> QED
  BY <1>10, <1>12, <1>13, <1>14, GoneInv DEF IInv, DeviceInv, OffInv

(* The invariant the properties of the device follow from                  *)
THEOREM Invariance == Spec => []IInv
<1>1. Init => IInv
  BY InitHolds
<1>2. IInv /\ [Next]_vars => IInv'
  <2> SUFFICES ASSUME IInv, [Next]_vars
               PROVE  IInv'
    OBVIOUS
  <2>1. CASE UNCHANGED vars
    <3>1. St' = St
      BY <2>1 DEF vars, St
    <3> QED
      BY <3>1 DEF IInv
  <2>2. CASE Next
    <3>1. Haltable \subseteq Five
      BY HaltableAssumption DEF Five
    <3>2. ASSUME NEW e \in Haltable, SetHalt(e) \/ ClearHalt(e)
          PROVE  IInv'
      BY <3>1, <3>2, SetHaltKeeps, ClearHaltKeeps
    <3> QED
      BY <2>2, <3>2, SetAddressKeeps, SetConfigurationKeeps, SetInterfaceKeeps,
         LineCodingKeeps, SetFeatureKeeps, ResetStepKeeps, TransferKeeps, HandlerKeeps
         DEF Next
  <2> QED
    BY <2>1, <2>2
<1> QED
  BY <1>1, <1>2, PTL DEF Spec

(* What a class driver believes about its endpoints is so, whatever the    *)
(* host disabled, enabled, halted or reset before.                         *)
THEOREM Believed == Spec => []FlagsMatchJobs
<1>1. IInv => FlagsMatchJobs
  <2> SUFFICES ASSUME IInv
               PROVE  FlagsMatchJobs
    OBVIOUS
  <2>1. \A e \in Five : ep[e] \in Ep
    BY FieldTypes, StFields DEF IInv, DeviceInv
  <2>2. /\ cdc.ongoing \in BOOLEAN
        /\ ep["comm"].busy \in BOOLEAN
    <3>1. cdc \in Cdc
      BY FieldTypes, StFields DEF IInv, DeviceInv
    <3> QED
      BY <2>1, <3>1 DEF Cdc, Ep, Five
  <2>3. InUse("comm") => cdc.ongoing = ep["comm"].busy
    BY <2>2, EndpointFacts, StFields
       DEF IInv, DeviceInv, CommInv, MessageInv, On, InUse, Enabled
  <2>4. /\ InUse("in") => cdc.tx = ep["in"].busy
        /\ InUse("out") => cdc.rx = ep["out"].busy /\ (cdc.rx \/ cdc.held)
    BY EndpointFacts, StFields
       DEF IInv, DeviceInv, DataInv, FlagInv, On, Works, InUse, Enabled
  <2>5. /\ InUse("rin") => hid.free = ~ep["rin"].busy
        /\ InUse("rout") => ep["rout"].busy
    BY EndpointFacts, StFields DEF IInv, DeviceInv, ReportInv, On, Works, InUse, Enabled
  <2> QED
    BY <2>3, <2>4, <2>5 DEF FlagsMatchJobs
<1> QED
  BY <1>1, Invariance, PTL

(* An overrun is on its way to the host until the message was sent.        *)
THEOREM Reported == Spec => []OverrunReported
<1>1. IInv => OverrunReported
  BY EndpointFacts, StFields
     DEF IInv, DeviceInv, CommInv, MessageInv, On, Works, InUse, Enabled, OverrunReported
<1> QED
  BY <1>1, Invariance, PTL

(* Without a configuration nothing runs, and an interface that was enabled *)
(* and not disabled has its endpoints.                                     *)
THEOREM Configures == Spec => []EnabledAsConfigured
<1>1. IInv => EnabledAsConfigured
  <2> SUFFICES ASSUME IInv
               PROVE  EnabledAsConfigured
    OBVIOUS
  <2>1. core.num = 0 =>
          /\ \A i \in Interfaces : log.fate[i] = "off"
          /\ \A e \in AllEndpoints : ~ep[e].type /\ ~ep[e].busy
          /\ ~uart /\ ~hid.on
    BY EndpointFacts, StFields DEF IInv, DeviceInv, OffInv, AllOff
  <2>2. /\ Enabled(0) => ep["comm"].type
        /\ Enabled(1) => ep["in"].type /\ ep["out"].type
        /\ Enabled(2) => ep["rin"].type /\ ep["rout"].type
    BY StFields DEF IInv, DeviceInv, CommInv, DataInv, FlagInv, ReportInv, On, Enabled
  <2>3. \A i \in Interfaces : Enabled(i) => \A e \in Endpoints(i) : ep[e].type
    BY <2>2, EndpointFacts
  <2> QED
    BY <2>1, <2>3 DEF EnabledAsConfigured
<1> QED
  BY <1>1, Invariance, PTL

(* An interface fails to be enabled only when the host halted its endpoint *)
(* for reports or data from the host.                                      *)
THEOREM FailsForHalt == Spec => []FailsOnlyForHalt
<1>1. IInv => FailsOnlyForHalt
  <2> SUFFICES ASSUME IInv
               PROVE  FailsOnlyForHalt
    OBVIOUS
  <2>1. /\ log.fate[0] # "failed"
        /\ log.fate[1] = "failed" => "out" \in log.halted
        /\ log.fate[2] = "failed" => "rout" \in log.halted
    BY StFields DEF IInv, DeviceInv, CommInv, MessageInv, DataInv, FlagInv, ReportInv
  <2>2. /\ "out" \in Endpoints(1) \cap OutEndpoints
        /\ "rout" \in Endpoints(2) \cap OutEndpoints
    BY EndpointFacts DEF OutEndpoints
  <2>3. ASSUME NEW i \in Interfaces, log.fate[i] = "failed"
        PROVE  Endpoints(i) \cap OutEndpoints \cap log.halted # {}
    <3>1. i \in {0, 1, 2}
      BY EndpointFacts
    <3> QED
      BY <2>1, <2>2, <2>3, <3>1
  <2> QED
    BY <2>3 DEF FailsOnlyForHalt
<1> QED
  BY <1>1, Invariance, PTL

(* No report is filled again while its endpoint sends it.                  *)
THEOREM Intact == Spec => []ReportIntact
<1>1. IInv => ReportIntact
  BY StFields DEF IInv, DeviceInv, ReportInv, ReportIntact
<1> QED
  BY <1>1, Invariance, PTL

=============================================================================
