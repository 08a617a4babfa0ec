--------------------------- MODULE CtrlEp_proofs ----------------------------
(***************************************************************************)
(* Proofs about CtrlEp, for every packet and request size: what the code   *)
(* and the host know of a request agrees through its stages, in every      *)
(* order of their interrupts, if the end of a request is served before the *)
(* next one is sent.                                                       *)
(***************************************************************************)
EXTENDS CtrlEp, TLAPS

Dirs == {"in", "out"}
Flags == {"rxstp", "trcpt1", "trcpt0", "trfail1", "trfail0", "stall1", "stall0"}
CtrlStates == {"setup", "data_out", "data_in", "wait_in_zlp", "wait_out_zlp", "stall_req"}

Ctrl == [state : CtrlStates, dir : Dirs, wLength : Nat, size : Nat,
         callback : BOOLEAN, prev : Nat, nb : Nat, short : BOOLEAN]

Hw == [flags : SUBSET Flags, stallrq : SUBSET Dirs, armed : BOOLEAN, count : Nat,
       loaded : BOOLEAN, pos : Nat, length : Nat]

Ram == [kind : {"data"}, pos : Nat] \cup [kind : {"setup"}, request : Requests]

Log == [owed : BOOLEAN, shook : BOOLEAN, stored : Nat, cut : BOOLEAN,
        twice : BOOLEAN, early : BOOLEAN, inexact : BOOLEAN, foreign : BOOLEAN,
        spurned : SUBSET {"empty", "other"}]

States == [ctrl : Ctrl, hw : Hw, received : Nat, ram : Ram, log : Log]

Host == [stage : {"idle", "data", "status"}, dir : Dirs, wLength : Nat, got : Nat]

-----------------------------------------------------------------------------
(* The inductive invariant *)

Rx == "rxstp" \in hw.flags
T1 == "trcpt1" \in hw.flags
T0 == "trcpt0" \in hw.flags
F1 == "trfail1" \in hw.flags
F0 == "trfail0" \in hw.flags

TypeInv == St \in States /\ host \in Host

(* The callback of the request in ctrl is still to be called. *)
Working == ctrl.callback /\ ctrl.state # "setup"

Good(l) ==
    /\ ~l.twice /\ ~l.early /\ ~l.inexact /\ ~l.foreign
    /\ "other" \notin l.spurned

LogInv == Good(log)

CallInv ==
    /\ log.owed = Working
    /\ Working => ctrl.state \in {"data_out", "wait_in_zlp"}
    /\ Working /\ log.shook => ctrl.state = "wait_in_zlp" /\ T1

(* A setup packet that is not served yet: nothing else moves. *)
TakenInv ==
    /\ ~T1 /\ ~T0 /\ ~hw.loaded /\ ~hw.armed /\ hw.stallrq = {}
    /\ ram.kind = "setup" /\ Legal(ram.request)
    /\ host.dir = ram.request.dir /\ host.wLength = ram.request.wLength
    /\ host.got = 0 /\ host.stage \in {"data", "status"}
    /\ host.stage = "data" => host.wLength > 0
    /\ host.stage = "status" => host.wLength = 0 \/ log.cut
    /\ F1 /\ host.dir = "out" => host.stage = "status"
    /\ F0 /\ host.dir = "in" => host.stage = "status"

(* The host is in the request that ctrl has. *)
Agree == host.stage # "idle" => host.dir = ctrl.dir /\ host.wLength = ctrl.wLength

IdleInv == host.stage = "idle" /\ ~T1 /\ ~T0

RefusedInv == ~hw.loaded /\ ~hw.armed /\ ~T1 /\ ~T0

(* A packet the host gave is next in its place and has all that was left   *)
(* if it is short.                                                         *)
GivenInv ==
    IF T0 THEN /\ ~hw.armed /\ hw.count \in 1 .. CtrlSize
               /\ host.got = ctrl.nb + hw.count /\ host.got <= ctrl.wLength
               /\ hw.count < CtrlSize => host.got = ctrl.wLength
               /\ ram.kind = "data" /\ ram.pos = ctrl.nb
    ELSE host.got = ctrl.nb

DataOutInv ==
    /\ ctrl.dir = "out" /\ Agree /\ host.stage \in {"data", "status"}
    /\ ~hw.loaded /\ ~T1 /\ hw.stallrq = {}
    /\ ctrl.prev = 0 /\ ctrl.nb < ctrl.wLength
    /\ IF ctrl.callback THEN ctrl.size = ctrl.wLength /\ log.stored = ctrl.nb
       ELSE ctrl.size = 0 /\ ctrl.wLength <= CtrlSize /\ ctrl.nb = 0
    /\ GivenInv
    /\ host.stage = "data" => host.got < ctrl.wLength
    /\ host.stage = "status" => log.cut \/ host.got = ctrl.wLength
    /\ F1 => host.stage = "status"

WaitInInv ==
    /\ ctrl.dir = "out" /\ Agree /\ host.stage \in {"status", "idle"}
    /\ ~T0 /\ "in" \notin hw.stallrq
    /\ T1 => host.stage = "idle" /\ log.shook
    /\ ctrl.callback /\ ~log.cut => ctrl.size = log.stored

(* The packet that is loaded starts where the host is, and is short only   *)
(* at the end of the payload.                                              *)
LoadedInv ==
    IF hw.loaded
    THEN /\ ~T1 /\ hw.pos = host.got /\ ctrl.nb = host.got + hw.length
         /\ hw.length <= CtrlSize /\ (hw.length < CtrlSize => ctrl.nb = ctrl.size)
         /\ hw.length > 0 => ctrl.prev = 0
         /\ ctrl.short = (hw.length < CtrlSize)
    ELSE /\ T1 /\ ctrl.nb = host.got /\ host.got < ctrl.wLength
         /\ ctrl.prev = 0 /\ ~ctrl.short

DataInInv ==
    /\ ctrl.dir = "in" /\ Agree /\ ctrl.wLength > 0 /\ hw.stallrq = {}
    /\ ctrl.size <= ctrl.wLength /\ ctrl.nb <= ctrl.size
    /\ F0 => host.stage # "data"
    /\ T0 => host.stage = "idle"
    /\ host.stage = "data" => LoadedInv

(* An empty answer after a short one: the host is still in the data stage. *)
WaitOutInv ==
    /\ ctrl.dir = "in" /\ Agree /\ ctrl.wLength > 0
    /\ "out" \notin hw.stallrq
    /\ host.stage = "data" => ctrl.size = 0 /\ ~hw.loaded
    /\ ~T1
    /\ T0 => host.stage = "idle"

StageInv ==
    /\ ctrl.state = "setup" => IdleInv
    /\ ctrl.state = "stall_req" => RefusedInv
    /\ ctrl.state = "data_out" => DataOutInv
    /\ ctrl.state = "wait_in_zlp" => WaitInInv
    /\ ctrl.state = "data_in" => DataInInv
    /\ ctrl.state = "wait_out_zlp" => WaitOutInv

IInv ==
    /\ TypeInv
    /\ LogInv
    /\ CallInv
    /\ IF Rx THEN TakenInv ELSE StageInv

-----------------------------------------------------------------------------
(* The endpoint driver *)

LEMMA FieldTypes ==
    ASSUME NEW s \in States
    PROVE  s.ctrl \in Ctrl /\ s.hw \in Hw /\ s.received \in Nat /\ s.ram \in Ram /\ s.log \in Log
BY DEF States

LEMMA CtrlFacts == CtrlSize \in Nat /\ SetupSize \in Nat /\ 0 < CtrlSize
BY CtrlAssumption

(* t differs from s in ctrl and hw only. *)
RestSame(s, t) == t \in States /\ t.log = s.log /\ t.ram = s.ram /\ t.received = s.received

Armed(h) == [h EXCEPT !.armed = TRUE, !.count = 0]
Loaded(h, pos, length) == [h EXCEPT !.loaded = TRUE, !.pos = pos, !.length = length]

LEMMA ArmedResult ==
    ASSUME NEW h \in Hw
    PROVE  /\ Armed(h) \in Hw /\ Armed(h).armed = TRUE /\ Armed(h).count = 0
           /\ Armed(h).flags = h.flags /\ Armed(h).stallrq = h.stallrq
           /\ Armed(h).loaded = h.loaded /\ Armed(h).pos = h.pos
           /\ Armed(h).length = h.length
BY DEF Armed, Hw

LoadedAs(h, pos, length) ==
    LET u == Loaded(h, pos, length)
    IN /\ u \in Hw /\ u.flags = h.flags /\ u.stallrq = h.stallrq /\ u.armed = h.armed
       /\ u.count = h.count /\ u.loaded = TRUE /\ u.pos = pos /\ u.length = length

LEMMA LoadedResult ==
    ASSUME NEW h \in Hw, NEW pos \in Nat, NEW length \in Nat
    PROVE  LoadedAs(h, pos, length)
BY DEF Loaded, LoadedAs, Hw

LEMMA ArmOutResult ==
    ASSUME NEW s \in States
    PROVE  /\ RestSame(s, ArmOut(s)) /\ ArmOut(s).ctrl = s.ctrl
           /\ ArmOut(s).hw = Armed(s.hw)
<1>1. ArmOut(s) = [s EXCEPT !.hw = Armed(s.hw)]
  BY DEF ArmOut, Armed, States, Hw
<1>2. Armed(s.hw) \in Hw
  BY FieldTypes, ArmedResult
<1> QED
  BY <1>1, <1>2 DEF States, RestSame

LEMMA LoadInResult ==
    ASSUME NEW s \in States, NEW pos \in Nat, NEW length \in Nat
    PROVE  /\ RestSame(s, LoadIn(s, pos, length)) /\ LoadIn(s, pos, length).ctrl = s.ctrl
           /\ LoadIn(s, pos, length).hw = Loaded(s.hw, pos, length)
<1>1. LoadIn(s, pos, length) = [s EXCEPT !.hw = Loaded(s.hw, pos, length)]
  BY DEF LoadIn, Loaded, States, Hw
<1>2. Loaded(s.hw, pos, length) \in Hw
  <2>1. s.hw \in Hw
    BY FieldTypes
  <2>2. LoadedAs(s.hw, pos, length)
    BY <2>1, LoadedResult
  <2> QED
    BY <2>2 DEF LoadedAs
<1> QED
  BY <1>1, <1>2 DEF States, RestSame

Goes(c, state) == [c EXCEPT !.state = state]

LEMMA GoesResult ==
    ASSUME NEW c \in Ctrl, NEW state \in CtrlStates
    PROVE  /\ Goes(c, state) \in Ctrl /\ Goes(c, state).state = state
           /\ Goes(c, state).dir = c.dir /\ Goes(c, state).wLength = c.wLength
           /\ Goes(c, state).size = c.size /\ Goes(c, state).callback = c.callback
           /\ Goes(c, state).prev = c.prev /\ Goes(c, state).nb = c.nb
           /\ Goes(c, state).short = c.short
BY DEF Goes, Ctrl

LEMMA StateSetResult ==
    ASSUME NEW s \in States, NEW state \in CtrlStates
    PROVE  LET t == [s EXCEPT !.ctrl.state = state]
           IN RestSame(s, t) /\ t.hw = s.hw /\ t.ctrl = Goes(s.ctrl, state)
<1>1. [s EXCEPT !.ctrl.state = state] = [s EXCEPT !.ctrl = Goes(s.ctrl, state)]
  BY DEF Goes
<1>2. Goes(s.ctrl, state) \in Ctrl
  BY FieldTypes, GoesResult
<1> QED
  BY <1>1, <1>2 DEF States, RestSame

(* udd_ctrl_send_zlp_in *)
LEMMA SendZlpInResult ==
    ASSUME NEW s \in States
    PROVE  /\ RestSame(s, SendZlpIn(s))
           /\ SendZlpIn(s).ctrl = Goes(s.ctrl, "wait_in_zlp")
           /\ SendZlpIn(s).hw = Loaded(Armed(s.hw), 0, 0)
<1> DEFINE t == [s EXCEPT !.ctrl.state = "wait_in_zlp"]
<1>1. RestSame(s, t) /\ t.hw = s.hw /\ t.ctrl = Goes(s.ctrl, "wait_in_zlp")
  BY StateSetResult DEF CtrlStates
<1>2. SendZlpIn(s) = LoadIn(ArmOut(t), 0, 0)
  BY DEF SendZlpIn
<1> HIDE DEF t
<1>3. RestSame(t, ArmOut(t)) /\ ArmOut(t).ctrl = t.ctrl /\ ArmOut(t).hw = Armed(t.hw)
  BY <1>1, ArmOutResult DEF RestSame
<1>4. /\ RestSame(ArmOut(t), SendZlpIn(s)) /\ SendZlpIn(s).ctrl = ArmOut(t).ctrl
      /\ SendZlpIn(s).hw = Loaded(ArmOut(t).hw, 0, 0)
  BY <1>2, <1>3, LoadInResult DEF RestSame
<1> QED
  BY <1>1, <1>3, <1>4 DEF RestSame

-----------------------------------------------------------------------------
(* The data stage from the device *)

Min2(m, n) == IF m >= n THEN n ELSE m

(* The packet that udd_ctrl_in_sent loads *)
Sends(c) ==
    [c EXCEPT !.prev = c.prev + (IF c.size = c.nb THEN c.nb ELSE 0),
              !.short = Min2(c.size - c.nb, CtrlSize) < CtrlSize,
              !.nb = c.nb + Min2(c.size - c.nb, CtrlSize)]

LEMMA SendsResult ==
    ASSUME NEW c \in Ctrl, c.nb <= c.size
    PROVE  /\ Sends(c) \in Ctrl
           /\ Min2(c.size - c.nb, CtrlSize) \in Nat
           /\ Sends(c).state = c.state
           /\ Sends(c).dir = c.dir /\ Sends(c).wLength = c.wLength
           /\ Sends(c).size = c.size /\ Sends(c).callback = c.callback
           /\ Sends(c).prev = c.prev + (IF c.size = c.nb THEN c.nb ELSE 0)
           /\ Sends(c).short = (Min2(c.size - c.nb, CtrlSize) < CtrlSize)
           /\ Sends(c).nb = c.nb + Min2(c.size - c.nb, CtrlSize)
<1>1. c.size \in Nat /\ c.nb \in Nat /\ c.prev \in Nat
  BY DEF Ctrl
<1>2. /\ Min2(c.size - c.nb, CtrlSize) \in Nat
      /\ c.prev + (IF c.size = c.nb THEN c.nb ELSE 0) \in Nat
  BY <1>1, CtrlFacts DEF Min2
<1> DEFINE n == Min2(c.size - c.nb, CtrlSize)
           p == c.prev + (IF c.size = c.nb THEN c.nb ELSE 0)
           short == n < CtrlSize
           u == Sends(c)
<1>3. u = [c EXCEPT !.prev = p, !.short = short, !.nb = c.nb + n]
  BY DEF Sends
<1>4. n \in Nat /\ p \in Nat /\ short \in BOOLEAN /\ c.nb + n \in Nat
  BY <1>1, <1>2, CtrlFacts
<1> HIDE DEF n, p, short, u
<1>5. /\ u \in Ctrl /\ u.state = c.state /\ u.dir = c.dir /\ u.wLength = c.wLength
      /\ u.size = c.size /\ u.callback = c.callback
      /\ u.prev = p /\ u.short = short /\ u.nb = c.nb + n
  BY <1>3, <1>4 DEF Ctrl
<1> QED
  BY <1>2, <1>5 DEF n, p, short, u

(* udd_ctrl_in_sent *)
LEMMA InSentResult ==
    ASSUME NEW s \in States, s.ctrl.nb <= s.ctrl.size
    PROVE  /\ RestSame(s, InSent(s))
           /\ DataSent(s) =>
                /\ InSent(s).hw = Armed(s.hw)
                /\ InSent(s).ctrl = [s.ctrl EXCEPT !.state = "wait_out_zlp",
                                                   !.prev = s.ctrl.prev + s.ctrl.nb]
           /\ ~DataSent(s) =>
                /\ InSent(s).ctrl = Sends(s.ctrl)
                /\ InSent(s).hw = Loaded(s.hw, s.ctrl.nb, Min2(s.ctrl.size - s.ctrl.nb, CtrlSize))
<1> DEFINE n == Min2(s.ctrl.size - s.ctrl.nb, CtrlSize)
           t == [s EXCEPT !.ctrl.prev =
                   @ + (IF s.ctrl.size - s.ctrl.nb = 0 THEN s.ctrl.nb ELSE 0)]
           a == [t EXCEPT !.ctrl.state = "wait_out_zlp"]
           b == [t EXCEPT !.ctrl.short = n < CtrlSize, !.ctrl.nb = @ + n]
           c == [s.ctrl EXCEPT !.state = "wait_out_zlp", !.prev = s.ctrl.prev + s.ctrl.nb]
           d == [s.ctrl EXCEPT !.prev = s.ctrl.prev
                                 + (IF s.ctrl.size - s.ctrl.nb = 0 THEN s.ctrl.nb ELSE 0)]
<1>1. s.ctrl \in Ctrl /\ s.ctrl.size \in Nat /\ s.ctrl.nb \in Nat /\ s.ctrl.prev \in Nat
  BY FieldTypes DEF Ctrl
<1>2. InSent(s) = IF DataSent(s) THEN ArmOut(a) ELSE LoadIn(b, s.ctrl.nb, n)
  BY DEF InSent, Min2
<1>3. n \in Nat /\ Sends(s.ctrl) \in Ctrl
  BY <1>1, SendsResult
<1>4. s.ctrl.size - s.ctrl.nb = 0 <=> s.ctrl.size = s.ctrl.nb
  BY <1>1
<1>5. t = [s EXCEPT !.ctrl = d]
  OBVIOUS
<1>6. d \in Ctrl
  BY <1>1 DEF Ctrl
<1>7. t \in States /\ t.ctrl = d /\ RestSame(s, t) /\ t.hw = s.hw
  <2> HIDE DEF d, t
  <2> QED
    BY <1>5, <1>6 DEF States, RestSame
<1>8. CASE DataSent(s)
  <2>1. [d EXCEPT !.state = "wait_out_zlp"] = c
    <3>1. d = [s.ctrl EXCEPT !.prev = s.ctrl.prev + s.ctrl.nb]
      BY <1>4, <1>8 DEF DataSent
    <3> HIDE DEF d
    <3> QED
      BY <1>1, <3>1 DEF Ctrl
  <2>2. c \in Ctrl
    <3> DEFINE p == s.ctrl.prev + s.ctrl.nb
    <3>1. p \in Nat /\ "wait_out_zlp" \in CtrlStates
      BY <1>1 DEF CtrlStates
    <3> HIDE DEF p
    <3>2. [s.ctrl EXCEPT !.state = "wait_out_zlp", !.prev = p] \in Ctrl
      BY <1>1, <3>1 DEF Ctrl
    <3> QED
      BY <3>2 DEF p
  <2> HIDE DEF c, d
  <2>3. a = [t EXCEPT !.ctrl = c]
    <3> HIDE DEF t
    <3> QED
      BY <1>7, <2>1 DEF States
  <2> HIDE DEF t, a
  <2>4. a \in States /\ a.ctrl = c /\ RestSame(s, a) /\ a.hw = s.hw
    BY <1>7, <2>2, <2>3 DEF States, RestSame
  <2>5. InSent(s) = ArmOut(a)
    BY <1>2, <1>8
  <2>6. RestSame(a, ArmOut(a)) /\ ArmOut(a).ctrl = a.ctrl /\ ArmOut(a).hw = Armed(a.hw)
    BY <2>4, ArmOutResult
  <2> QED
    BY <1>8, <2>4, <2>5, <2>6 DEF RestSame, c
<1>9. CASE ~DataSent(s)
  <2> HIDE DEF n
  <2>1. [d EXCEPT !.short = n < CtrlSize, !.nb = @ + n] = Sends(s.ctrl)
    BY <1>1, <1>4 DEF Sends, Ctrl, n
  <2> HIDE DEF d
  <2>2. b = [t EXCEPT !.ctrl = Sends(s.ctrl)]
    <3>1. b = [t EXCEPT !.ctrl = [d EXCEPT !.short = n < CtrlSize, !.nb = @ + n]]
      <4> HIDE DEF t
      <4> QED
        BY <1>6, <1>7 DEF States, Ctrl
    <3> QED
      BY <2>1, <3>1
  <2> HIDE DEF t, b
  <2>3. b \in States /\ b.ctrl = Sends(s.ctrl) /\ RestSame(s, b) /\ b.hw = s.hw
    BY <1>3, <1>7, <2>2 DEF States, RestSame
  <2>4. InSent(s) = LoadIn(b, s.ctrl.nb, n)
    BY <1>2, <1>9 DEF b, t
  <2>5. /\ RestSame(b, LoadIn(b, s.ctrl.nb, n)) /\ LoadIn(b, s.ctrl.nb, n).ctrl = b.ctrl
        /\ LoadIn(b, s.ctrl.nb, n).hw = Loaded(b.hw, s.ctrl.nb, n)
    BY <1>1, <1>3, <2>3, LoadInResult
  <2> QED
    BY <1>9, <2>3, <2>4, <2>5 DEF RestSame, n
<1> QED
  BY <1>8, <1>9

-----------------------------------------------------------------------------
(* The data stage to the device *)

(* udd_ctrl_out_received of a packet of the data stage, with room for it *)
Receives(s, n) ==
    LET u == OutReceived(s)
        nb == s.ctrl.nb + n
        last == n # CtrlSize \/ s.ctrl.wLength <= s.ctrl.prev + nb
    IN /\ u \in States /\ u.ram = s.ram /\ u.received = s.received
       /\ u.log = IF n = 0 THEN s.log ELSE [s.log EXCEPT !.stored = nb]
       /\ last => /\ u.ctrl = [s.ctrl EXCEPT !.state = "wait_in_zlp", !.nb = nb, !.size = nb]
                  /\ u.hw = Loaded(Armed(s.hw), 0, 0)
       /\ ~last => /\ u.ctrl = [s.ctrl EXCEPT !.nb = nb]
                   /\ u.hw = Armed(s.hw)

LEMMA OutReceivedResult ==
    ASSUME NEW s \in States, NEW n \in Nat,
           n = IF s.ctrl.size - s.ctrl.nb < s.received THEN s.ctrl.size - s.ctrl.nb
               ELSE s.received,
           n > 0 => s.ram.kind = "data" /\ s.ram.pos = s.ctrl.nb
    PROVE  Receives(s, n)
<1> DEFINE u == OutReceived(s)
           nb == s.ctrl.nb + n
           last == n # CtrlSize \/ s.ctrl.wLength <= s.ctrl.prev + nb
           l == IF n = 0 THEN s.log ELSE [s.log EXCEPT !.stored = nb]
           c == [s.ctrl EXCEPT !.nb = nb]
           d == [c EXCEPT !.size = nb]
           t == [Copy(s, n) EXCEPT !.ctrl.nb = @ + n]
<1>1. s.ctrl \in Ctrl /\ s.log \in Log /\ s.ctrl.nb \in Nat
  BY FieldTypes DEF Ctrl
<1>2. nb \in Nat
  BY <1>1
<1>3. l \in Log /\ Copy(s, n) = [s EXCEPT !.log = l]
  <2>1. CASE n = 0
    BY <1>1, <2>1 DEF Copy, States
  <2>2. CASE n # 0
    <3> HIDE DEF nb
    <3>1. [s.log EXCEPT !.stored = nb] \in Log
      BY <1>1, <1>2 DEF Log
    <3>2. Copy(s, n) = [s EXCEPT !.log.stored = nb]
      BY <2>2 DEF Copy, nb
    <3> QED
      BY <2>2, <3>1, <3>2
  <2> QED
    BY <2>1, <2>2
<1> HIDE DEF l
<1>4. t = [s EXCEPT !.log = l, !.ctrl = c]
  BY <1>3 DEF States
<1> HIDE DEF nb
<1>5. /\ c \in Ctrl /\ c.nb = nb /\ c.wLength = s.ctrl.wLength /\ c.prev = s.ctrl.prev
      /\ d \in Ctrl
  BY <1>1, <1>2 DEF Ctrl
<1> HIDE DEF c, t
<1>6. /\ t \in States /\ t.ctrl = c /\ t.log = l /\ t.hw = s.hw /\ t.ram = s.ram
      /\ t.received = s.received
  BY <1>3, <1>4, <1>5 DEF States
<1>7. u = IF last THEN SendZlpIn([t EXCEPT !.ctrl.size = nb]) ELSE ArmOut(t)
  <2>1. u = IF n # CtrlSize \/ s.ctrl.wLength <= t.ctrl.prev + t.ctrl.nb
            THEN SendZlpIn([t EXCEPT !.ctrl.size = t.ctrl.nb])
            ELSE ArmOut(t)
    BY DEF OutReceived, t
  <2> HIDE DEF u
  <2> QED
    BY <1>5, <1>6, <2>1
<1>8. CASE last
  <2> DEFINE v == [t EXCEPT !.ctrl.size = nb]
  <2>1. v = [t EXCEPT !.ctrl = d]
    BY <1>6
  <2> HIDE DEF v, d
  <2>2. v \in States /\ v.ctrl = d /\ RestSame(t, v) /\ v.hw = t.hw
    BY <1>5, <1>6, <2>1 DEF States, RestSame
  <2>3. u = SendZlpIn(v)
    BY <1>7, <1>8 DEF v
  <2>4. /\ RestSame(v, u) /\ u.ctrl = Goes(v.ctrl, "wait_in_zlp")
        /\ u.hw = Loaded(Armed(v.hw), 0, 0)
    BY <2>2, <2>3, SendZlpInResult
  <2>5. Goes(d, "wait_in_zlp") = [s.ctrl EXCEPT !.state = "wait_in_zlp", !.nb = nb, !.size = nb]
    BY <1>1, <1>2 DEF Goes, d, c, Ctrl
  <2> HIDE DEF u, last
  <2> QED
    BY <1>6, <1>8, <2>2, <2>4, <2>5 DEF RestSame, u, nb, l, last, Receives
<1>9. CASE ~last
  <2>1. u = ArmOut(t)
    BY <1>7, <1>9
  <2>2. RestSame(t, u) /\ u.ctrl = t.ctrl /\ u.hw = Armed(t.hw)
    BY <1>6, <2>1, ArmOutResult
  <2> HIDE DEF u, last
  <2> QED
    BY <1>6, <1>9, <2>2 DEF RestSame, u, nb, l, last, c, Receives
<1> QED
  BY <1>8, <1>9 DEF Receives

-----------------------------------------------------------------------------
(* The callback, and the setup packet *)

(* udd_g_ctrlreq.callback when it is owed, after the handshake or for a     *)
(* request that was given up                                               *)
LEMMA CallbackResult ==
    ASSUME NEW s \in States, NEW fresh \in BOOLEAN, Good(s.log),
           s.ctrl.callback => s.log.owed,
           s.ctrl.callback => fresh \/ s.log.shook,
           s.ctrl.callback /\ s.log.shook /\ ~s.log.cut => s.ctrl.size = s.log.stored
    PROVE  /\ RunCallback(s, fresh) \in States
           /\ RunCallback(s, fresh).ctrl = s.ctrl /\ RunCallback(s, fresh).hw = s.hw
           /\ RunCallback(s, fresh).ram = s.ram
           /\ RunCallback(s, fresh).received = s.received
           /\ Good(RunCallback(s, fresh).log)
           /\ RunCallback(s, fresh).log.owed = (s.log.owed /\ ~s.ctrl.callback)
           /\ RunCallback(s, fresh).log.cut = s.log.cut
           /\ RunCallback(s, fresh).log.shook = s.log.shook
           /\ RunCallback(s, fresh).log.stored = s.log.stored
<1> DEFINE u == RunCallback(s, fresh)
           twice == s.log.twice \/ ~s.log.owed
           early == s.log.early \/ (~s.log.shook /\ ~fresh)
           inexact == s.log.inexact
                        \/ (s.log.shook /\ ~s.log.cut /\ s.ctrl.size # s.log.stored)
           l == [s.log EXCEPT !.owed = FALSE, !.twice = twice, !.early = early,
                              !.inexact = inexact]
<1>1. s.ctrl \in Ctrl /\ s.log \in Log
  BY FieldTypes
<1>2. CASE ~s.ctrl.callback
  <2>1. u = s
    BY <1>2 DEF RunCallback
  <2>2. s.log.owed \in BOOLEAN
    BY <1>1 DEF Log
  <2> QED
    BY <1>2, <2>1, <2>2
<1>3. CASE s.ctrl.callback
  <2>1. ~twice /\ ~early /\ ~inexact
    BY <1>3 DEF Good
  <2>2. twice \in BOOLEAN /\ early \in BOOLEAN /\ inexact \in BOOLEAN
    OBVIOUS
  <2>3. u = [s EXCEPT !.log = l]
    BY <1>1, <1>3 DEF RunCallback, States, Log
  <2> HIDE DEF twice, early, inexact
  <2>4. l \in Log
    BY <1>1, <2>2 DEF Log
  <2>5. /\ l.owed = FALSE /\ l.twice = twice /\ l.early = early
        /\ l.inexact = inexact /\ l.foreign = s.log.foreign
        /\ l.spurned = s.log.spurned /\ l.cut = s.log.cut /\ l.shook = s.log.shook
        /\ l.stored = s.log.stored
    BY <1>1, <2>2 DEF Log
  <2> HIDE DEF l, u
  <2>6. /\ u \in States /\ u.ctrl = s.ctrl /\ u.hw = s.hw /\ u.ram = s.ram
        /\ u.received = s.received /\ u.log = l
    BY <2>3, <2>4 DEF States
  <2>7. Good(u.log)
    BY <2>1, <2>5, <2>6 DEF Good
  <2>8. /\ u.log.owed = (s.log.owed /\ ~s.ctrl.callback)
        /\ u.log.cut = s.log.cut /\ u.log.shook = s.log.shook
        /\ u.log.stored = s.log.stored
    BY <1>3, <2>5, <2>6
  <2> QED
    BY <2>6, <2>7, <2>8 DEF u
<1> QED
  BY <1>2, <1>3

(* The end of an unfinished request *)
LEMMA FinishResult ==
    ASSUME NEW s \in States, Good(s.log),
           s.ctrl.callback /\ s.ctrl.state # "setup" => s.log.owed /\ ~s.log.shook
    PROVE  /\ Finish(s) \in States
           /\ Finish(s).ctrl = Goes(s.ctrl, "setup") /\ Finish(s).hw = s.hw
           /\ Finish(s).ram = s.ram /\ Finish(s).received = s.received
           /\ Good(Finish(s).log) /\ Finish(s).log.cut = s.log.cut
<1>1. s.ctrl \in Ctrl
  BY FieldTypes
<1>2. CASE s.ctrl.state = "setup"
  <2>1. Goes(s.ctrl, "setup") = s.ctrl
    BY <1>1, <1>2 DEF Goes, Ctrl
  <2> QED
    BY <1>2, <2>1 DEF Finish
<1>3. CASE s.ctrl.state # "setup"
  <2> DEFINE r == RunCallback(s, TRUE)
             u == [r EXCEPT !.ctrl.state = "setup"]
  <2>1. /\ r \in States /\ r.ctrl = s.ctrl /\ r.hw = s.hw /\ r.ram = s.ram
        /\ r.received = s.received /\ Good(r.log) /\ r.log.cut = s.log.cut
    BY <1>3, CallbackResult
  <2>2. Finish(s) = u
    BY <1>3 DEF Finish
  <2> HIDE DEF r
  <2>3. RestSame(r, u) /\ u.hw = r.hw /\ u.ctrl = Goes(r.ctrl, "setup")
    BY <2>1, StateSetResult DEF CtrlStates
  <2> HIDE DEF u
  <2> QED
    BY <2>1, <2>2, <2>3 DEF RestSame
<1> QED
  BY <1>2, <1>3

LEMMA RequestFacts ==
    ASSUME NEW r \in Requests, Legal(r)
    PROVE  /\ r.dir \in Dirs /\ r.wLength \in Nat /\ r.size \in Nat
           /\ r.accepted \in BOOLEAN /\ r.callback \in BOOLEAN
           /\ r.size <= r.wLength
           /\ r.dir = "in" /\ r.accepted => r.wLength > 0 /\ r.callback = FALSE
           /\ r.dir = "out" /\ r.accepted =>
                 \/ r.callback = TRUE /\ r.size = r.wLength
                 \/ r.callback = FALSE /\ r.size = 0 /\ r.wLength <= CtrlSize
           /\ ~r.accepted => r.callback = FALSE
<1> DEFINE a(w, n) == Request("in", w, TRUE, n, FALSE)
           d(dir, w) == Request(dir, w, FALSE, 0, FALSE)
           A == {a(w, n) : w \in 1 .. MaxLength, n \in 0 .. MaxLength}
           B == {Request("out", w, TRUE, w, TRUE) : w \in 0 .. MaxLength}
           C == {Request("out", w, TRUE, 0, FALSE) : w \in 0 .. CtrlSize}
           D == {d(dir, w) : dir \in {"in", "out"}, w \in 0 .. CtrlSize}
<1>1. CtrlSize \in Nat /\ MaxLength \in Nat
  BY CtrlAssumption
<1>2. Requests = A \cup B \cup C \cup D
  BY DEF Requests
<1> HIDE DEF A, B, C, D
<1>3. r \in A \/ r \in B \/ r \in C \/ r \in D
  BY <1>2
<1> HIDE DEF a, d
<1>4. r \in A => \E w \in 1 .. MaxLength, n \in 0 .. MaxLength : r = a(w, n)
  BY DEF A
<1>5. r \in B => \E w \in 0 .. MaxLength : r = Request("out", w, TRUE, w, TRUE)
  BY DEF B
<1>6. r \in C => \E w \in 0 .. CtrlSize : r = Request("out", w, TRUE, 0, FALSE)
  BY DEF C
<1>7. r \in D => \E dir \in {"in", "out"}, w \in 0 .. CtrlSize : r = d(dir, w)
  BY DEF D
<1>8. CASE \E w \in 1 .. MaxLength, n \in 0 .. MaxLength : r = a(w, n)
  BY <1>1, <1>8 DEF a, Request, Legal, Dirs
<1>9. CASE \E w \in 0 .. MaxLength : r = Request("out", w, TRUE, w, TRUE)
  BY <1>1, <1>9 DEF Request, Legal, Dirs
<1>10. CASE \E w \in 0 .. CtrlSize : r = Request("out", w, TRUE, 0, FALSE)
  BY <1>1, <1>10 DEF Request, Legal, Dirs
<1>11. CASE \E dir \in {"in", "out"}, w \in 0 .. CtrlSize : r = d(dir, w)
  BY <1>1, <1>11 DEF d, Request, Legal, Dirs
<1> QED
  BY <1>3, <1>4, <1>5, <1>6, <1>7, <1>8, <1>9, <1>10, <1>11

(* What udd_ctrl_fetch_ram and udc_process_setup make of the request r *)
Fetched(c, r) ==
    [c EXCEPT !.dir = r.dir, !.wLength = r.wLength, !.size = r.size,
              !.callback = r.callback]

LEMMA FetchResult ==
    ASSUME NEW s \in States, NEW r \in Requests, Legal(r), s.ram.request = r
    PROVE  LET u == Fetch(s)
           IN /\ u \in States /\ u.hw = s.hw /\ u.ram = s.ram
              /\ u.received = s.received
              /\ u.ctrl = Fetched(s.ctrl, r)
              /\ Good(s.log) => Good(u.log)
              /\ u.log.owed = r.callback /\ u.log.shook = FALSE /\ u.log.stored = 0
              /\ u.log.cut = s.log.cut
<1> DEFINE u == Fetch(s)
           c == Fetched(s.ctrl, r)
           l == [s.log EXCEPT !.owed = r.callback, !.shook = FALSE, !.stored = 0]
<1>1. s.ctrl \in Ctrl /\ s.log \in Log
  BY FieldTypes
<1>2. r.dir \in Dirs /\ r.wLength \in Nat /\ r.size \in Nat /\ r.callback \in BOOLEAN
  BY RequestFacts
<1>3. u = [s EXCEPT !.ctrl = c, !.log = l]
  BY <1>1, ZenonT(40) DEF Fetch, Fetched, States, Ctrl, Log
<1>4. c \in Ctrl
  BY <1>1, <1>2 DEF Fetched, Ctrl
<1>5. l \in Log
  BY <1>1, <1>2 DEF Log
<1>6. /\ l.owed = r.callback /\ l.shook = FALSE /\ l.stored = 0
      /\ l.cut = s.log.cut /\ l.twice = s.log.twice /\ l.early = s.log.early
      /\ l.inexact = s.log.inexact /\ l.foreign = s.log.foreign
      /\ l.spurned = s.log.spurned
  BY <1>1, <1>2 DEF Log
<1> HIDE DEF c, l, u
<1>7. /\ u \in States /\ u.ctrl = c /\ u.log = l /\ u.hw = s.hw /\ u.ram = s.ram
      /\ u.received = s.received
  BY <1>3, <1>4, <1>5 DEF States
<1>8. Good(s.log) => Good(u.log)
  BY <1>6, <1>7 DEF Good
<1> QED
  BY <1>6, <1>7, <1>8 DEF u, c

-----------------------------------------------------------------------------
(* Steps *)

Fields(s, c, h, rec, r, l) ==
    s.ctrl = c /\ s.hw = h /\ s.received = rec /\ s.ram = r /\ s.log = l

LEMMA Types ==
    ASSUME TypeInv
    PROVE  /\ ctrl \in Ctrl /\ hw \in Hw /\ received \in Nat /\ ram \in Ram /\ log \in Log
           /\ host \in Host /\ St \in States /\ Fields(St, ctrl, hw, received, ram, log)
BY DEF TypeInv, St, States, Fields

LEMMA Typed ==
    ASSUME ctrl \in Ctrl, hw \in Hw, received \in Nat, ram \in Ram, log \in Log, host \in Host
    PROVE  TypeInv
BY DEF TypeInv, St, States

LEMMA BecomesResult ==
    ASSUME NEW u \in States, Becomes(u), host \in Host, UNCHANGED host
    PROVE  /\ TypeInv'
           /\ ctrl' = u.ctrl /\ hw' = u.hw /\ received' = u.received
           /\ ram' = u.ram /\ log' = u.log /\ host' = host
<1>1. /\ ctrl' = u.ctrl /\ hw' = u.hw /\ received' = u.received
      /\ ram' = u.ram /\ log' = u.log
  BY DEF Becomes
<1>2. /\ ctrl' \in Ctrl /\ hw' \in Hw /\ received' \in Nat /\ ram' \in Ram /\ log' \in Log
      /\ host' \in Host
  BY <1>1, FieldTypes
<1> QED
  BY <1>1, <1>2 DEF TypeInv, St, States

Dropped(h, f) == [h EXCEPT !.flags = h.flags \ {f}]

LEMMA DroppedResult ==
    ASSUME NEW h \in Hw, NEW f
    PROVE  /\ Dropped(h, f) \in Hw /\ Dropped(h, f).flags = h.flags \ {f}
           /\ Dropped(h, f).stallrq = h.stallrq /\ Dropped(h, f).armed = h.armed
           /\ Dropped(h, f).count = h.count /\ Dropped(h, f).loaded = h.loaded
           /\ Dropped(h, f).pos = h.pos /\ Dropped(h, f).length = h.length
BY DEF Dropped, Hw

(* The handler has taken one flag; counts: received_bytes is set too. *)
LEMMA ClearedResult ==
    ASSUME TypeInv, NEW f
    PROVE  /\ Cleared(f) \in States
           /\ Fields(Cleared(f), ctrl, Dropped(hw, f), received, ram, log)
           /\ [Cleared(f) EXCEPT !.received = hw.count] \in States
           /\ Fields([Cleared(f) EXCEPT !.received = hw.count],
                     ctrl, Dropped(hw, f), hw.count, ram, log)
<1>1. St \in States /\ Fields(St, ctrl, hw, received, ram, log) /\ hw \in Hw
  BY Types
<1>2. Dropped(hw, f) \in Hw /\ hw.count \in Nat
  BY <1>1, DroppedResult DEF Hw
<1>3. Cleared(f) = [St EXCEPT !.hw = Dropped(hw, f)]
  BY <1>1 DEF Cleared, Dropped, Fields
<1>4. Cleared(f) \in States /\ Fields(Cleared(f), ctrl, Dropped(hw, f), received, ram, log)
  BY <1>1, <1>2, <1>3 DEF States, Fields
<1> QED
  BY <1>2, <1>4 DEF States, Fields

(* What SendZlpIn and InSent make of the peripheral *)
Serves(h, pos, length) ==
    LET u == Loaded(Armed(h), pos, length)
    IN /\ u \in Hw /\ u.flags = h.flags /\ u.stallrq = h.stallrq
       /\ u.armed = TRUE /\ u.loaded = TRUE /\ u.pos = pos /\ u.length = length

LEMMA ServedHw ==
    ASSUME NEW h \in Hw, NEW pos \in Nat, NEW length \in Nat
    PROVE  Serves(h, pos, length)
<1> DEFINE a == Armed(h)
           u == Loaded(a, pos, length)
<1>1. /\ a \in Hw /\ a.armed = TRUE /\ a.flags = h.flags /\ a.stallrq = h.stallrq
  BY ArmedResult
<1> HIDE DEF a
<1>2. /\ u \in Hw /\ u.flags = a.flags /\ u.stallrq = a.stallrq
      /\ u.armed = a.armed /\ u.loaded = TRUE /\ u.pos = pos /\ u.length = length
  <2>1. LoadedAs(a, pos, length)
    BY <1>1, LoadedResult
  <2> QED
    BY <2>1 DEF LoadedAs
<1> HIDE DEF u
<1>3. /\ u \in Hw /\ u.flags = h.flags /\ u.stallrq = h.stallrq
      /\ u.armed = TRUE /\ u.loaded = TRUE /\ u.pos = pos /\ u.length = length
  BY <1>1, <1>2
<1> QED
  BY <1>3 DEF u, a, Serves

(* A setup packet is served: its request is in ctrl and nothing of the     *)
(* last one is left.                                                       *)
LEMMA BegunResult ==
    ASSUME NEW c \in Ctrl, NEW r \in Requests, Legal(r)
    PROVE  LET u == Fetched(Goes(c, "setup"), r)
           IN /\ u \in Ctrl /\ u.state = "setup" /\ u.dir = r.dir
              /\ u.wLength = r.wLength /\ u.size = r.size /\ u.callback = r.callback
<1> DEFINE g == Goes(c, "setup")
<1>1. g \in Ctrl /\ g.state = "setup"
  BY GoesResult DEF CtrlStates
<1> HIDE DEF g
<1>2. r.dir \in Dirs /\ r.wLength \in Nat /\ r.size \in Nat /\ r.callback \in BOOLEAN
  BY RequestFacts
<1>3. LET u == Fetched(g, r)
      IN /\ u \in Ctrl /\ u.state = "setup" /\ u.dir = r.dir
         /\ u.wLength = r.wLength /\ u.size = r.size /\ u.callback = r.callback
  BY <1>1, <1>2 DEF Fetched, Ctrl
<1> QED
  BY <1>3 DEF g

Counting(c) == [c EXCEPT !.prev = 0, !.nb = 0]

LEMMA CountingResult ==
    ASSUME NEW c \in Ctrl
    PROVE  LET u == Counting(c)
           IN /\ u \in Ctrl /\ u.state = c.state /\ u.dir = c.dir
              /\ u.wLength = c.wLength /\ u.size = c.size /\ u.callback = c.callback
              /\ u.prev = 0 /\ u.nb = 0
BY DEF Counting, Ctrl

Halted(h) == [h EXCEPT !.stallrq = (h.stallrq \cup {"in"}) \ {"out"}]

LEMMA StallDataResult ==
    ASSUME NEW s \in States
    PROVE  /\ RestSame(s, StallData(s))
           /\ StallData(s).ctrl = Goes(s.ctrl, "stall_req")
           /\ StallData(s).hw = Halted(s.hw)
           /\ Halted(s.hw) \in Hw /\ Halted(s.hw).flags = s.hw.flags
           /\ Halted(s.hw).armed = s.hw.armed /\ Halted(s.hw).loaded = s.hw.loaded
<1> DEFINE c == Goes(s.ctrl, "stall_req")
           h == Halted(s.hw)
<1>1. s.ctrl \in Ctrl /\ s.hw \in Hw
  BY FieldTypes
<1>2. c \in Ctrl
  BY <1>1, GoesResult DEF CtrlStates
<1>3. h \in Hw /\ h.flags = s.hw.flags /\ h.armed = s.hw.armed /\ h.loaded = s.hw.loaded
  BY <1>1 DEF Halted, Hw, Dirs
<1>4. StallData(s) = [s EXCEPT !.ctrl = c, !.hw = h]
  BY <1>1 DEF StallData, Goes, Halted, States
<1> HIDE DEF c, h
<1>5. RestSame(s, StallData(s)) /\ StallData(s).ctrl = c /\ StallData(s).hw = h
  BY <1>2, <1>3, <1>4 DEF States, RestSame
<1> QED
  BY <1>3, <1>5 DEF c, h

(* t: the request r is fetched into s and nothing of the last one is left  *)
Prepared(s, r, t) ==
    /\ t.ctrl = Fetched(Goes(s.ctrl, "setup"), r) /\ t.hw = s.hw
    /\ t.ram = s.ram /\ t.received = s.received
    /\ Good(t.log) /\ t.log.owed = r.callback /\ t.log.shook = FALSE
    /\ t.log.stored = 0 /\ t.log.cut = s.log.cut

Served(r, t) ==
    LET begun == [t EXCEPT !.ctrl.prev = 0, !.ctrl.nb = 0]
    IN CASE ~r.accepted -> StallData(t)
         [] r.accepted /\ t.ctrl.dir = "in" ->
               InSent(ArmOut([begun EXCEPT !.ctrl.state = "data_in"]))
         [] r.accepted /\ t.ctrl.dir = "out" /\ t.ctrl.wLength = 0 ->
               SendZlpIn(t)
         [] OTHER -> ArmOut([begun EXCEPT !.ctrl.state = "data_out"])

(* _usb_ep0_on_setup of the request r *)
LEMMA OnSetupResult ==
    ASSUME NEW s \in States, Good(s.log),
           s.ctrl.callback /\ s.ctrl.state # "setup" => s.log.owed /\ ~s.log.shook,
           NEW r \in Requests, Legal(r), s.ram.request = r
    PROVE  \E t \in States : Prepared(s, r, t) /\ OnSetup(s) = Served(r, t)
<1> DEFINE f == Finish(s)
           t == Fetch(f)
<1>1. /\ f \in States /\ f.ctrl = Goes(s.ctrl, "setup") /\ f.hw = s.hw
      /\ f.ram = s.ram /\ f.received = s.received
      /\ Good(f.log) /\ f.log.cut = s.log.cut
  BY FinishResult
<1> HIDE DEF f
<1>2. /\ t \in States /\ t.hw = f.hw /\ t.ram = f.ram
      /\ t.received = f.received
      /\ t.ctrl = Fetched(f.ctrl, r)
      /\ Good(f.log) => Good(t.log)
      /\ t.log.owed = r.callback /\ t.log.shook = FALSE /\ t.log.stored = 0
      /\ t.log.cut = f.log.cut
  BY <1>1, FetchResult
<1>3. OnSetup(s) = Served(r, t)
  BY DEF OnSetup, Served, f
<1> HIDE DEF t
<1>4. Prepared(s, r, t)
  BY <1>1, <1>2 DEF Prepared
<1> QED
  BY <1>2, <1>3, <1>4

LEMMA BegunState ==
    ASSUME NEW t \in States, NEW state \in CtrlStates
    PROVE  LET begun == [t EXCEPT !.ctrl.prev = 0, !.ctrl.nb = 0]
               u == [begun EXCEPT !.ctrl.state = state]
           IN RestSame(t, u) /\ u.hw = t.hw /\ u.ctrl = Goes(Counting(t.ctrl), state)
<1> DEFINE begun == [t EXCEPT !.ctrl.prev = 0, !.ctrl.nb = 0]
<1>1. Counting(t.ctrl) \in Ctrl
  BY FieldTypes, CountingResult
<1>2. begun = [t EXCEPT !.ctrl = Counting(t.ctrl)]
  BY DEF Counting, States
<1> HIDE DEF begun
<1>3. RestSame(t, begun) /\ begun.hw = t.hw /\ begun.ctrl = Counting(t.ctrl)
  BY <1>1, <1>2 DEF States, RestSame
<1>4. LET u == [begun EXCEPT !.ctrl.state = state]
      IN RestSame(begun, u) /\ u.hw = begun.hw /\ u.ctrl = Goes(begun.ctrl, state)
  BY <1>3, StateSetResult DEF RestSame
<1> QED
  BY <1>3, <1>4 DEF RestSame, begun

(* What the handler makes of a setup packet, whichever request it has      *)
LEMMA SetupInterruptKeeps ==
    ASSUME IInv, SetupInterrupt
    PROVE  IInv'
<1> DEFINE s == [Cleared("rxstp") EXCEPT !.received = hw.count]
           h == Dropped(hw, "rxstp")
           r == ram.request
           c == Fetched(Goes(ctrl, "setup"), r)
           u == OnSetup(s)
<1>1. /\ ctrl \in Ctrl /\ hw \in Hw /\ received \in Nat /\ ram \in Ram /\ log \in Log
      /\ host \in Host
  BY Types DEF IInv
<1>2. s \in States /\ Fields(s, ctrl, h, hw.count, ram, log)
  BY ClearedResult DEF IInv
<1>3. TakenInv /\ LogInv /\ CallInv
  BY DEF IInv, SetupInterrupt, Pending, Rx
<1>4. r \in Requests /\ Legal(r)
  BY <1>1, <1>3 DEF TakenInv, Ram
<1>5. Becomes(u) /\ UNCHANGED host
  BY DEF SetupInterrupt
<1>6. /\ h \in Hw /\ h.flags = hw.flags \ {"rxstp"} /\ h.stallrq = hw.stallrq
      /\ h.armed = hw.armed /\ h.loaded = hw.loaded
  BY <1>1, DroppedResult
<1>7. /\ c \in Ctrl /\ c.state = "setup" /\ c.dir = r.dir /\ c.wLength = r.wLength
      /\ c.size = r.size /\ c.callback = r.callback
  BY <1>1, <1>4, BegunResult
<1>8. /\ Good(s.log)
      /\ s.ctrl.callback /\ s.ctrl.state # "setup" => s.log.owed /\ ~s.log.shook
      /\ s.ram.request = r
  BY <1>1, <1>2, <1>3 DEF Fields, LogInv, CallInv, Working, TakenInv, T1, Ctrl, Log
<1> HIDE DEF s, h, r, c, u
<1>9. PICK t \in States :
         /\ t.ctrl = c /\ t.hw = h
         /\ t.ram = ram /\ t.received = hw.count
         /\ Good(t.log) /\ t.log.owed = r.callback /\ t.log.shook = FALSE
         /\ t.log.stored = 0 /\ t.log.cut = log.cut
         /\ u = Served(r, t)
  <2>1. s.ctrl = ctrl /\ s.hw = h /\ s.received = hw.count /\ s.ram = ram /\ s.log = log
    BY <1>2 DEF Fields
  <2>2. \E t \in States : Prepared(s, r, t) /\ OnSetup(s) = Served(r, t)
    BY <1>2, <1>4, <1>8, OnSetupResult
  <2>3. PICK t \in States : Prepared(s, r, t) /\ OnSetup(s) = Served(r, t)
    BY <2>2
  <2> QED
    BY <2>1, <2>3 DEF Prepared, c, u
<1> DEFINE begun == [t EXCEPT !.ctrl.prev = 0, !.ctrl.nb = 0]
           bi == [begun EXCEPT !.ctrl.state = "data_in"]
           bo == [begun EXCEPT !.ctrl.state = "data_out"]
           k == Counting(c)
<1>10. u = CASE ~r.accepted -> StallData(t)
             [] r.accepted /\ t.ctrl.dir = "in" -> InSent(ArmOut(bi))
             [] r.accepted /\ t.ctrl.dir = "out" /\ t.ctrl.wLength = 0 -> SendZlpIn(t)
             [] OTHER -> ArmOut(bo)
  BY <1>9 DEF Served
<1>11. /\ RestSame(t, bi) /\ bi.hw = h /\ bi.ctrl = Goes(k, "data_in")
       /\ RestSame(t, bo) /\ bo.hw = h /\ bo.ctrl = Goes(k, "data_out")
  <2>1. "data_in" \in CtrlStates /\ "data_out" \in CtrlStates
    BY DEF CtrlStates
  <2>2. RestSame(t, bi) /\ bi.hw = t.hw /\ bi.ctrl = Goes(Counting(t.ctrl), "data_in")
    BY <2>1, BegunState
  <2>3. RestSame(t, bo) /\ bo.hw = t.hw /\ bo.ctrl = Goes(Counting(t.ctrl), "data_out")
    BY <2>1, BegunState
  <2> HIDE DEF bi, bo
  <2> QED
    BY <1>9, <2>2, <2>3
<1>12. /\ k \in Ctrl /\ k.dir = c.dir /\ k.wLength = c.wLength /\ k.size = c.size
       /\ k.callback = c.callback /\ k.prev = 0 /\ k.nb = 0
  BY <1>7, CountingResult
<1> HIDE DEF begun, bi, bo, k
<1>13. /\ r.dir \in Dirs /\ r.wLength \in Nat /\ r.size \in Nat
       /\ r.accepted \in BOOLEAN /\ r.callback \in BOOLEAN
       /\ r.size <= r.wLength
       /\ r.dir = "in" /\ r.accepted => r.wLength > 0 /\ r.callback = FALSE
       /\ r.dir = "out" /\ r.accepted =>
             \/ r.callback = TRUE /\ r.size = r.wLength
             \/ r.callback = FALSE /\ r.size = 0 /\ r.wLength <= CtrlSize
       /\ ~r.accepted => r.callback = FALSE
  BY <1>4, RequestFacts
<1>14. /\ ~("rxstp" \in h.flags) /\ ~("trcpt1" \in h.flags) /\ ~("trcpt0" \in h.flags)
       /\ "trfail1" \in h.flags <=> F1
       /\ "trfail0" \in h.flags <=> F0
       /\ h.loaded = FALSE /\ h.armed = FALSE /\ h.stallrq = {}
  BY <1>1, <1>3, <1>6 DEF TakenInv, T1, T0, F1, F0, Hw
(* Whatever is made of the request, the parts of t that are as they were *)
<1>15. ASSUME NEW v \in States, RestSame(t, v), u = v
       PROVE  /\ TypeInv' /\ LogInv' /\ ctrl' = v.ctrl /\ hw' = v.hw /\ host' = host
              /\ log'.owed = r.callback /\ log'.shook = FALSE /\ log'.stored = 0
              /\ log'.cut = log.cut
  BY <1>1, <1>5, <1>9, <1>15, BecomesResult DEF RestSame, LogInv
<1>16. /\ host.dir = r.dir /\ host.wLength = r.wLength
       /\ host.got = 0 /\ host.stage \in {"data", "status"}
       /\ host.stage = "data" => host.wLength > 0
       /\ host.stage = "status" => host.wLength = 0 \/ log.cut
       /\ F1 /\ host.dir = "out" => host.stage = "status"
       /\ F0 /\ host.dir = "in" => host.stage = "status"
  BY <1>3 DEF TakenInv, r
<1>17. CASE ~r.accepted
  <2>1. u = StallData(t)
    BY <1>10, <1>17
  <2>2. /\ RestSame(t, u) /\ u.ctrl = Goes(c, "stall_req")
        /\ u.hw = Halted(h) /\ u.hw \in Hw /\ u.hw.flags = h.flags
        /\ u.hw.armed = h.armed /\ u.hw.loaded = h.loaded
    BY <1>9, <2>1, StallDataResult
  <2>3. u.ctrl.state = "stall_req" /\ u.ctrl.callback = r.callback
    BY <1>7, <2>2, GoesResult DEF CtrlStates
  <2>4. TypeInv' /\ LogInv' /\ ctrl' = u.ctrl /\ hw' = u.hw /\ log'.owed = r.callback
    BY <1>15, <2>2 DEF RestSame
  <2>5. CallInv'
    BY <1>13, <1>17, <2>3, <2>4 DEF CallInv, Working
  <2>6. ~Rx' /\ RefusedInv'
    BY <1>14, <2>2, <2>4 DEF Rx, RefusedInv, T1, T0
  <2> QED
    BY <2>3, <2>4, <2>5, <2>6 DEF IInv, StageInv
<1>18. CASE r.accepted /\ r.dir = "in"
  <2> DEFINE b == ArmOut(bi)
             g == Goes(k, "data_in")
             n == Min2(g.size - g.nb, CtrlSize)
  <2>1. u = InSent(b)
    BY <1>7, <1>9, <1>10, <1>18
  <2>2. RestSame(t, b) /\ b.ctrl = g /\ b.hw = Armed(h)
    BY <1>11, ArmOutResult DEF RestSame
  <2>3. /\ g \in Ctrl /\ g.state = "data_in" /\ g.dir = "in" /\ g.wLength = r.wLength
        /\ g.size = r.size /\ g.callback = r.callback /\ g.prev = 0 /\ g.nb = 0
    BY <1>7, <1>12, <1>18, GoesResult DEF CtrlStates
  <2>4. g.nb <= g.size
    BY <1>13, <2>3
  <2> HIDE DEF b, g, n
  <2>5. /\ RestSame(b, u)
        /\ DataSent(b) => /\ u.hw = Armed(b.hw)
                          /\ u.ctrl = [g EXCEPT !.state = "wait_out_zlp", !.prev = g.prev + g.nb]
        /\ ~DataSent(b) => u.ctrl = Sends(g) /\ u.hw = Loaded(b.hw, g.nb, n)
    BY <2>1, <2>2, <2>4, InSentResult DEF RestSame, n
  <2>6. DataSent(b) <=> (g.size = g.nb /\ (g.wLength = g.prev + g.nb \/ g.short = TRUE))
    BY <2>2, <2>3 DEF DataSent, Ctrl
  <2>7. RestSame(t, u)
    BY <2>2, <2>5 DEF RestSame
  <2>8. /\ TypeInv' /\ LogInv' /\ ctrl' = u.ctrl /\ hw' = u.hw /\ host' = host
        /\ log'.owed = FALSE
    BY <1>13, <1>15, <1>18, <2>7 DEF RestSame
  <2>9. Armed(h) \in Hw /\ Armed(h).flags = h.flags /\ Armed(h).stallrq = {}
        /\ Armed(h).loaded = FALSE
    BY <1>6, <1>14, ArmedResult
  <2>10. CASE DataSent(b)
    <3>1. /\ Armed(b.hw).flags = b.hw.flags /\ Armed(b.hw).stallrq = b.hw.stallrq
          /\ Armed(b.hw).loaded = b.hw.loaded
      BY <2>2, <2>9, ArmedResult
    <3>2. u.hw.flags = h.flags /\ u.hw.stallrq = {} /\ u.hw.loaded = FALSE
      BY <2>2, <2>5, <2>9, <2>10, <3>1
    <3>3. /\ u.ctrl.state = "wait_out_zlp" /\ u.ctrl.dir = "in"
          /\ u.ctrl.wLength = r.wLength /\ u.ctrl.size = r.size /\ u.ctrl.callback = FALSE
      BY <1>13, <1>18, <2>3, <2>5, <2>10 DEF Ctrl
    <3>4. r.size = 0
      BY <2>3, <2>6, <2>10
    <3>5. CallInv'
      BY <2>8, <3>3 DEF CallInv, Working
    <3>6. ~Rx' /\ WaitOutInv'
      BY <1>13, <1>14, <1>16, <1>18, <2>8, <3>2, <3>3, <3>4
         DEF Rx, WaitOutInv, Agree, T1, T0
    <3> QED
      BY <2>8, <3>3, <3>5, <3>6 DEF IInv, StageInv
  <2>11. CASE ~DataSent(b)
    <3>1. /\ n \in Nat /\ Sends(g).state = "data_in" /\ Sends(g).dir = "in"
          /\ Sends(g).wLength = r.wLength /\ Sends(g).size = r.size
          /\ Sends(g).callback = FALSE /\ Sends(g).prev = 0
          /\ Sends(g).short = (n < CtrlSize) /\ Sends(g).nb = n
      BY <1>13, <1>18, <2>3, <2>4, SendsResult DEF n
    <3>2. Serves(h, 0, n)
      BY <1>6, <3>1, 0 \in Nat, ServedHw
    <3>3. /\ u.hw.flags = h.flags /\ u.hw.stallrq = {} /\ u.hw.loaded = TRUE
          /\ u.hw.pos = 0 /\ u.hw.length = n
      BY <1>14, <2>2, <2>3, <2>5, <2>11, <3>2 DEF Serves
    <3>4. n <= CtrlSize /\ n <= r.size /\ (n < CtrlSize => n = r.size)
      BY <1>13, <2>3, CtrlFacts DEF n, Min2
    <3>5. CallInv'
      BY <2>5, <2>8, <2>11, <3>1 DEF CallInv, Working
    <3>6. LoadedInv'
      BY <1>14, <1>16, <2>5, <2>8, <2>11, <3>1, <3>3, <3>4 DEF LoadedInv, T1
    <3>7. ~Rx' /\ DataInInv'
      BY <1>13, <1>14, <1>16, <1>18, <2>5, <2>8, <2>11, <3>1, <3>3, <3>4, <3>6
         DEF Rx, DataInInv, Agree, T0, F0
    <3> QED
      BY <2>5, <2>8, <2>11, <3>1, <3>5, <3>7 DEF IInv, StageInv
  <2> QED
    BY <2>10, <2>11
<1>19. CASE r.accepted /\ r.dir = "out" /\ r.wLength = 0
  <2>1. u = SendZlpIn(t)
    BY <1>7, <1>9, <1>10, <1>19
  <2>2. /\ RestSame(t, u) /\ u.ctrl = Goes(c, "wait_in_zlp")
        /\ u.hw = Loaded(Armed(h), 0, 0)
    BY <1>9, <2>1, SendZlpInResult
  <2>3. /\ u.ctrl.state = "wait_in_zlp" /\ u.ctrl.dir = "out" /\ u.ctrl.wLength = 0
        /\ u.ctrl.size = r.size /\ u.ctrl.callback = r.callback
    BY <1>7, <1>19, <2>2, GoesResult DEF CtrlStates
  <2>4. Serves(h, 0, 0)
    BY <1>6, 0 \in Nat, ServedHw
  <2>5. u.hw.flags = h.flags /\ u.hw.stallrq = {}
    BY <1>14, <2>2, <2>4 DEF Serves
  <2>6. /\ TypeInv' /\ LogInv' /\ ctrl' = u.ctrl /\ hw' = u.hw /\ host' = host
        /\ log'.owed = r.callback /\ log'.shook = FALSE /\ log'.stored = 0
        /\ log'.cut = log.cut
    BY <1>15, <2>2 DEF RestSame
  <2>7. CallInv'
    BY <1>13, <2>3, <2>6 DEF CallInv, Working
  <2>8. ~Rx' /\ WaitInInv'
    BY <1>13, <1>14, <1>16, <1>19, <2>3, <2>5, <2>6
       DEF Rx, WaitInInv, Agree, T1, T0
  <2> QED
    BY <2>3, <2>6, <2>7, <2>8 DEF IInv, StageInv
<1>20. CASE r.accepted /\ r.dir = "out" /\ r.wLength # 0
  <2> DEFINE g == Goes(k, "data_out")
  <2>1. u = ArmOut(bo)
    BY <1>7, <1>9, <1>10, <1>20
  <2>2. RestSame(t, u) /\ u.ctrl = g /\ u.hw = Armed(h)
    BY <1>11, <2>1, ArmOutResult DEF RestSame
  <2>3. /\ g.state = "data_out" /\ g.dir = "out" /\ g.wLength = r.wLength
        /\ g.size = r.size /\ g.callback = r.callback /\ g.prev = 0 /\ g.nb = 0
    BY <1>7, <1>12, <1>20, GoesResult DEF CtrlStates
  <2>4. /\ u.hw.flags = h.flags /\ u.hw.stallrq = {} /\ u.hw.loaded = FALSE
    BY <1>6, <1>14, <2>2, ArmedResult
  <2>5. /\ TypeInv' /\ LogInv' /\ ctrl' = g /\ hw' = u.hw /\ host' = host
        /\ log'.owed = r.callback /\ log'.shook = FALSE /\ log'.stored = 0
        /\ log'.cut = log.cut
    BY <1>15, <2>2 DEF RestSame
  <2> HIDE DEF g
  <2>6. CallInv'
    BY <1>13, <2>3, <2>5 DEF CallInv, Working
  <2>7. GivenInv'
    BY <1>14, <1>16, <2>3, <2>4, <2>5 DEF GivenInv, T0
  <2>8. ~Rx' /\ DataOutInv'
    BY <1>13, <1>14, <1>16, <1>20, <2>3, <2>4, <2>5, <2>7
       DEF Rx, DataOutInv, Agree, T1, F1
  <2> QED
    BY <2>3, <2>5, <2>6, <2>8 DEF IInv, StageInv
<1> QED
  BY <1>13, <1>17, <1>18, <1>19, <1>20 DEF Dirs

-----------------------------------------------------------------------------
(* Steps that change flags only *)

(* A flag of an error flow may come with a token of that direction. *)
FlagsOnly ==
    /\ hw'.stallrq = hw.stallrq /\ hw'.armed = hw.armed /\ hw'.count = hw.count
    /\ hw'.loaded = hw.loaded /\ hw'.pos = hw.pos /\ hw'.length = hw.length
    /\ Rx' <=> Rx
    /\ T1' <=> T1
    /\ T0' <=> T0
    /\ F1' => F1 \/ SendsIn
    /\ F0' => F0 \/ SendsOut
    /\ UNCHANGED <<ctrl, ram, host, log>>

LEMMA FlagsOnlyKeeps ==
    ASSUME IInv, TypeInv', FlagsOnly
    PROVE  IInv'
<1>1. LogInv' /\ CallInv'
  BY DEF IInv, FlagsOnly, LogInv, CallInv, Working
<1>2. Rx => TakenInv'
  BY DEF IInv, FlagsOnly, TakenInv, SendsIn, SendsOut
<1>3. (IdleInv => IdleInv') /\ (RefusedInv => RefusedInv')
  BY DEF FlagsOnly, IdleInv, RefusedInv
<1>4. DataOutInv => DataOutInv'
  <2> SUFFICES ASSUME DataOutInv PROVE DataOutInv'
    OBVIOUS
  <2>1. GivenInv' /\ Agree'
    BY DEF FlagsOnly, DataOutInv, GivenInv, Agree
  <2>2. F1' => host.stage = "status"
    BY DEF FlagsOnly, DataOutInv, Agree, SendsIn
  <2> QED
    BY <2>1, <2>2 DEF FlagsOnly, DataOutInv
<1>5. WaitInInv => WaitInInv'
  BY DEF FlagsOnly, WaitInInv, Agree
<1>6. DataInInv => DataInInv'
  <2> SUFFICES ASSUME DataInInv PROVE DataInInv'
    OBVIOUS
  <2>1. LoadedInv => LoadedInv'
    BY DEF FlagsOnly, LoadedInv
  <2>2. F0' => host.stage # "data"
    BY DEF FlagsOnly, DataInInv, Agree, SendsOut
  <2> QED
    BY <2>1, <2>2 DEF FlagsOnly, DataInInv, Agree
<1>7. WaitOutInv => WaitOutInv'
  BY DEF FlagsOnly, WaitOutInv, Agree
<1>8. StageInv => StageInv'
  BY <1>3, <1>4, <1>5, <1>6, <1>7 DEF FlagsOnly, StageInv
<1> QED
  BY <1>1, <1>2, <1>8 DEF IInv, FlagsOnly

(* The handler takes a flag and does nothing else *)
LEMMA ClearedKeeps ==
    ASSUME IInv, NEW f \in {"stall1", "stall0", "trfail1", "trfail0"}, Becomes(Cleared(f)),
           UNCHANGED host
    PROVE  IInv'
<1>1. TypeInv /\ hw \in Hw /\ host \in Host
  BY Types DEF IInv
<1>2. Cleared(f) \in States /\ Fields(Cleared(f), ctrl, Dropped(hw, f), received, ram, log)
  BY <1>1, ClearedResult
<1>3. /\ TypeInv' /\ ctrl' = ctrl /\ hw' = Dropped(hw, f) /\ ram' = ram /\ log' = log
      /\ host' = host
  BY <1>1, <1>2, BecomesResult DEF Fields
<1>4. /\ hw'.flags = hw.flags \ {f} /\ hw'.stallrq = hw.stallrq /\ hw'.armed = hw.armed
      /\ hw'.count = hw.count /\ hw'.loaded = hw.loaded /\ hw'.pos = hw.pos
      /\ hw'.length = hw.length
  BY <1>1, <1>3, DroppedResult
<1>5. FlagsOnly
  BY <1>3, <1>4 DEF FlagsOnly, Rx, T1, T0, F1, F0
<1> QED
  BY <1>3, <1>5, FlagsOnlyKeeps

LEMMA StallInterruptKeeps ==
    ASSUME IInv, StallInterrupt
    PROVE  IInv'
<1>1. PICK f \in {"stall1", "stall0"} : Becomes(Cleared(f))
  BY DEF StallInterrupt
<1>2. UNCHANGED host
  BY DEF StallInterrupt
<1> QED
  BY <1>1, <1>2, ClearedKeeps

LEMMA RaiseResult ==
    ASSUME NEW h \in Hw, NEW f \in Flags
    PROVE  /\ Raise(h, f) \in Hw /\ Raise(h, f).flags = h.flags \cup {f}
           /\ Raise(h, f).stallrq = h.stallrq /\ Raise(h, f).armed = h.armed
           /\ Raise(h, f).count = h.count /\ Raise(h, f).loaded = h.loaded
           /\ Raise(h, f).pos = h.pos /\ Raise(h, f).length = h.length
BY DEF Raise, Hw

(* A token that is not acknowledged *)
LEMMA NakedKeeps ==
    ASSUME IInv,
           \/ SendsIn /\ HostNaked("in", hw.loaded, "trfail1")
           \/ SendsOut /\ HostNaked("out", hw.armed, "trfail0")
    PROVE  IInv'
<1>1. /\ ctrl \in Ctrl /\ hw \in Hw /\ received \in Nat /\ ram \in Ram /\ log \in Log
      /\ host \in Host
  BY Types DEF IInv
<1>2. UNCHANGED <<ctrl, received, ram, host, log>>
  BY DEF HostNaked
<1>3. PICK f \in {"trfail1", "trfail0"} :
         /\ hw' = Raise(hw, f)
         /\ f = "trfail1" => SendsIn
         /\ f = "trfail0" => SendsOut
  BY DEF HostNaked
<1>4. /\ hw' \in Hw /\ hw'.flags = hw.flags \cup {f} /\ hw'.stallrq = hw.stallrq
      /\ hw'.armed = hw.armed /\ hw'.count = hw.count /\ hw'.loaded = hw.loaded
      /\ hw'.pos = hw.pos /\ hw'.length = hw.length
  BY <1>1, <1>3, RaiseResult DEF Flags
<1>5. TypeInv'
  BY <1>1, <1>2, <1>4 DEF TypeInv, St, States
<1>6. FlagsOnly
  BY <1>2, <1>3, <1>4 DEF FlagsOnly, Rx, T1, T0, F1, F0
<1> QED
  BY <1>5, <1>6, FlagsOnlyKeeps

-----------------------------------------------------------------------------
(* Steps that serve the end of a transfer *)

Running(s, fresh) ==
    LET u == RunCallback(s, fresh)
    IN /\ u \in States /\ u.ctrl = s.ctrl /\ u.hw = s.hw /\ u.ram = s.ram
       /\ u.received = s.received /\ Good(u.log)
       /\ u.log.owed = (s.log.owed /\ ~s.ctrl.callback)

(* The handshake of ctrl's request is served: the endpoint waits for the   *)
(* next one.                                                               *)
LEMMA HandshakeKeeps ==
    ASSUME IInv, ~Rx, NEW s \in States, NEW h \in Hw, Fields(s, ctrl, h, s.received, ram, log),
           ctrl.state \notin {"data_out", "data_in"},
           Becomes(TransferOk(s)), UNCHANGED host, host.stage = "idle",
           "rxstp" \notin h.flags, "trcpt1" \notin h.flags, "trcpt0" \notin h.flags,
           ctrl.callback => log.owed /\ log.shook /\ (~log.cut => ctrl.size = log.stored)
    PROVE  IInv'
<1> DEFINE r == RunCallback(s, FALSE)
           u == [r EXCEPT !.ctrl.state = "setup"]
<1>1. ctrl \in Ctrl /\ host \in Host /\ LogInv /\ CallInv
  BY Types DEF IInv
<1>2. s.ctrl = ctrl /\ s.hw = h /\ s.ram = ram /\ s.log = log
  BY DEF Fields
<1>3. TransferOk(s) = u
  BY <1>2 DEF TransferOk
<1>4. Running(s, FALSE)
  BY <1>1, <1>2, CallbackResult DEF Running, LogInv
<1>5. /\ r \in States /\ r.ctrl = ctrl /\ r.hw = h /\ r.ram = ram /\ Good(r.log)
      /\ r.log.owed = (log.owed /\ ~ctrl.callback)
  BY <1>2, <1>4 DEF Running
<1> HIDE DEF r
<1>6. RestSame(r, u) /\ u.hw = r.hw /\ u.ctrl = Goes(r.ctrl, "setup")
  BY <1>5, StateSetResult DEF CtrlStates
<1> HIDE DEF u
<1>7. /\ TypeInv' /\ ctrl' = Goes(ctrl, "setup") /\ hw' = h /\ host' = host
      /\ Good(log') /\ log'.owed = (log.owed /\ ~ctrl.callback)
  BY <1>1, <1>3, <1>5, <1>6, BecomesResult DEF RestSame
<1>8. ctrl'.state = "setup"
  BY <1>1, <1>7, GoesResult DEF CtrlStates
<1>9. log'.owed = FALSE
  BY <1>1, <1>7 DEF CallInv, Working
<1>10. LogInv' /\ CallInv'
  BY <1>7, <1>8, <1>9 DEF LogInv, CallInv, Working
<1>11. ~Rx' /\ IdleInv'
  BY <1>7 DEF Rx, IdleInv, T1, T0
<1> QED
  BY <1>7, <1>8, <1>10, <1>11 DEF IInv, StageInv

(* udd_ctrl_in_sent in the data stage, after the host took a packet or, in *)
(* place of one, gave the handshake                                        *)
LEMMA InSentKeeps ==
    ASSUME IInv, ~Rx, NEW s \in States, NEW h \in Hw, Fields(s, ctrl, h, s.received, ram, log),
           ctrl.state = "data_in", Becomes(InSent(s)), UNCHANGED host,
           h.stallrq = {}, "rxstp" \notin h.flags, "trcpt1" \notin h.flags,
           "trcpt0" \in h.flags => T0, "trfail0" \in h.flags => F0,
           host.stage = "data" => T1
    PROVE  IInv'
<1> DEFINE u == InSent(s)
           n == Min2(ctrl.size - ctrl.nb, CtrlSize)
<1>1. /\ ctrl \in Ctrl /\ host \in Host /\ log \in Log /\ LogInv /\ CallInv /\ DataInInv
      /\ hw \in Hw
  BY Types DEF IInv, StageInv
<1>2. s.ctrl = ctrl /\ s.hw = h /\ s.ram = ram /\ s.log = log
  BY DEF Fields
<1>3. /\ ctrl.size \in Nat /\ ctrl.nb \in Nat /\ ctrl.wLength \in Nat /\ ctrl.prev \in Nat
      /\ host.got \in Nat /\ ctrl.nb <= ctrl.size /\ ctrl.short \in BOOLEAN
  BY <1>1 DEF Ctrl, Host, DataInInv
<1>4. /\ RestSame(s, u)
      /\ DataSent(s) => /\ u.hw = Armed(h)
                        /\ u.ctrl = [ctrl EXCEPT !.state = "wait_out_zlp",
                                                 !.prev = ctrl.prev + ctrl.nb]
      /\ ~DataSent(s) => u.ctrl = Sends(ctrl) /\ u.hw = Loaded(h, ctrl.nb, n)
  BY <1>2, <1>3, InSentResult
<1>5. DataSent(s) <=> (ctrl.size = ctrl.nb /\ (ctrl.wLength = ctrl.prev + ctrl.nb \/ ctrl.short))
  BY <1>2 DEF DataSent
<1>6. host.stage = "data" => /\ ctrl.nb = host.got /\ host.got < ctrl.wLength
                             /\ ctrl.prev = 0 /\ ~ctrl.short
  BY <1>1 DEF DataInInv, LoadedInv
<1> HIDE DEF u, n
<1>7. TypeInv' /\ ctrl' = u.ctrl /\ hw' = u.hw /\ log' = log /\ host' = host
  BY <1>1, <1>2, <1>4, BecomesResult DEF RestSame, u
<1>8. LogInv'
  BY <1>1, <1>7 DEF LogInv
<1>9. ctrl.callback = FALSE /\ log.owed = FALSE
  BY <1>1 DEF CallInv, Working, Ctrl, Log
<1>10. CASE DataSent(s)
  <2>1. /\ ctrl'.state = "wait_out_zlp" /\ ctrl'.dir = ctrl.dir
        /\ ctrl'.wLength = ctrl.wLength /\ ctrl'.size = ctrl.size /\ ctrl'.callback = FALSE
    BY <1>1, <1>4, <1>7, <1>9, <1>10 DEF Ctrl
  <2>2. hw'.flags = h.flags /\ hw'.stallrq = {}
    BY <1>4, <1>7, <1>10, ArmedResult
  <2>3. host.stage # "data"
    BY <1>3, <1>5, <1>6, <1>10
  <2>4. CallInv'
    BY <1>7, <1>9, <2>1 DEF CallInv, Working
  <2>5. ~Rx' /\ WaitOutInv'
    BY <1>1, <1>7, <2>1, <2>2, <2>3 DEF Rx, DataInInv, WaitOutInv, Agree, T1, T0
  <2> QED
    BY <1>7, <1>8, <2>1, <2>4, <2>5 DEF IInv, StageInv
<1>11. CASE ~DataSent(s)
  <2>1. /\ n \in Nat /\ ctrl'.state = "data_in" /\ ctrl'.dir = ctrl.dir
        /\ ctrl'.wLength = ctrl.wLength /\ ctrl'.size = ctrl.size /\ ctrl'.callback = FALSE
        /\ ctrl'.prev = ctrl.prev + (IF ctrl.size = ctrl.nb THEN ctrl.nb ELSE 0)
        /\ ctrl'.short = (n < CtrlSize) /\ ctrl'.nb = ctrl.nb + n
    BY <1>1, <1>3, <1>4, <1>7, <1>9, <1>11, SendsResult DEF n
  <2>2. /\ hw'.flags = h.flags /\ hw'.stallrq = {} /\ hw'.loaded = TRUE
        /\ hw'.pos = ctrl.nb /\ hw'.length = n
    <3>1. LoadedAs(h, ctrl.nb, n)
      BY <1>3, <2>1, LoadedResult
    <3> QED
      BY <1>4, <1>7, <1>11, <3>1 DEF LoadedAs
  <2>3. /\ n <= CtrlSize /\ ctrl.nb + n <= ctrl.size
        /\ n < CtrlSize => ctrl.nb + n = ctrl.size
        /\ n > 0 => ctrl.size # ctrl.nb
    BY <1>3, CtrlFacts DEF n, Min2
  <2>4. CallInv'
    BY <1>7, <1>9, <2>1 DEF CallInv, Working
  <2>5. host.stage = "data" => LoadedInv'
    BY <1>3, <1>6, <1>7, <2>1, <2>2, <2>3 DEF LoadedInv, T1
  <2>6. ~Rx' /\ DataInInv'
    BY <1>1, <1>7, <2>1, <2>2, <2>3, <2>5 DEF Rx, DataInInv, Agree, T0, F0
  <2> QED
    BY <1>7, <1>8, <2>1, <2>4, <2>6 DEF IInv, StageInv
<1> QED
  BY <1>10, <1>11

LEMMA SentInterruptKeeps ==
    ASSUME IInv, SentInterrupt
    PROVE  IInv'
<1> DEFINE s == Cleared("trcpt1")
           h == Dropped(hw, "trcpt1")
<1>1. /\ ctrl \in Ctrl /\ hw \in Hw /\ host \in Host /\ log \in Log
      /\ LogInv /\ CallInv /\ StageInv /\ ~Rx /\ T1
  BY Types DEF IInv, SentInterrupt, Pending, Rx, T1
<1>2. s \in States /\ Fields(s, ctrl, h, received, ram, log)
  BY ClearedResult DEF IInv
<1>3. Becomes(TransferOk(s)) /\ UNCHANGED host
  BY DEF SentInterrupt
<1>4. h \in Hw /\ h.flags = hw.flags \ {"trcpt1"} /\ h.stallrq = hw.stallrq
  BY <1>1, DroppedResult
<1> HIDE DEF s, h
<1>5. s.ctrl = ctrl /\ Fields(s, ctrl, h, s.received, ram, log)
  BY <1>2 DEF Fields
<1>6. ctrl.state = "wait_in_zlp" \/ ctrl.state = "data_in"
  BY <1>1 DEF StageInv, IdleInv, RefusedInv, DataOutInv, WaitOutInv, Ctrl, CtrlStates
<1>7. CASE ctrl.state = "wait_in_zlp"
  <2>1. WaitInInv /\ (ctrl.callback => log.owed)
    BY <1>1, <1>7 DEF StageInv, CallInv, Working
  <2>2. /\ host.stage = "idle" /\ "trcpt0" \notin h.flags
        /\ ctrl.callback => log.owed /\ log.shook /\ (~log.cut => ctrl.size = log.stored)
    BY <1>1, <1>4, <2>1 DEF WaitInInv, T0
  <2> QED
    BY <1>1, <1>2, <1>3, <1>4, <1>5, <1>7, <2>2, HandshakeKeeps DEF Rx
<1>8. CASE ctrl.state = "data_in"
  <2>1. TransferOk(s) = InSent(s)
    BY <1>5, <1>8 DEF TransferOk
  <2>2. h.stallrq = {}
    BY <1>1, <1>4, <1>8 DEF StageInv, DataInInv
  <2>3. /\ "rxstp" \notin h.flags /\ "trcpt1" \notin h.flags
        /\ "trcpt0" \in h.flags => T0
        /\ "trfail0" \in h.flags => F0
    BY <1>1, <1>4 DEF Rx, T0, F0
  <2> QED
    BY <1>1, <1>2, <1>3, <1>4, <1>5, <1>8, <2>1, <2>2, <2>3, InSentKeeps
<1> QED
  BY <1>6, <1>7, <1>8

(* udd_ctrl_out_received of a packet of the data stage *)
LEMMA OutReceivedKeeps ==
    ASSUME IInv, ~Rx, T0, NEW s \in States, NEW h \in Hw, Fields(s, ctrl, h, hw.count, ram, log),
           ctrl.state = "data_out", Becomes(OutReceived(s)), UNCHANGED host,
           h.stallrq = {}, h.flags = hw.flags \ {"trcpt0"}, h.loaded = hw.loaded
    PROVE  IInv'
<1> DEFINE u == OutReceived(s)
           n == IF ctrl.callback THEN hw.count ELSE 0
           nb == ctrl.nb + n
           last == n # CtrlSize \/ ctrl.wLength <= ctrl.prev + nb
           l == IF n = 0 THEN log ELSE [log EXCEPT !.stored = nb]
<1>1. /\ ctrl \in Ctrl /\ host \in Host /\ log \in Log /\ LogInv /\ CallInv /\ DataOutInv
      /\ hw \in Hw
  BY Types DEF IInv, StageInv
<1>2. s.ctrl = ctrl /\ s.hw = h /\ s.ram = ram /\ s.log = log /\ s.received = hw.count
  BY DEF Fields
<1>3. /\ ctrl.size \in Nat /\ ctrl.nb \in Nat /\ ctrl.wLength \in Nat /\ ctrl.prev = 0
      /\ host.got \in Nat /\ hw.count \in Nat /\ ctrl.callback \in BOOLEAN
  BY <1>1 DEF Ctrl, Host, Hw, DataOutInv
<1>4. /\ hw.count \in 1 .. CtrlSize /\ host.got = ctrl.nb + hw.count
      /\ host.got <= ctrl.wLength /\ (hw.count < CtrlSize => host.got = ctrl.wLength)
      /\ ram.kind = "data" /\ ram.pos = ctrl.nb
  BY <1>1 DEF DataOutInv, GivenInv
<1>5. /\ ctrl.callback => ctrl.size = ctrl.wLength /\ log.stored = ctrl.nb
      /\ ~ctrl.callback => ctrl.size = 0 /\ ctrl.wLength <= CtrlSize /\ ctrl.nb = 0
  BY <1>1 DEF DataOutInv
<1>6. /\ n \in Nat /\ nb \in Nat
      /\ n = IF ctrl.size - ctrl.nb < hw.count THEN ctrl.size - ctrl.nb ELSE hw.count
  BY <1>3, <1>4, <1>5, CtrlFacts
<1>7. /\ u \in States
      /\ u.log = l
      /\ last => /\ u.ctrl = [ctrl EXCEPT !.state = "wait_in_zlp", !.nb = nb, !.size = nb]
                 /\ u.hw = Loaded(Armed(h), 0, 0)
      /\ ~last => /\ u.ctrl = [ctrl EXCEPT !.nb = nb]
                  /\ u.hw = Armed(h)
  <2> HIDE DEF n
  <2>1. Receives(s, n)
    BY <1>2, <1>4, <1>6, OutReceivedResult
  <2> QED
    BY <1>2, <2>1 DEF Receives
<1>8. TypeInv' /\ ctrl' = u.ctrl /\ hw' = u.hw /\ log' = u.log /\ host' = host
  BY <1>1, <1>7, BecomesResult
<1> HIDE DEF u
<1>9. /\ log'.stored = (IF n = 0 THEN log.stored ELSE nb) /\ log'.owed = log.owed
      /\ log'.shook = log.shook /\ log'.cut = log.cut /\ Good(log')
  <2> HIDE DEF nb, n
  <2>1. Good(log)
    BY <1>1 DEF LogInv
  <2> QED
    <3>1. log' = l
      BY <1>7, <1>8
    <3>2. /\ l.stored = (IF n = 0 THEN log.stored ELSE nb) /\ l.owed = log.owed
          /\ l.shook = log.shook /\ l.cut = log.cut /\ l.twice = log.twice
          /\ l.early = log.early /\ l.inexact = log.inexact /\ l.foreign = log.foreign
          /\ l.spurned = log.spurned
      <4>1. CASE n = 0
        BY <4>1
      <4>2. CASE n # 0
        <5>1. l = [log EXCEPT !.stored = nb]
          BY <4>2
        <5> HIDE DEF l
        <5> QED
          BY <1>1, <1>6, <4>2, <5>1 DEF Log
      <4> QED
        BY <4>1, <4>2
    <3> HIDE DEF l
    <3>3. Good(l)
      BY <2>1, <3>2 DEF Good
    <3> QED
      BY <3>1, <3>2, <3>3
<1>10. "rxstp" \notin h.flags /\ "trcpt1" \notin h.flags /\ "trcpt0" \notin h.flags
  BY <1>1 DEF Rx, DataOutInv, T1
<1>11. host.stage = "data" => host.got < ctrl.wLength
  BY <1>1 DEF DataOutInv
<1>12. CASE last
  <2>1. nb = (IF ctrl.callback THEN host.got ELSE 0) /\ host.stage # "data"
    <3>1. CASE ctrl.callback
      <4>1. n = hw.count
        BY <3>1
      <4>2. nb = host.got /\ (hw.count < CtrlSize \/ ctrl.wLength <= host.got)
        BY <1>3, <1>4, <1>12, <4>1, CtrlFacts
      <4> QED
        BY <1>3, <1>4, <1>11, <3>1, <4>2
    <3>2. CASE ~ctrl.callback
      BY <1>3, <1>4, <1>5, <1>11, <3>2, CtrlFacts
    <3> QED
      BY <3>1, <3>2
  <2> HIDE DEF nb, n, last, l
  <2>2. /\ ctrl'.state = "wait_in_zlp" /\ ctrl'.dir = ctrl.dir
        /\ ctrl'.wLength = ctrl.wLength /\ ctrl'.size = nb /\ ctrl'.callback = ctrl.callback
    BY <1>1, <1>7, <1>8, <1>12 DEF Ctrl
  <2>3. Serves(h, 0, 0)
    BY 0 \in Nat, ServedHw
  <2>4. hw'.flags = h.flags /\ hw'.stallrq = {}
    BY <1>7, <1>8, <1>12, <2>3 DEF Serves
  <2>5. ctrl.callback => log'.stored = nb
    BY <1>4, <1>9 DEF n
  <2>6. CallInv'
    BY <1>1, <1>9, <2>2 DEF CallInv, Working
  <2>7. ~Rx' /\ WaitInInv'
    BY <1>1, <1>8, <1>10, <2>1, <2>2, <2>4, <2>5 DEF Rx, DataOutInv, WaitInInv, Agree, T1, T0
  <2> QED
    BY <1>8, <1>9, <2>2, <2>6, <2>7 DEF IInv, StageInv, LogInv
<1>13. CASE ~last
  <2>1. ctrl.callback /\ n = hw.count /\ nb = host.got /\ nb < ctrl.wLength /\ n # 0
    BY <1>3, <1>4, <1>6, <1>13, CtrlFacts
  <2> HIDE DEF nb, n, last, l
  <2>2. /\ ctrl'.state = "data_out" /\ ctrl'.dir = ctrl.dir /\ ctrl'.prev = 0
        /\ ctrl'.wLength = ctrl.wLength /\ ctrl'.size = ctrl.size
        /\ ctrl'.callback = ctrl.callback /\ ctrl'.nb = nb
    BY <1>1, <1>3, <1>7, <1>8, <1>13 DEF Ctrl
  <2>3. hw'.flags = h.flags /\ hw'.stallrq = {} /\ hw'.loaded = FALSE
    <3>1. /\ Armed(h).flags = h.flags /\ Armed(h).stallrq = h.stallrq
          /\ Armed(h).loaded = h.loaded
      BY ArmedResult
    <3>2. hw.loaded = FALSE
      BY <1>1 DEF DataOutInv, Hw
    <3> QED
      BY <1>7, <1>8, <1>13, <3>1, <3>2
  <2>4. CallInv'
    BY <1>1, <1>9, <2>2 DEF CallInv, Working
  <2>5. GivenInv'
    BY <1>8, <1>10, <2>1, <2>2, <2>3 DEF GivenInv, T0
  <2>6. F1' => F1
    BY <2>3 DEF F1
  <2>7. ~Rx' /\ DataOutInv'
    BY <1>1, <1>5, <1>8, <1>9, <1>10, <2>1, <2>2, <2>3, <2>5, <2>6
       DEF Rx, DataOutInv, Agree, T1
  <2> QED
    BY <1>8, <1>9, <2>2, <2>4, <2>7 DEF IInv, StageInv, LogInv
<1> QED
  BY <1>12, <1>13

LEMMA ReceivedInterruptKeeps ==
    ASSUME IInv, ReceivedInterrupt
    PROVE  IInv'
<1> DEFINE s == [Cleared("trcpt0") EXCEPT !.received = hw.count]
           h == Dropped(hw, "trcpt0")
<1>1. /\ ctrl \in Ctrl /\ hw \in Hw /\ host \in Host /\ log \in Log
      /\ LogInv /\ CallInv /\ StageInv /\ ~Rx /\ ~T1 /\ T0
  BY Types DEF IInv, ReceivedInterrupt, Pending, Rx, T1, T0
<1>2. s \in States /\ Fields(s, ctrl, h, hw.count, ram, log)
  BY ClearedResult DEF IInv
<1>3. Becomes(TransferOk(s)) /\ UNCHANGED host
  BY DEF ReceivedInterrupt
<1>4. /\ h \in Hw /\ h.flags = hw.flags \ {"trcpt0"} /\ h.stallrq = hw.stallrq
      /\ h.loaded = hw.loaded
  BY <1>1, DroppedResult
<1> HIDE DEF s, h
<1>5. s.ctrl = ctrl /\ Fields(s, ctrl, h, s.received, ram, log)
  BY <1>2 DEF Fields
<1>6. ctrl.state \in {"data_out", "data_in", "wait_out_zlp"}
  BY <1>1 DEF StageInv, IdleInv, RefusedInv, WaitInInv, Ctrl, CtrlStates
<1>7. CASE ctrl.state = "data_out"
  <2>1. TransferOk(s) = OutReceived(s)
    BY <1>5, <1>7 DEF TransferOk
  <2>2. h.stallrq = {}
    BY <1>1, <1>4, <1>7 DEF StageInv, DataOutInv
  <2> QED
    BY <1>1, <1>2, <1>3, <1>4, <1>7, <2>1, <2>2, OutReceivedKeeps
<1>8. CASE ctrl.state = "data_in"
  <2>1. TransferOk(s) = InSent(s)
    BY <1>5, <1>8 DEF TransferOk
  <2>2. h.stallrq = {} /\ host.stage = "idle"
    BY <1>1, <1>4, <1>8 DEF StageInv, DataInInv
  <2>3. /\ "rxstp" \notin h.flags /\ "trcpt1" \notin h.flags
        /\ "trcpt0" \in h.flags => T0
        /\ "trfail0" \in h.flags => F0
    BY <1>1, <1>4 DEF Rx, T1, T0, F0
  <2> QED
    BY <1>1, <1>2, <1>3, <1>4, <1>5, <1>8, <2>1, <2>2, <2>3, InSentKeeps
<1>9. CASE ctrl.state = "wait_out_zlp"
  <2>1. WaitOutInv /\ ctrl.callback = FALSE
    BY <1>1, <1>9 DEF StageInv, CallInv, Working, Ctrl
  <2>2. /\ host.stage = "idle" /\ "rxstp" \notin h.flags /\ "trcpt1" \notin h.flags
        /\ "trcpt0" \notin h.flags
    BY <1>1, <1>4, <2>1 DEF WaitOutInv, Rx, T1, T0
  <2>3. ctrl.state \notin {"data_out", "data_in"}
    BY <1>9
  <2> QED
    BY <1>1, <1>2, <1>3, <1>4, <1>5, <2>1, <2>2, <2>3, HandshakeKeeps
<1> QED
  BY <1>6, <1>7, <1>8, <1>9

-----------------------------------------------------------------------------
(* Steps that serve an error flow *)

Stalls(h, dir) == [h EXCEPT !.stallrq = h.stallrq \cup {dir}]

LEMMA StallsResult ==
    ASSUME NEW s \in States, NEW dir \in Dirs
    PROVE  LET t == [s EXCEPT !.hw.stallrq = @ \cup {dir}]
           IN /\ RestSame(s, t) /\ t.ctrl = s.ctrl /\ t.hw = Stalls(s.hw, dir)
              /\ Stalls(s.hw, dir).stallrq = s.hw.stallrq \cup {dir}
              /\ Stalls(s.hw, dir).flags = s.hw.flags
              /\ Stalls(s.hw, dir).loaded = s.hw.loaded
<1> DEFINE t == [s EXCEPT !.hw.stallrq = @ \cup {dir}]
           h == Stalls(s.hw, dir)
<1>1. s.hw \in Hw
  BY FieldTypes
<1>2. /\ h \in Hw /\ h.stallrq = s.hw.stallrq \cup {dir} /\ h.flags = s.hw.flags
      /\ h.loaded = s.hw.loaded
  BY <1>1 DEF Stalls, Hw
<1>3. t = [s EXCEPT !.hw = h]
  BY DEF Stalls
<1> HIDE DEF h, t
<1>4. RestSame(s, t) /\ t.ctrl = s.ctrl /\ t.hw = h
  BY <1>2, <1>3 DEF States, RestSame
<1> QED
  BY <1>2, <1>4 DEF h, t

LEMMA UnderflowInterruptKeeps ==
    ASSUME IInv, UnderflowInterrupt
    PROVE  IInv'
<1> DEFINE s == Cleared("trfail1")
           h == Dropped(hw, "trfail1")
           u == Underflow(s)
<1>1. /\ ctrl \in Ctrl /\ hw \in Hw /\ host \in Host /\ log \in Log
      /\ LogInv /\ CallInv /\ StageInv /\ ~Rx /\ ~T1 /\ ~T0 /\ F1
  BY Types DEF IInv, UnderflowInterrupt, NoTransfer, Pending, Rx, T1, T0, F1
<1>2. /\ s \in States /\ s.ctrl = ctrl /\ s.hw = h /\ s.received = received
      /\ s.ram = ram /\ s.log = log
  BY ClearedResult DEF IInv, Fields
<1>3. Becomes(u) /\ UNCHANGED host
  BY DEF UnderflowInterrupt
<1>4. /\ h \in Hw /\ h.flags = hw.flags \ {"trfail1"} /\ h.stallrq = hw.stallrq
      /\ h.loaded = hw.loaded
  BY <1>1, DroppedResult
<1>5. "rxstp" \notin h.flags /\ "trcpt1" \notin h.flags /\ "trcpt0" \notin h.flags
  BY <1>1, <1>4 DEF Rx, T1, T0
<1> HIDE DEF h
<1>6. CASE ctrl.state = "data_out"
  <2> HIDE DEF s, u
  <2>1. u = SendZlpIn(s)
    BY <1>2, <1>6 DEF Underflow, u
  <2>2. /\ RestSame(s, u) /\ u.ctrl = Goes(ctrl, "wait_in_zlp")
        /\ u.hw = Loaded(Armed(h), 0, 0)
    BY <1>2, <2>1, SendZlpInResult
  <2>3. TypeInv' /\ ctrl' = u.ctrl /\ hw' = u.hw /\ log' = log /\ host' = host
    BY <1>1, <1>2, <1>3, <2>2, BecomesResult DEF RestSame
  <2>4. DataOutInv /\ (ctrl.callback => ~log.shook)
    BY <1>1, <1>6 DEF StageInv, CallInv, Working
  <2>5. /\ ctrl'.state = "wait_in_zlp" /\ ctrl'.dir = ctrl.dir
        /\ ctrl'.wLength = ctrl.wLength /\ ctrl'.size = ctrl.size
        /\ ctrl'.callback = ctrl.callback
    BY <1>1, <2>2, <2>3, GoesResult DEF CtrlStates
  <2>6. Serves(h, 0, 0)
    BY <1>4, 0 \in Nat, ServedHw
  <2>7. hw'.flags = h.flags /\ hw'.stallrq = {}
    BY <1>4, <2>2, <2>3, <2>4, <2>6 DEF Serves, DataOutInv
  <2>8. host.stage = "status" /\ log.cut
    BY <1>1, <2>4 DEF DataOutInv, GivenInv, Ctrl, Host
  <2>9. LogInv' /\ CallInv'
    BY <1>1, <1>6, <2>3, <2>5 DEF LogInv, CallInv, Working
  <2>10. ~Rx' /\ WaitInInv'
    BY <1>5, <2>3, <2>4, <2>5, <2>7, <2>8 DEF Rx, DataOutInv, WaitInInv, Agree, T1, T0
  <2> QED
    BY <2>3, <2>5, <2>9, <2>10 DEF IInv, StageInv
<1>7. CASE ctrl.state = "wait_out_zlp"
  <2> HIDE DEF s, u
  <2>1. u = [s EXCEPT !.hw.stallrq = @ \cup {"in"}]
    BY <1>2, <1>7 DEF Underflow, u
  <2>2. /\ RestSame(s, u) /\ u.ctrl = ctrl
        /\ u.hw.stallrq = h.stallrq \cup {"in"} /\ u.hw.flags = h.flags
        /\ u.hw.loaded = h.loaded
    BY <1>2, <2>1, StallsResult DEF Dirs
  <2>3. TypeInv' /\ ctrl' = ctrl /\ hw' = u.hw /\ log' = log /\ host' = host
    BY <1>1, <1>2, <1>3, <2>2, BecomesResult DEF RestSame
  <2>4. LogInv' /\ CallInv'
    BY <1>1, <1>7, <2>3 DEF LogInv, CallInv, Working
  <2>5. ~Rx' /\ WaitOutInv'
    BY <1>1, <1>4, <1>5, <1>7, <2>2, <2>3 DEF StageInv, Rx, WaitOutInv, Agree, T1, T0
  <2> QED
    BY <1>7, <2>3, <2>4, <2>5 DEF IInv, StageInv
<1>8. CASE ctrl.state \notin {"data_out", "wait_out_zlp"}
  <2>1. u = s
    BY <1>2, <1>8 DEF Underflow
  <2> QED
    BY <1>3, <2>1, ClearedKeeps
<1> QED
  BY <1>6, <1>7, <1>8

LEMMA OverflowInterruptKeeps ==
    ASSUME IInv, OverflowInterrupt
    PROVE  IInv'
<1> DEFINE s == Cleared("trfail0")
           h == Dropped(hw, "trfail0")
           u == Overflow(s)
<1>1. /\ ctrl \in Ctrl /\ hw \in Hw /\ host \in Host /\ log \in Log
      /\ LogInv /\ CallInv /\ StageInv /\ ~Rx /\ ~T1 /\ ~T0 /\ F0
  BY Types DEF IInv, OverflowInterrupt, NoTransfer, Pending, Rx, T1, T0, F0
<1>2. /\ s \in States /\ s.ctrl = ctrl /\ s.hw = h /\ s.received = received
      /\ s.ram = ram /\ s.log = log
  BY ClearedResult DEF IInv, Fields
<1>3. Becomes(u) /\ UNCHANGED host
  BY DEF OverflowInterrupt
<1>4. /\ h \in Hw /\ h.flags = hw.flags \ {"trfail0"} /\ h.stallrq = hw.stallrq
      /\ h.loaded = hw.loaded
  BY <1>1, DroppedResult
<1>5. "rxstp" \notin h.flags /\ "trcpt1" \notin h.flags /\ "trcpt0" \notin h.flags
  BY <1>1, <1>4 DEF Rx, T1, T0
<1> HIDE DEF h
<1>6. CASE ctrl.state = "data_in"
  <2> HIDE DEF s, u
  <2>1. u = [s EXCEPT !.ctrl.state = "wait_out_zlp"]
    BY <1>2, <1>6 DEF Overflow, u
  <2>2. RestSame(s, u) /\ u.hw = h /\ u.ctrl = Goes(ctrl, "wait_out_zlp")
    BY <1>2, <2>1, StateSetResult DEF CtrlStates
  <2>3. TypeInv' /\ ctrl' = u.ctrl /\ hw' = h /\ log' = log /\ host' = host
    BY <1>1, <1>2, <1>3, <2>2, BecomesResult DEF RestSame
  <2>4. DataInInv /\ ctrl.callback = FALSE
    BY <1>1, <1>6 DEF StageInv, CallInv, Working, Ctrl
  <2>5. /\ ctrl'.state = "wait_out_zlp" /\ ctrl'.dir = ctrl.dir
        /\ ctrl'.wLength = ctrl.wLength /\ ctrl'.size = ctrl.size
        /\ ctrl'.callback = FALSE
    BY <1>1, <2>2, <2>3, <2>4, GoesResult DEF CtrlStates
  <2>6. LogInv' /\ CallInv'
    BY <1>1, <1>6, <2>3, <2>4, <2>5 DEF LogInv, CallInv, Working
  <2>7. ~Rx' /\ WaitOutInv'
    BY <1>1, <1>4, <1>5, <2>3, <2>4, <2>5 DEF DataInInv, Rx, WaitOutInv, Agree, T1, T0
  <2> QED
    BY <2>3, <2>5, <2>6, <2>7 DEF IInv, StageInv
<1>7. CASE ctrl.state = "wait_in_zlp"
  <2> HIDE DEF s, u
  <2>1. u = [s EXCEPT !.hw.stallrq = @ \cup {"out"}]
    BY <1>2, <1>7 DEF Overflow, u
  <2>2. /\ RestSame(s, u) /\ u.ctrl = ctrl
        /\ u.hw.stallrq = h.stallrq \cup {"out"} /\ u.hw.flags = h.flags
        /\ u.hw.loaded = h.loaded
    BY <1>2, <2>1, StallsResult DEF Dirs
  <2>3. TypeInv' /\ ctrl' = ctrl /\ hw' = u.hw /\ log' = log /\ host' = host
    BY <1>1, <1>2, <1>3, <2>2, BecomesResult DEF RestSame
  <2>4. LogInv' /\ CallInv'
    BY <1>1, <1>7, <2>3 DEF LogInv, CallInv, Working
  <2>5. ~Rx' /\ WaitInInv'
    BY <1>1, <1>4, <1>5, <1>7, <2>2, <2>3 DEF StageInv, Rx, WaitInInv, Agree, T1, T0
  <2> QED
    BY <1>7, <2>3, <2>4, <2>5 DEF IInv, StageInv
<1>8. CASE ctrl.state \notin {"data_in", "wait_in_zlp"}
  <2>1. u = s
    BY <1>2, <1>8 DEF Overflow
  <2> QED
    BY <1>3, <2>1, ClearedKeeps
<1> QED
  BY <1>6, <1>7, <1>8

-----------------------------------------------------------------------------
(* The host's steps *)

(* Fields of the log that a host's step may change *)
LogAs(shook, cut, inexact, spurned) ==
    [log EXCEPT !.shook = shook, !.cut = cut, !.inexact = inexact, !.spurned = spurned]

LogIs(l, shook, cut, inexact, spurned) ==
    /\ l \in Log /\ l.shook = shook /\ l.cut = cut /\ l.inexact = inexact
    /\ l.spurned = spurned /\ l.owed = log.owed /\ l.stored = log.stored
    /\ l.twice = log.twice /\ l.early = log.early /\ l.foreign = log.foreign

LEMMA LogAsResult ==
    ASSUME log \in Log, NEW shook \in BOOLEAN, NEW cut \in BOOLEAN, NEW inexact \in BOOLEAN,
           NEW spurned \in SUBSET {"empty", "other"}
    PROVE  LogIs(LogAs(shook, cut, inexact, spurned), shook, cut, inexact, spurned)
BY DEF LogAs, LogIs, Log

(* udd_g_ctrlreq is not touched *)
LEMMA HostLog ==
    ASSUME LogInv, CallInv, ctrl' = ctrl, NEW cut, NEW spurned,
           LogIs(log', log.shook, cut, FALSE, spurned), "other" \notin spurned,
           T1' <=> T1
    PROVE  LogInv' /\ CallInv'
BY DEF LogInv, Good, CallInv, Working, LogIs

LEMMA HostSetupKeeps ==
    ASSUME IInv, ~SetupOvertakes, NEW r \in Requests, HostSetup(r)
    PROVE  IInv'
<1>1. /\ ctrl \in Ctrl /\ hw \in Hw /\ received \in Nat /\ ram \in Ram /\ log \in Log
      /\ host \in Host /\ LogInv /\ CallInv
  BY Types DEF IInv
<1>2. ~Rx /\ ~T1 /\ ~T0 /\ ~F1 /\ ~F0 /\ Legal(r)
  BY DEF HostSetup, Raised, Raising, Pending, Rx, T1, T0, F1, F0
<1>3. r.dir \in Dirs /\ r.wLength \in Nat
  BY <1>2, RequestFacts
<1>4. /\ hw' \in Hw /\ hw'.flags = hw.flags \cup {"rxstp"} /\ hw'.stallrq = {}
      /\ hw'.armed = FALSE /\ hw'.loaded = FALSE
  BY <1>1, CtrlFacts DEF HostSetup, Hw, Flags
<1>5. ram' \in Ram /\ ram'.kind = "setup" /\ ram'.request = r
  BY DEF HostSetup, Ram
<1>6. /\ host' \in Host /\ host'.stage = (IF r.wLength = 0 THEN "status" ELSE "data")
      /\ host'.dir = r.dir /\ host'.wLength = r.wLength /\ host'.got = 0
  BY <1>3 DEF HostSetup, Host
<1>7. log' = LogAs(log.shook, FALSE, log.inexact, log.spurned)
  BY <1>1 DEF HostSetup, LogAs, Log
<1>8. LogIs(log', log.shook, FALSE, log.inexact, log.spurned)
  BY <1>1, <1>7, LogAsResult DEF Log
<1>9. log.inexact = FALSE /\ "other" \notin log.spurned
  BY <1>1 DEF LogInv, Good, Log
<1>10. ctrl' = ctrl /\ received' = received
  BY DEF HostSetup
<1>11. TypeInv'
  BY <1>1, <1>4, <1>5, <1>6, <1>8, <1>10 DEF TypeInv, St, States, LogIs
<1>12. Rx' /\ ~T1' /\ ~T0' /\ ~F1' /\ ~F0'
  BY <1>2, <1>4 DEF Rx, T1, T0, F1, F0
<1>13. LogInv' /\ CallInv'
  BY <1>1, <1>2, <1>8, <1>9, <1>10, <1>12, HostLog
<1>14. TakenInv'
  BY <1>2, <1>3, <1>4, <1>5, <1>6, <1>12 DEF TakenInv
<1> QED
  BY <1>11, <1>12, <1>13, <1>14 DEF IInv

(* A STALL: only in the stages that are halted for it                      *)
LEMMA StalledKeeps ==
    ASSUME IInv,
           \/ SendsIn /\ HostStalled("in", "stall1")
           \/ SendsOut /\ HostStalled("out", "stall0")
    PROVE  IInv'
<1>1. /\ ctrl \in Ctrl /\ hw \in Hw /\ received \in Nat /\ ram \in Ram /\ log \in Log
      /\ host \in Host /\ LogInv /\ CallInv
  BY Types DEF IInv
<1>2. PICK f \in {"stall1", "stall0"} :
         /\ hw' = Raise(hw, f)
         /\ f = "stall1" => SendsIn /\ "in" \in hw.stallrq
         /\ f = "stall0" => SendsOut /\ "out" \in hw.stallrq
  BY DEF HostStalled
<1>3. host' = HostIdle /\ UNCHANGED <<ctrl, received, ram>>
  BY DEF HostStalled
<1>4. /\ hw' \in Hw /\ hw'.flags = hw.flags \cup {f} /\ hw'.stallrq = hw.stallrq
      /\ hw'.armed = hw.armed /\ hw'.loaded = hw.loaded
  BY <1>1, <1>2, RaiseResult DEF Flags
<1>5. host' \in Host /\ host'.stage = "idle"
  BY <1>3 DEF HostIdle, Host, Dirs
<1>6. /\ Rx' <=> Rx
      /\ T1' <=> T1
      /\ T0' <=> T0
  BY <1>4 DEF Rx, T1, T0
<1>7. ~Rx
  BY <1>2 DEF IInv, TakenInv
<1>8. StageInv
  BY <1>7 DEF IInv
<1>9. CASE ctrl.state = "stall_req"
  <2>1. log' = log
    BY <1>9 DEF HostStalled
  <2>2. TypeInv'
    BY <1>1, <1>3, <1>4, <1>5, <2>1 DEF TypeInv, St, States
  <2>3. LogInv' /\ CallInv'
    BY <1>1, <1>3, <1>6, <2>1 DEF LogInv, CallInv, Working
  <2>4. RefusedInv'
    BY <1>4, <1>6, <1>8, <1>9 DEF StageInv, RefusedInv
  <2> QED
    BY <1>3, <1>6, <1>7, <1>9, <2>2, <2>3, <2>4 DEF IInv, StageInv
<1>10. CASE ctrl.state = "wait_out_zlp"
  <2>1. WaitOutInv
    BY <1>8, <1>10 DEF StageInv
  <2>2. f = "stall1" /\ host.stage = "data"
    BY <1>1, <1>2, <2>1 DEF WaitOutInv, SendsIn, StatusIn, Agree, Ctrl, Host
  <2>3. ctrl.dir = "in" /\ ctrl.size = 0
    BY <2>1, <2>2 DEF WaitOutInv
  <2> DEFINE sp == log.spurned \cup {"empty"}
  <2>4. log' = [log EXCEPT !.spurned = sp]
    BY <1>10, <2>3 DEF HostStalled
  <2>5. log' = LogAs(log.shook, log.cut, log.inexact, sp)
    BY <1>1, <2>4 DEF LogAs, Log
  <2>6. sp \in SUBSET {"empty", "other"} /\ "other" \notin sp /\ log.inexact = FALSE
    BY <1>1 DEF Log, LogInv, Good
  <2> HIDE DEF sp
  <2>7. LogIs(log', log.shook, log.cut, FALSE, sp)
    BY <1>1, <2>5, <2>6, LogAsResult DEF Log
  <2>8. TypeInv'
    BY <1>1, <1>3, <1>4, <1>5, <2>7 DEF TypeInv, St, States, LogIs
  <2>9. LogInv' /\ CallInv'
    BY <1>1, <1>3, <1>6, <2>6, <2>7, HostLog
  <2>10. WaitOutInv'
    BY <1>3, <1>4, <1>5, <1>6, <2>1 DEF WaitOutInv, Agree
  <2> QED
    BY <1>3, <1>6, <1>7, <1>10, <2>8, <2>9, <2>10 DEF IInv, StageInv
<1>11. CASE ctrl.state \notin {"stall_req", "wait_out_zlp"}
  <2>1. ctrl.state # "setup"
    BY <1>2, <1>8 DEF StageInv, IdleInv, SendsIn, SendsOut
  <2>2. ctrl.state # "data_out" /\ ctrl.state # "data_in"
    BY <1>2, <1>8 DEF StageInv, DataOutInv, DataInInv
  <2>3. ctrl.state # "wait_in_zlp"
    BY <1>1, <1>2, <1>8 DEF StageInv, WaitInInv, SendsOut, StatusIn, Agree
  <2> QED
    BY <1>1, <1>11, <2>1, <2>2, <2>3 DEF Ctrl, CtrlStates
<1> QED
  BY <1>9, <1>10, <1>11

LEMMA HostCutsKeeps ==
    ASSUME IInv, HostCuts
    PROVE  IInv'
<1>1. /\ ctrl \in Ctrl /\ hw \in Hw /\ received \in Nat /\ ram \in Ram /\ log \in Log
      /\ host \in Host /\ LogInv /\ CallInv
  BY Types DEF IInv
<1>2. UNCHANGED <<ctrl, hw, received, ram>> /\ host.stage = "data"
  BY DEF HostCuts
<1>3. /\ host' \in Host /\ host'.stage = "status" /\ host'.dir = host.dir
      /\ host'.wLength = host.wLength /\ host'.got = host.got
  BY <1>1 DEF HostCuts, Host
<1>4. log' = LogAs(log.shook, TRUE, log.inexact, log.spurned)
  BY <1>1 DEF HostCuts, LogAs, Log
<1>5. LogIs(log', log.shook, TRUE, log.inexact, log.spurned)
  BY <1>1, <1>4, LogAsResult DEF Log
<1>6. log.inexact = FALSE /\ "other" \notin log.spurned
  BY <1>1 DEF LogInv, Good, Log
<1>7. TypeInv'
  BY <1>1, <1>2, <1>3, <1>5 DEF TypeInv, St, States, LogIs
<1>8. LogInv' /\ CallInv'
  BY <1>1, <1>2, <1>5, <1>6, HostLog DEF T1
<1>9. log'.cut = TRUE /\ log'.stored = log.stored
  BY <1>5 DEF LogIs
<1>10. Rx => TakenInv'
  BY <1>2, <1>3, <1>9 DEF IInv, TakenInv, T1, T0, F1, F0
<1>11. DataOutInv => DataOutInv'
  BY <1>2, <1>3, <1>9 DEF DataOutInv, GivenInv, Agree, T1, T0, F1
<1>12. DataInInv => DataInInv'
  BY <1>2, <1>3 DEF DataInInv, Agree, T0, F0
<1>13. WaitOutInv => WaitOutInv'
  BY <1>2, <1>3 DEF WaitOutInv, Agree, T1, T0
<1>14. StageInv => StageInv'
  BY <1>2, <1>11, <1>12, <1>13 DEF StageInv, IdleInv, RefusedInv, WaitInInv, T1, T0
<1> QED
  BY <1>2, <1>7, <1>8, <1>10, <1>14 DEF IInv, Rx

(* The host takes a packet of the data stage, or the handshake of a        *)
(* request that sent data.                                                 *)
LEMMA TakesKeeps ==
    ASSUME IInv, SendsIn, HostTakes
    PROVE  IInv'
<1> DEFINE got == host.got + hw.length
           last == hw.length < CtrlSize \/ got >= host.wLength
           raised == Raise(hw, "trcpt1")
<1>1. /\ ctrl \in Ctrl /\ hw \in Hw /\ received \in Nat /\ ram \in Ram /\ log \in Log
      /\ host \in Host /\ LogInv /\ CallInv
  BY Types DEF IInv
<1>2. hw.loaded /\ UNCHANGED <<ctrl, received, ram>>
  BY DEF HostTakes
<1>3. ~Rx /\ StageInv
  BY <1>2 DEF IInv, TakenInv
<1>4. /\ raised \in Hw /\ raised.flags = hw.flags \cup {"trcpt1"}
      /\ raised.stallrq = hw.stallrq
  BY <1>1, RaiseResult DEF Flags
<1>5. hw' = [raised EXCEPT !.loaded = FALSE, !.pos = 0, !.length = 0]
  BY DEF HostTakes
<1> HIDE DEF raised
<1>6. /\ hw' \in Hw /\ hw'.flags = hw.flags \cup {"trcpt1"} /\ hw'.stallrq = hw.stallrq
      /\ hw'.loaded = FALSE
  BY <1>4, <1>5 DEF Hw
<1>7. /\ ~Rx' /\ T1'
      /\ T0' <=> T0
      /\ F0' <=> F0
      /\ F1' <=> F1
  BY <1>3, <1>6 DEF Rx, T1, T0, F0, F1
<1>8. log.inexact = FALSE /\ "other" \notin log.spurned
  BY <1>1 DEF LogInv, Good, Log
<1>9. CASE ctrl.state = "data_in"
  <2>1. DataInInv /\ ctrl.callback = FALSE
    BY <1>1, <1>3, <1>9 DEF StageInv, CallInv, Working, Ctrl
  <2>2. host.stage = "data" /\ host.wLength = ctrl.wLength
    BY <1>1, <2>1 DEF DataInInv, Agree, SendsIn, StatusIn, Host
  <2>3. /\ hw.pos = host.got /\ ctrl.nb = got
        /\ hw.length <= CtrlSize /\ (hw.length < CtrlSize => ctrl.nb = ctrl.size)
        /\ hw.length > 0 => ctrl.prev = 0
        /\ ctrl.short = (hw.length < CtrlSize)
    BY <1>2, <2>1, <2>2 DEF DataInInv, LoadedInv
  <2>4. /\ hw.length \in Nat /\ host.got \in Nat /\ got \in Nat /\ ctrl.wLength \in Nat
        /\ ctrl.size \in Nat /\ ctrl.nb \in Nat /\ ctrl.size <= ctrl.wLength
        /\ ctrl.nb <= ctrl.size
    BY <1>1, <2>1 DEF Hw, Host, Ctrl, DataInInv
  <2>5. last => got = ctrl.size
    BY <2>2, <2>3, <2>4, CtrlFacts
  <2>6. ~last => got < ctrl.wLength /\ ctrl.prev = 0 /\ ~ctrl.short
    <3>1. ~last => hw.length = CtrlSize /\ hw.length > 0
      BY <2>3, <2>4, CtrlFacts
    <3>2. ~last => ~(hw.length < CtrlSize)
      OBVIOUS
    <3>3. ~last => got < ctrl.wLength
      BY <2>2, <2>4
    <3> QED
      BY <2>3, <3>1, <3>2, <3>3
  <2>7. /\ host' \in Host /\ host'.stage = (IF last THEN "status" ELSE "data")
        /\ host'.dir = host.dir /\ host'.wLength = host.wLength /\ host'.got = got
    <3>1. host' = [host EXCEPT !.got = got, !.stage = IF last THEN "status" ELSE "data"]
      BY <2>2 DEF HostTakes
    <3> HIDE DEF got, last
    <3> QED
      BY <1>1, <2>4, <3>1 DEF Host
  <2>8. log' = [log EXCEPT !.inexact = @ \/ (hw.length > 0 /\ hw.pos # host.got)
                                         \/ (last /\ got # ctrl.size)]
    BY <2>2 DEF HostTakes
  <2>9. log' = LogAs(log.shook, log.cut, FALSE, log.spurned)
    <3>1. (log.inexact \/ (hw.length > 0 /\ hw.pos # host.got)
                       \/ (last /\ got # ctrl.size)) = FALSE
      BY <1>8, <2>3, <2>5
    <3>2. log' = [log EXCEPT !.inexact = FALSE]
      BY <2>8, <3>1
    <3> QED
      BY <1>1, <3>2 DEF LogAs, Log
  <2>10. LogIs(log', log.shook, log.cut, FALSE, log.spurned)
    BY <1>1, <2>9, LogAsResult DEF Log
  <2> HIDE DEF got, last
  <2>11. TypeInv'
    BY <1>1, <1>2, <1>6, <2>7, <2>10 DEF TypeInv, St, States, LogIs
  <2>12. LogInv' /\ CallInv'
    BY <1>1, <1>2, <1>8, <1>9, <2>1, <2>10 DEF LogInv, Good, CallInv, Working, LogIs
  <2>13. ~T0
    BY <2>1, <2>2 DEF DataInInv
  <2>14. host'.stage = "data" => LoadedInv'
    BY <1>2, <1>6, <1>7, <2>3, <2>6, <2>7 DEF LoadedInv
  <2>15. DataInInv'
    BY <1>2, <1>6, <1>7, <2>1, <2>2, <2>7, <2>13, <2>14 DEF DataInInv, Agree
  <2> QED
    BY <1>2, <1>7, <1>9, <2>11, <2>12, <2>15 DEF IInv, StageInv
<1>10. CASE ctrl.state = "wait_in_zlp"
  <2>1. WaitInInv
    BY <1>3, <1>10 DEF StageInv
  <2>2. host.stage = "status"
    BY <2>1 DEF WaitInInv, SendsIn
  <2>3. host' = HostIdle /\ log' = [log EXCEPT !.shook = TRUE]
    BY <2>2 DEF HostTakes
  <2>4. host' \in Host /\ host'.stage = "idle"
    BY <2>3 DEF HostIdle, Host, Dirs
  <2>5. log' = LogAs(TRUE, log.cut, log.inexact, log.spurned)
    BY <1>1, <2>3 DEF LogAs, Log
  <2>6. LogIs(log', TRUE, log.cut, log.inexact, log.spurned)
    BY <1>1, <2>5, LogAsResult DEF Log
  <2>7. TypeInv'
    BY <1>1, <1>2, <1>6, <2>4, <2>6 DEF TypeInv, St, States, LogIs
  <2>8. LogInv' /\ CallInv'
    BY <1>1, <1>2, <1>7, <1>8, <1>10, <2>6 DEF LogInv, Good, CallInv, Working, LogIs
  <2>9. WaitInInv'
    BY <1>2, <1>6, <1>7, <2>1, <2>4, <2>6 DEF WaitInInv, Agree, LogIs
  <2> QED
    BY <1>2, <1>7, <1>10, <2>7, <2>8, <2>9 DEF IInv, StageInv
<1>11. CASE ctrl.state \notin {"data_in", "wait_in_zlp"}
  <2>1. ctrl.state # "setup"
    BY <1>3 DEF StageInv, IdleInv, SendsIn
  <2>2. ctrl.state # "data_out" /\ ctrl.state # "stall_req"
    BY <1>2, <1>3 DEF StageInv, DataOutInv, RefusedInv
  <2>3. ctrl.state # "wait_out_zlp"
    BY <1>1, <1>2, <1>3 DEF StageInv, WaitOutInv, SendsIn, StatusIn, Agree, Ctrl, Host
  <2> QED
    BY <1>1, <1>11, <2>1, <2>2, <2>3 DEF Ctrl, CtrlStates
<1> QED
  BY <1>9, <1>10, <1>11

(* The host gives a packet of the data stage, or the handshake of a        *)
(* request that received data.                                             *)
LEMMA GivesKeeps ==
    ASSUME IInv, SendsOut, HostGives
    PROVE  IInv'
<1> DEFINE left == host.wLength - host.got
           n == IF host.stage = "status" THEN 0
                ELSE IF left < CtrlSize THEN left ELSE CtrlSize
           raised == Raise(hw, "trcpt0")
<1>1. /\ ctrl \in Ctrl /\ hw \in Hw /\ received \in Nat /\ ram \in Ram /\ log \in Log
      /\ host \in Host /\ LogInv /\ CallInv
  BY Types DEF IInv
<1>2. hw.armed /\ UNCHANGED <<ctrl, received>>
  BY DEF HostGives
<1>3. ~Rx /\ StageInv
  BY <1>2 DEF IInv, TakenInv
<1>4. /\ raised \in Hw /\ raised.flags = hw.flags \cup {"trcpt0"}
      /\ raised.stallrq = hw.stallrq /\ raised.loaded = hw.loaded
      /\ raised.pos = hw.pos /\ raised.length = hw.length
  BY <1>1, RaiseResult DEF Flags
<1>5. hw' = [raised EXCEPT !.armed = FALSE, !.count = n]
  BY DEF HostGives
<1> HIDE DEF raised
<1>6. CASE ctrl.state = "data_out"
  <2>1. DataOutInv /\ (ctrl.callback => ~log.shook)
    BY <1>1, <1>3, <1>6 DEF StageInv, CallInv, Working
  <2>2. host.stage = "data" /\ host.wLength = ctrl.wLength
    BY <2>1 DEF DataOutInv, Agree, SendsOut, StatusIn
  <2>3. ~T0 /\ ~F1 /\ host.got = ctrl.nb /\ host.got < ctrl.wLength
    BY <1>2, <2>1, <2>2 DEF DataOutInv, GivenInv
  <2>4. host.got \in Nat /\ host.wLength \in Nat /\ ctrl.nb \in Nat /\ ctrl.wLength \in Nat
    BY <1>1 DEF Host, Ctrl
  <2>5. /\ n \in 1 .. CtrlSize /\ n \in Nat /\ host.got + n \in Nat
        /\ host.got + n <= ctrl.wLength
        /\ n < CtrlSize => host.got + n = ctrl.wLength
        /\ n = left => host.got + n = ctrl.wLength
        /\ n # left => host.got + n < ctrl.wLength
    BY <2>2, <2>3, <2>4, CtrlFacts
  <2>6. /\ ram' = [kind |-> "data", pos |-> host.got]
        /\ host' = [host EXCEPT !.got = @ + n, !.stage = IF n = left THEN "status" ELSE "data"]
        /\ log' = log
    <3>1. n # 0
      BY <2>5
    <3> HIDE DEF n
    <3> QED
      BY <2>2, <3>1 DEF HostGives, n
  <2> HIDE DEF n, left
  <2>7. /\ hw' \in Hw /\ hw'.flags = hw.flags \cup {"trcpt0"} /\ hw'.stallrq = hw.stallrq
        /\ hw'.loaded = hw.loaded /\ hw'.armed = FALSE /\ hw'.count = n
    BY <1>4, <1>5, <2>5 DEF Hw
  <2>8. /\ host' \in Host /\ host'.stage = (IF n = left THEN "status" ELSE "data")
        /\ host'.dir = host.dir /\ host'.wLength = host.wLength
        /\ host'.got = host.got + n
    BY <1>1, <2>5, <2>6 DEF Host
  <2>9. ram' \in Ram /\ ram'.kind = "data" /\ ram'.pos = host.got
    BY <2>4, <2>6 DEF Ram
  <2>10. /\ ~Rx' /\ T0' /\ ~F1'
         /\ T1' <=> T1
    BY <1>3, <2>3, <2>7 DEF Rx, T1, T0, F1
  <2>11. TypeInv'
    BY <1>1, <1>2, <2>6, <2>7, <2>8, <2>9 DEF TypeInv, St, States
  <2>12. LogInv' /\ CallInv'
    BY <1>1, <1>2, <1>6, <2>6, <2>10 DEF LogInv, CallInv, Working
  <2>13. GivenInv'
    BY <1>2, <2>3, <2>5, <2>7, <2>8, <2>9, <2>10 DEF GivenInv
  <2>14. DataOutInv'
    BY <1>2, <2>1, <2>2, <2>5, <2>6, <2>7, <2>8, <2>10, <2>13 DEF DataOutInv, Agree
  <2> QED
    BY <1>2, <1>6, <2>10, <2>11, <2>12, <2>14 DEF IInv, StageInv
<1>7. CASE ctrl.state \in {"data_in", "wait_out_zlp"}
  <2>1. ctrl.dir = "in" /\ Agree /\ ctrl.callback = FALSE
    BY <1>1, <1>3, <1>7 DEF StageInv, DataInInv, WaitOutInv, CallInv, Working, Ctrl
  <2>2. host.stage = "status"
    BY <2>1 DEF Agree, SendsOut
  <2>3. n = 0
    BY <2>2
  <2>4. /\ host' = HostIdle /\ log' = [log EXCEPT !.shook = TRUE]
        /\ ram' = ram
    BY <2>2 DEF HostGives
  <2> HIDE DEF n, left
  <2>5. /\ hw' \in Hw /\ hw'.flags = hw.flags \cup {"trcpt0"} /\ hw'.stallrq = hw.stallrq
        /\ hw'.loaded = hw.loaded
    BY <1>4, <1>5, <2>3 DEF Hw
  <2>6. host' \in Host /\ host'.stage = "idle"
    BY <2>4 DEF HostIdle, Host, Dirs
  <2>7. log' = LogAs(TRUE, log.cut, log.inexact, log.spurned)
    BY <1>1, <2>4 DEF LogAs, Log
  <2>8. LogIs(log', TRUE, log.cut, log.inexact, log.spurned)
    BY <1>1, <2>7, LogAsResult DEF Log
  <2>9. TypeInv'
    BY <1>1, <1>2, <2>4, <2>5, <2>6, <2>8 DEF TypeInv, St, States, LogIs
  <2>10. LogInv' /\ CallInv'
    BY <1>1, <1>2, <2>1, <2>8 DEF LogInv, Good, CallInv, Working, LogIs
  <2>11. /\ ~Rx' /\ T0'
         /\ T1' <=> T1
         /\ F0' <=> F0
    BY <1>3, <2>5 DEF Rx, T1, T0, F0
  <2>12. ctrl.state = "data_in" => DataInInv'
    BY <1>2, <1>3, <2>5, <2>6, <2>11 DEF StageInv, DataInInv, Agree
  <2>13. ctrl.state = "wait_out_zlp" => WaitOutInv'
    BY <1>2, <1>3, <2>5, <2>6, <2>11 DEF StageInv, WaitOutInv, Agree
  <2> QED
    BY <1>2, <1>7, <2>9, <2>10, <2>11, <2>12, <2>13 DEF IInv, StageInv
<1>8. CASE ctrl.state \in {"setup", "stall_req", "wait_in_zlp"}
  <2>1. ctrl.state # "setup"
    BY <1>3 DEF StageInv, IdleInv, SendsOut
  <2>2. ctrl.state # "stall_req"
    BY <1>2, <1>3 DEF StageInv, RefusedInv
  <2>3. ctrl.state # "wait_in_zlp"
    BY <1>3 DEF StageInv, WaitInInv, SendsOut, StatusIn, Agree
  <2> QED
    BY <1>8, <2>1, <2>2, <2>3
<1> QED
  BY <1>1, <1>6, <1>7, <1>8 DEF Ctrl, CtrlStates

LEMMA BusResetKeeps ==
    ASSUME IInv, BusReset
    PROVE  IInv'
<1>1. /\ ctrl \in Ctrl /\ received \in Nat /\ ram \in Ram /\ log \in Log /\ LogInv
  BY Types DEF IInv
<1>2. ctrl' \in Ctrl /\ ctrl'.state = "setup"
  BY <1>1 DEF BusReset, Ctrl, CtrlStates
<1>3. hw' \in Hw /\ hw'.flags = {}
  BY DEF BusReset, HwReset, Hw
<1>4. host' \in Host /\ host'.stage = "idle"
  BY DEF BusReset, HostIdle, Host, Dirs
<1>5. /\ log' \in Log /\ log'.owed = FALSE /\ log'.twice = log.twice
      /\ log'.early = log.early /\ log'.inexact = log.inexact
      /\ log'.foreign = log.foreign /\ log'.spurned = log.spurned
  BY <1>1 DEF BusReset, Log
<1>6. received' = received /\ ram' = ram
  BY DEF BusReset
<1>7. TypeInv'
  BY <1>1, <1>2, <1>3, <1>4, <1>5, <1>6 DEF TypeInv, St, States
<1>8. LogInv' /\ CallInv'
  BY <1>1, <1>2, <1>5 DEF LogInv, Good, CallInv, Working
<1>9. ~Rx' /\ IdleInv'
  BY <1>3, <1>4 DEF Rx, IdleInv, T1, T0
<1> QED
  BY <1>2, <1>7, <1>8, <1>9 DEF IInv, StageInv

LEMMA InitHolds ==
    ASSUME Init
    PROVE  IInv
<1>1. ctrl \in Ctrl /\ ctrl.state = "setup" /\ ctrl.callback = FALSE
  BY DEF Init, CtrlReset, Ctrl, CtrlStates, Dirs
<1>2. hw \in Hw /\ hw.flags = {}
  BY DEF Init, HwReset, Hw
<1>3. host \in Host /\ host.stage = "idle"
  BY DEF Init, HostIdle, Host, Dirs
<1>4. log \in Log /\ log.owed = FALSE /\ Good(log)
  BY DEF Init, LogReset, Log, Good
<1>5. received \in Nat /\ ram \in Ram
  BY DEF Init, Ram
<1>6. TypeInv
  BY <1>1, <1>2, <1>3, <1>4, <1>5, Typed
<1>7. LogInv /\ CallInv
  BY <1>1, <1>4 DEF LogInv, CallInv, Working
<1>8. ~Rx /\ IdleInv
  BY <1>2, <1>3 DEF Rx, IdleInv, T1, T0
<1> QED
  BY <1>1, <1>6, <1>7, <1>8 DEF IInv, StageInv

LEMMA StepKeeps ==
    ASSUME IInv, ~SetupOvertakes, [Next]_vars
    PROVE  IInv'
<1>1. CASE Interrupt
  <2>1. CASE StallInterrupt
    BY <2>1, StallInterruptKeeps
  <2>2. CASE SetupInterrupt
    BY <2>2, SetupInterruptKeeps
  <2>3. CASE SentInterrupt
    BY <2>3, SentInterruptKeeps
  <2>4. CASE ReceivedInterrupt
    BY <2>4, ReceivedInterruptKeeps
  <2>5. CASE UnderflowInterrupt
    BY <2>5, UnderflowInterruptKeeps
  <2>6. CASE OverflowInterrupt
    BY <2>6, OverflowInterruptKeeps
  <2> QED
    BY <1>1, <2>1, <2>2, <2>3, <2>4, <2>5, <2>6 DEF Interrupt
<1>2. CASE HostIn
  <2>1. CASE HostStalled("in", "stall1")
    BY <1>2, <2>1, StalledKeeps DEF HostIn
  <2>2. CASE HostNaked("in", hw.loaded, "trfail1")
    BY <1>2, <2>2, NakedKeeps DEF HostIn
  <2>3. CASE HostTakes
    BY <1>2, <2>3, TakesKeeps DEF HostIn
  <2> QED
    BY <1>2, <2>1, <2>2, <2>3 DEF HostIn
<1>3. CASE HostOut
  <2>1. CASE HostStalled("out", "stall0")
    BY <1>3, <2>1, StalledKeeps DEF HostOut
  <2>2. CASE HostNaked("out", hw.armed, "trfail0")
    BY <1>3, <2>2, NakedKeeps DEF HostOut
  <2>3. CASE HostGives
    BY <1>3, <2>3, GivesKeeps DEF HostOut
  <2> QED
    BY <1>3, <2>1, <2>2, <2>3 DEF HostOut
<1>4. CASE HostCuts
  BY <1>4, HostCutsKeeps
<1>5. CASE \E r \in Requests : HostSetup(r)
  BY <1>5, HostSetupKeeps
<1>6. CASE BusReset
  BY <1>6, BusResetKeeps
<1>7. CASE UNCHANGED vars
  <2>1. TypeInv' /\ LogInv' /\ CallInv' /\ (Rx' <=> Rx)
    BY <1>7 DEF IInv, vars, TypeInv, St, LogInv, CallInv, Working, T1, Rx
  <2>2. TakenInv => TakenInv'
    BY <1>7 DEF vars, TakenInv, T1, T0, F1, F0
  <2>3. StageInv => StageInv'
    BY <1>7 DEF vars, StageInv, IdleInv, RefusedInv, DataOutInv, GivenInv, WaitInInv,
                DataInInv, LoadedInv, WaitOutInv, Agree, T1, T0, F1, F0
  <2> QED
    BY <2>1, <2>2, <2>3 DEF IInv
<1> QED
  BY <1>1, <1>2, <1>3, <1>4, <1>5, <1>6, <1>7 DEF Next

-----------------------------------------------------------------------------
(* The theorems *)

(* What endpoint 0 and the host know of a request agrees in every stage of *)
(* it, whichever of the data, handshake and error flow interrupts is       *)
(* served first, if the end of a request is served before the next one.    *)
THEOREM Invariance == ~SetupOvertakes /\ Spec => []IInv
<1> SUFFICES ASSUME ~SetupOvertakes PROVE Spec => []IInv
  OBVIOUS
<1>1. Init => IInv
  BY InitHolds
<1>2. IInv /\ [Next]_vars => IInv'
  BY StepKeeps
<1> QED
  BY <1>1, <1>2, PTL DEF Spec

(* The callback of an accepted request is run once, when its handshake was *)
(* given or the next request is taken up: no order of interrupts runs it   *)
(* again or leaves it out.                                                 *)
THEOREM CalledOnce == ~SetupOvertakes /\ Spec => []OneCallback
<1> SUFFICES ASSUME ~SetupOvertakes PROVE Spec => []OneCallback
  OBVIOUS
<1>1. IInv => OneCallback
  BY DEF IInv, LogInv, Good, CallInv, Working, OneCallback
<1> QED
  BY <1>1, Invariance, PTL

(* A request, SET_ADDRESS included, takes effect after the host has its    *)
(* handshake or when the host gives it up for another one.                 *)
THEOREM NotEarly == ~SetupOvertakes /\ Spec => []EarlyOnlyWhenGivenUp
<1> SUFFICES ASSUME ~SetupOvertakes PROVE Spec => []EarlyOnlyWhenGivenUp
  OBVIOUS
<1>1. IInv => EarlyOnlyWhenGivenUp
  BY DEF IInv, LogInv, Good, EarlyOnlyWhenGivenUp
<1> QED
  BY <1>1, Invariance, PTL

(* The host takes the payload in order and all of it, the empty packet     *)
(* after a full last one included, and a callback finds as many bytes in   *)
(* the payload as payload_size says.                                       *)
THEOREM Exact == ~SetupOvertakes /\ Spec => []DataExact
<1> SUFFICES ASSUME ~SetupOvertakes PROVE Spec => []DataExact
  OBVIOUS
<1>1. IInv => DataExact
  BY DEF IInv, LogInv, Good, DataExact
<1> QED
  BY <1>1, Invariance, PTL

(* What udd_ctrl_out_received copies into a payload is the packet of the   *)
(* data stage that belongs there.                                          *)
THEOREM OwnData == ~SetupOvertakes /\ Spec => []PayloadIsData
<1> SUFFICES ASSUME ~SetupOvertakes PROVE Spec => []PayloadIsData
  OBVIOUS
<1>1. IInv => PayloadIsData
  BY DEF IInv, LogInv, Good, PayloadIsData
<1> QED
  BY <1>1, Invariance, PTL

(* The host meets a STALL only in a request the device refused or that has *)
(* an empty answer.                                                        *)
THEOREM Refused == ~SetupOvertakes /\ Spec => []StallMeansRefused
<1> SUFFICES ASSUME ~SetupOvertakes PROVE Spec => []StallMeansRefused
  OBVIOUS
<1>1. IInv => StallMeansRefused
  BY DEF IInv, LogInv, Good, StallMeansRefused
<1> QED
  BY <1>1, Invariance, PTL

=============================================================================
