-------------------------- MODULE UsbEvents_proofs --------------------------
(***************************************************************************)
(* Proofs about UsbEvents: the driver holds its sleep lock once while the  *)
(* device is in use, whatever the host does, and with a host that waits    *)
(* for the interrupts of a change of the bus the device follows the bus.   *)
(***************************************************************************)
EXTENDS UsbEvents, TLAPS

Wakes == {"WAKEUP", "EORSM"}
Suspends == {"SUSPEND", "LPMSUSP"}

(* The callbacks of the bus; that of WAKEUP serves EORSM too. *)
Sources == {"SOF", "RESET", "WAKEUP", "SUSPEND", "LPMSUSP"}

Powers == {"OFF", "SUSPEND", "SUSPEND_LPM", "IDLE"}

States == [flags : SUBSET AllFlags, enabled : SUBSET AllFlags, udd : Powers,
           locks : 0 .. 255, told : {"nothing", "suspend", "resume"}]

-----------------------------------------------------------------------------
(* The inductive invariants *)

(* The driver's one lock, for any host *)
Limited(s) == s.locks = IF s.udd = "OFF" THEN 0 ELSE 1

(* The callbacks that lead out of the power state are enabled. *)
Callbacks ==
    /\ udd = "IDLE" => Suspends \subseteq enabled
    /\ udd \in {"SUSPEND", "SUSPEND_LPM"} => Wakes \subseteq enabled

(* How the power state follows the bus: the state it should have, or the   *)
(* flag that will lead to it and whose callback is enabled.                *)
Follows ==
    /\ (udd = "OFF") = (bus = "detached")
    /\ bus # "detached" => (told = "suspend") = (udd = "SUSPEND")
    /\ bus = "awake" => udd = "IDLE" \/ "WAKEUP" \in flags
    /\ bus = "suspended" => udd = "SUSPEND" \/ (udd = "IDLE" /\ "SUSPEND" \in flags)
    /\ bus = "dozing" => udd = "SUSPEND_LPM" \/ (udd = "IDLE" /\ "LPMSUSP" \in flags)
    /\ bus = "resuming" => \/ udd = "IDLE" /\ Wakes \cap enabled = {}
                           \/ udd # "IDLE" /\ "WAKEUP" \in flags

(* No flag is older than the last change of the bus, one of a resume that  *)
(* was served already apart, and endpoints have traffic on an awake bus.   *)
Fresh ==
    /\ "SUSPEND" \in flags => bus = "suspended" /\ udd = "IDLE"
    /\ "LPMSUSP" \in flags => bus = "dozing" /\ udd = "IDLE"
    /\ udd \in {"IDLE", "OFF"} \/ Asleep => Wakes \cap flags \cap enabled = {}
    /\ epint => bus = "awake" /\ udd = "IDLE"

SleepInv == main.mode = "OFF" => bus = "detached"

LockInv == TypeOK /\ Limited(St)
BusInv == LockInv /\ Callbacks /\ Follows /\ Fresh /\ SleepInv

-----------------------------------------------------------------------------
(* The handlers *)

LEMMA EnableResult ==
    ASSUME NEW s \in States, NEW c \in Sources
    PROVE  /\ EnableCallback(s, c) \in States
           /\ EnableCallback(s, c).flags = s.flags \ Bits(c)
           /\ EnableCallback(s, c).enabled = s.enabled \cup Bits(c)
           /\ EnableCallback(s, c).udd = s.udd
           /\ EnableCallback(s, c).locks = s.locks
           /\ EnableCallback(s, c).told = s.told
<1>1. Bits(c) \subseteq AllFlags
  BY DEF Bits, AllFlags, Sources
<1> QED
  BY <1>1 DEF EnableCallback, States

LEMMA DisableResult ==
    ASSUME NEW s \in States, NEW c \in Sources
    PROVE  /\ DisableCallback(s, c) \in States
           /\ DisableCallback(s, c).flags = s.flags
           /\ DisableCallback(s, c).enabled = s.enabled \ Bits(c)
           /\ DisableCallback(s, c).udd = s.udd
           /\ DisableCallback(s, c).locks = s.locks
           /\ DisableCallback(s, c).told = s.told
BY DEF DisableCallback, States

(* The lock of the old state is given back after that of the new is taken. *)
LEMMA SleepModeResult ==
    ASSUME NEW s \in States, Limited(s), NEW new \in Powers
    PROVE  /\ SleepMode(s, new) \in States
           /\ Limited(SleepMode(s, new))
           /\ SleepMode(s, new).flags = s.flags
           /\ SleepMode(s, new).enabled = s.enabled
           /\ SleepMode(s, new).udd = new
           /\ SleepMode(s, new).told = s.told
<1> DEFINE locked == IF new = "OFF" THEN 0 ELSE 1
           unlocked == IF s.udd = "OFF" THEN 0 ELSE 1
<1>1. s.locks = unlocked
  BY DEF Limited
<1>2. s.locks + locked - unlocked = locked
  BY <1>1
<1>3. CASE s.udd = new
  BY <1>3 DEF SleepMode
<1>4. CASE s.udd # new
  <2>1. locked \in 0 .. 255
    OBVIOUS
  <2> HIDE DEF locked
  <2>2. SleepMode(s, new) = [s EXCEPT !.udd = new, !.locks = locked]
    BY <1>2, <1>4 DEF SleepMode, States, locked
  <2>3. SleepMode(s, new) \in States /\ SleepMode(s, new).locks = locked
    BY <2>1, <2>2 DEF States
  <2> QED
    BY <2>2, <2>3, ZenonT(40) DEF States, Limited, locked
<1> QED
  BY <1>3, <1>4

Told(s, word) == [s EXCEPT !.told = word]

LEMMA ToldResult ==
    ASSUME NEW s \in States, Limited(s), NEW word \in {"nothing", "suspend", "resume"}
    PROVE  /\ Told(s, word) \in States
           /\ Limited(Told(s, word))
           /\ Told(s, word).flags = s.flags
           /\ Told(s, word).enabled = s.enabled
           /\ Told(s, word).udd = s.udd
           /\ Told(s, word).told = word
BY DEF Told, States, Limited

LEMMA SuspendResult ==
    ASSUME NEW s \in States, Limited(s)
    PROVE  /\ OnSuspend(s) \in States
           /\ Limited(OnSuspend(s))
           /\ OnSuspend(s).flags = s.flags \ Wakes
           /\ OnSuspend(s).enabled = (s.enabled \ {"SUSPEND"}) \cup Wakes
           /\ OnSuspend(s).udd = "SUSPEND"
           /\ OnSuspend(s).told = "suspend"
<1> DEFINE d == DisableCallback(s, "SUSPEND")
           t == EnableCallback(d, "WAKEUP")
<1>1. {"SUSPEND", "WAKEUP"} \subseteq Sources
  BY DEF Sources
<1>2. Bits("SUSPEND") = {"SUSPEND"} /\ Bits("WAKEUP") = Wakes
  BY DEF Bits, Wakes
<1>3. /\ d \in States /\ d.locks = s.locks /\ d.udd = s.udd
      /\ d.flags = s.flags /\ d.enabled = s.enabled \ Bits("SUSPEND")
  BY <1>1, DisableResult
<1>4. /\ t \in States /\ t.locks = s.locks /\ t.udd = s.udd
      /\ t.flags = d.flags \ Bits("WAKEUP") /\ t.enabled = d.enabled \cup Bits("WAKEUP")
  <2> HIDE DEF d
  <2> QED
    BY <1>1, <1>3, EnableResult
<1>5. /\ t.flags = s.flags \ Wakes
      /\ t.enabled = (s.enabled \ {"SUSPEND"}) \cup Wakes
  <2> HIDE DEF d, t
  <2> QED
    BY <1>2, <1>3, <1>4
<1>6. Limited(t)
  BY <1>4 DEF Limited
<1>7. OnSuspend(s) = Told(SleepMode(t, "SUSPEND"), "suspend")
  BY DEF OnSuspend, Told
<1> QED
  BY <1>4, <1>5, <1>6, <1>7, SleepModeResult, ToldResult DEF Powers

LEMMA LpmSuspendResult ==
    ASSUME NEW s \in States, Limited(s)
    PROVE  /\ OnLpmSuspend(s) \in States
           /\ Limited(OnLpmSuspend(s))
           /\ OnLpmSuspend(s).flags = s.flags \ Wakes
           /\ OnLpmSuspend(s).enabled = (s.enabled \ Suspends) \cup Wakes
           /\ OnLpmSuspend(s).udd = "SUSPEND_LPM"
           /\ OnLpmSuspend(s).told = s.told
<1> DEFINE d == DisableCallback(s, "LPMSUSP")
           e == DisableCallback(d, "SUSPEND")
           t == EnableCallback(e, "WAKEUP")
<1>1. {"SUSPEND", "WAKEUP", "LPMSUSP"} \subseteq Sources
  BY DEF Sources
<1>2. /\ Bits("SUSPEND") = {"SUSPEND"} /\ Bits("WAKEUP") = Wakes
      /\ Bits("LPMSUSP") = {"LPMSUSP"}
  BY DEF Bits, Wakes
<1>3. /\ d \in States /\ d.locks = s.locks /\ d.udd = s.udd /\ d.told = s.told
      /\ d.flags = s.flags /\ d.enabled = s.enabled \ Bits("LPMSUSP")
  BY <1>1, DisableResult
<1>4. /\ e \in States /\ e.locks = s.locks /\ e.udd = s.udd /\ e.told = s.told
      /\ e.flags = d.flags /\ e.enabled = d.enabled \ Bits("SUSPEND")
  <2> HIDE DEF d
  <2> QED
    BY <1>1, <1>3, DisableResult
<1>5. /\ t \in States /\ t.locks = s.locks /\ t.udd = s.udd /\ t.told = s.told
      /\ t.flags = e.flags \ Bits("WAKEUP") /\ t.enabled = e.enabled \cup Bits("WAKEUP")
  <2> HIDE DEF e
  <2> QED
    BY <1>1, <1>4, EnableResult
<1>6. /\ t.flags = s.flags \ Wakes
      /\ t.enabled = (s.enabled \ Suspends) \cup Wakes
  <2> HIDE DEF d, e, t
  <2> QED
    BY <1>2, <1>3, <1>4, <1>5 DEF Suspends
<1>7. Limited(t)
  BY <1>5 DEF Limited
<1> QED
  BY <1>5, <1>6, <1>7, SleepModeResult DEF Powers, OnLpmSuspend

LEMMA WakeupResult ==
    ASSUME NEW s \in States, Limited(s)
    PROVE  /\ OnWakeup(s) \in States
           /\ Limited(OnWakeup(s))
           /\ OnWakeup(s).flags = s.flags \ Suspends
           /\ OnWakeup(s).enabled = (s.enabled \ Wakes) \cup Suspends
           /\ OnWakeup(s).udd = "IDLE"
           /\ OnWakeup(s).told = "resume"
<1> DEFINE d == DisableCallback(s, "WAKEUP")
           e == EnableCallback(d, "SUSPEND")
           t == EnableCallback(e, "LPMSUSP")
<1>1. {"SUSPEND", "WAKEUP", "LPMSUSP"} \subseteq Sources
  BY DEF Sources
<1>2. /\ Bits("SUSPEND") = {"SUSPEND"} /\ Bits("WAKEUP") = Wakes
      /\ Bits("LPMSUSP") = {"LPMSUSP"}
  BY DEF Bits, Wakes
<1>3. /\ d \in States /\ d.locks = s.locks /\ d.udd = s.udd
      /\ d.flags = s.flags /\ d.enabled = s.enabled \ Bits("WAKEUP")
  BY <1>1, DisableResult
<1>4. /\ e \in States /\ e.locks = s.locks /\ e.udd = s.udd
      /\ e.flags = d.flags \ Bits("SUSPEND")
      /\ e.enabled = d.enabled \cup Bits("SUSPEND")
  <2> HIDE DEF d
  <2> QED
    BY <1>1, <1>3, EnableResult
<1>5. /\ t \in States /\ t.locks = s.locks /\ t.udd = s.udd
      /\ t.flags = e.flags \ Bits("LPMSUSP") /\ t.enabled = e.enabled \cup Bits("LPMSUSP")
  <2> HIDE DEF e
  <2> QED
    BY <1>1, <1>4, EnableResult, ZenonT(40)
<1>6. /\ t.flags = s.flags \ Suspends
      /\ t.enabled = (s.enabled \ Wakes) \cup Suspends
  <2> HIDE DEF d, e, t
  <2>1. /\ t.flags = (s.flags \ {"SUSPEND"}) \ {"LPMSUSP"}
        /\ t.enabled = ((s.enabled \ Wakes) \cup {"SUSPEND"}) \cup {"LPMSUSP"}
    BY <1>2, <1>3, <1>4, <1>5
  <2> QED
    BY <2>1 DEF Suspends
<1>7. Limited(t)
  BY <1>5 DEF Limited
<1>8. OnWakeup(s) = Told(SleepMode(t, "IDLE"), "resume")
  BY DEF OnWakeup, Told
<1> QED
  BY <1>5, <1>6, <1>7, <1>8, SleepModeResult, ToldResult DEF Powers
(* udd_attach: every callback is enabled and no flag is left. *)
LEMMA AttachResult ==
    ASSUME NEW s \in States, Limited(s)
    PROVE  /\ Attach(s) \in States
           /\ Limited(Attach(s))
           /\ Attach(s).flags = {}
           /\ Attach(s).enabled = AllFlags
           /\ Attach(s).udd = "IDLE"
           /\ Attach(s).told = s.told
<1> DEFINE b == SleepMode(s, "IDLE")
           c == EnableCallback(b, "SUSPEND")
           d == EnableCallback(c, "SOF")
           e == EnableCallback(d, "RESET")
           f == EnableCallback(e, "WAKEUP")
           g == EnableCallback(f, "LPMSUSP")
           Same(x, y) == x.udd = y.udd /\ x.locks = y.locks /\ x.told = y.told
           Added(x, y, cb) == /\ x \in States /\ Same(x, y)
                              /\ x.flags = y.flags \ Bits(cb)
                              /\ x.enabled = y.enabled \cup Bits(cb)
<1>1. Sources = {"SOF", "RESET", "WAKEUP", "SUSPEND", "LPMSUSP"}
  BY DEF Sources
<1>2. /\ b \in States /\ Limited(b) /\ b.udd = "IDLE" /\ b.told = s.told
  BY SleepModeResult DEF Powers
<1>3. Added(c, b, "SUSPEND")
  BY <1>1, <1>2, EnableResult
<1>4. Added(d, c, "SOF")
  <2> HIDE DEF c
  <2> QED
    BY <1>1, <1>3, EnableResult
<1>5. Added(e, d, "RESET")
  <2> HIDE DEF d
  <2> QED
    BY <1>1, <1>4, EnableResult
<1>6. Added(f, e, "WAKEUP")
  <2> HIDE DEF e
  <2> QED
    BY <1>1, <1>5, EnableResult
<1>7. Added(g, f, "LPMSUSP")
  <2> HIDE DEF f
  <2> QED
    BY <1>1, <1>6, EnableResult
<1>8. Attach(s) = g
  BY DEF Attach
<1> HIDE DEF b, c, d, e, f, g
<1>9. g \in States /\ Limited(g) /\ g.udd = "IDLE" /\ g.told = s.told
  BY <1>2, <1>3, <1>4, <1>5, <1>6, <1>7 DEF Limited
<1>10. /\ Bits("SUSPEND") = {"SUSPEND"} /\ Bits("WAKEUP") = {"WAKEUP", "EORSM"}
       /\ Bits("LPMSUSP") = {"LPMSUSP"} /\ Bits("SOF") = {"SOF"}
       /\ Bits("RESET") = {"RESET"}
  BY DEF Bits
<1>11. \A x \in AllFlags : x \notin g.flags /\ x \in g.enabled
  <2> SUFFICES ASSUME NEW x \in AllFlags
               PROVE  x \notin g.flags /\ x \in g.enabled
    OBVIOUS
  <2>1. x \in Bits("SUSPEND") \cup Bits("SOF") \cup Bits("RESET")
              \cup Bits("WAKEUP") \cup Bits("LPMSUSP")
    BY <1>10 DEF AllFlags
  <2> QED
    BY <2>1, <1>3, <1>4, <1>5, <1>6, <1>7
<1>12. g.flags \subseteq AllFlags /\ g.enabled \subseteq AllFlags
  BY <1>9 DEF States
<1>13. g.flags = {} /\ g.enabled = AllFlags
  BY <1>11, <1>12
<1> QED
  BY <1>8, <1>9, <1>13

(* A pass of the handler when at most one of a wake-up, a suspend and an   *)
(* LPM suspend is pending, and for any host that the lock follows.         *)
LEMMA PassLimited ==
    ASSUME NEW s \in States, Limited(s)
    PROVE  Pass(s) \in States /\ Limited(Pass(s))
<1> DEFINE run == s.flags \cap s.enabled
           cleared == [s EXCEPT !.flags = {}]
           woken == IF run \cap Bits("WAKEUP") # {} THEN OnWakeup(cleared) ELSE cleared
           suspended == IF "SUSPEND" \in run THEN OnSuspend(woken) ELSE woken
<1>1. cleared \in States /\ Limited(cleared)
  BY DEF States, Limited
<1>2. woken \in States /\ Limited(woken)
  <2> HIDE DEF cleared, run
  <2> QED
    BY <1>1, WakeupResult
<1>3. suspended \in States /\ Limited(suspended)
  <2> HIDE DEF woken, run
  <2> QED
    BY <1>2, SuspendResult
<1>4. Pass(s) = IF "LPMSUSP" \in run THEN OnLpmSuspend(suspended) ELSE suspended
  BY DEF Pass
<1> HIDE DEF suspended, run
<1> QED
  BY <1>3, <1>4, LpmSuspendResult

Wakened(s) == s.flags \cap s.enabled \cap Wakes # {}
Ran(s, f) == f \in s.flags \cap s.enabled

LEMMA PassResult ==
    ASSUME NEW s \in States, Limited(s),
           ~Wakened(s) \/ (~Ran(s, "SUSPEND") /\ ~Ran(s, "LPMSUSP")),
           ~Ran(s, "SUSPEND") \/ ~Ran(s, "LPMSUSP")
    PROVE  /\ Pass(s).flags = {}
           /\ Wakened(s) =>
                /\ Pass(s).enabled = (s.enabled \ Wakes) \cup Suspends
                /\ Pass(s).udd = "IDLE" /\ Pass(s).told = "resume"
           /\ Ran(s, "SUSPEND") =>
                /\ Pass(s).enabled = (s.enabled \ {"SUSPEND"}) \cup Wakes
                /\ Pass(s).udd = "SUSPEND" /\ Pass(s).told = "suspend"
           /\ Ran(s, "LPMSUSP") =>
                /\ Pass(s).enabled = (s.enabled \ Suspends) \cup Wakes
                /\ Pass(s).udd = "SUSPEND_LPM" /\ Pass(s).told = s.told
           /\ ~Wakened(s) /\ ~Ran(s, "SUSPEND") /\ ~Ran(s, "LPMSUSP") =>
                /\ Pass(s).enabled = s.enabled
                /\ Pass(s).udd = s.udd /\ Pass(s).told = s.told
<1> DEFINE cleared == [s EXCEPT !.flags = {}]
<1>1. /\ cleared \in States /\ Limited(cleared)
      /\ cleared.flags = {} /\ cleared.enabled = s.enabled
      /\ cleared.udd = s.udd /\ cleared.told = s.told
  BY DEF States, Limited
<1>2. (s.flags \cap s.enabled) \cap Bits("WAKEUP") # {} <=> Wakened(s)
  BY DEF Wakened, Wakes, Bits
<1>3. CASE Wakened(s)
  <2>1. Pass(s) = OnWakeup(cleared)
    BY <1>2, <1>3 DEF Pass, Ran
  <2> HIDE DEF cleared
  <2> QED
    BY <1>1, <1>3, <2>1, WakeupResult
<1>4. CASE Ran(s, "SUSPEND")
  <2>1. Pass(s) = OnSuspend(cleared)
    BY <1>2, <1>4 DEF Pass, Ran
  <2> HIDE DEF cleared
  <2> QED
    BY <1>1, <1>4, <2>1, SuspendResult
<1>5. CASE Ran(s, "LPMSUSP")
  <2>1. Pass(s) = OnLpmSuspend(cleared)
    BY <1>2, <1>5 DEF Pass, Ran
  <2> HIDE DEF cleared
  <2> QED
    BY <1>1, <1>5, <2>1, LpmSuspendResult
<1>6. CASE ~Wakened(s) /\ ~Ran(s, "SUSPEND") /\ ~Ran(s, "LPMSUSP")
  <2>1. Pass(s) = cleared
    BY <1>2, <1>6 DEF Pass, Ran
  <2> HIDE DEF cleared
  <2> QED
    BY <1>1, <1>6, <2>1
<1> QED
  BY <1>3, <1>4, <1>5, <1>6
-----------------------------------------------------------------------------
(* The lock, for any host *)

LEMMA StTyped ==
    ASSUME TypeOK
    PROVE  St \in States
BY DEF TypeOK, St, States, Powers

LEMMA StLimited ==
    ASSUME LockInv
    PROVE  St \in States /\ Limited(St)
BY StTyped DEF LockInv

(* What the handlers leave behind is typed and limited, whatever the bus,  *)
(* the endpoints and the main loop do.                                     *)
LEMMA BecomesLimited ==
    ASSUME NEW s \in States, Limited(s), Becomes(s),
           bus' \in {"detached", "awake", "suspended", "dozing", "resuming"},
           epint' \in BOOLEAN,
           main' \in [at : {"runs", "enters", "sleeps"}, mode : {"none", "IDLE", "OFF"}]
    PROVE  LockInv'
<1>1. /\ flags' \subseteq AllFlags /\ enabled' \subseteq AllFlags
      /\ udd' \in Powers /\ locks' \in 0 .. 255
      /\ told' \in {"nothing", "suspend", "resume"}
  BY DEF Becomes, States
<1>2. Limited(St)'
  BY DEF Becomes, Limited, St
<1> QED
  BY <1>1, <1>2 DEF LockInv, TypeOK, Powers

LEMMA ServesTyped ==
    ASSUME TypeOK, Serves
    PROVE  main' \in [at : {"runs", "enters", "sleeps"}, mode : {"none", "IDLE", "OFF"}]
BY DEF TypeOK, Serves, MainRuns

LEMMA DisableResultUdd ==
    ASSUME NEW s \in States, Limited(s)
    PROVE  /\ UddDisable(s) \in States
           /\ Limited(UddDisable(s))
           /\ UddDisable(s).flags = s.flags
           /\ UddDisable(s).enabled = s.enabled
           /\ UddDisable(s).udd = "OFF"
           /\ UddDisable(s).told = s.told
<1> DEFINE t == SleepMode(s, "SUSPEND")
<1>1. /\ t \in States /\ Limited(t)
      /\ t.flags = s.flags /\ t.enabled = s.enabled /\ t.told = s.told
  BY SleepModeResult DEF Powers
<1>2. UddDisable(s) = SleepMode(t, "OFF")
  BY DEF UddDisable
<1> HIDE DEF t
<1> QED
  BY <1>1, <1>2, SleepModeResult DEF Powers

(* The device as main leaves it to the interrupts *)
LEMMA InitResult ==
    ASSUME Init
    PROVE  /\ LockInv
           /\ bus = "awake" /\ epint = FALSE /\ main = MainRuns
           /\ flags = {} /\ enabled = AllFlags /\ udd = "IDLE" /\ told = "nothing"
<1> DEFINE start == [flags |-> {}, enabled |-> {}, udd |-> "OFF", locks |-> 0,
                     told |-> "nothing"]
           b == SleepMode(start, "SUSPEND")
           s == Attach(b)
<1>1. start \in States /\ Limited(start)
  BY DEF States, Limited, Powers
<1>2. b \in States /\ Limited(b) /\ b.told = "nothing"
  <2>1. start.told = "nothing"
    OBVIOUS
  <2> HIDE DEF start
  <2> QED
    BY <1>1, <2>1, SleepModeResult DEF Powers
<1>3. /\ s \in States /\ Limited(s) /\ s.flags = {} /\ s.enabled = AllFlags
      /\ s.udd = "IDLE" /\ s.told = "nothing"
  <2> HIDE DEF b
  <2> QED
    BY <1>2, AttachResult
<1>4. /\ bus = "awake" /\ epint = FALSE /\ main = MainRuns
      /\ flags = s.flags /\ enabled = s.enabled /\ udd = s.udd
      /\ locks = s.locks /\ told = s.told
  BY DEF Init
<1> HIDE DEF s
<1>5. /\ flags \subseteq AllFlags /\ locks \in 0 .. 255
  BY <1>3, <1>4 DEF States
<1>6. Limited(St)
  BY <1>3, <1>4 DEF Limited, St
<1>7. TypeOK
  BY <1>3, <1>4, <1>5 DEF TypeOK, MainRuns
<1> QED
  BY <1>3, <1>4, <1>6, <1>7 DEF LockInv

LEMMA LockKept ==
    ASSUME LockInv, [Next]_vars
    PROVE  LockInv'
<1> USE DEF LockInv
<1>1. CASE BusInterrupt
  <2>1. Pass(St) \in States /\ Limited(Pass(St))
    BY StLimited, PassLimited
  <2> QED
    BY <1>1, <2>1, BecomesLimited, ServesTyped DEF BusInterrupt, TypeOK
<1>2. CASE EndpointInterrupt
  <2>1. CASE UNCHANGED <<bus, flags, enabled, udd, locks, told>>
    BY <1>2, <2>1, ServesTyped DEF EndpointInterrupt, TypeOK, Limited, St
  <2>2. CASE Becomes(UddDisable(St)) /\ bus' = "detached"
    <3>1. UddDisable(St) \in States /\ Limited(UddDisable(St))
      BY StLimited, DisableResultUdd
    <3> QED
      BY <1>2, <2>2, <3>1, BecomesLimited, ServesTyped DEF EndpointInterrupt
  <2> QED
    BY <1>2, <2>1, <2>2 DEF EndpointInterrupt
<1>3. CASE ReadMode
  BY <1>3 DEF ReadMode, DeepestMode, TypeOK, Limited, St
<1>4. CASE EnterSleep
  BY <1>4 DEF EnterSleep, TypeOK, Limited, St
<1>5. CASE \/ StartOfFrame \/ Transfer \/ Suspend \/ LpmSuspend
           \/ Resume \/ EndOfResume \/ Reset
  <2>1. Unmoved
    BY <1>5 DEF StartOfFrame, Transfer, Suspend, LpmSuspend, Resume, EndOfResume, Reset
  <2>2. Limited(St)'
    BY <2>1 DEF Unmoved, Limited, St
  <2>3. /\ flags' \subseteq AllFlags /\ epint' \in BOOLEAN
        /\ bus' \in {"detached", "awake", "suspended", "dozing", "resuming"}
    BY <1>5 DEF StartOfFrame, Transfer, Suspend, LpmSuspend, Resume, EndOfResume, Reset,
                TypeOK, AllFlags
  <2> QED
    BY <2>1, <2>2, <2>3 DEF Unmoved, TypeOK
<1>6. CASE UNCHANGED vars
  BY <1>6 DEF vars, TypeOK, Limited, St
<1> QED
  BY <1>1, <1>2, <1>3, <1>4, <1>5, <1>6 DEF Next

(* Every variable keeps its type, and the driver's lock of the sleep mode  *)
(* is counted once exactly while the driver is not off, for any host:      *)
(* udd_sleep_mode neither loses a lock nor takes one twice.                *)
THEOREM LockInvariance == Spec => []LockInv
<1>1. Init => LockInv
  BY InitResult
<1>2. LockInv /\ [Next]_vars => LockInv'
  BY LockKept
<1> QED
  BY <1>1, <1>2, PTL DEF Spec
(* Every variable keeps its type, the counter of locks the width it has.   *)
THEOREM TypeCorrect == Spec => []TypeOK
<1>1. LockInv => TypeOK
  BY DEF LockInv
<1> QED
  BY <1>1, LockInvariance, PTL

-----------------------------------------------------------------------------
(* The power state, with a host that waits *)

BusPart == Callbacks /\ Follows /\ Fresh /\ SleepInv

LEMMA BusInterruptKeeps ==
    ASSUME BusInv, BusInterrupt
    PROVE  BusPart'
<1> DEFINE t == Pass(St)
<1>1. St \in States /\ Limited(St)
  BY StLimited DEF BusInv
<1>2. /\ Wakened(St) <=> Wakes \cap flags \cap enabled # {}
      /\ \A f : Ran(St, f) <=> f \in flags /\ f \in enabled
      /\ St.enabled = enabled /\ St.udd = udd /\ St.told = told
  BY DEF Wakened, Ran, St
<1>3. /\ Ran(St, "SUSPEND") => bus = "suspended" /\ udd = "IDLE"
      /\ Ran(St, "LPMSUSP") => bus = "dozing" /\ udd = "IDLE"
      /\ Wakened(St) => ~Asleep /\ udd \notin {"IDLE", "OFF"}
  BY <1>2 DEF BusInv, Fresh
<1>4. ~Wakened(St) => "WAKEUP" \notin flags \/ "WAKEUP" \notin enabled
  BY <1>2 DEF Wakes
<1>5. /\ flags' = {} /\ enabled' = t.enabled /\ udd' = t.udd /\ told' = t.told
      /\ bus' = bus /\ epint' = FALSE /\ main' \in {main, MainRuns} /\ epint = FALSE
  <2>1. t.flags = {}
    BY <1>1, <1>3, PassResult
  <2> QED
    BY <2>1 DEF BusInterrupt, Becomes, Serves, BusInv, LockInv, TypeOK
<1>6. SleepInv'
  BY <1>5 DEF SleepInv, BusInv, MainRuns
<1>7. Fresh'
  BY <1>5 DEF Fresh
<1>8. udd \in {"OFF", "SUSPEND", "SUSPEND_LPM", "IDLE"}
  BY DEF BusInv, LockInv, TypeOK
<1>9. CASE Wakened(St)
  <2>1. /\ enabled' = (enabled \ Wakes) \cup Suspends
        /\ udd' = "IDLE" /\ told' = "resume"
    BY <1>1, <1>2, <1>3, <1>5, <1>9, PassResult
  <2>2. Callbacks'
    BY <2>1 DEF Callbacks
  <2>3. bus # "detached" /\ ~Asleep /\ bus' = bus
    BY <1>3, <1>5, <1>9 DEF BusInv, Follows
  <2>4. Wakes \cap enabled' = {}
    BY <2>1 DEF Wakes, Suspends
  <2>5. Follows'
    BY <2>1, <2>3, <2>4 DEF Follows, Asleep
  <2> QED
    BY <1>6, <1>7, <2>2, <2>5 DEF BusPart
<1>10. CASE Ran(St, "SUSPEND")
  <2>1. /\ enabled' = (enabled \ {"SUSPEND"}) \cup Wakes
        /\ udd' = "SUSPEND" /\ told' = "suspend" /\ bus' = "suspended"
    BY <1>1, <1>2, <1>3, <1>5, <1>10, PassResult
  <2> QED
    BY <1>6, <1>7, <2>1 DEF BusPart, Callbacks, Follows
<1>11. CASE Ran(St, "LPMSUSP")
  <2>1. /\ enabled' = (enabled \ Suspends) \cup Wakes
        /\ udd' = "SUSPEND_LPM" /\ told' = told /\ bus' = "dozing"
    BY <1>1, <1>2, <1>3, <1>5, <1>11, PassResult
  <2>2. told # "suspend"
    BY <1>3, <1>11 DEF BusInv, Follows
  <2> QED
    BY <1>6, <1>7, <2>1, <2>2 DEF BusPart, Callbacks, Follows
<1>12. CASE ~Wakened(St) /\ ~Ran(St, "SUSPEND") /\ ~Ran(St, "LPMSUSP")
  <2>1. enabled' = enabled /\ udd' = udd /\ told' = told
    BY <1>1, <1>2, <1>3, <1>5, <1>12, PassResult
  <2>2. Callbacks'
    BY <2>1 DEF BusInv, Callbacks
  <2>3. "WAKEUP" \in flags => udd = "IDLE" \/ udd = "OFF"
    BY <1>4, <1>8, <1>12 DEF BusInv, Callbacks, Wakes
  <2>4. /\ "SUSPEND" \in flags => udd # "IDLE"
        /\ "LPMSUSP" \in flags => udd # "IDLE"
    BY <1>2, <1>12 DEF BusInv, Callbacks, Suspends
  <2>5. Follows'
    BY <1>5, <2>1, <2>3, <2>4 DEF BusInv, Follows
  <2> QED
    BY <1>6, <1>7, <2>2, <2>5 DEF BusPart
<1> QED
  BY <1>9, <1>10, <1>11, <1>12

LEMMA EndpointInterruptKeeps ==
    ASSUME BusInv, EndpointInterrupt
    PROVE  BusPart'
<1>1. main' \in {main, MainRuns} /\ epint' = FALSE /\ bus = "awake" /\ udd = "IDLE"
  BY DEF EndpointInterrupt, Serves, BusInv, Fresh
<1>2. CASE UNCHANGED <<bus, flags, enabled, udd, locks, told>>
  BY <1>1, <1>2 DEF BusInv, BusPart, Callbacks, Follows, Fresh, SleepInv, Asleep, MainRuns
<1>3. CASE Becomes(UddDisable(St)) /\ bus' = "detached"
  <2>1. /\ flags' = flags /\ enabled' = enabled /\ udd' = "OFF" /\ bus' = "detached"
    BY <1>3, StLimited, DisableResultUdd DEF BusInv, Becomes, St
  <2>2. "SUSPEND" \notin flags /\ "LPMSUSP" \notin flags
    BY <1>1 DEF BusInv, Fresh
  <2> QED
    BY <1>1, <2>1, <2>2 DEF BusInv, BusPart, Callbacks, Follows, Fresh, SleepInv, Asleep
<1> QED
  BY <1>2, <1>3 DEF EndpointInterrupt

LEMMA MainKeeps ==
    ASSUME BusInv, ReadMode \/ EnterSleep
    PROVE  BusPart'
<1>1. UNCHANGED <<bus, flags, enabled, epint, udd, told>>
  BY DEF ReadMode, EnterSleep
<1>2. Callbacks' /\ Follows' /\ Fresh'
  BY <1>1 DEF BusInv, Callbacks, Follows, Fresh, Asleep
<1>3. CASE ReadMode
  <2>1. main'.mode = DeepestMode
    BY <1>3 DEF ReadMode
  <2>2. DeepestMode = "OFF" => udd = "OFF"
    BY DEF DeepestMode, BusInv, LockInv, Limited, St
  <2> QED
    BY <1>1, <1>2, <2>1, <2>2 DEF BusPart, SleepInv, BusInv, Follows
<1>4. CASE EnterSleep
  <2>1. main'.mode = main.mode
    BY <1>4 DEF EnterSleep, BusInv, LockInv, TypeOK
  <2> QED
    BY <1>1, <1>2, <2>1 DEF BusPart, SleepInv, BusInv
<1> QED
  BY <1>3, <1>4

(* Nothing is pending: the device is in the state of the bus. *)
LEMMA Settled ==
    ASSUME BusInv, ~Pending, bus # "detached"
    PROVE  /\ bus = "awake" \/ bus = "resuming" => udd = "IDLE"
           /\ bus = "suspended" => udd = "SUSPEND"
           /\ bus = "dozing" => udd = "SUSPEND_LPM"
           /\ {"SUSPEND", "LPMSUSP"} \cap flags = {}
<1>1. udd \in {"OFF", "SUSPEND", "SUSPEND_LPM", "IDLE"}
  BY DEF BusInv, LockInv, TypeOK
<1>2. \A f : f \in flags => f \notin enabled
  BY DEF Pending
<1>3. "WAKEUP" \in flags => udd = "IDLE" \/ udd = "OFF"
  BY <1>1, <1>2 DEF BusInv, Callbacks, Wakes
<1>4. "SUSPEND" \notin flags /\ "LPMSUSP" \notin flags
  BY <1>2 DEF BusInv, Callbacks, Fresh, Suspends
<1> QED
  BY <1>1, <1>3, <1>4 DEF BusInv, Follows
LEMMA TrafficKeeps ==
    ASSUME HostWaits, BusInv, StartOfFrame \/ Transfer
    PROVE  BusPart'
<1>1. bus = "awake" /\ bus' = "awake" /\ UNCHANGED <<enabled, udd, told, main>>
  BY DEF StartOfFrame, Transfer, Unmoved
<1>2. Callbacks' /\ SleepInv'
  BY <1>1 DEF BusInv, Callbacks, SleepInv
<1>3. CASE StartOfFrame
  <2>1. epint' = epint /\ flags' = flags \cup {"SOF"}
    BY <1>3 DEF StartOfFrame
  <2>2. Wakes \cap flags' = Wakes \cap flags
    BY <2>1 DEF Wakes
  <2>3. Follows'
    BY <1>1, <2>1 DEF BusInv, Follows
  <2>4. Fresh'
    BY <1>1, <2>1, <2>2 DEF BusInv, Fresh, Asleep
  <2> QED
    BY <1>2, <2>3, <2>4 DEF BusPart
<1>4. CASE Transfer
  <2>1. flags' = flags /\ "WAKEUP" \notin flags \cap enabled
    BY <1>4 DEF Transfer
  <2>2. udd = "IDLE"
    BY <1>1, <2>1 DEF BusInv, LockInv, TypeOK, Callbacks, Follows, Wakes
  <2> QED
    BY <1>1, <1>2, <2>1, <2>2 DEF BusInv, BusPart, Follows, Fresh, Asleep
<1> QED
  BY <1>3, <1>4

LEMMA SuspendKeeps ==
    ASSUME HostWaits, BusInv, Suspend \/ LpmSuspend
    PROVE  BusPart'
<1>1. /\ ~Pending /\ bus = "awake" /\ UNCHANGED <<enabled, epint, udd, told, main>>
      /\ \/ bus' = "suspended" /\ flags' = flags \cup {"SUSPEND"}
         \/ bus' = "dozing" /\ flags' = flags \cup {"LPMSUSP"}
  BY DEF Suspend, LpmSuspend, HostReady, Unmoved
<1>2. udd = "IDLE" /\ {"SUSPEND", "LPMSUSP"} \cap flags = {} /\ epint # TRUE
  BY <1>1, Settled DEF Pending
<1>3. Callbacks' /\ SleepInv'
  BY <1>1 DEF BusInv, Callbacks, SleepInv
<1>4. Wakes \cap flags' = Wakes \cap flags
  BY <1>1 DEF Wakes
<1>5. Follows'
  BY <1>1, <1>2 DEF BusInv, Follows
<1>6. Fresh'
  BY <1>1, <1>2, <1>4 DEF BusInv, LockInv, TypeOK, Fresh
<1> QED
  BY <1>3, <1>5, <1>6 DEF BusPart

LEMMA WakeKeeps ==
    ASSUME HostWaits, BusInv, Resume \/ (Reset /\ Asleep)
    PROVE  BusPart'
<1>1. /\ ~Pending /\ Asleep /\ UNCHANGED <<enabled, epint, udd, told, main>>
      /\ bus' \in {"resuming", "awake"}
      /\ flags' \in {flags \cup {"WAKEUP"}, flags \cup {"RESET", "WAKEUP"}}
  BY DEF Resume, Reset, HostReady, Unmoved
<1>2. /\ udd \in {"SUSPEND", "SUSPEND_LPM"}
      /\ {"SUSPEND", "LPMSUSP"} \cap flags = {} /\ epint # TRUE
  BY <1>1, Settled DEF Pending, Asleep
<1>3. Callbacks' /\ SleepInv'
  BY <1>1 DEF BusInv, Callbacks, SleepInv, Asleep
<1>4. Follows'
  BY <1>1, <1>2 DEF BusInv, Follows, Asleep
<1>5. Fresh'
  BY <1>1, <1>2 DEF BusInv, Fresh, Asleep, LockInv, TypeOK
<1> QED
  BY <1>3, <1>4, <1>5 DEF BusPart

LEMMA EndOfResumeKeeps ==
    ASSUME BusInv, EndOfResume
    PROVE  BusPart'
<1>1. /\ bus = "resuming" /\ bus' = "awake"
      /\ UNCHANGED <<enabled, epint, udd, told, main>>
      /\ flags' = flags \cup {"EORSM"}
  BY DEF EndOfResume, Unmoved
<1>2. Callbacks' /\ SleepInv' /\ Follows'
  BY <1>1 DEF BusInv, Callbacks, SleepInv, Follows
<1>3. udd = "IDLE" => Wakes \cap flags' \cap enabled = {}
  BY <1>1 DEF BusInv, Follows
<1>4. Fresh'
  BY <1>1, <1>3 DEF BusInv, Fresh, Follows, Asleep
<1> QED
  BY <1>2, <1>4 DEF BusPart

LEMMA ResetKeeps ==
    ASSUME BusInv, Reset, ~Asleep
    PROVE  BusPart'
<1>1. /\ bus # "detached" /\ bus' = "awake"
      /\ UNCHANGED <<enabled, epint, udd, told, main>>
      /\ flags' = flags \cup {"RESET"}
  BY DEF Reset, Unmoved
<1>2. bus \in {"awake", "resuming"}
  BY <1>1 DEF BusInv, LockInv, TypeOK, Asleep
<1>3. Callbacks' /\ SleepInv' /\ Follows'
  BY <1>1, <1>2 DEF BusInv, Callbacks, SleepInv, Follows
<1>4. Wakes \cap flags' = Wakes \cap flags
  BY <1>1 DEF Wakes
<1>5. Fresh'
  BY <1>1, <1>2, <1>4 DEF BusInv, Fresh, Follows, Asleep
<1> QED
  BY <1>3, <1>5 DEF BusPart

(* The invariant the two properties of the power state follow from         *)
THEOREM BusInvariance == HostWaits /\ Spec => []BusInv
<1> SUFFICES ASSUME HostWaits
             PROVE  Spec => []BusInv
  OBVIOUS
<1>1. Init => BusInv
  <2> SUFFICES ASSUME Init
               PROVE  BusInv
    OBVIOUS
  <2>1. /\ LockInv /\ bus = "awake" /\ epint = FALSE /\ main = MainRuns
        /\ flags = {} /\ enabled = AllFlags /\ udd = "IDLE" /\ told = "nothing"
    BY InitResult
  <2> QED
    BY <2>1 DEF BusInv, Callbacks, Follows, Fresh, SleepInv, MainRuns, AllFlags, Suspends
<1>2. BusInv /\ [Next]_vars => BusInv'
  <2> SUFFICES ASSUME BusInv, [Next]_vars
               PROVE  BusInv'
    OBVIOUS
  <2>1. LockInv'
    BY LockKept DEF BusInv
  <2>2. CASE UNCHANGED vars
    BY <2>1, <2>2 DEF vars, BusInv, Callbacks, Follows, Fresh, SleepInv, Asleep
  <2>3. CASE Next
    <3>1. BusPart'
      BY <2>3, BusInterruptKeeps, EndpointInterruptKeeps, MainKeeps, TrafficKeeps,
         SuspendKeeps, WakeKeeps, EndOfResumeKeeps, ResetKeeps DEF Next
    <3> QED
      BY <2>1, <3>1 DEF BusInv, BusPart
  <2> QED
    BY <2>2, <2>3
<1> QED
  BY <1>1, <1>2, PTL DEF Spec

(* With a host that waits for the interrupts of a change of the bus, the   *)
(* power state of the driver and what the application was told are those   *)
(* of the bus, in any order of suspends, resumes, resets and transfers.    *)
THEOREM BusFollowed == HostWaits /\ Spec => []StateFollowsBus
<1>1. BusInv => StateFollowsBus
  <2> SUFFICES ASSUME BusInv, ~Pending, bus # "detached"
               PROVE  /\ (udd = "SUSPEND") = (bus = "suspended")
                      /\ (udd = "SUSPEND_LPM") = (bus = "dozing")
                      /\ (told = "suspend") = (bus = "suspended")
    BY DEF StateFollowsBus
  <2>1. bus \in {"awake", "suspended", "dozing", "resuming"}
    BY DEF BusInv, LockInv, TypeOK
  <2>2. (told = "suspend") = (udd = "SUSPEND")
    BY DEF BusInv, Follows
  <2> QED
    BY <2>1, <2>2, Settled
<1> QED
  BY <1>1, BusInvariance, PTL

(* The main loop never sleeps in a mode the bus cannot end unless the      *)
(* device was stopped, and then the lock is gone.                          *)
THEOREM Locked == HostWaits /\ Spec => []LockedWhileInUse
<1>1. BusInv => LockedWhileInUse
  BY DEF BusInv, LockInv, Limited, St, Follows, SleepInv, LockedWhileInUse, DeepestMode
<1> QED
  BY <1>1, BusInvariance, PTL

=============================================================================
