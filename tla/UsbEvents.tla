----------------------------- MODULE UsbEvents ------------------------------
(***************************************************************************)
(* The interrupts of the bus and the power state that follows them:        *)
(* _usb_device_interrupt_handler of usb.c, the handlers and udd_sleep_mode *)
(* of usb_device_udd.c, and the locks of the sleep manager, from which the *)
(* main loop takes the mode it sleeps in.                                  *)
(***************************************************************************)
EXTENDS Integers, FiniteSets

CONSTANT HostWaits \* the host changes the state of the bus no sooner than the
                   \* interrupts of the last change were served

ASSUME HostWaitsAssumption == HostWaits \in BOOLEAN

VARIABLES
    bus,     \* "detached", "awake", "suspended", "dozing" after an LPM token, or,
             \* between them and "awake", "resuming"
    flags,   \* INTFLAG
    enabled, \* INTENSET and device_enabled_callback_mask
    epint,   \* EPINTSMRY is not 0
    udd,     \* udd_state of udd_sleep_mode
    locks,   \* sleepmgr_locks[SLEEPMGR_IDLE]; every state of udd locks this mode
    main,    \* the main loop, see MainRuns
    told     \* history: what the application was told last

vars == <<bus, flags, enabled, epint, udd, locks, main, told>>

(* WAKEUP and EORSM share one callback. *)
Bits(callback) == IF callback = "WAKEUP" THEN {"WAKEUP", "EORSM"} ELSE {callback}
AllFlags == {"SOF", "RESET", "WAKEUP", "EORSM", "SUSPEND", "LPMSUSP"}

(* at: it "runs", has read the mode and "enters" it, or "sleeps" in it.     *)
MainRuns == [at |-> "runs", mode |-> "none"]

TypeOK ==
    /\ bus \in {"detached", "awake", "suspended", "dozing", "resuming"}
    /\ flags \subseteq AllFlags
    /\ enabled \subseteq AllFlags
    /\ epint \in BOOLEAN
    /\ udd \in {"OFF", "SUSPEND", "SUSPEND_LPM", "IDLE"}
    /\ locks \in 0 .. 255
    /\ main \in [at : {"runs", "enters", "sleeps"}, mode : {"none", "IDLE", "OFF"}]
    /\ told \in {"nothing", "suspend", "resume"}

St == [flags |-> flags, enabled |-> enabled, udd |-> udd, locks |-> locks,
       told |-> told]

Becomes(s) ==
    /\ flags' = s.flags
    /\ enabled' = s.enabled
    /\ udd' = s.udd
    /\ locks' = s.locks
    /\ told' = s.told

-----------------------------------------------------------------------------
(* Power state *)

(* udd_sleep_mode: the new limit is locked before the old one is unlocked. *)
(* Slip: suspend is taken for a state that locks nothing. *)
SleepModeDeepSuspend(s, new) ==
    LET locked == IF new = "IDLE" THEN 1 ELSE 0
        unlocked == IF s.udd = "IDLE" THEN 1 ELSE 0
    IN [s EXCEPT !.udd = new, !.locks = @ + locked - unlocked]
SleepMode(s, new) ==
    LET locked == IF new = "OFF" THEN 0 ELSE 1
        unlocked == IF s.udd = "OFF" THEN 0 ELSE 1
    IN IF s.udd = new THEN s
       ELSE [s EXCEPT !.udd = new, !.locks = @ + locked - unlocked]

(* sleepmgr_get_sleep_mode; OFF is always locked. *)
DeepestMode == IF locks # 0 THEN "IDLE" ELSE "OFF"

-----------------------------------------------------------------------------
(* Callbacks *)

(* usb_device_enable_callback clears the flag before. *)
EnableCallback(s, callback) ==
    [s EXCEPT !.flags = @ \ Bits(callback), !.enabled = @ \cup Bits(callback)]
DisableCallback(s, callback) == [s EXCEPT !.enabled = @ \ Bits(callback)]

(* _usb_on_suspend *)
OnSuspend(s) ==
    LET t == EnableCallback(DisableCallback(s, "SUSPEND"), "WAKEUP") IN
    [SleepMode(t, "SUSPEND") EXCEPT !.told = "suspend"]

(* _usb_device_lpm_suspend; the application has no callback for it. *)
OnLpmSuspend(s) ==
    LET t == DisableCallback(DisableCallback(s, "LPMSUSP"), "SUSPEND") IN
    SleepMode(EnableCallback(t, "WAKEUP"), "SUSPEND_LPM")

(* _usb_on_wakeup *)
(* Slip: the next suspend is not waited for. *)
OnWakeupOnce(s) ==
    LET t == EnableCallback(DisableCallback(s, "WAKEUP"), "LPMSUSP") IN
    [SleepMode(t, "IDLE") EXCEPT !.told = "resume"]
OnWakeup(s) ==
    LET t == EnableCallback(DisableCallback(s, "WAKEUP"), "SUSPEND") IN
    [SleepMode(EnableCallback(t, "LPMSUSP"), "IDLE") EXCEPT !.told = "resume"]

(* udd_attach *)
Attach(s) ==
    LET t == EnableCallback(SleepMode(s, "IDLE"), "SUSPEND")
        u == EnableCallback(EnableCallback(EnableCallback(t, "SOF"), "RESET"), "WAKEUP")
    IN EnableCallback(u, "LPMSUSP")

(* udd_disable: udd_detach, then OFF.  The callbacks stay enabled. *)
UddDisable(s) == SleepMode(SleepMode(s, "SUSPEND"), "OFF")

(* The bus part of the handler: all flags it read are cleared, and those   *)
(* that were enabled then are served, wake-up before the suspends.  The    *)
(* others, start of frame and reset, change nothing here.                  *)
Pass(s) ==
    LET run == s.flags \cap s.enabled
        cleared == [s EXCEPT !.flags = {}]
        woken == IF run \cap Bits("WAKEUP") # {} THEN OnWakeup(cleared) ELSE cleared
        suspended == IF "SUSPEND" \in run THEN OnSuspend(woken) ELSE woken
    IN IF "LPMSUSP" \in run THEN OnLpmSuspend(suspended) ELSE suspended

Pending == epint \/ flags \cap enabled # {}

-----------------------------------------------------------------------------
(* Device *)

(* udc_start in main: udd_enable *)
Init ==
    LET start == [flags |-> {}, enabled |-> {}, udd |-> "OFF", locks |-> 0,
                  told |-> "nothing"]
        s == Attach(SleepMode(start, "SUSPEND"))
    IN /\ bus = "awake"
       /\ epint = FALSE
       /\ main = MainRuns
       /\ flags = s.flags
       /\ enabled = s.enabled
       /\ udd = s.udd
       /\ locks = s.locks
       /\ told = s.told

(* An interrupt ends the sleep it finds; one between the reading of the    *)
(* mode and the sleep does not prevent that sleep.                         *)
Serves ==
    /\ main # [at |-> "sleeps", mode |-> "OFF"]
    /\ main' = IF main.at = "sleeps" THEN MainRuns ELSE main

(* Flags that are not enabled wait until another interrupt clears them. *)
BusInterrupt ==
    /\ ~epint
    /\ flags \cap enabled # {}
    /\ Serves
    /\ Becomes(Pass(St))
    /\ UNCHANGED <<bus, epint>>

(* The endpoints go first.  A report may stop the device: udc_stop from    *)
(* main_hid_set_feature.                                                   *)
EndpointInterrupt ==
    /\ epint
    /\ Serves
    /\ epint' = FALSE
    /\ \/ UNCHANGED <<bus, flags, enabled, udd, locks, told>>
       \/ /\ Becomes(UddDisable(St))
          /\ bus' = "detached"

(* sleepmgr_enter_sleep reads the mode with interrupts disabled;           *)
(* sleepmgr_sleep enables them before it sleeps.                           *)
ReadMode ==
    /\ main = MainRuns
    /\ main' = [at |-> "enters", mode |-> DeepestMode]
    /\ UNCHANGED <<bus, flags, enabled, epint, udd, locks, told>>

EnterSleep ==
    /\ main.at = "enters"
    /\ ~Pending
    /\ main' = [main EXCEPT !.at = "sleeps"]
    /\ UNCHANGED <<bus, flags, enabled, epint, udd, locks, told>>

-----------------------------------------------------------------------------
(* The host *)

HostReady == HostWaits => ~Pending

Unmoved == UNCHANGED <<enabled, udd, locks, main, told>>

StartOfFrame ==
    /\ bus = "awake"
    /\ flags' = flags \cup {"SOF"}
    /\ UNCHANGED <<bus, epint>> /\ Unmoved

Transfer ==
    /\ bus = "awake"
    /\ HostWaits => "WAKEUP" \notin flags \cap enabled
    /\ epint' = TRUE
    /\ UNCHANGED <<bus, flags>> /\ Unmoved

Suspend ==
    /\ bus = "awake"
    /\ HostReady
    /\ bus' = "suspended"
    /\ flags' = flags \cup {"SUSPEND"}
    /\ UNCHANGED epint /\ Unmoved

(* A token of link power management; endpoint 0 is set to accept it. *)
LpmSuspend ==
    /\ bus = "awake"
    /\ HostReady
    /\ bus' = "dozing"
    /\ flags' = flags \cup {"LPMSUSP"}
    /\ UNCHANGED epint /\ Unmoved

Asleep == bus \in {"suspended", "dozing"}

Resume ==
    /\ Asleep
    /\ HostReady
    /\ bus' = "resuming"
    /\ flags' = flags \cup {"WAKEUP"}
    /\ UNCHANGED epint /\ Unmoved

EndOfResume ==
    /\ bus = "resuming"
    /\ bus' = "awake"
    /\ flags' = flags \cup {"EORSM"}
    /\ UNCHANGED epint /\ Unmoved

(* A reset also ends a suspend, without the end of a resume. *)
Reset ==
    /\ bus # "detached"
    /\ Asleep => HostReady
    /\ bus' = "awake"
    /\ flags' = flags \cup {"RESET"} \cup (IF Asleep THEN {"WAKEUP"} ELSE {})
    /\ UNCHANGED epint /\ Unmoved

-----------------------------------------------------------------------------
(* Specification *)

Next ==
    \/ BusInterrupt
    \/ EndpointInterrupt
    \/ ReadMode
    \/ EnterSleep
    \/ StartOfFrame
    \/ Transfer
    \/ Suspend
    \/ LpmSuspend
    \/ Resume
    \/ EndOfResume
    \/ Reset

Spec == Init /\ [][Next]_vars

(* Interrupts are served; those of the bus too, as the transfers of the    *)
(* bus leave gaps between endpoint interrupts.                             *)
FairSpec == Spec /\ SF_vars(BusInterrupt) /\ WF_vars(EndpointInterrupt)

-----------------------------------------------------------------------------
(* Properties *)

(* Between the changes of a host that waits, the device and the            *)
(* application know the state of the bus, however suspends of both kinds,  *)
(* resumes, resets, frames and transfers follow each other.                *)
StateFollowsBus ==
    ~Pending /\ bus # "detached" =>
        /\ (udd = "SUSPEND") = (bus = "suspended")
        /\ (udd = "SUSPEND_LPM") = (bus = "dozing")
        /\ (told = "suspend") = (bus = "suspended")

(* The one lock the driver holds is there exactly while the device is in   *)
(* use: the main loop never sleeps in a mode the bus cannot end, and a     *)
(* device that was stopped may.                                            *)
LockedWhileInUse ==
    /\ (DeepestMode = "OFF") = (bus = "detached")
    /\ main.at = "sleeps" /\ main.mode = "OFF" => bus = "detached"

(* main.h:127: main_resume_action is "Called by UDD when the USB line exit *)
(* of suspend state", whenever the application was told of the suspend.    *)
ResumeReported ==
    (bus = "awake" /\ told = "suspend") ~> (bus # "awake" \/ told = "resume")
=============================================================================
