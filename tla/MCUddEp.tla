------------------------------ MODULE MCUddEp -------------------------------
(* Small instances of UddEp and the claims of the repository that the code *)
(* does not keep.                                                          *)
EXTENDS UddEp

(* usb_device_udd.c:578, clearing a halt calls the callback of a job that  *)
(* was registered for it, never the callback of a transfer.                *)
OnlyHaltCallbacks == ~bogus

(* udd.h:268-269, after udd_ep_clear_halt the data toggle sequence starts  *)
(* at DATA0, at least on an endpoint whose halt the host has met.          *)
RestartsAtData0 ==
    [][\A d \in Dir :
         (hw[d].stallrq /\ seen[d] /\ ~hw'[d].stallrq) => hw'[d].toggle = 0]_vars
=============================================================================
