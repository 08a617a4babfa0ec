------------------------------ MODULE MCCtrlEp ------------------------------
(* Small instances of CtrlEp and the claim of the repository that the code *)
(* does not keep.                                                          *)
EXTENDS CtrlEp

(* usb_device_udd.c:226, "STALL enabled on IN & OUT packet": whatever the  *)
(* host sends of a refused request is answered with STALL.                 *)
RefusedIsStalled == (Taken /\ RefusedWrite) ~> ~Taken
=============================================================================
