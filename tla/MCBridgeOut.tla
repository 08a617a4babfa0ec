----------------------------- MODULE MCBridgeOut -----------------------------
(* Small instances of BridgeOut and the claim of the repository that the   *)
(* code does not keep.                                                     *)
EXTENDS BridgeOut

(* The firmware at its best: no USB event comes before a pending SERCOM    *)
(* interrupt has been served.                                              *)
PromptSpec ==
    Init /\ [][Next /\ (InterruptPending(usart) => UsartInterrupt)]_vars

(* main.c:361, a character typed in one terminal echoes in the other:      *)
(* every byte the host sent is on the wire or on its way there.            *)
NoByteLost == \A k \in 1 .. sent : k \in Held
=============================================================================
