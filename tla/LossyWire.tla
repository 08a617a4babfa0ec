------------------------------ MODULE LossyWire ------------------------------
(***************************************************************************)
(* What each direction of the bridge promises: the bytes that come out are *)
(* bytes that went in, each at most once and in the order they went in.    *)
(* Bytes may be missing.  A byte is its position in the stream.            *)
(***************************************************************************)
EXTENDS Naturals, Sequences

CONSTANT MaxBytes
VARIABLES sent, wire

Init == sent = 0 /\ wire = <<>>

(* Some more bytes go in.                                                  *)
Send ==
    /\ sent' \in sent .. MaxBytes
    /\ UNCHANGED wire

(* Some come out behind the others: the output keeps what it had and stays *)
(* a rising sequence of bytes that went in.                                *)
Deliver ==
    /\ \A i \in 1 .. Len(wire) : i <= Len(wire') /\ wire'[i] = wire[i]
    /\ \A i \in 1 .. Len(wire') : wire'[i] \in 1 .. sent
    /\ \A i, j \in 1 .. Len(wire') : i < j => wire'[i] < wire'[j]
    /\ UNCHANGED sent

Next == Send \/ Deliver
Spec == Init /\ [][Next]_<<sent, wire>>
=============================================================================
