----------------------------- MODULE I2cMaster ------------------------------
(***************************************************************************)
(* The polled packets of i2c_master.c, called by iic_write and iic_read of *)
(* board_i2c.c for the U5030 protocol, on a bus with a slave that may      *)
(* answer late or never and with other masters.  A function runs at once   *)
(* between two waits for the bus.                                          *)
(***************************************************************************)
EXTENDS Integers, Sequences

CONSTANTS
    MaxLength,   \* bound: bytes of a packet
    OtherMasters \* there are others on the bus

ASSUME I2cAssumption ==
    /\ MaxLength \in Nat \ {0}
    /\ OtherMasters \in BOOLEAN

VARIABLES
    hw,  \* the peripheral, see HwReset
    pkt, \* the call in progress or the last one, see NoPacket
    log  \* history: bytes the slave acknowledged or sent in the packet

vars == <<hw, pkt, log>>

(* bus: STATUS.BUSSTATE, "owner" or "busy" with another master or "idle".  *)
(* flag: MB or SB of INTFLAG.  nack: STATUS.RXNACK.  lost: STATUS.ARBLOST. *)
(* doing: the transfer in progress; data: the byte in the data register.   *)
HwReset == [bus |-> "idle", flag |-> "none", nack |-> FALSE, lost |-> FALSE,
            doing |-> "none", data |-> 0]

(* at: what the function waits for, "return" when it is over.  left:       *)
(* tmp_data_length.  buf: packet->data as far as it was read.              *)
NoPacket == [dir |-> "none", length |-> 0, left |-> 0, at |-> "return",
             buf |-> <<>>, result |-> "none"]

Init ==
    /\ hw = HwReset
    /\ pkt = NoPacket
    /\ log = 0

St == [hw |-> hw, pkt |-> pkt]

Becomes(s) ==
    /\ hw' = s.hw
    /\ pkt' = s.pkt

-----------------------------------------------------------------------------
(* Registers *)

(* The command of CTRLB: it ends what the master does if it has the bus.   *)
Stop(s) ==
    IF s.hw.bus # "owner" THEN s
    ELSE [s EXCEPT !.hw.bus = "idle", !.hw.flag = "none", !.hw.doing = "none"]

(* Writing ADDR or DATA, and in smart mode reading DATA, clears the flags  *)
(* and starts the next transfer of the bus's owner.                        *)
Transfer(s, what) ==
    [s EXCEPT !.hw.flag = "none",
              !.hw.doing = IF s.hw.bus = "owner" THEN what ELSE "none"]

(* A start condition waits for a free bus. *)
WriteAddr(s) == [s EXCEPT !.hw.flag = "none", !.hw.lost = FALSE, !.hw.doing = "address"]

SaveData(s) == [s EXCEPT !.pkt.buf = Append(@, s.hw.data)]

(* STATUS.reg & SERCOM_I2CM_STATUS_BUSSTATE(2): BUSY is 3 and passes too.  *)
OwnershipKept(s) == s.hw.bus \in {"owner", "busy"}

-----------------------------------------------------------------------------
(* The packet functions *)

Return(s, result) == [s EXCEPT !.pkt.at = "return", !.pkt.result = result]

(* The end of both loops, send_stop being set.  A read takes the last byte *)
(* after the stop.                                                         *)
(* Slip: an error leaves without the stop. *)
EndPacketNoStop(s, result) ==
    LET t == IF result = "OK" THEN Stop(s) ELSE s IN
    Return(IF s.pkt.dir = "read" THEN SaveData(t) ELSE t, result)
EndPacket(s, result) ==
    Return(IF s.pkt.dir = "read" THEN SaveData(Stop(s)) ELSE Stop(s), result)

(* One pass of the loop of _i2c_master_write_packet up to its wait *)
WriteLoop(s) ==
    CASE s.pkt.left = 0 -> EndPacket(s, "OK")
      [] s.pkt.left # 0 /\ ~OwnershipKept(s) -> Return(s, "COLLISION")
      [] OTHER -> Transfer([s EXCEPT !.pkt.left = @ - 1, !.pkt.at = "data"], "data")

(* The same of _i2c_master_read_packet: the last byte is not acknowledged  *)
(* and ends the loop.                                                      *)
(* Slip: the last byte is read in the loop, and acknowledged. *)
ReadLoopAcksAll(s) ==
    CASE s.pkt.left = 0 -> EndPacket(s, "OK")
      [] s.pkt.left # 0 /\ ~OwnershipKept(s) -> Return(s, "COLLISION")
      [] OTHER ->
            Transfer(SaveData([s EXCEPT !.pkt.left = @ - 1, !.pkt.at = "data"]), "data")
ReadLoop(s) ==
    CASE ~OwnershipKept(s) -> Return(s, "COLLISION")
      [] OwnershipKept(s) /\ s.pkt.left = 1 -> EndPacket(s, "OK")
      [] OTHER ->
            Transfer(SaveData([s EXCEPT !.pkt.left = @ - 1, !.pkt.at = "data"]), "data")

Loop(s) == IF s.pkt.dir = "write" THEN WriteLoop(s) ELSE ReadLoop(s)

(* _i2c_master_address_response: only with SB it looks for lost            *)
(* arbitration, otherwise for the acknowledge.                             *)
AddressResponse(s) ==
    LET seen == [s EXCEPT !.hw.flag = IF @ = "SB" THEN "none" ELSE @] IN
    CASE s.hw.flag = "SB" /\ s.hw.lost -> Return(seen, "COLLISION")
      [] s.hw.flag = "MB" /\ s.hw.nack -> Return(Stop(s), "BAD_ADDRESS")
      [] OTHER -> Loop(seen)

(* The check after a byte: a write looks at the slave's acknowledge.       *)
DataResponse(s) ==
    IF s.pkt.dir = "write" /\ s.hw.nack THEN EndPacket(s, "OVERFLOW") ELSE Loop(s)

-----------------------------------------------------------------------------
(* Program *)

(* i2c_master_write_packet_wait, i2c_master_read_packet_wait.  A packet    *)
(* has a byte at least: a read of none stores one all the same.            *)
Call(dir, length) ==
    /\ pkt.at = "return"
    /\ Becomes(WriteAddr([St EXCEPT !.pkt =
         [NoPacket EXCEPT !.dir = dir, !.length = length, !.left = length,
                          !.at = "address"]]))
    /\ log' = 0

(* _i2c_master_wait_for_bus finds a flag. *)
BusAnswered ==
    /\ pkt.at # "return"
    /\ hw.flag # "none"
    /\ Becomes(IF pkt.at = "address" THEN AddressResponse(St) ELSE DataResponse(St))
    /\ UNCHANGED log

(* It has polled buffer_timeout times.  Without an answer to the address   *)
(* there is no stop.                                                       *)
TimedOut ==
    /\ pkt.at # "return"
    /\ hw.flag = "none"
    /\ Becomes(IF pkt.at = "address" THEN Return(St, "TIMEOUT")
               ELSE EndPacket(St, "TIMEOUT"))
    /\ UNCHANGED log

-----------------------------------------------------------------------------
(* The bus *)

(* A byte of a read comes after the address and after each acknowledge.    *)
SlaveSends == [hw EXCEPT !.flag = "SB", !.doing = "none", !.bus = "owner",
                         !.data = log + 1, !.nack = FALSE]

(* Also when the call that waited has given up. *)
SlaveAnswers ==
    /\ hw.doing # "none"
    /\ hw.bus # "busy"
    /\ \/ \* a byte of a read
          /\ pkt.dir = "read"
          /\ hw' = SlaveSends
          /\ log' = log + 1
       \/ \* no acknowledge
          /\ hw.doing = "address" \/ pkt.dir = "write"
          /\ hw' = [hw EXCEPT !.flag = "MB", !.nack = TRUE, !.doing = "none", !.bus = "owner"]
          /\ UNCHANGED log
       \/ \* the address or a byte of a write
          /\ pkt.dir = "write"
          /\ hw' = [hw EXCEPT !.flag = "MB", !.nack = FALSE, !.doing = "none", !.bus = "owner"]
          /\ log' = IF hw.doing = "data" THEN log + 1 ELSE log
    /\ UNCHANGED pkt

(* Arbitration is lost in a transfer: the other master has the bus. *)
ArbitrationLost ==
    /\ OtherMasters
    /\ hw.doing # "none"
    /\ hw.bus # "busy"
    /\ hw' = [hw EXCEPT !.flag = "MB", !.lost = TRUE, !.doing = "none", !.bus = "busy"]
    /\ UNCHANGED <<pkt, log>>

OtherMaster ==
    /\ OtherMasters
    /\ \/ hw.bus = "idle" /\ hw.doing = "none" /\ hw' = [hw EXCEPT !.bus = "busy"]
       \/ hw.bus = "busy" /\ hw' = [hw EXCEPT !.bus = "idle"]
    /\ UNCHANGED <<pkt, log>>

-----------------------------------------------------------------------------
(* Specification *)

Next ==
    \/ \E dir \in {"write", "read"}, length \in 1 .. MaxLength : Call(dir, length)
    \/ BusAnswered
    \/ TimedOut
    \/ SlaveAnswers
    \/ ArbitrationLost
    \/ OtherMaster

Spec == Init /\ [][Next]_vars

-----------------------------------------------------------------------------
(* Properties *)

(* STATUS_OK means that the packet was transferred: the slave took every   *)
(* byte of a write, a read has the slave's bytes in their order.  No late  *)
(* answer to a call that gave up gets in.  A packet that lost arbitration  *)
(* is excepted at its last byte, where the code does not notice a loss     *)
(* reported with MB: the slave did not take it, or the read stores what    *)
(* was in the data register.  The address is the last byte's place too in  *)
(* a read of one.  A loss before that never ends in STATUS_OK.             *)
Transferred ==
    IF pkt.dir = "write" THEN log = pkt.length
    ELSE pkt.buf = [k \in 1 .. pkt.length |-> k]
AllButLast ==
    IF pkt.dir = "write" THEN log = pkt.length - 1
    ELSE Len(pkt.buf) = pkt.length /\ \A k \in 1 .. pkt.length - 1 : pkt.buf[k] = k
OkMeansTransferred ==
    pkt.result = "OK" => IF hw.lost THEN AllButLast ELSE Transferred

(* A packet that failed on the way stores nothing behind its buffer and    *)
(* gives the bus back, unless the slave held the address.                  *)
BusReleased ==
    /\ Len(pkt.buf) <= pkt.length
    /\ pkt.at = "return" /\ hw.bus = "owner" =>
          pkt.result = "TIMEOUT" /\ pkt.left = pkt.length
=============================================================================
