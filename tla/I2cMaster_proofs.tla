-------------------------- MODULE I2cMaster_proofs --------------------------
(***************************************************************************)
(* Proofs about I2cMaster, for packets of any length and with or without   *)
(* other masters: success means that the packet was transferred, but for   *)
(* the last byte if arbitration was lost, and an error leaves the bus free *)
(* unless the address was not answered in time.                            *)
(***************************************************************************)
EXTENDS I2cMaster, TLAPS

Hw == [bus : {"idle", "owner", "busy"}, flag : {"none", "MB", "SB"},
       nack : BOOLEAN, lost : BOOLEAN,
       doing : {"none", "address", "data"}, data : Nat]

Results == {"none", "OK", "COLLISION", "BAD_ADDRESS", "OVERFLOW", "TIMEOUT"}

Pkt == [dir : {"none", "write", "read"}, length : Nat, left : Nat,
        at : {"return", "address", "data"}, buf : Seq(Nat), result : Results]

States == [hw : Hw, pkt : Pkt]

-----------------------------------------------------------------------------
(* The inductive invariant *)

(* The peripheral: a flag ends the transfer it reports, and who lost the   *)
(* arbitration has not got the bus.                                        *)
HwInv(h) ==
    /\ h.flag # "none" => h.doing = "none"
    /\ h.flag # "none" /\ ~h.lost => h.bus = "owner"
    /\ h.doing = "data" => h.bus = "owner"
    /\ h.lost => h.doing = "none" /\ h.bus # "owner" /\ h.flag # "SB"

(* The first n bytes of the slave, in order *)
Filled(p, n) == Len(p.buf) = n /\ \A k \in 1 .. n : p.buf[k] = k

Complete(p, l) == IF p.dir = "write" THEN l = p.length ELSE Filled(p, p.length)

(* The same without the last byte, which a read stored all the same.       *)
Nearly(p, l) ==
    IF p.dir = "write" THEN l + 1 = p.length
    ELSE Len(p.buf) = p.length /\ \A k \in 1 .. p.length - 1 : p.buf[k] = k

(* Between two calls the bus is free and nothing can happen, unless the    *)
(* last address was not answered in time.                                  *)
ReturnInv(h, p, l) ==
    p.at = "return" =>
        /\ Len(p.buf) <= p.length
        /\ \/ h.doing = "none" /\ h.bus # "owner"
           \/ p.result = "TIMEOUT" /\ p.left = p.length
        /\ p.result = "OK" => h.doing = "none"
        /\ p.result = "OK" => IF h.lost THEN Nearly(p, l) ELSE Complete(p, l)

Waits(p) == p.dir \in {"write", "read"} /\ p.result = "none"

AddressInv(h, p, l) ==
    p.at = "address" =>
        /\ Waits(p)
        /\ p.left = p.length /\ p.length # 0 /\ p.buf = <<>>
        /\ h.flag = "none" => h.doing = "address" /\ l = 0
        /\ ~h.lost /\ h.flag = "SB" => p.dir = "read" /\ l = 1 /\ h.data = 1
        /\ ~h.lost /\ h.flag = "MB" => h.nack \/ (p.dir = "write" /\ l = 0)

(* p.length - p.left bytes were given to the slave or taken from it.  With *)
(* the flag of lost arbitration that is so but for the byte that lost it;  *)
(* without a flag the call can only time out.                              *)
DataInv(h, p, l) ==
    p.at = "data" =>
        /\ Waits(p)
        /\ p.left < p.length
        /\ p.dir = "write" => Len(p.buf) = 0
        /\ p.dir = "read" => p.left # 0 /\ Len(p.buf) = p.length - p.left
        /\ h.doing # "address"
        /\ h.lost /\ h.flag # "none" =>
             /\ p.dir = "write" => l + 1 = p.length - p.left
             /\ p.dir = "read" => Filled(p, p.length - p.left)
        /\ ~h.lost =>
             /\ h.flag = "none" => h.doing = "data"
             /\ p.dir = "write" =>
                  /\ h.flag # "SB"
                  /\ h.flag = "none" => l + 1 = p.length - p.left
                  /\ h.flag = "MB" /\ ~h.nack => l = p.length - p.left
             /\ p.dir = "read" =>
                  /\ h.flag # "MB"
                  /\ Filled(p, p.length - p.left)
                  /\ h.flag = "none" => l = p.length - p.left
                  /\ h.flag = "SB" => l = p.length - p.left + 1 /\ h.data = l

PacketInv(s, l) ==
    /\ HwInv(s.hw)
    /\ ReturnInv(s.hw, s.pkt, l)
    /\ AddressInv(s.hw, s.pkt, l)
    /\ DataInv(s.hw, s.pkt, l)

IInv == log \in Nat /\ hw \in Hw /\ pkt \in Pkt /\ PacketInv(St, log)

(* Where a pass of the loop begins: the last byte was acknowledged, or has *)
(* been received and not been read.                                        *)
Ready(s, l) ==
    /\ Waits(s.pkt)
    /\ s.hw.doing = "none"
    /\ s.pkt.left <= s.pkt.length
    /\ s.pkt.dir = "write" => Len(s.pkt.buf) = 0
    /\ s.pkt.dir = "read" => s.pkt.left # 0 /\ Len(s.pkt.buf) = s.pkt.length - s.pkt.left
    /\ s.pkt.dir = "read" => Filled(s.pkt, s.pkt.length - s.pkt.left)
    /\ s.hw.lost =>
         /\ s.hw.bus # "owner" /\ s.hw.flag # "SB"
         /\ s.pkt.dir = "write" /\ s.pkt.left = 0 => l + 1 = s.pkt.length
    /\ ~s.hw.lost =>
         /\ s.hw.bus = "owner"
         /\ s.pkt.dir = "write" => l = s.pkt.length - s.pkt.left
         /\ s.pkt.dir = "read" =>
              /\ l = s.pkt.length - s.pkt.left + 1
              /\ s.hw.data = l

-----------------------------------------------------------------------------
(* The packet functions *)

LEMMA SaveDataFills ==
    ASSUME NEW s \in States
    PROVE  /\ SaveData(s) \in States
           /\ SaveData(s).hw = s.hw
           /\ SaveData(s).pkt = [s.pkt EXCEPT !.buf = Append(@, s.hw.data)]
           /\ Len(SaveData(s).pkt.buf) = Len(s.pkt.buf) + 1
           /\ \A n \in Nat : Filled(s.pkt, n) =>
                 /\ Len(SaveData(s).pkt.buf) = n + 1
                 /\ \A k \in 1 .. n : SaveData(s).pkt.buf[k] = k
                 /\ s.hw.data = n + 1 => Filled(SaveData(s).pkt, n + 1)
<1>1. s.pkt \in Pkt /\ s.hw \in Hw /\ s.pkt.buf \in Seq(Nat) /\ s.hw.data \in Nat
  BY DEF States, Hw, Pkt
<1>2. SaveData(s).hw = s.hw /\ SaveData(s).pkt = [s.pkt EXCEPT !.buf = Append(@, s.hw.data)]
  BY DEF SaveData, States
<1>3. SaveData(s).pkt.buf = Append(s.pkt.buf, s.hw.data)
  BY <1>1, <1>2 DEF Pkt
<1>4. Append(s.pkt.buf, s.hw.data) \in Seq(Nat)
  BY <1>1
<1>5. SaveData(s) \in States
  BY <1>1, <1>4 DEF SaveData, States, Pkt
<1>6. Len(SaveData(s).pkt.buf) = Len(s.pkt.buf) + 1
  BY <1>1, <1>3
<1>7. ASSUME NEW n \in Nat, Filled(s.pkt, n)
      PROVE  /\ Len(SaveData(s).pkt.buf) = n + 1
             /\ \A k \in 1 .. n : SaveData(s).pkt.buf[k] = k
             /\ s.hw.data = n + 1 => Filled(SaveData(s).pkt, n + 1)
  BY <1>1, <1>3, <1>7 DEF Filled
<1> QED
  BY <1>2, <1>5, <1>6, <1>7

LEMMA StopFrees ==
    ASSUME NEW s \in States
    PROVE  /\ Stop(s) \in States
           /\ Stop(s).pkt = s.pkt
           /\ Stop(s).hw.bus # "owner"
           /\ Stop(s).hw.lost = s.hw.lost /\ Stop(s).hw.data = s.hw.data
           /\ s.hw.doing = "none" \/ s.hw.bus = "owner" => Stop(s).hw.doing = "none"
           /\ s.hw.lost \/ s.hw.bus = "owner" => Stop(s).hw.lost \/ Stop(s).hw.flag = "none"
           /\ s.hw.flag # "SB" => Stop(s).hw.flag # "SB"
  BY DEF Stop, States, Hw

LEMMA ReturnSets ==
    ASSUME NEW s \in States, NEW r \in Results
    PROVE  /\ Return(s, r) \in States
           /\ Return(s, r).hw = s.hw
           /\ Return(s, r).pkt.at = "return" /\ Return(s, r).pkt.result = r
           /\ Return(s, r).pkt.dir = s.pkt.dir /\ Return(s, r).pkt.buf = s.pkt.buf
           /\ Return(s, r).pkt.length = s.pkt.length /\ Return(s, r).pkt.left = s.pkt.left
  BY DEF Return, States, Pkt

(* The end of a packet, from a state in which the bus was the master's or  *)
(* lost.  The result is right if the packet is complete with the last byte *)
(* of a read, or only the last byte is missing and arbitration was lost.   *)
LEMMA EndPacketReturns ==
    ASSUME NEW s \in States, NEW l \in Nat, NEW r \in Results,
           Waits(s.pkt),
           s.pkt.dir = "write" => Len(s.pkt.buf) <= s.pkt.length,
           s.pkt.dir = "read" => Len(s.pkt.buf) < s.pkt.length,
           s.hw.lost => s.hw.bus # "owner" /\ s.hw.doing = "none" /\ s.hw.flag # "SB",
           ~s.hw.lost => s.hw.bus = "owner",
           r = "OK" =>
               IF s.pkt.dir = "write"
               THEN s.pkt.length = IF s.hw.lost THEN l + 1 ELSE l
               ELSE /\ Filled(s.pkt, s.pkt.length - 1)
                    /\ ~s.hw.lost => s.hw.data = s.pkt.length
    PROVE  EndPacket(s, r) \in States /\ PacketInv(EndPacket(s, r), l)
<1> DEFINE t == IF s.pkt.dir = "read" THEN SaveData(Stop(s)) ELSE Stop(s)
<1>1. /\ Stop(s) \in States
      /\ Stop(s).pkt = s.pkt
      /\ Stop(s).hw.bus # "owner" /\ Stop(s).hw.doing = "none"
      /\ Stop(s).hw.lost = s.hw.lost /\ Stop(s).hw.data = s.hw.data
      /\ ~Stop(s).hw.lost => Stop(s).hw.flag = "none"
      /\ Stop(s).hw.lost => Stop(s).hw.flag # "SB"
  BY StopFrees
<1>2. /\ t \in States /\ t.hw = Stop(s).hw
      /\ t.pkt = [s.pkt EXCEPT !.buf = t.pkt.buf]
      /\ Len(t.pkt.buf) <= s.pkt.length
  <2>1. CASE s.pkt.dir = "read"
    <3>1. /\ t \in States /\ t.hw = Stop(s).hw
          /\ t.pkt = [s.pkt EXCEPT !.buf = Append(@, Stop(s).hw.data)]
          /\ Len(t.pkt.buf) = Len(s.pkt.buf) + 1
      BY <1>1, <2>1, SaveDataFills
    <3>2. Len(s.pkt.buf) \in Nat /\ s.pkt.length \in Nat
      BY DEF States, Pkt
    <3> QED
      BY <2>1, <3>1, <3>2 DEF States, Pkt
  <2>2. CASE s.pkt.dir # "read"
    <3>1. t = Stop(s)
      BY <2>2
    <3>2. s.pkt.dir = "write"
      BY <2>2 DEF Waits
    <3> QED
      BY <1>1, <3>1, <3>2 DEF States, Pkt
  <2> QED
    BY <2>1, <2>2
<1>3. r = "OK" => IF s.hw.lost THEN Nearly(t.pkt, l) ELSE Complete(t.pkt, l)
  <2> SUFFICES ASSUME r = "OK"
               PROVE  IF s.hw.lost THEN Nearly(t.pkt, l) ELSE Complete(t.pkt, l)
    OBVIOUS
  <2>1. CASE s.pkt.dir = "write"
    BY <1>2, <2>1 DEF Complete, Nearly, States, Pkt
  <2>2. CASE s.pkt.dir = "read"
    <3>1. s.pkt.length \in Nat /\ s.pkt.length # 0 /\ Len(s.pkt.buf) \in Nat
      BY <2>2 DEF States, Pkt
    <3>2. /\ Filled(Stop(s).pkt, s.pkt.length - 1)
          /\ ~s.hw.lost => Stop(s).hw.data = (s.pkt.length - 1) + 1
      BY <1>1, <2>2, <3>1
    <3>3. PICK n \in Nat : n + 1 = s.pkt.length /\ n = s.pkt.length - 1
      BY <3>1
    <3>4. t = SaveData(Stop(s)) /\ t.pkt.length = s.pkt.length /\ t.pkt.dir = "read"
      BY <1>2, <2>2 DEF States, Pkt
    <3> HIDE DEF t
    <3>5. Filled(Stop(s).pkt, n) /\ (~s.hw.lost => Stop(s).hw.data = n + 1)
      BY <3>2, <3>3
    <3>6. /\ Len(t.pkt.buf) = n + 1
          /\ \A k \in 1 .. n : t.pkt.buf[k] = k
          /\ ~s.hw.lost => Filled(t.pkt, n + 1)
      BY <1>1, <3>4, <3>5, SaveDataFills
    <3> QED
      BY <3>3, <3>4, <3>6 DEF Complete, Nearly
  <2> QED
    BY <2>1, <2>2 DEF Waits
<1>4. EndPacket(s, r) = Return(t, r)
  BY DEF EndPacket
<1> HIDE DEF t
<1>5. PICK e \in States : e = EndPacket(s, r)
  BY <1>2, <1>4, ReturnSets
<1>6. /\ e.hw = t.hw /\ e.pkt.at = "return" /\ e.pkt.result = r
      /\ e.pkt.buf = t.pkt.buf /\ e.pkt.length = t.pkt.length /\ e.pkt.dir = t.pkt.dir
      /\ t.pkt.length = s.pkt.length
  <2>1. t.pkt.length = s.pkt.length
    BY <1>2 DEF States, Pkt
  <2> QED
    BY <1>2, <1>4, <1>5, <2>1, ReturnSets
<1>7. HwInv(e.hw)
  BY <1>1, <1>2, <1>6 DEF HwInv
<1>8. ReturnInv(e.hw, e.pkt, l)
  <2>1. Nearly(t.pkt, l) = Nearly(e.pkt, l) /\ Complete(t.pkt, l) = Complete(e.pkt, l)
    BY <1>6 DEF Nearly, Complete, Filled
  <2>2. r = "OK" => IF e.hw.lost THEN Nearly(e.pkt, l) ELSE Complete(e.pkt, l)
    BY <1>1, <1>2, <1>3, <1>6, <2>1
  <2>3. Len(e.pkt.buf) <= e.pkt.length
    BY <1>2, <1>6
  <2> QED
    BY <1>1, <1>2, <1>6, <2>2, <2>3 DEF ReturnInv
<1>9. AddressInv(e.hw, e.pkt, l) /\ DataInv(e.hw, e.pkt, l)
  BY <1>6 DEF AddressInv, DataInv
<1> QED
  BY <1>5, <1>7, <1>8, <1>9 DEF PacketInv

(* The next byte is on its way: the master owns the bus, or lost it and    *)
(* waits in vain.                                                          *)
LEMMA TransferWaits ==
    ASSUME NEW s \in States, NEW l \in Nat, NEW n \in Nat,
           Waits(s.pkt), s.pkt.at = "data", s.pkt.left = n, n < s.pkt.length,
           s.pkt.dir = "write" => Len(s.pkt.buf) = 0,
           s.pkt.dir = "read" => n # 0 /\ Len(s.pkt.buf) = s.pkt.length - n,
           s.hw.lost => s.hw.bus # "owner",
           ~s.hw.lost =>
               /\ s.hw.bus = "owner"
               /\ s.pkt.dir = "write" => l + 1 = s.pkt.length - n
               /\ s.pkt.dir = "read" => l = s.pkt.length - n /\ Filled(s.pkt, s.pkt.length - n)
    PROVE  Transfer(s, "data") \in States /\ PacketInv(Transfer(s, "data"), l)
<1>1. Transfer(s, "data") \in States
  BY DEF Transfer, States, Hw
<1>2. PICK e \in States : e = Transfer(s, "data")
  BY <1>1
<1>3. /\ e.pkt = s.pkt /\ e.hw.flag = "none" /\ e.hw.lost = s.hw.lost /\ e.hw.bus = s.hw.bus
      /\ e.hw.doing = IF s.hw.bus = "owner" THEN "data" ELSE "none"
  <2>1. PICK w : w = IF s.hw.bus = "owner" THEN "data" ELSE "none"
    OBVIOUS
  <2>2. PICK h : h = [s.hw EXCEPT !.flag = "none", !.doing = w]
    OBVIOUS
  <2>3. h.flag = "none" /\ h.lost = s.hw.lost /\ h.bus = s.hw.bus /\ h.doing = w
    BY <2>2 DEF States, Hw
  <2>4. e = [s EXCEPT !.hw = h]
    BY <1>2, <2>1, <2>2 DEF Transfer, States
  <2>5. e.hw = h /\ e.pkt = s.pkt
    BY <2>4 DEF States
  <2> QED
    BY <2>1, <2>3, <2>5
<1>4. HwInv(e.hw)
  BY <1>3 DEF HwInv
<1>5. ReturnInv(e.hw, e.pkt, l) /\ AddressInv(e.hw, e.pkt, l)
  BY <1>3 DEF ReturnInv, AddressInv
<1>6. DataInv(e.hw, e.pkt, l)
  BY <1>3 DEF DataInv
<1> QED
  BY <1>2, <1>4, <1>5, <1>6 DEF PacketInv

LEMMA CollisionReturns ==
    ASSUME NEW s \in States, NEW l \in Nat, Ready(s, l), ~OwnershipKept(s)
    PROVE  Return(s, "COLLISION") \in States /\ PacketInv(Return(s, "COLLISION"), l)
<1>1. PICK e \in States : e = Return(s, "COLLISION")
  BY ReturnSets DEF Results
<1>2. /\ e.hw = s.hw /\ e.pkt.at = "return" /\ e.pkt.result = "COLLISION"
      /\ e.pkt.dir = s.pkt.dir /\ e.pkt.buf = s.pkt.buf /\ e.pkt.length = s.pkt.length
  BY <1>1, ReturnSets DEF Results
<1>3. s.hw.bus = "idle" /\ s.hw.lost /\ s.hw.flag # "SB" /\ s.hw.doing = "none"
  BY DEF OwnershipKept, Ready, States, Hw
<1>4. Len(s.pkt.buf) <= s.pkt.length
  BY DEF Ready, Waits, States, Pkt
<1>5. HwInv(e.hw)
  BY <1>2, <1>3 DEF HwInv
<1>6. ReturnInv(e.hw, e.pkt, l)
  BY <1>2, <1>3, <1>4 DEF ReturnInv
<1>7. AddressInv(e.hw, e.pkt, l) /\ DataInv(e.hw, e.pkt, l)
  BY <1>2 DEF AddressInv, DataInv
<1> QED
  BY <1>1, <1>5, <1>6, <1>7 DEF PacketInv

(* A pass of the loop of a write, from where it begins to its wait or to   *)
(* the return.                                                             *)
LEMMA WriteLoopKeeps ==
    ASSUME NEW s \in States, NEW l \in Nat, Ready(s, l), s.pkt.dir = "write"
    PROVE  WriteLoop(s) \in States /\ PacketInv(WriteLoop(s), l)
<1>1. CASE s.pkt.left = 0
  <2>1. WriteLoop(s) = EndPacket(s, "OK")
    BY <1>1 DEF WriteLoop
  <2>2. /\ s.pkt.length \in Nat
        /\ IF s.hw.lost THEN l + 1 = s.pkt.length ELSE l = s.pkt.length - 0
    BY <1>1 DEF Ready, States, Pkt
  <2>3. "OK" \in Results /\ Len(s.pkt.buf) <= s.pkt.length
    BY DEF Results, Ready, States, Pkt
  <2>4. s.pkt.length = IF s.hw.lost THEN l + 1 ELSE l
    BY <2>2
  <2>5. Waits(s.pkt) /\ s.hw.doing = "none"
    BY DEF Ready
  <2>6. /\ s.hw.lost => s.hw.bus # "owner" /\ s.hw.flag # "SB"
        /\ ~s.hw.lost => s.hw.bus = "owner"
    BY DEF Ready
  <2> QED
    BY <2>1, <2>3, <2>4, <2>5, <2>6, EndPacketReturns
<1>2. CASE s.pkt.left # 0 /\ ~OwnershipKept(s)
  <2>1. WriteLoop(s) = Return(s, "COLLISION")
    BY <1>2 DEF WriteLoop
  <2> QED
    BY <1>2, <2>1, CollisionReturns
<1>3. CASE s.pkt.left # 0 /\ OwnershipKept(s)
  <2> DEFINE t == [s EXCEPT !.pkt.left = @ - 1, !.pkt.at = "data"]
  <2>1. WriteLoop(s) = Transfer(t, "data")
    BY <1>3 DEF WriteLoop
  <2>2. PICK n \in Nat : n = s.pkt.left - 1 /\ s.pkt.left = n + 1
    BY <1>3 DEF States, Pkt
  <2>3. t \in States
    BY <2>2 DEF States, Pkt
  <2>4. /\ t.hw = s.hw /\ t.pkt.at = "data" /\ t.pkt.left = n
        /\ t.pkt.dir = "write" /\ t.pkt.result = s.pkt.result
        /\ t.pkt.length = s.pkt.length /\ t.pkt.buf = s.pkt.buf
    BY <2>2 DEF States, Pkt
  <2> HIDE DEF t
  <2>5. s.pkt.length \in Nat /\ Len(s.pkt.buf) = 0 /\ n + 1 <= s.pkt.length
    BY <2>2 DEF Ready, States, Pkt
  <2>6. n < t.pkt.length
    BY <2>4, <2>5
  <2>7. ~s.hw.lost => l = s.pkt.length - (n + 1)
    BY <2>2 DEF Ready
  <2>8. ~t.hw.lost => l + 1 = t.pkt.length - n
    BY <2>4, <2>5, <2>7
  <2>9. Waits(t.pkt)
    BY <2>4 DEF Waits, Ready
  <2>10. /\ t.hw.lost => t.hw.bus # "owner"
         /\ ~t.hw.lost => t.hw.bus = "owner"
    BY <2>4 DEF Ready
  <2> QED
    BY <2>1, <2>3, <2>4, <2>5, <2>6, <2>8, <2>9, <2>10, TransferWaits
<1> QED
  BY <1>1, <1>2, <1>3

LEMMA ReadLoopKeeps ==
    ASSUME NEW s \in States, NEW l \in Nat, Ready(s, l), s.pkt.dir = "read"
    PROVE  ReadLoop(s) \in States /\ PacketInv(ReadLoop(s), l)
<1> USE DEF Waits
<1>0. /\ s.pkt \in Pkt /\ s.pkt.length \in Nat /\ s.pkt.left \in Nat
      /\ s.pkt.left # 0 /\ s.pkt.left <= s.pkt.length
      /\ Len(s.pkt.buf) = s.pkt.length - s.pkt.left
      /\ s.hw.doing = "none"
  BY DEF Ready, States, Pkt
<1>1. CASE ~OwnershipKept(s)
  <2>1. ReadLoop(s) = Return(s, "COLLISION")
    BY <1>1 DEF ReadLoop
  <2> QED
    BY <1>1, <2>1, CollisionReturns
<1>2. CASE OwnershipKept(s) /\ s.pkt.left = 1
  <2>1. ReadLoop(s) = EndPacket(s, "OK")
    BY <1>2 DEF ReadLoop
  <2>2. "OK" \in Results /\ Len(s.pkt.buf) < s.pkt.length
    BY <1>0, <1>2 DEF Results
  <2>3. /\ Filled(s.pkt, s.pkt.length - 1)
        /\ ~s.hw.lost => l = s.pkt.length - 1 + 1 /\ s.hw.data = l
    BY <1>2 DEF Ready
  <2>4. ~s.hw.lost => s.hw.data = s.pkt.length
    BY <1>0, <2>3
  <2>5. /\ s.hw.lost => s.hw.bus # "owner" /\ s.hw.flag # "SB"
        /\ ~s.hw.lost => s.hw.bus = "owner"
    BY DEF Ready
  <2>6. Waits(s.pkt)
    BY DEF Ready
  <2> QED
    BY <1>0, <2>1, <2>2, <2>3, <2>4, <2>5, <2>6, EndPacketReturns
<1>3. CASE OwnershipKept(s) /\ s.pkt.left # 1
  <2> DEFINE u == [s EXCEPT !.pkt.left = @ - 1, !.pkt.at = "data"]
  <2>1. ReadLoop(s) = Transfer(SaveData(u), "data")
    BY <1>3 DEF ReadLoop
  <2>2. PICK n \in Nat : n = s.pkt.left - 1 /\ s.pkt.left = n + 1 /\ n # 0
    BY <1>0, <1>3
  <2>3. u \in States
    BY <2>2 DEF States, Pkt
  <2>4. /\ u.hw = s.hw /\ u.pkt.at = "data" /\ u.pkt.left = n
        /\ u.pkt.dir = "read" /\ u.pkt.result = s.pkt.result
        /\ u.pkt.length = s.pkt.length /\ u.pkt.buf = s.pkt.buf
    BY <2>2 DEF States, Pkt
  <2> HIDE DEF u
  <2>5. PICK t \in States : t = SaveData(u)
    BY <2>3, SaveDataFills
  <2>6. /\ t.hw = s.hw /\ t.pkt.at = "data" /\ t.pkt.left = n
        /\ t.pkt.dir = "read" /\ t.pkt.result = s.pkt.result
        /\ t.pkt.length = s.pkt.length
    <3>1. t.hw = u.hw /\ t.pkt = [u.pkt EXCEPT !.buf = Append(@, u.hw.data)]
      BY <2>3, <2>5, SaveDataFills
    <3>2. u.pkt \in Pkt
      BY <2>3 DEF States
    <3> QED
      BY <2>4, <3>1, <3>2 DEF Pkt
  <2>7. Len(t.pkt.buf) = Len(s.pkt.buf) + 1
    BY <2>3, <2>4, <2>5, SaveDataFills
  <2>8. n < s.pkt.length /\ Len(t.pkt.buf) = s.pkt.length - n
    <3>1. PICK a \in Nat, b \in Nat : a = s.pkt.length /\ b = s.pkt.left
      BY <1>0
    <3>2. b = n + 1 /\ b <= a /\ Len(t.pkt.buf) = (a - b) + 1
      BY <1>0, <2>2, <2>7, <3>1
    <3> QED
      BY <3>1, <3>2
  <2>9. PICK m \in Nat : m = s.pkt.length - s.pkt.left /\ m + 1 = s.pkt.length - n
    BY <1>0, <2>2
  <2>10. ~s.hw.lost => l = s.pkt.length - n /\ Filled(t.pkt, s.pkt.length - n)
    <3>1. SUFFICES ASSUME ~s.hw.lost
                   PROVE  l = s.pkt.length - n /\ Filled(t.pkt, s.pkt.length - n)
      OBVIOUS
    <3>2. l = m + 1 /\ s.hw.data = m + 1 /\ Filled(s.pkt, m)
      BY <2>9, <3>1 DEF Ready
    <3>3. Filled(u.pkt, m) /\ u.hw.data = m + 1
      BY <2>4, <3>2 DEF Filled
    <3>4. Filled(t.pkt, m + 1)
      BY <2>3, <2>5, <3>3, SaveDataFills
    <3> QED
      BY <2>9, <3>2, <3>4
  <2>11. Waits(t.pkt)
    BY <2>6 DEF Ready
  <2>12. /\ t.hw.lost => t.hw.bus # "owner"
         /\ ~t.hw.lost => t.hw.bus = "owner"
    BY <2>6 DEF Ready
  <2> QED
    BY <2>1, <2>2, <2>5, <2>6, <2>8, <2>10, <2>11, <2>12, TransferWaits
<1> QED
  BY <1>1, <1>2, <1>3

LEMMA LoopKeeps ==
    ASSUME NEW s \in States, NEW l \in Nat, Ready(s, l)
    PROVE  Loop(s) \in States /\ PacketInv(Loop(s), l)
<1>1. CASE s.pkt.dir = "write"
  BY <1>1, WriteLoopKeeps DEF Loop
<1>2. CASE s.pkt.dir = "read"
  BY <1>2, ReadLoopKeeps DEF Loop
<1> QED
  BY <1>1, <1>2 DEF Ready, Waits

(* After the address and after a byte the loop begins a pass, or the call  *)
(* ends with an error.                                                     *)
LEMMA AddressResponseKeeps ==
    ASSUME NEW s \in States, NEW l \in Nat, PacketInv(s, l),
           s.pkt.at = "address", s.hw.flag # "none"
    PROVE  AddressResponse(s) \in States /\ PacketInv(AddressResponse(s), l)
<1>1. HwInv(s.hw) /\ AddressInv(s.hw, s.pkt, l)
  BY DEF PacketInv
<1>2. /\ Waits(s.pkt) /\ s.pkt.left = s.pkt.length /\ s.pkt.length # 0 /\ s.pkt.buf = <<>>
      /\ ~s.hw.lost /\ s.hw.flag = "SB" => s.pkt.dir = "read" /\ l = 1 /\ s.hw.data = 1
      /\ ~s.hw.lost /\ s.hw.flag = "MB" => s.hw.nack \/ (s.pkt.dir = "write" /\ l = 0)
  BY <1>1 DEF AddressInv
<1>3. /\ s.hw.flag \in {"MB", "SB"} /\ s.hw.doing = "none"
      /\ ~s.hw.lost => s.hw.bus = "owner"
      /\ s.hw.lost => s.hw.bus # "owner" /\ s.hw.flag # "SB"
  BY <1>1 DEF HwInv, States, Hw
<1>4. s.pkt.length \in Nat /\ s.pkt.left \in Nat /\ Len(s.pkt.buf) = 0
  BY <1>2 DEF States, Pkt
<1>5. CASE s.hw.flag = "MB" /\ s.hw.nack
  <2>1. AddressResponse(s) = Return(Stop(s), "BAD_ADDRESS")
    BY <1>5 DEF AddressResponse
  <2>2. /\ Stop(s) \in States /\ Stop(s).pkt = s.pkt
        /\ Stop(s).hw.bus # "owner" /\ Stop(s).hw.doing = "none"
        /\ Stop(s).hw.lost \/ Stop(s).hw.flag = "none"
        /\ Stop(s).hw.flag # "SB"
    BY <1>3, <1>5, StopFrees
  <2>3. PICK e \in States : e = Return(Stop(s), "BAD_ADDRESS")
    BY <2>2, ReturnSets DEF Results
  <2>4. /\ e.hw = Stop(s).hw /\ e.pkt.at = "return" /\ e.pkt.result = "BAD_ADDRESS"
        /\ e.pkt.buf = s.pkt.buf /\ e.pkt.length = s.pkt.length
    BY <2>2, <2>3, ReturnSets DEF Results
  <2>5. HwInv(e.hw)
    BY <2>2, <2>4 DEF HwInv
  <2>6. Len(e.pkt.buf) <= e.pkt.length
    BY <1>4, <2>4
  <2>7. ReturnInv(e.hw, e.pkt, l) /\ AddressInv(e.hw, e.pkt, l) /\ DataInv(e.hw, e.pkt, l)
    BY <2>2, <2>4, <2>6 DEF ReturnInv, AddressInv, DataInv
  <2> QED
    BY <2>1, <2>3, <2>5, <2>7 DEF PacketInv
<1>6. CASE ~(s.hw.flag = "MB" /\ s.hw.nack)
  <2> DEFINE t == [s EXCEPT !.hw.flag = IF @ = "SB" THEN "none" ELSE @]
  <2>1. AddressResponse(s) = Loop(t)
    BY <1>3, <1>6 DEF AddressResponse
  <2>2. /\ t \in States /\ t.pkt = s.pkt /\ t.hw.doing = "none"
        /\ t.hw.lost = s.hw.lost /\ t.hw.bus = s.hw.bus /\ t.hw.data = s.hw.data
        /\ t.hw.flag # "SB"
    BY <1>3 DEF States, Hw
  <2> HIDE DEF t
  <2>3. ~s.hw.lost => \/ s.pkt.dir = "write" /\ l = 0
                      \/ s.pkt.dir = "read" /\ l = 1 /\ s.hw.data = 1
    BY <1>2, <1>3, <1>6
  <2>4. s.pkt.length - s.pkt.left = 0
    BY <1>2, <1>4
  <2>5. Filled(s.pkt, 0)
    BY <1>4 DEF Filled
  <2>6. Ready(t, l)
    BY <1>2, <1>3, <1>4, <2>2, <2>3, <2>4, <2>5 DEF Ready
  <2> QED
    BY <2>1, <2>2, <2>6, LoopKeeps
<1> QED
  BY <1>5, <1>6

LEMMA DataEnds ==
    ASSUME NEW s \in States, NEW l \in Nat, PacketInv(s, l), s.pkt.at = "data",
           NEW r \in Results, r # "OK"
    PROVE  EndPacket(s, r) \in States /\ PacketInv(EndPacket(s, r), l)
<1>1. HwInv(s.hw) /\ DataInv(s.hw, s.pkt, l)
  BY DEF PacketInv
<1>2. /\ s.hw.lost => s.hw.bus # "owner" /\ s.hw.doing = "none" /\ s.hw.flag # "SB"
      /\ ~s.hw.lost => s.hw.bus = "owner"
  BY <1>1 DEF HwInv, DataInv
<1>3. s.pkt.length \in Nat /\ s.pkt.left \in Nat
  BY DEF States, Pkt
<1>4. /\ Waits(s.pkt)
      /\ s.pkt.dir = "write" => Len(s.pkt.buf) <= s.pkt.length
      /\ s.pkt.dir = "read" => Len(s.pkt.buf) < s.pkt.length
  BY <1>1, <1>3 DEF DataInv
<1> QED
  BY <1>2, <1>4, EndPacketReturns

LEMMA DataResponseKeeps ==
    ASSUME NEW s \in States, NEW l \in Nat, PacketInv(s, l),
           s.pkt.at = "data", s.hw.flag # "none"
    PROVE  DataResponse(s) \in States /\ PacketInv(DataResponse(s), l)
<1>1. CASE s.pkt.dir = "write" /\ s.hw.nack
  BY <1>1, DataEnds DEF DataResponse, Results
<1>2. CASE ~(s.pkt.dir = "write" /\ s.hw.nack)
  <2>1. HwInv(s.hw) /\ DataInv(s.hw, s.pkt, l)
    BY DEF PacketInv
  <2>2. s.hw.flag \in {"MB", "SB"} /\ s.pkt.length \in Nat /\ s.pkt.left \in Nat
    BY DEF States, Hw, Pkt
  <2>3. Ready(s, l)
    BY <1>2, <2>1, <2>2 DEF HwInv, DataInv, Ready
  <2> QED
    BY <1>2, <2>3, LoopKeeps DEF DataResponse
<1> QED
  BY <1>1, <1>2

-----------------------------------------------------------------------------
(* The steps *)

LEMMA NoPacketType ==
    /\ NoPacket \in Pkt /\ NoPacket.at = "return" /\ NoPacket.result = "none"
    /\ NoPacket.length = 0 /\ NoPacket.buf = <<>>
<1>1. <<>> \in Seq(Nat)
  OBVIOUS
<1> QED
  BY <1>1 DEF NoPacket, Pkt, Results

LEMMA CallKeeps ==
    ASSUME IInv, NEW dir \in {"write", "read"}, NEW length \in Nat \ {0}, Call(dir, length)
    PROVE  IInv'
<1>1. /\ hw' = [hw EXCEPT !.flag = "none", !.lost = FALSE, !.doing = "address"]
      /\ pkt' = [NoPacket EXCEPT !.dir = dir, !.length = length, !.left = length,
                                 !.at = "address"]
      /\ log' = 0
  BY DEF Call, Becomes, WriteAddr, St
<1>2. hw \in Hw
  BY DEF IInv
<1>3. /\ hw' \in Hw /\ hw'.flag = "none" /\ ~hw'.lost /\ hw'.doing = "address"
  BY <1>1, <1>2 DEF Hw
<1>4. /\ pkt' \in Pkt /\ pkt'.dir = dir /\ pkt'.length = length /\ pkt'.left = length
      /\ pkt'.at = "address" /\ pkt'.buf = <<>> /\ pkt'.result = "none"
  BY <1>1, NoPacketType DEF Pkt
<1>5. HwInv(hw') /\ ReturnInv(hw', pkt', log') /\ DataInv(hw', pkt', log')
  BY <1>3, <1>4 DEF HwInv, ReturnInv, DataInv
<1>6. AddressInv(hw', pkt', log')
  BY <1>1, <1>3, <1>4 DEF AddressInv, Waits
<1> QED
  BY <1>1, <1>3, <1>4, <1>5, <1>6 DEF IInv, PacketInv, St

LEMMA BusAnsweredKeeps ==
    ASSUME IInv, BusAnswered
    PROVE  IInv'
<1>1. /\ St \in States /\ St.hw = hw /\ St.pkt = pkt /\ log \in Nat /\ PacketInv(St, log)
      /\ hw.flag # "none" /\ pkt.at \in {"address", "data"} /\ log' = log
  BY DEF IInv, St, States, Pkt, BusAnswered
<1>2. PICK s \in States : s = IF pkt.at = "address" THEN AddressResponse(St) ELSE DataResponse(St)
  BY <1>1, AddressResponseKeeps, DataResponseKeeps
<1>3. PacketInv(s, log)
  BY <1>1, <1>2, AddressResponseKeeps, DataResponseKeeps
<1>4. hw' = s.hw /\ pkt' = s.pkt /\ s.hw \in Hw /\ s.pkt \in Pkt
  BY <1>2 DEF BusAnswered, Becomes, States
<1> QED
  BY <1>1, <1>3, <1>4 DEF IInv, PacketInv, St

LEMMA TimedOutKeeps ==
    ASSUME IInv, TimedOut
    PROVE  IInv'
<1>1. /\ St \in States /\ St.hw = hw /\ St.pkt = pkt /\ log \in Nat /\ PacketInv(St, log)
      /\ hw.flag = "none" /\ pkt.at \in {"address", "data"} /\ log' = log
  BY DEF IInv, St, States, Pkt, TimedOut
<1>2. CASE pkt.at = "address"
  <2>1. hw' = Return(St, "TIMEOUT").hw /\ pkt' = Return(St, "TIMEOUT").pkt
    BY <1>2 DEF TimedOut, Becomes
  <2>2. Return(St, "TIMEOUT") \in States
    BY <1>1, ReturnSets DEF Results
  <2>3. /\ hw' = hw /\ pkt'.at = "return" /\ pkt'.result = "TIMEOUT"
        /\ pkt'.buf = pkt.buf /\ pkt'.length = pkt.length /\ pkt'.left = pkt.left
    BY <1>1, <2>1, ReturnSets DEF Results
  <2>4. HwInv(hw) /\ pkt.left = pkt.length /\ pkt.buf = <<>> /\ pkt.length \in Nat
    BY <1>1, <1>2 DEF PacketInv, AddressInv, States, Pkt
  <2>5. Len(pkt'.buf) <= pkt'.length
    BY <2>3, <2>4
  <2>6. ReturnInv(hw', pkt', log') /\ AddressInv(hw', pkt', log') /\ DataInv(hw', pkt', log')
    BY <2>3, <2>4, <2>5 DEF ReturnInv, AddressInv, DataInv
  <2>7. hw' \in Hw /\ pkt' \in Pkt
    BY <2>1, <2>2 DEF States
  <2> QED
    BY <1>1, <2>3, <2>4, <2>6, <2>7 DEF IInv, PacketInv, St
<1>3. CASE pkt.at = "data"
  <2>1. PICK s \in States : s = EndPacket(St, "TIMEOUT")
    BY <1>1, <1>3, DataEnds DEF Results
  <2>2. PacketInv(s, log)
    BY <1>1, <1>3, <2>1, DataEnds DEF Results
  <2>3. hw' = s.hw /\ pkt' = s.pkt /\ s.hw \in Hw /\ s.pkt \in Pkt
    BY <1>3, <2>1 DEF TimedOut, Becomes, States
  <2> QED
    BY <1>1, <2>2, <2>3 DEF IInv, PacketInv, St
<1> QED
  BY <1>1, <1>2, <1>3

(* What the bus does leaves the call alone.                                *)
LEMMA SlaveAnswersKeeps ==
    ASSUME IInv, SlaveAnswers
    PROVE  IInv'
<1>1. /\ hw \in Hw /\ pkt \in Pkt /\ log \in Nat /\ pkt' = pkt
      /\ hw.doing # "none"
      /\ HwInv(hw) /\ ReturnInv(hw, pkt, log) /\ AddressInv(hw, pkt, log) /\ DataInv(hw, pkt, log)
  BY DEF IInv, PacketInv, St, SlaveAnswers
<1>2. hw.flag = "none" /\ ~hw.lost
  BY <1>1 DEF HwInv
<1>3. /\ hw' \in Hw /\ log' \in Nat
      /\ hw'.flag \in {"MB", "SB"} /\ hw'.doing = "none" /\ hw'.bus = "owner"
      /\ hw'.lost = hw.lost
      /\ \/ pkt.dir = "read" /\ hw'.flag = "SB" /\ log' = log + 1 /\ hw'.data = log + 1
         \/ /\ hw'.flag = "MB" /\ hw'.nack /\ log' = log
            /\ hw.doing = "address" \/ pkt.dir = "write"
         \/ /\ pkt.dir = "write" /\ hw'.flag = "MB" /\ ~hw'.nack
            /\ log' = IF hw.doing = "data" THEN log + 1 ELSE log
  <2>1. CASE pkt.dir = "read" /\ hw' = SlaveSends /\ log' = log + 1
    <3>1. PICK m \in Nat : m = log + 1
      BY <1>1
    <3>2. hw' = [hw EXCEPT !.flag = "SB", !.doing = "none", !.bus = "owner",
                           !.data = m, !.nack = FALSE]
      BY <2>1, <3>1 DEF SlaveSends
    <3>3. /\ hw' \in Hw /\ hw'.flag = "SB" /\ hw'.doing = "none" /\ hw'.bus = "owner"
          /\ hw'.lost = hw.lost /\ hw'.data = m
      BY <1>1, <3>2 DEF Hw
    <3> QED
      BY <2>1, <3>1, <3>3
  <2>2. CASE /\ hw.doing = "address" \/ pkt.dir = "write"
             /\ hw' = [hw EXCEPT !.flag = "MB", !.nack = TRUE, !.doing = "none", !.bus = "owner"]
             /\ log' = log
    BY <1>1, <2>2 DEF Hw
  <2>3. CASE /\ pkt.dir = "write"
             /\ hw' = [hw EXCEPT !.flag = "MB", !.nack = FALSE, !.doing = "none", !.bus = "owner"]
             /\ log' = IF hw.doing = "data" THEN log + 1 ELSE log
    <3>1. log' \in Nat
      BY <1>1, <2>3
    <3> QED
      BY <1>1, <2>3, <3>1 DEF Hw
  <2> QED
    BY <2>1, <2>2, <2>3 DEF SlaveAnswers
<1>4. HwInv(hw')
  BY <1>2, <1>3 DEF HwInv
<1>5. ReturnInv(hw', pkt', log')
  BY <1>1, <1>3 DEF ReturnInv
<1>6. AddressInv(hw', pkt', log')
  BY <1>1, <1>2, <1>3 DEF AddressInv
<1>7. DataInv(hw', pkt', log')
  <2> SUFFICES ASSUME pkt.at = "data"
               PROVE  DataInv(hw', pkt', log')
    BY <1>1 DEF DataInv
  <2>1. hw.doing = "data"
    BY <1>1, <1>2 DEF DataInv
  <2>2. pkt.dir = "write" => log + 1 = pkt.length - pkt.left
    BY <1>1, <1>2 DEF DataInv
  <2>3. pkt.dir = "read" => log = pkt.length - pkt.left
    BY <1>1, <1>2 DEF DataInv
  <2> QED
    BY <1>1, <1>2, <1>3, <2>1, <2>2, <2>3 DEF DataInv
<1> QED
  BY <1>1, <1>3, <1>4, <1>5, <1>6, <1>7 DEF IInv, PacketInv, St

LEMMA OthersKeep ==
    ASSUME IInv, ArbitrationLost \/ OtherMaster
    PROVE  IInv'
<1>1. /\ hw \in Hw /\ pkt \in Pkt /\ log \in Nat /\ pkt' = pkt /\ log' = log
      /\ HwInv(hw) /\ ReturnInv(hw, pkt, log) /\ AddressInv(hw, pkt, log) /\ DataInv(hw, pkt, log)
  BY DEF IInv, PacketInv, St, ArbitrationLost, OtherMaster
<1>2. CASE ArbitrationLost
  <2>1. /\ hw' \in Hw /\ hw'.flag = "MB" /\ hw'.lost /\ hw'.doing = "none" /\ hw'.bus = "busy"
        /\ hw.doing # "none"
    BY <1>1, <1>2 DEF ArbitrationLost, Hw
  <2>2. HwInv(hw') /\ ReturnInv(hw', pkt', log')
    BY <1>1, <2>1 DEF HwInv, ReturnInv
  <2>3. AddressInv(hw', pkt', log') /\ DataInv(hw', pkt', log')
    BY <1>1, <2>1 DEF HwInv, AddressInv, DataInv
  <2> QED
    BY <1>1, <2>1, <2>2, <2>3 DEF IInv, PacketInv, St
<1>3. CASE OtherMaster
  <2>1. /\ hw' \in Hw /\ hw'.bus # "owner" /\ hw.bus # "owner"
        /\ hw.bus = "idle" => hw.doing = "none"
        /\ hw'.flag = hw.flag /\ hw'.lost = hw.lost /\ hw'.doing = hw.doing
        /\ hw'.nack = hw.nack /\ hw'.data = hw.data
    BY <1>1, <1>3 DEF OtherMaster, Hw
  <2>2. HwInv(hw') /\ ReturnInv(hw', pkt', log')
    BY <1>1, <2>1 DEF HwInv, ReturnInv
  <2>3. AddressInv(hw', pkt', log') /\ DataInv(hw', pkt', log')
    BY <1>1, <2>1 DEF AddressInv, DataInv
  <2> QED
    BY <1>1, <2>1, <2>2, <2>3 DEF IInv, PacketInv, St
<1> QED
  BY <1>2, <1>3

-----------------------------------------------------------------------------
(* The theorems *)

(* The inductive invariant holds in every reachable state, for packets of  *)
(* any length.                                                             *)
THEOREM Invariance == Spec => []IInv
<1>1. Init => IInv
  <2> SUFFICES ASSUME Init
               PROVE  IInv
    OBVIOUS
  <2>1. /\ hw \in Hw /\ hw.flag = "none" /\ hw.doing = "none" /\ ~hw.lost /\ hw.bus = "idle"
    BY DEF Init, HwReset, Hw
  <2>2. /\ pkt \in Pkt /\ pkt.at = "return" /\ pkt.result = "none"
        /\ pkt.length = 0 /\ pkt.buf = <<>>
    BY NoPacketType DEF Init
  <2> QED
    BY <2>1, <2>2 DEF Init, IInv, PacketInv, HwInv, ReturnInv, AddressInv, DataInv, St
<1>2. IInv /\ [Next]_vars => IInv'
  <2> SUFFICES ASSUME IInv, [Next]_vars
               PROVE  IInv'
    OBVIOUS
  <2>1. ASSUME NEW dir \in {"write", "read"}, NEW length \in 1 .. MaxLength, Call(dir, length)
        PROVE  IInv'
    BY <2>1, CallKeeps, I2cAssumption
  <2>2. CASE UNCHANGED vars
    BY <2>2 DEF vars, IInv, St
  <2> QED
    BY <2>1, <2>2, BusAnsweredKeeps, TimedOutKeeps, SlaveAnswersKeeps, OthersKeep DEF Next
<1> QED
  BY <1>1, <1>2, PTL DEF Spec

(* When a call returns STATUS_OK, the slave took every byte of the write   *)
(* or the buffer has the slave's bytes in their order; if arbitration was  *)
(* lost, that is so but for the last byte.  For packets of any length,     *)
(* whatever the slave does and whenever other masters take the bus.        *)
THEOREM SuccessTrue == Spec => []OkMeansTransferred
<1>1. IInv => OkMeansTransferred
  <2> SUFFICES ASSUME IInv, pkt.result = "OK"
               PROVE  IF hw.lost THEN AllButLast ELSE Transferred
    BY DEF OkMeansTransferred
  <2>1. /\ pkt \in Pkt /\ log \in Nat /\ ReturnInv(hw, pkt, log)
        /\ AddressInv(hw, pkt, log) /\ DataInv(hw, pkt, log)
    BY DEF IInv, PacketInv, St
  <2>2. pkt.at = "return"
    BY <2>1 DEF AddressInv, DataInv, Waits, Pkt
  <2>3. IF hw.lost THEN Nearly(pkt, log) ELSE Complete(pkt, log)
    BY <2>1, <2>2 DEF ReturnInv
  <2>4. CASE hw.lost
    <3>1. pkt.length \in Nat
      BY <2>1 DEF Pkt
    <3> QED
      BY <2>1, <2>3, <2>4, <3>1 DEF Nearly, AllButLast
  <2>5. CASE ~hw.lost /\ pkt.dir = "write"
    BY <2>3, <2>5 DEF Complete, Transferred
  <2>6. CASE ~hw.lost /\ pkt.dir # "write"
    <3>1. Filled(pkt, pkt.length) /\ pkt.buf \in Seq(Nat) /\ pkt.length \in Nat
      BY <2>1, <2>3, <2>6 DEF Complete, Pkt
    <3>2. pkt.buf = [k \in 1 .. pkt.length |-> k]
      BY <3>1 DEF Filled
    <3> QED
      BY <2>6, <3>2 DEF Transferred
  <2> QED
    BY <2>4, <2>5, <2>6
<1> QED
  BY <1>1, Invariance, PTL

(* No read stores a byte behind its packet, and a call that returned has   *)
(* given the bus back, but for an address the slave did not answer.        *)
THEOREM Released == Spec => []BusReleased
<1>1. IInv => BusReleased
  <2> SUFFICES ASSUME IInv
               PROVE  BusReleased
    OBVIOUS
  <2>1. /\ pkt \in Pkt /\ ReturnInv(hw, pkt, log)
        /\ AddressInv(hw, pkt, log) /\ DataInv(hw, pkt, log)
    BY DEF IInv, PacketInv, St
  <2>2. Len(pkt.buf) <= pkt.length
    <3>1. pkt.length \in Nat /\ pkt.left \in Nat /\ Len(pkt.buf) \in Nat
      BY <2>1 DEF Pkt
    <3>2. CASE pkt.at = "return"
      BY <2>1, <3>2 DEF ReturnInv
    <3>3. CASE pkt.at = "address"
      BY <2>1, <3>1, <3>3 DEF AddressInv
    <3>4. CASE pkt.at = "data"
      BY <2>1, <3>1, <3>4 DEF DataInv, Waits
    <3> QED
      BY <2>1, <3>2, <3>3, <3>4 DEF Pkt
  <2> QED
    BY <2>1, <2>2 DEF BusReleased, ReturnInv
<1> QED
  BY <1>1, Invariance, PTL

=============================================================================
