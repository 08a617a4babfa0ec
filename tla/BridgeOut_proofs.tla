-------------------------- MODULE BridgeOut_proofs ---------------------------
(* Theorems about BridgeOut for every buffer size, packet size and bound.  *)
EXTENDS BridgeOut, TLAPS

FwType == [cdc : CdcType, job : JobType, usart : UsartType(Byte),
           tx_data : Byte, hung : BOOLEAN]

LEMMA Sizes == /\ RxBuffers \in Nat /\ RxBuffers > 0
               /\ EpSize \in Nat /\ EpSize > 0
               /\ MaxBytes \in Nat /\ MaxControl \in Nat
  BY SizesAssumption

LEMMA ReadByteType ==
    ASSUME NEW c \in CdcType PROVE ReadByte(c) \in Byte
  BY Sizes DEF ReadByte, CdcType, Byte, Buffer

LEMMA ConsumeType ==
    ASSUME NEW s \in FwType PROVE Consume(s) \in FwType
  <1>1. ASSUME s.cdc.pos < s.cdc.nb[s.cdc.sel]
        PROVE  [s EXCEPT !.cdc.pos = @ + 1] \in FwType
    <2>1. s.cdc.pos + 1 \in 0 .. RxBuffers
      BY <1>1, Sizes DEF FwType, CdcType
    <2>. QED BY <2>1 DEF FwType, CdcType
  <1>2. [s EXCEPT !.hung = s.cdc.running] \in FwType
    BY DEF FwType, CdcType
  <1>. QED BY <1>1, <1>2 DEF Consume

LEMMA WriteBufferJobType ==
    ASSUME NEW u \in UsartType(Byte) PROVE WriteBufferJob(u) \in UsartType(Byte)
  BY DEF WriteBufferJob, UsartType

LEMMA SendByteType ==
    ASSUME NEW s \in FwType, NEW x \in Byte PROVE SendByte(s, x) \in FwType
  BY WriteBufferJobType DEF SendByte, FwType

LEMMA EpRunOutType ==
    ASSUME NEW s \in FwType, NEW b \in Buffer PROVE EpRunOut(s, b) \in FwType
  <1>1. [busy |-> TRUE, buf |-> b, count |-> 0, armed |-> TRUE,
         trcpt |-> FALSE] \in JobType
    BY Sizes DEF JobType
  <1>. QED BY <1>1 DEF EpRunOut, FwType

LEMMA RxNotifyType ==
    ASSUME NEW s \in FwType PROVE RxNotify(s) \in FwType
  <1>1. Consume(s) \in FwType BY ConsumeType
  <1>2. [Consume(s) EXCEPT !.usart = EnableCallback(@)] \in FwType
    BY <1>1 DEF FwType, UsartType, EnableCallback
  <1>3. ReadByte(s.cdc) \in Byte BY ReadByteType DEF FwType
  <1>. QED BY <1>2, <1>3, SendByteType DEF RxNotify

LEMMA RxStartType ==
    ASSUME NEW s \in FwType PROVE RxStart(s) \in FwType
  <1> DEFINE old == s.cdc.sel
             swapped == [s EXCEPT !.cdc.pos = 0, !.cdc.sel = Other(old),
                                  !.cdc.ongoing = TRUE]
  <1>1. old \in Buffer BY DEF FwType, CdcType
  <1>2. swapped \in FwType
    <2>1. Other(old) \in Buffer /\ 0 \in 0 .. RxBuffers
      BY <1>1, Sizes DEF Buffer, Other
    <2>. QED BY <2>1 DEF FwType, CdcType
  <1>3. RxNotify(swapped) \in FwType BY <1>2, RxNotifyType
  <1>. QED BY <1>1, <1>2, <1>3, EpRunOutType DEF RxStart

-----------------------------------------------------------------------------
(* The order of bytes.  Taken counts what getc has read; the lemmas follow *)
(* it through the nested calls.                                            *)

(* What a handler may assume of the firmware state at any call.            *)
CallInv(s, top, w) ==
    /\ s \in FwType
    /\ ~s.hung
    /\ SwapInv(s)
    /\ QueueInv(s, top)
    /\ LineInv(s, top, w)

LEMMA Buffers ==
    ASSUME NEW s \in FwType
    PROVE  /\ s.cdc.sel \in {0, 1}
           /\ Other(s.cdc.sel) \in {0, 1}
           /\ Other(s.cdc.sel) # s.cdc.sel
           /\ Other(Other(s.cdc.sel)) = s.cdc.sel
           /\ s.cdc.pos \in Nat
           /\ s.cdc.nb[s.cdc.sel] \in 0 .. RxBuffers
           /\ s.cdc.nb[Other(s.cdc.sel)] \in 0 .. RxBuffers
           /\ s.job.count \in 0 .. RxBuffers
           /\ Fill(s) \in 0 .. RxBuffers
           /\ \A top \in Int : Taken(s, top) \in Int
  <1>1. /\ s.cdc.sel \in {0, 1}
        /\ s.cdc.pos \in Nat
        /\ s.cdc.nb[0] \in 0 .. RxBuffers /\ s.cdc.nb[1] \in 0 .. RxBuffers
        /\ s.job.count \in 0 .. RxBuffers
    BY Sizes DEF FwType, CdcType, JobType, Buffer
  <1>2. /\ Other(s.cdc.sel) \in {0, 1}
        /\ Other(s.cdc.sel) # s.cdc.sel
        /\ Other(Other(s.cdc.sel)) = s.cdc.sel
    BY <1>1 DEF Other
  <1>3. /\ s.cdc.nb[s.cdc.sel] \in 0 .. RxBuffers
        /\ s.cdc.nb[Other(s.cdc.sel)] \in 0 .. RxBuffers
    BY <1>1, <1>2
  <1>4. Fill(s) \in 0 .. RxBuffers BY <1>1, <1>3 DEF Fill
  <1>5. \A top \in Int : Taken(s, top) \in Int
    BY <1>1, <1>3, <1>4, Sizes DEF Taken
  <1>. QED BY <1>1, <1>2, <1>3, <1>4, <1>5

(* The byte getc reads is the one after all bytes taken before.            *)
LEMMA ConsumeNext ==
    ASSUME NEW top \in Nat, NEW w \in Seq(Byte), NEW s, CallInv(s, top, w),
           s.cdc.pos < s.cdc.nb[s.cdc.sel]
    PROVE  /\ CallInv(Consume(s), top, w)
           /\ Taken(Consume(s), top) = Taken(s, top) + 1
           /\ ReadByte(s.cdc) = Taken(s, top) + 1
           /\ Consume(s).usart = s.usart
           /\ Consume(s).job = s.job
           /\ Consume(s).tx_data = s.tx_data
           /\ Consume(s).cdc.running = s.cdc.running
  <1> DEFINE r == Consume(s)
  <1>0. s \in FwType BY DEF CallInv
  <1>1. r \in FwType BY <1>0, ConsumeType
  <1>2. r = [s EXCEPT !.cdc.pos = s.cdc.pos + 1] BY DEF Consume
  <1>3. /\ r.cdc.pos = s.cdc.pos + 1
        /\ r.cdc.sel = s.cdc.sel
        /\ r.cdc.nb = s.cdc.nb
        /\ r.cdc.rx_buf = s.cdc.rx_buf
        /\ r.cdc.ongoing = s.cdc.ongoing
        /\ r.cdc.running = s.cdc.running
        /\ r.job = s.job /\ r.usart = s.usart /\ r.tx_data = s.tx_data
        /\ r.hung = s.hung
    BY <1>0, <1>2 DEF FwType, CdcType
  <1>4. Fill(r) = Fill(s) BY <1>3 DEF Fill
  <1>b. /\ s.cdc.nb[s.cdc.sel] \in Nat /\ s.cdc.pos \in Nat
        /\ Fill(s) \in Nat /\ Taken(s, top) \in Int
    <2>1. /\ s.cdc.pos \in Nat
          /\ s.cdc.nb[s.cdc.sel] \in 0 .. RxBuffers
          /\ Fill(s) \in 0 .. RxBuffers
      BY <1>0, Buffers
    <2>2. top \in Int OBVIOUS
    <2>3. Taken(s, top) \in Int BY <1>0, <2>2, Buffers
    <2>. QED BY <2>1, <2>3, Sizes
  <1>. HIDE DEF r
  <1>5. Taken(r, top) = Taken(s, top) + 1
    <2>1. PICK f \in Nat, n \in Nat, p \in Nat :
            /\ f = Fill(s) /\ n = s.cdc.nb[s.cdc.sel] /\ p = s.cdc.pos
      BY <1>b
    <2>2. Taken(r, top) = top - f - (n - (p + 1))
      BY <2>1, <1>3, <1>4 DEF Taken
    <2>3. Taken(s, top) = top - f - (n - p) BY <2>1 DEF Taken
    <2>4. top - f - (n - (p + 1)) = top - f - (n - p) + 1 OBVIOUS
    <2>. QED BY <2>2, <2>3, <2>4
  <1>6. ReadByte(s.cdc) = Taken(s, top) + 1
    <2>1. s.cdc.pos \in s.cdc.pos .. s.cdc.nb[s.cdc.sel] - 1 BY <1>b
    <2>2. s.cdc.rx_buf[s.cdc.sel][s.cdc.pos]
            = top - Fill(s) - s.cdc.nb[s.cdc.sel] + 1 + s.cdc.pos
      BY <2>1 DEF CallInv, QueueInv
    <2>. QED BY <2>2, <1>b, SMTT(30) DEF Taken, ReadByte
  <1>7. SwapInv(r) BY <1>b, <1>3 DEF CallInv, SwapInv
  <1>8. QueueInv(r, top)
    <2>1. \A i \in r.cdc.pos .. r.cdc.nb[r.cdc.sel] - 1 :
            i \in s.cdc.pos .. s.cdc.nb[s.cdc.sel] - 1
      BY <1>b, <1>3
    <2>2. Taken(r, top) >= 0 BY <1>b, <1>5 DEF CallInv, QueueInv
    <2>. QED BY <2>1, <2>2, <1>3, <1>4 DEF CallInv, QueueInv
  <1>10. LineInv(r, top, w)
    <2>1. \A x \in 1 .. Taken(s, top) : x \in 1 .. Taken(r, top)
      BY <1>b, <1>5
    <2>2. \A i \in 1 .. Len(w) : w[i] \in Int
      BY Sizes DEF Byte
    <2>3. \A i \in 1 .. Len(w) : w[i] <= Taken(r, top)
      BY <2>2, <1>b, <1>5 DEF CallInv, LineInv
    <2>. QED BY <2>1, <2>3, <1>3 DEF CallInv, LineInv
  <1>11. ~r.hung BY <1>3 DEF CallInv
  <1>. QED BY <1>1, <1>3, <1>5, <1>6, <1>7, <1>8, <1>10, <1>11
           DEF CallInv, r

LEMMA UsartCalls ==
    ASSUME NEW u \in UsartType(Byte)
    PROVE  /\ WriteBufferJob(u) \in UsartType(Byte)
           /\ WriteBufferJob(u).line = u.line
           /\ WriteBufferJob(u).remaining = 1
           /\ WriteBufferJob(u).enabled = u.enabled
           /\ EnableCallback(u) \in UsartType(Byte)
           /\ EnableCallback(u).line = u.line
           /\ EnableCallback(u).remaining = u.remaining
           /\ EnableCallback(u).enabled = u.enabled
           /\ DisableCallback(u) \in UsartType(Byte)
           /\ DisableCallback(u).line = u.line
           /\ DisableCallback(u).remaining = u.remaining
           /\ DisableCallback(u).enabled = u.enabled
  <1>1. WriteBufferJob(u) \in UsartType(Byte) BY WriteBufferJobType
  <1>2. WriteBufferJob(u).line = u.line BY DEF UsartType, WriteBufferJob
  <1>3. WriteBufferJob(u).remaining = 1
    <2>1. u.remaining \in {0, 1} BY DEF UsartType
    <2>2. CASE u.remaining = 0
      <3>1. WriteBufferJob(u) = [u EXCEPT !.remaining = 1, !.dre_en = TRUE]
        BY <2>2 DEF WriteBufferJob
      <3>. QED BY <3>1 DEF UsartType
    <2>3. CASE u.remaining = 1
      BY <2>3 DEF WriteBufferJob
    <2>. QED BY <2>1, <2>2, <2>3
  <1>4. WriteBufferJob(u).enabled = u.enabled
    BY DEF UsartType, WriteBufferJob
  <1>5. /\ EnableCallback(u) \in UsartType(Byte)
        /\ EnableCallback(u).line = u.line
        /\ EnableCallback(u).remaining = u.remaining
        /\ EnableCallback(u).enabled = u.enabled
    BY DEF UsartType, EnableCallback
  <1>6. /\ DisableCallback(u) \in UsartType(Byte)
        /\ DisableCallback(u).line = u.line
        /\ DisableCallback(u).remaining = u.remaining
        /\ DisableCallback(u).enabled = u.enabled
    BY DEF UsartType, DisableCallback
  <1>. QED BY <1>1, <1>2, <1>3, <1>4, <1>5, <1>6

(* A byte newer than all before it may replace the pending one.            *)
LEMMA SendByteOrder ==
    ASSUME NEW top \in Nat, NEW w \in Seq(Byte), NEW s, CallInv(s, top, w),
           NEW x \in Byte, x \in 1 .. Taken(s, top),
           \A i \in 1 .. Len(w) : w[i] < x,
           \A i \in 1 .. Len(s.usart.line) : s.usart.line[i] < x
    PROVE  /\ CallInv(SendByte(s, x), top, w)
           /\ PendingInv(SendByte(s, x), top, w)
           /\ SendByte(s, x).cdc = s.cdc
           /\ SendByte(s, x).job = s.job
  <1> DEFINE r == SendByte(s, x)
  <1>0. s \in FwType /\ s.usart \in UsartType(Byte) BY DEF CallInv, FwType
  <1>1. r \in FwType BY <1>0, SendByteType
  <1>2. /\ r.cdc = s.cdc /\ r.job = s.job /\ r.hung = s.hung
        /\ r.tx_data = x
        /\ r.usart = WriteBufferJob(s.usart)
    BY <1>0 DEF FwType, SendByte
  <1>3. r.usart.line = s.usart.line BY <1>0, <1>2, UsartCalls
  <1>4. Fill(r) = Fill(s) /\ Taken(r, top) = Taken(s, top)
    BY <1>2 DEF Fill, Taken
  <1>5. SwapInv(r) BY <1>2 DEF CallInv, SwapInv
  <1>6. QueueInv(r, top) BY <1>2, <1>4 DEF CallInv, QueueInv
  <1>7. LineInv(r, top, w) BY <1>3, <1>4 DEF CallInv, LineInv
  <1>8. PendingInv(r, top, w) BY <1>2, <1>3, <1>4 DEF PendingInv
  <1>. QED BY <1>1, <1>2, <1>5, <1>6, <1>7, <1>8 DEF CallInv

(* What a swap leaves behind, field by field.                              *)
LEMMA RxStartSwap ==
    ASSUME NEW s \in FwType, ~RxStartRefused(s.cdc), ~s.job.busy
    PROVE  LET r == RxStart(s)
               o == Other(s.cdc.sel)
           IN  /\ r.cdc.sel = o /\ r.cdc.ongoing = TRUE
               /\ r.cdc.nb = s.cdc.nb /\ r.cdc.rx_buf = s.cdc.rx_buf
               /\ r.cdc.running = s.cdc.running
               /\ r.job = [busy |-> TRUE, buf |-> s.cdc.sel, count |-> 0,
                           armed |-> TRUE, trcpt |-> FALSE]
               /\ r.usart.line = s.usart.line
               /\ r.usart.enabled = s.usart.enabled
               /\ r.hung = s.hung
               /\ s.cdc.nb[o] = 0 => /\ r.cdc.pos = 0
                                     /\ r.usart = s.usart
                                     /\ r.tx_data = s.tx_data
               /\ s.cdc.nb[o] # 0 => /\ r.cdc.pos = 1
                                     /\ r.usart = WriteBufferJob(
                                                   EnableCallback(s.usart))
                                     /\ r.usart.remaining = 1
                                     /\ r.tx_data = s.cdc.rx_buf[o][0]
  <1> DEFINE o  == Other(s.cdc.sel)
             sw == [s EXCEPT !.cdc.pos = 0, !.cdc.sel = o,
                             !.cdc.ongoing = TRUE]
             cs == [sw EXCEPT !.cdc.pos = 1]
             ec == [cs EXCEPT !.usart = EnableCallback(@)]
             nt == RxNotify(sw)
             r  == RxStart(s)
  <1>1. /\ sw.cdc.pos = 0 /\ sw.cdc.sel = o /\ sw.cdc.ongoing = TRUE
        /\ sw.cdc.nb = s.cdc.nb /\ sw.cdc.rx_buf = s.cdc.rx_buf
        /\ sw.cdc.running = s.cdc.running
        /\ sw.job = s.job /\ sw.usart = s.usart /\ sw.tx_data = s.tx_data
        /\ sw.hung = s.hung
    BY DEF FwType, CdcType
  <1>2. s.cdc.nb[o] \in Nat
    BY Buffers, Sizes
  <1>3. CASE s.cdc.nb[o] = 0
    <2>1. ~RxReady(sw.cdc) BY <1>1, <1>3 DEF RxReady
    <2>2. r = EpRunOut(sw, s.cdc.sel) BY <2>1 DEF RxStart
    <2>3. r = [sw EXCEPT !.job = [busy |-> TRUE, buf |-> s.cdc.sel,
                 count |-> 0, armed |-> TRUE, trcpt |-> FALSE]]
      BY <2>2, <1>1 DEF EpRunOut
    <2>4. /\ r.cdc = sw.cdc /\ r.usart = sw.usart /\ r.hung = sw.hung
          /\ r.tx_data = sw.tx_data
          /\ r.job = [busy |-> TRUE, buf |-> s.cdc.sel, count |-> 0,
                      armed |-> TRUE, trcpt |-> FALSE]
      BY <2>3 DEF FwType
    <2>. QED BY <2>4, <1>1, <1>3
  <1>4. CASE s.cdc.nb[o] # 0
    <2>1. RxReady(sw.cdc) BY <1>1, <1>4 DEF RxReady
    <2>2. r = EpRunOut(nt, s.cdc.sel) BY <2>1 DEF RxStart
    <2>3. Consume(sw) = cs
      <3>1. Consume(sw) = [sw EXCEPT !.cdc.pos = @ + 1]
        BY <1>1, <1>2, <1>4 DEF Consume
      <3>2. sw.cdc.pos + 1 = 1 BY <1>1
      <3>. QED BY <3>1, <3>2
    <2>4. ReadByte(sw.cdc) = s.cdc.rx_buf[o][0]
      BY <1>1, <1>2, <1>4 DEF ReadByte
    <2>5. nt = SendByte(ec, s.cdc.rx_buf[o][0])
      BY <2>3, <2>4 DEF RxNotify
    <2>6. /\ ec.cdc.pos = 1 /\ ec.cdc.sel = o /\ ec.cdc.ongoing = TRUE
          /\ ec.cdc.nb = s.cdc.nb /\ ec.cdc.rx_buf = s.cdc.rx_buf
          /\ ec.cdc.running = s.cdc.running
          /\ ec.job = s.job /\ ec.usart = EnableCallback(s.usart)
          /\ ec.hung = s.hung
      BY DEF FwType, CdcType
    <2>7. /\ nt.cdc = ec.cdc /\ nt.job = s.job
          /\ nt.tx_data = s.cdc.rx_buf[o][0] /\ nt.hung = s.hung
          /\ nt.usart = WriteBufferJob(EnableCallback(s.usart))
      <3>1. PICK e : e = ec OBVIOUS
      <3>2. /\ DOMAIN e = DOMAIN s /\ e.job = s.job /\ e.hung = s.hung
            /\ e.usart = EnableCallback(s.usart)
        BY <2>6, <3>1
      <3>3. DOMAIN s = {"cdc", "job", "usart", "tx_data", "hung"}
        BY DEF FwType
      <3>4. nt = [e EXCEPT !.tx_data = s.cdc.rx_buf[o][0],
                           !.usart = WriteBufferJob(@)]
        BY <2>5, <3>1 DEF SendByte
      <3>. QED BY <3>1, <3>2, <3>3, <3>4
    <2>8. s.usart \in UsartType(Byte) BY DEF FwType
    <2>9. /\ nt.usart.line = s.usart.line /\ nt.usart.remaining = 1
          /\ nt.usart.enabled = s.usart.enabled
      BY <2>7, <2>8, UsartCalls
    <2>10. r = [nt EXCEPT !.job = [busy |-> TRUE, buf |-> s.cdc.sel,
                 count |-> 0, armed |-> TRUE, trcpt |-> FALSE]]
      BY <2>2, <2>7 DEF EpRunOut
    <2>11. nt \in FwType
      <3>1. sw \in FwType
        <4>1. o \in Buffer /\ 0 \in 0 .. RxBuffers
          BY Buffers, Sizes DEF Buffer
        <4>. QED BY <4>1 DEF FwType, CdcType
      <3>. QED BY <3>1, RxNotifyType
    <2>12. /\ r.cdc = nt.cdc /\ r.usart = nt.usart /\ r.hung = nt.hung
           /\ r.tx_data = nt.tx_data
           /\ r.job = [busy |-> TRUE, buf |-> s.cdc.sel, count |-> 0,
                       armed |-> TRUE, trcpt |-> FALSE]
      BY <2>10, <2>11 DEF FwType
    <2>. QED BY <2>6, <2>7, <2>9, <2>12, <1>4
  <1>. QED BY <1>3, <1>4

(* A call of udi_cdc_rx_start keeps the order: the byte a swap notifies is *)
(* newer than all that was taken.                                          *)
LEMMA RxStartOrder ==
    ASSUME NEW top \in Nat, NEW w \in Seq(Byte), NEW s, CallInv(s, top, w)
    PROVE  LET r == RxStart(s)
           IN  /\ CallInv(r, top, w)
               /\ Taken(r, top) >= Taken(s, top)
               /\ r.usart.line = s.usart.line
               /\ r.usart.enabled = s.usart.enabled
               /\ r.cdc.running = s.cdc.running
               /\ ~r.cdc.ongoing => r.cdc.pos < r.cdc.nb[r.cdc.sel]
               /\ r.job = s.job \/ r.job = [busy |-> TRUE, buf |-> s.cdc.sel,
                        count |-> 0, armed |-> TRUE, trcpt |-> FALSE]
               /\ PendingInv(s, top, w) => PendingInv(r, top, w)
  <1> DEFINE r == RxStart(s)
             o == Other(s.cdc.sel)
  <1>0. s \in FwType BY DEF CallInv
  <1>b. /\ s.cdc.sel \in {0, 1} /\ o \in {0, 1} /\ o # s.cdc.sel
        /\ Other(o) = s.cdc.sel
        /\ s.cdc.pos \in Nat /\ s.cdc.nb[s.cdc.sel] \in Nat
        /\ s.cdc.nb[o] \in Nat /\ Fill(s) \in Nat /\ Taken(s, top) \in Int
    <2>1. /\ s.cdc.sel \in {0, 1} /\ o \in {0, 1} /\ o # s.cdc.sel
          /\ Other(o) = s.cdc.sel
          /\ s.cdc.pos \in Nat
          /\ s.cdc.nb[s.cdc.sel] \in 0 .. RxBuffers
          /\ s.cdc.nb[o] \in 0 .. RxBuffers
          /\ Fill(s) \in 0 .. RxBuffers
      BY <1>0, Buffers
    <2>2. top \in Int OBVIOUS
    <2>3. Taken(s, top) \in Int BY <1>0, <2>2, Buffers
    <2>. QED BY <2>1, <2>3, Sizes
  <1>1. CASE RxStartRefused(s.cdc)
    <2>1. r = s BY <1>1 DEF RxStart
    <2>2. ~s.cdc.ongoing => s.cdc.pos < s.cdc.nb[s.cdc.sel]
      BY <1>1 DEF RxStartRefused
    <2>. QED BY <2>1, <2>2, <1>b
  <1>2. CASE ~RxStartRefused(s.cdc)
    <2>1. ~s.cdc.ongoing /\ ~(s.cdc.pos < s.cdc.nb[s.cdc.sel])
      BY <1>2 DEF RxStartRefused
    <2>2. /\ s.cdc.pos = s.cdc.nb[s.cdc.sel] /\ s.cdc.nb[o] > 0
          /\ ~s.job.busy
      BY <2>1, <1>b DEF CallInv, SwapInv
    <2>3. /\ r.cdc.sel = o /\ r.cdc.ongoing = TRUE
          /\ r.cdc.nb = s.cdc.nb /\ r.cdc.rx_buf = s.cdc.rx_buf
          /\ r.cdc.running = s.cdc.running
          /\ r.job = [busy |-> TRUE, buf |-> s.cdc.sel, count |-> 0,
                      armed |-> TRUE, trcpt |-> FALSE]
          /\ r.usart.line = s.usart.line
          /\ r.usart.enabled = s.usart.enabled
          /\ r.hung = s.hung
          /\ r.cdc.pos = 1
          /\ r.tx_data = s.cdc.rx_buf[o][0]
      <3>1. s.cdc.nb[o] # 0 BY <2>2, <1>b
      <3>. QED BY <3>1, <2>2, <1>0, <1>2, RxStartSwap
    <2>4. Fill(r) = 0 BY <2>3 DEF Fill
    <2>5. Fill(s) = s.cdc.nb[o] BY <2>1 DEF Fill
    <2>6. Taken(s, top) = top - s.cdc.nb[o]
      BY <2>2, <2>5, <1>b DEF Taken
    <2>7. Taken(r, top) = top - (s.cdc.nb[o] - 1)
      BY <2>3, <2>4, <1>b DEF Taken
    <2>8. Taken(r, top) = Taken(s, top) + 1 BY <2>6, <2>7, <1>b
    <2>9. \A i \in 0 .. s.cdc.nb[o] - 1 :
             s.cdc.rx_buf[o][i] = top - s.cdc.nb[o] + 1 + i
      BY <2>5 DEF CallInv, QueueInv
    <2>10. r.tx_data = Taken(s, top) + 1
      <3>1. 0 \in 0 .. s.cdc.nb[o] - 1 BY <2>2, <1>b
      <3>2. s.cdc.rx_buf[o][0] = top - s.cdc.nb[o] + 1 + 0 BY <3>1, <2>9
      <3>. QED BY <3>2, <2>3, <2>6, <1>b
    <2>11. Taken(s, top) >= 0 BY DEF CallInv, QueueInv
    <2>12. \A i \in 1 .. Len(w) : w[i] \in Int /\ w[i] <= Taken(s, top)
      <3>1. \A i \in 1 .. Len(w) : w[i] \in Int BY Sizes DEF Byte
      <3>. QED BY <3>1 DEF CallInv, LineInv
    <2>13. \A i \in 1 .. Len(s.usart.line) :
              s.usart.line[i] \in 1 .. Taken(s, top)
      BY DEF CallInv, LineInv
    <2>14. r \in FwType BY <1>0, RxStartType
    <2>15. SwapInv(r)
      <3>1. r.cdc.pos <= r.cdc.nb[r.cdc.sel] BY <2>2, <2>3, <1>b
      <3>2. r.job.busy /\ r.job.buf = Other(r.cdc.sel) BY <2>3, <1>b
      <3>. QED BY <3>1, <3>2, <2>3 DEF SwapInv
    <2>16. QueueInv(r, top)
      <3>1. Taken(r, top) >= 0 BY <2>8, <2>11, <1>b
      <3>2. \A i \in 0 .. Fill(r) - 1 :
              r.cdc.rx_buf[Other(r.cdc.sel)][i] = top - Fill(r) + 1 + i
        BY <2>4
      <3>3. \A i \in 1 .. s.cdc.nb[o] - 1 :
              s.cdc.rx_buf[o][i] = top - 0 - s.cdc.nb[o] + 1 + i
        <4>1. \A i \in 1 .. s.cdc.nb[o] - 1 : i \in 0 .. s.cdc.nb[o] - 1
          BY <1>b
        <4>2. top - 0 = top OBVIOUS
        <4>. QED BY <4>1, <4>2, <2>9
      <3>4. \A i \in r.cdc.pos .. r.cdc.nb[r.cdc.sel] - 1 :
              r.cdc.rx_buf[r.cdc.sel][i]
                = top - Fill(r) - r.cdc.nb[r.cdc.sel] + 1 + i
        BY <3>3, <2>3, <2>4
      <3>. QED BY <3>1, <3>2, <3>4 DEF QueueInv
    <2>17. LineInv(r, top, w)
      <3>1. \A i \in 1 .. Len(w) : w[i] <= Taken(r, top)
        BY <2>12, <2>8, <1>b
      <3>2. \A i \in 1 .. Len(s.usart.line) :
              s.usart.line[i] \in 1 .. Taken(r, top)
        BY <2>13, <2>8, <1>b
      <3>. QED BY <3>1, <3>2, <2>3 DEF CallInv, LineInv
    <2>18. PendingInv(r, top, w)
      <3>1. r.tx_data \in 1 .. Taken(r, top) BY <2>10, <2>8, <2>11, <1>b
      <3>2. \A i \in 1 .. Len(w) : w[i] < r.tx_data
        BY <2>10, <2>12, <1>b
      <3>3. \A i \in 1 .. Len(r.usart.line) : r.usart.line[i] < r.tx_data
        BY <2>10, <2>13, <2>3, <1>b
      <3>. QED BY <3>1, <3>2, <3>3 DEF PendingInv
    <2>19. CallInv(r, top, w)
      BY <2>3, <2>14, <2>15, <2>16, <2>17 DEF CallInv
    <2>. QED BY <2>3, <2>8, <2>18, <2>19, <1>b
  <1>. QED BY <1>1, <1>2

(* What holds of a configured device between two handlers.                 *)
HandlerInv(s, top, w) ==
    /\ CallInv(s, top, w)
    /\ PendingInv(s, top, w)
    /\ JobInv(s)

(* A job just started lacks the whole buffer.                              *)
LEMMA FreshJob ==
    ASSUME NEW s, NEW b,
           s.job = [busy |-> TRUE, buf |-> b, count |-> 0, armed |-> TRUE,
                    trcpt |-> FALSE]
    PROVE  /\ s.job.busy = TRUE /\ s.job.buf = b
           /\ s.job.busy = (s.job.armed \/ s.job.trcpt)
           /\ s.job.count < RxBuffers
           /\ (RxBuffers - s.job.count) % EpSize = 0
  <1>1. /\ s.job.busy = TRUE /\ s.job.buf = b
        /\ s.job.armed = TRUE /\ s.job.count = 0
    OBVIOUS
  <1>2. RxBuffers - s.job.count = RxBuffers BY <1>1, Sizes
  <1>3. RxBuffers % EpSize = 0 BY SizesAssumption
  <1>. QED BY <1>1, <1>2, <1>3, Sizes

(* udi_cdc_rx_start at the end of a handler.                               *)
LEMMA RxStartHandler ==
    ASSUME NEW top \in Nat, NEW w \in Seq(Byte), NEW s, CallInv(s, top, w),
           s.job.busy = (s.job.armed \/ s.job.trcpt),
           s.job.armed => /\ s.job.count < RxBuffers
                          /\ (RxBuffers - s.job.count) % EpSize = 0
    PROVE  JobInv(RxStart(s))
  <1> DEFINE r == RxStart(s)
  <1>1. ~r.cdc.ongoing => r.cdc.pos < r.cdc.nb[r.cdc.sel]
    BY RxStartOrder
  <1>2. r.job = s.job \/ r.job = [busy |-> TRUE, buf |-> s.cdc.sel,
            count |-> 0, armed |-> TRUE, trcpt |-> FALSE]
    BY RxStartOrder
  <1>3. CASE r.job = s.job BY <1>1, <1>3 DEF JobInv
  <1>4. CASE r.job = [busy |-> TRUE, buf |-> s.cdc.sel, count |-> 0,
                      armed |-> TRUE, trcpt |-> FALSE]
    <2>1. /\ r.job.busy = (r.job.armed \/ r.job.trcpt)
          /\ r.job.count < RxBuffers
          /\ (RxBuffers - r.job.count) % EpSize = 0
      BY <1>4, FreshJob
    <2>. QED BY <1>1, <2>1 DEF JobInv
  <1>. QED BY <1>2, <1>3, <1>4

(* A change of the USART that keeps its line and its job.                  *)
LEMMA UsartOnly ==
    ASSUME NEW top \in Nat, NEW w \in Seq(Byte), NEW s,
           HandlerInv(s, top, w), NEW r \in FwType,
           r.cdc = s.cdc, r.job = s.job, r.tx_data = s.tx_data,
           r.hung = s.hung, r.usart.line = s.usart.line,
           r.usart.remaining = s.usart.remaining
    PROVE  HandlerInv(r, top, w)
  <1>1. Fill(r) = Fill(s) /\ Taken(r, top) = Taken(s, top)
    BY DEF Fill, Taken
  <1>2. SwapInv(r) BY DEF HandlerInv, CallInv, SwapInv
  <1>3. QueueInv(r, top) BY <1>1 DEF HandlerInv, CallInv, QueueInv
  <1>4. LineInv(r, top, w) BY <1>1 DEF HandlerInv, CallInv, LineInv
  <1>5. PendingInv(r, top, w) BY <1>1 DEF HandlerInv, PendingInv
  <1>6. JobInv(r) BY DEF HandlerInv, JobInv
  <1>. QED BY <1>2, <1>3, <1>4, <1>5, <1>6 DEF HandlerInv, CallInv

(* The two branches of the USART handler before its callback.              *)
LEMMA HandleDreOrder ==
    ASSUME NEW top \in Nat, NEW w \in Seq(Byte), NEW s,
           HandlerInv(s, top, w)
    PROVE  LET r == [s EXCEPT !.usart = HandleDre(@, s.tx_data)]
           IN  /\ HandlerInv(r, top, w)
               /\ r.usart.enabled = s.usart.enabled
               /\ r.cdc.running = s.cdc.running
  <1> DEFINE u == s.usart
             v == HandleDre(u, s.tx_data)
             r == [s EXCEPT !.usart = HandleDre(@, s.tx_data)]
  <1>0. s \in FwType /\ u \in UsartType(Byte) /\ s.tx_data \in Byte
    BY DEF HandlerInv, CallInv, FwType
  <1>1. /\ r.cdc = s.cdc /\ r.job = s.job /\ r.tx_data = s.tx_data
        /\ r.hung = s.hung /\ r.usart = v
    BY <1>0 DEF FwType
  <1>2. Fill(r) = Fill(s) /\ Taken(r, top) = Taken(s, top)
    BY <1>1 DEF Fill, Taken
  <1>3. /\ SwapInv(r) /\ QueueInv(r, top) /\ JobInv(r) /\ ~r.hung
    <2>1. SwapInv(r) BY <1>1 DEF HandlerInv, CallInv, SwapInv
    <2>2. QueueInv(r, top) BY <1>1, <1>2 DEF HandlerInv, CallInv, QueueInv
    <2>3. JobInv(r) BY <1>1 DEF HandlerInv, JobInv
    <2>. QED BY <1>1, <2>1, <2>2, <2>3 DEF HandlerInv, CallInv
  <1>4. LineInv(s, top, w) /\ PendingInv(s, top, w)
    BY DEF HandlerInv, CallInv
  <1>5. CASE u.remaining = 0
    <2>1. v = [u EXCEPT !.dre_en = FALSE] BY <1>5 DEF HandleDre
    <2>2. /\ v \in UsartType(Byte) /\ v.line = u.line
          /\ v.remaining = u.remaining /\ v.enabled = u.enabled
      BY <2>1, <1>0 DEF UsartType
    <2>3. r \in FwType BY <1>0, <2>2 DEF FwType
    <2>. QED BY <1>1, <2>2, <2>3, UsartOnly
  <1>6. CASE u.remaining # 0
    <2>1. v = [u EXCEPT !.line = Append(@, s.tx_data), !.txc = FALSE,
                        !.remaining = 0, !.dre_en = FALSE, !.txc_en = TRUE]
      BY <1>6 DEF HandleDre
    <2>2. u.line \in Seq(Byte) BY <1>0 DEF UsartType
    <2>3. Append(u.line, s.tx_data) \in Seq(Byte) BY <2>2, <1>0
    <2>4. /\ v \in UsartType(Byte) /\ v.line = Append(u.line, s.tx_data)
          /\ v.remaining = 0 /\ v.enabled = u.enabled
      BY <2>1, <2>3, <1>0 DEF UsartType
    <2>5. r \in FwType BY <1>0, <2>4 DEF FwType
    <2>6. u.remaining > 0 BY <1>0, <1>6 DEF UsartType
    <2>7. /\ s.tx_data \in 1 .. Taken(s, top)
          /\ \A i \in 1 .. Len(w) : w[i] < s.tx_data
          /\ \A i \in 1 .. Len(u.line) : u.line[i] < s.tx_data
      BY <1>4, <2>6 DEF PendingInv
    <2>8. /\ Len(v.line) = Len(u.line) + 1
          /\ \A i \in 1 .. Len(u.line) : v.line[i] = u.line[i]
          /\ v.line[Len(u.line) + 1] = s.tx_data
          /\ Len(u.line) \in Nat
      BY <2>2, <2>4, <1>0
    <2>9. \A i \in 1 .. Len(v.line) :
             i \in 1 .. Len(u.line) \/ i = Len(u.line) + 1
      BY <2>8
    <2>10. LineInv(r, top, w)
      <3>1. Ascending(v.line)
        <4>1. SUFFICES ASSUME NEW i \in 1 .. Len(v.line),
                              NEW j \in 1 .. Len(v.line), i < j
                       PROVE  v.line[i] < v.line[j]
          BY DEF Ascending
        <4>2. i \in 1 .. Len(u.line) BY <4>1, <2>8
        <4>3. CASE j \in 1 .. Len(u.line)
          BY <4>1, <4>2, <4>3, <2>8, <1>4 DEF LineInv, Ascending
        <4>4. CASE j = Len(u.line) + 1 BY <4>2, <4>4, <2>7, <2>8
        <4>. QED BY <4>3, <4>4, <2>9
      <3>2. Before(w, v.line)
        <4>1. SUFFICES ASSUME NEW i \in 1 .. Len(w),
                              NEW j \in 1 .. Len(v.line)
                       PROVE  w[i] < v.line[j]
          BY DEF Before
        <4>2. CASE j \in 1 .. Len(u.line)
          BY <4>2, <2>8, <1>4 DEF LineInv, Before
        <4>3. CASE j = Len(u.line) + 1 BY <4>3, <2>7, <2>8
        <4>. QED BY <4>2, <4>3, <2>9
      <3>3. \A i \in 1 .. Len(w) : w[i] <= Taken(r, top)
        BY <1>2, <1>4 DEF LineInv
      <3>4. \A i \in 1 .. Len(v.line) : v.line[i] \in 1 .. Taken(r, top)
        BY <1>2, <1>4, <2>7, <2>8, <2>9 DEF LineInv
      <3>. QED BY <1>1, <3>1, <3>2, <3>3, <3>4 DEF LineInv
    <2>11. PendingInv(r, top, w) BY <1>1, <2>4 DEF PendingInv
    <2>. QED BY <1>1, <1>3, <2>4, <2>5, <2>10, <2>11 DEF HandlerInv, CallInv
  <1>. QED BY <1>5, <1>6

LEMMA HandleTxcOrder ==
    ASSUME NEW top \in Nat, NEW w \in Seq(Byte), NEW s,
           HandlerInv(s, top, w)
    PROVE  LET r == [s EXCEPT !.usart = HandleTxc(@)]
           IN  /\ HandlerInv(r, top, w)
               /\ r.usart.enabled = s.usart.enabled
               /\ r.cdc.running = s.cdc.running
  <1> DEFINE u == s.usart
             v == HandleTxc(u)
             r == [s EXCEPT !.usart = HandleTxc(@)]
  <1>0. s \in FwType /\ u \in UsartType(Byte)
    BY DEF HandlerInv, CallInv, FwType
  <1>1. /\ v \in UsartType(Byte) /\ v.line = u.line
        /\ v.remaining = u.remaining /\ v.enabled = u.enabled
    BY <1>0 DEF HandleTxc, UsartType
  <1>2. /\ r \in FwType
        /\ r.cdc = s.cdc /\ r.job = s.job /\ r.tx_data = s.tx_data
        /\ r.hung = s.hung /\ r.usart = v
    BY <1>0, <1>1 DEF FwType
  <1>. QED BY <1>1, <1>2, UsartOnly

(* The nested notification may replace the byte usart_tx_callback read     *)
(* before or after it; the one that stays is newer than all on the line.   *)
LEMMA TxCallbackOrder ==
    ASSUME NEW top \in Nat, NEW w \in Seq(Byte), NEW s,
           HandlerInv(s, top, w)
    PROVE  LET r == TxCallback(s)
           IN  /\ HandlerInv(r, top, w)
               /\ r.usart.enabled = s.usart.enabled
               /\ r.cdc.running = s.cdc.running
  <1> DEFINE c == Consume(s)
             q == RxStart(c)
             x == ReadByte(s.cdc)
             r == TxCallback(s)
  <1>0. /\ s \in FwType /\ s.usart \in UsartType(Byte)
        /\ CallInv(s, top, w) /\ LineInv(s, top, w)
    BY DEF HandlerInv, CallInv, FwType
  <1>b. /\ s.cdc.pos \in Nat /\ s.cdc.nb[s.cdc.sel] \in Nat
        /\ Taken(s, top) \in Int /\ Taken(s, top) >= 0
    <2>1. s.cdc.pos \in Nat /\ s.cdc.nb[s.cdc.sel] \in 0 .. RxBuffers
      BY <1>0, Buffers
    <2>2. top \in Int OBVIOUS
    <2>3. Taken(s, top) \in Int BY <1>0, <2>2, Buffers
    <2>4. Taken(s, top) >= 0 BY <1>0 DEF CallInv, QueueInv
    <2>. QED BY <2>1, <2>3, <2>4, Sizes
  <1>1. CASE ~RxReady(s.cdc)
    <2>1. r = [s EXCEPT !.usart = DisableCallback(@)]
      BY <1>1 DEF TxCallback
    <2>2. /\ DisableCallback(s.usart) \in UsartType(Byte)
          /\ DisableCallback(s.usart).line = s.usart.line
          /\ DisableCallback(s.usart).remaining = s.usart.remaining
          /\ DisableCallback(s.usart).enabled = s.usart.enabled
      BY <1>0, UsartCalls
    <2>3. /\ r \in FwType /\ r.cdc = s.cdc /\ r.job = s.job
          /\ r.tx_data = s.tx_data /\ r.hung = s.hung
          /\ r.usart = DisableCallback(s.usart)
      BY <1>0, <2>1, <2>2 DEF FwType
    <2>. QED BY <2>2, <2>3, UsartOnly
  <1>2. CASE RxReady(s.cdc)
    <2>1. r = SendByte(q, x) BY <1>2 DEF TxCallback
    <2>2. s.cdc.pos < s.cdc.nb[s.cdc.sel]
      BY <1>2, <1>b, <1>0 DEF RxReady, CallInv, SwapInv
    <2>3. /\ CallInv(c, top, w) /\ Taken(c, top) = Taken(s, top) + 1
          /\ x = Taken(s, top) + 1 /\ c.usart = s.usart /\ c.job = s.job
          /\ c.cdc.running = s.cdc.running
      BY <1>0, <2>2, ConsumeNext
    <2>4. /\ CallInv(q, top, w) /\ Taken(q, top) >= Taken(c, top)
          /\ q.usart.line = c.usart.line
          /\ q.usart.enabled = c.usart.enabled
          /\ q.cdc.running = c.cdc.running
      BY <2>3, RxStartOrder
    <2>5. Taken(q, top) \in Int
      <3>1. q \in FwType /\ top \in Int BY <2>4 DEF CallInv
      <3>. QED BY <3>1, Buffers
    <2>6. x \in 1 .. Taken(q, top) BY <2>3, <2>4, <2>5, <1>b
    <2>7. \A i \in 1 .. Len(w) : w[i] < x
      <3>1. \A i \in 1 .. Len(w) : w[i] \in Int BY Sizes DEF Byte
      <3>. QED BY <3>1, <2>3, <1>0, <1>b DEF LineInv
    <2>8. \A i \in 1 .. Len(q.usart.line) : q.usart.line[i] < x
      BY <2>3, <2>4, <1>0, <1>b DEF LineInv
    <2>9. x \in Byte BY <1>0, ReadByteType DEF FwType
    <2>10. /\ CallInv(r, top, w) /\ PendingInv(r, top, w)
           /\ r.cdc = q.cdc /\ r.job = q.job
      BY <2>1, <2>4, <2>6, <2>7, <2>8, <2>9, SendByteOrder
    <2>11. JobInv(r)
      <3>1. /\ c.job.busy = (c.job.armed \/ c.job.trcpt)
            /\ c.job.armed => /\ c.job.count < RxBuffers
                              /\ (RxBuffers - c.job.count) % EpSize = 0
        BY <2>3 DEF HandlerInv, JobInv
      <3>2. JobInv(q) BY <2>3, <3>1, RxStartHandler
      <3>. QED BY <3>2, <2>10 DEF JobInv
    <2>12. r.usart.enabled = s.usart.enabled
      <3>1. q.usart \in UsartType(Byte) BY <2>4 DEF CallInv, FwType
      <3>2. r.usart = WriteBufferJob(q.usart)
        <4>1. q \in FwType BY <2>4 DEF CallInv
        <4>. QED BY <4>1, <2>1 DEF SendByte, FwType
      <3>. QED BY <3>1, <3>2, <2>3, <2>4, UsartCalls
    <2>. QED BY <2>3, <2>4, <2>10, <2>11, <2>12 DEF HandlerInv
  <1>. QED BY <1>1, <1>2

(* A completed transfer turns the bytes of the job into the bytes of the   *)
(* buffer it filled; nothing is taken or lost on the way.                  *)
Received(s) ==
    [[s EXCEPT !.job = JobIdle]
       EXCEPT !.cdc.nb[Other(s.cdc.sel)] = s.job.count, !.cdc.ongoing = FALSE]

ReceivedFacts(s, d, top, w) ==
    /\ CallInv(d, top, w)
    /\ PendingInv(d, top, w)
    /\ d.job.busy = FALSE /\ d.job.armed = FALSE /\ d.job.trcpt = FALSE
    /\ Fill(d) = Fill(s) /\ Fill(s) = s.job.count
    /\ Taken(d, top) = Taken(s, top)
    /\ d.cdc.pos = s.cdc.pos /\ d.cdc.sel = s.cdc.sel
    /\ d.cdc.nb[s.cdc.sel] = s.cdc.nb[s.cdc.sel]
    /\ d.cdc.ongoing = FALSE
    /\ d.cdc.running = s.cdc.running
    /\ d.usart = s.usart /\ d.tx_data = s.tx_data
    /\ RxStart(d) = DataReceived([s EXCEPT !.job = JobIdle], s.job.count)

LEMMA ReceivedReady ==
    ASSUME NEW top \in Nat, NEW w \in Seq(Byte), NEW s,
           HandlerInv(s, top, w), s.job.trcpt, s.job.count # 0
    PROVE  ReceivedFacts(s, Received(s), top, w)
  <1> DEFINE n == s.job.count
             b == Other(s.cdc.sel)
             i0 == [s EXCEPT !.job = JobIdle]
  <1>0. /\ s \in FwType /\ CallInv(s, top, w) /\ PendingInv(s, top, w)
    BY DEF HandlerInv, CallInv
  <1>b. /\ s.cdc.sel \in {0, 1} /\ b \in {0, 1} /\ b # s.cdc.sel
        /\ Other(b) = s.cdc.sel
        /\ n \in 0 .. RxBuffers /\ n \in Nat
    <2>1. /\ s.cdc.sel \in {0, 1} /\ b \in {0, 1} /\ b # s.cdc.sel
          /\ Other(b) = s.cdc.sel /\ n \in 0 .. RxBuffers
      BY <1>0, Buffers
    <2>. QED BY <2>1, Sizes
  <1>1. s.cdc.ongoing = TRUE
    <2>1. s.job.busy BY DEF HandlerInv, JobInv
    <2>2. s.cdc.ongoing \in BOOLEAN /\ s.job.busy \in BOOLEAN
      BY <1>0 DEF FwType, CdcType, JobType
    <2>. QED BY <1>0, <2>1, <2>2 DEF CallInv, SwapInv
  <1>2. Fill(s) = n BY <1>1 DEF Fill
  <1>3. JobIdle \in JobType BY Sizes DEF JobIdle, JobType, Buffer
  <1>4. /\ i0 \in FwType /\ i0.cdc = s.cdc /\ i0.job = JobIdle
        /\ i0.usart = s.usart /\ i0.tx_data = s.tx_data /\ i0.hung = s.hung
    BY <1>0, <1>3 DEF FwType
  <1>5. PICK d : d = Received(s) OBVIOUS
  <1>6. d = [i0 EXCEPT !.cdc.nb[b] = n, !.cdc.ongoing = FALSE]
    BY <1>5 DEF Received
  <1>7. RxStart(d) = DataReceived(i0, n) BY <1>6, <1>4 DEF DataReceived
  <1>8. d \in FwType BY <1>6, <1>4, <1>b DEF FwType, CdcType, Buffer
  <1>9. /\ d.cdc.pos = s.cdc.pos /\ d.cdc.sel = s.cdc.sel
        /\ d.cdc.rx_buf = s.cdc.rx_buf /\ d.cdc.ongoing = FALSE
        /\ d.cdc.running = s.cdc.running
        /\ d.cdc.nb = [s.cdc.nb EXCEPT ![b] = n]
        /\ d.job = JobIdle /\ d.usart = s.usart
        /\ d.tx_data = s.tx_data /\ d.hung = s.hung
    BY <1>6, <1>4 DEF FwType, CdcType
  <1>10. /\ d.cdc.nb[b] = n
        /\ d.cdc.nb[s.cdc.sel] = s.cdc.nb[s.cdc.sel]
    <2>1. s.cdc.nb \in [Buffer -> 0 .. RxBuffers] BY <1>0 DEF FwType, CdcType
    <2>. QED BY <2>1, <1>9, <1>b DEF Buffer
  <1>11. /\ CallInv(d, top, w) /\ PendingInv(d, top, w)
        /\ d.job.busy = FALSE /\ d.job.armed = FALSE
        /\ d.job.trcpt = FALSE
        /\ Fill(d) = Fill(s) /\ Taken(d, top) = Taken(s, top)
    <2>1. d.job.busy = FALSE /\ d.job.armed = FALSE /\ d.job.trcpt = FALSE
      BY <1>9 DEF JobIdle
    <2>2. Fill(d) = Fill(s) BY <1>9, <1>10, <1>2 DEF Fill
    <2>3. Taken(d, top) = Taken(s, top) BY <1>9, <1>10, <2>2 DEF Taken
    <2>4. SwapInv(d)
      <3>1. d.cdc.nb[Other(d.cdc.sel)] > 0 BY <1>9, <1>10, <1>b
      <3>2. d.cdc.pos <= d.cdc.nb[d.cdc.sel]
        BY <1>9, <1>10, <1>0 DEF CallInv, SwapInv
      <3>. QED BY <2>1, <3>1, <3>2, <1>9 DEF SwapInv
    <2>5. QueueInv(d, top)
      BY <1>9, <1>10, <2>2, <2>3, <1>0 DEF CallInv, QueueInv
    <2>6. LineInv(d, top, w) BY <1>9, <2>3, <1>0 DEF CallInv, LineInv
    <2>7. PendingInv(d, top, w) BY <1>9, <2>3, <1>0 DEF PendingInv
    <2>8. ~d.hung BY <1>9, <1>0 DEF CallInv
    <2>. QED BY <1>8, <2>1, <2>2, <2>3, <2>4, <2>5, <2>6, <2>7, <2>8
         DEF CallInv
  <1>. QED BY <1>5, <1>7, <1>9, <1>10, <1>11, <1>2 DEF ReceivedFacts

LEMMA DataReceivedOrder ==
    ASSUME NEW top \in Nat, NEW w \in Seq(Byte), NEW s,
           HandlerInv(s, top, w), s.job.trcpt
    PROVE  LET r == DataReceived([s EXCEPT !.job = JobIdle], s.job.count)
           IN  /\ HandlerInv(r, top, w)
               /\ r.cdc.running = s.cdc.running
  <1> DEFINE n == s.job.count
             b == Other(s.cdc.sel)
             i0 == [s EXCEPT !.job = JobIdle]
             r == DataReceived(i0, n)
  <1>0. /\ s \in FwType /\ CallInv(s, top, w) /\ PendingInv(s, top, w)
        /\ s.cdc.pos <= s.cdc.nb[s.cdc.sel]
    BY DEF HandlerInv, CallInv, SwapInv
  <1>b. /\ s.cdc.sel \in {0, 1} /\ b \in {0, 1} /\ b # s.cdc.sel
        /\ Other(b) = s.cdc.sel
        /\ n \in 0 .. RxBuffers /\ n \in Nat
        /\ s.cdc.pos \in Nat /\ s.cdc.nb[s.cdc.sel] \in Nat
    <2>1. /\ s.cdc.sel \in {0, 1} /\ b \in {0, 1} /\ b # s.cdc.sel
          /\ Other(b) = s.cdc.sel /\ s.cdc.pos \in Nat
          /\ s.cdc.nb[s.cdc.sel] \in 0 .. RxBuffers
          /\ n \in 0 .. RxBuffers
      BY <1>0, Buffers
    <2>. QED BY <2>1, Sizes
  <1>1. /\ s.job.busy /\ s.job.buf = b /\ s.cdc.ongoing = TRUE
    <2>1. s.job.busy BY DEF HandlerInv, JobInv
    <2>2. s.cdc.ongoing \in BOOLEAN /\ s.job.busy \in BOOLEAN
      BY <1>0 DEF FwType, CdcType, JobType
    <2>. QED BY <1>0, <2>1, <2>2 DEF CallInv, SwapInv
  <1>2. Fill(s) = n BY <1>1 DEF Fill
  <1>3. JobIdle \in JobType BY Sizes DEF JobIdle, JobType, Buffer
  <1>4. /\ i0 \in FwType /\ i0.cdc = s.cdc /\ i0.job = JobIdle
        /\ i0.usart = s.usart /\ i0.tx_data = s.tx_data /\ i0.hung = s.hung
    BY <1>0, <1>3 DEF FwType
  <1>5. CASE n = 0
    <2>1. r = EpRunOut(i0, b) BY <1>4, <1>5 DEF DataReceived
    <2>2. r = [i0 EXCEPT !.job = [busy |-> TRUE, buf |-> b, count |-> 0,
                                  armed |-> TRUE, trcpt |-> FALSE]]
      BY <2>1, <1>4 DEF EpRunOut, JobIdle
    <2>3. r \in FwType
      <3>1. b \in Buffer BY <1>b DEF Buffer
      <3>. QED BY <3>1, <2>1, <1>4, EpRunOutType
    <2>4. /\ r.cdc = s.cdc /\ r.usart = s.usart /\ r.tx_data = s.tx_data
          /\ r.hung = s.hung
          /\ r.job = [busy |-> TRUE, buf |-> b, count |-> 0,
                      armed |-> TRUE, trcpt |-> FALSE]
      BY <2>2, <1>4 DEF FwType
    <2>5. Fill(r) = Fill(s) BY <2>4, <1>1, <1>2, <1>5 DEF Fill
    <2>6. Taken(r, top) = Taken(s, top) BY <2>4, <2>5 DEF Taken
    <2>7. SwapInv(r)
      <3>0. r.job = [busy |-> TRUE, buf |-> b, count |-> 0,
                     armed |-> TRUE, trcpt |-> FALSE]
        BY <2>4
      <3>1. r.job.busy = TRUE /\ r.job.buf = b BY <3>0, FreshJob, Zenon
      <3>. QED BY <3>1, <2>4, <1>0, <1>1 DEF SwapInv
    <2>8. QueueInv(r, top) BY <2>4, <2>5, <2>6, <1>0 DEF CallInv, QueueInv
    <2>9. LineInv(r, top, w) BY <2>4, <2>6, <1>0 DEF CallInv, LineInv
    <2>10. PendingInv(r, top, w) BY <2>4, <2>6, <1>0 DEF PendingInv
    <2>11. JobInv(r)
      <3>1. /\ r.job.busy = (r.job.armed \/ r.job.trcpt)
            /\ r.job.count < RxBuffers
            /\ (RxBuffers - r.job.count) % EpSize = 0
        BY <2>4, FreshJob
      <3>. QED BY <3>1, <2>4, <1>1 DEF JobInv
    <2>12. CallInv(r, top, w)
      BY <2>3, <2>4, <2>7, <2>8, <2>9, <1>0 DEF CallInv
    <2>. QED BY <2>4, <2>10, <2>11, <2>12 DEF HandlerInv
  <1>6. CASE n # 0
    <2>1. PICK d : ReceivedFacts(s, d, top, w) BY <1>6, ReceivedReady
    <2>2. /\ CallInv(d, top, w) /\ PendingInv(d, top, w)
          /\ d.job.busy = FALSE /\ d.job.armed = FALSE
          /\ d.job.trcpt = FALSE
          /\ d.cdc.running = s.cdc.running
          /\ RxStart(d) = r
      BY <2>1 DEF ReceivedFacts
    <2>12. /\ CallInv(RxStart(d), top, w) /\ PendingInv(RxStart(d), top, w)
           /\ RxStart(d).cdc.running = d.cdc.running
      BY <2>2, RxStartOrder
    <2>13. JobInv(RxStart(d)) BY <2>2, RxStartHandler
    <2>. QED BY <2>2, <2>12, <2>13 DEF HandlerInv
  <1>. QED BY <1>5, <1>6
-----------------------------------------------------------------------------
(* Steps of the specification.                                             *)

LEMMA FwTyped == ASSUME TypeOK PROVE Fw \in FwType
  BY DEF TypeOK, Fw, FwType

(* The record of the next state is the one a handler returns.              *)
LEMMA BecomesFw ==
    ASSUME NEW s \in FwType, Becomes(s)
    PROVE  Fw' = s
  BY DEF Becomes, Fw, FwType

(* A configured device is ready for any handler ...                        *)
LEMMA Ready ==
    ASSUME IndInv, cdc.running
    PROVE  /\ Fw \in FwType
           /\ HandlerInv(Fw, sent, wire)
           /\ sent \in Nat /\ wire \in Seq(Byte)
  <1>1. Fw \in FwType BY FwTyped DEF IndInv
  <1>2. ~Fw.hung BY DEF IndInv, Fw
  <1>3. sent \in Nat /\ wire \in Seq(Byte) BY Sizes DEF IndInv, TypeOK
  <1>. QED BY <1>1, <1>2, <1>3 DEF IndInv, HandlerInv, CallInv

(* ... and one whose handler kept HandlerInv is ready for the next.        *)
LEMMA Established ==
    ASSUME NEW s, Becomes(s), s.cdc.running,
           HandlerInv(s, sent', wire'), WireInv',
           sent' \in 0 .. MaxBytes, wire' \in Seq(Byte),
           control' \in 0 .. MaxControl, excused' \subseteq Byte
    PROVE  IndInv'
  <1>1. s \in FwType BY DEF HandlerInv, CallInv
  <1>2. Fw' = s BY <1>1, BecomesFw
  <1>3. TypeOK' BY <1>1 DEF TypeOK, Becomes, FwType
  <1>4. ~hung' BY DEF Becomes, HandlerInv, CallInv
  <1>5. /\ SwapInv(Fw)' /\ JobInv(Fw)' /\ QueueInv(Fw, sent)'
        /\ LineInv(Fw, sent, wire)' /\ PendingInv(Fw, sent, wire)'
    BY <1>2 DEF HandlerInv, CallInv
  <1>6. cdc'.running BY DEF Becomes
  <1>. QED BY <1>3, <1>4, <1>5, <1>6 DEF IndInv

(* An unconfigured device needs no more than its types and an idle line.   *)
LEMMA Unconfigured ==
    ASSUME TypeOK', ~hung', WireInv', ~cdc'.running, ~usart'.enabled,
           usart'.line = <<>>, job' = JobIdle
    PROVE  IndInv'
  BY DEF IndInv

LEMMA UsartStep == ASSUME IndInv, UsartInterrupt PROVE IndInv'
  <1> DEFINE dre == IF DreRaised(usart)
                    THEN [Fw EXCEPT !.usart = HandleDre(@, tx_data)]
                    ELSE Fw
             txc == IF TxcRaised(usart) THEN [dre EXCEPT !.usart = HandleTxc(@)]
                    ELSE dre
             r == IF TxcRaised(usart) /\ usart.cb THEN TxCallback(txc)
                  ELSE txc
  <1>1. cdc.running
    BY DEF UsartInterrupt, InterruptPending, IndInv
  <1>2. /\ HandlerInv(Fw, sent, wire) /\ sent \in Nat /\ wire \in Seq(Byte)
    BY <1>1, Ready
  <1>3. Fw.cdc = cdc /\ Fw.tx_data = tx_data BY DEF Fw
  <1>4. HandlerInv(dre, sent, wire) /\ dre.cdc.running
    BY <1>1, <1>2, <1>3, HandleDreOrder
  <1>5. HandlerInv(txc, sent, wire) /\ txc.cdc.running
    <2>. HIDE DEF dre
    <2>. QED BY <1>2, <1>4, HandleTxcOrder
  <1>6. HandlerInv(r, sent, wire) /\ r.cdc.running
    <2>. HIDE DEF txc
    <2>. QED BY <1>2, <1>5, TxCallbackOrder
  <1>7. Becomes(r) /\ UNCHANGED <<sent, wire, control, excused>>
    BY DEF UsartInterrupt
  <1>. HIDE DEF r
  <1>8. WireInv' BY <1>7 DEF IndInv, WireInv
  <1>9. /\ sent' \in 0 .. MaxBytes /\ wire' \in Seq(Byte)
        /\ control' \in 0 .. MaxControl /\ excused' \subseteq Byte
    BY <1>7 DEF IndInv, TypeOK
  <1>10. HandlerInv(r, sent', wire') BY <1>6, <1>7
  <1>. QED BY <1>6, <1>7, <1>8, <1>9, <1>10, Established

LEMMA OutTransferStep == ASSUME IndInv, OutTransferComplete PROVE IndInv'
  <1> DEFINE r == DataReceived([Fw EXCEPT !.job = JobIdle], job.count)
  <1>1. cdc.running
    BY DEF OutTransferComplete, IndInv, JobIdle
  <1>2. /\ Fw \in FwType /\ HandlerInv(Fw, sent, wire)
        /\ sent \in Nat /\ wire \in Seq(Byte)
    BY <1>1, Ready
  <1>3. Fw.cdc = cdc /\ Fw.job = job BY DEF Fw
  <1>4. Fw.job.trcpt BY <1>3 DEF OutTransferComplete
  <1>5. HandlerInv(r, sent, wire) /\ r.cdc.running
    BY <1>1, <1>2, <1>3, <1>4, DataReceivedOrder
  <1>6. Becomes(r) /\ UNCHANGED <<sent, wire, control>>
    BY DEF OutTransferComplete
  <1>. HIDE DEF r
  <1>7. WireInv' BY <1>6 DEF IndInv, WireInv
  <1>8. excused' \subseteq Byte
    <2>1. /\ job.buf \in Buffer /\ job.count \in 0 .. RxBuffers
          /\ cdc.rx_buf \in [Buffer -> [0 .. RxBuffers - 1 -> Byte]]
      BY DEF IndInv, TypeOK, JobType, CdcType
    <2>2. job.count # 0 => /\ 0 \in 0 .. RxBuffers - 1
                           /\ job.count - 1 \in 0 .. RxBuffers - 1
      BY <2>1, Sizes
    <2>3. job.count # 0 => /\ cdc.rx_buf[job.buf][0] \in Byte
                           /\ cdc.rx_buf[job.buf][job.count - 1] \in Byte
      BY <2>1, <2>2
    <2>. QED BY <2>3 DEF OutTransferComplete, IndInv, TypeOK
  <1>9. /\ sent' \in 0 .. MaxBytes /\ wire' \in Seq(Byte)
        /\ control' \in 0 .. MaxControl
    BY <1>6 DEF IndInv, TypeOK
  <1>10. HandlerInv(r, sent', wire') BY <1>5, <1>6
  <1>. QED BY <1>5, <1>6, <1>7, <1>8, <1>9, <1>10, Established

(* What getc has taken was sent.                                           *)
LEMMA TakenWasSent ==
    ASSUME IndInv, cdc.running
    PROVE  Taken(Fw, sent) \in 0 .. sent
  <1>1. /\ Fw \in FwType /\ HandlerInv(Fw, sent, wire) /\ sent \in Nat
    BY Ready
  <1>2. sent \in Int BY <1>1
  <1>3. /\ Taken(Fw, sent) \in Int /\ Fill(Fw) \in 0 .. RxBuffers
        /\ Fw.cdc.pos \in Nat
        /\ Fw.cdc.nb[Fw.cdc.sel] \in 0 .. RxBuffers
    BY <1>1, <1>2, Buffers
  <1>4. Taken(Fw, sent) >= 0
    BY <1>1 DEF HandlerInv, CallInv, QueueInv
  <1>5. Fw.cdc.pos <= Fw.cdc.nb[Fw.cdc.sel]
    BY <1>1 DEF HandlerInv, CallInv, SwapInv
  <1>. QED BY <1>1, <1>3, <1>4, <1>5, Sizes DEF Taken

(* The oldest byte of the transmitter may join the wire.                    *)
LEMMA HeadLeaves ==
    ASSUME IndInv, cdc.running, usart.line # <<>>,
           wire' = Append(wire, usart.line[1]), sent' = sent
    PROVE  /\ wire' \in Seq(Byte)
           /\ WireInv'
           /\ \A i \in 1 .. Len(wire') : wire'[i] <= Taken(Fw, sent)
           /\ usart.remaining > 0 =>
                \A i \in 1 .. Len(wire') : wire'[i] < tx_data
           /\ usart.line[1] \in 1 .. sent
           /\ \A i \in 1 .. Len(wire) : wire[i] < usart.line[1]
  <1> DEFINE T == Taken(Fw, sent)
  <1>1. /\ HandlerInv(Fw, sent, wire) /\ sent \in Nat /\ wire \in Seq(Byte)
    BY Ready
  <1>2. T \in 0 .. sent BY TakenWasSent
  <1>3. usart.line \in Seq(Byte) BY DEF IndInv, TypeOK, UsartType
  <1>4. /\ 1 \in 1 .. Len(usart.line) /\ usart.line[1] \in Byte BY <1>3
  <1>5. /\ wire' \in Seq(Byte) /\ Len(wire) \in Nat
        /\ Len(wire') = Len(wire) + 1
        /\ \A i \in 1 .. Len(wire) : wire'[i] = wire[i]
        /\ wire'[Len(wire) + 1] = usart.line[1]
        /\ \A i \in 1 .. Len(wire') : i \in 1 .. Len(wire) \/ i = Len(wire) + 1
    BY <1>1, <1>4
  <1>6. Fw.usart = usart /\ Fw.tx_data = tx_data BY DEF Fw
  <1>7. /\ Before(wire, usart.line)
        /\ \A i \in 1 .. Len(wire) : wire[i] <= T
        /\ \A i \in 1 .. Len(usart.line) : usart.line[i] \in 1 .. T
        /\ PendingInv(Fw, sent, wire)
    BY <1>1, <1>6 DEF HandlerInv, CallInv, LineInv
  <1>8. usart.line[1] \in 1 .. sent /\ usart.line[1] <= T
    BY <1>1, <1>2, <1>4, <1>7
  <1>9. \A i \in 1 .. Len(wire) : wire[i] < usart.line[1]
    BY <1>4, <1>7 DEF Before
  <1>10. Ascending(wire')
    <2>1. SUFFICES ASSUME NEW i \in 1 .. Len(wire'),
                          NEW j \in 1 .. Len(wire'), i < j
                   PROVE  wire'[i] < wire'[j]
      BY DEF Ascending
    <2>2. i \in 1 .. Len(wire) BY <2>1, <1>5
    <2>3. CASE j \in 1 .. Len(wire)
      BY <2>1, <2>2, <2>3, <1>5 DEF IndInv, WireInv, Ascending
    <2>4. CASE j = Len(wire) + 1 BY <2>2, <2>4, <1>5, <1>9
    <2>. QED BY <2>3, <2>4, <1>5
  <1>11. \A i \in 1 .. Len(wire') : wire'[i] \in 1 .. sent
    <2>1. \A i \in 1 .. Len(wire) : wire[i] \in 1 .. sent
      BY DEF IndInv, WireInv
    <2>. QED BY <2>1, <1>5, <1>8
  <1>12. WireInv' BY <1>10, <1>11 DEF WireInv
  <1>13. \A i \in 1 .. Len(wire') : wire'[i] <= T
    BY <1>5, <1>7, <1>8
  <1>14. ASSUME usart.remaining > 0
         PROVE  \A i \in 1 .. Len(wire') : wire'[i] < tx_data
    <2>1. /\ \A i \in 1 .. Len(wire) : wire[i] < tx_data
          /\ \A i \in 1 .. Len(usart.line) : usart.line[i] < tx_data
      BY <1>14, <1>6, <1>7 DEF PendingInv
    <2>. QED BY <2>1, <1>4, <1>5
  <1>. QED BY <1>5, <1>8, <1>9, <1>12, <1>13, <1>14

LEMMA FrameSentStep == ASSUME IndInv, FrameSent PROVE IndInv'
  <1> DEFINE r == [Fw EXCEPT !.usart = ShiftFrame(@)]
             T == Taken(Fw, sent)
  <1>1. cdc.running BY DEF FrameSent, IndInv
  <1>2. /\ Fw \in FwType /\ HandlerInv(Fw, sent, wire)
        /\ sent \in Nat /\ wire \in Seq(Byte)
    BY <1>1, Ready
  <1>3. T \in 0 .. sent BY <1>1, TakenWasSent
  <1>4. /\ usart \in UsartType(Byte) /\ usart.line \in Seq(Byte)
        /\ usart.line # <<>>
    BY DEF IndInv, TypeOK, UsartType, FrameSent
  <1>5. /\ Head(usart.line) = usart.line[1] /\ Head(usart.line) \in Byte
        /\ Len(usart.line) \in Nat /\ Len(usart.line) >= 1
        /\ Tail(usart.line) \in Seq(Byte)
        /\ Len(Tail(usart.line)) = Len(usart.line) - 1
        /\ \A i \in 1 .. Len(usart.line) - 1 :
              Tail(usart.line)[i] = usart.line[i + 1]
    BY <1>4
  <1>6. /\ ShiftFrame(usart) \in UsartType(Byte)
        /\ ShiftFrame(usart).line = Tail(usart.line)
        /\ ShiftFrame(usart).remaining = usart.remaining
    BY <1>4, <1>5 DEF ShiftFrame, UsartType
  <1>7. /\ r \in FwType /\ r.cdc = cdc /\ r.job = job
        /\ r.tx_data = tx_data /\ r.hung = hung
        /\ r.usart = ShiftFrame(usart)
    BY <1>2, <1>6 DEF Fw, FwType
  <1>8. /\ Becomes(r) /\ wire' = Append(wire, usart.line[1])
        /\ UNCHANGED <<sent, control, excused>>
    BY <1>5, <1>7 DEF FrameSent, Becomes
  <1>. HIDE DEF r
  <1>9. /\ wire' \in Seq(Byte) /\ Len(wire) \in Nat
        /\ Len(wire') = Len(wire) + 1
        /\ \A i \in 1 .. Len(wire) : wire'[i] = wire[i]
        /\ wire'[Len(wire) + 1] = usart.line[1]
        /\ \A i \in 1 .. Len(wire') : i \in 1 .. Len(wire) \/ i = Len(wire) + 1
    BY <1>2, <1>5, <1>8
  <1>10. /\ SwapInv(Fw) /\ QueueInv(Fw, sent) /\ JobInv(Fw)
         /\ LineInv(Fw, sent, wire) /\ PendingInv(Fw, sent, wire) /\ ~Fw.hung
    BY <1>2 DEF HandlerInv, CallInv
  <1>11. Fw.cdc = cdc /\ Fw.job = job /\ Fw.usart = usart
         /\ Fw.tx_data = tx_data /\ Fw.hung = hung
    BY DEF Fw
  <1>12. Fill(r) = Fill(Fw) /\ Taken(r, sent) = T
    BY <1>7, <1>11 DEF Fill, Taken
  <1>13. /\ Ascending(usart.line) /\ Before(wire, usart.line)
         /\ \A i \in 1 .. Len(wire) : wire[i] <= T
         /\ \A i \in 1 .. Len(usart.line) : usart.line[i] \in 1 .. T
    BY <1>10, <1>11 DEF LineInv
  <1>20. \A i \in 1 .. Len(r.usart.line) :
            i + 1 \in 1 .. Len(usart.line) /\ r.usart.line[i] = usart.line[i + 1]
    <2>1. r.usart.line = Tail(usart.line) BY <1>6, <1>7
    <2>2. Len(r.usart.line) = Len(usart.line) - 1 BY <2>1, <1>5
    <2>3. \A i \in 1 .. Len(usart.line) - 1 :
            i \in Int /\ i + 1 \in 1 .. Len(usart.line)
      BY <1>5
    <2>. QED BY <2>1, <2>2, <2>3, <1>5
  <1>14. /\ WireInv'
         /\ \A i \in 1 .. Len(wire') : wire'[i] <= T
         /\ usart.remaining > 0 =>
              \A i \in 1 .. Len(wire') : wire'[i] < tx_data
    BY <1>1, <1>4, <1>8, HeadLeaves
  <1>15. LineInv(r, sent, wire')
    <2>1. \A i \in 1 .. Len(r.usart.line) :
            i + 1 \in 1 .. Len(usart.line) /\ r.usart.line[i] = usart.line[i + 1]
      BY <1>20
    <2>2. Ascending(r.usart.line)
      <3>1. SUFFICES ASSUME NEW i \in 1 .. Len(r.usart.line),
                            NEW j \in 1 .. Len(r.usart.line), i < j
                     PROVE  r.usart.line[i] < r.usart.line[j]
        BY DEF Ascending
      <3>2. i + 1 < j + 1 BY <3>1
      <3>3. usart.line[i + 1] < usart.line[j + 1]
        BY <2>1, <3>2, <1>13 DEF Ascending
      <3>. QED BY <2>1, <3>3
    <2>3. Before(wire', r.usart.line)
      <3>1. SUFFICES ASSUME NEW i \in 1 .. Len(wire'),
                            NEW j \in 1 .. Len(r.usart.line)
                     PROVE  wire'[i] < r.usart.line[j]
        BY DEF Before
      <3>2. CASE i \in 1 .. Len(wire)
        BY <2>1, <3>2, <1>9, <1>13 DEF Before
      <3>3. CASE i = Len(wire) + 1
        <4>1. 1 \in 1 .. Len(usart.line) /\ 1 < j + 1 BY <1>5
        <4>2. usart.line[1] < usart.line[j + 1]
          BY <2>1, <4>1, <1>13 DEF Ascending
        <4>. QED BY <2>1, <3>3, <4>2, <1>9
      <3>. QED BY <3>2, <3>3, <1>9
    <2>5. \A i \in 1 .. Len(r.usart.line) : r.usart.line[i] \in 1 .. T
      BY <2>1, <1>13
    <2>. QED BY <2>2, <2>3, <2>5, <1>12, <1>14 DEF LineInv
  <1>16. PendingInv(r, sent, wire')
    <2>1. SUFFICES ASSUME usart.remaining > 0
                   PROVE  /\ tx_data \in 1 .. T
                          /\ \A i \in 1 .. Len(wire') : wire'[i] < tx_data
                          /\ \A i \in 1 .. Len(r.usart.line) :
                                r.usart.line[i] < tx_data
      BY <1>6, <1>7, <1>12 DEF PendingInv
    <2>2. /\ tx_data \in 1 .. T
          /\ \A i \in 1 .. Len(wire) : wire[i] < tx_data
          /\ \A i \in 1 .. Len(usart.line) : usart.line[i] < tx_data
      BY <2>1, <1>10, <1>11 DEF PendingInv
    <2>3. \A i \in 1 .. Len(wire') : wire'[i] < tx_data BY <2>1, <1>14
    <2>4. \A i \in 1 .. Len(r.usart.line) : r.usart.line[i] < tx_data
      BY <2>2, <1>20
    <2>. QED BY <2>2, <2>3, <2>4
  <1>17. HandlerInv(r, sent, wire')
    <2>1. SwapInv(r) BY <1>7, <1>10, <1>11 DEF SwapInv
    <2>2. QueueInv(r, sent)
      BY <1>7, <1>10, <1>11, <1>12 DEF QueueInv
    <2>3. JobInv(r) BY <1>7, <1>10, <1>11 DEF JobInv
    <2>. QED BY <2>1, <2>2, <2>3, <1>7, <1>10, <1>11, <1>15, <1>16
             DEF HandlerInv, CallInv
  <1>18. HandlerInv(r, sent', wire') /\ r.cdc.running
    BY <1>1, <1>7, <1>8, <1>17
  <1>19. /\ sent' \in 0 .. MaxBytes /\ control' \in 0 .. MaxControl
         /\ excused' \subseteq Byte
    BY <1>8 DEF IndInv, TypeOK
  <1>. QED BY <1>8, <1>9, <1>14, <1>18, <1>19, Established

(* The same for a control request that stops the USART.                    *)
LEMMA WireLeft ==
    ASSUME IndInv, NEW f \in BOOLEAN, LeavesWire(f), sent' = sent
    PROVE  /\ wire' \in Seq(Byte)
           /\ WireInv'
           /\ cdc.running =>
                /\ \A i \in 1 .. Len(wire') : wire'[i] <= Taken(Fw, sent)
                /\ usart.remaining > 0 =>
                     \A i \in 1 .. Len(wire') : wire'[i] < tx_data
  <1>1. CASE f /\ usart.line # <<>>
    <2>1. cdc.running BY <1>1 DEF IndInv
    <2>2. usart.line \in Seq(Byte) BY DEF IndInv, TypeOK, UsartType
    <2>3. wire' = Append(wire, usart.line[1])
      BY <1>1, <2>2 DEF LeavesWire
    <2>. QED BY <1>1, <2>1, <2>3, HeadLeaves
  <1>2. CASE ~(f /\ usart.line # <<>>)
    <2>1. wire' = wire BY <1>2 DEF LeavesWire
    <2>2. WireInv' BY <2>1 DEF IndInv, WireInv
    <2>3. wire' \in Seq(Byte) BY <2>1 DEF IndInv, TypeOK
    <2>4. ASSUME cdc.running
          PROVE  /\ \A i \in 1 .. Len(wire) : wire[i] <= Taken(Fw, sent)
                 /\ usart.remaining > 0 =>
                      \A i \in 1 .. Len(wire) : wire[i] < tx_data
      <3>1. LineInv(Fw, sent, wire) /\ PendingInv(Fw, sent, wire)
        BY <2>4 DEF IndInv
      <3>2. Fw.usart = usart /\ Fw.tx_data = tx_data BY DEF Fw
      <3>. QED BY <3>1, <3>2 DEF LineInv, PendingInv
    <2>. QED BY <2>1, <2>2, <2>3, <2>4
  <1>. QED BY <1>1, <1>2

(* What the driver calls of uart_config leave of the USART.                *)
LEMMA UartConfigCalls ==
    ASSUME NEW u \in UsartType(Byte), NEW ok \in BOOLEAN, NEW f \in BOOLEAN
    PROVE  /\ UartConfig(u, ok, f) \in UsartType(Byte)
           /\ UartConfig(u, ok, f).line = <<>>
           /\ ~ok => UartConfig(u, ok, f).remaining = u.remaining
           /\ ok => UartConfig(u, ok, f).remaining = 0
           /\ Disable(u, f) \in UsartType(Byte)
           /\ Disable(u, f).line = <<>> /\ ~Disable(u, f).enabled
           /\ Disable(u, f).remaining = u.remaining
  <1>1. /\ Disable(u, f) \in UsartType(Byte)
        /\ Disable(u, f).line = <<>> /\ ~Disable(u, f).enabled
        /\ Disable(u, f).remaining = u.remaining
    <2>1. <<>> \in Seq(Byte) OBVIOUS
    <2>2. (u.txc \/ (f /\ u.line # <<>>)) \in BOOLEAN OBVIOUS
    <2>. QED BY <2>1, <2>2 DEF Disable, UsartType
  <1>2. PICK d \in UsartType(Byte) : d = Disable(u, f) BY <1>1
  <1>3. /\ InitModule(d, ok) \in UsartType(Byte)
        /\ InitModule(d, ok).line = d.line
        /\ ~ok => InitModule(d, ok).remaining = d.remaining
        /\ ok => InitModule(d, ok).remaining = 0
    <2>1. CASE ok
      <3>1. InitModule(d, ok) = [d EXCEPT !.remaining = 0, !.cb = FALSE]
        BY <2>1 DEF InitModule
      <3>. QED BY <2>1, <3>1 DEF UsartType
    <2>2. CASE ~ok BY <2>2 DEF InitModule
    <2>. QED BY <2>1, <2>2
  <1>4. PICK i \in UsartType(Byte) : i = InitModule(d, ok) BY <1>3
  <1>5. /\ Enable(i) \in UsartType(Byte)
        /\ Enable(i).line = i.line /\ Enable(i).remaining = i.remaining
    BY DEF Enable, UsartType
  <1>6. PICK e \in UsartType(Byte) : e = Enable(i) BY <1>5
  <1>7. /\ EnableCallback(e) \in UsartType(Byte)
        /\ EnableCallback(e).line = e.line
        /\ EnableCallback(e).remaining = e.remaining
    BY UsartCalls
  <1>8. UartConfig(u, ok, f) = EnableCallback(e)
    BY <1>2, <1>4, <1>6 DEF UartConfig
  <1>. QED BY <1>1, <1>2, <1>3, <1>4, <1>5, <1>6, <1>7, <1>8

LEMMA LineCodingStep ==
    ASSUME IndInv, NEW ok \in BOOLEAN, NEW f \in BOOLEAN,
           LineCodingReceived(ok, f)
    PROVE  IndInv'
  <1> DEFINE u == UartConfig(usart, ok, f)
             r == [Fw EXCEPT !.usart = u]
             T == Taken(Fw, sent)
  <1>1. /\ cdc.running /\ usart' = u /\ LeavesWire(f)
        /\ UNCHANGED <<cdc, job, tx_data, hung, sent>>
        /\ control < MaxControl /\ control' = control + 1
    BY DEF LineCodingReceived, Disturb
  <1>2. /\ Fw \in FwType /\ HandlerInv(Fw, sent, wire)
        /\ sent \in Nat /\ wire \in Seq(Byte)
    BY <1>1, Ready
  <1>3. usart \in UsartType(Byte) /\ tx_data \in Byte
    BY DEF IndInv, TypeOK
  <1>4. /\ u \in UsartType(Byte) /\ u.line = <<>>
        /\ ~ok => u.remaining = usart.remaining
        /\ ok => u.remaining = 0
    BY <1>3, UartConfigCalls
  <1>. HIDE DEF u
  <1>5. /\ r \in FwType /\ r.cdc = cdc /\ r.job = job
        /\ r.tx_data = tx_data /\ r.hung = hung /\ r.usart = u
    BY <1>2, <1>4 DEF Fw, FwType
  <1>6. Becomes(r) BY <1>1, <1>5 DEF Becomes
  <1>. HIDE DEF r
  <1>7. /\ wire' \in Seq(Byte) /\ WireInv'
        /\ \A i \in 1 .. Len(wire') : wire'[i] <= T
        /\ usart.remaining > 0 =>
             \A i \in 1 .. Len(wire') : wire'[i] < tx_data
    BY <1>1, WireLeft
  <1>8. Fw.cdc = cdc /\ Fw.job = job /\ Fw.usart = usart
        /\ Fw.tx_data = tx_data /\ Fw.hung = hung
    BY DEF Fw
  <1>9. Fill(r) = Fill(Fw) /\ Taken(r, sent) = T
    BY <1>5, <1>8 DEF Fill, Taken
  <1>10. /\ SwapInv(Fw) /\ QueueInv(Fw, sent) /\ JobInv(Fw)
         /\ PendingInv(Fw, sent, wire) /\ ~Fw.hung
    BY <1>2 DEF HandlerInv, CallInv
  <1>11. LineInv(r, sent, wire')
    <2>1. r.usart.line = <<>> /\ 1 .. Len(r.usart.line) = {}
      BY <1>4, <1>5
    <2>. QED BY <2>1, <1>7, <1>9 DEF LineInv, Ascending, Before
  <1>12. PendingInv(r, sent, wire')
    <2>1. SUFFICES ASSUME u.remaining > 0
                   PROVE  /\ tx_data \in 1 .. T
                          /\ \A i \in 1 .. Len(wire') : wire'[i] < tx_data
      BY <1>4, <1>5, <1>9 DEF PendingInv
    <2>2. usart.remaining > 0 BY <2>1, <1>4
    <2>. QED BY <2>2, <1>7, <1>8, <1>10 DEF PendingInv
  <1>13. HandlerInv(r, sent, wire')
    <2>1. SwapInv(r) BY <1>5, <1>8, <1>10 DEF SwapInv
    <2>2. QueueInv(r, sent) BY <1>5, <1>8, <1>9, <1>10 DEF QueueInv
    <2>3. JobInv(r) BY <1>5, <1>8, <1>10 DEF JobInv
    <2>. QED BY <2>1, <2>2, <2>3, <1>5, <1>8, <1>10, <1>11, <1>12
             DEF HandlerInv, CallInv
  <1>14. excused' \subseteq Byte
    <2>1. usart.line \in Seq(Byte) BY <1>3 DEF UsartType
    <2>2. Pending \in Seq(Byte) BY <1>3 DEF Pending
    <2>3. usart.line \o Pending \in Seq(Byte) BY <2>1, <2>2
    <2>4. \A q \in Seq(Byte) : Elements(q) \subseteq Byte BY DEF Elements
    <2>5. /\ Elements(usart.line \o Pending) \subseteq Byte
          /\ Elements(usart.line) \subseteq Byte
      BY <2>1, <2>3, <2>4
    <2>6. excused \subseteq Byte BY DEF IndInv, TypeOK
    <2>. QED BY <2>5, <2>6 DEF LineCodingReceived
  <1>15. sent' \in 0 .. MaxBytes /\ control' \in 0 .. MaxControl
    BY <1>1, Sizes DEF IndInv, TypeOK
  <1>16. HandlerInv(r, sent', wire') /\ r.cdc.running
    BY <1>1, <1>5, <1>13
  <1>. QED BY <1>6, <1>7, <1>14, <1>15, <1>16, Established

LEMMA ResetTyped == CdcReset \in CdcType /\ JobIdle \in JobType
  <1>1. 0 \in 0 .. RxBuffers /\ 0 \in Buffer /\ 0 \in Byte
    BY Sizes DEF Buffer, Byte
  <1>2. EmptyBuffer \in [0 .. RxBuffers - 1 -> Byte]
    BY <1>1 DEF EmptyBuffer
  <1>. QED BY <1>1, <1>2 DEF CdcReset, CdcType, JobIdle, JobType

(* Enabling the data interface starts over with empty buffers: all that    *)
(* was sent before counts as taken.                                        *)
Emptied(r, s, top) ==
    /\ r.cdc.ongoing = TRUE /\ r.cdc.nb[r.cdc.sel] = 0
    /\ r.usart = s.usart /\ r.tx_data = s.tx_data
    /\ Taken(r, top) = top

LEMMA DataEnableStarts ==
    ASSUME NEW top \in Nat, NEW w \in Seq(Byte), NEW s \in FwType,
           ~s.hung, s.job = JobIdle, s.usart.line = <<>>,
           \A i \in 1 .. Len(w) : w[i] <= top,
           s.usart.remaining > 0 =>
             /\ s.tx_data \in 1 .. top
             /\ \A i \in 1 .. Len(w) : w[i] < s.tx_data
    PROVE  LET r == DataEnable(s)
           IN  /\ HandlerInv(r, top, w)
               /\ r.cdc.running
               /\ Emptied(r, s, top)
  <1> DEFINE c == [CdcReset EXCEPT !.rx_buf = s.cdc.rx_buf]
  <1>1. /\ c \in CdcType /\ c.nb[0] = 0 /\ c.nb[1] = 0 /\ c.sel = 0
        /\ c.pos = 0 /\ c.ongoing = FALSE
    <2>1. 0 \in 0 .. RxBuffers /\ 0 \in Buffer BY Sizes DEF Buffer
    <2>2. [b \in Buffer |-> 0] \in [Buffer -> 0 .. RxBuffers] BY <2>1
    <2>3. s.cdc.rx_buf \in [Buffer -> [0 .. RxBuffers - 1 -> Byte]]
      BY DEF FwType, CdcType
    <2>4. /\ CdcReset.nb = [b \in Buffer |-> 0] /\ CdcReset.sel = 0
          /\ CdcReset.pos = 0 /\ CdcReset.ongoing = FALSE
      BY DEF CdcReset
    <2>5. CdcReset \in CdcType BY ResetTyped
    <2>6. /\ c \in CdcType
          /\ c.nb = [b \in Buffer |-> 0] /\ c.sel = 0 /\ c.pos = 0
          /\ c.ongoing = FALSE
      BY <2>3, <2>4, <2>5 DEF CdcType
    <2>7. c.nb[0] = 0 /\ c.nb[1] = 0 BY <2>6 DEF Buffer
    <2>. QED BY <2>6, <2>7
  <1>2. PICK q \in FwType : q = [s EXCEPT !.cdc = c]
    BY <1>1 DEF FwType
  <1>3. /\ q.cdc = c /\ q.job = s.job /\ q.usart = s.usart
        /\ q.tx_data = s.tx_data /\ q.hung = s.hung
    BY <1>2 DEF FwType
  <1>. HIDE DEF c
  <1>4. ~q.job.busy /\ ~RxStartRefused(q.cdc)
    BY <1>1, <1>3 DEF JobIdle, RxStartRefused
  <1>5. Other(q.cdc.sel) = 1 /\ q.cdc.sel = 0 BY <1>1, <1>3 DEF Other
  <1>6. PICK t \in FwType : t = RxStart(q) BY RxStartType
  <1>7. /\ t.cdc.sel = 1 /\ t.cdc.ongoing = TRUE /\ t.cdc.nb = c.nb
        /\ t.cdc.pos = 0 /\ t.usart = s.usart /\ t.tx_data = s.tx_data
        /\ t.hung = s.hung
        /\ t.job = [busy |-> TRUE, buf |-> 0, count |-> 0, armed |-> TRUE,
                    trcpt |-> FALSE]
    <2>1. q.cdc.nb[Other(q.cdc.sel)] = 0 BY <1>1, <1>3, <1>5
    <2>2. /\ RxStart(q).cdc.sel = Other(q.cdc.sel)
          /\ RxStart(q).cdc.ongoing = TRUE
          /\ RxStart(q).cdc.nb = q.cdc.nb
          /\ RxStart(q).job = [busy |-> TRUE, buf |-> q.cdc.sel, count |-> 0,
                               armed |-> TRUE, trcpt |-> FALSE]
          /\ RxStart(q).hung = q.hung
          /\ RxStart(q).cdc.pos = 0
          /\ RxStart(q).usart = q.usart /\ RxStart(q).tx_data = q.tx_data
      BY <1>4, <2>1, RxStartSwap
    <2>. QED BY <2>2, <1>3, <1>5, <1>6
  <1>8. PICK r : r = [t EXCEPT !.cdc.running = TRUE] OBVIOUS
  <1>9. r = DataEnable(s) BY <1>2, <1>6, <1>8 DEF DataEnable, c
  <1>10. /\ r \in FwType
         /\ r.cdc.sel = 1 /\ r.cdc.ongoing = TRUE /\ r.cdc.nb = c.nb
         /\ r.cdc.pos = 0 /\ r.usart = s.usart /\ r.tx_data = s.tx_data
         /\ r.hung = s.hung /\ r.cdc.running = TRUE
         /\ r.job = [busy |-> TRUE, buf |-> 0, count |-> 0, armed |-> TRUE,
                     trcpt |-> FALSE]
    BY <1>7, <1>8 DEF FwType, CdcType
  <1>11. Other(r.cdc.sel) = 0 BY <1>10 DEF Other
  <1>12. Fill(r) = 0 BY <1>10 DEF Fill
  <1>13. r.cdc.nb[r.cdc.sel] = 0 BY <1>1, <1>10
  <1>14. Taken(r, top) = top BY <1>10, <1>12, <1>13 DEF Taken
  <1>15. SwapInv(r)
    <2>1. r.job.busy = TRUE /\ r.job.buf = 0 BY <1>10
    <2>2. r.cdc.pos <= r.cdc.nb[r.cdc.sel] BY <1>10, <1>13
    <2>. QED BY <2>1, <2>2, <1>10, <1>11 DEF SwapInv
  <1>16. QueueInv(r, top)
    BY <1>10, <1>12, <1>13, <1>14 DEF QueueInv
  <1>17. LineInv(r, top, w)
    <2>1. r.usart.line = <<>> /\ 1 .. Len(r.usart.line) = {} BY <1>10
    <2>. QED BY <2>1, <1>14 DEF LineInv, Ascending, Before
  <1>18. PendingInv(r, top, w)
    <2>1. 1 .. Len(r.usart.line) = {} BY <1>10
    <2>. QED BY <2>1, <1>10, <1>14 DEF PendingInv
  <1>19. JobInv(r)
    <2>1. /\ r.job.busy = (r.job.armed \/ r.job.trcpt)
          /\ r.job.count < RxBuffers
          /\ (RxBuffers - r.job.count) % EpSize = 0
      BY <1>10, FreshJob
    <2>. QED BY <2>1, <1>10 DEF JobInv
  <1>20. CallInv(r, top, w)
    BY <1>10, <1>15, <1>16, <1>17 DEF CallInv
  <1>21. Emptied(r, s, top) BY <1>10, <1>13, <1>14 DEF Emptied
  <1>. QED BY <1>9, <1>10, <1>18, <1>19, <1>20, <1>21 DEF HandlerInv

(* What the device knows when the data interface was just disabled.        *)
LEMMA Disabled ==
    ASSUME IndInv, NEW f \in BOOLEAN
    PROVE  LET s == DataDisable(Fw, f)
           IN  /\ s \in FwType /\ s.hung = FALSE /\ s.job = JobIdle
               /\ s.usart.line = <<>> /\ ~s.usart.enabled
               /\ s.usart.remaining = usart.remaining
               /\ s.tx_data = tx_data /\ s.cdc.running = FALSE
  <1>1. Fw \in FwType BY FwTyped DEF IndInv
  <1>2. /\ Fw.usart = usart /\ Fw.tx_data = tx_data /\ Fw.hung = hung
    BY DEF Fw
  <1>3. hung = FALSE /\ usart \in UsartType(Byte) BY DEF IndInv, TypeOK
  <1>4. PICK u \in UsartType(Byte) : u = Disable(usart, f)
    BY <1>3, UartConfigCalls
  <1>5. /\ u.line = <<>> /\ ~u.enabled /\ u.remaining = usart.remaining
    BY <1>3, <1>4, UartConfigCalls
  <1>6. PICK s : s = DataDisable(Fw, f) OBVIOUS
  <1>7. s = [Fw EXCEPT !.job = JobIdle, !.cdc.running = FALSE, !.usart = u]
    BY <1>2, <1>4, <1>6 DEF DataDisable
  <1>8. JobIdle \in JobType BY ResetTyped
  <1>9. /\ s \in FwType /\ s.hung = hung /\ s.job = JobIdle
        /\ s.usart = u /\ s.tx_data = tx_data /\ s.cdc.running = FALSE
    BY <1>1, <1>2, <1>7, <1>8 DEF FwType, CdcType
  <1>. QED BY <1>3, <1>5, <1>6, <1>9

LEMMA SetInterfaceStep ==
    ASSUME IndInv, NEW f \in BOOLEAN, SetInterfaceData(f)
    PROVE  IndInv'
  <1>1. /\ cdc.running /\ LeavesWire(f) /\ sent' = sent
        /\ control < MaxControl /\ control' = control + 1
        /\ excused' = 1 .. sent
        /\ Becomes(DataEnable(DataDisable(Fw, f)))
    BY DEF SetInterfaceData, Disturb
  <1>2. PICK s \in FwType : s = DataDisable(Fw, f) BY Disabled
  <1>3. /\ ~s.hung /\ s.job = JobIdle /\ s.usart.line = <<>>
        /\ s.usart.remaining = usart.remaining /\ s.tx_data = tx_data
    BY <1>2, Disabled
  <1>4. /\ wire' \in Seq(Byte) /\ WireInv'
        /\ usart.remaining > 0 =>
             \A i \in 1 .. Len(wire') : wire'[i] < tx_data
    BY <1>1, WireLeft
  <1>5. /\ sent \in Nat /\ sent \in 0 .. MaxBytes
        /\ Taken(Fw, sent) \in 0 .. sent
        /\ PendingInv(Fw, sent, wire)
    <2>1. sent \in 0 .. MaxBytes BY DEF IndInv, TypeOK
    <2>. QED BY <2>1, <1>1, TakenWasSent, Sizes DEF IndInv
  <1>6. \A i \in 1 .. Len(wire') : wire'[i] <= sent
    BY <1>1, <1>4 DEF WireInv
  <1>7. s.usart.remaining > 0 => s.tx_data \in 1 .. sent
    <2>1. Fw.usart = usart /\ Fw.tx_data = tx_data BY DEF Fw
    <2>2. usart.remaining > 0 => tx_data \in 1 .. Taken(Fw, sent)
      BY <2>1, <1>5 DEF PendingInv
    <2>. QED BY <2>2, <1>3, <1>5
  <1>8. PICK r : r = DataEnable(s) OBVIOUS
  <1>9. HandlerInv(r, sent, wire') /\ r.cdc.running
    BY <1>3, <1>4, <1>5, <1>6, <1>7, <1>8, DataEnableStarts
  <1>10. HandlerInv(r, sent', wire') /\ Becomes(r) BY <1>1, <1>2, <1>8, <1>9
  <1>11. /\ sent' \in 0 .. MaxBytes /\ control' \in 0 .. MaxControl
         /\ excused' \subseteq Byte
    <2>1. excused' \subseteq Byte BY <1>1, <1>5, Sizes DEF Byte
    <2>. QED BY <2>1, <1>1, <1>5, Sizes DEF IndInv, TypeOK
  <1>. QED BY <1>4, <1>9, <1>10, <1>11, Established

LEMMA ResetStep == ASSUME IndInv, NEW f \in BOOLEAN, Reset(f) PROVE IndInv'
  <1>1. /\ LeavesWire(f) /\ sent' = sent /\ Becomes(DataDisable(Fw, f))
        /\ control < MaxControl /\ control' = control + 1
        /\ excused' = 1 .. sent
    BY DEF Reset, Disturb
  <1>2. PICK s \in FwType : s = DataDisable(Fw, f) BY Disabled
  <1>3. /\ s.hung = FALSE /\ s.job = JobIdle /\ s.usart.line = <<>>
        /\ ~s.usart.enabled /\ s.cdc.running = FALSE
    BY <1>2, Disabled
  <1>4. wire' \in Seq(Byte) /\ WireInv' BY <1>1, WireLeft
  <1>5. /\ cdc' = s.cdc /\ job' = s.job /\ usart' = s.usart
        /\ tx_data' = s.tx_data /\ hung' = s.hung
    BY <1>1, <1>2 DEF Becomes
  <1>6. /\ sent' \in 0 .. MaxBytes /\ control' \in 0 .. MaxControl
        /\ excused' \subseteq Byte
    <2>1. sent \in 0 .. MaxBytes /\ control \in 0 .. MaxControl
      BY DEF IndInv, TypeOK
    <2>2. excused' \subseteq Byte BY <2>1, <1>1, Sizes DEF Byte
    <2>. QED BY <2>1, <2>2, <1>1, Sizes
  <1>7. TypeOK' BY <1>2, <1>4, <1>5, <1>6 DEF TypeOK, FwType
  <1>. QED BY <1>3, <1>4, <1>5, <1>7, Unconfigured

LEMMA SetConfigurationStep ==
    ASSUME IndInv, NEW f \in BOOLEAN, SetConfiguration(f) PROVE IndInv'
  <1> DEFINE u == UartConfig(usart, TRUE, f)
  <1>1. /\ ~cdc.running /\ LeavesWire(f)
        /\ UNCHANGED <<sent, control, excused>>
        /\ Becomes(DataEnable([Fw EXCEPT !.usart = UartConfig(@, TRUE, f)]))
    BY DEF SetConfiguration
  <1>2. Fw \in FwType /\ usart \in UsartType(Byte)
    BY FwTyped DEF IndInv, TypeOK
  <1>3. u \in UsartType(Byte) /\ u.line = <<>> /\ u.remaining = 0
    BY <1>2, UartConfigCalls
  <1>4. PICK s : s = [Fw EXCEPT !.usart = UartConfig(@, TRUE, f)] OBVIOUS
  <1>5. s = [Fw EXCEPT !.usart = u] BY <1>4 DEF Fw
  <1>. HIDE DEF u
  <1>6. /\ s \in FwType /\ s.usart = u /\ s.job = job /\ s.hung = hung
    BY <1>2, <1>3, <1>5 DEF Fw, FwType
  <1>7. /\ ~s.hung /\ s.job = JobIdle /\ s.usart.line = <<>>
        /\ ~(s.usart.remaining > 0)
    BY <1>1, <1>3, <1>6 DEF IndInv
  <1>8. wire' \in Seq(Byte) /\ WireInv' BY <1>1, WireLeft
  <1>9. \A i \in 1 .. Len(wire') : wire'[i] <= sent
    BY <1>1, <1>8 DEF WireInv
  <1>10. sent \in Nat BY Sizes DEF IndInv, TypeOK
  <1>11. PICK r : r = DataEnable(s) OBVIOUS
  <1>12. HandlerInv(r, sent, wire') /\ r.cdc.running
    BY <1>6, <1>7, <1>8, <1>9, <1>10, <1>11, DataEnableStarts
  <1>13. HandlerInv(r, sent', wire') /\ Becomes(r)
    BY <1>1, <1>4, <1>11, <1>12
  <1>14. /\ sent' \in 0 .. MaxBytes /\ control' \in 0 .. MaxControl
         /\ excused' \subseteq Byte
    BY <1>1 DEF IndInv, TypeOK
  <1>. QED BY <1>8, <1>12, <1>13, <1>14, Established

(* A job that lacks a whole number of packets has room for the next one.   *)
LEMMA RoomForPacket ==
    ASSUME NEW count \in Nat, count < RxBuffers,
           (RxBuffers - count) % EpSize = 0, NEW n \in 0 .. EpSize
    PROVE  /\ count + n <= RxBuffers
           /\ n = EpSize => (RxBuffers - (count + n)) % EpSize = 0
  <1> DEFINE a == RxBuffers - count
  <1>1. /\ a \in Nat /\ a > 0 /\ EpSize \in Nat /\ EpSize > 0
        /\ RxBuffers \in Nat /\ n \in Nat /\ n <= EpSize
    BY Sizes
  <1>2. a % EpSize = 0 OBVIOUS
  <1>3. RxBuffers - (count + EpSize) = a - EpSize BY <1>1
  <1>4. RxBuffers = a + count BY <1>1
  <1>. HIDE DEF a
  <1>5. \E k \in Nat : a = EpSize * k BY <1>1, <1>2, SMTT(30)
  <1>6. PICK k \in Nat : a = EpSize * k BY <1>5
  <1>7. k # 0 BY <1>1, <1>6
  <1>8. k - 1 \in Nat BY <1>7
  <1>9. PICK j \in Nat : j = k - 1 BY <1>8
  <1>10. a = EpSize * j + EpSize BY <1>1, <1>6, <1>9
  <1>11. EpSize * j >= 0 /\ EpSize * j \in Nat BY <1>1
  <1>12. a >= EpSize BY <1>1, <1>10, <1>11
  <1>13. count + n <= RxBuffers BY <1>1, <1>4, <1>12
  <1>14. a - EpSize = EpSize * j BY <1>1, <1>10, <1>11
  <1>15. (EpSize * j) % EpSize = 0 BY <1>1, SMTT(30)
  <1>16. (a - EpSize) % EpSize = 0 BY <1>14, <1>15
  <1>. QED BY <1>3, <1>13, <1>16

LEMMA HostPacketStep ==
    ASSUME IndInv, NEW n \in 0 .. EpSize, HostPacket(n) PROVE IndInv'
  <1> DEFINE o     == Other(cdc.sel)
             count == job.count + n
             done  == n < EpSize \/ count = RxBuffers
             buf   == [i \in 0 .. RxBuffers - 1 |->
                         IF job.count <= i /\ i < count
                         THEN sent + 1 + i - job.count
                         ELSE cdc.rx_buf[job.buf][i]]
  <1>1. cdc.running BY DEF HostPacket, IndInv, JobIdle
  <1>2. /\ Fw \in FwType /\ HandlerInv(Fw, sent, wire)
        /\ sent \in Nat /\ wire \in Seq(Byte)
    BY <1>1, Ready
  <1>3. /\ cdc \in CdcType /\ job \in JobType /\ sent \in 0 .. MaxBytes
    BY DEF IndInv, TypeOK
  <1>4. /\ Fw.cdc = cdc /\ Fw.job = job /\ Fw.usart = usart
        /\ Fw.tx_data = tx_data /\ Fw.hung = hung
    BY DEF Fw
  <1>5. /\ cdc.sel \in {0, 1} /\ o \in {0, 1} /\ o # cdc.sel
        /\ cdc.pos \in Nat /\ cdc.nb[cdc.sel] \in 0 .. RxBuffers
        /\ job.count \in 0 .. RxBuffers
    BY <1>2, <1>4, Buffers
  <1>6. /\ n \in Nat /\ job.count \in Nat /\ RxBuffers \in Nat
        /\ EpSize \in Nat /\ cdc.nb[cdc.sel] \in Nat
        /\ count = job.count + n /\ count \in Nat
    BY <1>5, Sizes
  <1>7. /\ SwapInv(Fw) /\ QueueInv(Fw, sent) /\ JobInv(Fw)
        /\ LineInv(Fw, sent, wire) /\ PendingInv(Fw, sent, wire) /\ ~Fw.hung
    BY <1>2 DEF HandlerInv, CallInv
  <1>8. /\ job.armed /\ job.busy /\ job.buf = o /\ cdc.ongoing = TRUE
        /\ job.count < RxBuffers /\ (RxBuffers - job.count) % EpSize = 0
    <2>1. job.armed BY DEF HostPacket
    <2>2. job.busy BY <2>1, <1>4, <1>7 DEF JobInv
    <2>3. cdc.ongoing \in BOOLEAN /\ job.busy \in BOOLEAN
      BY <1>3 DEF CdcType, JobType
    <2>. QED BY <2>1, <2>2, <2>3, <1>4, <1>7 DEF SwapInv, JobInv
  <1>9. /\ count <= RxBuffers
        /\ n = EpSize => (RxBuffers - count) % EpSize = 0
    BY <1>6, <1>8, RoomForPacket
  <1>10. /\ job' = [job EXCEPT !.count = count, !.armed = ~done,
                               !.trcpt = done]
         /\ cdc' = [cdc EXCEPT !.rx_buf[job.buf] = buf]
         /\ sent' = sent + n /\ sent + n <= MaxBytes
         /\ UNCHANGED <<usart, tx_data, hung, wire, control, excused>>
    BY DEF HostPacket
  <1>11. buf \in [0 .. RxBuffers - 1 -> Byte]
    <2>1. \A i \in 0 .. RxBuffers - 1 :
            job.count <= i /\ i < count => sent + 1 + i - job.count \in Byte
      <3>1. /\ sent + n <= MaxBytes /\ sent \in Nat /\ n \in Nat
            /\ job.count \in Nat /\ MaxBytes \in Nat
        BY <1>2, <1>6, <1>10, Sizes
      <3>. QED BY <3>1 DEF Byte
    <2>2. cdc.rx_buf[o] \in [0 .. RxBuffers - 1 -> Byte]
      BY <1>3, <1>5 DEF CdcType, Buffer
    <2>. QED BY <2>1, <2>2, <1>8
  <1>12. /\ \A i \in 0 .. job.count - 1 : buf[i] = cdc.rx_buf[o][i]
         /\ \A i \in job.count .. count - 1 :
               buf[i] = sent + 1 + i - job.count
    <2>1. \A i \in 0 .. RxBuffers - 1 :
            buf[i] = IF job.count <= i /\ i < count
                     THEN sent + 1 + i - job.count ELSE cdc.rx_buf[o][i]
      BY <1>8
    <2>2. \A i \in 0 .. job.count - 1 :
            /\ i \in 0 .. RxBuffers - 1
            /\ ~(job.count <= i)
      BY <1>6, <1>9
    <2>3. \A i \in job.count .. count - 1 :
            /\ i \in 0 .. RxBuffers - 1
            /\ job.count <= i /\ i < count
      BY <1>6, <1>9
    <2>4. \A i \in 0 .. job.count - 1 : buf[i] = cdc.rx_buf[o][i]
      BY <2>1, <2>2
    <2>5. \A i \in job.count .. count - 1 : buf[i] = sent + 1 + i - job.count
      BY <2>1, <2>3
    <2>. QED BY <2>4, <2>5
  <1>13. PICK rx : rx = [cdc.rx_buf EXCEPT ![o] = buf] OBVIOUS
  <1>14. /\ rx \in [Buffer -> [0 .. RxBuffers - 1 -> Byte]]
         /\ rx[o] = buf /\ rx[cdc.sel] = cdc.rx_buf[cdc.sel]
    BY <1>3, <1>5, <1>11, <1>13 DEF CdcType, Buffer
  <1>. HIDE DEF buf
  <1>15. /\ cdc' \in CdcType /\ cdc'.rx_buf = rx /\ cdc'.nb = cdc.nb
         /\ cdc'.sel = cdc.sel /\ cdc'.pos = cdc.pos
         /\ cdc'.ongoing = TRUE /\ cdc'.running = TRUE
    <2>1. cdc' = [cdc EXCEPT !.rx_buf = rx] BY <1>8, <1>10, <1>13
    <2>2. cdc.running = TRUE BY <1>1, <1>3 DEF CdcType
    <2>. QED BY <2>1, <2>2, <1>3, <1>8, <1>14 DEF CdcType
  <1>16. /\ job' \in JobType /\ job'.count = count /\ job'.armed = ~done
         /\ job'.trcpt = done /\ job'.busy = TRUE /\ job'.buf = o
    <2>1. count \in 0 .. RxBuffers /\ done \in BOOLEAN BY <1>6, <1>9
    <2>2. job.busy = TRUE BY <1>3, <1>8 DEF JobType
    <2>. QED BY <2>1, <2>2, <1>3, <1>8, <1>10 DEF JobType
  <1>17. PICK r : r = Fw' OBVIOUS
  <1>a. PICK top \in Nat : top = sent + n BY <1>2, <1>6
  <1>b. PICK m \in Nat : m = count BY <1>6
  <1>c. top - m = sent - job.count BY <1>2, <1>6, <1>a, <1>b
  <1>18. /\ r.cdc = cdc' /\ r.job = job' /\ r.usart = usart
         /\ r.tx_data = tx_data /\ r.hung = hung
    BY <1>10, <1>17 DEF Fw
  <1>19. r \in FwType /\ Becomes(r)
    <2>1. r = [cdc |-> cdc', job |-> job', usart |-> usart',
               tx_data |-> tx_data', hung |-> hung']
      BY <1>17 DEF Fw
    <2>2. usart \in UsartType(Byte) /\ tx_data \in Byte /\ hung \in BOOLEAN
      BY DEF IndInv, TypeOK
    <2>. QED BY <2>1, <2>2, <1>10, <1>15, <1>16 DEF FwType, Becomes
  <1>20. /\ Fill(Fw) = job.count /\ Fill(r) = m
         /\ Taken(r, top) = Taken(Fw, sent)
    <2>1. Fill(Fw) = job.count BY <1>4, <1>8 DEF Fill
    <2>2. Fill(r) = m BY <1>15, <1>16, <1>18, <1>b DEF Fill
    <2>3. Taken(r, top) = top - m - (cdc.nb[cdc.sel] - cdc.pos)
      BY <2>2, <1>15, <1>18 DEF Taken
    <2>4. Taken(Fw, sent) = sent - job.count - (cdc.nb[cdc.sel] - cdc.pos)
      BY <2>1, <1>4 DEF Taken
    <2>. QED BY <2>1, <2>2, <2>3, <2>4, <1>c
  <1>21. SwapInv(r)
    BY <1>4, <1>7, <1>15, <1>16, <1>18 DEF SwapInv
  <1>22. QueueInv(r, top)
    <2>1. Taken(r, top) >= 0 BY <1>7, <1>20 DEF QueueInv
    <2>2. \A i \in 0 .. job.count - 1 :
            cdc.rx_buf[o][i] = sent - job.count + 1 + i
      BY <1>4, <1>7, <1>20 DEF QueueInv
    <2>3. \A i \in 0 .. m - 1 : rx[o][i] = top - m + 1 + i
      <3>1. SUFFICES ASSUME NEW i \in 0 .. m - 1
                     PROVE  buf[i] = sent - job.count + 1 + i
        BY <1>14, <1>c
      <3>2. CASE i \in 0 .. job.count - 1
        BY <2>2, <3>2, <1>12
      <3>3. CASE i \in job.count .. count - 1
        BY <3>3, <1>2, <1>6, <1>12
      <3>. QED BY <3>2, <3>3, <1>6, <1>b
    <2>4. \A i \in cdc.pos .. cdc.nb[cdc.sel] - 1 :
            cdc.rx_buf[cdc.sel][i] = sent - job.count - cdc.nb[cdc.sel] + 1 + i
      BY <1>4, <1>7, <1>20 DEF QueueInv
    <2>5. \A i \in cdc.pos .. cdc.nb[cdc.sel] - 1 :
            rx[cdc.sel][i] = top - m - cdc.nb[cdc.sel] + 1 + i
      BY <2>4, <1>14, <1>c
    <2>. QED BY <2>1, <2>3, <2>5, <1>15, <1>18, <1>20 DEF QueueInv
  <1>23. LineInv(r, top, wire) BY <1>4, <1>7, <1>18, <1>20 DEF LineInv
  <1>24. PendingInv(r, top, wire)
    BY <1>4, <1>7, <1>18, <1>20 DEF PendingInv
  <1>25. JobInv(r)
    <2>1. r.job.busy = (r.job.armed \/ r.job.trcpt) BY <1>16, <1>18
    <2>2. ASSUME r.job.armed
          PROVE  count < RxBuffers /\ (RxBuffers - count) % EpSize = 0
      <3>1. ~done BY <2>2, <1>16, <1>18
      <3>2. n = EpSize /\ count # RxBuffers BY <3>1, <1>6
      <3>. QED BY <3>2, <1>6, <1>9
    <2>3. r.cdc.ongoing BY <1>15, <1>18
    <2>. QED BY <2>1, <2>2, <2>3, <1>16, <1>18 DEF JobInv
  <1>26. HandlerInv(r, sent', wire') /\ r.cdc.running
    <2>1. CallInv(r, top, wire)
      BY <1>4, <1>7, <1>18, <1>19, <1>21, <1>22, <1>23 DEF CallInv
    <2>. QED BY <2>1, <1>10, <1>15, <1>18, <1>24, <1>25, <1>a DEF HandlerInv
  <1>27. WireInv'
    <2>1. \A x \in 1 .. sent : x \in 1 .. sent + n BY <1>2, <1>6
    <2>. QED BY <2>1, <1>10 DEF IndInv, WireInv
  <1>28. /\ sent' \in 0 .. MaxBytes /\ wire' \in Seq(Byte)
         /\ control' \in 0 .. MaxControl /\ excused' \subseteq Byte
    <2>1. sent + n \in 0 .. MaxBytes BY <1>2, <1>6, <1>10, Sizes
    <2>. QED BY <2>1, <1>10 DEF IndInv, TypeOK
  <1>. QED BY <1>19, <1>26, <1>27, <1>28, Established
-----------------------------------------------------------------------------
(* The theorems.                                                           *)

LEMMA InitInv == Init => IndInv
  <1>. SUFFICES ASSUME Init PROVE IndInv OBVIOUS
  <1>1. cdc \in CdcType /\ job \in JobType BY ResetTyped DEF Init
  <1>2. /\ usart \in UsartType(Byte) /\ ~usart.enabled
        /\ usart.line = <<>>
    <2>1. <<>> \in Seq(Byte) OBVIOUS
    <2>. QED BY <2>1 DEF Init, UsartReset, UsartType
  <1>3. TypeOK
    <2>1. wire \in Seq(Byte) BY DEF Init
    <2>2. /\ tx_data \in Byte /\ hung \in BOOLEAN
          /\ sent \in 0 .. MaxBytes /\ control \in 0 .. MaxControl
          /\ excused \subseteq Byte
      <3>1. /\ tx_data = 0 /\ hung = FALSE /\ sent = 0 /\ control = 0
            /\ excused = {}
        BY DEF Init
      <3>2. 0 \in Byte BY Sizes DEF Byte
      <3>3. sent \in 0 .. MaxBytes /\ control \in 0 .. MaxControl
        BY <3>1, Sizes
      <3>4. hung \in BOOLEAN BY <3>1
      <3>5. tx_data \in Byte BY <3>1, <3>2
      <3>6. excused \subseteq Byte BY <3>1
      <3>. QED BY <3>3, <3>4, <3>5, <3>6
    <2>. QED BY <1>1, <1>2, <2>1, <2>2 DEF TypeOK
  <1>4. WireInv
    <2>1. 1 .. Len(wire) = {} BY DEF Init
    <2>. QED BY <2>1 DEF WireInv, Ascending
  <1>5. ~cdc.running BY DEF Init, CdcReset
  <1>. QED BY <1>2, <1>3, <1>4, <1>5 DEF Init, IndInv

LEMMA StepInv == IndInv /\ [Next]_vars => IndInv'
  <1>. SUFFICES ASSUME IndInv, [Next]_vars PROVE IndInv' OBVIOUS
  <1>1. CASE \E n \in 0 .. EpSize : HostPacket(n) BY <1>1, HostPacketStep
  <1>2. CASE FrameSent BY <1>2, FrameSentStep
  <1>3. CASE OutTransferComplete BY <1>3, OutTransferStep
  <1>4. CASE UsartInterrupt BY <1>4, UsartStep
  <1>5. ASSUME NEW f \in BOOLEAN, NEW ok \in BOOLEAN,
               LineCodingReceived(ok, f)
        PROVE  IndInv'
    BY <1>5, LineCodingStep
  <1>6. ASSUME NEW f \in BOOLEAN, SetInterfaceData(f) PROVE IndInv'
    BY <1>6, SetInterfaceStep
  <1>7. ASSUME NEW f \in BOOLEAN, Reset(f) PROVE IndInv'
    BY <1>7, ResetStep
  <1>8. ASSUME NEW f \in BOOLEAN, SetConfiguration(f) PROVE IndInv'
    BY <1>8, SetConfigurationStep
  <1>9. CASE UNCHANGED vars
    BY <1>9 DEF vars, IndInv, TypeOK, WireInv, Fw, SwapInv, JobInv,
       QueueInv, LineInv, PendingInv, Taken, Fill
  <1>. QED BY <1>1, <1>2, <1>3, <1>4, <1>5, <1>6, <1>7, <1>8, <1>9 DEF Next

(* The inductive invariant of the host to UART path.                       *)
THEOREM Invariance == Spec => []IndInv
  BY InitInv, StepInv, PTL DEF Spec

(* Types and index ranges of udi_cdc.c and udd_ep_job: no buffer overrun   *)
(* for any buffer and packet size.                                         *)
THEOREM TypeCorrect == Spec => []TypeOK
  <1>1. IndInv => TypeOK BY DEF IndInv
  <1>. QED BY <1>1, Invariance, PTL

(* udi_cdc_multi_getc never spins in an interrupt handler.                 *)
THEOREM NoHang == Spec => []NeverHangs
  <1>1. IndInv => NeverHangs BY DEF IndInv, NeverHangs
  <1>. QED BY <1>1, Invariance, PTL

(* The endpoint and the UART side never share a receive buffer.            *)
THEOREM BuffersSeparate == Spec => []DmaOwnsOtherBuffer
  <1>1. IndInv => DmaOwnsOtherBuffer
    <2>. SUFFICES ASSUME IndInv, job.busy PROVE job.buf = Other(cdc.sel)
      BY DEF DmaOwnsOtherBuffer
    <2>1. cdc.running BY DEF IndInv, JobIdle
    <2>. QED BY <2>1 DEF IndInv, SwapInv, Fw
  <1>. QED BY <1>1, Invariance, PTL

(* Reception from the host never stops for good while configured.          *)
THEOREM ReceptionContinues == Spec => []ReceptionAlive
  <1>1. IndInv => ReceptionAlive
    BY DEF IndInv, SwapInv, JobInv, Fw, ReceptionAlive
  <1>. QED BY <1>1, Invariance, PTL

(* What Slice returns: the bytes of a buffer from one position to another. *)
LEMMA SliceElements ==
    ASSUME NEW b, NEW from \in Nat, NEW to \in Nat
    PROVE  /\ Len(Slice(b, from, to)) = IF from <= to THEN to - from ELSE 0
           /\ \A i \in 1 .. Len(Slice(b, from, to)) :
                /\ from + i - 1 \in from .. to - 1
                /\ Slice(b, from, to)[i] = cdc.rx_buf[b][from + i - 1]
  <1>1. CASE from <= to
    <2>1. to - from \in Nat BY <1>1
    <2>2. Len(Slice(b, from, to)) = to - from BY <2>1 DEF Slice
    <2>. QED BY <1>1, <2>1, <2>2 DEF Slice
  <1>2. CASE ~(from <= to)
    <2>1. 1 .. to - from = {} BY <1>2
    <2>2. Slice(b, from, to) = <<>> BY <2>1 DEF Slice
    <2>. QED BY <1>2, <2>2
  <1>. QED BY <1>1, <1>2

(* Where every byte of a stage lies in the stream: each stage in a range   *)
(* of its own, above all earlier stages.                                   *)
LEMMA StageRanges ==
    ASSUME IndInv, cdc.running
    PROVE  LET T == Taken(Fw, sent)
               M == sent - Fill(Fw)
           IN  /\ T \in Int /\ M \in Int /\ T <= M
               /\ Ascending(wire) /\ Ascending(usart.line)
               /\ Ascending(Pending)
               /\ Ascending(Unread) /\ Ascending(Incoming)
               /\ Before(wire, usart.line) /\ Before(wire, Pending)
               /\ Before(usart.line, Pending)
               /\ \A i \in 1 .. Len(wire) : wire[i] \in Int /\ wire[i] <= T
               /\ \A i \in 1 .. Len(usart.line) :
                     usart.line[i] \in Int /\ usart.line[i] <= T
               /\ \A i \in 1 .. Len(Pending) :
                     Pending[i] \in Int /\ Pending[i] <= T
               /\ \A i \in 1 .. Len(Unread) :
                     Unread[i] \in Int /\ T < Unread[i] /\ Unread[i] <= M
               /\ \A i \in 1 .. Len(Incoming) :
                     Incoming[i] \in Int /\ M < Incoming[i]
  <1> DEFINE T == Taken(Fw, sent)
             F == Fill(Fw)
             M == sent - F
             N == cdc.nb[cdc.sel]
             o == Other(cdc.sel)
  <1>1. /\ Fw \in FwType /\ HandlerInv(Fw, sent, wire)
        /\ sent \in Nat /\ wire \in Seq(Byte)
    BY Ready
  <1>2. /\ Fw.cdc = cdc /\ Fw.job = job /\ Fw.usart = usart
        /\ Fw.tx_data = tx_data /\ Fw.hung = hung
    BY DEF Fw
  <1>3. /\ cdc.pos \in Nat /\ N \in Nat /\ F \in Nat
    <2>1. /\ Fw.cdc.pos \in Nat
          /\ Fw.cdc.nb[Fw.cdc.sel] \in 0 .. RxBuffers
          /\ Fill(Fw) \in 0 .. RxBuffers
      BY <1>1, Buffers
    <2>. QED BY <2>1, <1>2, Sizes
  <1>4. T \in 0 .. sent BY TakenWasSent
  <1>5. T = sent - F - (N - cdc.pos) BY <1>2 DEF Taken
  <1>6. /\ SwapInv(Fw) /\ QueueInv(Fw, sent) /\ LineInv(Fw, sent, wire)
        /\ PendingInv(Fw, sent, wire)
    BY <1>1 DEF HandlerInv, CallInv
  <1>7. cdc.pos <= N BY <1>2, <1>6 DEF SwapInv
  <1>8. /\ \A i \in 0 .. F - 1 : cdc.rx_buf[o][i] = sent - F + 1 + i
        /\ \A i \in cdc.pos .. N - 1 :
              cdc.rx_buf[cdc.sel][i] = sent - F - N + 1 + i
    BY <1>2, <1>6 DEF QueueInv
  <1>9. /\ Unread = Slice(cdc.sel, cdc.pos, N)
        /\ Incoming = Slice(o, 0, F)
    BY DEF Unread, Incoming
  <1>10. PICK f \in Nat : f = F BY <1>3
  <1>11. PICK n \in Nat : n = N BY <1>3
  <1>12. PICK t \in Nat : t = T BY <1>1, <1>4
  <1>13. PICK p \in Nat : p = cdc.pos BY <1>3
  <1>14. t = sent - f - (n - p) /\ p <= n /\ M = sent - f
    BY <1>5, <1>7, <1>10, <1>11, <1>12, <1>13
  <1>. HIDE DEF T, F, M, N, o
  <1>15. \A i \in 1 .. Len(Unread) :
           Unread[i] = t + i /\ t + i <= sent - f
    <2>1. SUFFICES ASSUME NEW i \in 1 .. Len(Unread)
                   PROVE  Unread[i] = t + i /\ t + i <= sent - f
      OBVIOUS
    <2>2. Len(Unread) = n - p
      BY <1>9, <1>11, <1>13, <1>14, SliceElements
    <2>3. /\ p + i - 1 \in p .. n - 1
          /\ Unread[i] = cdc.rx_buf[cdc.sel][p + i - 1]
      <3>1. Unread = Slice(cdc.sel, p, n) BY <1>9, <1>11, <1>13
      <3>2. \A j \in 1 .. Len(Slice(cdc.sel, p, n)) :
              /\ p + j - 1 \in p .. n - 1
              /\ Slice(cdc.sel, p, n)[j] = cdc.rx_buf[cdc.sel][p + j - 1]
        BY SliceElements
      <3>. QED BY <3>1, <3>2
    <2>4. Unread[i] = sent - f - n + 1 + (p + i - 1)
      BY <2>3, <1>8, <1>10, <1>11, <1>13
    <2>. QED BY <2>2, <2>4, <1>1, <1>14
  <1>16. \A i \in 1 .. Len(Incoming) : Incoming[i] = sent - f + i
    <2>1. SUFFICES ASSUME NEW i \in 1 .. Len(Incoming)
                   PROVE  Incoming[i] = sent - f + i
      OBVIOUS
    <2>2. /\ 0 + i - 1 \in 0 .. f - 1
          /\ Incoming[i] = cdc.rx_buf[o][0 + i - 1]
      <3>1. PICK z \in Nat : z = 0 OBVIOUS
      <3>2. Incoming = Slice(o, z, f) BY <1>9, <1>10, <3>1
      <3>3. \A j \in 1 .. Len(Slice(o, z, f)) :
              /\ z + j - 1 \in z .. f - 1
              /\ Slice(o, z, f)[j] = cdc.rx_buf[o][z + j - 1]
        BY SliceElements
      <3>4. z + i - 1 \in z .. f - 1 /\ Incoming[i] = cdc.rx_buf[o][z + i - 1]
        BY <3>2, <3>3
      <3>. QED BY <3>1, <3>4
    <2>3. Incoming[i] = sent - f + 1 + (0 + i - 1)
      BY <2>2, <1>8, <1>10
    <2>4. i \in Int OBVIOUS
    <2>. QED BY <2>3, <2>4, <1>1
  <1>17. /\ Ascending(Unread) /\ Ascending(Incoming)
    <2>1. \A i, j \in 1 .. Len(Unread) : i < j => t + i < t + j OBVIOUS
    <2>2. \A i, j \in 1 .. Len(Incoming) :
            i < j => sent - f + i < sent - f + j
      BY <1>1
    <2>. QED BY <2>1, <2>2, <1>15, <1>16 DEF Ascending
  <1>18. /\ \A i \in 1 .. Len(Unread) :
               Unread[i] \in Int /\ t < Unread[i] /\ Unread[i] <= sent - f
         /\ \A i \in 1 .. Len(Incoming) :
               Incoming[i] \in Int /\ sent - f < Incoming[i]
    <2>1. \A i \in 1 .. Len(Unread) : t + i \in Int /\ t < t + i OBVIOUS
    <2>2. \A i \in 1 .. Len(Incoming) :
            sent - f + i \in Int /\ sent - f < sent - f + i
      BY <1>1
    <2>. QED BY <2>1, <2>2, <1>15, <1>16
  <1>19. /\ Ascending(usart.line) /\ Before(wire, usart.line)
         /\ \A i \in 1 .. Len(wire) : wire[i] \in Int /\ wire[i] <= t
         /\ \A i \in 1 .. Len(usart.line) :
               usart.line[i] \in Int /\ usart.line[i] <= t
    <2>1. \A i \in 1 .. Len(wire) : wire[i] \in Int
      BY <1>1, Sizes DEF Byte
    <2>. QED BY <2>1, <1>2, <1>6, <1>12 DEF LineInv, T
  <1>20. /\ Ascending(Pending) /\ Before(wire, Pending)
         /\ Before(usart.line, Pending)
         /\ \A i \in 1 .. Len(Pending) : Pending[i] \in Int /\ Pending[i] <= t
    <2>1. CASE usart.remaining > 0
      <3>1. /\ tx_data \in 1 .. t
            /\ \A i \in 1 .. Len(wire) : wire[i] < tx_data
            /\ \A i \in 1 .. Len(usart.line) : usart.line[i] < tx_data
        BY <2>1, <1>2, <1>6, <1>12 DEF PendingInv, T
      <3>2. /\ Pending = <<tx_data>> /\ Len(Pending) = 1
            /\ Pending[1] = tx_data
        BY <2>1 DEF Pending
      <3>3. \A i \in 1 .. Len(Pending) : i = 1 BY <3>2
      <3>. QED BY <3>1, <3>2, <3>3 DEF Ascending, Before
    <2>2. CASE ~(usart.remaining > 0)
      <3>1. Pending = <<>> BY <2>2 DEF Pending
      <3>2. 1 .. Len(Pending) = {} BY <3>1
      <3>. QED BY <3>2 DEF Ascending, Before
    <2>. QED BY <2>1, <2>2
  <1>21. Ascending(wire) BY DEF IndInv, WireInv
  <1>22. t \in Int /\ sent - f \in Int /\ t <= sent - f
    BY <1>1, <1>14
  <1>. QED BY <1>12, <1>14, <1>17, <1>18, <1>19, <1>20, <1>21, <1>22
           DEF T, M, F

(* Bytes never overtake or repeat one another on their way to the wire.    *)
THEOREM OrderKept == Spec => []InOrder
  <1>1. IndInv => InOrder
    <2>. SUFFICES ASSUME IndInv PROVE InOrder OBVIOUS
    <2>1. CASE ~cdc.running
      <3>1. Stages = <<wire>> BY <2>1 DEF Stages
      <3>2. \A a, b \in DOMAIN Stages : a = b /\ Stages[a] = wire BY <3>1
      <3>3. Ascending(wire) BY DEF IndInv, WireInv
      <3>. QED BY <3>1, <3>2, <3>3 DEF InOrder
    <2>2. CASE cdc.running
      <3> DEFINE T == Taken(Fw, sent)
                 M == sent - Fill(Fw)
      <3>1. PICK t \in Int, m \in Int :
              /\ t <= m
              /\ Ascending(wire) /\ Ascending(usart.line)
              /\ Ascending(Pending)
              /\ Ascending(Unread) /\ Ascending(Incoming)
              /\ Before(wire, usart.line) /\ Before(wire, Pending)
              /\ Before(usart.line, Pending)
              /\ \A i \in 1 .. Len(wire) : wire[i] \in Int /\ wire[i] <= t
              /\ \A i \in 1 .. Len(usart.line) :
                    usart.line[i] \in Int /\ usart.line[i] <= t
              /\ \A i \in 1 .. Len(Pending) :
                    Pending[i] \in Int /\ Pending[i] <= t
              /\ \A i \in 1 .. Len(Unread) :
                    Unread[i] \in Int /\ t < Unread[i] /\ Unread[i] <= m
              /\ \A i \in 1 .. Len(Incoming) :
                    Incoming[i] \in Int /\ m < Incoming[i]
        BY <2>2, StageRanges
      <3>2. /\ Before(wire, Unread) /\ Before(usart.line, Unread)
            /\ Before(Pending, Unread) /\ Before(wire, Incoming)
            /\ Before(usart.line, Incoming) /\ Before(Pending, Incoming)
            /\ Before(Unread, Incoming)
        <4>1. Before(wire, Unread) BY <3>1 DEF Before
        <4>2. Before(usart.line, Unread) BY <3>1 DEF Before
        <4>3. Before(Pending, Unread) BY <3>1 DEF Before
        <4>4. Before(wire, Incoming) BY <3>1 DEF Before
        <4>5. Before(usart.line, Incoming) BY <3>1 DEF Before
        <4>6. Before(Pending, Incoming) BY <3>1 DEF Before
        <4>7. Before(Unread, Incoming) BY <3>1 DEF Before
        <4>. QED BY <4>1, <4>2, <4>3, <4>4, <4>5, <4>6, <4>7
      <3>3. /\ Stages = <<wire, usart.line, Pending, Unread, Incoming>>
            /\ DOMAIN Stages = 1 .. 5
        BY <2>2 DEF Stages
      <3>4. /\ Stages[1] = wire /\ Stages[2] = usart.line
            /\ Stages[3] = Pending /\ Stages[4] = Unread
            /\ Stages[5] = Incoming
        BY <3>3
      <3>5. \A a \in 1 .. 5 : Ascending(Stages[a])
        <4>1. \A a \in 1 .. 5 : a = 1 \/ a = 2 \/ a = 3 \/ a = 4 \/ a = 5
          OBVIOUS
        <4>. QED BY <4>1, <3>1, <3>4
      <3>6. \A a, b \in 1 .. 5 : a < b => Before(Stages[a], Stages[b])
        <4>1. SUFFICES ASSUME NEW a \in 1 .. 5, NEW b \in 1 .. 5, a < b
                       PROVE  Before(Stages[a], Stages[b])
          OBVIOUS
        <4>2. CASE a = 1
          <5>1. b = 2 \/ b = 3 \/ b = 4 \/ b = 5 BY <4>1, <4>2
          <5>. QED BY <5>1, <4>2, <3>1, <3>2, <3>4
        <4>3. CASE a = 2
          <5>1. b = 3 \/ b = 4 \/ b = 5 BY <4>1, <4>3
          <5>. QED BY <5>1, <4>3, <3>1, <3>2, <3>4
        <4>4. CASE a = 3
          <5>1. b = 4 \/ b = 5 BY <4>1, <4>4
          <5>. QED BY <5>1, <4>4, <3>2, <3>4
        <4>5. CASE a = 4
          <5>1. b = 5 BY <4>1, <4>5
          <5>. QED BY <5>1, <4>5, <3>2, <3>4
        <4>6. a # 5 BY <4>1
        <4>7. a = 1 \/ a = 2 \/ a = 3 \/ a = 4 BY <4>1, <4>6
        <4>. QED BY <4>2, <4>3, <4>4, <4>5, <4>7
      <3>. QED BY <3>3, <3>5, <3>6 DEF InOrder
    <2>. QED BY <2>1, <2>2
  <1>. QED BY <1>1, Invariance, PTL

(* A byte that leaves the transmitter is a delivery of the abstract wire.  *)
LEMMA HeadDelivers ==
    ASSUME IndInv, IndInv', usart.line # <<>>,
           wire' = Append(wire, usart.line[1]), sent' = sent
    PROVE  Abstract!Deliver
  <1>1. wire \in Seq(Byte) /\ usart.line \in Seq(Byte)
    BY DEF IndInv, TypeOK, UsartType
  <1>2. \A i \in 1 .. Len(wire) : i <= Len(wire') /\ wire'[i] = wire[i]
    BY <1>1
  <1>3. WireInv' BY DEF IndInv
  <1>4. /\ \A i \in 1 .. Len(wire') : wire'[i] \in 1 .. sent
        /\ \A i, j \in 1 .. Len(wire') : i < j => wire'[i] < wire'[j]
    BY <1>3 DEF WireInv, Ascending
  <1>. QED BY <1>2, <1>4 DEF Abstract!Deliver

LEMMA LeavesDelivers ==
    ASSUME IndInv, IndInv', NEW f \in BOOLEAN, LeavesWire(f), sent' = sent
    PROVE  Abstract!Deliver \/ UNCHANGED <<sent, wire>>
  <1>1. CASE f /\ usart.line # <<>>
    <2>1. usart.line \in Seq(Byte) BY DEF IndInv, TypeOK, UsartType
    <2>2. wire' = Append(wire, usart.line[1])
      BY <1>1, <2>1 DEF LeavesWire
    <2>. QED BY <1>1, <2>2, HeadDelivers
  <1>2. CASE ~(f /\ usart.line # <<>>) BY <1>2 DEF LeavesWire
  <1>. QED BY <1>1, <1>2

(* The bridge implements a wire that keeps order and may lose bytes.       *)
THEOREM Refinement == Spec => ImplementsLossyWire
  <1>1. Init => Abstract!Init BY DEF Init, Abstract!Init
  <1>2. IndInv /\ [Next]_vars => [Abstract!Next]_<<sent, wire>>
    <2>. SUFFICES ASSUME IndInv, [Next]_vars
                  PROVE  Abstract!Next \/ UNCHANGED <<sent, wire>>
      OBVIOUS
    <2>. IndInv' BY StepInv
    <2>1. ASSUME NEW n \in 0 .. EpSize, HostPacket(n)
          PROVE  Abstract!Next
      <3>1. /\ sent' = sent + n /\ sent + n <= MaxBytes /\ wire' = wire
            /\ n \in Nat /\ sent \in Nat /\ MaxBytes \in Nat
        BY <2>1, Sizes DEF HostPacket, IndInv, TypeOK
      <3>2. sent' \in sent .. MaxBytes BY <3>1
      <3>. QED BY <3>1, <3>2 DEF Abstract!Next, Abstract!Send
    <2>2. CASE FrameSent
      <3>1. usart.line \in Seq(Byte) BY DEF IndInv, TypeOK, UsartType
      <3>2. /\ usart.line # <<>> /\ wire' = Append(wire, usart.line[1])
            /\ sent' = sent
        BY <2>2, <3>1 DEF FrameSent
      <3>. QED BY <3>2, HeadDelivers DEF Abstract!Next
    <2>3. CASE OutTransferComplete BY <2>3 DEF OutTransferComplete
    <2>4. CASE UsartInterrupt BY <2>4 DEF UsartInterrupt
    <2>5. ASSUME NEW f \in BOOLEAN, NEW ok \in BOOLEAN,
                 LineCodingReceived(ok, f)
          PROVE  Abstract!Deliver \/ UNCHANGED <<sent, wire>>
      BY <2>5, LeavesDelivers DEF LineCodingReceived
    <2>6. ASSUME NEW f \in BOOLEAN, SetInterfaceData(f)
          PROVE  Abstract!Deliver \/ UNCHANGED <<sent, wire>>
      BY <2>6, LeavesDelivers DEF SetInterfaceData
    <2>7. ASSUME NEW f \in BOOLEAN, Reset(f)
          PROVE  Abstract!Deliver \/ UNCHANGED <<sent, wire>>
      BY <2>7, LeavesDelivers DEF Reset
    <2>8. ASSUME NEW f \in BOOLEAN, SetConfiguration(f)
          PROVE  Abstract!Deliver \/ UNCHANGED <<sent, wire>>
      BY <2>8, LeavesDelivers DEF SetConfiguration
    <2>9. CASE UNCHANGED vars BY <2>9 DEF vars
    <2>. QED BY <2>1, <2>2, <2>3, <2>4, <2>5, <2>6, <2>7, <2>8, <2>9
             DEF Next, Abstract!Next
  <1>. QED BY <1>1, <1>2, Invariance, PTL
           DEF Spec, ImplementsLossyWire, Abstract!Spec
-----------------------------------------------------------------------------
(* Which bytes may be lost.  A byte that getc has taken is on the wire, in *)
(* the transmitter, pending in tx_data, or excused.  A nested notification *)
(* overwrites tx_data; so the invariant follows what tx_data may hold: the *)
(* byte taken last, which at a swap is the last one of its buffer.         *)

(* The transmit complete flag means an idle line, and a byte still to be   *)
(* written has its interrupt: a callback never meets a pending byte.       *)
UsartFacts(u) ==
    /\ u.txc => u.line = <<>>
    /\ u.remaining > 0 => u.dre_en

(* Each byte taken is in the set placed, or pending.                       *)
Covered(s, top, placed) ==
    \A k \in 1 .. Taken(s, top) :
       k \in placed \/ (s.usart.remaining > 0 /\ s.tx_data = k)

LatestInv(s, top, e) ==
    s.usart.remaining > 0 =>
       s.tx_data \in e \/ (s.tx_data = Taken(s, top) /\ s.cdc.pos > 0)

(* The ends of the transfers still in the buffers are excused.             *)
EndsInv(s, top, e) ==
    /\ s.cdc.nb[s.cdc.sel] > 0 =>
         {top - Fill(s) - s.cdc.nb[s.cdc.sel] + 1, top - Fill(s)} \subseteq e
    /\ ~s.cdc.ongoing => {top - Fill(s) + 1, top} \subseteq e

Placed(s, w, e) == Elements(w) \cup Elements(s.usart.line) \cup e

LossParts(s, top, w, e) ==
    /\ UsartFacts(s.usart)
    /\ Covered(s, top, Placed(s, w, e))
    /\ LatestInv(s, top, e)
    /\ EndsInv(s, top, e)

LossInv ==
    /\ cdc.running => LossParts(Fw, sent, wire, excused)
    /\ ~cdc.running => 1 .. sent \subseteq Elements(wire) \cup excused

LEMMA FactsKept ==
    ASSUME NEW u \in UsartType(Byte), UsartFacts(u)
    PROVE  /\ UsartFacts(WriteBufferJob(u))
           /\ UsartFacts(EnableCallback(u))
           /\ UsartFacts(DisableCallback(u))
           /\ UsartFacts(HandleTxc(u))
  <1>1. UsartFacts(WriteBufferJob(u))
    BY DEF UsartFacts, WriteBufferJob, UsartType
  <1>2. UsartFacts(EnableCallback(u))
    BY DEF UsartFacts, EnableCallback, UsartType
  <1>3. UsartFacts(DisableCallback(u))
    BY DEF UsartFacts, DisableCallback, UsartType
  <1>4. UsartFacts(HandleTxc(u))
    BY DEF UsartFacts, HandleTxc, UsartType
  <1>. QED BY <1>1, <1>2, <1>3, <1>4

(* What a call of udi_cdc_rx_start may overwrite.  Either nothing changes, *)
(* or it swapped, and then every byte taken has a place other than         *)
(* tx_data: the last byte of the old buffer and the first of the new one   *)
(* are ends of transfers.                                                  *)
LEMMA RxStartLoss ==
    ASSUME NEW top \in Nat, NEW w \in Seq(Byte), NEW s, CallInv(s, top, w),
           NEW e, NEW placed, e \subseteq placed,
           UsartFacts(s.usart), Covered(s, top, placed),
           LatestInv(s, top, e), EndsInv(s, top, e)
    PROVE  LET r == RxStart(s)
           IN  /\ UsartFacts(r.usart)
               /\ Covered(r, top, placed)
               /\ LatestInv(r, top, e)
               /\ EndsInv(r, top, e)
               /\ \/ r = s
                  \/ /\ \A k \in 1 .. Taken(r, top) : k \in placed
                     /\ s.cdc.pos > 0 => Taken(s, top) \in e
  <1> DEFINE r == RxStart(s)
             o == Other(s.cdc.sel)
  <1>0. s \in FwType BY DEF CallInv
  <1>1. CASE RxStartRefused(s.cdc)
    <2>1. r = s BY <1>1 DEF RxStart
    <2>. QED BY <2>1
  <1>2. CASE ~RxStartRefused(s.cdc)
    <2>1. ~s.cdc.ongoing /\ ~(s.cdc.pos < s.cdc.nb[s.cdc.sel])
      BY <1>2 DEF RxStartRefused
    <2>2. /\ o \in {0, 1} /\ Other(o) = s.cdc.sel
          /\ s.cdc.pos \in Nat /\ s.cdc.nb[s.cdc.sel] \in Nat
          /\ s.cdc.nb[o] \in Nat
      <3>1. /\ o \in {0, 1} /\ Other(o) = s.cdc.sel
            /\ s.cdc.pos \in Nat
            /\ s.cdc.nb[s.cdc.sel] \in 0 .. RxBuffers
            /\ s.cdc.nb[o] \in 0 .. RxBuffers
        BY <1>0, Buffers
      <3>. QED BY <3>1, Sizes
    <2>3. /\ s.cdc.pos = s.cdc.nb[s.cdc.sel] /\ s.cdc.nb[o] > 0
          /\ ~s.job.busy
      BY <2>1, <2>2 DEF CallInv, SwapInv
    <2>4. /\ r.cdc.sel = o /\ r.cdc.ongoing = TRUE /\ r.cdc.nb = s.cdc.nb
          /\ r.cdc.pos = 1 /\ r.job.count = 0
          /\ r.usart = WriteBufferJob(EnableCallback(s.usart))
          /\ r.tx_data = s.cdc.rx_buf[o][0]
      <3>1. s.cdc.nb[o] # 0 BY <2>2, <2>3
      <3>2. /\ r.cdc.sel = o /\ r.cdc.ongoing = TRUE /\ r.cdc.nb = s.cdc.nb
            /\ r.cdc.pos = 1
            /\ r.usart = WriteBufferJob(EnableCallback(s.usart))
            /\ r.tx_data = s.cdc.rx_buf[o][0]
            /\ r.job = [busy |-> TRUE, buf |-> s.cdc.sel, count |-> 0,
                        armed |-> TRUE, trcpt |-> FALSE]
        BY <3>1, <2>3, <1>0, <1>2, RxStartSwap
      <3>3. r.job.count = 0 BY <3>2
      <3>. QED BY <3>2, <3>3
    <2>. HIDE DEF r
    <2>5. PICK n \in Nat : n = s.cdc.nb[o] BY <2>2
    <2>6. Fill(s) = n /\ Fill(r) = 0 BY <2>1, <2>4, <2>5 DEF Fill
    <2>7. Taken(s, top) = top - n
      <3>1. Taken(s, top) = top - n - (s.cdc.nb[s.cdc.sel] - s.cdc.pos)
        BY <2>6 DEF Taken
      <3>. QED BY <3>1, <2>2, <2>3
    <2>8. Taken(r, top) = top - n + 1
      <3>1. Taken(r, top) = top - 0 - (n - 1)
        BY <2>4, <2>5, <2>6 DEF Taken
      <3>. QED BY <3>1
    <2>9. /\ top - n + 1 \in e /\ top \in e
          /\ s.cdc.nb[s.cdc.sel] > 0 => top - n \in e
      BY <2>1, <2>6 DEF EndsInv
    <2>10. r.tx_data = top - n + 1
      <3>1. \A i \in 0 .. n - 1 : s.cdc.rx_buf[o][i] = top - n + 1 + i
        BY <2>6 DEF CallInv, QueueInv
      <3>2. 0 \in 0 .. n - 1 BY <2>3, <2>5
      <3>3. s.cdc.rx_buf[o][0] = top - n + 1 + 0 BY <3>1, <3>2
      <3>. QED BY <3>3, <2>4
    <2>11. \A k \in 1 .. Taken(s, top) : k \in placed
      <3>1. s.usart.remaining > 0 => s.tx_data \in e
        BY <2>2, <2>3, <2>7, <2>9 DEF LatestInv
      <3>. QED BY <3>1 DEF Covered
    <2>12. \A k \in 1 .. Taken(r, top) : k \in placed
      <3>1. ASSUME NEW k \in 1 .. Taken(r, top)
            PROVE  k \in 1 .. Taken(s, top) \/ k = top - n + 1
        BY <2>7, <2>8
      <3>. QED BY <3>1, <2>9, <2>11
    <2>13. s.cdc.pos > 0 => Taken(s, top) \in e
      BY <2>3, <2>7, <2>9
    <2>14. UsartFacts(r.usart)
      <3>1. s.usart \in UsartType(Byte) BY <1>0 DEF FwType
      <3>2. /\ EnableCallback(s.usart) \in UsartType(Byte)
            /\ UsartFacts(EnableCallback(s.usart))
        BY <3>1, UsartCalls, FactsKept
      <3>. QED BY <3>2, <2>4, FactsKept
    <2>15. LatestInv(r, top, e) BY <2>9, <2>10 DEF LatestInv
    <2>16. EndsInv(r, top, e)
      <3>1. {top - 0 - n + 1, top - 0} \subseteq e BY <2>9
      <3>. QED BY <3>1, <2>4, <2>5, <2>6 DEF EndsInv
    <2>17. Covered(r, top, placed) BY <2>12 DEF Covered
    <2>. QED BY <2>12, <2>13, <2>14, <2>15, <2>16, <2>17 DEF r
  <1>. QED BY <1>1, <1>2

(* Elements of sequences that differ at an end.                            *)
LEMMA ElementsAppend ==
    ASSUME NEW q \in Seq(Byte), NEW x \in Byte
    PROVE  Elements(Append(q, x)) = Elements(q) \cup {x}
  <1>1. /\ Len(Append(q, x)) = Len(q) + 1 /\ Len(q) \in Nat
        /\ \A i \in 1 .. Len(q) : Append(q, x)[i] = q[i]
        /\ Append(q, x)[Len(q) + 1] = x
    OBVIOUS
  <1>2. \A i : i \in 1 .. Len(q) + 1 <=> i \in 1 .. Len(q) \/ i = Len(q) + 1
    BY <1>1
  <1>. QED BY <1>1, <1>2 DEF Elements

LEMMA ElementsHeadTail ==
    ASSUME NEW q \in Seq(Byte), q # <<>>
    PROVE  Elements(q) = {q[1]} \cup Elements(Tail(q))
  <1>1. /\ Len(q) \in Nat /\ Len(q) >= 1
        /\ Len(Tail(q)) = Len(q) - 1
        /\ \A i \in 1 .. Len(q) - 1 : Tail(q)[i] = q[i + 1]
    OBVIOUS
  <1>2. ASSUME NEW x, x \in Elements(q)
        PROVE  x \in {q[1]} \cup Elements(Tail(q))
    <2>1. PICK i \in 1 .. Len(q) : x = q[i] BY <1>2 DEF Elements
    <2>2. CASE i = 1 BY <2>1, <2>2
    <2>3. CASE i # 1
      <3>1. i - 1 \in 1 .. Len(q) - 1 /\ (i - 1) + 1 = i BY <2>3, <1>1
      <3>2. Tail(q)[i - 1] = x BY <3>1, <2>1, <1>1
      <3>. QED BY <3>1, <3>2, <1>1 DEF Elements
    <2>. QED BY <2>2, <2>3
  <1>3. ASSUME NEW x, x \in {q[1]} \cup Elements(Tail(q))
        PROVE  x \in Elements(q)
    <2>1. CASE x = q[1]
      <3>1. 1 \in 1 .. Len(q) BY <1>1
      <3>. QED BY <3>1, <2>1 DEF Elements
    <2>2. CASE x \in Elements(Tail(q))
      <3>1. PICK i \in 1 .. Len(q) - 1 : x = Tail(q)[i]
        BY <2>2, <1>1 DEF Elements
      <3>2. i + 1 \in 1 .. Len(q) /\ x = q[i + 1] BY <3>1, <1>1
      <3>. QED BY <3>2 DEF Elements
    <2>. QED BY <1>3, <2>1, <2>2
  <1>. QED BY <1>2, <1>3

(* A change of the USART that keeps its line and its job.                  *)
LEMMA UsartOnlyLoss ==
    ASSUME NEW top, NEW w, NEW e, NEW s, LossParts(s, top, w, e),
           NEW r, r.cdc = s.cdc, r.job = s.job, r.tx_data = s.tx_data,
           r.usart.line = s.usart.line,
           r.usart.remaining = s.usart.remaining, UsartFacts(r.usart)
    PROVE  LossParts(r, top, w, e)
  <1>1. Fill(r) = Fill(s) /\ Taken(r, top) = Taken(s, top)
    BY DEF Fill, Taken
  <1>2. Covered(r, top, Placed(r, w, e))
    BY <1>1 DEF LossParts, Covered, Placed
  <1>3. LatestInv(r, top, e) BY <1>1 DEF LossParts, LatestInv
  <1>4. EndsInv(r, top, e) BY <1>1 DEF LossParts, EndsInv
  <1>. QED BY <1>2, <1>3, <1>4 DEF LossParts

(* The pending byte joins the line.                                        *)
LEMMA HandleDreLoss ==
    ASSUME NEW top, NEW w, NEW e, NEW s \in FwType, LossParts(s, top, w, e)
    PROVE  LET r == [s EXCEPT !.usart = HandleDre(@, s.tx_data)]
           IN  /\ LossParts(r, top, w, e)
               /\ r.usart.remaining = 0
  <1> DEFINE u == s.usart
             v == HandleDre(u, s.tx_data)
             r == [s EXCEPT !.usart = HandleDre(@, s.tx_data)]
  <1>0. u \in UsartType(Byte) /\ s.tx_data \in Byte /\ UsartFacts(u)
    BY DEF FwType, LossParts
  <1>1. /\ r.cdc = s.cdc /\ r.job = s.job /\ r.tx_data = s.tx_data
        /\ r.usart = v
    BY DEF FwType
  <1>. HIDE DEF r
  <1>2. CASE u.remaining = 0
    <2>1. v = [u EXCEPT !.dre_en = FALSE] BY <1>2 DEF HandleDre
    <2>2. v.line = u.line /\ v.remaining = 0 /\ v.txc = u.txc
      BY <2>1, <1>0, <1>2 DEF UsartType
    <2>3. UsartFacts(v) BY <2>2, <1>0 DEF UsartFacts
    <2>4. LossParts(r, top, w, e)
      BY <2>2, <2>3, <1>1, <1>2, UsartOnlyLoss
    <2>. QED BY <2>2, <2>4, <1>1 DEF r
  <1>3. CASE u.remaining # 0
    <2>1. v = [u EXCEPT !.line = Append(@, s.tx_data), !.txc = FALSE,
                        !.remaining = 0, !.dre_en = FALSE, !.txc_en = TRUE]
      BY <1>3 DEF HandleDre
    <2>2. /\ v.line = Append(u.line, s.tx_data) /\ v.remaining = 0
          /\ v.txc = FALSE
      BY <2>1, <1>0 DEF UsartType
    <2>3. UsartFacts(v) BY <2>2 DEF UsartFacts
    <2>4. Elements(v.line) = Elements(u.line) \cup {s.tx_data}
      <3>1. u.line \in Seq(Byte) BY <1>0 DEF UsartType
      <3>. QED BY <3>1, <2>2, <1>0, ElementsAppend
    <2>5. Fill(r) = Fill(s) /\ Taken(r, top) = Taken(s, top)
      BY <1>1 DEF Fill, Taken
    <2>6. Covered(r, top, Placed(r, w, e))
      <3>1. Placed(r, w, e) = Placed(s, w, e) \cup {s.tx_data}
        BY <2>4, <1>1 DEF Placed
      <3>. QED BY <3>1, <2>5 DEF LossParts, Covered
    <2>7. LatestInv(r, top, e) BY <2>2, <1>1 DEF LatestInv
    <2>8. EndsInv(r, top, e) BY <2>5, <1>1 DEF LossParts, EndsInv
    <2>. QED BY <2>2, <2>3, <2>6, <2>7, <2>8, <1>1 DEF LossParts, r
  <1>. QED BY <1>2, <1>3

LEMMA HandleTxcLoss ==
    ASSUME NEW top, NEW w, NEW e, NEW s \in FwType, LossParts(s, top, w, e)
    PROVE  LET r == [s EXCEPT !.usart = HandleTxc(@)]
           IN  /\ LossParts(r, top, w, e)
               /\ r.usart.remaining = s.usart.remaining
  <1> DEFINE v == HandleTxc(s.usart)
             r == [s EXCEPT !.usart = HandleTxc(@)]
  <1>1. s.usart \in UsartType(Byte) /\ UsartFacts(s.usart)
    BY DEF FwType, LossParts
  <1>2. /\ v.line = s.usart.line /\ v.remaining = s.usart.remaining
    BY <1>1 DEF HandleTxc, UsartType
  <1>3. UsartFacts(v) BY <1>1, FactsKept
  <1>4. /\ r.cdc = s.cdc /\ r.job = s.job /\ r.tx_data = s.tx_data
        /\ r.usart = v
    BY DEF FwType
  <1>. HIDE DEF r, v
  <1>5. LossParts(r, top, w, e) BY <1>2, <1>3, <1>4, UsartOnlyLoss
  <1>. QED BY <1>2, <1>4, <1>5 DEF r

(* The byte the callback reads becomes the pending one, unless a nested    *)
(* notification took its place; then it was the last of its buffer.        *)
LEMMA TxCallbackLoss ==
    ASSUME NEW top \in Nat, NEW w \in Seq(Byte), NEW s,
           HandlerInv(s, top, w), NEW e, LossParts(s, top, w, e),
           s.usart.remaining = 0
    PROVE  LossParts(TxCallback(s), top, w, e)
  <1> DEFINE c == Consume(s)
             q == RxStart(c)
             x == ReadByte(s.cdc)
             r == TxCallback(s)
             P == Placed(s, w, e)
  <1>0. /\ s \in FwType /\ s.usart \in UsartType(Byte)
        /\ CallInv(s, top, w) /\ UsartFacts(s.usart)
    BY DEF HandlerInv, CallInv, FwType, LossParts
  <1>b. /\ s.cdc.pos \in Nat /\ s.cdc.nb[s.cdc.sel] \in Nat
        /\ Taken(s, top) \in Int
    <2>1. s.cdc.pos \in Nat /\ s.cdc.nb[s.cdc.sel] \in 0 .. RxBuffers
      BY <1>0, Buffers
    <2>2. top \in Int OBVIOUS
    <2>3. Taken(s, top) \in Int BY <1>0, <2>2, Buffers
    <2>. QED BY <2>1, <2>3, Sizes
  <1>1. CASE ~RxReady(s.cdc)
    <2>1. r = [s EXCEPT !.usart = DisableCallback(@)]
      BY <1>1 DEF TxCallback
    <2>2. /\ DisableCallback(s.usart).line = s.usart.line
          /\ DisableCallback(s.usart).remaining = s.usart.remaining
          /\ UsartFacts(DisableCallback(s.usart))
      BY <1>0, UsartCalls, FactsKept
    <2>3. /\ r.cdc = s.cdc /\ r.job = s.job /\ r.tx_data = s.tx_data
          /\ r.usart = DisableCallback(s.usart)
      BY <1>0, <2>1 DEF FwType
    <2>. HIDE DEF r
    <2>4. LossParts(r, top, w, e) BY <2>2, <2>3, UsartOnlyLoss
    <2>. QED BY <2>4 DEF r
  <1>2. CASE RxReady(s.cdc)
    <2>1. r = SendByte(q, x) BY <1>2 DEF TxCallback
    <2>2. s.cdc.pos < s.cdc.nb[s.cdc.sel]
      BY <1>2, <1>b, <1>0 DEF RxReady, CallInv, SwapInv
    <2>3. /\ CallInv(c, top, w) /\ Taken(c, top) = Taken(s, top) + 1
          /\ x = Taken(c, top) /\ c.usart = s.usart
      BY <1>0, <2>2, ConsumeNext
    <2>4. /\ c.cdc = [s.cdc EXCEPT !.pos = s.cdc.pos + 1] /\ c.job = s.job
      <3>1. c = [s EXCEPT !.cdc.pos = s.cdc.pos + 1] BY <2>2 DEF Consume
      <3>. QED BY <3>1, <1>0 DEF FwType
    <2>5. /\ c.cdc.pos > 0 /\ c.cdc.nb = s.cdc.nb /\ c.cdc.sel = s.cdc.sel
          /\ c.cdc.ongoing = s.cdc.ongoing
      <3>1. s.cdc \in CdcType BY <1>0 DEF FwType
      <3>2. /\ c.cdc.pos = s.cdc.pos + 1
            /\ c.cdc.nb = s.cdc.nb /\ c.cdc.sel = s.cdc.sel
            /\ c.cdc.ongoing = s.cdc.ongoing
        BY <3>1, <2>4 DEF CdcType
      <3>. QED BY <3>2, <1>b
    <2>. HIDE DEF c, x
    <2>6. EndsInv(c, top, e)
      <3>1. Fill(c) = Fill(s) BY <2>4, <2>5 DEF Fill
      <3>. QED BY <3>1, <2>5 DEF LossParts, EndsInv
    <2>7. LatestInv(c, top, e) BY <2>3 DEF LatestInv
    <2>8. Covered(c, top, P \cup {x})
      <3>1. ASSUME NEW k \in 1 .. Taken(c, top)
            PROVE  k \in 1 .. Taken(s, top) \/ k = x
        BY <2>3, <1>b
      <3>. QED BY <3>1 DEF LossParts, Covered
    <2>9. /\ UsartFacts(q.usart) /\ Covered(q, top, P \cup {x})
          /\ EndsInv(q, top, e)
          /\ \/ q = c
             \/ /\ \A k \in 1 .. Taken(q, top) : k \in P \cup {x}
                /\ c.cdc.pos > 0 => Taken(c, top) \in e
      <3>1. e \subseteq P \cup {x} BY DEF Placed
      <3>2. UsartFacts(c.usart) BY <2>3, <1>0
      <3>3. PICK PP : PP = P \cup {x} OBVIOUS
      <3>4. e \subseteq PP /\ Covered(c, top, PP) BY <3>1, <3>3, <2>8
      <3>5. /\ UsartFacts(q.usart) /\ Covered(q, top, PP)
            /\ EndsInv(q, top, e)
            /\ \/ q = c
               \/ /\ \A k \in 1 .. Taken(q, top) : k \in PP
                  /\ c.cdc.pos > 0 => Taken(c, top) \in e
        BY <3>2, <3>4, <2>3, <2>6, <2>7, RxStartLoss
      <3>. QED BY <3>3, <3>5
    <2>10. q \in FwType /\ q.usart.line = s.usart.line
      <3>1. CallInv(q, top, w) /\ q.usart.line = c.usart.line
        BY <2>3, RxStartOrder
      <3>. QED BY <3>1, <2>3 DEF CallInv
    <2>. HIDE DEF q
    <2>11. /\ r.cdc = q.cdc /\ r.job = q.job /\ r.tx_data = x
           /\ r.usart = WriteBufferJob(q.usart)
      BY <2>1, <2>10 DEF SendByte, FwType
    <2>. HIDE DEF r
    <2>12. /\ r.usart.remaining = 1 /\ r.usart.line = s.usart.line
           /\ UsartFacts(r.usart)
      <3>1. q.usart \in UsartType(Byte) BY <2>10 DEF FwType
      <3>2. /\ WriteBufferJob(q.usart).remaining = 1
            /\ WriteBufferJob(q.usart).line = q.usart.line
        BY <3>1, UsartCalls
      <3>3. UsartFacts(WriteBufferJob(q.usart)) BY <3>1, <2>9, FactsKept
      <3>. QED BY <3>2, <3>3, <2>10, <2>11
    <2>13. Fill(r) = Fill(q) /\ Taken(r, top) = Taken(q, top)
      BY <2>11 DEF Fill, Taken
    <2>14. Placed(r, w, e) = P BY <2>12 DEF Placed
    <2>15. EndsInv(r, top, e) BY <2>9, <2>11, <2>13 DEF EndsInv
    <2>16. /\ Covered(r, top, P)
           /\ x \in e \/ (x = Taken(r, top) /\ r.cdc.pos > 0)
      <3>1. CASE q = c
        <4>1. \A k \in 1 .. Taken(q, top) : k \in P \cup {x}
          BY <3>1, <2>3, <2>9 DEF Covered
        <4>2. Covered(r, top, P) BY <4>1, <2>11, <2>12, <2>13 DEF Covered
        <4>3. x = Taken(r, top) /\ r.cdc.pos > 0
          BY <3>1, <2>3, <2>5, <2>11, <2>13
        <4>. QED BY <4>2, <4>3
      <3>2. CASE /\ \A k \in 1 .. Taken(q, top) : k \in P \cup {x}
                 /\ c.cdc.pos > 0 => Taken(c, top) \in e
        <4>1. x \in e BY <3>2, <2>3, <2>5
        <4>2. Covered(r, top, P) BY <3>2, <2>11, <2>12, <2>13 DEF Covered
        <4>. QED BY <4>1, <4>2
      <3>. QED BY <3>1, <3>2, <2>9
    <2>17. LatestInv(r, top, e) BY <2>11, <2>16 DEF LatestInv
    <2>18. LossParts(r, top, w, e)
      BY <2>12, <2>14, <2>15, <2>16, <2>17 DEF LossParts
    <2>. QED BY <2>18 DEF r
  <1>. QED BY <1>1, <1>2

(* A completed transfer: its ends are excused from now on.                 *)
LEMMA DataReceivedLoss ==
    ASSUME NEW top \in Nat, NEW w \in Seq(Byte), NEW s,
           HandlerInv(s, top, w), s.job.trcpt,
           NEW e, LossParts(s, top, w, e),
           NEW more, e \subseteq more,
           s.job.count # 0 =>
             {s.cdc.rx_buf[s.job.buf][0],
              s.cdc.rx_buf[s.job.buf][s.job.count - 1]} \subseteq more
    PROVE  LossParts(DataReceived([s EXCEPT !.job = JobIdle], s.job.count),
                     top, w, more)
  <1> DEFINE b == Other(s.cdc.sel)
             i0 == [s EXCEPT !.job = JobIdle]
             r == DataReceived(i0, s.job.count)
  <1>0. /\ s \in FwType /\ CallInv(s, top, w) BY DEF HandlerInv, CallInv
  <1>1. /\ s.job.buf = b /\ s.cdc.ongoing = TRUE
    <2>1. s.job.busy BY DEF HandlerInv, JobInv
    <2>2. s.cdc.ongoing \in BOOLEAN /\ s.job.busy \in BOOLEAN
      BY <1>0 DEF FwType, CdcType, JobType
    <2>. QED BY <1>0, <2>1, <2>2 DEF CallInv, SwapInv
  <1>2. PICK n \in Nat : n = s.job.count
    <2>1. s.job.count \in 0 .. RxBuffers BY <1>0, Buffers
    <2>. QED BY <2>1, Sizes
  <1>3. Fill(s) = n BY <1>1, <1>2 DEF Fill
  <1>4. JobIdle \in JobType BY ResetTyped
  <1>5. /\ i0 \in FwType /\ i0.cdc = s.cdc /\ i0.job = JobIdle
        /\ i0.usart = s.usart /\ i0.tx_data = s.tx_data /\ i0.hung = s.hung
    BY <1>0, <1>4 DEF FwType
  <1>. HIDE DEF i0
  <1>6. /\ UsartFacts(s.usart) /\ Covered(s, top, Placed(s, w, more))
        /\ LatestInv(s, top, more) /\ EndsInv(s, top, more)
    <2>1. Covered(s, top, Placed(s, w, more))
      BY DEF LossParts, Covered, Placed
    <2>2. LatestInv(s, top, more) BY DEF LossParts, LatestInv
    <2>3. EndsInv(s, top, more) BY DEF LossParts, EndsInv
    <2>. QED BY <2>1, <2>2, <2>3 DEF LossParts
  <1>7. CASE n = 0
    <2>1. r = EpRunOut(i0, b) BY <1>2, <1>7 DEF DataReceived, i0
    <2>2. r = [i0 EXCEPT !.job = [busy |-> TRUE, buf |-> b, count |-> 0,
                                  armed |-> TRUE, trcpt |-> FALSE]]
      BY <2>1, <1>5 DEF EpRunOut, JobIdle
    <2>3. /\ r.cdc = s.cdc /\ r.usart = s.usart /\ r.tx_data = s.tx_data
          /\ r.job = [busy |-> TRUE, buf |-> b, count |-> 0,
                      armed |-> TRUE, trcpt |-> FALSE]
      BY <2>2, <1>5 DEF FwType
    <2>. HIDE DEF r
    <2>4. r.job.count = 0 BY <2>3
    <2>5. Fill(r) = Fill(s) BY <2>3, <2>4, <1>1, <1>3, <1>7 DEF Fill
    <2>6. Taken(r, top) = Taken(s, top) BY <2>3, <2>5 DEF Taken
    <2>7. Covered(r, top, Placed(r, w, more))
      BY <2>3, <2>6, <1>6 DEF Covered, Placed
    <2>8. LatestInv(r, top, more) BY <2>3, <2>6, <1>6 DEF LatestInv
    <2>9. EndsInv(r, top, more) BY <2>3, <2>5, <1>6 DEF EndsInv
    <2>10. LossParts(r, top, w, more)
      BY <2>3, <2>7, <2>8, <2>9, <1>6 DEF LossParts
    <2>. QED BY <2>10 DEF r, i0
  <1>8. CASE n # 0
    <2>1. PICK d : ReceivedFacts(s, d, top, w)
      BY <1>2, <1>8, ReceivedReady
    <2>2. /\ CallInv(d, top, w) /\ Fill(d) = n
          /\ Taken(d, top) = Taken(s, top)
          /\ d.cdc.pos = s.cdc.pos /\ d.cdc.sel = s.cdc.sel
          /\ d.cdc.nb[s.cdc.sel] = s.cdc.nb[s.cdc.sel]
          /\ d.usart = s.usart /\ d.tx_data = s.tx_data
          /\ RxStart(d) = DataReceived(i0, s.job.count)
      BY <2>1, <1>2 DEF ReceivedFacts, i0
    <2>7. {top - n + 1, top} \subseteq more
      <3>1. \A i \in 0 .. n - 1 : s.cdc.rx_buf[b][i] = top - n + 1 + i
        BY <1>0, <1>3 DEF CallInv, QueueInv
      <3>2. 0 \in 0 .. n - 1 /\ n - 1 \in 0 .. n - 1 BY <1>8
      <3>3. /\ s.cdc.rx_buf[b][0] = top - n + 1 + 0
            /\ s.cdc.rx_buf[b][n - 1] = top - n + 1 + (n - 1)
        BY <3>1, <3>2
      <3>4. {s.cdc.rx_buf[b][0], s.cdc.rx_buf[b][n - 1]} \subseteq more
        BY <1>1, <1>2, <1>8
      <3>5. top - n + 1 + 0 = top - n + 1 /\ top - n + 1 + (n - 1) = top
        OBVIOUS
      <3>. QED BY <3>3, <3>4, <3>5
    <2>8. EndsInv(d, top, more)
      BY <2>2, <2>7, <1>3, <1>6 DEF EndsInv
    <2>9. Covered(d, top, Placed(s, w, more))
      BY <2>2, <1>6 DEF Covered
    <2>10. LatestInv(d, top, more) BY <2>2, <1>6 DEF LatestInv
    <2>11. more \subseteq Placed(s, w, more) BY DEF Placed
    <2>12. UsartFacts(d.usart) BY <2>2, <1>6
    <2>13. PICK q, placed : q = RxStart(d) /\ placed = Placed(s, w, more)
      OBVIOUS
    <2>14. /\ UsartFacts(q.usart) /\ Covered(q, top, placed)
           /\ LatestInv(q, top, more) /\ EndsInv(q, top, more)
      <3>1. more \subseteq placed /\ Covered(d, top, placed)
        BY <2>9, <2>11, <2>13
      <3>2. CallInv(d, top, w) BY <2>2
      <3>. QED BY <3>1, <3>2, <2>8, <2>10, <2>12, <2>13, RxStartLoss
    <2>15. q.usart.line = s.usart.line
      <3>1. CallInv(d, top, w) /\ d.usart = s.usart BY <2>2
      <3>2. RxStart(d).usart.line = d.usart.line BY <3>1, RxStartOrder
      <3>. QED BY <3>1, <3>2, <2>13
    <2>16. Placed(q, w, more) = placed BY <2>13, <2>15 DEF Placed
    <2>17. LossParts(q, top, w, more) BY <2>14, <2>16 DEF LossParts
    <2>. QED BY <2>2, <2>13, <2>17 DEF i0
  <1>. QED BY <1>7, <1>8

-----------------------------------------------------------------------------
(* The steps.                                                              *)

LEMMA LossReady ==
    ASSUME IndInv, LossInv, cdc.running
    PROVE  /\ Fw \in FwType /\ HandlerInv(Fw, sent, wire)
           /\ LossParts(Fw, sent, wire, excused)
           /\ sent \in Nat /\ wire \in Seq(Byte)
           /\ Fw.cdc = cdc /\ Fw.job = job /\ Fw.usart = usart
           /\ Fw.tx_data = tx_data
  BY Ready DEF LossInv, Fw

LEMMA LossEstablished ==
    ASSUME NEW s \in FwType, Becomes(s), s.cdc.running,
           LossParts(s, sent', wire', excused')
    PROVE  LossInv'
  <1>1. Fw' = s BY BecomesFw
  <1>2. cdc'.running BY DEF Becomes
  <1>. QED BY <1>1, <1>2 DEF LossInv

LEMMA UsartLoss == ASSUME IndInv, LossInv, UsartInterrupt PROVE LossInv'
  <1> DEFINE dre == IF DreRaised(usart)
                    THEN [Fw EXCEPT !.usart = HandleDre(@, tx_data)]
                    ELSE Fw
             txc == IF TxcRaised(usart) THEN [dre EXCEPT !.usart = HandleTxc(@)]
                    ELSE dre
             r == IF TxcRaised(usart) /\ usart.cb THEN TxCallback(txc)
                  ELSE txc
  <1>1. cdc.running BY DEF UsartInterrupt, InterruptPending, IndInv
  <1>2. /\ Fw \in FwType /\ HandlerInv(Fw, sent, wire)
        /\ LossParts(Fw, sent, wire, excused)
        /\ sent \in Nat /\ wire \in Seq(Byte)
        /\ Fw.cdc = cdc /\ Fw.usart = usart /\ Fw.tx_data = tx_data
    BY <1>1, LossReady
  <1>a. PICK hd : hd = [Fw EXCEPT !.usart = HandleDre(@, Fw.tx_data)]
    OBVIOUS
  <1>b. /\ HandlerInv(hd, sent, wire) /\ LossParts(hd, sent, wire, excused)
        /\ hd.usart.remaining = 0 /\ hd.cdc.running = Fw.cdc.running
    <2>1. HandlerInv(hd, sent, wire) /\ hd.cdc.running = Fw.cdc.running
      BY <1>a, <1>2, HandleDreOrder
    <2>2. LossParts(hd, sent, wire, excused) /\ hd.usart.remaining = 0
      BY <1>a, <1>2, HandleDreLoss
    <2>. QED BY <2>1, <2>2
  <1>c. dre = IF DreRaised(usart) THEN hd ELSE Fw BY <1>a, <1>2
  <1>. HIDE DEF dre
  <1>3. /\ HandlerInv(dre, sent, wire) /\ LossParts(dre, sent, wire, excused)
        /\ dre.cdc.running = Fw.cdc.running
    BY <1>2, <1>b, <1>c
  <1>4. usart.txc => dre.usart.remaining = 0
    <2>1. SUFFICES ASSUME usart.txc PROVE dre.usart.remaining = 0 OBVIOUS
    <2>2. CASE DreRaised(usart) BY <2>2, <1>b, <1>c
    <2>3. CASE ~DreRaised(usart)
      <3>1. UsartFacts(usart) BY <1>2 DEF LossParts
      <3>2. usart.line = <<>> /\ Len(usart.line) < PipelineDepth
        BY <2>1, <3>1 DEF UsartFacts, PipelineDepth
      <3>3. ~usart.dre_en BY <2>3, <3>2 DEF DreRaised
      <3>4. ~(usart.remaining > 0) BY <3>1, <3>3 DEF UsartFacts
      <3>5. usart.remaining \in {0, 1} BY DEF IndInv, TypeOK, UsartType
      <3>. QED BY <3>4, <3>5, <2>3, <1>2, <1>c
    <2>. QED BY <2>2, <2>3
  <1>d. PICK ht : ht = [dre EXCEPT !.usart = HandleTxc(@)] OBVIOUS
  <1>e. /\ HandlerInv(ht, sent, wire) /\ LossParts(ht, sent, wire, excused)
        /\ ht.usart.remaining = dre.usart.remaining
        /\ ht.cdc.running = dre.cdc.running
    <2>1. HandlerInv(ht, sent, wire) /\ ht.cdc.running = dre.cdc.running
      BY <1>d, <1>2, <1>3, HandleTxcOrder
    <2>2. dre \in FwType BY <1>3 DEF HandlerInv, CallInv
    <2>3. /\ LossParts(ht, sent, wire, excused)
          /\ ht.usart.remaining = dre.usart.remaining
      BY <1>d, <1>3, <2>2, HandleTxcLoss
    <2>. QED BY <2>1, <2>3
  <1>f. txc = IF TxcRaised(usart) THEN ht ELSE dre BY <1>d
  <1>. HIDE DEF txc
  <1>5. /\ HandlerInv(txc, sent, wire) /\ LossParts(txc, sent, wire, excused)
        /\ TxcRaised(usart) => txc.usart.remaining = 0
        /\ txc.cdc.running = Fw.cdc.running
    BY <1>3, <1>4, <1>e, <1>f DEF TxcRaised
  <1>6. /\ HandlerInv(r, sent, wire) /\ LossParts(r, sent, wire, excused)
        /\ r.cdc.running
    <2>1. txc.cdc.running BY <1>1, <1>2, <1>5
    <2>2. ASSUME TxcRaised(usart)
          PROVE  /\ HandlerInv(TxCallback(txc), sent, wire)
                 /\ LossParts(TxCallback(txc), sent, wire, excused)
                 /\ TxCallback(txc).cdc.running
      <3>1. txc.usart.remaining = 0 BY <2>2, <1>5
      <3>2. /\ HandlerInv(TxCallback(txc), sent, wire)
            /\ TxCallback(txc).cdc.running = txc.cdc.running
        BY <1>2, <1>5, TxCallbackOrder
      <3>3. LossParts(TxCallback(txc), sent, wire, excused)
        BY <3>1, <1>2, <1>5, TxCallbackLoss
      <3>. QED BY <2>1, <3>2, <3>3
    <2>. QED BY <2>1, <2>2, <1>5
  <1>7. /\ Becomes(r) /\ UNCHANGED <<sent, wire, control, excused>>
    BY DEF UsartInterrupt, dre, txc
  <1>. HIDE DEF r
  <1>8. r \in FwType BY <1>6 DEF HandlerInv, CallInv
  <1>. QED BY <1>6, <1>7, <1>8, LossEstablished

LEMMA OutTransferLoss ==
    ASSUME IndInv, LossInv, OutTransferComplete PROVE LossInv'
  <1> DEFINE r == DataReceived([Fw EXCEPT !.job = JobIdle], Fw.job.count)
  <1>1. cdc.running BY DEF OutTransferComplete, IndInv, JobIdle
  <1>2. /\ Fw \in FwType /\ HandlerInv(Fw, sent, wire)
        /\ LossParts(Fw, sent, wire, excused)
        /\ sent \in Nat /\ wire \in Seq(Byte)
        /\ Fw.cdc = cdc /\ Fw.job = job
    BY <1>1, LossReady
  <1>3. Fw.job.trcpt BY <1>2 DEF OutTransferComplete
  <1>4. HandlerInv(r, sent, wire) /\ r.cdc.running
    BY <1>1, <1>2, <1>3, DataReceivedOrder
  <1>5. /\ Becomes(r) /\ UNCHANGED <<sent, wire, control>>
        /\ excused \subseteq excused'
        /\ Fw.job.count # 0 =>
             {Fw.cdc.rx_buf[Fw.job.buf][0],
              Fw.cdc.rx_buf[Fw.job.buf][Fw.job.count - 1]} \subseteq excused'
    BY <1>2 DEF OutTransferComplete
  <1>6. LossParts(r, sent, wire, excused')
    BY <1>2, <1>3, <1>5, DataReceivedLoss
  <1>. HIDE DEF r
  <1>7. r \in FwType BY <1>4 DEF HandlerInv, CallInv
  <1>. QED BY <1>4, <1>5, <1>6, <1>7, LossEstablished

LEMMA FrameSentLoss == ASSUME IndInv, LossInv, FrameSent PROVE LossInv'
  <1> DEFINE r == [Fw EXCEPT !.usart = ShiftFrame(@)]
             u == usart
             v == ShiftFrame(usart)
  <1>1. cdc.running BY DEF FrameSent, IndInv
  <1>2. /\ Fw \in FwType /\ LossParts(Fw, sent, wire, excused)
        /\ wire \in Seq(Byte)
        /\ Fw.cdc = cdc /\ Fw.job = job /\ Fw.usart = usart
        /\ Fw.tx_data = tx_data
    BY <1>1, LossReady
  <1>3. /\ u \in UsartType(Byte) /\ u.line \in Seq(Byte) /\ u.line # <<>>
    BY DEF IndInv, TypeOK, UsartType, FrameSent
  <1>4. /\ v.line = Tail(u.line) /\ v.remaining = u.remaining
        /\ v.dre_en = u.dre_en /\ v.txc = (u.txc \/ Len(u.line) = 1)
        /\ v \in UsartType(Byte)
    <2>1. /\ Tail(u.line) \in Seq(Byte)
          /\ (u.txc \/ Len(u.line) = 1) \in BOOLEAN
      BY <1>3
    <2>. QED BY <1>3, <2>1 DEF ShiftFrame, UsartType
  <1>5. r \in FwType /\ r.cdc = cdc /\ r.job = job /\ r.tx_data = tx_data
        /\ r.usart = v /\ r.hung = hung
    BY <1>2, <1>4 DEF Fw, FwType
  <1>6. /\ Becomes(r) /\ wire' = Append(wire, u.line[1])
        /\ UNCHANGED <<sent, excused>>
    BY <1>3, <1>5 DEF FrameSent, Becomes
  <1>. HIDE DEF r, v
  <1>7. UsartFacts(v)
    <2>1. UsartFacts(u) BY <1>2 DEF LossParts
    <2>2. ASSUME v.txc PROVE v.line = <<>>
      <3>1. Len(u.line) = 1 BY <2>1, <2>2, <1>3, <1>4 DEF UsartFacts
      <3>2. Len(Tail(u.line)) = 0 /\ Tail(u.line) \in Seq(Byte)
        BY <3>1, <1>3
      <3>3. \A q \in Seq(Byte) : Len(q) = 0 => q = <<>> OBVIOUS
      <3>. QED BY <3>2, <3>3, <1>4
    <2>. QED BY <2>1, <2>2, <1>4 DEF UsartFacts
  <1>8. Placed(r, wire', excused) = Placed(Fw, wire, excused)
    <2>1. Elements(u.line) = {u.line[1]} \cup Elements(Tail(u.line))
      BY <1>3, ElementsHeadTail
    <2>2. u.line[1] \in Byte BY <1>3
    <2>3. Elements(wire') = Elements(wire) \cup {u.line[1]}
      BY <2>2, <1>2, <1>6, ElementsAppend
    <2>. QED BY <2>1, <2>3, <1>2, <1>4, <1>5 DEF Placed
  <1>9. Fill(r) = Fill(Fw) /\ Taken(r, sent) = Taken(Fw, sent)
    BY <1>2, <1>5 DEF Fill, Taken
  <1>10. Covered(r, sent, Placed(r, wire', excused))
    BY <1>2, <1>4, <1>5, <1>8, <1>9 DEF LossParts, Covered
  <1>11. LatestInv(r, sent, excused)
    BY <1>2, <1>4, <1>5, <1>9 DEF LossParts, LatestInv
  <1>12. EndsInv(r, sent, excused)
    BY <1>2, <1>5, <1>9 DEF LossParts, EndsInv
  <1>13. LossParts(r, sent', wire', excused')
    BY <1>5, <1>6, <1>7, <1>10, <1>11, <1>12 DEF LossParts
  <1>14. r.cdc.running BY <1>1, <1>5
  <1>. QED BY <1>5, <1>6, <1>13, <1>14, LossEstablished

(* A packet moves the end of the stream and the fill of the job alike.     *)
LEMMA HostPacketLoss ==
    ASSUME IndInv, LossInv, NEW n \in 0 .. EpSize, HostPacket(n)
    PROVE  LossInv'
  <1>1. cdc.running BY DEF HostPacket, IndInv, JobIdle
  <1>2. /\ Fw \in FwType /\ HandlerInv(Fw, sent, wire)
        /\ LossParts(Fw, sent, wire, excused) /\ sent \in Nat
        /\ Fw.cdc = cdc /\ Fw.job = job /\ Fw.usart = usart
        /\ Fw.tx_data = tx_data
    BY <1>1, LossReady
  <1>3. cdc \in CdcType /\ job \in JobType BY DEF IndInv, TypeOK
  <1>4. /\ cdc.ongoing = TRUE /\ job.count \in Nat /\ n \in Nat
    <2>1. job.armed BY DEF HostPacket
    <2>2. job.busy BY <2>1, <1>2 DEF HandlerInv, JobInv
    <2>3. cdc.ongoing \in BOOLEAN /\ job.busy \in BOOLEAN
      BY <1>3 DEF CdcType, JobType
    <2>4. job.count \in 0 .. RxBuffers BY <1>3 DEF JobType
    <2>5. cdc.ongoing = job.busy
      BY <1>2 DEF HandlerInv, CallInv, SwapInv
    <2>. QED BY <2>2, <2>3, <2>4, <2>5, Sizes
  <1>5. /\ sent' = sent + n
        /\ UNCHANGED <<usart, tx_data, hung, wire, control, excused>>
        /\ job'.count = job.count + n
        /\ cdc'.nb = cdc.nb /\ cdc'.sel = cdc.sel /\ cdc'.pos = cdc.pos
        /\ cdc'.ongoing = TRUE /\ cdc'.running
    BY <1>1, <1>3, <1>4 DEF HostPacket, CdcType, JobType
  <1>6. PICK r : r = Fw' OBVIOUS
  <1>7. /\ r.cdc = cdc' /\ r.job = job' /\ r.usart = usart
        /\ r.tx_data = tx_data
    BY <1>5, <1>6 DEF Fw
  <1>8. PICK a \in Nat, top \in Nat, f \in Nat :
          a = job.count /\ top = sent + n /\ f = a + n
    BY <1>2, <1>4
  <1>9. Fill(Fw) = a /\ Fill(r) = f /\ top - f = sent - a
    <2>1. Fill(Fw) = a BY <1>2, <1>4, <1>8 DEF Fill
    <2>2. Fill(r) = f BY <1>5, <1>7, <1>8 DEF Fill
    <2>3. top - f = sent - a BY <1>2, <1>4, <1>8
    <2>. QED BY <2>1, <2>2, <2>3
  <1>10. Taken(r, top) = Taken(Fw, sent)
    <2>1. Taken(r, top) = top - f - (cdc.nb[cdc.sel] - cdc.pos)
      BY <1>5, <1>7, <1>9 DEF Taken
    <2>2. Taken(Fw, sent) = sent - a - (cdc.nb[cdc.sel] - cdc.pos)
      BY <1>2, <1>9 DEF Taken
    <2>. QED BY <2>1, <2>2, <1>9
  <1>11. Covered(r, top, Placed(r, wire, excused))
    BY <1>2, <1>7, <1>10 DEF LossParts, Covered, Placed
  <1>12. LatestInv(r, top, excused)
    BY <1>2, <1>5, <1>7, <1>10 DEF LossParts, LatestInv
  <1>13. EndsInv(r, top, excused)
    <2>1. cdc.nb[cdc.sel] > 0 =>
            {sent - a - cdc.nb[cdc.sel] + 1, sent - a} \subseteq excused
      BY <1>2, <1>9 DEF LossParts, EndsInv
    <2>2. cdc.nb[cdc.sel] > 0 =>
            {top - f - cdc.nb[cdc.sel] + 1, top - f} \subseteq excused
      BY <2>1, <1>9
    <2>. QED BY <2>2, <1>5, <1>7, <1>9 DEF EndsInv
  <1>14. LossParts(r, sent', wire', excused')
    <2>1. UsartFacts(r.usart) BY <1>2, <1>7 DEF LossParts
    <2>2. sent' = top /\ wire' = wire /\ excused' = excused
      BY <1>5, <1>8
    <2>. QED BY <2>1, <2>2, <1>11, <1>12, <1>13 DEF LossParts
  <1>. QED BY <1>5, <1>6, <1>14 DEF LossInv

(* Nothing leaves the wire again.                                          *)
LEMMA LeavesKeeps ==
    ASSUME IndInv, NEW f \in BOOLEAN, LeavesWire(f)
    PROVE  Elements(wire) \subseteq Elements(wire')
  <1>1. wire \in Seq(Byte) /\ usart.line \in Seq(Byte)
    BY DEF IndInv, TypeOK, UsartType
  <1>2. CASE f /\ usart.line # <<>>
    <2>1. usart.line[1] \in Byte /\ wire' = Append(wire, usart.line[1])
      BY <1>1, <1>2 DEF LeavesWire
    <2>2. Elements(wire') = Elements(wire) \cup {usart.line[1]}
      BY <2>1, <1>1, ElementsAppend
    <2>. QED BY <2>2
  <1>3. CASE ~(f /\ usart.line # <<>>) BY <1>3 DEF LeavesWire
  <1>. QED BY <1>2, <1>3

LEMMA ElementsConcat ==
    ASSUME NEW p \in Seq(Byte), NEW q \in Seq(Byte)
    PROVE  /\ Elements(p) \subseteq Elements(p \o q)
           /\ Elements(q) \subseteq Elements(p \o q)
  <1>1. /\ Len(p) \in Nat /\ Len(q) \in Nat
        /\ Len(p \o q) = Len(p) + Len(q)
        /\ \A i \in 1 .. Len(p) : (p \o q)[i] = p[i]
        /\ \A i \in 1 .. Len(q) : (p \o q)[Len(p) + i] = q[i]
    OBVIOUS
  <1>2. /\ \A i \in 1 .. Len(p) : i \in 1 .. Len(p \o q)
        /\ \A i \in 1 .. Len(q) : Len(p) + i \in 1 .. Len(p \o q)
    BY <1>1
  <1>3. ASSUME NEW x \in Elements(p) PROVE x \in Elements(p \o q)
    <2>1. PICK i \in 1 .. Len(p) : x = p[i] BY DEF Elements
    <2>. QED BY <2>1, <1>1, <1>2 DEF Elements
  <1>4. ASSUME NEW x \in Elements(q) PROVE x \in Elements(p \o q)
    <2>1. PICK i \in 1 .. Len(q) : x = q[i] BY DEF Elements
    <2>. QED BY <2>1, <1>1, <1>2 DEF Elements
  <1>. QED BY <1>3, <1>4

(* Stopping the USART empties its line and leaves its job with the         *)
(* interrupt it waits for; reprogramming it does the same or ends the job. *)
LEMMA StoppedFacts ==
    ASSUME NEW u \in UsartType(Byte), UsartFacts(u), NEW f \in BOOLEAN,
           NEW ok \in BOOLEAN
    PROVE  /\ UsartFacts(Disable(u, f))
           /\ UsartFacts(UartConfig(u, ok, f))
  <1>1. PICK d \in UsartType(Byte) : d = Disable(u, f) BY UartConfigCalls
  <1>2. /\ d.line = <<>> /\ d.remaining = u.remaining
        /\ d.dre_en = u.dre_en
    BY <1>1 DEF Disable, UsartType
  <1>3. UsartFacts(d) BY <1>2 DEF UsartFacts
  <1>4. PICK i : i = InitModule(d, ok) OBVIOUS
  <1>5. i \in UsartType(Byte) /\ UsartFacts(i)
    <2>1. CASE ok
      <3>1. i = [d EXCEPT !.remaining = 0, !.cb = FALSE]
        BY <2>1, <1>4 DEF InitModule
      <3>2. i \in UsartType(Byte) /\ i.remaining = 0 /\ i.line = d.line
        BY <3>1 DEF UsartType
      <3>. QED BY <3>2, <1>2 DEF UsartFacts
    <2>2. CASE ~ok BY <2>2, <1>3, <1>4 DEF InitModule
    <2>. QED BY <2>1, <2>2
  <1>6. PICK e : e = Enable(i) OBVIOUS
  <1>7. e \in UsartType(Byte) /\ UsartFacts(e)
    BY <1>5, <1>6 DEF Enable, UsartType, UsartFacts
  <1>8. UsartFacts(EnableCallback(e)) BY <1>7, FactsKept
  <1>9. UartConfig(u, ok, f) = EnableCallback(e)
    BY <1>1, <1>4, <1>6 DEF UartConfig
  <1>. QED BY <1>1, <1>3, <1>8, <1>9

(* Reprogramming the UART excuses what was in the transmitter, and the     *)
(* byte pending if it cancels its job.                                     *)
LEMMA LineCodingLoss ==
    ASSUME IndInv, LossInv, NEW ok \in BOOLEAN, NEW f \in BOOLEAN,
           LineCodingReceived(ok, f)
    PROVE  LossInv'
  <1> DEFINE u == UartConfig(usart, ok, f)
             r == [Fw EXCEPT !.usart = u]
  <1>1. /\ cdc.running /\ usart' = u /\ LeavesWire(f)
        /\ UNCHANGED <<cdc, job, tx_data, hung, sent>>
        /\ excused' = excused \cup
             Elements(IF ok THEN usart.line \o Pending ELSE usart.line)
    BY DEF LineCodingReceived
  <1>2. /\ Fw \in FwType /\ LossParts(Fw, sent, wire, excused)
        /\ Fw.cdc = cdc /\ Fw.job = job /\ Fw.usart = usart
        /\ Fw.tx_data = tx_data
    BY <1>1, LossReady
  <1>3. /\ usart \in UsartType(Byte) /\ usart.line \in Seq(Byte)
        /\ Pending \in Seq(Byte) /\ UsartFacts(usart)
    <2>1. usart \in UsartType(Byte) /\ tx_data \in Byte
      BY DEF IndInv, TypeOK
    <2>2. UsartFacts(usart) BY <1>2 DEF LossParts
    <2>. QED BY <2>1, <2>2 DEF UsartType, Pending
  <1>4. /\ u \in UsartType(Byte) /\ u.line = <<>> /\ UsartFacts(u)
        /\ ~ok => u.remaining = usart.remaining
        /\ ok => u.remaining = 0
    BY <1>3, UartConfigCalls, StoppedFacts
  <1>. HIDE DEF u
  <1>5. /\ r \in FwType /\ r.cdc = cdc /\ r.job = job
        /\ r.tx_data = tx_data /\ r.usart = u /\ r.hung = hung
    BY <1>2, <1>4 DEF Fw, FwType
  <1>6. Becomes(r) BY <1>1, <1>5 DEF Becomes
  <1>. HIDE DEF r
  <1>7. Fill(r) = Fill(Fw) /\ Taken(r, sent) = Taken(Fw, sent)
    BY <1>2, <1>5 DEF Fill, Taken
  <1>8. /\ excused \subseteq excused'
        /\ Elements(usart.line) \subseteq excused'
        /\ (ok /\ usart.remaining > 0) => tx_data \in excused'
    <2>1. CASE ok
      <3>1. /\ Elements(usart.line) \subseteq Elements(usart.line \o Pending)
            /\ Elements(Pending) \subseteq Elements(usart.line \o Pending)
        BY <1>3, ElementsConcat
      <3>2. ASSUME usart.remaining > 0 PROVE tx_data \in Elements(Pending)
        <4>1. Pending = <<tx_data>> BY <3>2 DEF Pending
        <4>2. 1 \in 1 .. Len(Pending) /\ Pending[1] = tx_data BY <4>1
        <4>. QED BY <4>2 DEF Elements
      <3>. QED BY <2>1, <3>1, <3>2, <1>1
    <2>2. CASE ~ok BY <2>2, <1>1
    <2>. QED BY <2>1, <2>2
  <1>9. Placed(Fw, wire, excused) \subseteq Placed(r, wire', excused')
    <2>1. Elements(wire) \subseteq Elements(wire') BY <1>1, LeavesKeeps
    <2>. QED BY <2>1, <1>2, <1>8 DEF Placed
  <1>10. Covered(r, sent, Placed(r, wire', excused'))
    <2>1. ASSUME NEW k \in 1 .. Taken(Fw, sent),
                 k \notin Placed(r, wire', excused')
          PROVE  u.remaining > 0 /\ tx_data = k
      <3>1. usart.remaining > 0 /\ tx_data = k
        BY <2>1, <1>2, <1>9 DEF LossParts, Covered
      <3>2. ~ok BY <3>1, <2>1, <1>8 DEF Placed
      <3>. QED BY <3>1, <3>2, <1>4
    <2>. QED BY <2>1, <1>5, <1>7 DEF Covered
  <1>11. LatestInv(r, sent, excused')
    <2>1. LatestInv(Fw, sent, excused) BY <1>2 DEF LossParts
    <2>2. u.remaining > 0 => usart.remaining > 0 BY <1>4
    <2>. QED BY <2>1, <2>2, <1>2, <1>5, <1>7, <1>8 DEF LatestInv
  <1>12. EndsInv(r, sent, excused')
    <2>1. EndsInv(Fw, sent, excused) BY <1>2 DEF LossParts
    <2>. QED BY <2>1, <1>2, <1>5, <1>7, <1>8 DEF EndsInv
  <1>13. LossParts(r, sent', wire', excused')
    BY <1>1, <1>4, <1>5, <1>10, <1>11, <1>12 DEF LossParts
  <1>14. r.cdc.running BY <1>1, <1>5
  <1>. QED BY <1>5, <1>6, <1>13, <1>14, LossEstablished

(* A device whose data interface was just enabled holds nothing: what was  *)
(* sent before must be on the wire or excused.                             *)
LEMMA EnabledLoss ==
    ASSUME NEW s \in FwType, NEW r, NEW top \in Nat, NEW w, NEW e,
           Emptied(r, s, top), UsartFacts(s.usart),
           1 .. top \subseteq Elements(w) \cup e,
           s.usart.remaining > 0 => s.tx_data \in e
    PROVE  LossParts(r, top, w, e)
  <1>1. Covered(r, top, Placed(r, w, e)) BY DEF Covered, Placed, Emptied
  <1>2. LatestInv(r, top, e) BY DEF LatestInv, Emptied
  <1>3. EndsInv(r, top, e) BY DEF EndsInv, Emptied
  <1>. QED BY <1>1, <1>2, <1>3 DEF LossParts, Emptied

LEMMA SetInterfaceLoss ==
    ASSUME IndInv, LossInv, NEW f \in BOOLEAN, SetInterfaceData(f)
    PROVE  LossInv'
  <1>1. /\ cdc.running /\ LeavesWire(f) /\ sent' = sent
        /\ excused' = 1 .. sent
        /\ Becomes(DataEnable(DataDisable(Fw, f)))
    BY DEF SetInterfaceData
  <1>2. PICK s \in FwType : s = DataDisable(Fw, f) BY Disabled
  <1>3. /\ ~s.hung /\ s.job = JobIdle /\ s.usart.line = <<>>
        /\ s.usart.remaining = usart.remaining /\ s.tx_data = tx_data
    BY <1>2, Disabled
  <1>4. /\ wire' \in Seq(Byte) /\ WireInv'
        /\ usart.remaining > 0 =>
             \A i \in 1 .. Len(wire') : wire'[i] < tx_data
    BY <1>1, WireLeft
  <1>5. /\ sent \in Nat /\ Taken(Fw, sent) \in 0 .. sent
        /\ PendingInv(Fw, sent, wire)
    BY <1>1, TakenWasSent, Sizes DEF IndInv, TypeOK
  <1>6. \A i \in 1 .. Len(wire') : wire'[i] <= sent
    BY <1>1, <1>4 DEF WireInv
  <1>7. s.usart.remaining > 0 => s.tx_data \in 1 .. sent
    <2>1. Fw.usart = usart /\ Fw.tx_data = tx_data BY DEF Fw
    <2>2. usart.remaining > 0 => tx_data \in 1 .. Taken(Fw, sent)
      BY <2>1, <1>5 DEF PendingInv
    <2>. QED BY <2>2, <1>3, <1>5
  <1>8. UsartFacts(s.usart)
    <2>1. Fw.usart = usart /\ Fw \in FwType BY <1>1, LossReady
    <2>2. UsartFacts(usart) BY <2>1, <1>1, LossReady DEF LossParts
    <2>3. s.usart = Disable(usart, f)
      BY <2>1, <1>2 DEF DataDisable, FwType
    <2>4. usart \in UsartType(Byte) BY DEF IndInv, TypeOK
    <2>. QED BY <2>2, <2>3, <2>4, StoppedFacts
  <1>9. PICK r : r = DataEnable(s) OBVIOUS
  <1>10. /\ HandlerInv(r, sent, wire') /\ r.cdc.running
         /\ Emptied(r, s, sent)
    <2>1. PICK w \in Seq(Byte) : w = wire' BY <1>4
    <2>2. /\ \A i \in 1 .. Len(w) : w[i] <= sent
          /\ s.usart.remaining > 0 =>
               /\ s.tx_data \in 1 .. sent
               /\ \A i \in 1 .. Len(w) : w[i] < s.tx_data
      BY <2>1, <1>3, <1>4, <1>5, <1>6, <1>7
    <2>3. /\ sent \in Nat /\ ~s.hung /\ s.job = JobIdle
          /\ s.usart.line = <<>>
      BY <1>3, <1>4, <1>5, <1>6, <1>7
    <2>4. LET d == DataEnable(s)
          IN  /\ HandlerInv(d, sent, w) /\ d.cdc.running
              /\ Emptied(d, s, sent)
      BY <2>2, <2>3, DataEnableStarts
    <2>. QED BY <2>1, <2>4, <1>9
  <1>11. LossParts(r, sent, wire', excused')
    <2>1. /\ 1 .. sent \subseteq Elements(wire') \cup excused'
          /\ s.usart.remaining > 0 => s.tx_data \in excused'
      BY <1>1, <1>7
    <2>. QED BY <2>1, <1>5, <1>8, <1>10, EnabledLoss
  <1>12. r \in FwType BY <1>10 DEF HandlerInv, CallInv
  <1>13. LossParts(r, sent', wire', excused') /\ Becomes(r)
    BY <1>1, <1>2, <1>9, <1>11
  <1>. QED BY <1>10, <1>12, <1>13, LossEstablished

(* A reset excuses all that was sent.                                      *)
LEMMA ResetLoss ==
    ASSUME IndInv, LossInv, NEW f \in BOOLEAN, Reset(f) PROVE LossInv'
  <1>1. /\ sent' = sent /\ Becomes(DataDisable(Fw, f))
        /\ excused' = 1 .. sent
    BY DEF Reset
  <1>2. PICK s \in FwType : s = DataDisable(Fw, f) BY Disabled
  <1>3. s.cdc.running = FALSE BY <1>2, Disabled
  <1>4. cdc'.running = FALSE BY <1>1, <1>2, <1>3 DEF Becomes
  <1>. QED BY <1>1, <1>4 DEF LossInv

(* An unconfigured device holds nothing to lose.                           *)
LEMMA SetConfigurationLoss ==
    ASSUME IndInv, LossInv, NEW f \in BOOLEAN, SetConfiguration(f)
    PROVE  LossInv'
  <1> DEFINE u == UartConfig(usart, TRUE, f)
  <1>1. /\ ~cdc.running /\ LeavesWire(f)
        /\ UNCHANGED <<sent, control, excused>>
        /\ Becomes(DataEnable([Fw EXCEPT !.usart = UartConfig(@, TRUE, f)]))
    BY DEF SetConfiguration
  <1>2. Fw \in FwType /\ usart \in UsartType(Byte)
    BY FwTyped DEF IndInv, TypeOK
  <1>3. u \in UsartType(Byte) /\ u.line = <<>> /\ u.remaining = 0
    BY <1>2, UartConfigCalls
  <1>4. PICK s : s = [Fw EXCEPT !.usart = UartConfig(@, TRUE, f)] OBVIOUS
  <1>5. s = [Fw EXCEPT !.usart = u] BY <1>4 DEF Fw
  <1>. HIDE DEF u
  <1>6. /\ s \in FwType /\ s.usart = u /\ s.job = job /\ s.hung = hung
    BY <1>2, <1>3, <1>5 DEF Fw, FwType
  <1>7. /\ ~s.hung /\ s.job = JobIdle /\ s.usart.line = <<>>
        /\ ~(s.usart.remaining > 0)
    BY <1>1, <1>3, <1>6 DEF IndInv
  <1>8. wire' \in Seq(Byte) /\ WireInv' BY <1>1, WireLeft
  <1>9. \A i \in 1 .. Len(wire') : wire'[i] <= sent
    BY <1>1, <1>8 DEF WireInv
  <1>10. sent \in Nat BY Sizes DEF IndInv, TypeOK
  <1>11. PICK r : r = DataEnable(s) OBVIOUS
  <1>12. /\ HandlerInv(r, sent, wire') /\ r.cdc.running
         /\ Emptied(r, s, sent)
    <2>1. PICK w \in Seq(Byte) : w = wire' BY <1>8
    <2>2. /\ \A i \in 1 .. Len(w) : w[i] <= sent
          /\ s.usart.remaining > 0 =>
               /\ s.tx_data \in 1 .. sent
               /\ \A i \in 1 .. Len(w) : w[i] < s.tx_data
      BY <2>1, <1>6, <1>7, <1>8, <1>9, <1>10
    <2>3. /\ s \in FwType /\ sent \in Nat /\ ~s.hung /\ s.job = JobIdle
          /\ s.usart.line = <<>>
      BY <1>6, <1>7, <1>8, <1>9, <1>10
    <2>4. LET d == DataEnable(s)
          IN  /\ HandlerInv(d, sent, w) /\ d.cdc.running
              /\ Emptied(d, s, sent)
      BY <2>2, <2>3, DataEnableStarts
    <2>. QED BY <2>1, <2>4, <1>11
  <1>13. UsartFacts(s.usart)
    <2>1. ~usart.enabled BY <1>1 DEF IndInv
    <2>2. u.line = <<>> /\ ~(u.remaining > 0) BY <1>3
    <2>. QED BY <2>2, <1>6 DEF UsartFacts
  <1>14. LossParts(r, sent, wire', excused)
    <2>1. Elements(wire) \subseteq Elements(wire') BY <1>1, LeavesKeeps
    <2>2. 1 .. sent \subseteq Elements(wire') \cup excused
      BY <2>1, <1>1 DEF LossInv
    <2>. QED BY <2>2, <1>6, <1>7, <1>10, <1>12, <1>13, EnabledLoss
  <1>15. r \in FwType BY <1>12 DEF HandlerInv, CallInv
  <1>16. LossParts(r, sent', wire', excused') /\ Becomes(r)
    BY <1>1, <1>4, <1>11, <1>14
  <1>. QED BY <1>12, <1>15, <1>16, LossEstablished

LEMMA LossInit == Init => LossInv
  <1>. SUFFICES ASSUME Init PROVE LossInv OBVIOUS
  <1>1. ~cdc.running /\ sent = 0 BY DEF Init, CdcReset
  <1>2. 1 .. sent = {} BY <1>1
  <1>. QED BY <1>1, <1>2 DEF LossInv

LEMMA LossStep == IndInv /\ LossInv /\ [Next]_vars => LossInv'
  <1>. SUFFICES ASSUME IndInv, LossInv, [Next]_vars PROVE LossInv' OBVIOUS
  <1>1. CASE \E n \in 0 .. EpSize : HostPacket(n) BY <1>1, HostPacketLoss
  <1>2. CASE FrameSent BY <1>2, FrameSentLoss
  <1>3. CASE OutTransferComplete BY <1>3, OutTransferLoss
  <1>4. CASE UsartInterrupt BY <1>4, UsartLoss
  <1>5. ASSUME NEW f \in BOOLEAN, NEW ok \in BOOLEAN,
               LineCodingReceived(ok, f)
        PROVE  LossInv'
    BY <1>5, LineCodingLoss
  <1>6. ASSUME NEW f \in BOOLEAN, SetInterfaceData(f) PROVE LossInv'
    BY <1>6, SetInterfaceLoss
  <1>7. ASSUME NEW f \in BOOLEAN, Reset(f) PROVE LossInv'
    BY <1>7, ResetLoss
  <1>8. ASSUME NEW f \in BOOLEAN, SetConfiguration(f) PROVE LossInv'
    BY <1>8, SetConfigurationLoss
  <1>9. CASE UNCHANGED vars
    <2>1. Fw' = Fw BY <1>9 DEF vars, Fw
    <2>. QED BY <2>1, <1>9 DEF vars, LossInv
  <1>. QED BY <1>1, <1>2, <1>3, <1>4, <1>5, <1>6, <1>7, <1>8, <1>9 DEF Next

(* What getc has not taken yet is in the buffers.                          *)
LEMMA UntakenHeld ==
    ASSUME IndInv, cdc.running, NEW k \in 1 .. sent, k > Taken(Fw, sent)
    PROVE  k \in Elements(Unread) \cup Elements(Incoming)
  <1> DEFINE T == Taken(Fw, sent)
             F == Fill(Fw)
             N == cdc.nb[cdc.sel]
             o == Other(cdc.sel)
  <1>1. /\ Fw \in FwType /\ HandlerInv(Fw, sent, wire) /\ sent \in Nat
    BY Ready
  <1>2. Fw.cdc = cdc /\ Fw.job = job BY DEF Fw
  <1>3. /\ cdc.pos \in Nat /\ N \in Nat /\ F \in Nat
    <2>1. /\ Fw.cdc.pos \in Nat
          /\ Fw.cdc.nb[Fw.cdc.sel] \in 0 .. RxBuffers
          /\ Fill(Fw) \in 0 .. RxBuffers
      BY <1>1, Buffers
    <2>. QED BY <2>1, <1>2, Sizes
  <1>4. T = sent - F - (N - cdc.pos) BY <1>2 DEF Taken
  <1>5. SwapInv(Fw) /\ QueueInv(Fw, sent)
    BY <1>1 DEF HandlerInv, CallInv
  <1>6. cdc.pos <= N BY <1>2, <1>5 DEF SwapInv
  <1>7. /\ \A i \in 0 .. F - 1 : cdc.rx_buf[o][i] = sent - F + 1 + i
        /\ \A i \in cdc.pos .. N - 1 :
              cdc.rx_buf[cdc.sel][i] = sent - F - N + 1 + i
    BY <1>2, <1>5 DEF QueueInv
  <1>8. /\ Unread = Slice(cdc.sel, cdc.pos, N)
        /\ Incoming = Slice(o, 0, F)
    BY DEF Unread, Incoming
  <1>9. PICK f \in Nat, n \in Nat, p \in Nat :
          f = F /\ n = N /\ p = cdc.pos
    BY <1>3
  <1>10. T = sent - f - (n - p) /\ p <= n BY <1>4, <1>6, <1>9
  <1>. HIDE DEF T, F, N, o
  <1>11. CASE k <= sent - f
    <2>1. PICK j \in 1 .. n - p : k = sent - f - (n - p) + j
      <3>1. k - (sent - f - (n - p)) \in 1 .. n - p
        BY <1>1, <1>10, <1>11 DEF T
      <3>2. k = sent - f - (n - p) + (k - (sent - f - (n - p)))
        BY <1>1
      <3>. QED BY <3>1, <3>2
    <2>2. /\ Len(Slice(cdc.sel, p, n)) = n - p
          /\ \A i \in 1 .. Len(Slice(cdc.sel, p, n)) :
                /\ p + i - 1 \in p .. n - 1
                /\ Slice(cdc.sel, p, n)[i] = cdc.rx_buf[cdc.sel][p + i - 1]
      BY <1>10, SliceElements
    <2>3. /\ j \in 1 .. Len(Unread) /\ p + j - 1 \in p .. n - 1
          /\ Unread[j] = cdc.rx_buf[cdc.sel][p + j - 1]
      BY <2>1, <2>2, <1>8, <1>9
    <2>4. cdc.rx_buf[cdc.sel][p + j - 1] = sent - f - n + 1 + (p + j - 1)
      BY <2>3, <1>7, <1>9
    <2>5. sent - f - n + 1 + (p + j - 1) = k BY <2>1, <1>1
    <2>. QED BY <2>3, <2>4, <2>5 DEF Elements
  <1>12. CASE ~(k <= sent - f)
    <2>1. PICK j \in 1 .. f : k = sent - f + j
      <3>1. k - (sent - f) \in 1 .. f BY <1>1, <1>12
      <3>2. k = sent - f + (k - (sent - f)) BY <1>1
      <3>. QED BY <3>1, <3>2
    <2>2. PICK z \in Nat : z = 0 OBVIOUS
    <2>3. /\ Len(Slice(o, z, f)) = IF z <= f THEN f - z ELSE 0
          /\ \A i \in 1 .. Len(Slice(o, z, f)) :
                /\ z + i - 1 \in z .. f - 1
                /\ Slice(o, z, f)[i] = cdc.rx_buf[o][z + i - 1]
      BY SliceElements
    <2>4. Incoming = Slice(o, z, f) BY <2>2, <1>8, <1>9
    <2>5. j \in 1 .. Len(Incoming) /\ Incoming[j] = cdc.rx_buf[o][z + j - 1]
      BY <2>1, <2>2, <2>3, <2>4
    <2>6. z + j - 1 \in 0 .. f - 1 BY <2>1, <2>2
    <2>7. cdc.rx_buf[o][z + j - 1] = sent - f + 1 + (z + j - 1)
      BY <2>6, <1>7, <1>9
    <2>8. sent - f + 1 + (z + j - 1) = k BY <2>1, <2>2, <1>1
    <2>. QED BY <2>5, <2>7, <2>8 DEF Elements
  <1>. QED BY <1>11, <1>12

(* A byte missing on the wire is the first or the last of a transfer, or   *)
(* was inside the USART or the buffers when a control request or a reset   *)
(* emptied them.                                                           *)
THEOREM LossesExplained == Spec => []OnlySwapsLoseBytes
  <1>1. IndInv /\ LossInv => OnlySwapsLoseBytes
    <2>. SUFFICES ASSUME IndInv, LossInv, NEW k \in 1 .. sent
                  PROVE  k \in Held \cup excused
      BY DEF OnlySwapsLoseBytes
    <2>1. CASE ~cdc.running
      <3>1. k \in Elements(wire) \cup excused BY <2>1 DEF LossInv
      <3>2. Stages = <<wire>> BY <2>1 DEF Stages
      <3>3. 1 \in DOMAIN Stages /\ Stages[1] = wire BY <3>2
      <3>4. Elements(wire) \subseteq Held BY <3>3 DEF Held
      <3>. QED BY <3>1, <3>4
    <2>2. CASE cdc.running
      <3>1. /\ Stages = <<wire, usart.line, Pending, Unread, Incoming>>
            /\ DOMAIN Stages = 1 .. 5
        BY <2>2 DEF Stages
      <3>2. /\ Stages[1] = wire /\ Stages[2] = usart.line
            /\ Stages[3] = Pending /\ Stages[4] = Unread
            /\ Stages[5] = Incoming
        BY <3>1
      <3>3. /\ Elements(wire) \subseteq Held
            /\ Elements(usart.line) \subseteq Held
            /\ Elements(Pending) \subseteq Held
            /\ Elements(Unread) \subseteq Held
            /\ Elements(Incoming) \subseteq Held
        <4>1. \A a \in 1 .. 5 : Elements(Stages[a]) \subseteq Held
          BY <3>1 DEF Held
        <4>. QED BY <4>1, <3>2
      <3>4. /\ sent \in Nat /\ Taken(Fw, sent) \in 0 .. sent
            /\ LossParts(Fw, sent, wire, excused)
            /\ Fw.usart = usart /\ Fw.tx_data = tx_data
        BY <2>2, LossReady, TakenWasSent
      <3>5. CASE k <= Taken(Fw, sent)
        <4>1. k \in 1 .. Taken(Fw, sent) BY <3>4, <3>5
        <4>2. \/ k \in Placed(Fw, wire, excused)
              \/ usart.remaining > 0 /\ tx_data = k
          BY <4>1, <3>4 DEF LossParts, Covered
        <4>3. ASSUME usart.remaining > 0 PROVE tx_data \in Elements(Pending)
          <5>1. Pending = <<tx_data>> BY <4>3 DEF Pending
          <5>2. 1 \in 1 .. Len(Pending) /\ Pending[1] = tx_data BY <5>1
          <5>. QED BY <5>2 DEF Elements
        <4>. QED BY <4>2, <4>3, <3>3, <3>4 DEF Placed
      <3>6. CASE ~(k <= Taken(Fw, sent))
        <4>1. k > Taken(Fw, sent) BY <3>4, <3>6
        <4>. QED BY <4>1, <2>2, <3>3, UntakenHeld
      <3>. QED BY <3>5, <3>6
    <2>. QED BY <2>1, <2>2
  <1>2. Init => IndInv /\ LossInv BY InitInv, LossInit
  <1>3. (IndInv /\ LossInv) /\ [Next]_vars => (IndInv /\ LossInv)'
    BY StepInv, LossStep
  <1>. QED BY <1>1, <1>2, <1>3, PTL DEF Spec
=============================================================================
