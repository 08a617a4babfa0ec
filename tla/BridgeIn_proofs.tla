--------------------------- MODULE BridgeIn_proofs ---------------------------
(***************************************************************************)
(* Proofs about BridgeIn, for every buffer size, packet size, frame        *)
(* counter and number of bytes and disturbances.                           *)
(***************************************************************************)
EXTENDS BridgeIn, SequenceTheorems, TLAPS

Item == [byte : Byte, status : 0 .. MaxStatus]

Usarts == [remaining : {0, 1}, cb : BOOLEAN, rxc_en : BOOLEAN, enabled : BOOLEAN,
           fifo : Seq(Item)]

States == [tx : TxType, job : JobType, usart : Usarts, hung : BOOLEAN]

-----------------------------------------------------------------------------
(* The inductive invariant *)

(* A job has its bank, or an interrupt to come. *)
JobInv(j) ==
    /\ j.busy = (j.armed \/ j.trcpt)
    /\ ~(j.armed /\ j.trcpt)
    /\ j.zlp => j.busy
    /\ j.off <= j.size
    /\ j.trcpt => j.off = j.size

(* What udi_cdc believes of the endpoint and of its two buffers while the  *)
(* data interface is enabled.                                              *)
Agree(c, j) ==
    /\ JobInv(j)
    /\ c.ongoing = j.busy
    /\ j.busy => j.buf = Other(c.sel) /\ j.size = c.nb[Other(c.sel)]
    /\ ~c.ongoing /\ ~c.both => c.nb[Other(c.sel)] = 0
    /\ ~c.ongoing /\ c.both => c.nb[Other(c.sel)] = TxBuffers /\ c.nb[c.sel] > 0

(* The receiver has a job, and a job its interrupt. *)
UsartInv(u) ==
    /\ u.remaining = 1 => u.rxc_en
    /\ u.enabled => u.remaining = 1 /\ u.cb

FwInv(s) ==
    /\ s \in States
    /\ ~s.hung
    /\ s.tx.running => Agree(s.tx, s.job)
    /\ ~s.tx.running => s.job = JobIdle
    /\ UsartInv(s.usart)

(* How the buffers change: the bytes from Lo on of the buffer that is not  *)
(* being filled go to the host before the other ones.  udi_cdc_tx_send     *)
(* turns to the other buffer only if that is empty, or has the bytes to go *)
(* first; a sent buffer is empty; a byte goes behind the others.           *)
Lo(c, j) == IF c.ongoing THEN j.off ELSE 0

Turned(c, j, d, k) ==
    /\ d.buf = c.buf /\ d.nb = c.nb
    /\ \/ d.sel = c.sel /\ Lo(d, k) = Lo(c, j)
       \/ d.sel = Other(c.sel) /\ c.nb[Other(c.sel)] = 0 /\ Lo(d, k) = 0

Sent(c, d, k) ==
    /\ d.buf = c.buf /\ d.nb[c.sel] = c.nb[c.sel] /\ d.nb[Other(c.sel)] = 0
    /\ d.sel \in {c.sel, Other(c.sel)} /\ Lo(d, k) = 0

Added(c, j, d, byte) ==
    /\ \/ d.sel = c.sel
       \/ d.sel = Other(c.sel) /\ c.nb[Other(c.sel)] = 0 /\ Lo(c, j) = 0
    /\ d.nb[d.sel] = c.nb[d.sel] + 1 /\ d.nb[Other(d.sel)] = c.nb[Other(d.sel)]
    /\ c.nb[d.sel] < TxBuffers /\ d.buf[d.sel][c.nb[d.sel]] = byte
    /\ \A b \in Buffer : \A i \in 0 .. TxBuffers - 1 :
          i < c.nb[b] => d.buf[b][i] = c.buf[b][i]
    /\ Lo(d, j) = Lo(c, j)

(* The frame of a short transfer is in sof_num, and its empty frames are   *)
(* counted from none.                                                      *)
ShortInv(c, sh) == sh => c.running /\ c.sof_num = frame /\ c.zlp_counter = 0

Outside ==
    /\ frame \in 0 .. Frames - 1
    /\ sof \in BOOLEAN
    /\ arrived \in 0 .. MaxBytes
    /\ host \in Seq(Byte)
    /\ control \in 0 .. MaxControl
    /\ excused \subseteq Byte
    /\ short \in BOOLEAN
    /\ open \in BOOLEAN

IInv ==
    /\ FwInv(Fw)
    /\ ShortInv(tx, short)
    /\ Outside

-----------------------------------------------------------------------------
(* Constants and parts *)

LEMMA Sizes ==
    /\ TxBuffers \in Nat /\ TxBuffers > 0 /\ EpSize \in Nat /\ EpSize > 0
    /\ Frames \in Nat /\ Frames > 0 /\ ZlpPeriod \in Nat /\ ZlpPeriod > 0
    /\ MaxBytes \in Nat /\ MaxControl \in Nat
    /\ LineErrors \in Nat /\ LineErrors <= MaxStatus
  BY SizesAssumption DEF MaxStatus

LEMMA FwParts ==
    /\ Fw.tx = tx /\ Fw.job = job /\ Fw.usart = usart /\ Fw.hung = hung
  BY DEF Fw

LEMMA BecomesKeeps ==
    ASSUME NEW s, FwInv(s), Becomes(s)
    PROVE  FwInv(Fw')
<1>1. Fw' = [tx |-> s.tx, job |-> s.job, usart |-> s.usart, hung |-> s.hung]
  BY DEF Fw, Becomes
<1>2. s = [tx |-> s.tx, job |-> s.job, usart |-> s.usart, hung |-> s.hung]
  BY DEF FwInv, States
<1> QED
  BY <1>1, <1>2

LEMMA OtherBuffer ==
    ASSUME NEW b \in Buffer
    PROVE  Other(b) \in Buffer /\ Other(b) # b /\ Other(Other(b)) = b
  BY DEF Buffer, Other

LEMMA JobIdleKept ==
    /\ JobIdle \in JobType /\ JobInv(JobIdle) /\ JobIdle.busy = FALSE
    /\ JobIdle.armed = FALSE /\ JobIdle.trcpt = FALSE /\ JobIdle.zlp = FALSE
<1>1. 0 \in Buffer /\ 0 \in 0 .. TxBuffers
  BY Sizes DEF Buffer
<1>2. PICK j : j = JobIdle
  OBVIOUS
<1>3. /\ j = [busy |-> FALSE, buf |-> 0, size |-> 0, off |-> 0, zlp |-> FALSE,
              armed |-> FALSE, trcpt |-> FALSE]
  BY <1>2 DEF JobIdle
<1>4. /\ j.busy = FALSE /\ j.armed = FALSE /\ j.trcpt = FALSE /\ j.zlp = FALSE
      /\ j.off = 0 /\ j.size = 0
  BY <1>3
<1>5. j \in JobType
  BY <1>1, <1>3 DEF JobType
<1>6. j.off <= j.size
  BY <1>4
<1>7. JobInv(j)
  BY <1>4, <1>6 DEF JobInv
<1> QED
  BY <1>2, <1>4, <1>5, <1>7

LEMMA TxParts ==
    ASSUME NEW c \in TxType
    PROVE  /\ c.sel \in Buffer /\ Other(c.sel) \in Buffer
           /\ c.nb[c.sel] \in 0 .. TxBuffers /\ c.nb[Other(c.sel)] \in 0 .. TxBuffers
           /\ c.sof_num \in 0 .. Frames - 1 /\ c.zlp_counter \in 0 .. ZlpPeriod - 1
           /\ c.ongoing \in BOOLEAN /\ c.both \in BOOLEAN /\ c.running \in BOOLEAN
<1>1. c.sel \in Buffer /\ c.nb \in [Buffer -> 0 .. TxBuffers]
  BY DEF TxType
<1>2. Other(c.sel) \in Buffer
  BY <1>1, OtherBuffer
<1> QED
  BY <1>1, <1>2 DEF TxType

-----------------------------------------------------------------------------
(* Transmission *)

LEMMA EmptyJob ==
    ASSUME NEW b \in Buffer, NEW n \in 0 .. TxBuffers, NEW z \in BOOLEAN
    PROVE  LET j == [busy |-> TRUE, buf |-> b, size |-> n, off |-> 0, zlp |-> z,
                     armed |-> TRUE, trcpt |-> FALSE] IN
           /\ j \in JobType /\ JobInv(j)
           /\ j.busy /\ j.buf = b /\ j.size = n
<1>1. PICK j : j = [busy |-> TRUE, buf |-> b, size |-> n, off |-> 0, zlp |-> z,
                    armed |-> TRUE, trcpt |-> FALSE]
  OBVIOUS
<1>2. /\ j.busy /\ j.buf = b /\ j.size = n /\ j.off = 0 /\ j.armed /\ ~j.trcpt
  BY <1>1
<1>3. 0 \in 0 .. TxBuffers /\ 0 <= n
  BY Sizes
<1>4. j \in JobType
  BY <1>1, <1>3 DEF JobType
<1>5. JobInv(j)
  BY <1>2, <1>3 DEF JobInv
<1> QED
  BY <1>1, <1>2, <1>4, <1>5

(* udi_cdc_tx_send starts the transfer of a buffer and turns to the other. *)
LEMMA TxStartKeeps ==
    ASSUME NEW s \in States, Agree(s.tx, s.job), ~s.tx.ongoing, frame \in 0 .. Frames - 1
    PROVE  LET t == TxStart(s) IN
           /\ t \in States /\ Agree(t.tx, t.job)
           /\ t.usart = s.usart /\ t.hung = s.hung /\ t.tx.running = s.tx.running
           /\ Turned(s.tx, s.job, t.tx, t.job)
           /\ t.job.size # TxBuffers => t.tx.sof_num = frame /\ t.tx.zlp_counter = 0
<1>1. s.tx \in TxType /\ s.job \in JobType /\ s.usart \in Usarts /\ s.hung \in BOOLEAN
  BY DEF States
<1>2. PICK b \in Buffer : b = TxChoice(s.tx)
  BY <1>1, TxParts DEF TxChoice
<1>3. PICK n \in 0 .. TxBuffers : n = s.tx.nb[b]
  BY <1>1 DEF TxType
<1>4. PICK p \in 0 .. Frames - 1 : p = IF n # TxBuffers THEN frame ELSE 0
  BY Sizes
<1>5. PICK c : c = [s.tx EXCEPT !.zlp_counter = 0, !.sel = Other(b), !.ongoing = TRUE,
                                !.sof_num = p]
  OBVIOUS
<1>6. /\ c \in TxType /\ c.zlp_counter = 0 /\ c.sel = Other(b) /\ c.ongoing = TRUE
      /\ c.sof_num = p /\ c.nb = s.tx.nb /\ c.buf = s.tx.buf
      /\ c.running = s.tx.running
  <2>1. PICK o \in Buffer, z \in 0 .. ZlpPeriod - 1 : o = Other(b) /\ z = 0
    BY OtherBuffer, Sizes
  <2>2. c = [s.tx EXCEPT !.zlp_counter = z, !.sel = o, !.ongoing = TRUE, !.sof_num = p]
    BY <1>5, <2>1
  <2> QED
    BY <1>1, <2>1, <2>2 DEF TxType
<1>7. PICK j : j = [busy |-> TRUE, buf |-> b, size |-> n, off |-> 0,
                    zlp |-> n # TxBuffers /\ n > 0 /\ n % EpSize = 0,
                    armed |-> TRUE, trcpt |-> FALSE]
  OBVIOUS
<1>8. j \in JobType /\ JobInv(j) /\ j.busy = TRUE /\ j.buf = b /\ j.size = n
  BY <1>7, EmptyJob
<1>9. PICK t : t = [tx |-> c, job |-> j, usart |-> s.usart, hung |-> s.hung]
  OBVIOUS
<1>10. TxStart(s) = t
  <2>1. ~s.job.busy
    BY DEF Agree
  <2>2. PICK u : u = [s EXCEPT !.tx.zlp_counter = 0, !.tx.sel = Other(b),
                               !.tx.ongoing = TRUE, !.tx.sof_num = p]
    OBVIOUS
  <2>3. u = [s EXCEPT !.tx = c]
    BY <1>1, <1>5, <2>2 DEF States, TxType
  <2>4. u.job = s.job
    BY <2>3 DEF States
  <2>5. TxStart(s) = EpRunIn(u, n # TxBuffers, b, n)
    BY <1>2, <1>3, <1>4, <2>2 DEF TxStart
  <2>6. TxStart(s) = [u EXCEPT !.job = j]
    BY <1>7, <2>1, <2>4, <2>5 DEF EpRunIn
  <2> QED
    BY <1>9, <2>3, <2>6 DEF States
<1>11. Other(c.sel) = b
  BY <1>2, <1>6, OtherBuffer
<1>12. t \in States /\ t.tx = c /\ t.job = j /\ t.usart = s.usart /\ t.hung = s.hung
  BY <1>1, <1>6, <1>8, <1>9 DEF States
<1>13. Agree(t.tx, t.job)
  <2>1. Agree(c, j)
    BY <1>3, <1>6, <1>8, <1>11 DEF Agree
  <2> QED
    BY <1>12, <2>1
<1>14. t.job.size # TxBuffers => t.tx.sof_num = frame /\ t.tx.zlp_counter = 0
  BY <1>4, <1>6, <1>8, <1>12
<1>15. Turned(s.tx, s.job, t.tx, t.job)
  <2>1. c.sel = s.tx.sel \/ (c.sel = Other(s.tx.sel) /\ s.tx.nb[Other(s.tx.sel)] = 0)
    <3>1. CASE s.tx.both
      BY <1>1, <1>2, <1>6, <3>1, OtherBuffer, TxParts DEF TxChoice
    <3>2. CASE ~s.tx.both
      BY <1>1, <1>2, <1>6, <3>2 DEF TxChoice, Agree
    <3> QED
      BY <3>1, <3>2
  <2>2. Lo(s.tx, s.job) = 0 /\ Lo(c, j) = 0
    BY <1>6, <1>7 DEF Lo
  <2> QED
    BY <1>6, <1>12, <2>1, <2>2 DEF Turned
<1> QED
  BY <1>6, <1>10, <1>12, <1>13, <1>14, <1>15

LEMMA TxSendKeeps ==
    ASSUME NEW s \in States, Agree(s.tx, s.job), frame \in 0 .. Frames - 1
    PROVE  LET t == TxSend(s) IN
           /\ t \in States /\ Agree(t.tx, t.job)
           /\ t.usart = s.usart /\ t.hung = s.hung /\ t.tx.running = s.tx.running
           /\ Turned(s.tx, s.job, t.tx, t.job)
           /\ t.job = s.job
                \/ (t.job.size # TxBuffers => t.tx.sof_num = frame /\ t.tx.zlp_counter = 0)
           /\ s.tx.sof_num = frame => t = s
<1>1. CASE TxWaits(s.tx)
  BY <1>1 DEF TxSend, Turned
<1>2. CASE ~TxWaits(s.tx) /\ TxSkipsEmpty(s.tx)
  <2>1. s.tx \in TxType /\ s.tx.zlp_counter + 1 < ZlpPeriod
    BY <1>2 DEF States, TxSkipsEmpty
  <2>2. PICK z \in 0 .. ZlpPeriod - 1 : z = s.tx.zlp_counter + 1
    BY <2>1, TxParts, Sizes
  <2>3. PICK c : c = [s.tx EXCEPT !.zlp_counter = z]
    OBVIOUS
  <2>4. /\ c \in TxType /\ c.ongoing = s.tx.ongoing /\ c.sel = s.tx.sel /\ c.nb = s.tx.nb
        /\ c.both = s.tx.both /\ c.running = s.tx.running /\ c.buf = s.tx.buf
    BY <2>1, <2>3 DEF TxType
  <2>5. PICK t : t = [s EXCEPT !.tx = c]
    OBVIOUS
  <2>6. TxSend(s) = t
    BY <1>2, <2>2, <2>3, <2>5 DEF TxSend, States
  <2>7. t \in States /\ t.tx = c /\ t.job = s.job /\ t.usart = s.usart /\ t.hung = s.hung
    BY <2>4, <2>5 DEF States
  <2>8. Agree(t.tx, t.job)
    BY <2>4, <2>7 DEF Agree
  <2>9. s.tx.sof_num # frame
    BY <1>2 DEF TxWaits
  <2>10. Turned(s.tx, s.job, t.tx, t.job)
    BY <2>4, <2>7 DEF Turned, Lo
  <2> QED
    BY <2>4, <2>6, <2>7, <2>8, <2>9, <2>10
<1>3. CASE ~TxWaits(s.tx) /\ ~TxSkipsEmpty(s.tx)
  <2>1. TxSend(s) = TxStart(s) /\ ~s.tx.ongoing /\ s.tx.sof_num # frame
    BY <1>3 DEF TxSend, TxWaits
  <2> QED
    BY <2>1, TxStartKeeps
<1> QED
  BY <1>1, <1>2, <1>3

-----------------------------------------------------------------------------
(* Reception *)

LEMMA ReadBufferJobArms ==
    ASSUME NEW u \in Usarts, u.remaining = 1 => u.rxc_en
    PROVE  LET v == ReadBufferJob(u) IN
           /\ v \in Usarts /\ v.remaining = 1 /\ v.rxc_en = TRUE
           /\ v.cb = u.cb /\ v.enabled = u.enabled /\ v.fifo = u.fifo
<1>1. u.remaining \in {0, 1} /\ u.rxc_en \in BOOLEAN
  BY DEF Usarts
<1>2. CASE u.remaining > 0
  BY <1>1, <1>2 DEF ReadBufferJob
<1>3. CASE ~(u.remaining > 0)
  BY <1>1, <1>3 DEF ReadBufferJob, Usarts
<1> QED
  BY <1>2, <1>3

LEMMA UartConfigStarts ==
    ASSUME NEW u \in Usarts, UsartInv(u), NEW ok \in BOOLEAN
    PROVE  LET v == UartConfig(u, ok) IN
           v \in Usarts /\ UsartInv(v) /\ v.fifo = <<>> /\ v.enabled
<1>1. PICK a : a = Disable(u)
  OBVIOUS
<1>2. /\ a \in Usarts /\ a.fifo = <<>> /\ a.remaining = u.remaining
      /\ a.rxc_en = u.rxc_en
  <2>1. PICK f \in Seq(Item) : f = <<>>
    BY EmptySeq
  <2> QED
    BY <1>1, <2>1 DEF Disable, Usarts
<1>3. PICK b : b = InitModule(a, ok)
  OBVIOUS
<1>4. /\ b \in Usarts /\ b.fifo = <<>>
      /\ b.remaining = 1 => b.rxc_en
  BY <1>2, <1>3 DEF InitModule, Usarts, UsartInv
<1>5. PICK c : c = EnableCallback(Enable(b))
  OBVIOUS
<1>6. /\ c \in Usarts /\ c.fifo = <<>> /\ c.cb = TRUE /\ c.enabled = TRUE
      /\ c.remaining = b.remaining /\ c.rxc_en = b.rxc_en
  BY <1>4, <1>5 DEF EnableCallback, Enable, Usarts
<1>7. PICK v : v = ReadBufferJob(c)
  OBVIOUS
<1>8. /\ v \in Usarts /\ v.remaining = 1 /\ v.rxc_en = TRUE
      /\ v.cb = c.cb /\ v.enabled = c.enabled /\ v.fifo = c.fifo
  BY <1>4, <1>6, <1>7, ReadBufferJobArms
<1>9. UartConfig(u, ok) = v
  BY <1>1, <1>3, <1>5, <1>7 DEF UartConfig
<1> QED
  BY <1>6, <1>8, <1>9 DEF UsartInv

LEMMA DisableStops ==
    ASSUME NEW u \in Usarts, UsartInv(u)
    PROVE  /\ Disable(u) \in Usarts /\ UsartInv(Disable(u))
           /\ Disable(u).fifo = <<>> /\ Disable(u).enabled = FALSE
<1>1. PICK a : a = Disable(u)
  OBVIOUS
<1>2. /\ a \in Usarts /\ a.enabled = FALSE /\ a.remaining = u.remaining
      /\ a.rxc_en = u.rxc_en /\ a.fifo = <<>>
  <2>1. PICK f \in Seq(Item) : f = <<>>
    BY EmptySeq
  <2> QED
    BY <1>1, <2>1 DEF Disable, Usarts
<1> QED
  BY <1>1, <1>2 DEF UsartInv

SameBytes(f, g) == Len(g) = Len(f) /\ \A i \in 1 .. Len(f) : g[i].byte = f[i].byte

LEMMA StatusSet ==
    ASSUME NEW e \in Item, NEW k \in 0 .. MaxStatus
    PROVE  [e EXCEPT !.status = k] \in Item /\ [e EXCEPT !.status = k].byte = e.byte
  BY DEF Item

(* A character arrives, and the handler takes one. *)
LEMMA ArriveTyped ==
    ASSUME NEW u \in Usarts, NEW byte \in Byte, NEW status \in 0 .. MaxStatus
    PROVE  LET v == Arrive(u, byte, status) IN
           /\ v \in Usarts /\ v.remaining = u.remaining /\ v.rxc_en = u.rxc_en
           /\ v.cb = u.cb /\ v.enabled = u.enabled
           /\ \/ Overflows(u) /\ SameBytes(u.fifo, v.fifo)
              \/ ~Overflows(u) /\ v.fifo = Append(u.fifo, [byte |-> byte, status |-> status])
<1>1. u.fifo \in Seq(Item)
  BY DEF Usarts
<1>2. PICK v : v = Arrive(u, byte, status)
  OBVIOUS
<1>3. PICK f \in Seq(Item) :
         /\ v = [u EXCEPT !.fifo = f]
         /\ \/ Overflows(u) /\ SameBytes(u.fifo, f)
            \/ ~Overflows(u) /\ f = Append(u.fifo, [byte |-> byte, status |-> status])
  <2>1. CASE Overflows(u)
    <3>1. Len(u.fifo) = 2
      BY <2>1 DEF Overflows, FifoDepth
    <3>2. u.fifo[2] \in Item
      BY <1>1, <3>1
    <3>3. PICK k \in 0 .. MaxStatus :
             k = IF u.fifo[2].status < MaxStatus THEN u.fifo[2].status + 1 ELSE u.fifo[2].status
      BY <3>2 DEF Item, MaxStatus
    <3>4. PICK i \in Item : i = [u.fifo[2] EXCEPT !.status = k] /\ i.byte = u.fifo[2].byte
      BY <3>2, StatusSet
    <3>5. PICK f : f = [u.fifo EXCEPT ![2] = i]
      OBVIOUS
    <3>6. f \in Seq(Item) /\ SameBytes(u.fifo, f)
      <4>1. 2 \in 1 .. Len(u.fifo)
        BY <3>1
      <4>2. /\ f \in Seq(Item) /\ Len(f) = Len(u.fifo)
            /\ \A m \in 1 .. Len(u.fifo) : f[m] = IF m = 2 THEN i ELSE u.fifo[m]
        BY <1>1, <3>5, <4>1, ExceptSeq
      <4> QED
        BY <3>4, <4>2 DEF SameBytes
    <3>7. v = [u EXCEPT !.fifo = f]
      BY <1>2, <2>1, <3>3, <3>4, <3>5 DEF Arrive, FifoDepth
    <3> QED
      BY <2>1, <3>6, <3>7
  <2>2. CASE ~Overflows(u)
    <3>1. PICK i \in Item : i = [byte |-> byte, status |-> status]
      BY DEF Item
    <3>2. PICK f : f = Append(u.fifo, i)
      OBVIOUS
    <3>3. f \in Seq(Item)
      BY <1>1, <3>1, <3>2
    <3> QED
      BY <1>2, <2>2, <3>1, <3>2, <3>3 DEF Arrive
  <2> QED
    BY <2>1, <2>2
<1> QED
  BY <1>2, <1>3 DEF Usarts

LEMMA HandleRxcTyped ==
    ASSUME NEW u \in Usarts, u.fifo # <<>>, u.remaining = 1
    PROVE  LET v == HandleRxc(u) IN
           /\ v \in Usarts /\ v.cb = u.cb /\ v.enabled = u.enabled
           /\ TakesByte(u) => v.remaining = 0 /\ v.fifo = Tail(u.fifo)
           /\ ~TakesByte(u) => /\ v.remaining = 1 /\ v.rxc_en = u.rxc_en
                              /\ SameBytes(u.fifo, v.fifo)
<1>1. u.fifo \in Seq(Item) /\ Len(u.fifo) > 0 /\ u.fifo[1] \in Item /\ u.fifo[1] = Head(u.fifo)
  BY DEF Usarts
<1>2. PICK v : v = HandleRxc(u)
  OBVIOUS
<1>3. CASE TakesByte(u)
  <2>1. PICK f : f = Tail(u.fifo)
    OBVIOUS
  <2>2. f \in Seq(Item)
    BY <1>1, <2>1, HeadTailProperties
  <2>3. v = [u EXCEPT !.fifo = f, !.remaining = 0, !.rxc_en = FALSE]
    BY <1>2, <1>3, <2>1 DEF HandleRxc
  <2> QED
    <3>1. v \in Usarts
      BY <2>2, <2>3 DEF Usarts
    <3>2. /\ v.cb = u.cb /\ v.enabled = u.enabled /\ v.remaining = 0
          /\ v.fifo = Tail(u.fifo)
      BY <2>1, <2>3 DEF Usarts
    <3> QED
      BY <1>2, <1>3, <3>1, <3>2
<1>4. CASE ~TakesByte(u)
  <2>1. PICK k \in 0 .. MaxStatus : k = u.fifo[1].status - 1
    BY <1>1, <1>4 DEF TakesByte, Item, MaxStatus
  <2>2. PICK i \in Item : i = [u.fifo[1] EXCEPT !.status = k] /\ i.byte = u.fifo[1].byte
    BY <1>1, StatusSet
  <2>3. PICK f : f = [u.fifo EXCEPT ![1] = i]
    OBVIOUS
  <2>4. f \in Seq(Item) /\ SameBytes(u.fifo, f)
    <3>1. 1 \in 1 .. Len(u.fifo)
      BY <1>1
    <3>2. /\ f \in Seq(Item) /\ Len(f) = Len(u.fifo)
          /\ \A m \in 1 .. Len(u.fifo) : f[m] = IF m = 1 THEN i ELSE u.fifo[m]
      BY <1>1, <2>3, <3>1, ExceptSeq
    <3> QED
      BY <2>2, <3>2 DEF SameBytes
  <2>5. v = [u EXCEPT !.fifo = f]
    BY <1>2, <1>4, <2>1, <2>2, <2>3 DEF HandleRxc
  <2>6. v \in Usarts /\ v.fifo = f /\ v.cb = u.cb /\ v.enabled = u.enabled
        /\ v.remaining = u.remaining /\ v.rxc_en = u.rxc_en
    BY <2>4, <2>5 DEF Usarts
  <2> QED
    BY <1>2, <1>4, <2>4, <2>6
<1> QED
  BY <1>3, <1>4

-----------------------------------------------------------------------------
(* The handlers *)

(* A byte with room for it goes behind the last one of the buffer; moving  *)
(* on to the other buffer leaves a full one.  udi_cdc_putc asks again and  *)
(* finds room while the port is up, as the other buffer was empty.         *)
LEMMA PutcKeeps ==
    ASSUME NEW s \in States, NEW byte \in Byte, TxReady(s.tx), ~s.hung,
           s.tx.running => Agree(s.tx, s.job)
    PROVE  LET t == Putc([s EXCEPT !.tx = MakeRoom(@)], byte) IN
           /\ t \in States /\ t.job = s.job /\ t.usart = s.usart /\ t.hung = s.hung
           /\ t.tx.running = s.tx.running /\ t.tx.ongoing = s.tx.ongoing
           /\ t.tx.sof_num = s.tx.sof_num /\ t.tx.zlp_counter = s.tx.zlp_counter
           /\ t.tx.running => Agree(t.tx, t.job) /\ Added(s.tx, s.job, t.tx, byte)
<1> USE DEF TxMoves
<1>1. s.tx \in TxType
  BY DEF States
<1>2. PICK c : c = MakeRoom(s.tx)
  OBVIOUS
<1>3. /\ c \in TxType /\ c.nb = s.tx.nb /\ c.ongoing = s.tx.ongoing /\ c.buf = s.tx.buf
      /\ c.running = s.tx.running /\ c.sof_num = s.tx.sof_num
      /\ c.zlp_counter = s.tx.zlp_counter
  <2>1. PICK o \in Buffer : o = Other(s.tx.sel)
    BY <1>1, TxParts
  <2> QED
    BY <1>1, <1>2, <2>1 DEF MakeRoom, TxType
<1>4. \/ c = s.tx /\ ~TxMoves(s.tx)
      \/ /\ ~s.tx.ongoing /\ ~s.tx.both /\ s.tx.nb[s.tx.sel] = TxBuffers
         /\ c.both = TRUE /\ c.sel = Other(s.tx.sel)
  BY <1>1, <1>2 DEF MakeRoom, TxType
<1>5. PICK k \in 0 .. TxBuffers : k = c.nb[c.sel]
  BY <1>3, TxParts
<1>6. PICK r : r = [s EXCEPT !.tx = c]
  OBVIOUS
<1>7. /\ r \in States /\ r.tx = c /\ r.job = s.job /\ r.usart = s.usart /\ r.hung = s.hung
      /\ r = [s EXCEPT !.tx = MakeRoom(@)]
  BY <1>2, <1>3, <1>6 DEF States
<1>8. ~TxMoves(c) /\ MakeRoom(c) = c
  BY <1>4 DEF MakeRoom
<1>9. TxReady(c) <=> k < TxBuffers
  BY <1>5, <1>8, Sizes DEF TxReady, FreeTxBuffer
<1>10. s.tx.running => k < TxBuffers
  <2>1. CASE c = s.tx /\ ~TxMoves(s.tx)
    BY <1>9, <2>1
  <2>2. CASE /\ ~s.tx.ongoing /\ ~s.tx.both /\ s.tx.nb[s.tx.sel] = TxBuffers
             /\ c.both = TRUE /\ c.sel = Other(s.tx.sel)
    BY <1>3, <1>5, <2>2, Sizes DEF Agree
  <2> QED
    BY <1>4, <2>1, <2>2
<1>11. CASE ~(k < TxBuffers)
  <2>1. Putc(r, byte) = [r EXCEPT !.hung = FALSE] /\ ~s.tx.running
    BY <1>3, <1>7, <1>9, <1>10, <1>11 DEF Putc, States, TxType
  <2>2. PICK t : t = [r EXCEPT !.hung = FALSE]
    OBVIOUS
  <2>3. /\ t \in States /\ t.tx = c /\ t.job = s.job /\ t.usart = s.usart
        /\ t.hung = s.hung
    BY <1>7, <2>2 DEF States
  <2> QED
    BY <1>3, <1>7, <2>1, <2>2, <2>3
<1>12. CASE k < TxBuffers
  <2>1. PICK q : q = [c EXCEPT !.buf[c.sel][c.nb[c.sel]] = byte, !.nb[c.sel] = @ + 1]
    OBVIOUS
  <2>2. /\ q \in TxType /\ q.sel = c.sel /\ q.both = c.both /\ q.ongoing = c.ongoing
        /\ q.running = c.running /\ q.sof_num = c.sof_num /\ q.zlp_counter = c.zlp_counter
        /\ q.nb[c.sel] = k + 1 /\ q.nb[Other(c.sel)] = c.nb[Other(c.sel)]
        /\ q.buf = [c.buf EXCEPT ![c.sel][k] = byte]
    <3>1. /\ c.buf \in [Buffer -> [0 .. TxBuffers - 1 -> Byte]] /\ c.sel \in Buffer
          /\ c.nb \in [Buffer -> 0 .. TxBuffers]
          /\ Other(c.sel) \in Buffer /\ Other(c.sel) # c.sel
      BY <1>3, OtherBuffer DEF TxType
    <3>2. PICK bs \in [Buffer -> [0 .. TxBuffers - 1 -> Byte]] :
             bs = [c.buf EXCEPT ![c.sel][k] = byte]
      BY <1>12, <3>1, Sizes
    <3>3. PICK i \in 0 .. TxBuffers : i = k + 1
      BY <1>12, Sizes
    <3>4. PICK ns \in [Buffer -> 0 .. TxBuffers] : ns = [c.nb EXCEPT ![c.sel] = i]
      BY <3>1
    <3>5. q = [c EXCEPT !.buf = bs, !.nb = ns]
      BY <1>3, <1>5, <2>1, <3>2, <3>4, <3>3 DEF TxType
    <3> QED
      BY <1>3, <3>1, <3>2, <3>4, <3>5, <3>3 DEF TxType
  <2>3. PICK t : t = [r EXCEPT !.tx = q]
    OBVIOUS
  <2>4. Putc(r, byte) = t
    BY <1>7, <1>8, <1>9, <1>12, <2>1, <2>3 DEF Putc, States
  <2>5. t \in States /\ t.tx = q /\ t.job = s.job /\ t.usart = s.usart /\ t.hung = s.hung
    BY <2>2, <2>3, <1>7 DEF States
  <2>6. ASSUME s.tx.running
         PROVE  Agree(q, s.job)
    <3>1. Agree(s.tx, s.job) /\ s.tx.sel \in Buffer
      BY <1>1, <2>6, TxParts
    <3>2. CASE c = s.tx
      <4>1. /\ q.sel = s.tx.sel /\ q.both = s.tx.both /\ q.ongoing = s.tx.ongoing
            /\ q.nb[Other(q.sel)] = s.tx.nb[Other(s.tx.sel)] /\ q.nb[q.sel] > 0
        BY <1>5, <2>2, <3>2
      <4> QED
        BY <3>1, <4>1 DEF Agree
    <3>3. CASE /\ ~s.tx.ongoing /\ ~s.tx.both /\ s.tx.nb[s.tx.sel] = TxBuffers
               /\ c.both = TRUE /\ c.sel = Other(s.tx.sel)
      <4>1. q.both = TRUE /\ q.ongoing = s.tx.ongoing /\ q.nb[q.sel] > 0
        BY <1>3, <1>5, <2>2, <3>3
      <4>2. q.nb[Other(q.sel)] = TxBuffers /\ Other(q.sel) = s.tx.sel /\ q.sel = Other(s.tx.sel)
        BY <1>3, <2>2, <3>1, <3>3, OtherBuffer, SMTT(60)
      <4> QED
        BY <3>1, <3>3, <4>1, <4>2 DEF Agree
    <3> QED
      BY <1>4, <3>2, <3>3
  <2>7. ASSUME s.tx.running
         PROVE  Added(s.tx, s.job, q, byte)
    <3>1. Agree(s.tx, s.job) /\ s.tx.sel \in Buffer
      BY <1>1, <2>7, TxParts
    <3>2. \/ q.sel = s.tx.sel
          \/ /\ q.sel = Other(s.tx.sel) /\ s.tx.nb[Other(s.tx.sel)] = 0
             /\ Lo(s.tx, s.job) = 0
      BY <1>4, <2>2, <3>1 DEF Agree, Lo
    <3>3. Lo(q, s.job) = Lo(s.tx, s.job)
      BY <1>3, <2>2 DEF Lo
    <3>4. /\ q.buf[q.sel][k] = byte
          /\ \A b \in Buffer : \A i \in 0 .. TxBuffers - 1 :
                i < c.nb[b] => q.buf[b][i] = c.buf[b][i]
      <4>1. /\ c.buf \in [Buffer -> [0 .. TxBuffers - 1 -> Byte]] /\ c.sel \in Buffer
            /\ k \in 0 .. TxBuffers - 1 /\ q.sel = c.sel
        BY <1>3, <1>12, <2>2, Sizes DEF TxType
      <4>2. \A b \in Buffer : \A i \in 0 .. TxBuffers - 1 :
               q.buf[b][i] = IF b = c.sel /\ i = k THEN byte ELSE c.buf[b][i]
        <5>1. PICK row : row = [c.buf[c.sel] EXCEPT ![k] = byte]
          OBVIOUS
        <5>2. q.buf = [c.buf EXCEPT ![c.sel] = row]
          BY <2>2, <5>1
        <5>3. \A i \in 0 .. TxBuffers - 1 : row[i] = IF i = k THEN byte ELSE c.buf[c.sel][i]
          BY <4>1, <5>1
        <5>4. \A b \in Buffer : q.buf[b] = IF b = c.sel THEN row ELSE c.buf[b]
          BY <4>1, <5>2
        <5> QED
          BY <5>3, <5>4
      <4>3. q.buf[q.sel][k] = byte
        BY <4>1, <4>2
      <4>4. ASSUME NEW b \in Buffer, NEW i \in 0 .. TxBuffers - 1, i < c.nb[b]
            PROVE  q.buf[b][i] = c.buf[b][i]
        <5>1. ~(b = c.sel /\ i = k)
          BY <1>5, <4>1, <4>4
        <5> QED
          BY <4>2, <4>4, <5>1
      <4> QED
        BY <4>3, <4>4
    <3>5. /\ q.nb[q.sel] = s.tx.nb[q.sel] + 1
          /\ q.nb[Other(q.sel)] = s.tx.nb[Other(q.sel)]
          /\ s.tx.nb[q.sel] < TxBuffers /\ q.buf[q.sel][s.tx.nb[q.sel]] = byte
      BY <1>3, <1>5, <1>12, <2>2, <3>4
    <3>6. \A b \in Buffer : \A i \in 0 .. TxBuffers - 1 :
             i < s.tx.nb[b] => q.buf[b][i] = s.tx.buf[b][i]
      BY <1>3, <3>4
    <3> QED
      BY <3>2, <3>3, <3>5, <3>6 DEF Added
  <2> QED
    BY <1>3, <1>7, <2>2, <2>4, <2>5, <2>6, <2>7
<1> QED
  BY <1>11, <1>12

LEMMA RxCallbackKeeps ==
    ASSUME NEW s \in States, NEW byte \in Byte, ~s.hung,
           s.tx.running => Agree(s.tx, s.job), ~s.tx.running => s.job = JobIdle,
           s.usart.remaining = 1 => s.usart.rxc_en, s.usart.cb
    PROVE  LET t == RxCallback(s, byte) IN
           /\ FwInv(t) /\ t.job = s.job /\ t.tx.running = s.tx.running
           /\ t.usart.fifo = s.usart.fifo /\ t.usart.enabled = s.usart.enabled
           /\ TxReady(s.tx) /\ s.tx.running => Added(s.tx, s.job, t.tx, byte)
           /\ ~TxReady(s.tx) => t.tx = s.tx
           /\ t.tx.sof_num = s.tx.sof_num /\ t.tx.zlp_counter = s.tx.zlp_counter
<1>1. PICK k : k = PutcIfReady(s, byte)
  OBVIOUS
<1>2. /\ k \in States /\ k.job = s.job /\ k.usart = s.usart /\ k.hung = s.hung
      /\ k.tx.running = s.tx.running
      /\ k.tx.sof_num = s.tx.sof_num /\ k.tx.zlp_counter = s.tx.zlp_counter
      /\ k.tx.running => Agree(k.tx, k.job)
      /\ TxReady(s.tx) /\ s.tx.running => Added(s.tx, s.job, k.tx, byte)
      /\ ~TxReady(s.tx) => k.tx = s.tx
  BY <1>1, PutcKeeps DEF PutcIfReady
<1>3. s.usart \in Usarts
  BY DEF States
<1>4. PICK v : v = ReadBufferJob(k.usart)
  OBVIOUS
<1>5. /\ v \in Usarts /\ v.remaining = 1 /\ v.rxc_en = TRUE /\ v.cb = s.usart.cb
      /\ v.fifo = s.usart.fifo /\ v.enabled = s.usart.enabled
  BY <1>2, <1>3, <1>4, ReadBufferJobArms
<1>6. PICK t : t = [k EXCEPT !.usart = v]
  OBVIOUS
<1>7. RxCallback(s, byte) = t
  BY <1>1, <1>4, <1>6 DEF RxCallback
<1>8. t \in States /\ t.tx = k.tx /\ t.job = k.job /\ t.hung = k.hung /\ t.usart = v
  BY <1>2, <1>5, <1>6 DEF States
<1>9. UsartInv(v)
  BY <1>5 DEF UsartInv
<1>10. FwInv(t)
  BY <1>2, <1>8, <1>9 DEF FwInv
<1>11. TxReady(s.tx) /\ s.tx.running => Added(s.tx, s.job, t.tx, byte)
  BY <1>2, <1>8
<1> QED
  BY <1>2, <1>5, <1>7, <1>8, <1>10, <1>11

(* udi_cdc_data_sent, once udd_ep_trans_in_next has freed the job. *)
LEMMA DataSentKeeps ==
    ASSUME NEW s \in States, s.job = JobIdle, frame \in 0 .. Frames - 1
    PROVE  LET t == DataSent(s) IN
           /\ t \in States /\ Agree(t.tx, t.job)
           /\ t.usart = s.usart /\ t.hung = s.hung /\ t.tx.running = s.tx.running
           /\ Sent(s.tx, t.tx, t.job)
           /\ t.job = JobIdle
                \/ (t.job.size # TxBuffers => t.tx.sof_num = frame /\ t.tx.zlp_counter = 0)
           /\ s.tx.sof_num = frame =>
                 /\ t.job = JobIdle /\ t.tx.sof_num = frame
                 /\ t.tx.zlp_counter = s.tx.zlp_counter
<1>1. s.tx \in TxType /\ s.tx.nb \in [Buffer -> 0 .. TxBuffers]
  BY DEF States, TxType
<1>2. PICK o \in Buffer : o = Other(s.tx.sel)
  BY <1>1, TxParts
<1>3. PICK z \in 0 .. TxBuffers : z = 0
  BY Sizes
<1>4. PICK ns \in [Buffer -> 0 .. TxBuffers] : ns = [s.tx.nb EXCEPT ![o] = z]
  BY <1>1
<1>5. ns[o] = 0
  BY <1>1, <1>3, <1>4
<1>6. PICK c : c = [s.tx EXCEPT !.nb = ns, !.both = FALSE, !.ongoing = FALSE]
  OBVIOUS
<1>7. /\ c \in TxType /\ c.nb[Other(c.sel)] = 0 /\ c.ongoing = FALSE
      /\ c.running = s.tx.running /\ c.sof_num = s.tx.sof_num
      /\ c.zlp_counter = s.tx.zlp_counter
      /\ c.sel = s.tx.sel /\ c.buf = s.tx.buf /\ c.nb = ns /\ c.both = FALSE
  BY <1>1, <1>2, <1>5, <1>6 DEF TxType
<1>8. PICK u : u = [s EXCEPT !.tx = c]
  OBVIOUS
<1>9. u \in States /\ u.tx = c /\ u.job = JobIdle /\ u.usart = s.usart /\ u.hung = s.hung
  BY <1>7, <1>8 DEF States
<1>10. Agree(u.tx, u.job)
  <2>1. Agree(c, JobIdle)
    BY <1>7, JobIdleKept DEF Agree
  <2> QED
    BY <1>9, <2>1
<1>11. DataSent(s) = TxSend(u)
  <2>1. u = [s EXCEPT !.tx.nb[Other(s.tx.sel)] = 0, !.tx.both = FALSE, !.tx.ongoing = FALSE]
    BY <1>1, <1>2, <1>3, <1>4, <1>6, <1>8 DEF States, TxType
  <2> QED
    BY <2>1 DEF DataSent
<1>12. PICK t : t = TxSend(u)
  OBVIOUS
<1>13. Sent(s.tx, t.tx, t.job)
  <2>1. Turned(u.tx, u.job, t.tx, t.job)
    BY <1>9, <1>10, <1>12, TxSendKeeps
  <2>2. Lo(c, JobIdle) = 0
    BY <1>7 DEF Lo
  <2>3. /\ t.tx.buf = s.tx.buf /\ t.tx.nb = ns /\ Lo(t.tx, t.job) = 0
        /\ t.tx.sel \in {s.tx.sel, Other(s.tx.sel)}
    BY <1>7, <1>9, <2>1, <2>2 DEF Turned
  <2>4. ns[s.tx.sel] = s.tx.nb[s.tx.sel] /\ ns[Other(s.tx.sel)] = 0
    BY <1>1, <1>2, <1>4, <1>5, OtherBuffer, TxParts
  <2> QED
    BY <2>3, <2>4 DEF Sent
<1> QED
  BY <1>7, <1>9, <1>10, <1>11, <1>12, <1>13, TxSendKeeps

(* Disabling the data interface, and enabling it. *)
LEMMA DataDisableKeeps ==
    ASSUME NEW s, FwInv(s)
    PROVE  LET t == DataDisable(s) IN
           /\ FwInv(t) /\ t.job = JobIdle /\ t.tx.running = FALSE
           /\ t.tx.buf = s.tx.buf /\ t.tx.zlp_counter = s.tx.zlp_counter
           /\ t.usart.fifo = <<>> /\ t.usart.enabled = FALSE
<1>1. s \in States /\ s.tx \in TxType /\ s.usart \in Usarts /\ UsartInv(s.usart) /\ ~s.hung
  BY DEF FwInv, States
<1>2. PICK c : c = [s.tx EXCEPT !.running = FALSE]
  OBVIOUS
<1>3. /\ c \in TxType /\ c.running = FALSE /\ c.buf = s.tx.buf
      /\ c.zlp_counter = s.tx.zlp_counter
  BY <1>1, <1>2 DEF TxType
<1>4. PICK v : v = Disable(s.usart)
  OBVIOUS
<1>5. v \in Usarts /\ UsartInv(v) /\ v.fifo = <<>> /\ v.enabled = FALSE
  BY <1>1, <1>4, DisableStops
<1>6. PICK t : t = [s EXCEPT !.job = JobIdle, !.tx = c, !.usart = v]
  OBVIOUS
<1>7. t \in States /\ t.tx = c /\ t.job = JobIdle /\ t.usart = v /\ t.hung = s.hung
  BY <1>1, <1>3, <1>5, <1>6, JobIdleKept DEF States
<1>8. DataDisable(s) = t
  BY <1>1, <1>2, <1>4, <1>6 DEF DataDisable, States
<1> QED
  BY <1>1, <1>3, <1>5, <1>7, <1>8 DEF FwInv

LEMMA DataEnableKeeps ==
    ASSUME NEW s, FwInv(s), s.job = JobIdle, frame \in 0 .. Frames - 1
    PROVE  LET t == DataEnable(s) IN
           /\ FwInv(t) /\ t.tx.running = TRUE /\ t.usart = s.usart
           /\ \A b \in Buffer : t.tx.nb[b] = 0
           /\ t.job = JobIdle
                \/ (t.job.size # TxBuffers => t.tx.sof_num = frame /\ t.tx.zlp_counter = 0)
           /\ s.tx.zlp_counter = 0 /\ ZlpPeriod > 1 => t.job = JobIdle
<1>1. s \in States /\ s.tx \in TxType /\ UsartInv(s.usart) /\ ~s.hung
  BY DEF FwInv, States
<1>2. PICK c : c = [CdcReset EXCEPT !.buf = s.tx.buf, !.zlp_counter = s.tx.zlp_counter]
  OBVIOUS
<1>3. /\ c = [buf |-> s.tx.buf, nb |-> [b \in Buffer |-> 0], sel |-> 0, both |-> FALSE,
              ongoing |-> FALSE, sof_num |-> 0, zlp_counter |-> s.tx.zlp_counter,
              running |-> FALSE]
  BY <1>2 DEF CdcReset
<1>4. c \in TxType
  <2>1. PICK z \in 0 .. TxBuffers : z = 0
    BY Sizes
  <2>2. PICK ns \in [Buffer -> 0 .. TxBuffers] : ns = [b \in Buffer |-> 0]
    BY <2>1
  <2>3. 0 \in Buffer /\ 0 \in 0 .. Frames - 1
    BY Sizes DEF Buffer
  <2> QED
    BY <1>1, <1>3, <2>2, <2>3 DEF TxType
<1>5. /\ c.nb[c.sel] = 0 /\ c.nb[Other(c.sel)] = 0 /\ c.ongoing = FALSE /\ c.both = FALSE
      /\ c.zlp_counter = s.tx.zlp_counter /\ \A b \in Buffer : c.nb[b] = 0
  <2>1. c.sel \in Buffer /\ Other(c.sel) \in Buffer
    BY <1>4, TxParts
  <2> QED
    BY <1>3, <2>1
<1>6. PICK u : u = [s EXCEPT !.tx = c]
  OBVIOUS
<1>7. u \in States /\ u.tx = c /\ u.job = JobIdle /\ u.usart = s.usart /\ u.hung = s.hung
  BY <1>1, <1>4, <1>6 DEF States
<1>8. Agree(u.tx, u.job)
  <2>1. Agree(c, JobIdle)
    BY <1>5, JobIdleKept DEF Agree
  <2> QED
    BY <1>7, <2>1
<1>9. PICK w : w = TxSend(u)
  OBVIOUS
<1>10. /\ w \in States /\ Agree(w.tx, w.job) /\ w.usart = s.usart /\ w.hung = s.hung
       /\ w.job = JobIdle
            \/ (w.job.size # TxBuffers => w.tx.sof_num = frame /\ w.tx.zlp_counter = 0)
       /\ w.tx.nb = c.nb
  <2>1. Turned(u.tx, u.job, w.tx, w.job)
    BY <1>7, <1>8, <1>9, TxSendKeeps
  <2>2. w.tx.nb = c.nb
    BY <1>7, <2>1 DEF Turned
  <2> QED
    BY <1>7, <1>8, <1>9, <2>2, TxSendKeeps
<1>11. PICK e : e = [w.tx EXCEPT !.running = TRUE]
  OBVIOUS
<1>12. /\ e \in TxType /\ e.running = TRUE /\ e.ongoing = w.tx.ongoing /\ e.sel = w.tx.sel
       /\ e.nb = w.tx.nb /\ e.both = w.tx.both /\ e.sof_num = w.tx.sof_num
       /\ e.zlp_counter = w.tx.zlp_counter
  BY <1>10, <1>11 DEF States, TxType
<1>13. PICK t : t = [w EXCEPT !.tx = e]
  OBVIOUS
<1>14. t \in States /\ t.tx = e /\ t.job = w.job /\ t.usart = w.usart /\ t.hung = w.hung
  BY <1>10, <1>12, <1>13 DEF States
<1>15. Agree(t.tx, t.job)
  <2>1. Agree(e, w.job)
    BY <1>10, <1>12 DEF Agree
  <2> QED
    BY <1>14, <2>1
<1>16. DataEnable(s) = t
  BY <1>2, <1>6, <1>9, <1>11, <1>13 DEF DataEnable
<1>17. ASSUME s.tx.zlp_counter = 0, ZlpPeriod > 1
       PROVE  w.job = JobIdle
  <2>1. TxWaits(u.tx) \/ TxSkipsEmpty(u.tx)
    BY <1>5, <1>7, <1>17 DEF TxSkipsEmpty
  <2>2. w = u \/ w = [u EXCEPT !.tx.zlp_counter = @ + 1]
    BY <1>9, <2>1 DEF TxSend
  <2>3. w.job = u.job
    BY <1>7, <2>2 DEF States
  <2> QED
    BY <1>7, <2>3
<1>18. \A b \in Buffer : t.tx.nb[b] = 0
  BY <1>5, <1>10, <1>12, <1>14
<1> QED
  BY <1>1, <1>10, <1>12, <1>14, <1>15, <1>16, <1>17, <1>18 DEF FwInv

-----------------------------------------------------------------------------
(* Every step keeps the invariant *)

LEMMA ParsedInv ==
    ASSUME IInv
    PROVE  /\ Fw \in States /\ tx \in TxType /\ job \in JobType /\ usart \in Usarts
           /\ hung = FALSE /\ UsartInv(usart)
           /\ tx.running => Agree(tx, job)
           /\ ~tx.running => job = JobIdle
           /\ FwInv(Fw)
  BY FwParts DEF IInv, FwInv, States

(* What the state of the firmware becomes when a step writes the variables *)
(* one by one.                                                             *)
LEMMA FwAfter ==
    ASSUME tx' \in TxType, job' \in JobType, usart' \in Usarts, hung' = FALSE,
           UsartInv(usart'), tx'.running => Agree(tx', job'),
           ~tx'.running => job' = JobIdle
    PROVE  FwInv(Fw')
<1>1. PICK t : t = Fw'
  OBVIOUS
<1>2. t = [tx |-> tx', job |-> job', usart |-> usart', hung |-> hung']
  BY <1>1 DEF Fw
<1>3. t \in States /\ t.tx = tx' /\ t.job = job' /\ t.usart = usart' /\ t.hung = hung'
  BY <1>2 DEF States
<1>4. FwInv(t)
  BY <1>3 DEF FwInv
<1> QED
  BY <1>1, <1>4

LEMMA ByteArrivesStep ==
    ASSUME IInv, NEW status \in 0 .. LineErrors, ByteArrives(status)
    PROVE  IInv'
<1>1. status \in 0 .. MaxStatus
  BY Sizes DEF MaxStatus
<1>2. PICK a \in Byte : a = arrived + 1
  BY Sizes DEF IInv, Outside, ByteArrives, Byte
<1>3. PICK v : v = Arrive(usart, a, status)
  OBVIOUS
<1>4. /\ v \in Usarts /\ v.remaining = usart.remaining /\ v.rxc_en = usart.rxc_en
      /\ v.cb = usart.cb /\ v.enabled = usart.enabled
  BY <1>1, <1>3, ParsedInv, ArriveTyped
<1>5. UsartInv(v)
  BY <1>4, ParsedInv DEF UsartInv
<1>6. usart' = v
  BY <1>2, <1>3 DEF ByteArrives
<1>7. FwInv(Fw')
  BY <1>4, <1>5, <1>6, ParsedInv, FwAfter DEF ByteArrives
<1>8. Outside'
  <2>1. arrived' \in 0 .. MaxBytes
    BY Sizes DEF IInv, Outside, ByteArrives
  <2>2. excused' \subseteq Byte
    BY <1>2 DEF IInv, Outside, ByteArrives
  <2> QED
    BY <2>1, <2>2 DEF IInv, Outside, ByteArrives, bus
<1> QED
  BY <1>7, <1>8 DEF IInv, ShortInv, ByteArrives, bus

LEMMA FrameStartStep ==
    ASSUME IInv, FrameStart
    PROVE  IInv'
<1>1. FwInv(Fw')
  BY ParsedInv, FwAfter DEF FrameStart
<1>2. frame' \in 0 .. Frames - 1
  BY Sizes DEF FrameStart, IInv, Outside
<1>3. Outside' /\ ~short'
  BY <1>2 DEF FrameStart, IInv, Outside
<1> QED
  BY <1>1, <1>3 DEF IInv, ShortInv

LEMMA FunctionIsSeq ==
    ASSUME NEW S, NEW k \in Nat, NEW f \in [1 .. k -> S]
    PROVE  f \in Seq(S) /\ Len(f) = k
<1>1. f \in Seq(S)
  OBVIOUS
<1>2. DOMAIN f = 1 .. k /\ DOMAIN f = 1 .. Len(f) /\ Len(f) \in Nat
  BY <1>1, LenProperties
<1>3. 1 .. k = 1 .. Len(f)
  BY <1>2
<1>4. k \in 1 .. Len(f) \/ k = 0
  BY <1>3
<1>5. Len(f) \in 1 .. k \/ Len(f) = 0
  BY <1>2, <1>3
<1> QED
  BY <1>1, <1>2, <1>4, <1>5

(* Bytes of a buffer, as the host reads them. *)
LEMMA SliceTyped ==
    ASSUME tx \in TxType, NEW b \in Buffer, NEW from \in Nat, NEW to \in 0 .. TxBuffers,
           from <= to
    PROVE  Slice(b, from, to) \in Seq(Byte) /\ Len(Slice(b, from, to)) = to - from
<1>1. PICK k \in Nat : k = to - from
  OBVIOUS
<1>2. PICK f : f = [i \in 1 .. k |-> tx.buf[b][from + i - 1]]
  OBVIOUS
<1>3. \A i \in 1 .. k : tx.buf[b][from + i - 1] \in Byte
  <2>1. tx.buf[b] \in [0 .. TxBuffers - 1 -> Byte]
    BY DEF TxType
  <2>2. \A i \in 1 .. k : from + i - 1 \in 0 .. TxBuffers - 1
    BY <1>1, Sizes
  <2> QED
    BY <2>1, <2>2
<1>4. f \in [1 .. k -> Byte]
  BY <1>2, <1>3
<1>5. f \in Seq(Byte) /\ Len(f) = k
  BY <1>4, FunctionIsSeq
<1> QED
  BY <1>1, <1>2, <1>5 DEF Slice

LEMMA HostInStep ==
    ASSUME IInv, HostIn
    PROVE  IInv'
<1>1. /\ tx.running /\ Agree(tx, job) /\ job \in JobType /\ job.armed = TRUE
      /\ job.trcpt = FALSE
  <2>1. tx.running
    BY ParsedInv, JobIdleKept DEF HostIn
  <2>2. JobInv(job) /\ job \in JobType
    BY <2>1, ParsedInv DEF Agree
  <2>3. job.armed \in BOOLEAN /\ job.trcpt \in BOOLEAN
    BY <2>2 DEF JobType
  <2> QED
    BY <2>1, <2>2, <2>3, ParsedInv DEF HostIn, JobInv
<1>2. PICK rest \in 0 .. TxBuffers : rest = job.size - job.off
  BY <1>1, Sizes DEF Agree, JobInv, JobType
<1>3. PICK n \in 0 .. rest : n = IF rest < EpSize THEN rest ELSE EpSize
  BY <1>2, Sizes
<1>4. /\ host' = host \o Slice(job.buf, job.off, job.off + n)
      /\ job' = [job EXCEPT !.off = @ + n, !.armed = n # rest, !.trcpt = n = rest]
      /\ UNCHANGED <<tx, usart, hung, bus, arrived, control, excused, short>>
  BY <1>2, <1>3 DEF HostIn
<1>5. PICK o \in 0 .. TxBuffers : o = job.off + n
  BY <1>1, <1>2, <1>3, Sizes DEF JobType
<1>6. PICK j : j = [job EXCEPT !.off = o, !.armed = n # rest, !.trcpt = n = rest]
  OBVIOUS
<1>7. job' = j
  BY <1>1, <1>4, <1>5, <1>6 DEF JobType
<1>8. /\ j \in JobType /\ j.busy = job.busy /\ j.buf = job.buf /\ j.size = job.size
      /\ j.zlp = job.zlp /\ j.armed = (n # rest) /\ j.trcpt = (n = rest) /\ j.off = o
  BY <1>1, <1>6 DEF JobType
<1>9. Agree(tx, j)
  <2>1. job.busy = TRUE
    BY <1>1 DEF Agree, JobInv
  <2>2. o <= job.size /\ (n = rest => o = job.size)
    BY <1>1, <1>2, <1>3, <1>5, Sizes DEF JobType
  <2> QED
    BY <1>1, <1>8, <2>1, <2>2 DEF Agree, JobInv
<1>10. FwInv(Fw')
  BY <1>1, <1>4, <1>7, <1>8, <1>9, ParsedInv, FwAfter
<1>11. Outside'
  <2>1. job.buf \in Buffer /\ job.off \in Nat /\ job.off <= o
    BY <1>1, <1>3, <1>5 DEF JobType
  <2>2. host' \in Seq(Byte)
    BY <1>4, <1>5, <2>1, SliceTyped, ParsedInv, ConcatProperties DEF IInv, Outside
  <2>3. open' \in BOOLEAN
    BY DEF HostIn
  <2> QED
    BY <1>4, <2>2, <2>3 DEF IInv, Outside, bus
<1> QED
  BY <1>4, <1>10, <1>11 DEF IInv, ShortInv, bus

(* A byte taken from the receiver goes into a buffer, if there is room. *)
Moved(byte) ==
    /\ byte = Head(usart.fifo).byte
    /\ usart'.fifo = Tail(usart.fifo)
    /\ \/ TxReady(tx) /\ (tx.running => Added(tx, job, tx', byte))
       \/ ~TxReady(tx) /\ tx' = tx

LEMMA UsartInterruptStep ==
    ASSUME IInv, UsartInterrupt
    PROVE  /\ IInv' /\ job' = job /\ tx'.running = tx.running
           /\ usart'.enabled = usart.enabled
           /\ \/ TakesByte(usart) /\ \E byte \in Byte : Moved(byte)
              \/ ~TakesByte(usart) /\ tx' = tx /\ SameBytes(usart.fifo, usart'.fifo)
<1>1. /\ usart \in Usarts /\ usart.fifo # <<>> /\ usart.remaining = 1 /\ usart.cb
      /\ usart.rxc_en
  BY ParsedInv DEF UsartInterrupt, InterruptPending, UsartInv
<1>2. PICK v : v = HandleRxc(usart)
  OBVIOUS
<1>3. /\ v \in Usarts /\ v.cb = usart.cb /\ v.enabled = usart.enabled
      /\ TakesByte(usart) => v.remaining = 0 /\ v.fifo = Tail(usart.fifo)
      /\ ~TakesByte(usart) => /\ v.remaining = 1 /\ v.rxc_en = usart.rxc_en
                             /\ SameBytes(usart.fifo, v.fifo)
  BY <1>1, <1>2, HandleRxcTyped
<1>4. PICK a : a = [Fw EXCEPT !.usart = v]
  OBVIOUS
<1>5. a \in States /\ a.tx = tx /\ a.job = job /\ a.hung = hung /\ a.usart = v
  BY <1>3, <1>4, ParsedInv, FwParts DEF States
<1>6. PICK byte \in Byte : byte = Head(usart.fifo).byte
  <2>1. Head(usart.fifo) \in Item
    BY <1>1, HeadTailProperties DEF Usarts
  <2> QED
    BY <2>1 DEF Item
<1>7. PICK s : s = IF TakesByte(usart) THEN RxCallback(a, byte) ELSE a
  OBVIOUS
<1>8. /\ FwInv(s) /\ s.job = job
      /\ s.tx.running = tx.running /\ s.tx.sof_num = tx.sof_num
      /\ s.tx.zlp_counter = tx.zlp_counter /\ s.usart.fifo = v.fifo
      /\ s.usart.enabled = usart.enabled
      /\ ~TakesByte(usart) => s.tx = tx
      /\ TakesByte(usart) =>
           \/ TxReady(tx) /\ (tx.running => Added(tx, job, s.tx, byte))
           \/ ~TxReady(tx) /\ s.tx = tx
  <2>1. CASE TakesByte(usart)
    <3>1. /\ ~a.hung
          /\ a.tx.running => Agree(a.tx, a.job)
          /\ ~a.tx.running => a.job = JobIdle
      BY <1>5, ParsedInv
    <3>2. (a.usart.remaining = 1 => a.usart.rxc_en) /\ a.usart.cb
      <4>1. a.usart.remaining = 0
        BY <1>3, <1>5, <2>1
      <4>2. a.usart.cb
        BY <1>1, <1>3, <1>5
      <4> QED
        BY <4>1, <4>2
    <3>3. PICK r : r = RxCallback(a, byte)
      OBVIOUS
    <3>4. /\ FwInv(r) /\ r.job = a.job /\ r.tx.running = a.tx.running
          /\ r.tx.sof_num = a.tx.sof_num /\ r.tx.zlp_counter = a.tx.zlp_counter
          /\ r.usart.fifo = a.usart.fifo /\ r.usart.enabled = a.usart.enabled
          /\ TxReady(a.tx) /\ a.tx.running => Added(a.tx, a.job, r.tx, byte)
          /\ ~TxReady(a.tx) => r.tx = a.tx
      BY <1>5, <3>1, <3>2, <3>3, RxCallbackKeeps
    <3> QED
      BY <1>3, <1>5, <1>7, <2>1, <3>3, <3>4
  <2>2. CASE ~TakesByte(usart)
    <3>1. UsartInv(v)
      BY <1>1, <1>3, <2>2 DEF UsartInv
    <3> QED
      BY <1>3, <1>5, <1>7, <2>2, <3>1, ParsedInv DEF FwInv
  <2> QED
    BY <2>1, <2>2
<1>9. Becomes(s)
  BY <1>1, <1>2, <1>4, <1>6, <1>7, FwParts DEF UsartInterrupt
<1>10. FwInv(Fw') /\ tx' = s.tx /\ job' = s.job /\ usart' = s.usart
  BY <1>8, <1>9, BecomesKeeps DEF Becomes
<1>11. Outside'
  <2>1. excused' \subseteq Byte
    BY <1>6 DEF UsartInterrupt, IInv, Outside
  <2> QED
    BY <2>1 DEF UsartInterrupt, IInv, Outside, bus
<1>12. IInv'
  BY <1>8, <1>10, <1>11 DEF IInv, ShortInv, UsartInterrupt, bus
<1>13. CASE TakesByte(usart)
  <2>1. Moved(byte)
    BY <1>3, <1>6, <1>8, <1>10, <1>13 DEF Moved
  <2> QED
    BY <1>8, <1>10, <1>12, <1>13, <2>1
<1>14. CASE ~TakesByte(usart)
  BY <1>3, <1>8, <1>10, <1>12, <1>14
<1> QED
  BY <1>13, <1>14

(* The history of short transfers after a handler. *)
LEMMA NoteShortKeeps ==
    ASSUME IInv, NoteShort, frame' = frame, tx'.running = TRUE,
           short => tx'.sof_num = frame /\ tx'.zlp_counter = 0,
           Starts => (job'.size # TxBuffers => tx'.sof_num = frame /\ tx'.zlp_counter = 0)
    PROVE  ShortInv(tx, short)' /\ short' \in BOOLEAN
<1>1. short \in BOOLEAN
  BY DEF IInv, Outside
<1>2. short' \in BOOLEAN
  BY <1>1 DEF NoteShort
<1>3. ASSUME short'
      PROVE  tx'.sof_num = frame /\ tx'.zlp_counter = 0
  BY <1>3 DEF NoteShort
<1> QED
  BY <1>2, <1>3 DEF ShortInv

LEMMA InTransferCompleteStep ==
    ASSUME IInv, InTransferComplete
    PROVE  /\ IInv' /\ tx.running /\ tx'.running /\ job.off = job.size /\ usart' = usart
           /\ \/ tx' = tx /\ job'.off = job.off
              \/ Sent(tx, tx', job')
<1>1. /\ tx.running /\ Agree(tx, job) /\ job \in JobType /\ job.trcpt = TRUE /\ ~job.armed
      /\ frame \in 0 .. Frames - 1 /\ job.off = job.size
  <2>1. tx.running
    BY ParsedInv, JobIdleKept DEF InTransferComplete
  <2>2. JobInv(job) /\ job \in JobType
    BY <2>1, ParsedInv DEF Agree
  <2>3. job.armed \in BOOLEAN /\ job.trcpt \in BOOLEAN
    BY <2>2 DEF JobType
  <2> QED
    BY <2>1, <2>2, <2>3, ParsedInv DEF InTransferComplete, JobInv, IInv, Outside
<1>2. CASE job.zlp
  <2>1. PICK j : j = [job EXCEPT !.zlp = FALSE, !.armed = TRUE, !.trcpt = FALSE]
    OBVIOUS
  <2>2. /\ j \in JobType /\ j.busy = job.busy /\ j.buf = job.buf /\ j.size = job.size
        /\ j.off = job.off /\ j.zlp = FALSE /\ j.armed = TRUE /\ j.trcpt = FALSE
    BY <1>1, <2>1 DEF JobType
  <2>3. PICK s : s = [Fw EXCEPT !.job = j]
    OBVIOUS
  <2>4. s \in States /\ s.tx = tx /\ s.job = j /\ s.usart = usart /\ s.hung = hung
    BY <2>2, <2>3, ParsedInv, FwParts DEF States
  <2>5. Becomes(s)
    <3>1. s = [Fw EXCEPT !.job.zlp = FALSE, !.job.armed = TRUE, !.job.trcpt = FALSE]
      BY <1>1, <2>1, <2>3, ParsedInv, FwParts DEF States, JobType
    <3> QED
      BY <1>2, <3>1 DEF InTransferComplete
  <2>6. tx' = tx /\ job' = j /\ usart' = usart /\ hung' = hung
    BY <2>4, <2>5 DEF Becomes
  <2>7. Agree(tx, j)
    <3>1. job.busy = TRUE
      BY <1>1 DEF Agree, JobInv
    <3> QED
      BY <1>1, <2>2, <3>1 DEF Agree, JobInv
  <2>8. FwInv(Fw')
    BY <1>1, <2>2, <2>6, <2>7, ParsedInv, FwAfter
  <2>9. ~Starts
    BY <1>2 DEF Starts
  <2>10. short' = short
    BY <2>9 DEF InTransferComplete, NoteShort, IInv, Outside
  <2>11. IInv'
    BY <2>6, <2>8, <2>10 DEF IInv, ShortInv, Outside, InTransferComplete, bus
  <2> QED
    BY <1>1, <2>2, <2>6, <2>11
<1>3. CASE ~job.zlp
  <2>1. PICK s : s = [Fw EXCEPT !.job = JobIdle]
    OBVIOUS
  <2>2. s \in States /\ s.tx = tx /\ s.job = JobIdle /\ s.usart = usart /\ s.hung = hung
    BY <2>1, ParsedInv, FwParts, JobIdleKept DEF States
  <2>3. PICK t : t = DataSent(s)
    OBVIOUS
  <2>4. /\ t \in States /\ Agree(t.tx, t.job) /\ t.usart = usart /\ t.hung = hung
        /\ t.tx.running = tx.running /\ Sent(tx, t.tx, t.job)
        /\ t.job = JobIdle
             \/ (t.job.size # TxBuffers => t.tx.sof_num = frame /\ t.tx.zlp_counter = 0)
        /\ tx.sof_num = frame => /\ t.job = JobIdle /\ t.tx.sof_num = frame
                                 /\ t.tx.zlp_counter = tx.zlp_counter
    BY <1>1, <2>2, <2>3, DataSentKeeps
  <2>5. Becomes(t)
    BY <1>3, <2>1, <2>3 DEF InTransferComplete
  <2>6. tx' = t.tx /\ job' = t.job /\ usart' = t.usart /\ FwInv(Fw')
    <3>1. FwInv(t)
      BY <1>1, <2>4, ParsedInv DEF FwInv
    <3> QED
      BY <2>5, <3>1, BecomesKeeps DEF Becomes
  <2>7. tx'.running = TRUE
    <3>1. tx.running \in BOOLEAN
      BY ParsedInv, TxParts
    <3> QED
      BY <1>1, <2>4, <2>6, <3>1
  <2>8. short => tx'.sof_num = frame /\ tx'.zlp_counter = 0
    BY <2>4, <2>6 DEF IInv, ShortInv
  <2>9. Starts => (job'.size # TxBuffers => tx'.sof_num = frame /\ tx'.zlp_counter = 0)
    BY <2>4, <2>6, JobIdleKept DEF Starts
  <2>10. NoteShort /\ frame' = frame
    BY DEF InTransferComplete, bus
  <2>11. ShortInv(tx, short)' /\ short' \in BOOLEAN
    BY <2>7, <2>8, <2>9, <2>10, NoteShortKeeps
  <2>12. IInv'
    BY <2>6, <2>11 DEF IInv, Outside, InTransferComplete, bus
  <2> QED
    BY <1>1, <2>4, <2>6, <2>7, <2>12
<1> QED
  BY <1>2, <1>3

LEMMA SofInterruptStep ==
    ASSUME IInv, SofInterrupt
    PROVE  /\ IInv' /\ tx'.running = tx.running
           /\ usart' = usart
           /\ tx.running => Turned(tx, job, tx', job')
<1>1. frame \in 0 .. Frames - 1 /\ frame' = frame /\ NoteShort
  BY DEF IInv, Outside, SofInterrupt
<1>2. CASE tx.running
  <2>1. PICK t : t = TxSend(Fw)
    OBVIOUS
  <2>2. /\ t \in States /\ Agree(t.tx, t.job) /\ t.usart = usart /\ t.hung = hung
        /\ t.tx.running = tx.running
        /\ t.job = job
             \/ (t.job.size # TxBuffers => t.tx.sof_num = frame /\ t.tx.zlp_counter = 0)
        /\ tx.sof_num = frame => t = Fw
        /\ Turned(tx, job, t.tx, t.job)
    BY <1>1, <1>2, <2>1, ParsedInv, FwParts, TxSendKeeps
  <2>3. Becomes(t)
    BY <1>2, <2>1, FwParts DEF SofInterrupt
  <2>4. tx' = t.tx /\ job' = t.job /\ usart' = t.usart /\ FwInv(Fw')
    <3>1. FwInv(t)
      BY <1>2, <2>2, ParsedInv DEF FwInv
    <3> QED
      BY <2>3, <3>1, BecomesKeeps DEF Becomes
  <2>5. tx'.running = TRUE
    <3>1. tx.running \in BOOLEAN
      BY ParsedInv, TxParts
    <3> QED
      BY <1>2, <2>2, <2>4, <3>1
  <2>6. short => tx'.sof_num = frame /\ tx'.zlp_counter = 0
    BY <2>2, <2>4, FwParts DEF IInv, ShortInv
  <2>7. Starts => (job'.size # TxBuffers => tx'.sof_num = frame /\ tx'.zlp_counter = 0)
    BY <2>2, <2>4 DEF Starts
  <2>8. ShortInv(tx, short)' /\ short' \in BOOLEAN
    BY <1>1, <2>5, <2>6, <2>7, NoteShortKeeps
  <2>9. IInv'
    BY <2>4, <2>8 DEF IInv, Outside, SofInterrupt
  <2> QED
    BY <2>2, <2>4, <2>9
<1>3. CASE ~tx.running
  <2>1. tx' = tx /\ job' = job /\ usart' = usart /\ hung' = hung
    BY <1>3, FwParts DEF SofInterrupt, Becomes
  <2>2. FwInv(Fw')
    BY <1>3, <2>1, ParsedInv, FwAfter
  <2>3. ~Starts /\ short' = short
    BY <2>1 DEF Starts, SofInterrupt, NoteShort, IInv, Outside
  <2>4. IInv'
    BY <2>1, <2>2, <2>3 DEF IInv, ShortInv, Outside, SofInterrupt
  <2> QED
    BY <1>3, <2>1, <2>4
<1> QED
  BY <1>2, <1>3

(* The control requests *)

LEMMA LineCodingStep ==
    ASSUME IInv, NEW baudOk \in BOOLEAN, LineCodingReceived(baudOk)
    PROVE  IInv' /\ usart'.fifo = <<>> /\ usart'.enabled
<1>1. PICK v : v = UartConfig(usart, baudOk)
  OBVIOUS
<1>2. v \in Usarts /\ UsartInv(v) /\ v.fifo = <<>> /\ v.enabled
  BY <1>1, ParsedInv, UartConfigStarts
<1>3. /\ usart' = v /\ excused' = excused \cup Elements(Received)
      /\ UNCHANGED <<tx, job, hung, bus, arrived, host, short, open>>
  BY <1>1 DEF LineCodingReceived
<1>4. FwInv(Fw')
  BY <1>2, <1>3, ParsedInv, FwAfter
<1>5. Elements(Received) \subseteq Byte
  <2>1. usart.fifo \in Seq(Item)
    BY ParsedInv DEF Usarts
  <2>2. \A i \in 1 .. Len(usart.fifo) : usart.fifo[i].byte \in Byte
    <3> SUFFICES ASSUME NEW i \in 1 .. Len(usart.fifo)
                 PROVE  usart.fifo[i].byte \in Byte
      OBVIOUS
    <3>1. usart.fifo[i] \in Item
      BY <2>1, ElementOfSeq
    <3> QED
      BY <3>1 DEF Item
  <2>3. PICK f : f = Received
    OBVIOUS
  <2>4. PICK k \in Nat : k = Len(usart.fifo)
    BY <2>1, LenProperties
  <2>5. f \in [1 .. k -> Byte] /\ \A i \in 1 .. k : f[i] \in Byte
    BY <2>2, <2>3, <2>4 DEF Received
  <2>6. Len(f) = k
    BY <2>5, FunctionIsSeq
  <2> QED
    BY <2>3, <2>5, <2>6 DEF Elements
<1>6. control' \in 0 .. MaxControl
  BY Sizes DEF LineCodingReceived, Disturb, IInv, Outside
<1>7. Outside'
  BY <1>3, <1>5, <1>6 DEF IInv, Outside, bus
<1> QED
  BY <1>2, <1>3, <1>4, <1>7 DEF IInv, ShortInv, bus

(* What a request that disables the data interface leaves of the rest. *)
LEMMA DisturbOutside ==
    ASSUME IInv, Disturb, excused' = 1 .. arrived, short' = FALSE, open' \in BOOLEAN,
           UNCHANGED <<bus, arrived, host>>
    PROVE  Outside' /\ frame \in 0 .. Frames - 1 /\ ShortInv(tx, short)'
<1>1. control' \in 0 .. MaxControl
  BY Sizes DEF Disturb, IInv, Outside
<1>2. excused' \subseteq Byte
  BY Sizes DEF IInv, Outside, Byte
<1> QED
  BY <1>1, <1>2 DEF IInv, Outside, bus, ShortInv

Emptied(c, u) == u.fifo = <<>> /\ c.running /\ \A b \in Buffer : c.nb[b] = 0

LEMMA SetInterfaceStep ==
    ASSUME IInv, SetInterfaceData
    PROVE  IInv' /\ Emptied(tx', usart')
<1>1. Outside' /\ frame \in 0 .. Frames - 1 /\ ShortInv(tx, short)'
  <2>1. open' \in BOOLEAN
    BY DEF SetInterfaceData, IInv, Outside
  <2> QED
    BY <2>1, DisturbOutside DEF SetInterfaceData
<1>2. PICK d : d = DataDisable(Fw)
  OBVIOUS
<1>3. FwInv(d) /\ d.job = JobIdle /\ d.usart.fifo = <<>>
  BY <1>2, ParsedInv, DataDisableKeeps
<1>4. PICK t : t = DataEnable(d)
  OBVIOUS
<1>5. FwInv(t) /\ Emptied(t.tx, t.usart)
  BY <1>1, <1>3, <1>4, DataEnableKeeps DEF Emptied
<1>6. Becomes(t)
  BY <1>2, <1>4 DEF SetInterfaceData
<1> QED
  BY <1>1, <1>5, <1>6, BecomesKeeps DEF IInv, Becomes

LEMMA ResetStep ==
    ASSUME IInv, Reset
    PROVE  IInv' /\ job' = JobIdle /\ ~tx'.running /\ ~usart'.enabled
<1>1. Outside' /\ frame \in 0 .. Frames - 1 /\ ShortInv(tx, short)'
  BY DisturbOutside DEF Reset
<1>2. PICK t : t = DataDisable(Fw)
  OBVIOUS
<1>3. FwInv(t) /\ t.job = JobIdle /\ ~t.tx.running /\ ~t.usart.enabled
  BY <1>2, ParsedInv, DataDisableKeeps
<1>4. Becomes(t)
  BY <1>2 DEF Reset
<1> QED
  BY <1>1, <1>3, <1>4, BecomesKeeps DEF IInv, Becomes

LEMMA SetConfigurationStep ==
    ASSUME IInv, SetConfiguration
    PROVE  IInv' /\ Emptied(tx', usart') /\ usart'.enabled
<1>1. /\ ~tx.running /\ job = JobIdle /\ ~short /\ NoteShort
      /\ UNCHANGED <<bus, arrived, host, control, excused, open>>
  BY ParsedInv DEF SetConfiguration, IInv, ShortInv
<1>2. PICK v : v = UartConfig(usart, TRUE)
  OBVIOUS
<1>3. v \in Usarts /\ UsartInv(v) /\ v.fifo = <<>> /\ v.enabled
  BY <1>2, ParsedInv, UartConfigStarts
<1>4. PICK s : s = [Fw EXCEPT !.usart = v]
  OBVIOUS
<1>5. s \in States /\ s.tx = tx /\ s.job = job /\ s.usart = v /\ s.hung = hung
  BY <1>3, <1>4, ParsedInv, FwParts DEF States
<1>6. FwInv(s) /\ s.job = JobIdle /\ frame \in 0 .. Frames - 1
  BY <1>1, <1>3, <1>5, ParsedInv DEF FwInv, IInv, Outside
<1>7. PICK t : t = DataEnable(s)
  OBVIOUS
<1>8. /\ FwInv(t) /\ t.tx.running = TRUE /\ t.usart = v
      /\ \A b \in Buffer : t.tx.nb[b] = 0
      /\ t.job = JobIdle
           \/ (t.job.size # TxBuffers => t.tx.sof_num = frame /\ t.tx.zlp_counter = 0)
  BY <1>5, <1>6, <1>7, DataEnableKeeps
<1>9. Becomes(t)
  BY <1>2, <1>4, <1>7, FwParts DEF SetConfiguration
<1>10. tx' = t.tx /\ job' = t.job /\ usart' = t.usart /\ FwInv(Fw')
  BY <1>8, <1>9, BecomesKeeps DEF Becomes
<1>11. Starts => (job'.size # TxBuffers => tx'.sof_num = frame /\ tx'.zlp_counter = 0)
  BY <1>8, <1>10, JobIdleKept DEF Starts
<1>12. ShortInv(tx, short)' /\ short' \in BOOLEAN
  BY <1>1, <1>8, <1>10, <1>11, NoteShortKeeps DEF bus
<1>13. Emptied(tx', usart')
  BY <1>3, <1>8, <1>10 DEF Emptied
<1> QED
  BY <1>1, <1>3, <1>8, <1>10, <1>12, <1>13 DEF IInv, Outside, bus

-----------------------------------------------------------------------------
(* The theorems *)

(* The inductive invariant holds in every reachable state. *)
THEOREM Invariance == Spec => []IInv
<1>1. Init => IInv
  <2> SUFFICES ASSUME Init
               PROVE  IInv
    OBVIOUS
  <2>1. PICK e \in Seq(Item) : e = <<>>
    BY EmptySeq
  <2>2. PICK u : u = UsartReset
    OBVIOUS
  <2>3. /\ u \in Usarts /\ u.remaining = 0 /\ u.enabled = FALSE
    BY <2>1, <2>2 DEF UsartReset, Usarts
  <2>4. UsartInv(u)
    BY <2>3 DEF UsartInv
  <2>5. CdcReset \in TxType /\ CdcReset.running = FALSE
    <3>1. PICK z \in 0 .. TxBuffers, b \in Byte : z = 0 /\ b = 0
      BY Sizes DEF Byte
    <3>2. PICK ns \in [Buffer -> 0 .. TxBuffers] : ns = [i \in Buffer |-> 0]
      BY <3>1
    <3>3. PICK bs \in [Buffer -> [0 .. TxBuffers - 1 -> Byte]] :
             bs = [i \in Buffer |-> EmptyBuffer]
      BY <3>1 DEF EmptyBuffer
    <3>4. 0 \in Buffer /\ 0 \in 0 .. Frames - 1 /\ 0 \in 0 .. ZlpPeriod - 1
      BY Sizes DEF Buffer
    <3> QED
      BY <3>2, <3>3, <3>4 DEF CdcReset, TxType
  <2>6. tx = CdcReset /\ job = JobIdle /\ usart = u /\ hung = FALSE
    BY <2>2 DEF Init
  <2>7. PICK t : t = Fw
    OBVIOUS
  <2>8. t \in States /\ t.tx = tx /\ t.job = job /\ t.usart = usart /\ t.hung = hung
    BY <2>3, <2>5, <2>6, <2>7, JobIdleKept DEF Fw, States
  <2>9. FwInv(t)
    BY <2>4, <2>5, <2>6, <2>8 DEF FwInv
  <2>10. Outside
    <3>1. host \in Seq(Byte)
      BY EmptySeq DEF Init
    <3>2. 0 \in 0 .. Frames - 1 /\ 0 \in 0 .. MaxBytes /\ 0 \in 0 .. MaxControl
      BY Sizes
    <3> QED
      BY <3>1, <3>2 DEF Init, Outside
  <2> QED
    BY <2>7, <2>9, <2>10 DEF IInv, ShortInv, Init
<1>2. IInv /\ [Next]_vars => IInv'
  <2> SUFFICES ASSUME IInv, [Next]_vars
               PROVE  IInv'
    OBVIOUS
  <2>1. ASSUME NEW status \in 0 .. LineErrors, ByteArrives(status)
        PROVE  IInv'
    BY <2>1, ByteArrivesStep
  <2>2. CASE FrameStart \/ HostIn
    BY <2>2, FrameStartStep, HostInStep
  <2>3. CASE UsartInterrupt \/ InTransferComplete \/ SofInterrupt
    BY <2>3, UsartInterruptStep, InTransferCompleteStep, SofInterruptStep
  <2>4. ASSUME NEW baudOk \in BOOLEAN, LineCodingReceived(baudOk)
        PROVE  IInv'
    BY <2>4, LineCodingStep
  <2>5. CASE SetInterfaceData \/ Reset \/ SetConfiguration
    BY <2>5, SetInterfaceStep, ResetStep, SetConfigurationStep
  <2>6. CASE UNCHANGED vars
    <3>1. Fw' = Fw
      BY <2>6 DEF vars, Fw
    <3> QED
      BY <2>6, <3>1 DEF vars, IInv, ShortInv, Outside
  <2> QED
    BY <2>1, <2>2, <2>3, <2>4, <2>5, <2>6 DEF Next
<1> QED
  BY <1>1, <1>2, PTL DEF Spec

(* All counters stay within the buffers they index. *)
THEOREM TypeCorrect == Spec => []TypeOK
<1>1. IInv => TypeOK
  <2> SUFFICES ASSUME IInv
               PROVE  TypeOK
    OBVIOUS
  <2>1. usart \in UsartType(Byte)
    BY ParsedInv DEF Usarts, UsartType, Item
  <2> QED
    BY <2>1, ParsedInv DEF TypeOK, IInv, Outside
<1> QED
  BY <1>1, Invariance, PTL

(* udi_cdc believes a transfer is on its way exactly when the endpoint has *)
(* one, and its buffer is the one putc does not fill.                      *)
THEOREM BuffersSeparate == Spec => []TransferOwnsOtherBuffer
<1>1. IInv => TransferOwnsOtherBuffer
  BY ParsedInv DEF TransferOwnsOtherBuffer, Agree, JobInv
<1> QED
  BY <1>1, Invariance, PTL

(* A full buffer is next in turn. *)
THEOREM NotStranded == Spec => []FullBufferNotStranded
<1>1. IInv => FullBufferNotStranded
  <2> SUFFICES ASSUME IInv, tx.running, ~tx.ongoing, tx.nb[Other(tx.sel)] > 0
               PROVE  tx.both /\ tx.nb[tx.sel] > 0
    BY DEF FullBufferNotStranded
  <2> QED
    BY ParsedInv DEF Agree
<1> QED
  BY <1>1, Invariance, PTL

(* Where the port is closed under an enabled interface, every byte that    *)
(* arrived was given up by the request that closed it.                     *)
ClosedInv == tx.running /\ ~usart.enabled => excused = 1 .. arrived

LEMMA ClosedStep ==
    ASSUME IInv, ClosedInv, [Next]_vars
    PROVE  ClosedInv'
<1>1. ASSUME NEW status \in 0 .. LineErrors, ByteArrives(status)
      PROVE  ClosedInv'
  <2>1. status \in 0 .. MaxStatus /\ arrived + 1 \in Byte
    BY <1>1, Sizes DEF MaxStatus, IInv, Outside, ByteArrives, Byte
  <2>2. usart'.enabled = usart.enabled /\ usart.enabled
    BY <1>1, <2>1, ParsedInv, ArriveTyped DEF ByteArrives
  <2> QED
    BY <2>2 DEF ClosedInv
<1>2. CASE FrameStart \/ HostIn
  <2>1. tx' = tx /\ usart' = usart /\ excused' = excused /\ arrived' = arrived
    BY <1>2 DEF FrameStart, HostIn, bus
  <2> QED
    BY <2>1 DEF ClosedInv
<1>3. CASE UsartInterrupt
  <2>1. usart'.enabled
    BY <1>3, UsartInterruptStep DEF UsartInterrupt, InterruptPending
  <2> QED
    BY <2>1 DEF ClosedInv
<1>4. CASE InTransferComplete \/ SofInterrupt
  <2>1. usart' = usart /\ tx'.running = tx.running
    <3>1. tx.running \in BOOLEAN /\ (IInv' => tx'.running \in BOOLEAN)
      BY ParsedInv, TxParts DEF IInv, FwInv, States, Fw, TxType
    <3> QED
      BY <1>4, <3>1, InTransferCompleteStep, SofInterruptStep
  <2>2. excused' = excused /\ arrived' = arrived
    BY <1>4 DEF InTransferComplete, SofInterrupt, bus
  <2> QED
    BY <2>1, <2>2 DEF ClosedInv
<1>5. ASSUME NEW baudOk \in BOOLEAN, LineCodingReceived(baudOk)
      PROVE  ClosedInv'
  BY <1>5, LineCodingStep DEF ClosedInv
<1>6. CASE SetInterfaceData
  BY <1>6 DEF SetInterfaceData, ClosedInv
<1>7. CASE Reset \/ SetConfiguration
  BY <1>7, ResetStep, SetConfigurationStep DEF ClosedInv
<1>8. CASE UNCHANGED vars
  BY <1>8 DEF vars, ClosedInv
<1> QED
  BY <1>1, <1>2, <1>3, <1>4, <1>5, <1>6, <1>7, <1>8 DEF Next

(* While the UART is on, the next byte has a job; while it is off under an *)
(* enabled interface, nothing waits behind it.                             *)
THEOREM ReceptionContinues == Spec => []ReceiverArmed
<1>1. Init => ClosedInv
  BY DEF Init, CdcReset, ClosedInv
<1>2. IInv /\ ClosedInv /\ [Next]_vars => ClosedInv'
  BY ClosedStep
<1>3. IInv /\ ClosedInv => ReceiverArmed
  BY ParsedInv DEF ReceiverArmed, UsartInv, ClosedInv
<1> QED
  BY <1>1, <1>2, <1>3, Invariance, PTL DEF Spec

(* udi_cdc_multi_putc never spins. *)
THEOREM NoHang == Spec => []NeverHangs
<1>1. IInv => NeverHangs
  BY ParsedInv DEF NeverHangs
<1> QED
  BY <1>1, Invariance, PTL

(* One short packet in a frame: the next start of frame comes before the   *)
(* next transfer.  With a period of one, SET_INTERFACE would send an empty *)
(* packet behind a short one.                                              *)
THEOREM ShortThenWait == ASSUME ZlpPeriod > 1 PROVE Spec => OneShortPerFrame
<1>1. IInv /\ [Next]_vars => [Starts => ~short]_vars
  <2> SUFFICES ASSUME IInv, Next, short, Starts
               PROVE  FALSE
    OBVIOUS
  <2>1. /\ tx.running /\ tx.sof_num = frame /\ tx.zlp_counter = 0 /\ Agree(tx, job)
        /\ ~job.armed /\ ~job.zlp /\ job'.armed
        /\ frame \in 0 .. Frames - 1
    BY ParsedInv DEF IInv, ShortInv, Starts, Outside
  <2>2. job' # job /\ job' # JobIdle
    BY <2>1, JobIdleKept
  <2>3. CASE \/ \E status \in 0 .. LineErrors : ByteArrives(status)
             \/ \E baudOk \in BOOLEAN : LineCodingReceived(baudOk)
             \/ FrameStart \/ HostIn
    BY <2>1, <2>2, <2>3 DEF ByteArrives, LineCodingReceived, FrameStart, HostIn
  <2>4. CASE UsartInterrupt
    BY <2>2, <2>4, UsartInterruptStep
  <2>5. CASE InTransferComplete
    <3>1. PICK s : s = [Fw EXCEPT !.job = JobIdle]
      OBVIOUS
    <3>2. s \in States /\ s.tx = tx /\ s.job = JobIdle
      BY <3>1, ParsedInv, FwParts, JobIdleKept DEF States
    <3>3. PICK t : t = DataSent(s)
      OBVIOUS
    <3>4. t.job = JobIdle
      BY <2>1, <3>2, <3>3, DataSentKeeps
    <3> QED
      BY <2>1, <2>2, <2>5, <3>1, <3>3, <3>4 DEF InTransferComplete, Becomes
  <2>6. CASE SofInterrupt
    <3>1. TxSend(Fw) = Fw
      BY <2>1, ParsedInv, FwParts, TxSendKeeps
    <3> QED
      BY <2>1, <2>2, <2>6, <3>1, FwParts DEF SofInterrupt, Becomes
  <2>7. CASE SetInterfaceData
    <3>1. PICK d : d = DataDisable(Fw)
      OBVIOUS
    <3>2. FwInv(d) /\ d.job = JobIdle /\ d.tx.zlp_counter = 0
      BY <2>1, <3>1, ParsedInv, FwParts, DataDisableKeeps
    <3>3. PICK t : t = DataEnable(d)
      OBVIOUS
    <3>4. t.job = JobIdle
      BY <2>1, <3>2, <3>3, DataEnableKeeps
    <3> QED
      BY <2>2, <2>7, <3>1, <3>3, <3>4 DEF SetInterfaceData, Becomes
  <2>8. CASE Reset \/ SetConfiguration
    BY <2>1, <2>2, <2>8, ResetStep DEF SetConfiguration
  <2> QED
    BY <2>3, <2>4, <2>5, <2>6, <2>7, <2>8 DEF Next
<1> QED
  BY <1>1, Invariance, PTL DEF Spec, OneShortPerFrame

=============================================================================
