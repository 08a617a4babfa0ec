-------------------------------- MODULE UddEp --------------------------------
(***************************************************************************)
(* The endpoint jobs of usb_device_udd.c on the endpoint driver of         *)
(* usb_sam_l/usb.c, for the two directions of one endpoint number: the     *)
(* directions have a job each and share the callback registration, the     *)
(* endpoint configuration register and the interrupt.                      *)
(*                                                                         *)
(* A class driver runs transfers and waits for halts to be cleared; the    *)
(* host moves packets, halts endpoints and clears halts.  Data is counted, *)
(* not stored.  A transfer that a callback starts is the Run that follows  *)
(* the handler: the callback is the last thing the handler does, and the   *)
(* callbacks of the class drivers start nothing when a job was aborted.    *)
(***************************************************************************)
EXTENDS Integers

CONSTANTS
    EpSize,        \* wMaxPacketSize
    MaxTrans,      \* UDD_ENDPOINT_MAX_TRANS: longest hardware transfer
    MaxSize,       \* bound: bytes of a class driver's transfer
    ClearsUnhalted \* the host also clears halts of endpoints not halted

ASSUME SizesAssumption ==
    /\ EpSize \in Nat \ {0}
    /\ MaxTrans \in Nat
    /\ MaxTrans >= EpSize
    /\ MaxSize \in Nat
    /\ ClearsUnhalted \in BOOLEAN

VARIABLES
    job,     \* udd_ep_job, by direction
    hw,      \* endpoint registers and bank descriptor, by direction
    irq,     \* TRCPT callback of the endpoint number: registered, enabled
    owed,    \* history: accepted runs whose callback has not been called
    bogus,   \* history: a transfer callback was called as a halt callback
    seen,    \* history: a STALL went out since the endpoint was halted
    moved,   \* history: bytes of the current job on the bus
    last,    \* history: size of the job's last packet, EpSize before it
    inexact  \* history: a callback reported what was not on the bus

vars == <<job, hw, irq, owed, bogus, seen, moved, last, inexact>>

Dir == {"in", "out"}
OtherDir(d) == IF d = "in" THEN "out" ELSE "in"

(* call: which member of the callback union was stored last.  An idle job  *)
(* and a bank at rest keep values nobody reads; they are not modelled.     *)
JobIdle == [busy |-> FALSE, call |-> "trans", size |-> 0, nb |-> 0,
            short |-> FALSE, wanted |-> FALSE, cache |-> FALSE]

(* ready: the bank may transfer.  length, count: MULTI_PACKET_SIZE and     *)
(* BYTE_COUNT of an OUT bank, the other way round for an IN bank.          *)
HwReset == [type |-> FALSE, inten |-> FALSE, stallrq |-> FALSE,
            stall |-> FALSE, ready |-> FALSE, length |-> 0, count |-> 0,
            trcpt |-> FALSE, toggle |-> 0]

(* The state a handler works on, as in BridgeOut.                          *)
St == [job |-> job, hw |-> hw, irq |-> irq, owed |-> owed, bogus |-> bogus,
       moved |-> moved, last |-> last, inexact |-> inexact]

Becomes(s) ==
    /\ job' = s.job
    /\ hw' = s.hw
    /\ irq' = s.irq
    /\ owed' = s.owed
    /\ bogus' = s.bogus
    /\ moved' = s.moved
    /\ last' = s.last
    /\ inexact' = s.inexact

-----------------------------------------------------------------------------
(* The endpoint driver *)

(* usb_device_endpoint_write_buffer_job, usb_device_endpoint_read_buffer_job *)
StartBank(s, d, length) ==
    IF ~s.hw[d].type THEN s
    ELSE [s EXCEPT !.hw[d].length = length, !.hw[d].count = 0,
                   !.hw[d].ready = TRUE]

(* usb_device_endpoint_abort_job *)
AbortBank(s, d) ==
    [s EXCEPT !.hw[d].ready = FALSE, !.hw[d].trcpt = FALSE,
              !.hw[d].length = 0, !.hw[d].count = 0]

(* usb_device_endpoint_clear_halt: the data toggle restarts when the STALL *)
(* flag still tells that a STALL went out.                                 *)
ClearStall(s, d) ==
    IF ~s.hw[d].stallrq THEN s
    ELSE IF ~s.hw[d].stall THEN [s EXCEPT !.hw[d].stallrq = FALSE]
    ELSE [s EXCEPT !.hw[d].stallrq = FALSE, !.hw[d].stall = FALSE,
                   !.hw[d].toggle = 0]

-----------------------------------------------------------------------------
(* Endpoint jobs *)

Idle(s, d) == [s EXCEPT !.job[d] = JobIdle, !.moved[d] = 0, !.last[d] = EpSize]

Transfers(j) == j.busy /\ j.call = "trans"

(* The transfer callback of the class driver runs.                         *)
CallTrans(s, d) == [Idle(s, d) EXCEPT !.owed[d] = @ - 1]

(* What a completed transfer must report: an OUT transfer what was on the  *)
(* bus up to its buffer's size, and less than that only after a short      *)
(* packet; an IN transfer all of it, with a short packet at the end if one *)
(* was asked for and no empty packet if not.                               *)
Exact(s, d) ==
    LET j == s.job[d] IN
    /\ j.nb = IF s.moved[d] > j.size THEN j.size ELSE s.moved[d]
    /\ j.nb = j.size \/ (d = "out" /\ s.last[d] < EpSize)
    /\ d = "in" => IF j.wanted THEN s.last[d] < EpSize
                   ELSE j.size > 0 => s.last[d] > 0

CallDone(s, d) == [CallTrans(s, d) EXCEPT !.inexact = @ \/ ~Exact(s, d)]

(* The next hardware transfer of rest bytes, a whole number of packets     *)
(* when it is not the last.                                                *)
WholePackets(n) == n - (n % EpSize)

(* Slip: the longest transfer is not rounded down to whole packets.        *)
CappedUnrounded(rest) == IF MaxTrans < rest THEN MaxTrans ELSE rest
Capped(rest) == IF MaxTrans < rest THEN WholePackets(MaxTrans) ELSE rest

(* One more IN transfer; an empty packet will follow it only if it ends in *)
(* a full one.                                                             *)
SendNext(s, d) ==
    LET next == Capped(s.job[d].size - s.job[d].nb)
    IN  StartBank([s EXCEPT !.job[d].short = @ /\ (next % EpSize = 0)],
                  d, next)

(* Slip: the last partial packet goes straight into the buffer.            *)
ReceiveNextNoCache(s, d) ==
    LET rest == s.job[d].size - s.job[d].nb
        next == WholePackets(Capped(rest))
    IN  StartBank(s, d, IF next < EpSize THEN EpSize ELSE next)
(* One more OUT transfer of whole packets, or the last partial packet into *)
(* the cache buffer.                                                       *)
ReceiveNext(s, d) ==
    LET rest == s.job[d].size - s.job[d].nb
        next == WholePackets(Capped(rest))
    IN  IF next < EpSize
        THEN StartBank([s EXCEPT !.job[d].cache = TRUE], d, EpSize)
        ELSE StartBank(s, d, next)

Refused(s, d) == s.hw[d].stallrq \/ s.job[d].busy

(* udd_ep_run.  The callback of a job without anything to transfer is      *)
(* called at once.                                                         *)
EpRun(s, d, size, short) ==
    LET new   == [busy |-> TRUE, call |-> "trans", size |-> size, nb |-> 0,
                  short |-> short, wanted |-> short, cache |-> FALSE]
        begun == [s EXCEPT !.job[d] = new, !.owed[d] = @ + 1,
                           !.moved[d] = 0, !.last[d] = EpSize]
    IN  IF Refused(s, d) THEN s
        ELSE IF size = 0 /\ ~(d = "in" /\ short)
        THEN CallTrans(begun, d)
        ELSE IF size = 0
        THEN StartBank([begun EXCEPT !.job[d].short = FALSE], d, 0)
        ELSE IF d = "in" THEN SendNext(begun, d) ELSE ReceiveNext(begun, d)

(* Slip: the callback of an aborted job is forgotten.                      *)
EpAbortSilent(s, d) ==
    Idle(AbortBank(s, d), d)
(* udd_ep_abort: whichever callback the job has is called.                 *)
EpAbort(s, d) ==
    LET idle == AbortBank(s, d) IN
    IF Transfers(s.job[d]) THEN CallTrans(idle, d) ELSE Idle(idle, d)

(* udd_ep_trans_in_next after n bytes *)
TransInNext(s, n) ==
    LET t == [s EXCEPT !.job["in"].nb = @ + n] IN
    IF t.job["in"].nb # t.job["in"].size THEN SendNext(t, "in")
    ELSE IF t.job["in"].short
    THEN StartBank([t EXCEPT !.job["in"].short = FALSE], "in", 0)
    ELSE CallDone(t, "in")

(* udd_ep_trans_out_next after n bytes of a transfer of length             *)
TransOutNext(s, n, length) ==
    LET nb == s.job["out"].nb + n
        t  == [s EXCEPT !.job["out"].nb =
                 IF nb > s.job["out"].size THEN s.job["out"].size ELSE nb]
    IN  IF n = length /\ t.job["out"].nb # t.job["out"].size
        THEN ReceiveNext(t, "out")
        ELSE CallDone(t, "out")

-----------------------------------------------------------------------------
(* Calls of the class driver and of the device core *)

Configured == hw["in"].type /\ hw["out"].type

(* A class driver starts transfers while its endpoints are allocated.      *)
Run(d, size, short) ==
    /\ Configured
    /\ Becomes(EpRun(St, d, size, short))
    /\ UNCHANGED seen

(* udd_ep_wait_stall_clear; without a halt the callback runs at once and   *)
(* the job is not used.                                                    *)
WaitStallClear(d) ==
    /\ Configured
    /\ ~job[d].busy
    /\ hw[d].stallrq
    /\ job' = [job EXCEPT ![d].busy = TRUE, ![d].call = "nohalt"]
    /\ UNCHANGED <<hw, irq, owed, bogus, seen, moved, last, inexact>>

(* SET_FEATURE(ENDPOINT_HALT): udd_ep_abort, then udd_ep_set_halt, which   *)
(* aborts once more.                                                       *)
SetHalt(d) ==
    /\ Configured
    /\ LET aborted == EpAbort(St, d)
           halted  == [aborted EXCEPT !.hw[d].stallrq = TRUE]
       IN  Becomes(EpAbort(halted, d))
    /\ seen' = [seen EXCEPT ![d] = FALSE]

(* CLEAR_FEATURE(ENDPOINT_HALT): udd_ep_clear_halt takes any busy job for  *)
(* one that waits, and calls what is in the union.                         *)
ClearHalt(d) ==
    /\ Configured
    /\ ClearsUnhalted \/ hw[d].stallrq
    /\ LET s == ClearStall(St, d) IN
       Becomes(IF Transfers(s.job[d])
               THEN [s EXCEPT !.job[d].busy = FALSE, !.bogus = TRUE]
               ELSE Idle(s, d))
    /\ UNCHANGED seen

(* udd_ep_free: writing the configuration register and unregistering the   *)
(* callback hit both directions.                                           *)
EpFree(s, d) ==
    LET aborted == EpAbort(s, d)
    IN  [aborted EXCEPT !.hw[d].type = FALSE, !.hw[OtherDir(d)].type = FALSE,
                        !.hw[d].inten = FALSE,
                        !.irq.registered = FALSE, !.irq.enabled = FALSE]

(* udd_ep_alloc of a direction that is not configured.                     *)
EpAlloc(s, d) ==
    [s EXCEPT !.hw[d].type = TRUE, !.hw[d].inten = TRUE,
              !.hw[d].ready = FALSE,
              !.irq.registered = TRUE, !.irq.enabled = TRUE]

(* Slip: the register is cleared already, the second is not freed.         *)
DisableFirst ==
    /\ Configured
    /\ Becomes(EpFree(St, "in"))
    /\ UNCHANGED seen
(* udc_iface_disable frees the endpoints of an interface in turn.          *)
Disable ==
    /\ Configured
    /\ Becomes(EpFree(EpFree(St, "in"), "out"))
    /\ UNCHANGED seen

(* udc_iface_enable allocates them.                                        *)
Enable ==
    /\ ~Configured
    /\ Becomes(EpAlloc(EpAlloc(St, "in"), "out"))
    /\ UNCHANGED seen

-----------------------------------------------------------------------------
(* The bus and the interrupt *)

Flipped(h) == [h EXCEPT !.toggle = 1 - @]

(* The host sends a packet of n bytes; a short one, or a full bank, ends   *)
(* the hardware transfer.                                                  *)
HostOut(n) ==
    /\ LET h == hw["out"] IN
       /\ h.ready /\ h.type /\ ~h.stallrq
       /\ h.count + n <= h.length
       /\ LET done == n < EpSize \/ h.count + n = h.length
          IN  hw' = [hw EXCEPT !["out"] =
                       Flipped([h EXCEPT !.count = @ + n, !.ready = ~done,
                                         !.trcpt = done])]
    /\ moved' = [moved EXCEPT !["out"] = @ + n]
    /\ last' = [last EXCEPT !["out"] = n]
    /\ UNCHANGED <<job, irq, owed, bogus, seen, inexact>>

(* The host takes the next packet.                                         *)
HostIn ==
    /\ LET h == hw["in"]
           rest == h.length - h.count
           n == IF rest < EpSize THEN rest ELSE EpSize
       IN  /\ h.ready /\ h.type /\ ~h.stallrq
           /\ hw' = [hw EXCEPT !["in"] =
                       Flipped([h EXCEPT !.count = @ + n, !.ready = n # rest,
                                         !.trcpt = n = rest])]
           /\ moved' = [moved EXCEPT !["in"] = @ + n]
           /\ last' = [last EXCEPT !["in"] = n]
    /\ UNCHANGED <<job, irq, owed, bogus, seen, inexact>>

(* A token to a halted endpoint is answered with STALL.                    *)
HostStalled(d) ==
    /\ hw[d].stallrq /\ hw[d].type
    /\ hw' = [hw EXCEPT ![d].stall = TRUE]
    /\ seen' = [seen EXCEPT ![d] = TRUE]
    /\ UNCHANGED <<job, irq, owed, bogus, moved, last, inexact>>

(* Slip: both directions are acknowledged at once.                         *)
AcknowledgeBoth(s, d) == [s EXCEPT !.hw["in"].trcpt = FALSE,
                                   !.hw["out"].trcpt = FALSE]
Acknowledge(s, d) == [s EXCEPT !.hw[d].trcpt = FALSE,
                               !.hw[d].length = 0, !.hw[d].count = 0]

Raised == \E d \in Dir : hw[d].trcpt /\ hw[d].inten

(* TRFAIL, enabled as well: a token met a bank that was not ready.  There  *)
(* is no callback for it.                                                  *)
Failed == \E d \in Dir : hw[d].type /\ ~hw[d].ready /\ ~hw[d].stallrq

(* _usb_device_interrupt_handler on this endpoint.  It looks at all flags, *)
(* a STALL flag first: that one is cleared although nobody asked for it,   *)
(* and the transfer waits for the next interrupt.                          *)
StallInterrupt(d) ==
    /\ Raised \/ Failed
    /\ hw[d].stall
    /\ d = "out" => ~hw["in"].stall
    /\ hw' = [hw EXCEPT ![d].stall = FALSE]
    /\ UNCHANGED <<job, irq, owed, bogus, seen, moved, last, inexact>>

(* The transfer complete branch, IN before OUT.                            *)
TransferInterrupt(d) ==
    /\ Raised
    /\ \A e \in Dir : ~hw[e].stall
    /\ hw[d].trcpt
    /\ d = "out" => ~hw["in"].trcpt
    /\ LET s == Acknowledge(St, d) IN
       Becomes(IF ~(irq.registered /\ irq.enabled) THEN s
               ELSE IF d = "in" THEN TransInNext(s, hw[d].count)
               ELSE TransOutNext(s, hw[d].count, hw[d].length))
    /\ UNCHANGED seen

-----------------------------------------------------------------------------
Init ==
    /\ job = [d \in Dir |-> JobIdle]
    /\ hw = [d \in Dir |-> HwReset]
    /\ irq = [registered |-> FALSE, enabled |-> FALSE]
    /\ owed = [d \in Dir |-> 0]
    /\ bogus = FALSE
    /\ seen = [d \in Dir |-> FALSE]
    /\ moved = [d \in Dir |-> 0]
    /\ last = [d \in Dir |-> EpSize]
    /\ inexact = FALSE

Next ==
    \/ \E d \in Dir :
          \/ \E size \in 0 .. MaxSize, short \in BOOLEAN : Run(d, size, short)
          \/ WaitStallClear(d)
          \/ SetHalt(d)
          \/ ClearHalt(d)
          \/ HostStalled(d)
          \/ StallInterrupt(d)
          \/ TransferInterrupt(d)
    \/ Disable
    \/ Enable
    \/ \E n \in 0 .. EpSize : HostOut(n)
    \/ HostIn

Spec == Init /\ [][Next]_vars

(* The host serves the endpoint.  The handler runs again as long as a flag *)
(* is up, in less time than the host needs for a packet: no direction      *)
(* starves the other.                                                      *)
FairSpec ==
    /\ Spec
    /\ \A d \in Dir : /\ WF_vars(Raised /\ StallInterrupt(d))
                      /\ SF_vars(TransferInterrupt(d))
    /\ WF_vars(HostIn)
    /\ WF_vars(\E n \in 0 .. EpSize : HostOut(n))
-----------------------------------------------------------------------------
(* Properties *)

JobType == [busy : BOOLEAN, call : {"trans", "nohalt"}, size : 0 .. MaxSize,
            nb : 0 .. MaxSize, short : BOOLEAN, wanted : BOOLEAN,
            cache : BOOLEAN]
HwType == [type : BOOLEAN, inten : BOOLEAN, stallrq : BOOLEAN,
           stall : BOOLEAN, ready : BOOLEAN, length : 0 .. MaxSize + EpSize,
           count : 0 .. MaxSize + EpSize, trcpt : BOOLEAN, toggle : {0, 1}]

(* Byte counts stay within the buffer, plus one packet on the bus.         *)
TypeOK ==
    /\ job \in [Dir -> JobType]
    /\ hw \in [Dir -> HwType]
    /\ irq \in [registered : BOOLEAN, enabled : BOOLEAN]
    /\ owed \in [Dir -> {0, 1}]
    /\ bogus \in BOOLEAN
    /\ seen \in [Dir -> BOOLEAN]
    /\ moved \in [Dir -> 0 .. MaxSize + EpSize]
    /\ last \in [Dir -> 0 .. EpSize]
    /\ inexact \in BOOLEAN

(* Every transfer udd_ep_run accepted is answered once, whatever halts,    *)
(* aborts and freed endpoints come between.                                *)
OneAnswer == \A d \in Dir : owed[d] = IF Transfers(job[d]) THEN 1 ELSE 0

(* An endpoint holds its bank or owes an interrupt exactly while it has a  *)
(* transfer, its callback is then connected, and a halted or freed         *)
(* endpoint has none: no transfer is left without a way to end.            *)
TransferAlive ==
    \A d \in Dir :
        /\ Transfers(job[d]) = (hw[d].ready \/ hw[d].trcpt)
        /\ Transfers(job[d]) =>
              /\ hw[d].type /\ ~hw[d].stallrq /\ hw[d].inten
              /\ irq.registered /\ irq.enabled
        /\ ~hw[d].type => ~job[d].busy

(* The peripheral writes inside the class driver's buffer: a whole number  *)
(* of packets that fit, or a packet into the cache, of which exactly the   *)
(* bytes that are left are copied.                                         *)
OutInsideBuffer ==
    LET j == job["out"] IN
    hw["out"].ready =>
      IF j.cache THEN j.nb + (j.size % EpSize) = j.size
      ELSE j.nb + hw["out"].length <= j.size

(* A completed transfer reports exactly what was on the bus, see Exact,    *)
(* over all its hardware transfers, the cache buffer and the empty packet. *)
AnswersExact == ~inexact

(* While the host serves the endpoint, every accepted transfer ends.       *)
Answered == \A d \in Dir : owed[d] = 1 ~> owed[d] = 0
=============================================================================
