---------------------------- MODULE UddEp_proofs ----------------------------
(***************************************************************************)
(* Proofs about UddEp, for every packet size, longest hardware transfer    *)
(* and transfer size: each accepted transfer is answered once and exactly, *)
(* none is left without a way to end, and the peripheral stays inside the  *)
(* class driver's buffer.  They assume that the host clears only halts     *)
(* that there are.                                                         *)
(***************************************************************************)
EXTENDS UddEp, TLAPS

Jobs == [busy : BOOLEAN, call : {"trans", "nohalt"}, size : Nat, nb : Nat,
         short : BOOLEAN, wanted : BOOLEAN, cache : BOOLEAN]

Banks == [type : BOOLEAN, inten : BOOLEAN, stallrq : BOOLEAN, stall : BOOLEAN,
          ready : BOOLEAN, length : Nat, count : Nat, trcpt : BOOLEAN, toggle : {0, 1}]

States == [job : [Dir -> Jobs], hw : [Dir -> Banks],
           irq : [registered : BOOLEAN, enabled : BOOLEAN],
           owed : [Dir -> Int], bogus : BOOLEAN,
           moved : [Dir -> Nat], last : [Dir -> Nat], inexact : BOOLEAN]

-----------------------------------------------------------------------------
(* The inductive invariant *)

Whole(n) == n % EpSize = 0

(* An OUT bank fills whole packets that fit, or takes the last one into    *)
(* the cache buffer.                                                       *)
OutBank(j, h, l) ==
    /\ IF j.cache THEN h.length = EpSize /\ j.nb + (j.size % EpSize) = j.size
       ELSE Whole(j.nb) /\ Whole(h.length) /\ j.nb + h.length <= j.size
    /\ h.trcpt /\ h.count # h.length => l < EpSize

(* An IN bank sends full packets but for the last; once no empty packet    *)
(* is to follow a transfer that wants a short one, this is the last bank   *)
(* and it ends in a short packet itself.                                   *)
InBank(j, h, l) ==
    /\ j.nb + h.length <= j.size
    /\ h.ready => Whole(h.count) /\ (h.length # 0 => h.count < h.length)
    /\ h.trcpt => h.count = h.length /\ (h.length # 0 => l # 0)
    /\ j.short => j.wanted
    /\ ~j.wanted => h.length # 0
    /\ j.wanted /\ ~j.short =>
          /\ h.length = 0 \/ ~Whole(h.length)
          /\ j.nb + h.length = j.size
          /\ h.trcpt => l < EpSize

(* What was on the bus is counted in the job or still in the bank. *)
Bank(j, h, m, l, d) ==
    /\ h.count <= h.length
    /\ j.nb <= j.size
    /\ m = j.nb + h.count
    /\ d = "in" => InBank(j, h, l)
    /\ d = "out" => OutBank(j, h, l)

Connected(s, d) == s.hw[d].inten /\ s.irq.registered /\ s.irq.enabled

OwnInv(j, h, o, m, l, d) ==
    /\ o = IF Transfers(j) THEN 1 ELSE 0
    /\ Transfers(j) = (h.ready \/ h.trcpt)
    /\ ~(h.ready /\ h.trcpt)
    /\ Transfers(j) => h.type /\ ~h.stallrq /\ Bank(j, h, m, l, d)
    /\ ~h.type => ~j.busy

DirInv(s, d) ==
    /\ OwnInv(s.job[d], s.hw[d], s.owed[d], s.moved[d], s.last[d], d)
    /\ s.hw[d].type => Connected(s, d)

StateInv(s) ==
    /\ s \in States
    /\ s.hw["in"].type = s.hw["out"].type
    /\ ~s.inexact
    /\ \A d \in Dir : DirInv(s, d)

IInv == StateInv(St)

(* An operator on one direction leaves the other one alone. *)
Same(s, t, d) ==
    /\ t.job[d] = s.job[d] /\ t.hw[d] = s.hw[d] /\ t.owed[d] = s.owed[d]
    /\ t.moved[d] = s.moved[d] /\ t.last[d] = s.last[d]

Rest(s, t, d) == t.irq = s.irq /\ \A e \in Dir \ {d} : Same(s, t, e)

-----------------------------------------------------------------------------
(* Whole packets *)

LEMMA EpSizePositive == EpSize \in Nat /\ EpSize > 0 /\ MaxTrans \in Nat /\ MaxTrans >= EpSize
  BY SizesAssumption

LEMMA Division ==
    ASSUME NEW n \in Nat
    PROVE  /\ n \div EpSize \in Nat
           /\ n % EpSize \in Nat
           /\ n % EpSize < EpSize
           /\ n = EpSize * (n \div EpSize) + (n % EpSize)
  BY EpSizePositive

LEMMA Remainder ==
    ASSUME NEW q \in Nat, NEW r \in Nat, r < EpSize
    PROVE  (EpSize * q + r) % EpSize = r
  BY EpSizePositive

LEMMA PartOfPacket ==
    ASSUME NEW n \in Nat, n < EpSize
    PROVE  n % EpSize = n
<1>1. EpSize * 0 + n = n
  BY EpSizePositive
<1>2. (EpSize * 0 + n) % EpSize = n
  BY Remainder
<1> QED
  BY <1>1, <1>2

LEMMA OnePacketWhole == Whole(0) /\ Whole(EpSize)
<1>1. EpSize * 1 + 0 = EpSize /\ (EpSize * 1 + 0) % EpSize = 0
  BY EpSizePositive, Remainder
<1>2. 0 % EpSize = 0
  BY EpSizePositive, PartOfPacket
<1> QED
  BY <1>1, <1>2 DEF Whole

LEMMA WholeAndRest ==
    ASSUME NEW a \in Nat, NEW b \in Nat, Whole(a)
    PROVE  (a + b) % EpSize = b % EpSize
<1>1. PICK p \in Nat : a = EpSize * p
  BY Division, EpSizePositive DEF Whole
<1>2. PICK q \in Nat, r \in Nat : b = EpSize * q + r /\ r < EpSize /\ b % EpSize = r
  BY Division
<1>3. a + b = EpSize * (p + q) + r
  BY <1>1, <1>2, EpSizePositive
<1>4. (EpSize * (p + q) + r) % EpSize = r
  BY <1>2, Remainder
<1> QED
  BY <1>2, <1>3, <1>4

LEMMA WholePacketsWhole ==
    ASSUME NEW n \in Nat
    PROVE  /\ WholePackets(n) \in Nat /\ WholePackets(n) <= n
           /\ n < WholePackets(n) + EpSize
           /\ Whole(WholePackets(n))
<1>1. PICK q \in Nat : WholePackets(n) = EpSize * q + 0 /\ n = EpSize * q + (n % EpSize)
  BY EpSizePositive, Division DEF WholePackets
<1>2. (EpSize * q + 0) % EpSize = 0
  BY EpSizePositive, Remainder
<1>3. WholePackets(n) \in Nat /\ WholePackets(n) <= n /\ n < WholePackets(n) + EpSize
  BY EpSizePositive, Division, <1>1 DEF WholePackets
<1> QED
  BY <1>1, <1>2, <1>3 DEF Whole

LEMMA CappedFits ==
    ASSUME NEW rest \in Nat, rest # 0
    PROVE  /\ Capped(rest) \in Nat /\ Capped(rest) <= rest /\ Capped(rest) # 0
           /\ Capped(rest) # rest => Whole(Capped(rest))
<1>1. CASE MaxTrans < rest
  BY <1>1, WholePacketsWhole, EpSizePositive DEF Capped
<1>2. CASE ~(MaxTrans < rest)
  BY <1>2 DEF Capped
<1> QED
  BY <1>1, <1>2

LEMMA ReceivedFits ==
    ASSUME NEW rest \in Nat, rest # 0
    PROVE  /\ WholePackets(Capped(rest)) \in Nat
           /\ WholePackets(Capped(rest)) <= rest
           /\ Whole(WholePackets(Capped(rest)))
           /\ WholePackets(Capped(rest)) < EpSize => rest < EpSize
<1>1. PICK c \in Nat : c = Capped(rest) /\ c <= rest /\ c # 0 /\ (c # rest => Whole(c))
  BY CappedFits
<1>2. PICK n \in Nat : n = WholePackets(c) /\ n <= c /\ c < n + EpSize /\ Whole(n)
  BY WholePacketsWhole
<1>3. ASSUME n < EpSize
      PROVE  rest < EpSize
  <2>1. n = 0
    BY <1>2, <1>3, PartOfPacket DEF Whole
  <2>2. c < EpSize
    BY <1>2, <2>1, EpSizePositive
  <2>3. ~Whole(c)
    BY <1>1, <2>2, PartOfPacket DEF Whole
  <2> QED
    BY <1>1, <2>2, <2>3
<1> QED
  BY <1>1, <1>2, <1>3

-----------------------------------------------------------------------------
(* The operators on one direction *)

(* In a handler: the transfer of d has no bank and will get one or end.    *)
MidInv(s, d) ==
    /\ s \in States
    /\ s.hw["in"].type = s.hw["out"].type
    /\ ~s.inexact
    /\ \A e \in Dir \ {d} : DirInv(s, e)
    /\ s.hw[d].type /\ Connected(s, d)
    /\ ~s.hw[d].stallrq /\ ~s.hw[d].ready /\ ~s.hw[d].trcpt
    /\ Transfers(s.job[d]) /\ s.owed[d] = 1

LEMMA OneOther ==
    ASSUME NEW d \in Dir
    PROVE  OtherDir(d) \in Dir /\ OtherDir(d) # d /\ Dir = {d, OtherDir(d)}
  BY DEF Dir, OtherDir

(* DirInv depends on the direction and on the connection only. *)
LEMMA SameKeeps ==
    ASSUME NEW s, NEW t, NEW e, Same(s, t, e), t.irq = s.irq, DirInv(s, e)
    PROVE  DirInv(t, e)
  BY DEF Same, DirInv, OwnInv, Connected

LEMMA Parts ==
    ASSUME NEW s \in States, NEW d \in Dir
    PROVE  s.job[d] \in Jobs /\ s.hw[d] \in Banks /\ s.owed[d] \in Int
           /\ s.moved[d] \in Nat /\ s.last[d] \in Nat /\ s.inexact \in BOOLEAN
  BY DEF States

(* A state with another bank, and with the rest of a direction replaced. *)
WithBank(s, d, h) == [s EXCEPT !.hw[d] = h]

WithJob(s, d, j, o, m, l) ==
    [s EXCEPT !.job[d] = j, !.owed[d] = o, !.moved[d] = m, !.last[d] = l]

Armed(h, length) == [h EXCEPT !.length = length, !.count = 0, !.ready = TRUE]

LEMMA SetBank ==
    ASSUME NEW s \in States, NEW d \in Dir, NEW h \in Banks
    PROVE  LET t == WithBank(s, d, h) IN
           /\ t \in States
           /\ t.job = s.job /\ t.owed = s.owed /\ t.moved = s.moved /\ t.last = s.last
           /\ t.irq = s.irq /\ t.inexact = s.inexact /\ t.hw[d] = h
           /\ \A e \in Dir \ {d} : t.hw[e] = s.hw[e]
  BY DEF States, WithBank

(* t is s with the job of a direction and its histories replaced. *)
JobSet(s, d, j, o, m, l, t) ==
    /\ t \in States
    /\ t.hw = s.hw /\ t.irq = s.irq /\ t.inexact = s.inexact
    /\ t.job[d] = j /\ t.owed[d] = o /\ t.moved[d] = m /\ t.last[d] = l
    /\ Rest(s, t, d)

LEMMA SetJob ==
    ASSUME NEW s \in States, NEW d \in Dir, NEW j \in Jobs, NEW o \in Int,
           NEW m \in Nat, NEW l \in Nat
    PROVE  JobSet(s, d, j, o, m, l, WithJob(s, d, j, o, m, l))
<1> DEFINE t == WithJob(s, d, j, o, m, l)
<1>1. /\ t.hw = s.hw /\ t.irq = s.irq /\ t.inexact = s.inexact /\ t.bogus = s.bogus
      /\ t.job = [s.job EXCEPT ![d] = j] /\ t.owed = [s.owed EXCEPT ![d] = o]
      /\ t.moved = [s.moved EXCEPT ![d] = m] /\ t.last = [s.last EXCEPT ![d] = l]
  BY DEF States, WithJob
<1>2. t \in States
  BY DEF States, WithJob
<1>3. t.job[d] = j /\ t.owed[d] = o /\ t.moved[d] = m /\ t.last[d] = l
  BY <1>1 DEF States
<1>4. Rest(s, t, d)
  BY <1>1 DEF Rest, Same, States
<1> QED
  BY <1>1, <1>2, <1>3, <1>4 DEF JobSet

LEMMA BankWithJob ==
    ASSUME NEW h \in Banks, NEW length \in Nat
    PROVE  LET g == Armed(h, length) IN
           /\ g \in Banks
           /\ g.type = h.type /\ g.inten = h.inten /\ g.stallrq = h.stallrq
           /\ g.trcpt = h.trcpt /\ g.ready /\ g.length = length /\ g.count = 0
  BY DEF Banks, Armed

LEMMA StartBankSets ==
    ASSUME NEW s \in States, NEW d \in Dir, NEW length \in Nat, s.hw[d].type
    PROVE  LET t == StartBank(s, d, length) IN
           /\ t \in States
           /\ t.job = s.job /\ t.owed = s.owed /\ t.moved = s.moved /\ t.last = s.last
           /\ t.irq = s.irq /\ t.inexact = s.inexact
           /\ \A e \in Dir \ {d} : t.hw[e] = s.hw[e]
           /\ t.hw[d] = Armed(s.hw[d], length)
<1>1. PICK h \in Banks : h = Armed(s.hw[d], length)
  BY Parts, BankWithJob
<1>2. StartBank(s, d, length) = WithBank(s, d, h)
  BY <1>1 DEF StartBank, States, Armed, WithBank
<1> QED
  BY <1>1, <1>2, SetBank

(* The bank that a transfer needs starts. *)
LEMMA Started ==
    ASSUME NEW s, NEW d \in Dir, NEW length \in Nat, MidInv(s, d),
           Bank(s.job[d], Armed(s.hw[d], length),
                s.moved[d], s.last[d], d)
    PROVE  StateInv(StartBank(s, d, length))
<1>0. s \in States /\ s.hw[d].type /\ s.hw[d] \in Banks
  BY Parts DEF MidInv
<1>1. PICK t : t = StartBank(s, d, length)
  OBVIOUS
<1>2. /\ t \in States /\ t.job = s.job /\ t.owed = s.owed /\ t.moved = s.moved /\ t.last = s.last
      /\ t.irq = s.irq /\ t.inexact = s.inexact
      /\ \A e \in Dir \ {d} : t.hw[e] = s.hw[e]
      /\ t.hw[d] = Armed(s.hw[d], length)
  BY <1>0, <1>1, StartBankSets
<1>3. /\ t.hw[d].type = s.hw[d].type /\ t.hw[d].inten = s.hw[d].inten
      /\ t.hw[d].stallrq = s.hw[d].stallrq /\ t.hw[d].trcpt = s.hw[d].trcpt /\ t.hw[d].ready
  <2>1. PICK h : h = Armed(s.hw[d], length)
    OBVIOUS
  <2>2. /\ h.type = s.hw[d].type /\ h.inten = s.hw[d].inten /\ h.ready
        /\ h.stallrq = s.hw[d].stallrq /\ h.trcpt = s.hw[d].trcpt
    BY <1>0, <2>1, BankWithJob
  <2> QED
    BY <1>2, <2>1, <2>2
<1>4. \A e \in Dir \ {d} : DirInv(t, e)
  BY <1>2, SameKeeps DEF MidInv, Same
<1>5. Bank(t.job[d], t.hw[d], t.moved[d], t.last[d], d)
  BY <1>2
<1>6. DirInv(t, d)
  <2>1. /\ ~t.hw[d].trcpt /\ t.hw[d].ready /\ t.hw[d].type /\ ~t.hw[d].stallrq
        /\ Transfers(t.job[d]) /\ t.owed[d] = 1
    BY <1>2, <1>3 DEF MidInv
  <2>2. OwnInv(t.job[d], t.hw[d], t.owed[d], t.moved[d], t.last[d], d)
    BY <1>5, <2>1 DEF OwnInv
  <2>3. Connected(t, d)
    BY <1>2, <1>3 DEF MidInv, Connected
  <2> QED
    BY <2>2, <2>3 DEF DirInv
<1>7. t.hw["in"].type = t.hw["out"].type
  BY <1>2, <1>3 DEF MidInv, Dir
<1> QED
  BY <1>1, <1>2, <1>4, <1>6, <1>7 DEF StateInv, MidInv

LEMMA CallTransSets ==
    ASSUME NEW s \in States, NEW d \in Dir
    PROVE  LET t == CallTrans(s, d) IN
           /\ t \in States
           /\ Rest(s, t, d) /\ t.inexact = s.inexact
           /\ t.hw = s.hw
           /\ ~t.job[d].busy /\ t.owed[d] = s.owed[d] - 1
<1>1. JobIdle \in Jobs /\ ~JobIdle.busy
  BY DEF JobIdle, Jobs
<1>2. PICK o \in Int, m \in Nat, l \in Nat : o = s.owed[d] - 1 /\ m = 0 /\ l = EpSize
  BY Parts, EpSizePositive
<1>3. CallTrans(s, d) = WithJob(s, d, JobIdle, o, m, l)
  BY <1>2 DEF CallTrans, Idle, States, WithJob
<1>4. PICK t : t = WithJob(s, d, JobIdle, o, m, l)
  OBVIOUS
<1>5. JobSet(s, d, JobIdle, o, m, l, t)
  BY <1>1, <1>4, SetJob
<1>6. /\ t \in States /\ t.hw = s.hw /\ t.inexact = s.inexact
      /\ t.job[d] = JobIdle /\ t.owed[d] = o /\ Rest(s, t, d)
  BY <1>5 DEF JobSet
<1> QED
  BY <1>1, <1>2, <1>3, <1>4, <1>6

LEMMA IdleSets ==
    ASSUME NEW s \in States, NEW d \in Dir
    PROVE  LET t == Idle(s, d) IN
           /\ t \in States
           /\ Rest(s, t, d) /\ t.inexact = s.inexact
           /\ t.hw = s.hw
           /\ ~t.job[d].busy /\ t.owed[d] = s.owed[d]
<1>1. JobIdle \in Jobs /\ ~JobIdle.busy
  BY DEF JobIdle, Jobs
<1> QED
  BY <1>1, EpSizePositive DEF Idle, States, Rest, Same

LEMMA CallTransKeeps ==
    ASSUME NEW s, NEW d \in Dir, MidInv(s, d)
    PROVE  StateInv(CallTrans(s, d))
<1>1. PICK t \in States : t = CallTrans(s, d)
  BY CallTransSets DEF MidInv
<1>2. /\ Rest(s, t, d) /\ t.inexact = s.inexact
      /\ t.hw = s.hw /\ ~t.job[d].busy /\ t.owed[d] = s.owed[d] - 1
  BY <1>1, CallTransSets DEF MidInv
<1>3. t.owed[d] = 0
  BY <1>2 DEF MidInv
<1>4. DirInv(t, d)
  BY <1>2, <1>3 DEF DirInv, OwnInv, MidInv, Connected, Rest, Transfers
<1>5. \A e \in Dir \ {d} : DirInv(t, e)
  BY <1>2, SameKeeps DEF MidInv, Rest
<1> QED
  BY <1>1, <1>2, <1>4, <1>5 DEF StateInv, MidInv

LEMMA CallDoneKeeps ==
    ASSUME NEW s, NEW d \in Dir, MidInv(s, d), Exact(s, d)
    PROVE  StateInv(CallDone(s, d))
<1>1. PICK t \in States : t = CallTrans(s, d)
  BY CallTransSets DEF MidInv
<1>2. ~t.inexact
  BY <1>1, CallTransSets DEF MidInv
<1>3. CallDone(s, d) = [t EXCEPT !.inexact = @ \/ ~Exact(s, d)]
  BY <1>1 DEF CallDone
<1>4. CallDone(s, d) = t
  BY <1>2, <1>3 DEF States
<1> QED
  BY <1>1, <1>4, CallTransKeeps

LEMMA AbortSets ==
    ASSUME NEW s \in States, NEW d \in Dir,
           s.owed[d] = IF Transfers(s.job[d]) THEN 1 ELSE 0
    PROVE  LET t == EpAbort(s, d) IN
           /\ t \in States
           /\ Rest(s, t, d) /\ t.inexact = s.inexact
           /\ ~t.job[d].busy /\ t.owed[d] = 0
           /\ ~t.hw[d].ready /\ ~t.hw[d].trcpt
           /\ t.hw[d].type = s.hw[d].type /\ t.hw[d].inten = s.hw[d].inten
           /\ t.hw[d].stallrq = s.hw[d].stallrq
<1>0. PICK h \in Banks : h = [s.hw[d] EXCEPT !.ready = FALSE, !.trcpt = FALSE,
                                              !.length = 0, !.count = 0]
  <2>1. s.hw[d] \in Banks
    BY Parts
  <2> QED
    BY <2>1 DEF Banks
<1>1. PICK u : u = AbortBank(s, d)
  OBVIOUS
<1>9. u = WithBank(s, d, h)
  BY <1>0, <1>1, ZenonT(60) DEF AbortBank, States, WithBank
<1>2. /\ u \in States
      /\ u.job = s.job /\ u.owed = s.owed /\ u.irq = s.irq /\ u.inexact = s.inexact
      /\ u.moved = s.moved /\ u.last = s.last
      /\ \A e \in Dir \ {d} : u.hw[e] = s.hw[e]
      /\ ~u.hw[d].ready /\ ~u.hw[d].trcpt
      /\ u.hw[d].type = s.hw[d].type /\ u.hw[d].inten = s.hw[d].inten
      /\ u.hw[d].stallrq = s.hw[d].stallrq
  <2>1. /\ ~h.ready /\ ~h.trcpt /\ h.type = s.hw[d].type
        /\ h.inten = s.hw[d].inten /\ h.stallrq = s.hw[d].stallrq
    BY <1>0, Parts DEF Banks
  <2> QED
    BY <1>9, <2>1, SetBank
<1>3. CASE Transfers(s.job[d])
  <2>1. PICK t \in States : t = CallTrans(u, d)
    BY <1>2, CallTransSets
  <2>2. /\ Rest(u, t, d) /\ t.inexact = u.inexact
        /\ t.hw = u.hw /\ ~t.job[d].busy /\ t.owed[d] = u.owed[d] - 1
    BY <1>2, <2>1, CallTransSets
  <2>3. EpAbort(s, d) = t
    BY <1>1, <1>3, <2>1 DEF EpAbort
  <2>4. t.owed[d] = 0
    BY <1>2, <1>3, <2>2
  <2> QED
    BY <1>2, <2>2, <2>3, <2>4 DEF Rest, Same
<1>4. CASE ~Transfers(s.job[d])
  <2>1. PICK t \in States : t = Idle(u, d)
    BY <1>2, IdleSets
  <2>2. /\ Rest(u, t, d) /\ t.inexact = u.inexact
        /\ t.hw = u.hw /\ ~t.job[d].busy /\ t.owed[d] = u.owed[d]
    BY <1>2, <2>1, IdleSets
  <2>3. EpAbort(s, d) = t
    BY <1>1, <1>4, <2>1 DEF EpAbort
  <2> QED
    BY <1>2, <1>4, <2>2, <2>3 DEF Rest, Same
<1> QED
  BY <1>3, <1>4

(* The next bank of an IN transfer, of which an empty packet may follow,   *)
(* and of an OUT transfer, in which only whole packets came so far.        *)
LEMMA SendNextKeeps ==
    ASSUME NEW s, MidInv(s, "in"),
           s.job["in"].nb < s.job["in"].size,
           s.moved["in"] = s.job["in"].nb,
           s.job["in"].short = s.job["in"].wanted
    PROVE  StateInv(SendNext(s, "in"))
<1> DEFINE j == s.job["in"]
<1>1. s \in States /\ j \in Jobs /\ j.size \in Nat /\ j.nb \in Nat
  BY DEF MidInv, States, Jobs, Dir
<1>2. PICK rest \in Nat : rest = j.size - j.nb /\ rest # 0 /\ j.nb + rest = j.size
  BY <1>1
<1>3. PICK next \in Nat : /\ next = Capped(rest) /\ next <= rest /\ next # 0
                          /\ next # rest => Whole(next)
  BY <1>2, CappedFits
<1> DEFINE u == [s EXCEPT !.job["in"].short = @ /\ Whole(next)]
<1>4. SendNext(s, "in") = StartBank(u, "in", next)
  BY <1>2, <1>3 DEF SendNext, Whole
<1>5. /\ u \in States /\ u.hw = s.hw /\ u.irq = s.irq /\ u.owed = s.owed
      /\ u.moved = s.moved /\ u.last = s.last /\ u.inexact = s.inexact
      /\ \A e \in Dir \ {"in"} : u.job[e] = s.job[e]
      /\ u.job["in"] = [j EXCEPT !.short = j.short /\ Whole(next)]
  BY <1>1 DEF States, Jobs, Dir, Whole
<1>6. u.job["in"] \in Jobs
  BY <1>5 DEF States, Dir
<1>7. PICK k \in Jobs : k = u.job["in"]
  BY <1>6
<1>8. /\ k.busy = j.busy /\ k.call = j.call /\ k.size = j.size /\ k.nb = j.nb
      /\ k.wanted = j.wanted /\ k.short = (j.short /\ Whole(next))
  BY <1>1, <1>5, <1>7 DEF Jobs
<1> HIDE DEF u
<1>9. MidInv(u, "in")
  <2>1. \A e \in Dir \ {"in"} : DirInv(u, e)
    BY <1>5, SameKeeps DEF MidInv, Same
  <2>2. Transfers(u.job["in"])
    BY <1>7, <1>8 DEF MidInv, Transfers
  <2> QED
    BY <1>5, <2>1, <2>2 DEF MidInv, Connected
<1>10. PICK h : h = Armed(u.hw["in"], next)
  OBVIOUS
<1>11. h \in Banks /\ h.length = next /\ h.count = 0 /\ h.ready /\ ~h.trcpt
  <2>1. u.hw["in"] \in Banks /\ ~u.hw["in"].trcpt
    BY <1>5, <1>9, Parts DEF MidInv, Dir
  <2> QED
    BY <1>10, <2>1, BankWithJob
<1>12. InBank(k, h, u.last["in"])
  <2>1. k.nb + h.length <= k.size
    BY <1>1, <1>2, <1>3, <1>8, <1>11
  <2>2. Whole(h.count) /\ h.length # 0 /\ h.count < h.length
    BY <1>3, <1>11, OnePacketWhole
  <2>3. ASSUME k.wanted, ~k.short
        PROVE  ~Whole(next)
    BY <2>3, <1>8
  <2>4. ~Whole(next) => k.nb + h.length = k.size
    BY <1>2, <1>3, <1>8, <1>11
  <2> QED
    BY <1>8, <1>11, <2>1, <2>2, <2>3, <2>4 DEF InBank
<1>13. Bank(k, h, u.moved["in"], u.last["in"], "in")
  <2>1. h.count <= h.length /\ k.nb <= k.size
    BY <1>1, <1>8, <1>11
  <2>2. u.moved["in"] = k.nb + h.count
    BY <1>1, <1>5, <1>8, <1>11
  <2> QED
    BY <2>1, <2>2, <1>12 DEF Bank
<1> QED
  BY <1>4, <1>7, <1>9, <1>10, <1>13, Started DEF Dir

LEMMA ReceiveNextKeeps ==
    ASSUME NEW s, MidInv(s, "out"),
           s.job["out"].nb < s.job["out"].size,
           s.moved["out"] = s.job["out"].nb,
           Whole(s.job["out"].nb), ~s.job["out"].cache
    PROVE  StateInv(ReceiveNext(s, "out"))
<1> DEFINE j == s.job["out"]
<1>1. s \in States /\ j \in Jobs /\ j.size \in Nat /\ j.nb \in Nat
  BY DEF MidInv, States, Jobs, Dir
<1>2. PICK rest \in Nat : rest = j.size - j.nb /\ rest # 0 /\ j.nb + rest = j.size
  BY <1>1
<1>3. PICK next \in Nat : /\ next = WholePackets(Capped(rest)) /\ next <= rest
                          /\ Whole(next) /\ (next < EpSize => rest < EpSize)
  BY <1>2, ReceivedFits
<1>4. CASE next < EpSize
  <2> DEFINE u == [s EXCEPT !.job["out"].cache = TRUE]
  <2>1. ReceiveNext(s, "out") = StartBank(u, "out", EpSize)
    BY <1>2, <1>3, <1>4 DEF ReceiveNext
  <2>2. /\ u \in States /\ u.hw = s.hw /\ u.irq = s.irq /\ u.owed = s.owed
        /\ u.moved = s.moved /\ u.last = s.last /\ u.inexact = s.inexact
        /\ \A e \in Dir \ {"out"} : u.job[e] = s.job[e]
        /\ u.job["out"] = [j EXCEPT !.cache = TRUE]
    BY <1>1 DEF States, Jobs, Dir
  <2>3. PICK k \in Jobs : k = u.job["out"]
    BY <2>2 DEF States, Dir
  <2>4. k.busy = j.busy /\ k.call = j.call /\ k.size = j.size /\ k.nb = j.nb /\ k.cache
    BY <1>1, <2>2, <2>3 DEF Jobs
  <2> HIDE DEF u
  <2>5. MidInv(u, "out")
    <3>1. \A e \in Dir \ {"out"} : DirInv(u, e)
      BY <2>2, SameKeeps DEF MidInv, Same
    <3>2. Transfers(u.job["out"])
      BY <2>3, <2>4 DEF MidInv, Transfers
    <3> QED
      BY <2>2, <3>1, <3>2 DEF MidInv, Connected
  <2>6. PICK h : h = Armed(u.hw["out"], EpSize)
    OBVIOUS
  <2>7. h \in Banks /\ h.length = EpSize /\ h.count = 0 /\ h.ready /\ ~h.trcpt
    <3>1. u.hw["out"] \in Banks /\ ~u.hw["out"].trcpt
      BY <2>2, <2>5, Parts DEF MidInv, Dir
    <3> QED
      BY <2>6, <3>1, BankWithJob, EpSizePositive
  <2>8. k.nb + (k.size % EpSize) = k.size
    <3>1. (j.nb + rest) % EpSize = rest % EpSize /\ rest % EpSize = rest
      BY <1>1, <1>3, <1>4, WholeAndRest, PartOfPacket
    <3> QED
      BY <1>2, <2>4, <3>1
  <2>9. OutBank(k, h, u.last["out"])
    BY <2>4, <2>7, <2>8 DEF OutBank
  <2>10. Bank(k, h, u.moved["out"], u.last["out"], "out")
    <3>1. h.count <= h.length /\ k.nb <= k.size
      BY <1>1, <2>4, <2>7, EpSizePositive
    <3>2. u.moved["out"] = k.nb + h.count
      BY <1>1, <2>2, <2>4, <2>7
    <3> QED
      BY <3>1, <3>2, <2>9 DEF Bank
  <2> QED
    BY <2>1, <2>3, <2>5, <2>6, <2>10, Started, EpSizePositive DEF Dir
<1>5. CASE ~(next < EpSize)
  <2>1. ReceiveNext(s, "out") = StartBank(s, "out", next)
    BY <1>2, <1>3, <1>5 DEF ReceiveNext
  <2>2. PICK h : h = Armed(s.hw["out"], next)
    OBVIOUS
  <2>3. h \in Banks /\ h.length = next /\ h.count = 0 /\ h.ready /\ ~h.trcpt
    <3>1. s.hw["out"] \in Banks /\ ~s.hw["out"].trcpt
      BY <1>1, Parts DEF MidInv, Dir
    <3> QED
      BY <2>2, <3>1, BankWithJob
  <2>4. OutBank(j, h, s.last["out"])
    <3>1. j.nb + h.length <= j.size
      BY <1>1, <1>2, <1>3, <2>3
    <3> QED
      BY <1>3, <2>3, <3>1 DEF OutBank
  <2>5. Bank(j, h, s.moved["out"], s.last["out"], "out")
    <3>1. h.count <= h.length /\ j.nb <= j.size
      BY <1>1, <2>3
    <3>2. s.moved["out"] = j.nb + h.count
      BY <1>1, <2>3
    <3> QED
      BY <3>1, <3>2, <2>4 DEF Bank
  <2> QED
    BY <2>1, <2>2, <2>5, Started DEF Dir
<1> QED
  BY <1>4, <1>5

-----------------------------------------------------------------------------
(* The steps *)

LEMMA StParts ==
    ASSUME IInv
    PROVE  /\ St \in States /\ St.job = job /\ St.hw = hw /\ St.irq = irq /\ St.owed = owed
           /\ St.moved = moved /\ St.last = last /\ St.inexact = inexact /\ St.bogus = bogus
           /\ hw["in"].type = hw["out"].type
           /\ \A d \in Dir : DirInv(St, d)
  BY DEF IInv, StateInv, St

(* A handler that ends in a state of the invariant. *)
LEMMA BecomesKeeps ==
    ASSUME NEW s, StateInv(s), Becomes(s)
    PROVE  IInv'
<1>1. s \in States
  BY DEF StateInv
<1>2. PICK t : t = [job |-> job', hw |-> hw', irq |-> irq', owed |-> owed', bogus |-> bogus',
                    moved |-> moved', last |-> last', inexact |-> inexact']
  OBVIOUS
<1>3. t = s
  BY <1>1, <1>2 DEF Becomes, States
<1>4. StateInv(t)
  BY <1>3
<1> QED
  BY <1>2, <1>4 DEF IInv, St

(* A step that changes one direction. *)
LEMMA OneDirection ==
    ASSUME IInv, NEW d \in Dir, NEW j \in Jobs, NEW h \in Banks, NEW o \in Int,
           NEW m \in Nat, NEW l \in Nat,
           job' = [job EXCEPT ![d] = j], hw' = [hw EXCEPT ![d] = h],
           owed' = [owed EXCEPT ![d] = o], moved' = [moved EXCEPT ![d] = m],
           last' = [last EXCEPT ![d] = l],
           irq' = irq, bogus' \in BOOLEAN, inexact' = inexact,
           h.type = hw[d].type, h.inten = hw[d].inten,
           OwnInv(j, h, o, m, l, d)
    PROVE  IInv'
<1>1. PICK t : t = [job |-> job', hw |-> hw', irq |-> irq', owed |-> owed', bogus |-> bogus',
                    moved |-> moved', last |-> last', inexact |-> inexact']
  OBVIOUS
<1>2. PICK s \in States : s = St
  BY StParts
<1>3. /\ s.job = job /\ s.hw = hw /\ s.irq = irq /\ s.owed = owed
      /\ s.moved = moved /\ s.last = last /\ s.inexact = inexact
      /\ StateInv(s)
  BY <1>2, StParts DEF IInv
<1>4. t \in States
  BY <1>1, <1>3 DEF States
<1>5. /\ t.job[d] = j /\ t.hw[d] = h /\ t.owed[d] = o /\ t.moved[d] = m /\ t.last[d] = l
      /\ t.irq = s.irq /\ t.inexact = s.inexact
  BY <1>1, <1>3 DEF States
<1>6. \A e \in Dir \ {d} : Same(s, t, e)
  BY <1>1, <1>3 DEF States, Same
<1>7. \A e \in Dir \ {d} : DirInv(t, e)
  BY <1>3, <1>5, <1>6, SameKeeps DEF StateInv
<1>8. DirInv(t, d)
  <2>1. DirInv(s, d)
    BY <1>3 DEF StateInv
  <2> QED
    BY <1>3, <1>5, <2>1 DEF DirInv, Connected
<1>9. t.hw["in"].type = t.hw["out"].type
  <2>1. \A e \in Dir : t.hw[e].type = s.hw[e].type
    BY <1>3, <1>5, <1>6 DEF Same
  <2> QED
    BY <1>3, <2>1 DEF StateInv, Dir
<1>10. StateInv(t)
  BY <1>3, <1>4, <1>5, <1>7, <1>8, <1>9 DEF StateInv
<1> QED
  BY <1>1, <1>10 DEF IInv, St

(* udd_ep_run: a transfer begins, or has nothing to do. *)
LEMMA EpRunKeeps ==
    ASSUME NEW s, StateInv(s), NEW d \in Dir, s.hw[d].type,
           NEW size \in Nat, NEW short \in BOOLEAN
    PROVE  StateInv(EpRun(s, d, size, short))
<1>1. CASE Refused(s, d)
  BY <1>1 DEF EpRun
<1>2. CASE ~Refused(s, d)
  <2> DEFINE new == [busy |-> TRUE, call |-> "trans", size |-> size, nb |-> 0,
                     short |-> short, wanted |-> short, cache |-> FALSE]
             begun == [s EXCEPT !.job[d] = new, !.owed[d] = @ + 1,
                                !.moved[d] = 0, !.last[d] = EpSize]
  <2>1. /\ s \in States /\ DirInv(s, d) /\ ~s.inexact
        /\ s.hw["in"].type = s.hw["out"].type
        /\ \A e \in Dir \ {d} : DirInv(s, e)
    BY DEF StateInv
  <2>2. /\ ~s.hw[d].stallrq /\ ~s.job[d].busy /\ s.owed[d] = 0
        /\ ~s.hw[d].ready /\ ~s.hw[d].trcpt /\ Connected(s, d)
    BY <1>2, <2>1 DEF Refused, DirInv, OwnInv, Transfers
  <2>3. PICK k \in Jobs : k = new
    BY DEF Jobs
  <2>4. /\ k.busy /\ k.call = "trans" /\ k.size = size /\ k.nb = 0
        /\ k.short = short /\ k.wanted = short /\ ~k.cache
    BY <2>3
  <2>5. PICK o \in Int, m \in Nat, l \in Nat : o = 1 /\ m = 0 /\ l = EpSize
    BY EpSizePositive
  <2>6. begun = WithJob(s, d, k, o, m, l)
    BY <2>1, <2>2, <2>3, <2>5 DEF WithJob, States
  <2> HIDE DEF new, begun
  <2>7. /\ begun \in States /\ begun.hw = s.hw /\ begun.irq = s.irq
        /\ begun.inexact = s.inexact
        /\ begun.job[d] = k /\ begun.owed[d] = 1 /\ begun.moved[d] = 0
        /\ Rest(s, begun, d)
    <3>1. JobSet(s, d, k, o, m, l, begun)
      BY <2>1, <2>5, <2>6, SetJob
    <3> QED
      BY <2>5, <3>1 DEF JobSet
  <2>8. MidInv(begun, d)
    <3>1. \A e \in Dir \ {d} : DirInv(begun, e)
      BY <2>1, <2>7, SameKeeps DEF Rest
    <3>2. Transfers(begun.job[d])
      BY <2>4, <2>7 DEF Transfers
    <3> QED
      BY <2>1, <2>2, <2>7, <3>1, <3>2 DEF MidInv, Connected
  <2>9. CASE size = 0 /\ ~(d = "in" /\ short)
    <3>1. EpRun(s, d, size, short) = CallTrans(begun, d)
      BY <1>2, <2>9 DEF EpRun, new, begun
    <3> QED
      BY <2>8, <3>1, CallTransKeeps
  <2>10. CASE size = 0 /\ d = "in" /\ short
    <3> DEFINE z == [begun EXCEPT !.job[d].short = FALSE]
    <3>1. EpRun(s, d, size, short) = StartBank(z, d, 0)
      BY <1>2, <2>10 DEF EpRun, new, begun
    <3>2. PICK q \in Jobs : q = [k EXCEPT !.short = FALSE]
      BY DEF Jobs
    <3>3. q.busy /\ q.call = "trans" /\ q.size = 0 /\ q.nb = 0 /\ ~q.short /\ q.wanted
      BY <2>4, <2>10, <3>2 DEF Jobs
    <3>4. /\ z \in States /\ z.hw = begun.hw /\ z.irq = begun.irq /\ z.owed = begun.owed
          /\ z.moved = begun.moved /\ z.last = begun.last /\ z.inexact = begun.inexact
          /\ \A e \in Dir \ {d} : z.job[e] = begun.job[e]
          /\ z.job[d] = q
      BY <2>7, <3>2 DEF States
    <3> HIDE DEF z
    <3>5. MidInv(z, d)
      <4>1. \A e \in Dir \ {d} : DirInv(z, e)
        BY <2>8, <3>4, SameKeeps DEF MidInv, Same
      <4>2. Transfers(z.job[d])
        BY <3>3, <3>4 DEF Transfers
      <4> QED
        BY <2>8, <3>4, <4>1, <4>2 DEF MidInv, Connected
    <3>6. PICK h : h = Armed(z.hw[d], 0)
      OBVIOUS
    <3>7. h \in Banks /\ h.length = 0 /\ h.count = 0 /\ h.ready /\ ~h.trcpt
      <4>1. z.hw[d] \in Banks /\ ~z.hw[d].trcpt
        BY <3>4, <3>5, Parts DEF MidInv
      <4> QED
        BY <3>6, <4>1, BankWithJob
    <3>8. InBank(q, h, z.last[d])
      BY <3>3, <3>7, OnePacketWhole DEF InBank
    <3>9. Bank(z.job[d], h, z.moved[d], z.last[d], d)
      BY <2>7, <2>10, <3>3, <3>4, <3>7, <3>8 DEF Bank
    <3> QED
      BY <3>1, <3>5, <3>6, <3>9, Started
  <2>11. CASE size # 0
    <3>1. k.nb < k.size
      BY <2>4, <2>11
    <3>2. CASE d = "in"
      <4>1. EpRun(s, d, size, short) = SendNext(begun, d)
        BY <1>2, <2>11, <3>2 DEF EpRun, new, begun
      <4> QED
        BY <2>4, <2>7, <2>8, <3>1, <3>2, <4>1, SendNextKeeps
    <3>3. CASE d = "out"
      <4>1. EpRun(s, d, size, short) = ReceiveNext(begun, d)
        BY <1>2, <2>11, <3>3 DEF EpRun, new, begun
      <4> QED
        BY <2>4, <2>7, <2>8, <3>1, <3>3, <4>1, ReceiveNextKeeps, OnePacketWhole
    <3> QED
      BY <3>2, <3>3 DEF Dir
  <2> QED
    BY <2>9, <2>10, <2>11
<1> QED
  BY <1>1, <1>2

(* The interrupt takes the bank from a transfer. *)
LEMMA AcknowledgeKeeps ==
    ASSUME NEW s, StateInv(s), NEW d \in Dir, s.hw[d].trcpt
    PROVE  LET a == Acknowledge(s, d) IN
           /\ MidInv(a, d)
           /\ a.job = s.job /\ a.moved = s.moved /\ a.last = s.last
<1>1. s \in States /\ DirInv(s, d) /\ s.hw[d] \in Banks
  BY Parts DEF StateInv
<1>2. PICK h : h = [s.hw[d] EXCEPT !.trcpt = FALSE, !.length = 0, !.count = 0]
  OBVIOUS
<1>3. /\ h \in Banks /\ ~h.trcpt /\ h.ready = s.hw[d].ready /\ h.type = s.hw[d].type
      /\ h.inten = s.hw[d].inten /\ h.stallrq = s.hw[d].stallrq
  BY <1>1, <1>2 DEF Banks
<1>4. PICK a : a = Acknowledge(s, d)
  OBVIOUS
<1>5. a = WithBank(s, d, h)
  BY <1>1, <1>2, <1>4 DEF Acknowledge, WithBank, States
<1>6. /\ a \in States
      /\ a.job = s.job /\ a.owed = s.owed /\ a.moved = s.moved /\ a.last = s.last
      /\ a.irq = s.irq /\ a.inexact = s.inexact /\ a.hw[d] = h
      /\ \A e \in Dir \ {d} : a.hw[e] = s.hw[e]
  BY <1>1, <1>3, <1>5, SetBank
<1>7. \A e \in Dir \ {d} : DirInv(a, e)
  BY <1>6, SameKeeps DEF StateInv, Same
<1>8. a.hw["in"].type = a.hw["out"].type
  <2>1. \A e \in Dir : a.hw[e].type = s.hw[e].type
    BY <1>3, <1>6
  <2> QED
    BY <2>1 DEF StateInv, Dir
<1>9. /\ Transfers(s.job[d]) /\ s.owed[d] = 1 /\ s.hw[d].type /\ Connected(s, d)
      /\ ~s.hw[d].ready /\ ~s.hw[d].stallrq
  BY <1>1 DEF DirInv, OwnInv
<1>10. MidInv(a, d)
  BY <1>3, <1>6, <1>7, <1>8, <1>9 DEF MidInv, Connected, StateInv
<1> QED
  BY <1>4, <1>6, <1>10

(* A job with other counters, in a handler. *)
WithOwnJob(s, d, j) == [s EXCEPT !.job[d] = j]

LEMMA OwnJobKeeps ==
    ASSUME NEW s, NEW d \in Dir, MidInv(s, d), NEW j \in Jobs, Transfers(j)
    PROVE  LET t == WithOwnJob(s, d, j) IN
           /\ MidInv(t, d)
           /\ t.job[d] = j /\ t.hw = s.hw /\ t.moved = s.moved /\ t.last = s.last
<1>1. s \in States
  BY DEF MidInv
<1>2. PICK t : t = WithOwnJob(s, d, j)
  OBVIOUS
<1>3. /\ t \in States /\ t.hw = s.hw /\ t.irq = s.irq /\ t.owed = s.owed
      /\ t.moved = s.moved /\ t.last = s.last /\ t.inexact = s.inexact
      /\ \A e \in Dir \ {d} : t.job[e] = s.job[e]
      /\ t.job[d] = j
  BY <1>1, <1>2 DEF WithOwnJob, States
<1>4. \A e \in Dir \ {d} : DirInv(t, e)
  BY <1>3, SameKeeps DEF MidInv, Same
<1>5. MidInv(t, d)
  BY <1>3, <1>4 DEF MidInv, Connected
<1> QED
  BY <1>2, <1>3, <1>5

LEMMA TransInKeeps ==
    ASSUME NEW s, StateInv(s), s.hw["in"].trcpt
    PROVE  StateInv(TransInNext(Acknowledge(s, "in"), s.hw["in"].count))
<1>0. "in" \in Dir
  BY DEF Dir
<1>1. PICK a : a = Acknowledge(s, "in")
  OBVIOUS
<1>2. /\ MidInv(a, "in")
      /\ a.job = s.job /\ a.moved = s.moved /\ a.last = s.last
  BY <1>0, <1>1, AcknowledgeKeeps
<1>3. PICK j \in Jobs, h \in Banks, m \in Nat, l \in Nat :
         j = s.job["in"] /\ h = s.hw["in"] /\ m = s.moved["in"] /\ l = s.last["in"]
  BY <1>0, Parts DEF StateInv
<1>4. OwnInv(j, h, s.owed["in"], m, l, "in")
  BY <1>0, <1>3 DEF StateInv, DirInv
<1>5. Transfers(j) /\ Bank(j, h, m, l, "in") /\ ~h.ready /\ h.trcpt
  BY <1>3, <1>4 DEF OwnInv
<1>6. InBank(j, h, l) /\ m = j.nb + h.count /\ h.count = h.length /\ j.nb + h.length <= j.size
  BY <1>5 DEF Bank, InBank
<1>7. j.size \in Nat /\ j.nb \in Nat /\ h.count \in Nat /\ h.length \in Nat
  BY DEF Jobs, Banks
<1>8. PICK p \in Nat : p = j.nb + h.count /\ p = m /\ p <= j.size /\ p = j.nb + h.length
  BY <1>6, <1>7
<1>9. PICK k \in Jobs : k = [j EXCEPT !.nb = p]
  BY DEF Jobs
<1>10. /\ k.busy = j.busy /\ k.call = j.call /\ k.size = j.size /\ k.nb = p
       /\ k.short = j.short /\ k.wanted = j.wanted
  BY <1>9 DEF Jobs
<1>11. PICK t : t = WithOwnJob(a, "in", k)
  OBVIOUS
<1>12. Transfers(k)
  BY <1>5, <1>10 DEF Transfers
<1>13. /\ MidInv(t, "in")
       /\ t.job["in"] = k /\ t.moved["in"] = m /\ t.last["in"] = l
  BY <1>0, <1>2, <1>3, <1>11, <1>12, OwnJobKeeps
<1> DEFINE u == [a EXCEPT !.job["in"].nb = @ + s.hw["in"].count]
<1>14. t = u
  BY <1>2, <1>3, <1>8, <1>9, <1>11 DEF WithOwnJob
<1>15. TransInNext(a, s.hw["in"].count) =
         IF t.job["in"].nb # t.job["in"].size THEN SendNext(t, "in")
         ELSE IF t.job["in"].short
         THEN StartBank([t EXCEPT !.job["in"].short = FALSE], "in", 0)
         ELSE CallDone(t, "in")
  BY <1>14 DEF TransInNext
<1> HIDE DEF u
<1>16. CASE p # j.size
  <2>1. t.job["in"].nb < t.job["in"].size /\ t.moved["in"] = t.job["in"].nb
    <3>1. p < j.size
      BY <1>7, <1>8, <1>16
    <3>2. t.job["in"].nb = p /\ t.job["in"].size = j.size /\ t.moved["in"] = p
      BY <1>8, <1>10, <1>13
    <3> QED
      BY <3>1, <3>2
  <2>2. j.short = j.wanted
    <3>1. j.nb + h.length # j.size
      BY <1>8, <1>16
    <3> QED
      BY <1>6, <3>1 DEF InBank, Jobs
  <2>3. StateInv(SendNext(t, "in"))
    BY <1>10, <1>13, <2>1, <2>2, SendNextKeeps
  <2>4. t.job["in"].nb # t.job["in"].size
    BY <1>10, <1>13, <1>16
  <2> QED
    BY <1>1, <1>15, <2>3, <2>4
<1>17. CASE p = j.size /\ j.short
  <2>1. PICK q \in Jobs : q = [k EXCEPT !.short = FALSE]
    BY DEF Jobs
  <2>2. /\ q.busy = j.busy /\ q.call = j.call /\ q.size = p /\ q.nb = p
        /\ ~q.short /\ q.wanted
    <3>1. j.wanted
      BY <1>6, <1>17 DEF InBank
    <3> QED
      BY <1>10, <1>17, <2>1, <3>1 DEF Jobs
  <2>3. PICK z : z = WithOwnJob(t, "in", q)
    OBVIOUS
  <2>4. Transfers(q)
    BY <1>5, <2>2 DEF Transfers
  <2>5. /\ MidInv(z, "in") /\ z.job["in"] = q
        /\ z.moved["in"] = p /\ z.last["in"] = l
    BY <1>0, <1>8, <1>13, <2>3, <2>4, OwnJobKeeps
  <2>6. z = [t EXCEPT !.job["in"].short = FALSE]
    BY <1>13, <2>1, <2>3 DEF WithOwnJob
  <2>7. TransInNext(a, s.hw["in"].count) = StartBank(z, "in", 0)
    BY <1>10, <1>13, <1>15, <1>17, <2>6
  <2>8. PICK g : g = Armed(z.hw["in"], 0)
    OBVIOUS
  <2>9. g \in Banks /\ g.length = 0 /\ g.count = 0 /\ g.ready /\ ~g.trcpt
    <3>1. z.hw["in"] \in Banks /\ ~z.hw["in"].trcpt
      BY <1>0, <2>5, Parts DEF MidInv
    <3> QED
      BY <2>8, <3>1, BankWithJob
  <2>10. InBank(q, g, l)
    BY <2>2, <2>9, OnePacketWhole DEF InBank
  <2>11. Bank(z.job["in"], g, z.moved["in"], z.last["in"], "in")
    BY <2>2, <2>5, <2>9, <2>10 DEF Bank
  <2> QED
    BY <1>0, <1>1, <2>5, <2>7, <2>8, <2>11, Started
<1>18. CASE p = j.size /\ ~j.short
  <2>1. TransInNext(a, s.hw["in"].count) = CallDone(t, "in")
    BY <1>10, <1>13, <1>15, <1>18
  <2>2. j.wanted => l < EpSize
    BY <1>5, <1>6, <1>18 DEF InBank
  <2>3. ~j.wanted => l # 0
    BY <1>5, <1>6 DEF InBank
  <2>4. ~j.wanted => l > 0
    BY <2>3
  <2>5. ~(t.moved["in"] > k.size) /\ k.nb = t.moved["in"] /\ k.nb = k.size
    <3>1. ~(p > p)
      OBVIOUS
    <3>2. t.moved["in"] = p /\ k.nb = p /\ k.size = p
      BY <1>8, <1>10, <1>13, <1>18
    <3> QED
      BY <3>1, <3>2
  <2>6. Exact(t, "in")
    BY <1>10, <1>13, <2>2, <2>4, <2>5 DEF Exact
  <2> QED
    BY <1>0, <1>1, <1>13, <2>1, <2>6, CallDoneKeeps
<1> QED
  BY <1>16, <1>17, <1>18

LEMMA TransOutKeeps ==
    ASSUME NEW s, StateInv(s), s.hw["out"].trcpt
    PROVE  StateInv(TransOutNext(Acknowledge(s, "out"), s.hw["out"].count, s.hw["out"].length))
<1>0. "out" \in Dir
  BY DEF Dir
<1>1. PICK a : a = Acknowledge(s, "out")
  OBVIOUS
<1>2. /\ MidInv(a, "out")
      /\ a.job = s.job /\ a.moved = s.moved /\ a.last = s.last
  BY <1>0, <1>1, AcknowledgeKeeps
<1>3. PICK j \in Jobs, h \in Banks, m \in Nat, l \in Nat :
         j = s.job["out"] /\ h = s.hw["out"] /\ m = s.moved["out"] /\ l = s.last["out"]
  BY <1>0, Parts DEF StateInv
<1>4. OwnInv(j, h, s.owed["out"], m, l, "out")
  BY <1>0, <1>3 DEF StateInv, DirInv
<1>5. Transfers(j) /\ Bank(j, h, m, l, "out") /\ ~h.ready /\ h.trcpt
  BY <1>3, <1>4 DEF OwnInv
<1>6. OutBank(j, h, l) /\ m = j.nb + h.count /\ h.count <= h.length /\ j.nb <= j.size
  BY <1>5 DEF Bank
<1>7. j.size \in Nat /\ j.nb \in Nat /\ h.count \in Nat /\ h.length \in Nat
  BY DEF Jobs, Banks
<1>8. PICK p \in Nat : p = (IF m > j.size THEN j.size ELSE m)
  BY <1>7
<1>9. PICK k \in Jobs : k = [j EXCEPT !.nb = p]
  BY DEF Jobs
<1>10. /\ k.busy = j.busy /\ k.call = j.call /\ k.size = j.size /\ k.nb = p
       /\ k.cache = j.cache
  BY <1>9 DEF Jobs
<1>11. PICK t : t = WithOwnJob(a, "out", k)
  OBVIOUS
<1>12. Transfers(k)
  BY <1>5, <1>10 DEF Transfers
<1>13. /\ MidInv(t, "out")
       /\ t.job["out"] = k /\ t.moved["out"] = m /\ t.last["out"] = l
  BY <1>0, <1>2, <1>3, <1>11, <1>12, OwnJobKeeps
<1>14. t = [a EXCEPT !.job["out"].nb = p]
  BY <1>2, <1>3, <1>9, <1>11 DEF WithOwnJob
<1>15. TransOutNext(a, s.hw["out"].count, s.hw["out"].length) =
         IF h.count = h.length /\ t.job["out"].nb # t.job["out"].size
         THEN ReceiveNext(t, "out") ELSE CallDone(t, "out")
  BY <1>2, <1>3, <1>6, <1>8, <1>14 DEF TransOutNext
<1>16. CASE h.count = h.length /\ p # j.size
  <2>1. p = m /\ p < j.size /\ p = j.nb + h.length
    BY <1>6, <1>7, <1>8, <1>16
  <2>2. ~j.cache
    <3>1. ASSUME h.length = EpSize, j.nb + (j.size % EpSize) = j.size
          PROVE  FALSE
      BY <1>7, <2>1, <3>1, Division, EpSizePositive
    <3> QED
      BY <1>6, <3>1 DEF OutBank
  <2>3. Whole(p)
    <3>1. Whole(j.nb) /\ Whole(h.length)
      BY <1>6, <2>2 DEF OutBank
    <3> QED
      BY <1>7, <2>1, <3>1, WholeAndRest DEF Whole
  <2>4. StateInv(ReceiveNext(t, "out"))
    BY <1>10, <1>13, <2>1, <2>2, <2>3, ReceiveNextKeeps
  <2> QED
    BY <1>1, <1>10, <1>13, <1>15, <1>16, <2>4
<1>17. CASE ~(h.count = h.length /\ p # j.size)
  <2>1. TransOutNext(a, s.hw["out"].count, s.hw["out"].length) = CallDone(t, "out")
    BY <1>10, <1>13, <1>15, <1>17
  <2>2. p = j.size \/ l < EpSize
    BY <1>5, <1>6, <1>17 DEF OutBank
  <2>3. Exact(t, "out")
    BY <1>8, <1>10, <1>13, <2>2 DEF Exact
  <2> QED
    BY <1>0, <1>1, <1>13, <2>1, <2>3, CallDoneKeeps
<1> QED
  BY <1>16, <1>17

-----------------------------------------------------------------------------
(* The actions *)

LEMMA RunStep ==
    ASSUME IInv, NEW d \in Dir, NEW size \in Nat, NEW short \in BOOLEAN, Run(d, size, short)
    PROVE  IInv'
<1>1. PICK s : s = St
  OBVIOUS
<1>2. StateInv(s) /\ s.hw[d].type
  BY <1>1, StParts DEF IInv, Run, Configured, Dir
<1>3. StateInv(EpRun(s, d, size, short))
  BY <1>2, EpRunKeeps
<1> QED
  BY <1>1, <1>3, BecomesKeeps DEF Run

(* A halt registered to wait for is no transfer. *)
LEMMA WaitStep ==
    ASSUME IInv, NEW d \in Dir, WaitStallClear(d)
    PROVE  IInv'
<1>1. /\ St \in States /\ OwnInv(job[d], hw[d], owed[d], moved[d], last[d], d)
      /\ job \in [Dir -> Jobs] /\ hw \in [Dir -> Banks] /\ owed \in [Dir -> Int]
      /\ moved \in [Dir -> Nat] /\ last \in [Dir -> Nat] /\ bogus \in BOOLEAN
  BY StParts DEF DirInv, States
<1>2. PICK j \in Jobs : j = [job[d] EXCEPT !.busy = TRUE, !.call = "nohalt"]
  BY <1>1, ZenonT(60) DEF Jobs
<1>3. j.call = "nohalt"
  BY <1>1, <1>2 DEF Jobs
<1>4. ~job[d].busy /\ hw[d].type
  BY DEF WaitStallClear, Configured, Dir
<1>5. OwnInv(j, hw[d], owed[d], moved[d], last[d], d)
  BY <1>1, <1>3, <1>4 DEF OwnInv, Transfers
<1>6. /\ job' = [job EXCEPT ![d] = j] /\ hw' = [hw EXCEPT ![d] = hw[d]]
      /\ owed' = [owed EXCEPT ![d] = owed[d]] /\ moved' = [moved EXCEPT ![d] = moved[d]]
      /\ last' = [last EXCEPT ![d] = last[d]]
      /\ irq' = irq /\ bogus' = bogus /\ inexact' = inexact
  BY <1>1, <1>2 DEF WaitStallClear
<1> QED
  BY <1>1, <1>5, <1>6, OneDirection

(* A direction without a transfer, whatever its halt. *)
LEMMA SilentDirection ==
    ASSUME NEW s, StateInv(s), NEW d \in Dir, NEW t \in States, Rest(s, t, d),
           t.inexact = s.inexact, ~Transfers(t.job[d]), t.owed[d] = 0,
           ~t.hw[d].ready, ~t.hw[d].trcpt, t.hw[d].type = s.hw[d].type,
           t.hw[d].inten = s.hw[d].inten, s.hw[d].type
    PROVE  StateInv(t)
<1>1. \A e \in Dir \ {d} : DirInv(t, e)
  BY SameKeeps DEF Rest, StateInv
<1>2. DirInv(t, d)
  <2>1. Connected(s, d)
    BY DEF StateInv, DirInv
  <2>2. Connected(t, d)
    BY <2>1 DEF Connected, Rest
  <2>3. OwnInv(t.job[d], t.hw[d], t.owed[d], t.moved[d], t.last[d], d)
    BY DEF OwnInv, Transfers
  <2> QED
    BY <2>2, <2>3 DEF DirInv
<1>3. t.hw["in"].type = t.hw["out"].type
  <2>1. \A e \in Dir : t.hw[e].type = s.hw[e].type
    BY DEF Rest, Same
  <2> QED
    BY <2>1 DEF StateInv, Dir
<1> QED
  BY <1>1, <1>2, <1>3 DEF StateInv

LEMMA AbortKeeps ==
    ASSUME NEW s, StateInv(s), NEW d \in Dir, s.hw[d].type
    PROVE  /\ StateInv(EpAbort(s, d))
           /\ ~EpAbort(s, d).job[d].busy
           /\ EpAbort(s, d).hw[d].type
<1>1. s \in States /\ s.owed[d] = IF Transfers(s.job[d]) THEN 1 ELSE 0
  BY DEF StateInv, DirInv, OwnInv
<1>2. PICK t : t = EpAbort(s, d)
  OBVIOUS
<1>3. /\ t \in States
      /\ Rest(s, t, d) /\ t.inexact = s.inexact
      /\ ~t.job[d].busy /\ t.owed[d] = 0
      /\ ~t.hw[d].ready /\ ~t.hw[d].trcpt
      /\ t.hw[d].type = s.hw[d].type /\ t.hw[d].inten = s.hw[d].inten
  BY <1>1, <1>2, AbortSets
<1>4. ~Transfers(t.job[d])
  BY <1>3 DEF Transfers
<1>5. StateInv(t)
  BY <1>3, <1>4, SilentDirection
<1> QED
  BY <1>2, <1>3, <1>5

LEMMA SetHaltStep ==
    ASSUME IInv, NEW d \in Dir, SetHalt(d)
    PROVE  IInv'
<1>1. PICK s : s = St
  OBVIOUS
<1>2. StateInv(s) /\ s.hw[d].type
  BY <1>1, StParts DEF IInv, SetHalt, Configured, Dir
<1>3. PICK a : a = EpAbort(s, d)
  OBVIOUS
<1>4. StateInv(a) /\ ~a.job[d].busy /\ a.hw[d].type /\ a \in States
  BY <1>2, <1>3, AbortKeeps DEF StateInv
<1>5. DirInv(a, d) /\ a.hw[d] \in Banks
  BY <1>4, Parts DEF StateInv
<1>6. PICK h : h = [a.hw[d] EXCEPT !.stallrq = TRUE]
  OBVIOUS
<1>7. /\ h \in Banks /\ h.type = a.hw[d].type /\ h.inten = a.hw[d].inten
      /\ h.ready = a.hw[d].ready /\ h.trcpt = a.hw[d].trcpt
  BY <1>5, <1>6 DEF Banks
<1>8. PICK t : t = WithBank(a, d, h)
  OBVIOUS
<1>9. /\ t \in States /\ t.job = a.job /\ t.owed = a.owed /\ t.moved = a.moved
      /\ t.last = a.last /\ t.irq = a.irq /\ t.inexact = a.inexact /\ t.hw[d] = h
      /\ \A e \in Dir \ {d} : t.hw[e] = a.hw[e]
  BY <1>4, <1>7, <1>8, SetBank
<1>10. ~Transfers(a.job[d])
  BY <1>4 DEF Transfers
<1>11. a.owed[d] = 0 /\ ~a.hw[d].ready /\ ~a.hw[d].trcpt
  BY <1>5, <1>10 DEF DirInv, OwnInv
<1>12. Rest(a, t, d)
  BY <1>9 DEF Rest, Same
<1>13. StateInv(t)
  BY <1>4, <1>7, <1>9, <1>10, <1>11, <1>12, SilentDirection
<1>14. StateInv(EpAbort(t, d))
  BY <1>4, <1>7, <1>9, <1>13, AbortKeeps
<1>15. Becomes(EpAbort(t, d))
  BY <1>1, <1>3, <1>6, <1>8 DEF SetHalt, WithBank
<1> QED
  BY <1>14, <1>15, BecomesKeeps

(* Only halts that there are get cleared, and a halted endpoint has no     *)
(* transfer.                                                               *)
LEMMA ClearHaltStep ==
    ASSUME IInv, ~ClearsUnhalted, NEW d \in Dir, ClearHalt(d)
    PROVE  IInv'
<1>1. PICK s \in States : s = St
  BY StParts
<1>2. StateInv(s) /\ s.hw[d].type /\ s.hw[d].stallrq /\ DirInv(s, d) /\ s.hw[d] \in Banks
  BY <1>1, StParts, Parts DEF IInv, ClearHalt, Configured, Dir
<1>3. ~Transfers(s.job[d]) /\ s.owed[d] = 0 /\ ~s.hw[d].ready /\ ~s.hw[d].trcpt
  BY <1>2 DEF DirInv, OwnInv
<1>4. PICK h \in Banks : /\ WithBank(s, d, h) = ClearStall(s, d)
                         /\ h.type = s.hw[d].type /\ h.inten = s.hw[d].inten
                         /\ h.ready = s.hw[d].ready /\ h.trcpt = s.hw[d].trcpt
  <2>1. CASE s.hw[d].stall
    <3>1. PICK h : h = [s.hw[d] EXCEPT !.stallrq = FALSE, !.stall = FALSE, !.toggle = 0]
      OBVIOUS
    <3>2. /\ h \in Banks /\ h.type = s.hw[d].type /\ h.inten = s.hw[d].inten
          /\ h.ready = s.hw[d].ready /\ h.trcpt = s.hw[d].trcpt
      BY <1>2, <3>1 DEF Banks
    <3>3. WithBank(s, d, h) = ClearStall(s, d)
      BY <1>2, <2>1, <3>1 DEF ClearStall, WithBank, States
    <3> QED
      BY <3>2, <3>3
  <2>2. CASE ~s.hw[d].stall
    <3>1. PICK h : h = [s.hw[d] EXCEPT !.stallrq = FALSE]
      OBVIOUS
    <3>2. /\ h \in Banks /\ h.type = s.hw[d].type /\ h.inten = s.hw[d].inten
          /\ h.ready = s.hw[d].ready /\ h.trcpt = s.hw[d].trcpt
      BY <1>2, <3>1 DEF Banks
    <3>3. WithBank(s, d, h) = ClearStall(s, d)
      BY <1>2, <2>2, <3>1 DEF ClearStall, WithBank, States
    <3> QED
      BY <3>2, <3>3
  <2> QED
    BY <2>1, <2>2
<1>5. PICK u : u = ClearStall(s, d)
  OBVIOUS
<1>6. /\ u \in States /\ u.job = s.job /\ u.owed = s.owed /\ u.moved = s.moved
      /\ u.last = s.last /\ u.irq = s.irq /\ u.inexact = s.inexact /\ u.hw[d] = h
      /\ \A e \in Dir \ {d} : u.hw[e] = s.hw[e]
  BY <1>4, <1>5, SetBank
<1>7. PICK t : t = Idle(u, d)
  OBVIOUS
<1>8. /\ t \in States
      /\ Rest(u, t, d) /\ t.inexact = u.inexact
      /\ t.hw = u.hw /\ ~t.job[d].busy /\ t.owed[d] = u.owed[d]
  BY <1>6, <1>7, IdleSets
<1>9. Rest(s, t, d) /\ ~Transfers(t.job[d])
  BY <1>6, <1>8 DEF Rest, Same, Transfers
<1>10. StateInv(t)
  BY <1>2, <1>3, <1>4, <1>6, <1>8, <1>9, SilentDirection, ZenonT(60)
<1>11. Becomes(t)
  BY <1>1, <1>3, <1>5, <1>6, <1>7 DEF ClearHalt
<1> QED
  BY <1>10, <1>11, BecomesKeeps

(* udd_ep_free: neither direction has a type any more, and the other may   *)
(* still have its transfer.                                                *)
LEMMA FreeSets ==
    ASSUME NEW s \in States, NEW d \in Dir,
           s.owed[d] = IF Transfers(s.job[d]) THEN 1 ELSE 0
    PROVE  LET t == EpFree(s, d) IN
           /\ t \in States /\ t.inexact = s.inexact
           /\ ~t.job[d].busy /\ t.owed[d] = 0 /\ ~t.hw[d].ready /\ ~t.hw[d].trcpt
           /\ \A e \in Dir : ~t.hw[e].type
           /\ \A e \in Dir \ {d} :
                 /\ t.job[e] = s.job[e] /\ t.owed[e] = s.owed[e]
                 /\ t.hw[e].ready = s.hw[e].ready /\ t.hw[e].trcpt = s.hw[e].trcpt
<1>1. PICK a : a = EpAbort(s, d)
  OBVIOUS
<1>2. /\ a \in States /\ Rest(s, a, d) /\ a.inexact = s.inexact
      /\ ~a.job[d].busy /\ a.owed[d] = 0
      /\ ~a.hw[d].ready /\ ~a.hw[d].trcpt
  BY <1>1, AbortSets
<1>3. PICK o \in Dir : o = OtherDir(d) /\ o # d /\ Dir = {d, o}
  BY OneOther
<1>4. PICK t : t = [a EXCEPT !.hw[d].type = FALSE, !.hw[o].type = FALSE,
                             !.hw[d].inten = FALSE,
                             !.irq.registered = FALSE, !.irq.enabled = FALSE]
  OBVIOUS
<1>5. t = EpFree(s, d)
  BY <1>1, <1>3, <1>4 DEF EpFree
<1>6. /\ t.job = a.job /\ t.owed = a.owed /\ t.inexact = a.inexact
      /\ t.moved = a.moved /\ t.last = a.last /\ t.bogus = a.bogus
  BY <1>2, <1>4 DEF States
<1>7. t.irq = [registered |-> FALSE, enabled |-> FALSE]
  BY <1>2, <1>4 DEF States
<1>8. PICK g, h : /\ g = [a.hw[d] EXCEPT !.type = FALSE, !.inten = FALSE]
                  /\ h = [a.hw[o] EXCEPT !.type = FALSE]
  OBVIOUS
<1>9. /\ g \in Banks /\ ~g.type /\ ~g.ready /\ ~g.trcpt
      /\ h \in Banks /\ ~h.type /\ h.ready = a.hw[o].ready /\ h.trcpt = a.hw[o].trcpt
  <2>1. a.hw[d] \in Banks /\ a.hw[o] \in Banks
    BY <1>2, Parts
  <2> QED
    BY <1>2, <1>8, <2>1 DEF Banks
<1>10. a.hw \in [Dir -> Banks]
  BY <1>2 DEF States
<1>11. t.hw = [[[a.hw EXCEPT ![d] = [a.hw[d] EXCEPT !.type = FALSE]]
                     EXCEPT ![o] = h]
                     EXCEPT ![d] = g]
  <2>1. a = [job |-> a.job, hw |-> a.hw, irq |-> a.irq, owed |-> a.owed, bogus |-> a.bogus,
             moved |-> a.moved, last |-> a.last, inexact |-> a.inexact]
    BY <1>2 DEF States
  <2> QED
    BY <1>3, <1>4, <1>8, <1>10, <2>1
<1>12. t.hw \in [Dir -> Banks] /\ t.hw[d] = g /\ t.hw[o] = h
  <2>1. [a.hw[d] EXCEPT !.type = FALSE] \in Banks
    <3>1. a.hw[d] \in Banks
      BY <1>2, Parts
    <3> QED
      BY <3>1 DEF Banks
  <2> QED
    BY <1>3, <1>9, <1>10, <1>11, <2>1
<1>13. DOMAIN t = {"job", "hw", "irq", "owed", "bogus", "moved", "last", "inexact"}
       /\ t = [job |-> t.job, hw |-> t.hw, irq |-> t.irq, owed |-> t.owed, bogus |-> t.bogus,
               moved |-> t.moved, last |-> t.last, inexact |-> t.inexact]
  BY <1>2, <1>4 DEF States
<1>14. t \in States
  <2>1. /\ t.job \in [Dir -> Jobs] /\ t.owed \in [Dir -> Int] /\ t.bogus \in BOOLEAN
        /\ t.moved \in [Dir -> Nat] /\ t.last \in [Dir -> Nat] /\ t.inexact \in BOOLEAN
    BY <1>2, <1>6 DEF States
  <2>2. t.irq \in [registered : BOOLEAN, enabled : BOOLEAN]
    BY <1>7
  <2>3. PICK x1, x2, x3, x4, x5, x6, x7, x8 :
           /\ x1 = t.job /\ x2 = t.hw /\ x3 = t.irq /\ x4 = t.owed /\ x5 = t.bogus
           /\ x6 = t.moved /\ x7 = t.last /\ x8 = t.inexact
    OBVIOUS
  <2>4. t = [job |-> x1, hw |-> x2, irq |-> x3, owed |-> x4, bogus |-> x5,
             moved |-> x6, last |-> x7, inexact |-> x8]
    BY <1>13, <2>3
  <2> QED
    BY <1>12, <2>1, <2>2, <2>3, <2>4 DEF States
<1> QED
  BY <1>2, <1>3, <1>5, <1>6, <1>9, <1>12, <1>14 DEF Rest, Same

(* The endpoints of an interface are freed in turn. *)
LEMMA DisableStep ==
    ASSUME IInv, Disable
    PROVE  IInv'
<1>0. "in" \in Dir /\ "out" \in Dir /\ "in" \in Dir \ {"out"} /\ "out" \in Dir \ {"in"}
  BY DEF Dir
<1>1. PICK s \in States : s = St
  BY StParts
<1>2. StateInv(s)
  BY <1>1 DEF IInv
<1>3. \A d \in Dir : s.owed[d] = IF Transfers(s.job[d]) THEN 1 ELSE 0
  BY <1>2 DEF StateInv, DirInv, OwnInv
<1>4. PICK b : b = EpFree(s, "in")
  OBVIOUS
<1>5. /\ b \in States /\ b.inexact = s.inexact
      /\ ~b.job["in"].busy /\ b.owed["in"] = 0 /\ ~b.hw["in"].ready /\ ~b.hw["in"].trcpt
      /\ b.job["out"] = s.job["out"] /\ b.owed["out"] = s.owed["out"]
  BY <1>0, <1>3, <1>4, FreeSets
<1>6. b.owed["out"] = IF Transfers(b.job["out"]) THEN 1 ELSE 0
  BY <1>0, <1>3, <1>5
<1>7. PICK t : t = EpFree(b, "out")
  OBVIOUS
<1>8. /\ t \in States /\ t.inexact = b.inexact
      /\ ~t.job["out"].busy /\ t.owed["out"] = 0 /\ ~t.hw["out"].ready /\ ~t.hw["out"].trcpt
      /\ ~t.hw["in"].type /\ ~t.hw["out"].type
      /\ t.job["in"] = b.job["in"] /\ t.owed["in"] = b.owed["in"]
      /\ t.hw["in"].ready = b.hw["in"].ready /\ t.hw["in"].trcpt = b.hw["in"].trcpt
  BY <1>0, <1>5, <1>6, <1>7, FreeSets
<1>9. \A d \in Dir : /\ ~t.job[d].busy /\ t.owed[d] = 0 /\ ~t.hw[d].type
                      /\ ~t.hw[d].ready /\ ~t.hw[d].trcpt
  BY <1>5, <1>8 DEF Dir
<1>10. \A d \in Dir : DirInv(t, d)
  BY <1>9 DEF DirInv, OwnInv, Transfers
<1>11. t.hw["in"].type = t.hw["out"].type
  <2>1. t.hw["in"] \in Banks /\ t.hw["out"] \in Banks
    BY <1>0, <1>8, Parts
  <2> QED
    BY <1>8, <2>1 DEF Banks
<1>12. StateInv(t)
  BY <1>2, <1>5, <1>8, <1>10, <1>11 DEF StateInv
<1>13. Becomes(t)
  BY <1>1, <1>4, <1>7 DEF Disable
<1> QED
  BY <1>12, <1>13, BecomesKeeps

LEMMA AllocSets ==
    ASSUME NEW s \in States, NEW d \in Dir
    PROVE  LET t == EpAlloc(s, d) IN
           /\ t \in States
           /\ t.job = s.job /\ t.owed = s.owed /\ t.inexact = s.inexact
           /\ t.irq.registered /\ t.irq.enabled
           /\ t.hw[d].type /\ t.hw[d].inten /\ ~t.hw[d].ready
           /\ t.hw[d].trcpt = s.hw[d].trcpt
           /\ \A e \in Dir \ {d} : t.hw[e] = s.hw[e]
<1>1. s.hw[d] \in Banks
  BY Parts
<1>2. PICK h : h = [s.hw[d] EXCEPT !.type = TRUE, !.inten = TRUE, !.ready = FALSE]
  OBVIOUS
<1>3. /\ h \in Banks /\ h.type /\ h.inten /\ ~h.ready /\ h.trcpt = s.hw[d].trcpt
  BY <1>1, <1>2 DEF Banks
<1>4. PICK u : u = WithBank(s, d, h)
  OBVIOUS
<1>5. /\ u \in States /\ u.job = s.job /\ u.owed = s.owed /\ u.inexact = s.inexact
      /\ u.hw[d] = h /\ \A e \in Dir \ {d} : u.hw[e] = s.hw[e]
  BY <1>3, <1>4, SetBank
<1>6. PICK v : v = [s EXCEPT !.hw[d].type = TRUE, !.hw[d].inten = TRUE, !.hw[d].ready = FALSE]
  OBVIOUS
<1>7. v = u
  BY <1>2, <1>4, <1>6, ZenonT(60) DEF WithBank, States
<1>8. PICK t : t = [v EXCEPT !.irq.registered = TRUE, !.irq.enabled = TRUE]
  OBVIOUS
<1>9. t = EpAlloc(s, d)
  BY <1>6, <1>8 DEF EpAlloc
<1>10. /\ t \in States /\ t.job = u.job /\ t.owed = u.owed /\ t.inexact = u.inexact
       /\ t.hw = u.hw /\ t.irq.registered /\ t.irq.enabled
  BY <1>5, <1>7, <1>8 DEF States
<1> QED
  BY <1>3, <1>5, <1>9, <1>10

LEMMA EnableStep ==
    ASSUME IInv, Enable
    PROVE  IInv'
<1>0. "in" \in Dir /\ "out" \in Dir /\ "in" \in Dir \ {"out"} /\ "out" \in Dir \ {"in"}
  BY DEF Dir
<1>1. PICK s \in States : s = St
  BY StParts
<1>2. StateInv(s) /\ s.hw = hw /\ ~s.inexact
  BY <1>1, StParts DEF IInv, StateInv
<1>3. \A d \in Dir : ~s.hw[d].type /\ DirInv(s, d)
  BY <1>2 DEF StateInv, Enable, Configured, Dir
<1>4. \A d \in Dir : ~s.job[d].busy /\ s.owed[d] = 0 /\ ~s.hw[d].ready /\ ~s.hw[d].trcpt
  BY <1>3 DEF DirInv, OwnInv, Transfers
<1>5. PICK a : a = EpAlloc(s, "in")
  OBVIOUS
<1>6. /\ a \in States
      /\ a.job = s.job /\ a.owed = s.owed /\ a.inexact = s.inexact
      /\ a.hw["in"].type /\ a.hw["in"].inten /\ ~a.hw["in"].ready
      /\ a.hw["in"].trcpt = s.hw["in"].trcpt /\ a.hw["out"] = s.hw["out"]
  BY <1>0, <1>5, AllocSets
<1>7. PICK t : t = EpAlloc(a, "out")
  OBVIOUS
<1>8. /\ t \in States
      /\ t.job = a.job /\ t.owed = a.owed /\ t.inexact = a.inexact
      /\ t.irq.registered /\ t.irq.enabled
      /\ t.hw["out"].type /\ t.hw["out"].inten /\ ~t.hw["out"].ready
      /\ t.hw["out"].trcpt = a.hw["out"].trcpt /\ t.hw["in"] = a.hw["in"]
  BY <1>0, <1>6, <1>7, AllocSets, SMTT(60)
<1>9. \A d \in Dir : /\ ~t.job[d].busy /\ t.owed[d] = 0 /\ t.hw[d].type /\ t.hw[d].inten
                      /\ ~t.hw[d].ready /\ ~t.hw[d].trcpt
  BY <1>0, <1>4, <1>6, <1>8 DEF Dir
<1>10. \A d \in Dir : DirInv(t, d)
  BY <1>8, <1>9 DEF DirInv, OwnInv, Transfers, Connected
<1>11. t.hw["in"].type = t.hw["out"].type
  <2>1. t.hw["in"] \in Banks /\ t.hw["out"] \in Banks
    BY <1>0, <1>8, Parts
  <2> QED
    BY <1>0, <1>9, <2>1 DEF Banks
<1>12. StateInv(t)
  BY <1>2, <1>6, <1>8, <1>10, <1>11 DEF StateInv
<1>13. Becomes(t)
  BY <1>1, <1>5, <1>7 DEF Enable
<1> QED
  BY <1>12, <1>13, BecomesKeeps

(* What a step of the bus or an interrupt sees of a direction. *)
LEMMA OwnParts ==
    ASSUME IInv, NEW d \in Dir
    PROVE  /\ job[d] \in Jobs /\ hw[d] \in Banks /\ owed[d] \in Int
           /\ moved[d] \in Nat /\ last[d] \in Nat /\ bogus \in BOOLEAN
           /\ OwnInv(job[d], hw[d], owed[d], moved[d], last[d], d)
           /\ job = [job EXCEPT ![d] = job[d]] /\ owed = [owed EXCEPT ![d] = owed[d]]
           /\ moved = [moved EXCEPT ![d] = moved[d]] /\ last = [last EXCEPT ![d] = last[d]]
  BY StParts DEF DirInv, States

(* A bank that changes in no field a transfer depends on. *)
SameBank(d, g) ==
    /\ hw' = [hw EXCEPT ![d] = g]
    /\ UNCHANGED <<job, irq, owed, bogus, moved, last, inexact>>
    /\ g.type = hw[d].type /\ g.inten = hw[d].inten /\ g.stallrq = hw[d].stallrq
    /\ g.ready = hw[d].ready /\ g.trcpt = hw[d].trcpt
    /\ g.length = hw[d].length /\ g.count = hw[d].count

LEMMA SameBankStep ==
    ASSUME IInv, NEW d \in Dir, NEW g \in Banks, SameBank(d, g)
    PROVE  IInv'
<1>1. PICK j \in Jobs, o \in Int, m \in Nat, l \in Nat :
         j = job[d] /\ o = owed[d] /\ m = moved[d] /\ l = last[d]
  BY OwnParts
<1>2. job' = [job EXCEPT ![d] = j] /\ owed' = [owed EXCEPT ![d] = o]
  BY <1>1, OwnParts DEF SameBank
<1>3. moved' = [moved EXCEPT ![d] = m] /\ last' = [last EXCEPT ![d] = l]
  BY <1>1, OwnParts DEF SameBank
<1>4. irq' = irq /\ bogus' \in BOOLEAN /\ inexact' = inexact
  BY OwnParts DEF SameBank
<1>5. OwnInv(j, g, o, m, l, d)
  BY <1>1, OwnParts DEF SameBank, OwnInv, Bank, InBank, OutBank
<1>6. hw' = [hw EXCEPT ![d] = g] /\ g.type = hw[d].type /\ g.inten = hw[d].inten
  BY DEF SameBank
<1> QED
  BY <1>2, <1>3, <1>4, <1>5, <1>6, OneDirection

(* The STALL flag matters to no transfer. *)
LEMMA StallFlagStep ==
    ASSUME IInv, NEW d \in Dir, NEW f \in BOOLEAN,
           hw' = [hw EXCEPT ![d].stall = f],
           UNCHANGED <<job, irq, owed, bogus, moved, last, inexact>>
    PROVE  IInv'
<1>1. PICK g : g = [hw[d] EXCEPT !.stall = f]
  OBVIOUS
<1>2. /\ g \in Banks /\ g.type = hw[d].type /\ g.inten = hw[d].inten
      /\ g.stallrq = hw[d].stallrq /\ g.ready = hw[d].ready /\ g.trcpt = hw[d].trcpt
      /\ g.length = hw[d].length /\ g.count = hw[d].count
  BY <1>1, OwnParts DEF Banks
<1>3. hw' = [hw EXCEPT ![d] = g]
  BY <1>1
<1> QED
  BY <1>2, <1>3, SameBankStep DEF SameBank

LEMMA TransferInterruptStep ==
    ASSUME IInv, NEW d \in Dir, TransferInterrupt(d)
    PROVE  IInv'
<1>1. PICK s \in States : s = St
  BY StParts
<1>2. /\ StateInv(s) /\ s.hw = hw /\ s.irq = irq /\ s.hw[d].trcpt /\ DirInv(s, d)
  BY <1>1, StParts DEF IInv, TransferInterrupt
<1>3. irq.registered /\ irq.enabled
  BY <1>2 DEF DirInv, OwnInv, Connected
<1>4. CASE d = "in"
  <2>1. Becomes(TransInNext(Acknowledge(s, "in"), s.hw["in"].count))
    BY <1>1, <1>2, <1>3, <1>4 DEF TransferInterrupt
  <2> QED
    BY <1>2, <1>4, <2>1, TransInKeeps, BecomesKeeps
<1>5. CASE d = "out"
  <2>1. Becomes(TransOutNext(Acknowledge(s, "out"), s.hw["out"].count, s.hw["out"].length))
    BY <1>1, <1>2, <1>3, <1>5 DEF TransferInterrupt
  <2> QED
    BY <1>2, <1>5, <2>1, TransOutKeeps, BecomesKeeps
<1> QED
  BY <1>4, <1>5 DEF Dir

LEMMA HostOutStep ==
    ASSUME IInv, NEW n \in 0 .. EpSize, HostOut(n)
    PROVE  IInv'
<1>0. "out" \in Dir /\ n \in Nat /\ n <= EpSize
  BY EpSizePositive DEF Dir
<1>1. PICK h \in Banks, j \in Jobs, m \in Nat, l \in Nat :
         h = hw["out"] /\ j = job["out"] /\ m = moved["out"] /\ l = last["out"]
  BY <1>0, OwnParts
<1>2. h.ready /\ h.type /\ ~h.stallrq /\ h.count + n <= h.length
  BY <1>1 DEF HostOut
<1>3. OwnInv(j, h, owed["out"], m, l, "out")
  BY <1>0, <1>1, OwnParts
<1>4. /\ Transfers(j) /\ Bank(j, h, m, l, "out") /\ ~h.trcpt /\ owed["out"] = 1
  BY <1>2, <1>3 DEF OwnInv
<1>5. h.count \in Nat /\ h.length \in Nat /\ h.toggle \in {0, 1}
  BY DEF Banks
<1>6. PICK c \in Nat, p \in Nat, x \in {0, 1} : c = h.count + n /\ p = m + n /\ x = 1 - h.toggle
  BY <1>0, <1>5
<1>7. PICK done \in BOOLEAN : done = (n < EpSize \/ c = h.length)
  OBVIOUS
<1>8. PICK g : g = [h EXCEPT !.count = c, !.ready = ~done, !.trcpt = done, !.toggle = x]
  OBVIOUS
<1>9. /\ g \in Banks /\ g.type = h.type /\ g.inten = h.inten /\ g.stallrq = h.stallrq
      /\ g.length = h.length /\ g.count = c /\ g.ready = ~done /\ g.trcpt = done
  BY <1>6, <1>7, <1>8 DEF Banks
<1>10. /\ hw' = [hw EXCEPT !["out"] = g]
       /\ moved' = [moved EXCEPT !["out"] = p] /\ last' = [last EXCEPT !["out"] = n]
       /\ job' = job /\ irq' = irq /\ owed' = owed /\ bogus' = bogus /\ inexact' = inexact
  <2>1. Flipped([h EXCEPT !.count = c, !.ready = ~done, !.trcpt = done]) = g
    BY <1>6, <1>8 DEF Flipped, Banks
  <2> QED
    BY <1>1, <1>6, <1>7, <2>1 DEF HostOut
<1>11. OutBank(j, g, n)
  <2>1. g.trcpt /\ g.count # g.length => n < EpSize
    BY <1>7, <1>9
  <2>2. OutBank(j, h, l)
    BY <1>4 DEF Bank
  <2> QED
    BY <1>9, <2>1, <2>2 DEF OutBank
<1>12. Bank(j, g, p, n, "out")
  <2>1. m = j.nb + h.count /\ j.nb <= j.size /\ j.nb \in Nat
    BY <1>4 DEF Bank, Jobs
  <2>2. p = j.nb + c /\ c <= h.length
    BY <1>0, <1>2, <1>5, <1>6, <2>1
  <2> QED
    BY <1>9, <1>11, <2>1, <2>2 DEF Bank
<1>13. OwnInv(j, g, owed["out"], p, n, "out")
  BY <1>2, <1>4, <1>9, <1>12 DEF OwnInv
<1> QED
  <2>1. /\ job' = [job EXCEPT !["out"] = j] /\ owed' = [owed EXCEPT !["out"] = owed["out"]]
        /\ bogus' \in BOOLEAN
    BY <1>0, <1>1, <1>10, OwnParts
  <2>2. PICK o \in Int : o = owed["out"]
    BY <1>0, OwnParts
  <2> QED
    BY <1>0, <1>1, <1>6, <1>9, <1>10, <1>13, <2>1, <2>2, OneDirection

LEMMA HostInStep ==
    ASSUME IInv, HostIn
    PROVE  IInv'
<1>0. "in" \in Dir
  BY DEF Dir
<1>1. PICK h \in Banks, j \in Jobs, m \in Nat, l \in Nat :
         h = hw["in"] /\ j = job["in"] /\ m = moved["in"] /\ l = last["in"]
  BY <1>0, OwnParts
<1>2. h.ready /\ h.type /\ ~h.stallrq
  BY <1>1 DEF HostIn
<1>3. OwnInv(j, h, owed["in"], m, l, "in")
  BY <1>0, <1>1, OwnParts
<1>4. /\ Transfers(j) /\ Bank(j, h, m, l, "in") /\ ~h.trcpt /\ owed["in"] = 1
  BY <1>2, <1>3 DEF OwnInv
<1>5. h.count \in Nat /\ h.length \in Nat /\ h.toggle \in {0, 1} /\ h.count <= h.length
  BY <1>4 DEF Banks, Bank
<1>6. PICK rest \in Nat : rest = h.length - h.count /\ h.length = h.count + rest
  BY <1>5
<1>7. PICK n \in Nat : n = IF rest < EpSize THEN rest ELSE EpSize
  BY EpSizePositive
<1>8. PICK c \in Nat, p \in Nat, x \in {0, 1} : c = h.count + n /\ p = m + n /\ x = 1 - h.toggle
  BY <1>5
<1>9. PICK done \in BOOLEAN : done = (n = rest)
  OBVIOUS
<1>10. PICK g : g = [h EXCEPT !.count = c, !.ready = ~done, !.trcpt = done, !.toggle = x]
  OBVIOUS
<1>11. /\ g \in Banks /\ g.type = h.type /\ g.inten = h.inten /\ g.stallrq = h.stallrq
       /\ g.length = h.length /\ g.count = c /\ g.ready = ~done /\ g.trcpt = done
  BY <1>8, <1>9, <1>10 DEF Banks
<1>12. /\ hw' = [hw EXCEPT !["in"] = g]
       /\ moved' = [moved EXCEPT !["in"] = p] /\ last' = [last EXCEPT !["in"] = n]
       /\ job' = job /\ irq' = irq /\ owed' = owed /\ bogus' = bogus /\ inexact' = inexact
  <2>1. Flipped([h EXCEPT !.count = c, !.ready = ~done, !.trcpt = done]) = g
    BY <1>8, <1>10 DEF Flipped, Banks
  <2> QED
    BY <1>1, <1>6, <1>7, <1>8, <1>9, <2>1 DEF HostIn
<1>13. InBank(j, h, l) /\ Whole(h.count) /\ (h.length # 0 => h.count < h.length)
  BY <1>2, <1>4 DEF Bank, InBank
<1>14. ~done => Whole(c) /\ c < h.length
  <2> SUFFICES ASSUME ~done
               PROVE  Whole(c) /\ c < h.length
    OBVIOUS
  <2>1. n = EpSize /\ EpSize < rest
    <3>1. n # rest
      BY <1>9
    <3> QED
      BY <1>7, <3>1, EpSizePositive
  <2>2. Whole(c)
    BY <1>5, <1>8, <1>13, <2>1, WholeAndRest, OnePacketWhole, EpSizePositive DEF Whole
  <2> QED
    BY <1>5, <1>6, <1>8, <2>1, <2>2, EpSizePositive
<1>15. done => c = h.length /\ (h.length # 0 => n # 0)
  <2>1. h.length # 0 => rest # 0
    BY <1>5, <1>6, <1>13
  <2> QED
    BY <1>6, <1>8, <1>9, <2>1
<1>16. ASSUME done, h.length = 0 \/ ~Whole(h.length)
       PROVE  n < EpSize
  <2>1. CASE h.length = 0
    BY <1>5, <1>6, <1>7, <2>1, EpSizePositive
  <2>2. CASE ~Whole(h.length)
    <3>1. ASSUME n = EpSize
          PROVE  FALSE
      <4>1. h.length = h.count + EpSize
        <5>1. n = rest
          BY <1>9, <1>16
        <5> QED
          BY <1>6, <3>1, <5>1
      <4>2. Whole(h.length)
        <5>1. (h.count + EpSize) % EpSize = EpSize % EpSize
          BY <1>5, <1>13, WholeAndRest, EpSizePositive
        <5> QED
          BY <4>1, <5>1, OnePacketWhole DEF Whole
      <4> QED
        BY <2>2, <4>2
    <3> QED
      BY <1>7, <3>1, EpSizePositive
  <2> QED
    BY <1>16, <2>1, <2>2
<1>17. InBank(j, g, n)
  <2>1. g.ready => Whole(g.count) /\ (g.length # 0 => g.count < g.length)
    BY <1>11, <1>14
  <2>2. g.trcpt => g.count = g.length /\ (g.length # 0 => n # 0)
    BY <1>11, <1>15
  <2>3. j.wanted /\ ~j.short => /\ h.length = 0 \/ ~Whole(h.length)
                                /\ j.nb + h.length = j.size
    BY <1>13 DEF InBank
  <2>4. j.wanted /\ ~j.short /\ g.trcpt => n < EpSize
    BY <1>11, <1>16, <2>3
  <2> QED
    BY <1>11, <1>13, <2>1, <2>2, <2>3, <2>4 DEF InBank
<1>18. Bank(j, g, p, n, "in")
  <2>1. m = j.nb + h.count /\ j.nb <= j.size /\ j.nb \in Nat
    BY <1>4 DEF Bank, Jobs
  <2>2. p = j.nb + c
    BY <1>5, <1>8, <2>1
  <2>3. c <= h.length
    BY <1>5, <1>14, <1>15
  <2> QED
    BY <1>11, <1>17, <2>1, <2>2, <2>3 DEF Bank
<1>19. OwnInv(j, g, owed["in"], p, n, "in")
  BY <1>2, <1>4, <1>11, <1>18 DEF OwnInv
<1> QED
  <2>1. /\ job' = [job EXCEPT !["in"] = j] /\ owed' = [owed EXCEPT !["in"] = owed["in"]]
        /\ bogus' \in BOOLEAN
    BY <1>0, <1>1, <1>12, OwnParts
  <2>2. PICK o \in Int : o = owed["in"]
    BY <1>0, OwnParts
  <2> QED
    BY <1>0, <1>1, <1>8, <1>11, <1>12, <1>19, <2>1, <2>2, OneDirection

-----------------------------------------------------------------------------
(* The theorems *)

(* The inductive invariant holds in every reachable state.                 *)
THEOREM Invariance == ASSUME ~ClearsUnhalted PROVE Spec => []IInv
<1>1. Init => IInv
  <2> SUFFICES ASSUME Init
               PROVE  IInv
    OBVIOUS
  <2>1. JobIdle \in Jobs /\ ~JobIdle.busy
    BY DEF JobIdle, Jobs
  <2>2. HwReset \in Banks /\ ~HwReset.type /\ ~HwReset.ready /\ ~HwReset.trcpt
    BY DEF HwReset, Banks
  <2>3. /\ job \in [Dir -> Jobs] /\ \A d \in Dir : job[d] = JobIdle
        /\ hw \in [Dir -> Banks] /\ \A d \in Dir : hw[d] = HwReset
    BY <2>1, <2>2 DEF Init
  <2>a. owed \in [Dir -> Int] /\ \A d \in Dir : owed[d] = 0
    BY DEF Init
  <2>b. moved \in [Dir -> Nat] /\ last \in [Dir -> Nat]
    BY EpSizePositive DEF Init
  <2>c. bogus \in BOOLEAN /\ ~inexact /\ inexact \in BOOLEAN
    BY DEF Init
  <2>d. irq \in [registered : BOOLEAN, enabled : BOOLEAN]
    BY DEF Init
  <2>4. St \in States
    BY <2>3, <2>a, <2>b, <2>c, <2>d DEF St, States
  <2>5. \A d \in Dir : DirInv(St, d)
    BY <2>1, <2>2, <2>3, <2>a DEF St, DirInv, OwnInv, Transfers
  <2>6. St.hw["in"].type = St.hw["out"].type /\ ~St.inexact
    BY <2>3, <2>c DEF St, Dir
  <2> QED
    BY <2>4, <2>5, <2>6 DEF IInv, StateInv
<1>2. IInv /\ [Next]_vars => IInv'
  <2> SUFFICES ASSUME IInv, [Next]_vars
               PROVE  IInv'
    OBVIOUS
  <2>1. ASSUME NEW d \in Dir, NEW size \in 0 .. MaxSize, NEW short \in BOOLEAN,
               Run(d, size, short)
        PROVE  IInv'
    BY <2>1, RunStep, SizesAssumption
  <2>2. ASSUME NEW d \in Dir, WaitStallClear(d) \/ SetHalt(d) \/ ClearHalt(d)
        PROVE  IInv'
    BY <2>2, WaitStep, SetHaltStep, ClearHaltStep
  <2>3. ASSUME NEW d \in Dir, HostStalled(d) \/ StallInterrupt(d)
        PROVE  IInv'
    BY <2>3, StallFlagStep DEF HostStalled, StallInterrupt
  <2>4. ASSUME NEW d \in Dir, TransferInterrupt(d)
        PROVE  IInv'
    BY <2>4, TransferInterruptStep
  <2>5. CASE Disable \/ Enable
    BY <2>5, DisableStep, EnableStep
  <2>6. CASE HostIn \/ \E n \in 0 .. EpSize : HostOut(n)
    BY <2>6, HostInStep, HostOutStep
  <2>7. CASE UNCHANGED vars
    BY <2>7 DEF vars, IInv, St, StateInv, DirInv, Connected, Same
  <2> QED
    BY <2>1, <2>2, <2>3, <2>4, <2>5, <2>6, <2>7 DEF Next
<1> QED
  BY <1>1, <1>2, PTL DEF Spec

(* Every transfer that udd_ep_run accepted has its callback called once,   *)
(* whatever halts, aborts and freed endpoints come between.                *)
THEOREM AnsweredOnce == ASSUME ~ClearsUnhalted PROVE Spec => []OneAnswer
<1>1. IInv => OneAnswer
  BY OwnParts DEF OneAnswer, OwnInv
<1> QED
  BY <1>1, Invariance, PTL

(* A transfer always has its bank or an interrupt to come, and the         *)
(* connection to its callback; a halted or freed endpoint has none.        *)
THEOREM AlwaysAlive == ASSUME ~ClearsUnhalted PROVE Spec => []TransferAlive
<1>1. IInv => TransferAlive
  <2> SUFFICES ASSUME IInv, NEW d \in Dir
               PROVE  /\ Transfers(job[d]) = (hw[d].ready \/ hw[d].trcpt)
                      /\ Transfers(job[d]) =>
                            /\ hw[d].type /\ ~hw[d].stallrq /\ hw[d].inten
                            /\ irq.registered /\ irq.enabled
                      /\ ~hw[d].type => ~job[d].busy
    BY DEF TransferAlive
  <2>1. OwnInv(job[d], hw[d], owed[d], moved[d], last[d], d)
    BY OwnParts
  <2>2. hw[d].type => hw[d].inten /\ irq.registered /\ irq.enabled
    BY StParts DEF DirInv, Connected
  <2> QED
    BY <2>1, <2>2 DEF OwnInv
<1> QED
  BY <1>1, Invariance, PTL

(* The peripheral never writes behind the class driver's buffer, whatever  *)
(* the sizes of packets, hardware transfers and buffers.                   *)
THEOREM InsideBuffer == ASSUME ~ClearsUnhalted PROVE Spec => []OutInsideBuffer
<1>1. IInv => OutInsideBuffer
  <2> SUFFICES ASSUME IInv, hw["out"].ready
               PROVE  IF job["out"].cache
                      THEN job["out"].nb + (job["out"].size % EpSize) = job["out"].size
                      ELSE job["out"].nb + hw["out"].length <= job["out"].size
    BY DEF OutInsideBuffer
  <2>1. OwnInv(job["out"], hw["out"], owed["out"], moved["out"], last["out"], "out")
    BY OwnParts DEF Dir
  <2>2. OutBank(job["out"], hw["out"], last["out"])
    BY <2>1 DEF OwnInv, Bank
  <2> QED
    BY <2>2 DEF OutBank
<1> QED
  BY <1>1, Invariance, PTL

(* A completed transfer reports exactly the bytes that were on the bus,    *)
(* over all its hardware transfers, the cache buffer and the empty packet. *)
THEOREM Exactness == ASSUME ~ClearsUnhalted PROVE Spec => []AnswersExact
<1>1. IInv => AnswersExact
  BY DEF IInv, StateInv, St, AnswersExact
<1> QED
  BY <1>1, Invariance, PTL

=============================================================================
