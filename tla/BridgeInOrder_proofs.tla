------------------------- MODULE BridgeInOrder_proofs -------------------------
(***************************************************************************)
(* Proofs about the order of the bytes in BridgeIn: on the way from the    *)
(* receiver through the two buffers to the host none overtakes another,    *)
(* and none is lost but where the code has to drop it.                     *)
(***************************************************************************)
EXTENDS BridgeIn_proofs

-----------------------------------------------------------------------------
(* The inductive invariant *)

Less(S, T) == \A x \in S, y \in T : x < y

(* The bytes of the receiver, of the two buffers, and of the buffers what  *)
(* the host does not have yet.                                             *)
Chars(f) == [i \in 1 .. Len(f) |-> f[i].byte]
From(c, j, b) == IF b = c.sel THEN 0 ELSE Lo(c, j)
Stored(c) ==
    {x \in Byte : \E b \in Buffer, i \in 0 .. TxBuffers - 1 :
                     i < c.nb[b] /\ x = c.buf[b][i]}
Pending(c, j) ==
    {x \in Byte : \E b \in Buffer, i \in 0 .. TxBuffers - 1 :
                     From(c, j, b) <= i /\ i < c.nb[b] /\ x = c.buf[b][i]}

(* In a buffer the bytes rise, and those of the buffer udi_cdc fills are   *)
(* the newer ones.                                                         *)
Rising(c) ==
    \A a, b \in Buffer : \A i, k \in 0 .. TxBuffers - 1 :
        /\ i < c.nb[a] /\ k < c.nb[b]
        /\ (a = b /\ i < k) \/ (a # b /\ b = c.sel)
        => c.buf[a][i] < c.buf[b][k]

(* The queue from the receiver to the host: each part has older bytes than *)
(* the one before it.                                                      *)
QueueInv(c, j, f) ==
    /\ Rising(c)
    /\ Stored(c) \subseteq 1 .. arrived
    /\ Ascending(Chars(f))
    /\ Elements(Chars(f)) \subseteq 1 .. arrived
    /\ Less(Elements(host), Pending(c, j))
    /\ Less(Elements(host), Elements(Chars(f)))
    /\ Less(Stored(c), Elements(Chars(f)))

HostInv == Ascending(host) /\ Elements(host) \subseteq 1 .. arrived

(* Where a byte that is not at the host can be. *)
LostInv(c, j, f) ==
    \A k \in 1 .. arrived :
        \/ k \in Elements(host)
        \/ k \in excused
        \/ c.running /\ (k \in Pending(c, j) \/ k \in Elements(Chars(f)))

OrderInv ==
    /\ HostInv
    /\ tx.running => QueueInv(tx, job, usart.fifo)
    /\ LostInv(tx, job, usart.fifo)
    /\ ~tx.running => ~usart.enabled

-----------------------------------------------------------------------------
(* The two buffers *)

LEMMA BufferTyped ==
    ASSUME NEW c \in TxType, NEW b \in Buffer
    PROVE  /\ c.nb[b] \in 0 .. TxBuffers
           /\ \A i \in 0 .. TxBuffers - 1 : c.buf[b][i] \in Byte
  BY DEF TxType

LEMMA StoredMember ==
    ASSUME NEW c \in TxType, NEW b \in Buffer, NEW i \in 0 .. TxBuffers - 1, i < c.nb[b]
    PROVE  c.buf[b][i] \in Stored(c)
  BY BufferTyped DEF Stored

LEMMA PendingStored ==
    ASSUME NEW c \in TxType, NEW j
    PROVE  Pending(c, j) \subseteq Stored(c)
  BY DEF Pending, Stored

(* udi_cdc_tx_send turns to the other buffer without changing what comes   *)
(* first.                                                                  *)
LEMMA TurnedOrder ==
    ASSUME NEW c \in TxType, NEW d \in TxType, NEW j, NEW k, Turned(c, j, d, k), Rising(c)
    PROVE  Rising(d) /\ Stored(d) = Stored(c) /\ Pending(d, k) = Pending(c, j)
<1>1. /\ c.sel \in Buffer /\ d.buf = c.buf /\ d.nb = c.nb
      /\ \A b \in Buffer : b = c.sel \/ b = Other(c.sel)
      /\ Other(c.sel) # c.sel
  BY TxParts, OtherBuffer DEF Turned, Buffer, Other
<1>2. Stored(d) = Stored(c)
  BY <1>1 DEF Stored
<1>3. CASE d.sel = c.sel /\ Lo(d, k) = Lo(c, j)
  <2>1. Rising(d)
    BY <1>1, <1>3 DEF Rising
  <2>2. Pending(d, k) = Pending(c, j)
    BY <1>1, <1>3 DEF Pending, From
  <2> QED
    BY <1>2, <2>1, <2>2
<1>4. CASE d.sel = Other(c.sel) /\ c.nb[Other(c.sel)] = 0 /\ Lo(d, k) = 0
  <2>1. \A b \in Buffer, i \in 0 .. TxBuffers - 1 : i < c.nb[b] => b = c.sel
    <3> SUFFICES ASSUME NEW b \in Buffer, NEW i \in 0 .. TxBuffers - 1, i < c.nb[b], b # c.sel
                 PROVE  FALSE
      OBVIOUS
    <3>1. b = Other(c.sel) /\ i \in Nat
      BY <1>1, Sizes
    <3> QED
      BY <1>4, <3>1
  <2>2. Rising(d)
    <3> SUFFICES ASSUME NEW a \in Buffer, NEW b \in Buffer, NEW i \in 0 .. TxBuffers - 1,
                        NEW m \in 0 .. TxBuffers - 1, i < c.nb[a], m < c.nb[b],
                        (a = b /\ i < m) \/ (a # b /\ b = d.sel)
                 PROVE  c.buf[a][i] < c.buf[b][m]
      BY <1>1 DEF Rising
    <3>1. a = c.sel /\ b = c.sel
      BY <2>1
    <3> QED
      BY <3>1 DEF Rising
  <2>3. From(d, k, c.sel) = 0 /\ From(c, j, c.sel) = 0
    BY <1>1, <1>4 DEF From
  <2>4. Pending(d, k) = Pending(c, j)
    <3>1. \A x \in Byte : x \in Pending(d, k) <=>
             \E i \in 0 .. TxBuffers - 1 : 0 <= i /\ i < c.nb[c.sel] /\ x = c.buf[c.sel][i]
      BY <1>1, <2>1, <2>3 DEF Pending
    <3>2. \A x \in Byte : x \in Pending(c, j) <=>
             \E i \in 0 .. TxBuffers - 1 : 0 <= i /\ i < c.nb[c.sel] /\ x = c.buf[c.sel][i]
      BY <1>1, <2>1, <2>3 DEF Pending
    <3> QED
      BY <3>1, <3>2 DEF Pending
  <2> QED
    BY <1>2, <2>2, <2>4
<1> QED
  BY <1>3, <1>4 DEF Turned

(* A finished transfer leaves the buffer it came from empty. *)
LEMMA SentOrder ==
    ASSUME NEW c \in TxType, NEW d \in TxType, NEW j, NEW k, Sent(c, d, k), Rising(c),
           Lo(c, j) = c.nb[Other(c.sel)]
    PROVE  Rising(d) /\ Stored(d) \subseteq Stored(c) /\ Pending(d, k) = Pending(c, j)
<1>1. /\ c.sel \in Buffer /\ d.buf = c.buf
      /\ \A b \in Buffer : b = c.sel \/ b = Other(c.sel)
      /\ Other(c.sel) # c.sel /\ Other(c.sel) \in Buffer
      /\ d.nb[c.sel] = c.nb[c.sel] /\ d.nb[Other(c.sel)] = 0
  BY TxParts, OtherBuffer DEF Sent, Buffer, Other
<1>2. \A b \in Buffer, i \in 0 .. TxBuffers - 1 : i < d.nb[b] => b = c.sel /\ i < c.nb[b]
  <2> SUFFICES ASSUME NEW b \in Buffer, NEW i \in 0 .. TxBuffers - 1, i < d.nb[b]
               PROVE  b = c.sel /\ i < c.nb[b]
    OBVIOUS
  <2>1. CASE b = c.sel
    BY <1>1, <2>1
  <2>2. CASE b = Other(c.sel)
    <3>1. i \in Nat /\ i < 0
      BY <1>1, <2>2, Sizes
    <3> QED
      BY <3>1
  <2> QED
    BY <1>1, <2>1, <2>2
<1>3. Stored(d) \subseteq Stored(c)
  BY <1>1, <1>2 DEF Stored
<1>4. Rising(d)
  <2> SUFFICES ASSUME NEW a \in Buffer, NEW b \in Buffer, NEW i \in 0 .. TxBuffers - 1,
                      NEW m \in 0 .. TxBuffers - 1, i < d.nb[a], m < d.nb[b],
                      (a = b /\ i < m) \/ (a # b /\ b = d.sel)
               PROVE  c.buf[a][i] < c.buf[b][m]
    BY <1>1 DEF Rising
  <2>1. a = c.sel /\ b = c.sel /\ i < c.nb[a] /\ m < c.nb[b]
    BY <1>2
  <2> QED
    BY <2>1 DEF Rising
<1>5. From(d, k, c.sel) = 0 /\ From(c, j, c.sel) = 0
  BY <1>1 DEF From, Sent
<1>6. \A x \in Byte : x \in Pending(d, k) <=>
         \E i \in 0 .. TxBuffers - 1 : 0 <= i /\ i < c.nb[c.sel] /\ x = c.buf[c.sel][i]
  BY <1>1, <1>2, <1>5 DEF Pending
<1>7. \A x \in Byte : x \in Pending(c, j) <=>
         \E i \in 0 .. TxBuffers - 1 : 0 <= i /\ i < c.nb[c.sel] /\ x = c.buf[c.sel][i]
  <2>1. \A i \in 0 .. TxBuffers - 1 :
           ~(From(c, j, Other(c.sel)) <= i /\ i < c.nb[Other(c.sel)])
    <3>1. c.nb[Other(c.sel)] \in 0 .. TxBuffers
      BY <1>1, BufferTyped
    <3>2. From(c, j, Other(c.sel)) = c.nb[Other(c.sel)]
      BY <1>1 DEF From
    <3> QED
      BY <3>1, <3>2, Sizes
  <2> QED
    BY <1>1, <1>5, <2>1 DEF Pending
<1> QED
  BY <1>3, <1>4, <1>6, <1>7 DEF Pending

(* udi_cdc_multi_putc adds a byte behind all the others. *)
LEMMA AddedOrder ==
    ASSUME NEW c \in TxType, NEW d \in TxType, NEW j \in JobType, NEW byte \in Byte,
           Added(c, j, d, byte), Rising(c), \A x \in Stored(c) : x < byte,
           Lo(c, j) <= c.nb[Other(c.sel)]
    PROVE  /\ Rising(d)
           /\ Stored(d) \subseteq Stored(c) \cup {byte}
           /\ Pending(d, j) = Pending(c, j) \cup {byte}
<1>1. PICK n \in 0 .. TxBuffers - 1 : n = c.nb[d.sel]
  BY TxParts, BufferTyped, Sizes DEF Added
<1>2. /\ c.sel \in Buffer /\ d.sel \in Buffer
      /\ \A b \in Buffer : b = d.sel \/ b = Other(d.sel)
      /\ Other(d.sel) # d.sel /\ Other(d.sel) \in Buffer
      /\ d.nb[d.sel] = n + 1 /\ d.nb[Other(d.sel)] = c.nb[Other(d.sel)]
      /\ d.buf[d.sel][n] = byte
  BY <1>1, TxParts, OtherBuffer DEF Added, Buffer, Other
<1>3. \A b \in Buffer, i \in 0 .. TxBuffers - 1 :
         /\ i < d.nb[b] <=> i < c.nb[b] \/ (b = d.sel /\ i = n)
         /\ i < c.nb[b] => d.buf[b][i] = c.buf[b][i]
  <2> SUFFICES ASSUME NEW b \in Buffer, NEW i \in 0 .. TxBuffers - 1
               PROVE  /\ i < d.nb[b] <=> i < c.nb[b] \/ (b = d.sel /\ i = n)
                      /\ i < c.nb[b] => d.buf[b][i] = c.buf[b][i]
    OBVIOUS
  <2>1. CASE b = d.sel
    BY <1>1, <1>2, <2>1 DEF Added
  <2>2. CASE b = Other(d.sel)
    BY <1>1, <1>2, <2>2 DEF Added
  <2> QED
    BY <1>2, <2>1, <2>2
<1>4. Stored(d) \subseteq Stored(c) \cup {byte}
  <2> SUFFICES ASSUME NEW x \in Stored(d), x # byte
               PROVE  x \in Stored(c)
    OBVIOUS
  <2>1. PICK b \in Buffer, i \in 0 .. TxBuffers - 1 : i < d.nb[b] /\ x = d.buf[b][i]
    BY DEF Stored
  <2>2. i < c.nb[b]
    BY <1>2, <1>3, <2>1
  <2> QED
    BY <1>3, <2>1, <2>2, StoredMember
<1>5. Rising(d)
  <2> SUFFICES ASSUME NEW a \in Buffer, NEW b \in Buffer, NEW i \in 0 .. TxBuffers - 1,
                      NEW m \in 0 .. TxBuffers - 1, i < d.nb[a], m < d.nb[b],
                      (a = b /\ i < m) \/ (a # b /\ b = d.sel)
               PROVE  d.buf[a][i] < d.buf[b][m]
    BY DEF Rising
  <2>1. CASE b = d.sel /\ m = n
    <3>1. ~(a = d.sel /\ i = n)
      BY <1>1, <2>1
    <3>2. i < c.nb[a]
      BY <1>3, <3>1
    <3>3. d.buf[a][i] \in Stored(c)
      BY <1>3, <3>2, StoredMember
    <3> QED
      BY <1>2, <2>1, <3>3
  <2>2. CASE m < c.nb[b]
    <3>1. i < c.nb[a]
      <4>1. ~(a = d.sel /\ i = n)
        BY <1>1, <2>2
      <4> QED
        BY <1>3, <4>1
    <3>2. b = d.sel => b = c.sel \/ a = b
      <4> SUFFICES ASSUME b = d.sel, b # c.sel, a # b
                   PROVE  FALSE
        OBVIOUS
      <4>1. c.nb[b] = 0
        BY DEF Added
      <4> QED
        BY <2>2, <4>1, Sizes
    <3>3. c.buf[a][i] < c.buf[b][m]
      BY <2>2, <3>1, <3>2 DEF Rising
    <3> QED
      BY <1>3, <2>2, <3>1, <3>3
  <2> QED
    BY <1>3, <2>1, <2>2
<1>6. \A b \in Buffer, i \in 0 .. TxBuffers - 1 :
         From(d, j, b) <= i /\ i < d.nb[b] <=>
         \/ From(c, j, b) <= i /\ i < c.nb[b]
         \/ b = d.sel /\ i = n
  <2> SUFFICES ASSUME NEW b \in Buffer, NEW i \in 0 .. TxBuffers - 1
               PROVE  From(d, j, b) <= i /\ i < d.nb[b] <=>
                      \/ From(c, j, b) <= i /\ i < c.nb[b]
                      \/ b = d.sel /\ i = n
    OBVIOUS
  <2>1. Lo(d, j) = Lo(c, j) /\ i >= 0 /\ i \in Nat
    BY Sizes DEF Added
  <2>2. CASE d.sel = c.sel
    <3>1. From(d, j, b) = From(c, j, b) /\ From(d, j, d.sel) = 0
      BY <2>1, <2>2 DEF From
    <3> QED
      BY <1>3, <2>1, <3>1
  <2>3. CASE d.sel = Other(c.sel) /\ c.nb[Other(c.sel)] = 0 /\ Lo(c, j) = 0
    <3>1. From(d, j, b) = 0 /\ From(c, j, b) = 0
      BY <2>1, <2>3 DEF From
    <3> QED
      BY <1>3, <2>1, <3>1
  <2> QED
    BY <2>2, <2>3 DEF Added
<1>7. Pending(d, j) = Pending(c, j) \cup {byte}
  <2>1. ASSUME NEW x \in Pending(d, j)
        PROVE  x \in Pending(c, j) \cup {byte}
    <3>1. PICK b \in Buffer, i \in 0 .. TxBuffers - 1 :
             From(d, j, b) <= i /\ i < d.nb[b] /\ x = d.buf[b][i]
      BY DEF Pending
    <3>2. CASE b = d.sel /\ i = n
      BY <1>2, <3>1, <3>2
    <3>3. CASE From(c, j, b) <= i /\ i < c.nb[b]
      BY <1>3, <3>1, <3>3 DEF Pending
    <3> QED
      BY <1>6, <3>1, <3>2, <3>3
  <2>2. ASSUME NEW x \in Pending(c, j)
        PROVE  x \in Pending(d, j)
    <3>1. PICK b \in Buffer, i \in 0 .. TxBuffers - 1 :
             From(c, j, b) <= i /\ i < c.nb[b] /\ x = c.buf[b][i]
      BY DEF Pending
    <3> QED
      BY <1>3, <1>6, <3>1 DEF Pending
  <2>3. byte \in Pending(d, j)
    BY <1>2, <1>6 DEF Pending
  <2> QED
    BY <2>1, <2>2, <2>3
<1> QED
  BY <1>4, <1>5, <1>7

-----------------------------------------------------------------------------
(* The receiver *)

LEMMA CharsTyped ==
    ASSUME NEW f \in Seq(Item)
    PROVE  /\ Chars(f) \in Seq(Byte) /\ Len(Chars(f)) = Len(f) /\ Len(f) \in Nat
           /\ \A i \in 1 .. Len(f) : Chars(f)[i] = f[i].byte /\ f[i].byte \in Byte
<1>1. PICK k \in Nat : k = Len(f)
  BY LenProperties
<1>2. \A i \in 1 .. k : f[i].byte \in Byte
  <2> SUFFICES ASSUME NEW i \in 1 .. k
               PROVE  f[i].byte \in Byte
    OBVIOUS
  <2>1. f[i] \in Item
    BY <1>1, ElementOfSeq
  <2> QED
    BY <2>1 DEF Item
<1>3. PICK g : g = Chars(f)
  OBVIOUS
<1>4. g = [i \in 1 .. k |-> f[i].byte]
  BY <1>1, <1>3 DEF Chars
<1>5. g \in [1 .. k -> Byte] /\ \A i \in 1 .. k : g[i] = f[i].byte
  BY <1>2, <1>4
<1>6. g \in Seq(Byte) /\ Len(g) = k
  BY <1>5, FunctionIsSeq
<1> QED
  BY <1>1, <1>2, <1>3, <1>5, <1>6

LEMMA CharsMember ==
    ASSUME NEW f \in Seq(Item)
    PROVE  /\ \A x : x \in Elements(Chars(f)) <=> \E i \in 1 .. Len(f) : x = f[i].byte
           /\ Ascending(Chars(f)) <=>
                \A i, k \in 1 .. Len(f) : i < k => f[i].byte < f[k].byte
<1>1. PICK g : g = Chars(f)
  OBVIOUS
<1>2. Len(g) = Len(f) /\ \A i \in 1 .. Len(f) : g[i] = f[i].byte
  BY <1>1, CharsTyped
<1> QED
  BY <1>1, <1>2 DEF Elements, Ascending

LEMMA CharsEmpty ==
    ASSUME NEW f \in Seq(Item), f = <<>>
    PROVE  Ascending(Chars(f)) /\ Elements(Chars(f)) = {}
<1>1. Len(f) = 0 /\ \A i \in 1 .. 0 : FALSE
  BY EmptySeq
<1>2. \A x : ~(x \in Elements(Chars(f)))
  BY <1>1, CharsMember, Zenon
<1>3. Ascending(Chars(f))
  BY <1>1, CharsMember, Zenon
<1> QED
  BY <1>2, <1>3

(* Only the bytes of the characters count. *)
LEMMA CharsSame ==
    ASSUME NEW f \in Seq(Item), NEW g \in Seq(Item), Len(g) = Len(f),
           \A i \in 1 .. Len(f) : g[i].byte = f[i].byte
    PROVE  /\ Elements(Chars(g)) = Elements(Chars(f))
           /\ Ascending(Chars(f)) => Ascending(Chars(g))
<1>1. \A x : x \in Elements(Chars(g)) <=> x \in Elements(Chars(f))
  <2>1. \A x : x \in Elements(Chars(g)) <=> \E i \in 1 .. Len(f) : x = g[i].byte
    BY CharsMember
  <2>2. \A x : x \in Elements(Chars(f)) <=> \E i \in 1 .. Len(f) : x = f[i].byte
    BY CharsMember
  <2> QED
    BY <2>1, <2>2
<1>2. Ascending(Chars(f)) => Ascending(Chars(g))
  BY CharsMember
<1> QED
  BY <1>1, <1>2

LEMMA CharsTail ==
    ASSUME NEW f \in Seq(Item), f # <<>>, Ascending(Chars(f))
    PROVE  /\ Tail(f) \in Seq(Item)
           /\ Ascending(Chars(Tail(f)))
           /\ Elements(Chars(f)) = {Head(f).byte} \cup Elements(Chars(Tail(f)))
           /\ \A x \in Elements(Chars(Tail(f))) : Head(f).byte < x
<1>1. PICK t \in Seq(Item) : t = Tail(f)
  BY HeadTailProperties
<1>2. PICK k \in Nat \ {0} : k = Len(f)
  BY LenProperties, EmptySeq
<1>3. /\ Len(t) = k - 1 /\ Head(f) = f[1]
      /\ \A i \in 1 .. k - 1 : t[i] = f[i + 1]
  BY <1>1, <1>2, HeadTailProperties
<1>4. \A i, m \in 1 .. k : i < m => f[i].byte < f[m].byte
  BY <1>2, CharsMember
<1>5. Ascending(Chars(t))
  <2> SUFFICES ASSUME NEW i \in 1 .. k - 1, NEW m \in 1 .. k - 1, i < m
               PROVE  t[i].byte < t[m].byte
    BY <1>3, CharsMember
  <2>1. i + 1 \in 1 .. k /\ m + 1 \in 1 .. k /\ i + 1 < m + 1
    OBVIOUS
  <2> QED
    BY <1>3, <1>4, <2>1
<1>6. \A x : x \in Elements(Chars(t)) <=> \E m \in 2 .. k : x = f[m].byte
  <2>1. ASSUME NEW x, NEW i \in 1 .. k - 1, x = t[i].byte
        PROVE  \E m \in 2 .. k : x = f[m].byte
    <3>1. i + 1 \in 2 .. k
      OBVIOUS
    <3> QED
      BY <1>3, <2>1, <3>1
  <2>2. ASSUME NEW x, NEW m \in 2 .. k, x = f[m].byte
        PROVE  \E i \in 1 .. k - 1 : x = t[i].byte
    <3>1. PICK i \in 1 .. k - 1 : m = i + 1
      <4>1. m - 1 \in 1 .. k - 1 /\ m = (m - 1) + 1
        OBVIOUS
      <4> QED
        BY <4>1
    <3> QED
      BY <1>3, <2>2, <3>1
  <2>3. \A x : x \in Elements(Chars(t)) <=> \E i \in 1 .. k - 1 : x = t[i].byte
    BY <1>3, CharsMember
  <2> QED
    BY <2>1, <2>2, <2>3
<1>7. \A x : x \in Elements(Chars(f)) <=> x = f[1].byte \/ \E m \in 2 .. k : x = f[m].byte
  <2>1. \A m \in 1 .. k : m = 1 \/ m \in 2 .. k
    OBVIOUS
  <2>2. 1 \in 1 .. k /\ \A m \in 2 .. k : m \in 1 .. k
    OBVIOUS
  <2>3. \A x : x \in Elements(Chars(f)) <=> \E i \in 1 .. k : x = f[i].byte
    BY <1>2, CharsMember
  <2> QED
    BY <2>1, <2>2, <2>3
<1>8. Elements(Chars(f)) = {f[1].byte} \cup Elements(Chars(t))
  BY <1>6, <1>7
<1>9. \A x \in Elements(Chars(t)) : f[1].byte < x
  <2> SUFFICES ASSUME NEW m \in 2 .. k
               PROVE  f[1].byte < f[m].byte
    BY <1>6
  <2>1. 1 \in 1 .. k /\ m \in 1 .. k /\ 1 < m
    OBVIOUS
  <2> QED
    BY <1>4, <2>1
<1> QED
  BY <1>1, <1>3, <1>5, <1>8, <1>9

LEMMA CharsAppend ==
    ASSUME NEW f \in Seq(Item), NEW e \in Item, Ascending(Chars(f)),
           \A x \in Elements(Chars(f)) : x < e.byte
    PROVE  /\ Append(f, e) \in Seq(Item)
           /\ Ascending(Chars(Append(f, e)))
           /\ Elements(Chars(Append(f, e))) = Elements(Chars(f)) \cup {e.byte}
<1>1. PICK g : g = Append(f, e)
  OBVIOUS
<1>2. PICK k \in Nat : k = Len(f)
  BY LenProperties
<1>3. /\ g \in Seq(Item) /\ Len(g) = k + 1 /\ g[k + 1] = e
      /\ \A i \in 1 .. k : g[i] = f[i]
  BY <1>1, <1>2, AppendProperties
<1>4. \A i \in 1 .. k + 1 : i \in 1 .. k \/ i = k + 1
  OBVIOUS
<1>5. \A x : x \in Elements(Chars(g)) <=> x \in Elements(Chars(f)) \/ x = e.byte
  <2>1. \A x : x \in Elements(Chars(g)) <=> \E i \in 1 .. k + 1 : x = g[i].byte
    BY <1>3, CharsMember
  <2>2. \A x : x \in Elements(Chars(f)) <=> \E i \in 1 .. k : x = f[i].byte
    BY <1>2, CharsMember
  <2>3. k + 1 \in 1 .. k + 1 /\ \A i \in 1 .. k : i \in 1 .. k + 1
    OBVIOUS
  <2> QED
    BY <1>3, <1>4, <2>1, <2>2, <2>3
<1>6. Ascending(Chars(g))
  <2> SUFFICES ASSUME NEW i \in 1 .. k + 1, NEW m \in 1 .. k + 1, i < m
               PROVE  g[i].byte < g[m].byte
    BY <1>3, CharsMember
  <2>1. i \in 1 .. k
    OBVIOUS
  <2>2. CASE m \in 1 .. k
    BY <1>2, <1>3, <2>1, <2>2, CharsMember
  <2>3. CASE m = k + 1
    <3>1. f[i].byte \in Elements(Chars(f))
      BY <1>2, <2>1, CharsMember
    <3> QED
      BY <1>3, <2>1, <2>3, <3>1
  <2> QED
    BY <1>4, <2>2, <2>3
<1> QED
  BY <1>1, <1>3, <1>5, <1>6

-----------------------------------------------------------------------------
(* Slices of a buffer, and what the host has *)

IsSlice(s, b, lo, hi) ==
    /\ s \in Seq(Byte) /\ Len(s) = hi - lo
    /\ \A m \in 1 .. hi - lo : s[m] = tx.buf[b][lo + m - 1]
    /\ \A x : x \in Elements(s) <=>
          \E i \in 0 .. TxBuffers - 1 : lo <= i /\ i < hi /\ x = tx.buf[b][i]

LEMMA SliceMember ==
    ASSUME tx \in TxType, NEW b \in Buffer, NEW lo \in Nat, NEW hi \in 0 .. TxBuffers, lo <= hi
    PROVE  IsSlice(Slice(b, lo, hi), b, lo, hi)
<1>1. PICK k \in Nat : k = hi - lo
  OBVIOUS
<1>2. PICK s : s = Slice(b, lo, hi)
  OBVIOUS
<1>3. s \in Seq(Byte) /\ Len(s) = k
  BY <1>1, <1>2, SliceTyped
<1>4. \A m \in 1 .. k : s[m] = tx.buf[b][lo + m - 1]
  BY <1>1, <1>2 DEF Slice
<1>5. \A x : x \in Elements(s) <=> \E m \in 1 .. k : x = s[m]
  BY <1>3 DEF Elements
<1>6. ASSUME NEW m \in 1 .. k
      PROVE  \E i \in 0 .. TxBuffers - 1 : lo <= i /\ i < hi /\ s[m] = tx.buf[b][i]
  <2>1. lo + m - 1 \in 0 .. TxBuffers - 1 /\ lo <= lo + m - 1 /\ lo + m - 1 < hi
    BY <1>1, Sizes
  <2> QED
    BY <1>4, <2>1
<1>7. ASSUME NEW i \in 0 .. TxBuffers - 1, lo <= i, i < hi
      PROVE  \E m \in 1 .. k : s[m] = tx.buf[b][i]
  <2>1. PICK m \in 1 .. k : i = lo + m - 1
    <3>1. i - lo + 1 \in 1 .. k /\ i = lo + (i - lo + 1) - 1
      BY <1>1, <1>7, Sizes
    <3> QED
      BY <3>1
  <2> QED
    BY <1>4, <2>1
<1>8. \A x : x \in Elements(s) <=>
         \E i \in 0 .. TxBuffers - 1 : lo <= i /\ i < hi /\ x = tx.buf[b][i]
  BY <1>5, <1>6, <1>7
<1>9. Len(s) = hi - lo /\ \A m \in 1 .. hi - lo : s[m] = tx.buf[b][lo + m - 1]
  BY <1>1, <1>3, <1>4
<1>10. IsSlice(s, b, lo, hi)
  BY <1>3, <1>8, <1>9 DEF IsSlice
<1> QED
  BY <1>2, <1>10

LEMMA SliceRises ==
    ASSUME tx \in TxType, NEW b \in Buffer, NEW lo \in Nat, NEW hi \in 0 .. TxBuffers, lo <= hi,
           hi <= tx.nb[b], Rising(tx)
    PROVE  Ascending(Slice(b, lo, hi))
<1>1. PICK k \in Nat : k = hi - lo
  OBVIOUS
<1>2. PICK s : s = Slice(b, lo, hi)
  OBVIOUS
<1>3. Len(s) = k /\ \A m \in 1 .. k : s[m] = tx.buf[b][lo + m - 1]
  <2>1. IsSlice(s, b, lo, hi)
    BY <1>2, SliceMember
  <2> QED
    BY <1>1, <2>1 DEF IsSlice
<1>4. ASSUME NEW m \in 1 .. k, NEW p \in 1 .. k, m < p
      PROVE  s[m] < s[p]
  <2>1. PICK i \in 0 .. TxBuffers - 1 : i = lo + m - 1
    BY <1>1, Sizes
  <2>2. PICK q \in 0 .. TxBuffers - 1 : q = lo + p - 1
    BY <1>1, Sizes
  <2>3. i < q /\ i < tx.nb[b] /\ q < tx.nb[b]
    <3>1. tx.nb[b] \in 0 .. TxBuffers
      BY BufferTyped
    <3> QED
      BY <1>1, <1>4, <2>1, <2>2, <3>1, Sizes
  <2>4. tx.buf[b][i] < tx.buf[b][q]
    BY <2>3 DEF Rising
  <2> QED
    BY <1>3, <2>1, <2>2, <2>4
<1>5. Ascending(s)
  BY <1>3, <1>4 DEF Ascending
<1> QED
  BY <1>2, <1>5

LEMMA ConcatOrder ==
    ASSUME NEW s \in Seq(Byte), NEW t \in Seq(Byte)
    PROVE  /\ s \o t \in Seq(Byte)
           /\ Elements(s \o t) = Elements(s) \cup Elements(t)
           /\ Ascending(s) /\ Ascending(t) /\ Less(Elements(s), Elements(t))
                => Ascending(s \o t)
<1>1. PICK j \in Nat : j = Len(s)
  BY LenProperties
<1>2. PICK k \in Nat : k = Len(t)
  BY LenProperties
<1>3. PICK c : c = s \o t
  OBVIOUS
<1>4. /\ c \in Seq(Byte) /\ Len(c) = j + k
      /\ \A i \in 1 .. j : c[i] = s[i]
      /\ \A i \in 1 .. k : c[j + i] = t[i]
  <2>1. /\ c \in Seq(Byte) /\ Len(c) = j + k
        /\ \A i \in 1 .. j + k : c[i] = IF i <= j THEN s[i] ELSE t[i - j]
    BY <1>1, <1>2, <1>3, ConcatProperties
  <2>2. ASSUME NEW i \in 1 .. k
        PROVE  c[j + i] = t[i]
    <3>1. j + i \in 1 .. j + k /\ ~(j + i <= j) /\ j + i - j = i
      OBVIOUS
    <3> QED
      BY <2>1, <3>1
  <2> QED
    BY <2>1, <2>2
<1>5. \A i \in 1 .. j + k : i \in 1 .. j \/ \E m \in 1 .. k : i = j + m
  <2> SUFFICES ASSUME NEW i \in 1 .. j + k, ~(i \in 1 .. j)
               PROVE  \E m \in 1 .. k : i = j + m
    OBVIOUS
  <2>1. i - j \in 1 .. k /\ i = j + (i - j)
    OBVIOUS
  <2> QED
    BY <2>1
<1>6. /\ \A i \in 1 .. j : s[i] \in Elements(s)
      /\ \A i \in 1 .. k : t[i] \in Elements(t)
  BY <1>1, <1>2 DEF Elements
<1>7. Elements(c) = Elements(s) \cup Elements(t)
  <2>1. ASSUME NEW x \in Elements(c)
        PROVE  x \in Elements(s) \cup Elements(t)
    <3>1. PICK i \in 1 .. j + k : x = c[i]
      BY <1>4 DEF Elements
    <3> QED
      BY <1>4, <1>5, <1>6, <3>1
  <2>2. ASSUME NEW x \in Elements(s)
        PROVE  x \in Elements(c)
    <3>1. PICK i \in 1 .. j : x = s[i]
      BY <1>1 DEF Elements
    <3>2. i \in 1 .. Len(c)
      BY <1>4
    <3> QED
      BY <1>4, <3>1, <3>2 DEF Elements
  <2>3. ASSUME NEW x \in Elements(t)
        PROVE  x \in Elements(c)
    <3>1. PICK i \in 1 .. k : x = t[i]
      BY <1>2 DEF Elements
    <3>2. j + i \in 1 .. Len(c)
      BY <1>4
    <3> QED
      BY <1>4, <3>1, <3>2 DEF Elements
  <2> QED
    BY <2>1, <2>2, <2>3
<1>8. ASSUME Ascending(s), Ascending(t), Less(Elements(s), Elements(t))
      PROVE  Ascending(c)
  <2> SUFFICES ASSUME NEW i \in 1 .. j + k, NEW m \in 1 .. j + k, i < m
               PROVE  c[i] < c[m]
    BY <1>4 DEF Ascending
  <2>1. CASE i \in 1 .. j /\ m \in 1 .. j
    BY <1>1, <1>4, <1>8, <2>1 DEF Ascending
  <2>2. ASSUME i \in 1 .. j, NEW p \in 1 .. k, m = j + p
        PROVE  c[i] < c[m]
    BY <1>4, <1>6, <1>8, <2>2 DEF Less
  <2>3. ASSUME NEW q \in 1 .. k, i = j + q, NEW p \in 1 .. k, m = j + p
        PROVE  c[i] < c[m]
    <3>1. q < p
      BY <2>3
    <3> QED
      BY <1>2, <1>4, <1>8, <2>3, <3>1 DEF Ascending
  <2>4. ~(m \in 1 .. j) \/ i \in 1 .. j
    OBVIOUS
  <2> QED
    BY <1>5, <2>1, <2>2, <2>3, <2>4
<1> QED
  BY <1>3, <1>4, <1>7, <1>8

-----------------------------------------------------------------------------
(* Every step keeps the invariant *)

LEMMA OtherParts ==
    ASSUME IInv, tx.running
    PROVE  /\ tx \in TxType /\ job \in JobType /\ usart.fifo \in Seq(Item) /\ Agree(tx, job)
           /\ Lo(tx, job) \in 0 .. tx.nb[Other(tx.sel)]
           /\ arrived \in Nat /\ host \in Seq(Byte) /\ arrived + 1 \in Nat
<1>1. /\ tx \in TxType /\ job \in JobType /\ usart \in Usarts /\ Agree(tx, job)
      /\ arrived \in Nat /\ host \in Seq(Byte)
  <2>1. arrived \in Nat /\ host \in Seq(Byte)
    BY Sizes DEF IInv, Outside
  <2> QED
    BY <2>1, ParsedInv
<1>2. usart.fifo \in Seq(Item)
  BY <1>1 DEF Usarts
<1>3. tx.nb[Other(tx.sel)] \in 0 .. TxBuffers
  BY <1>1, TxParts
<1>4. CASE tx.ongoing
  <2>1. job.off <= job.size /\ job.size = tx.nb[Other(tx.sel)] /\ job.off \in 0 .. TxBuffers
    BY <1>1, <1>4 DEF Agree, JobInv, JobType
  <2> QED
    BY <1>1, <1>2, <1>3, <1>4, <2>1, Sizes DEF Lo
<1>5. CASE ~tx.ongoing
  BY <1>1, <1>2, <1>3, <1>5, Sizes DEF Lo
<1> QED
  BY <1>4, <1>5

(* The buffers change their roles and no byte moves. *)
LEMMA BuffersTurned ==
    ASSUME OrderInv, tx.running, tx'.running, Rising(tx'), Stored(tx') \subseteq Stored(tx),
           Pending(tx', job') = Pending(tx, job),
           Elements(Chars(usart'.fifo)) = Elements(Chars(usart.fifo)),
           Ascending(Chars(usart'.fifo)), UNCHANGED <<arrived, host, excused>>
    PROVE  OrderInv'
<1>1. QueueInv(tx, job, usart.fifo) /\ LostInv(tx, job, usart.fifo) /\ HostInv
  BY DEF OrderInv
<1>2. QueueInv(tx, job, usart.fifo)'
  BY <1>1 DEF QueueInv, Less
<1>3. LostInv(tx, job, usart.fifo)'
  BY <1>1 DEF LostInv
<1>4. HostInv'
  BY <1>1 DEF HostInv
<1> QED
  BY <1>2, <1>3, <1>4 DEF OrderInv

(* The data interface starts with empty buffers. *)
LEMMA StartsEmpty ==
    ASSUME HostInv, tx' \in TxType, usart'.fifo \in Seq(Item), Emptied(tx', usart'),
           UNCHANGED <<arrived, host>>,
           \A k \in 1 .. arrived : k \in Elements(host) \/ k \in excused'
    PROVE  OrderInv'
<1>1. Ascending(Chars(usart'.fifo)) /\ Elements(Chars(usart'.fifo)) = {}
  BY CharsEmpty DEF Emptied
<1>2. \A b \in Buffer, i \in 0 .. TxBuffers - 1 : ~(i < tx'.nb[b])
  BY Sizes DEF Emptied
<1>3. Stored(tx') = {} /\ Pending(tx', job') = {} /\ Rising(tx')
  BY <1>2 DEF Stored, Pending, Rising
<1>4. QueueInv(tx, job, usart.fifo)'
  BY <1>1, <1>3 DEF QueueInv, Less
<1>5. LostInv(tx, job, usart.fifo)'
  BY DEF LostInv
<1>6. HostInv'
  BY DEF HostInv
<1> QED
  BY <1>4, <1>5, <1>6 DEF OrderInv, Emptied

LEMMA ByteArrivesOrder ==
    ASSUME IInv, OrderInv, NEW status \in 0 .. LineErrors, ByteArrives(status)
    PROVE  OrderInv'
<1>1. /\ tx.running /\ arrived' = arrived + 1 /\ usart' = Arrive(usart, arrived + 1, status)
      /\ tx' = tx /\ job' = job /\ host' = host /\ arrived < MaxBytes
  BY DEF ByteArrives, OrderInv
<1>2. /\ usart \in Usarts /\ usart.fifo \in Seq(Item) /\ arrived + 1 \in Byte /\ arrived \in Nat
      /\ status \in 0 .. MaxStatus
  <2>1. arrived + 1 \in Byte
    BY <1>1, Sizes DEF IInv, Outside, Byte
  <2>2. status \in 0 .. MaxStatus
    BY Sizes DEF MaxStatus
  <2> QED
    BY <1>1, <2>1, <2>2, OtherParts, ParsedInv
<1>3. QueueInv(tx, job, usart.fifo) /\ LostInv(tx, job, usart.fifo) /\ HostInv
  BY <1>1 DEF OrderInv
<1>4. PICK n \in Byte : n = arrived + 1
  BY <1>2
<1>5. /\ usart' \in Usarts
      /\ \/ Overflows(usart) /\ SameBytes(usart.fifo, usart'.fifo)
         \/ ~Overflows(usart)
            /\ usart'.fifo = Append(usart.fifo, [byte |-> n, status |-> status])
  BY <1>1, <1>2, <1>4, ArriveTyped
<1>6. /\ Ascending(Chars(usart'.fifo))
      /\ \/ n \in excused' /\ Elements(Chars(usart'.fifo)) = Elements(Chars(usart.fifo))
         \/ Elements(Chars(usart'.fifo)) = Elements(Chars(usart.fifo)) \cup {n}
      /\ \A k \in excused : k \in excused'
  <2>1. CASE Overflows(usart) /\ SameBytes(usart.fifo, usart'.fifo)
    <3>1. usart'.fifo \in Seq(Item)
      BY <1>5 DEF Usarts
    <3>2. excused' = excused \cup {n}
      BY <1>4, <2>1 DEF ByteArrives
    <3>3. Ascending(Chars(usart.fifo))
      BY <1>3 DEF QueueInv
    <3> QED
      BY <1>2, <2>1, <3>1, <3>2, <3>3, CharsSame DEF SameBytes
  <2>2. CASE ~Overflows(usart)
             /\ usart'.fifo = Append(usart.fifo, [byte |-> n, status |-> status])
    <3>1. PICK e \in Item : e = [byte |-> n, status |-> status] /\ e.byte = n
      <4>1. [byte |-> n, status |-> status] \in Item
        BY <1>2 DEF Item
      <4> QED
        BY <4>1
    <3>2. Ascending(Chars(usart.fifo)) /\ \A x \in Elements(Chars(usart.fifo)) : x < e.byte
      BY <1>2, <1>3, <1>4, <3>1 DEF QueueInv
    <3>3. excused' = excused
      BY <2>2 DEF ByteArrives
    <3> QED
      BY <1>2, <2>2, <3>1, <3>2, <3>3, CharsAppend
  <2> QED
    BY <1>5, <2>1, <2>2
<1>7. \A k : k \in 1 .. n <=> k \in 1 .. arrived \/ k = n
  BY <1>2, <1>4
<1>8. /\ Less(Elements(host), {n}) /\ Less(Stored(tx), {n})
  BY <1>2, <1>3, <1>4 DEF HostInv, QueueInv, Less
<1>9. QueueInv(tx, job, usart.fifo)'
  <2>1. Less(Elements(host), Elements(Chars(usart'.fifo)))
    BY <1>3, <1>6, <1>8 DEF QueueInv, Less
  <2>2. Less(Stored(tx), Elements(Chars(usart'.fifo)))
    BY <1>3, <1>6, <1>8 DEF QueueInv, Less
  <2>3. Elements(Chars(usart'.fifo)) \subseteq 1 .. n /\ Stored(tx) \subseteq 1 .. n
    BY <1>3, <1>6, <1>7 DEF QueueInv
  <2> QED
    BY <1>1, <1>3, <1>4, <1>6, <2>1, <2>2, <2>3 DEF QueueInv
<1>10. LostInv(tx, job, usart.fifo)'
  BY <1>1, <1>3, <1>4, <1>6, <1>7 DEF LostInv
<1>11. HostInv'
  BY <1>1, <1>3, <1>4, <1>7 DEF HostInv
<1> QED
  BY <1>1, <1>9, <1>10, <1>11 DEF OrderInv

LEMMA UsartInterruptOrder ==
    ASSUME IInv, OrderInv, UsartInterrupt
    PROVE  OrderInv'
<1>1. /\ tx.running /\ tx'.running /\ IInv' /\ job' = job
      /\ usart.fifo # <<>>
      /\ UNCHANGED <<arrived, host>>
  BY UsartInterruptStep DEF UsartInterrupt, InterruptPending, OrderInv
<1>2. /\ tx \in TxType /\ tx' \in TxType /\ job \in JobType /\ Agree(tx, job)
      /\ usart.fifo \in Seq(Item) /\ usart'.fifo \in Seq(Item)
      /\ Lo(tx, job) <= tx.nb[Other(tx.sel)] /\ arrived \in Nat
  <2>1. tx' \in TxType /\ usart' \in Usarts
    BY <1>1 DEF IInv, FwInv, States, Fw
  <2>2. usart'.fifo \in Seq(Item)
    BY <2>1 DEF Usarts
  <2> QED
    BY <1>1, <2>1, <2>2, OtherParts
<1>3. QueueInv(tx, job, usart.fifo) /\ LostInv(tx, job, usart.fifo) /\ HostInv
  BY <1>1 DEF OrderInv
<1>4. CASE ~TakesByte(usart) /\ tx' = tx /\ SameBytes(usart.fifo, usart'.fifo)
  <2>1. /\ Elements(Chars(usart'.fifo)) = Elements(Chars(usart.fifo))
        /\ Ascending(Chars(usart'.fifo))
    BY <1>2, <1>3, <1>4, CharsSame DEF SameBytes, QueueInv
  <2>2. excused' = excused
    BY <1>4 DEF UsartInterrupt
  <2> QED
    BY <1>1, <1>3, <1>4, <2>1, <2>2, BuffersTurned DEF QueueInv
<1>5. ASSUME TakesByte(usart), NEW byte \in Byte, Moved(byte)
      PROVE  OrderInv'
  <2>1. byte = Head(usart.fifo).byte /\ usart'.fifo = Tail(usart.fifo)
    BY <1>5 DEF Moved
  <2>2. /\ Ascending(Chars(usart'.fifo))
        /\ Elements(Chars(usart.fifo)) = {byte} \cup Elements(Chars(usart'.fifo))
        /\ \A x \in Elements(Chars(usart'.fifo)) : byte < x
    BY <1>1, <1>2, <1>3, <2>1, CharsTail DEF QueueInv
  <2>3. \A x \in Stored(tx) : x < byte
    BY <1>3, <2>2 DEF QueueInv, Less
  <2>4. CASE TxReady(tx) /\ Added(tx, job, tx', byte)
    <3>1. /\ Rising(tx') /\ Stored(tx') \subseteq Stored(tx) \cup {byte}
          /\ Pending(tx', job) = Pending(tx, job) \cup {byte}
      BY <1>2, <1>3, <2>3, <2>4, AddedOrder DEF QueueInv
    <3>2. QueueInv(tx, job, usart.fifo)'
      BY <1>1, <1>3, <2>2, <3>1 DEF QueueInv, Less
    <3>3. \A k \in excused : k \in excused'
      BY DEF UsartInterrupt
    <3>4. LostInv(tx, job, usart.fifo)'
      BY <1>1, <1>3, <2>2, <3>1, <3>3 DEF LostInv
    <3>5. HostInv'
      BY <1>1, <1>3 DEF HostInv
    <3> QED
      BY <1>1, <3>2, <3>4, <3>5 DEF OrderInv
  <2>5. CASE ~TxReady(tx) /\ tx' = tx
    <3>1. /\ tx.nb[tx.sel] = TxBuffers
          /\ tx.ongoing \/ tx.nb[Other(tx.sel)] = TxBuffers
      <4>1. tx.nb[tx.sel] \in 0 .. TxBuffers
        BY <1>2, TxParts
      <4>2. ~TxMoves(tx) /\ tx.nb[tx.sel] = TxBuffers
        BY <2>5, <4>1, Sizes DEF TxReady, FreeTxBuffer
      <4> QED
        BY <1>2, <4>2 DEF Agree, TxMoves
    <3>2. excused' = excused \cup {byte}
      BY <1>5, <2>1, <3>1 DEF UsartInterrupt
    <3>3. QueueInv(tx, job, usart.fifo)'
      BY <1>1, <1>3, <2>2, <2>5 DEF QueueInv, Less
    <3>4. LostInv(tx, job, usart.fifo)'
      BY <1>1, <1>3, <2>2, <2>5, <3>2 DEF LostInv
    <3>5. HostInv'
      BY <1>1, <1>3 DEF HostInv
    <3> QED
      BY <1>1, <3>3, <3>4, <3>5 DEF OrderInv
  <2> QED
    BY <1>1, <1>5, <2>4, <2>5 DEF Moved
<1> QED
  BY <1>4, <1>5, UsartInterruptStep

LEMMA HostInOrder ==
    ASSUME IInv, OrderInv, HostIn
    PROVE  OrderInv'
<1>1. tx.running /\ job.armed = TRUE /\ IInv'
  <2>1. tx.running
    BY ParsedInv, JobIdleKept DEF HostIn
  <2>2. job.armed \in BOOLEAN
    BY ParsedInv DEF JobType
  <2> QED
    BY <2>1, <2>2, HostInStep DEF HostIn
<1>2. /\ tx \in TxType /\ job \in JobType /\ Agree(tx, job) /\ host \in Seq(Byte)
  BY <1>1, OtherParts
<1>3. /\ tx.ongoing /\ job.buf = Other(tx.sel) /\ job.size = tx.nb[Other(tx.sel)]
      /\ job.off <= job.size /\ job.buf \in Buffer /\ job.off \in Nat
      /\ job.size \in 0 .. TxBuffers
  BY <1>1, <1>2, Sizes DEF Agree, JobInv, JobType
<1>4. PICK rest \in 0 .. TxBuffers : rest = job.size - job.off
  BY <1>3, Sizes
<1>5. PICK n \in 0 .. rest : n = IF rest < EpSize THEN rest ELSE EpSize
  BY <1>4, Sizes
<1>6. PICK hi \in 0 .. TxBuffers : hi = job.off + n /\ job.off <= hi /\ hi <= job.size
  BY <1>3, <1>4, <1>5, Sizes
<1>7. PICK s : s = Slice(job.buf, job.off, hi)
  OBVIOUS
<1>8. /\ host' = host \o s /\ job'.off = hi
      /\ UNCHANGED <<tx, usart, arrived, excused>>
  <2>1. /\ host' = host \o Slice(job.buf, job.off, job.off + n)
        /\ job' = [job EXCEPT !.off = @ + n, !.armed = n # rest, !.trcpt = n = rest]
        /\ UNCHANGED <<tx, usart, arrived, excused>>
    BY <1>4, <1>5 DEF HostIn
  <2>2. job'.off = job.off + n
    BY <1>2, <2>1 DEF JobType
  <2> QED
    BY <1>6, <1>7, <2>1, <2>2
<1>9. QueueInv(tx, job, usart.fifo) /\ LostInv(tx, job, usart.fifo) /\ HostInv
  BY <1>1 DEF OrderInv
<1>10. /\ s \in Seq(Byte) /\ Ascending(s)
       /\ \A x : x \in Elements(s) <=>
             \E i \in 0 .. TxBuffers - 1 :
                job.off <= i /\ i < hi /\ x = tx.buf[job.buf][i]
  <2>1. Rising(tx) /\ hi <= tx.nb[job.buf]
    BY <1>3, <1>6, <1>9 DEF QueueInv
  <2>2. Ascending(s)
    BY <1>2, <1>3, <1>6, <1>7, <2>1, SliceRises
  <2>3. /\ s \in Seq(Byte)
        /\ \A x : x \in Elements(s) <=>
              \E i \in 0 .. TxBuffers - 1 :
                 job.off <= i /\ i < hi /\ x = tx.buf[job.buf][i]
    <3>1. IsSlice(s, job.buf, job.off, hi)
      BY <1>2, <1>3, <1>6, <1>7, SliceMember
    <3> QED
      BY <3>1 DEF IsSlice
  <2> QED
    BY <2>2, <2>3
<1>11. /\ From(tx, job, job.buf) = job.off /\ From(tx, job, tx.sel) = 0
       /\ From(tx, job', job.buf) = hi /\ From(tx, job', tx.sel) = 0
       /\ tx.sel \in Buffer /\ job.buf # tx.sel
       /\ \A b \in Buffer : b = job.buf \/ b = tx.sel
  BY <1>2, <1>3, <1>8, TxParts, OtherBuffer DEF From, Lo, Buffer, Other
<1>12. \A b \in Buffer, i \in 0 .. TxBuffers - 1 :
          From(tx, job, b) <= i /\ i < tx.nb[b] <=>
          \/ From(tx, job', b) <= i /\ i < tx.nb[b]
          \/ b = job.buf /\ job.off <= i /\ i < hi
  <2> SUFFICES ASSUME NEW b \in Buffer, NEW i \in 0 .. TxBuffers - 1
               PROVE  From(tx, job, b) <= i /\ i < tx.nb[b] <=>
                      \/ From(tx, job', b) <= i /\ i < tx.nb[b]
                      \/ b = job.buf /\ job.off <= i /\ i < hi
    OBVIOUS
  <2>1. CASE b = tx.sel
    BY <1>11, <2>1
  <2>2. CASE b = job.buf
    <3>1. tx.nb[b] = job.size
      BY <1>3, <2>2
    <3> QED
      BY <1>3, <1>6, <1>11, <2>2, <3>1, Sizes
  <2> QED
    BY <1>11, <2>1, <2>2
<1>13. Pending(tx, job) = Elements(s) \cup Pending(tx, job')
  <2>1. ASSUME NEW x \in Pending(tx, job)
        PROVE  x \in Elements(s) \cup Pending(tx, job')
    <3>1. PICK b \in Buffer, i \in 0 .. TxBuffers - 1 :
             x \in Byte /\ From(tx, job, b) <= i /\ i < tx.nb[b] /\ x = tx.buf[b][i]
      BY DEF Pending
    <3> QED
      BY <1>10, <1>12, <3>1 DEF Pending
  <2>2. ASSUME NEW x \in Elements(s)
        PROVE  x \in Pending(tx, job)
    <3>1. PICK i \in 0 .. TxBuffers - 1 : job.off <= i /\ i < hi /\ x = tx.buf[job.buf][i]
      BY <1>10
    <3>2. x \in Byte
      BY <1>2, <1>3, <3>1, BufferTyped
    <3> QED
      BY <1>3, <1>12, <3>1, <3>2 DEF Pending
  <2>3. ASSUME NEW x \in Pending(tx, job')
        PROVE  x \in Pending(tx, job)
    <3>1. PICK b \in Buffer, i \in 0 .. TxBuffers - 1 :
             x \in Byte /\ From(tx, job', b) <= i /\ i < tx.nb[b] /\ x = tx.buf[b][i]
      BY DEF Pending
    <3> QED
      BY <1>12, <3>1 DEF Pending
  <2> QED
    BY <2>1, <2>2, <2>3
<1>14. Less(Elements(s), Pending(tx, job'))
  <2> SUFFICES ASSUME NEW x \in Elements(s), NEW y \in Pending(tx, job')
               PROVE  x < y
    BY DEF Less
  <2>1. PICK i \in 0 .. TxBuffers - 1 : job.off <= i /\ i < hi /\ x = tx.buf[job.buf][i]
    BY <1>10
  <2>2. PICK b \in Buffer, m \in 0 .. TxBuffers - 1 :
           From(tx, job', b) <= m /\ m < tx.nb[b] /\ y = tx.buf[b][m]
    BY DEF Pending
  <2>3. i < tx.nb[job.buf]
    BY <1>3, <1>6, <2>1, Sizes
  <2>4. (job.buf = b /\ i < m) \/ (job.buf # b /\ b = tx.sel)
    <3>1. CASE b = job.buf
      BY <1>6, <1>11, <2>1, <2>2, <3>1, Sizes
    <3> QED
      BY <1>11, <3>1
  <2> QED
    BY <1>3, <1>9, <2>1, <2>2, <2>3, <2>4 DEF QueueInv, Rising
<1>15. Elements(s) \subseteq Stored(tx)
  BY <1>2, <1>13, PendingStored
<1>16. /\ Ascending(host') /\ Elements(host') = Elements(host) \cup Elements(s)
  <2>1. Less(Elements(host), Elements(s)) /\ Ascending(host)
    BY <1>9, <1>13 DEF QueueInv, Less, HostInv
  <2> QED
    BY <1>2, <1>8, <1>10, <2>1, ConcatOrder
<1>17. HostInv'
  BY <1>8, <1>9, <1>15, <1>16 DEF HostInv, QueueInv
<1>18. Less(Elements(host'), Pending(tx, job'))
  BY <1>9, <1>13, <1>14, <1>16 DEF QueueInv, Less
<1>19. Less(Elements(host'), Elements(Chars(usart.fifo)))
  BY <1>9, <1>15, <1>16 DEF QueueInv, Less
<1>20. QueueInv(tx, job, usart.fifo)'
  BY <1>8, <1>9, <1>18, <1>19 DEF QueueInv
<1>21. LostInv(tx, job, usart.fifo)'
  BY <1>8, <1>9, <1>13, <1>16 DEF LostInv
<1> QED
  BY <1>1, <1>8, <1>17, <1>20, <1>21 DEF OrderInv

LEMMA InTransferCompleteOrder ==
    ASSUME IInv, OrderInv, InTransferComplete
    PROVE  OrderInv'
<1>1. /\ tx.running /\ tx'.running /\ IInv' /\ job.off = job.size
      /\ \/ tx' = tx /\ job'.off = job.off
         \/ Sent(tx, tx', job')
  BY InTransferCompleteStep
<1>2. /\ tx \in TxType /\ tx' \in TxType /\ Agree(tx, job) /\ job \in JobType
      /\ usart' = usart
      /\ UNCHANGED <<arrived, host, excused>>
  <2>1. tx' \in TxType
    BY <1>1 DEF IInv, FwInv, States, Fw
  <2>2. usart' = usart
    <3>1. PICK s : s = [Fw EXCEPT !.job = JobIdle]
      OBVIOUS
    <3>2. s \in States /\ s.usart = usart /\ s.job = JobIdle
      BY <3>1, ParsedInv, FwParts, JobIdleKept DEF States
    <3>3. frame \in 0 .. Frames - 1
      BY DEF IInv, Outside
    <3>4. PICK t : t = DataSent(s)
      OBVIOUS
    <3>5. t.usart = usart
      BY <3>2, <3>3, <3>4, DataSentKeeps
    <3>6. PICK z : z = [Fw EXCEPT !.job.zlp = FALSE, !.job.armed = TRUE, !.job.trcpt = FALSE]
      OBVIOUS
    <3>7. z.usart = usart
      BY <3>6 DEF Fw
    <3> QED
      BY <3>1, <3>4, <3>5, <3>6, <3>7 DEF InTransferComplete, Becomes
  <2> QED
    BY <1>1, <2>1, <2>2, OtherParts DEF InTransferComplete
<1>3. QueueInv(tx, job, usart.fifo)
  BY <1>1 DEF OrderInv
<1>4. /\ Rising(tx') /\ Stored(tx') \subseteq Stored(tx)
      /\ Pending(tx', job') = Pending(tx, job)
  <2>1. CASE tx' = tx /\ job'.off = job.off
    BY <1>3, <2>1 DEF QueueInv, Pending, From, Lo
  <2>2. CASE Sent(tx, tx', job')
    <3>1. Lo(tx, job) = tx.nb[Other(tx.sel)]
      <4>1. job.trcpt = TRUE
        BY <1>2 DEF InTransferComplete, JobType
      <4> QED
        BY <1>1, <1>2, <4>1 DEF Agree, JobInv, Lo
    <3>2. Rising(tx) /\ tx \in TxType /\ tx' \in TxType
      BY <1>2, <1>3 DEF QueueInv
    <3> QED
      BY <2>2, <3>1, <3>2, SentOrder
  <2> QED
    BY <1>1, <2>1, <2>2
<1> QED
  BY <1>1, <1>2, <1>3, <1>4, BuffersTurned DEF QueueInv

LEMMA SofInterruptOrder ==
    ASSUME IInv, OrderInv, SofInterrupt
    PROVE  OrderInv'
<1>1. /\ IInv' /\ tx'.running = tx.running /\ usart' = usart
      /\ tx.running => Turned(tx, job, tx', job')
      /\ UNCHANGED <<arrived, host, excused>>
  BY SofInterruptStep DEF SofInterrupt
<1>2. CASE tx.running
  <2>1. QueueInv(tx, job, usart.fifo) /\ tx \in TxType /\ tx' \in TxType
    BY <1>1, <1>2, ParsedInv DEF OrderInv, IInv, FwInv, States, Fw
  <2>2. /\ Rising(tx') /\ Stored(tx') = Stored(tx)
        /\ Pending(tx', job') = Pending(tx, job)
    BY <1>1, <1>2, <2>1, TurnedOrder DEF QueueInv
  <2> QED
    BY <1>1, <1>2, <2>1, <2>2, BuffersTurned DEF QueueInv
<1>3. CASE ~tx.running
  <2>1. LostInv(tx, job, usart.fifo)'
    BY <1>1, <1>3 DEF OrderInv, LostInv
  <2> QED
    BY <1>1, <1>3, <2>1 DEF OrderInv, HostInv
<1> QED
  BY <1>2, <1>3

LEMMA LineCodingOrder ==
    ASSUME IInv, OrderInv, NEW baudOk \in BOOLEAN, LineCodingReceived(baudOk)
    PROVE  OrderInv'
<1>1. /\ IInv' /\ usart'.fifo = <<>> /\ tx.running
      /\ excused' = excused \cup Elements(Received)
      /\ UNCHANGED <<tx, job, arrived, host>>
  BY LineCodingStep DEF LineCodingReceived
<1>2. usart'.fifo \in Seq(Item)
  <2>1. usart' \in Usarts
    BY <1>1 DEF IInv, FwInv, States, Fw
  <2> QED
    BY <2>1 DEF Usarts
<1>3. Ascending(Chars(usart'.fifo)) /\ Elements(Chars(usart'.fifo)) = {}
  BY <1>1, <1>2, CharsEmpty
<1>4. QueueInv(tx, job, usart.fifo) /\ LostInv(tx, job, usart.fifo) /\ HostInv
  BY <1>1 DEF OrderInv
<1>5. QueueInv(tx, job, usart.fifo)'
  BY <1>1, <1>3, <1>4 DEF QueueInv, Less
<1>6. Received = Chars(usart.fifo)
  BY DEF Received, Chars
<1>7. LostInv(tx, job, usart.fifo)'
  BY <1>1, <1>4, <1>6 DEF LostInv
<1>8. HostInv'
  BY <1>1, <1>4 DEF HostInv
<1> QED
  BY <1>1, <1>5, <1>7, <1>8 DEF OrderInv

(* The requests that enable the data interface, or disable it. *)
LEMMA RestartOrder ==
    ASSUME IInv, OrderInv, SetInterfaceData \/ Reset \/ SetConfiguration
    PROVE  OrderInv'
<1>1. HostInv /\ UNCHANGED <<arrived, host>>
  BY DEF OrderInv, SetInterfaceData, Reset, SetConfiguration
<1>2. ASSUME SetInterfaceData \/ SetConfiguration
      PROVE  OrderInv'
  <2>1. IInv' /\ Emptied(tx', usart')
    BY <1>2, SetInterfaceStep, SetConfigurationStep
  <2>2. tx' \in TxType /\ usart' \in Usarts
    BY <2>1 DEF IInv, FwInv, States, Fw
  <2>3. usart'.fifo \in Seq(Item)
    BY <2>2 DEF Usarts
  <2>4. \A k \in 1 .. arrived : k \in Elements(host) \/ k \in excused'
    <3>1. CASE SetInterfaceData
      BY <3>1 DEF SetInterfaceData
    <3>2. CASE SetConfiguration
      BY <3>2 DEF SetConfiguration, OrderInv, LostInv
    <3> QED
      BY <1>2, <3>1, <3>2
  <2> QED
    BY <1>1, <2>1, <2>2, <2>3, <2>4, StartsEmpty
<1>3. CASE Reset
  <2>1. ~tx'.running /\ ~usart'.enabled
    BY <1>3, ResetStep
  <2>2. LostInv(tx, job, usart.fifo)'
    BY <1>1, <1>3 DEF Reset, LostInv
  <2>3. HostInv'
    BY <1>1 DEF HostInv
  <2> QED
    BY <2>1, <2>2, <2>3 DEF OrderInv
<1> QED
  BY <1>2, <1>3

-----------------------------------------------------------------------------
(* The theorems *)

(* The bytes between the UART line and the host stay in order. *)
THEOREM OrderInvariance == Spec => []OrderInv
<1>1. Init => OrderInv
  <2> SUFFICES ASSUME Init
               PROVE  OrderInv
    OBVIOUS
  <2>1. host = <<>> /\ arrived = 0 /\ ~tx.running /\ ~usart.enabled
    BY DEF Init, CdcReset, UsartReset
  <2>2. Len(host) = 0 /\ \A i \in 1 .. 0 : FALSE
    BY <2>1
  <2>3. HostInv
    <3>1. Ascending(host)
      BY <2>2 DEF Ascending
    <3>2. \A x : ~(x \in Elements(host))
      BY <2>2 DEF Elements
    <3> QED
      BY <3>1, <3>2 DEF HostInv
  <2>4. LostInv(tx, job, usart.fifo)
    BY <2>1, <2>2 DEF LostInv
  <2> QED
    BY <2>1, <2>3, <2>4 DEF OrderInv
<1>2. IInv /\ OrderInv /\ [Next]_vars => OrderInv'
  <2> SUFFICES ASSUME IInv, OrderInv, [Next]_vars
               PROVE  OrderInv'
    OBVIOUS
  <2>1. ASSUME NEW status \in 0 .. LineErrors, ByteArrives(status)
        PROVE  OrderInv'
    BY <2>1, ByteArrivesOrder
  <2>2. CASE FrameStart \/ UNCHANGED vars
    BY <2>2 DEF FrameStart, vars, OrderInv, HostInv, QueueInv, LostInv
  <2>3. CASE HostIn
    BY <2>3, HostInOrder
  <2>4. CASE UsartInterrupt
    BY <2>4, UsartInterruptOrder
  <2>5. CASE InTransferComplete
    BY <2>5, InTransferCompleteOrder
  <2>6. CASE SofInterrupt
    BY <2>6, SofInterruptOrder
  <2>7. ASSUME NEW baudOk \in BOOLEAN, LineCodingReceived(baudOk)
        PROVE  OrderInv'
    BY <2>7, LineCodingOrder
  <2>8. CASE SetInterfaceData \/ Reset \/ SetConfiguration
    BY <2>8, RestartOrder
  <2> QED
    BY <2>1, <2>2, <2>3, <2>4, <2>5, <2>6, <2>7, <2>8 DEF Next
<1> QED
  BY <1>1, <1>2, Invariance, PTL DEF Spec

LEMMA StagesAre ==
    ASSUME IInv, OrderInv, tx.running
    PROVE  /\ Stages = <<host, InFlight, Waiting, Received>>
           /\ Ascending(InFlight) /\ Ascending(Waiting) /\ Ascending(Received)
           /\ Less(Elements(InFlight), Elements(Waiting))
           /\ Elements(InFlight) \cup Elements(Waiting) = Pending(tx, job)
           /\ Received = Chars(usart.fifo)
<1>1. /\ tx \in TxType /\ job \in JobType /\ Agree(tx, job)
      /\ Lo(tx, job) \in 0 .. tx.nb[Other(tx.sel)]
  BY OtherParts
<1>2. QueueInv(tx, job, usart.fifo)
  BY DEF OrderInv
<1>3. PICK o \in Buffer : o = Other(tx.sel)
  BY <1>1, TxParts
<1>4. /\ tx.sel \in Buffer /\ o # tx.sel /\ \A b \in Buffer : b = o \/ b = tx.sel
  BY <1>1, <1>3, TxParts, OtherBuffer DEF Buffer, Other
<1>5. PICK n \in 0 .. TxBuffers : n = tx.nb[o]
  BY <1>1, BufferTyped
<1>6. PICK m \in 0 .. TxBuffers : m = tx.nb[tx.sel]
  BY <1>1, TxParts
<1>7. PICK lo \in 0 .. n : lo = Lo(tx, job)
  BY <1>1, <1>3, <1>5
<1>8. InFlight = Slice(o, lo, n)
  <2>1. CASE tx.ongoing
    <3>1. job.buf = o /\ job.size = n /\ job.off = lo
      BY <1>1, <1>3, <1>5, <1>7, <2>1 DEF Agree, Lo
    <3> QED
      BY <2>1, <3>1 DEF InFlight
  <2>2. CASE ~tx.ongoing
    BY <1>3, <1>5, <1>7, <2>2 DEF InFlight, Lo
  <2> QED
    BY <2>1, <2>2
<1>9. Waiting = Slice(tx.sel, 0, m)
  BY <1>6 DEF Waiting
<1>10. IsSlice(InFlight, o, lo, n) /\ IsSlice(Waiting, tx.sel, 0, m)
  <2>1. IsSlice(Slice(o, lo, n), o, lo, n)
    BY <1>1, <1>5, <1>7, SliceMember
  <2>2. IsSlice(Slice(tx.sel, 0, m), tx.sel, 0, m)
    BY <1>1, <1>4, <1>6, SliceMember
  <2> QED
    BY <1>8, <1>9, <2>1, <2>2
<1>11. Ascending(InFlight) /\ Ascending(Waiting)
  <2>1. Rising(tx)
    BY <1>2 DEF QueueInv
  <2>2. Ascending(Slice(o, lo, n))
    BY <1>1, <1>5, <1>7, <2>1, SliceRises
  <2>3. Ascending(Slice(tx.sel, 0, m))
    BY <1>1, <1>4, <1>6, <2>1, SliceRises
  <2> QED
    BY <1>8, <1>9, <2>2, <2>3
<1>12. Less(Elements(InFlight), Elements(Waiting))
  <2> SUFFICES ASSUME NEW x \in Elements(InFlight), NEW y \in Elements(Waiting)
               PROVE  x < y
    BY DEF Less
  <2>1. PICK i \in 0 .. TxBuffers - 1 : i < n /\ x = tx.buf[o][i]
    BY <1>10 DEF IsSlice
  <2>2. PICK k \in 0 .. TxBuffers - 1 : k < m /\ y = tx.buf[tx.sel][k]
    BY <1>10 DEF IsSlice
  <2> QED
    BY <1>2, <1>4, <1>5, <1>6, <2>1, <2>2 DEF QueueInv, Rising
<1>13. Elements(InFlight) \cup Elements(Waiting) = Pending(tx, job)
  <2>1. From(tx, job, o) = lo /\ From(tx, job, tx.sel) = 0
    BY <1>4, <1>7 DEF From
  <2>2. ASSUME NEW x \in Elements(InFlight) \cup Elements(Waiting)
        PROVE  x \in Pending(tx, job)
    <3>1. PICK b \in Buffer, i \in 0 .. TxBuffers - 1 :
             From(tx, job, b) <= i /\ i < tx.nb[b] /\ x = tx.buf[b][i]
      <4>1. CASE x \in Elements(InFlight)
        <5>1. PICK i \in 0 .. TxBuffers - 1 : lo <= i /\ i < n /\ x = tx.buf[o][i]
          BY <1>10, <4>1 DEF IsSlice
        <5> QED
          BY <1>5, <2>1, <5>1
      <4>2. CASE x \in Elements(Waiting)
        <5>1. PICK i \in 0 .. TxBuffers - 1 : 0 <= i /\ i < m /\ x = tx.buf[tx.sel][i]
          BY <1>10, <4>2 DEF IsSlice
        <5> QED
          BY <1>4, <1>6, <2>1, <5>1
      <4> QED
        BY <2>2, <4>1, <4>2
    <3>2. x \in Byte
      BY <1>1, <3>1, BufferTyped
    <3> QED
      BY <3>1, <3>2 DEF Pending
  <2>3. ASSUME NEW x \in Pending(tx, job)
        PROVE  x \in Elements(InFlight) \cup Elements(Waiting)
    <3>1. PICK b \in Buffer, i \in 0 .. TxBuffers - 1 :
             From(tx, job, b) <= i /\ i < tx.nb[b] /\ x = tx.buf[b][i]
      BY DEF Pending
    <3>2. CASE b = o
      BY <1>5, <1>10, <2>1, <3>1, <3>2 DEF IsSlice
    <3>3. CASE b = tx.sel
      BY <1>6, <1>10, <2>1, <3>1, <3>3 DEF IsSlice
    <3> QED
      BY <1>4, <3>2, <3>3
  <2> QED
    BY <2>2, <2>3
<1>14. Received = Chars(usart.fifo) /\ Ascending(Received)
  BY <1>2 DEF Received, Chars, QueueInv
<1> QED
  BY <1>11, <1>12, <1>13, <1>14 DEF Stages

LEMMA LessBefore ==
    ASSUME NEW s, NEW t, Less(Elements(s), Elements(t))
    PROVE  Before(s, t)
  BY DEF Less, Elements, Before

(* The host reads the bytes of the UART in order and none twice: what is   *)
(* at the host, on its way, waiting and received rises, each part below    *)
(* the next.                                                               *)
THEOREM OrderKept == Spec => []InOrder
<1>1. IInv /\ OrderInv => InOrder
  <2> SUFFICES ASSUME IInv, OrderInv
               PROVE  InOrder
    OBVIOUS
  <2>1. CASE tx.running
    <3>1. PICK p : p = InFlight
      OBVIOUS
    <3>2. PICK w : w = Waiting
      OBVIOUS
    <3>3. PICK r : r = Received
      OBVIOUS
    <3>4. PICK s : s = Stages
      OBVIOUS
    <3>5. /\ s = <<host, p, w, r>>
          /\ Ascending(p) /\ Ascending(w) /\ Ascending(r)
          /\ Less(Elements(p), Elements(w))
          /\ Elements(p) \cup Elements(w) = Pending(tx, job)
          /\ Elements(r) = Elements(Chars(usart.fifo))
      BY <2>1, <3>1, <3>2, <3>3, <3>4, StagesAre
    <3>6. QueueInv(tx, job, usart.fifo) /\ Ascending(host) /\ tx \in TxType
      BY <2>1, OtherParts DEF OrderInv, HostInv
    <3>7. /\ Less(Elements(host), Elements(p)) /\ Less(Elements(host), Elements(w))
          /\ Less(Elements(host), Elements(r))
      BY <3>5, <3>6 DEF QueueInv, Less
    <3>8. Pending(tx, job) \subseteq Stored(tx)
      BY <3>6, PendingStored
    <3>9. Less(Elements(p), Elements(r)) /\ Less(Elements(w), Elements(r))
      BY <3>5, <3>6, <3>8 DEF QueueInv, Less
    <3>10. /\ Before(host, p) /\ Before(host, w) /\ Before(host, r)
           /\ Before(p, w) /\ Before(p, r) /\ Before(w, r)
      BY <3>5, <3>7, <3>9, LessBefore
    <3>11. /\ DOMAIN s = 1 .. 4
           /\ s[1] = host /\ s[2] = p /\ s[3] = w /\ s[4] = r
      BY <3>5
    <3>12. ASSUME NEW a \in 1 .. 4, NEW b \in 1 .. 4
           PROVE  Ascending(s[a]) /\ (a < b => Before(s[a], s[b]))
      <4>1. Ascending(s[a])
        <5>1. a = 1 \/ a = 2 \/ a = 3 \/ a = 4
          OBVIOUS
        <5> QED
          BY <3>5, <3>6, <3>11, <5>1, Zenon
      <4>2. ASSUME a < b
            PROVE  Before(s[a], s[b])
        <5>1. \/ a = 1 /\ b = 2
              \/ a = 1 /\ b = 3
              \/ a = 1 /\ b = 4
              \/ a = 2 /\ b = 3
              \/ a = 2 /\ b = 4
              \/ a = 3 /\ b = 4
          BY <4>2
        <5> QED
          BY <3>10, <3>11, <5>1
      <4> QED
        BY <4>1, <4>2
    <3> QED
      BY <3>4, <3>11, <3>12 DEF InOrder
  <2>2. CASE ~tx.running
    <3>1. Stages = <<host>> /\ Ascending(host)
      BY <2>2 DEF Stages, OrderInv, HostInv
    <3>2. PICK s : s = Stages
      OBVIOUS
    <3>3. DOMAIN s = 1 .. 1 /\ s[1] = host
      BY <3>1, <3>2
    <3>4. ASSUME NEW a \in 1 .. 1, NEW b \in 1 .. 1
          PROVE  Ascending(s[a]) /\ ~(a < b)
      BY <3>1, <3>3
    <3> QED
      BY <3>2, <3>3, <3>4 DEF InOrder
  <2> QED
    BY <2>1, <2>2
<1> QED
  BY <1>1, Invariance, OrderInvariance, PTL

(* A byte is missing only where the code has to drop it: the receiver was  *)
(* full, both buffers were, or a control request emptied them.             *)
THEOREM LossesExcused == Spec => []OnlyOverrunsLoseBytes
<1>1. IInv /\ OrderInv => OnlyOverrunsLoseBytes
  <2> SUFFICES ASSUME IInv, OrderInv, NEW k \in 1 .. arrived, k \notin excused
               PROVE  k \in Held
    BY DEF OnlyOverrunsLoseBytes
  <2>1. LostInv(tx, job, usart.fifo)
    BY DEF OrderInv
  <2>2. CASE tx.running
    <3>1. PICK s : s = Stages
      OBVIOUS
    <3>2. /\ s = <<host, InFlight, Waiting, Received>>
          /\ Elements(InFlight) \cup Elements(Waiting) = Pending(tx, job)
          /\ Received = Chars(usart.fifo)
      BY <2>2, <3>1, StagesAre
    <3>3. \/ k \in Elements(host) \/ k \in Elements(InFlight)
          \/ k \in Elements(Waiting) \/ k \in Elements(Received)
      BY <2>1, <3>2 DEF LostInv
    <3>4. /\ 1 \in DOMAIN s /\ 2 \in DOMAIN s /\ 3 \in DOMAIN s /\ 4 \in DOMAIN s
          /\ s[1] = host /\ s[2] = InFlight /\ s[3] = Waiting /\ s[4] = Received
      BY <3>2
    <3>5. PICK a \in DOMAIN s : k \in Elements(s[a])
      BY <3>3, <3>4
    <3> QED
      BY <3>1, <3>5 DEF Held
  <2>3. CASE ~tx.running
    <3>1. PICK s : s = Stages
      OBVIOUS
    <3>2. s = <<host>>
      BY <2>3, <3>1 DEF Stages
    <3>3. 1 \in DOMAIN s /\ s[1] = host
      BY <3>2
    <3>4. k \in Elements(s[1])
      BY <2>1, <2>3, <3>3 DEF LostInv
    <3> QED
      BY <3>1, <3>3, <3>4 DEF Held
  <2> QED
    BY <2>2, <2>3
<1> QED
  BY <1>1, Invariance, OrderInvariance, PTL

(* Seen from outside this half of the bridge is a wire that may lose bytes *)
(* but keeps their order: what the host has read stays, and grows behind.  *)
THEOREM Refinement == Spec => ImplementsLossyWire
<1>1. Init => Abstract!Init
  BY DEF Init, Abstract!Init
<1>2. IInv /\ OrderInv /\ OrderInv' /\ [Next]_vars => [Abstract!Next]_<<arrived, host>>
  <2> SUFFICES ASSUME IInv, OrderInv, OrderInv', [Next]_vars
               PROVE  Abstract!Next \/ UNCHANGED <<arrived, host>>
    OBVIOUS
  <2>1. ASSUME NEW status \in 0 .. LineErrors, ByteArrives(status)
        PROVE  Abstract!Next
    <3>1. /\ arrived \in Nat /\ MaxBytes \in Nat /\ arrived < MaxBytes
          /\ arrived' = arrived + 1 /\ host' = host
      BY <2>1, Sizes DEF ByteArrives, IInv, Outside
    <3>2. arrived' \in arrived .. MaxBytes
      BY <3>1
    <3> QED
      BY <3>1, <3>2 DEF Abstract!Next, Abstract!Send
  <2>2. CASE HostIn
    <3>1. PICK s \in Seq(Byte) : host' = host \o s
      <4>1. tx.running
        BY <2>2, ParsedInv, JobIdleKept DEF HostIn
      <4>2. /\ tx \in TxType /\ job \in JobType /\ Agree(tx, job)
        BY <4>1, OtherParts
      <4>3. PICK rest \in 0 .. TxBuffers : rest = job.size - job.off
        BY <4>2, Sizes DEF Agree, JobInv, JobType
      <4>4. PICK n \in 0 .. rest : n = IF rest < EpSize THEN rest ELSE EpSize
        BY <4>3, Sizes
      <4>5. PICK hi \in 0 .. TxBuffers : hi = job.off + n
        BY <4>2, <4>3, <4>4, Sizes DEF JobType
      <4>6. host' = host \o Slice(job.buf, job.off, hi)
        BY <2>2, <4>3, <4>4, <4>5 DEF HostIn
      <4>7. job.buf \in Buffer /\ job.off \in Nat /\ job.off <= hi
        BY <4>2, <4>4, <4>5 DEF JobType
      <4>8. Slice(job.buf, job.off, hi) \in Seq(Byte)
        BY <4>2, <4>5, <4>7, SliceTyped
      <4> QED
        BY <4>6, <4>8
    <3>2. host \in Seq(Byte)
      BY DEF IInv, Outside
    <3>3. \A i \in 1 .. Len(host) : i <= Len(host') /\ host'[i] = host[i]
      <4>1. PICK j \in Nat : j = Len(host)
        BY <3>2, LenProperties
      <4>2. PICK k \in Nat : k = Len(s)
        BY LenProperties
      <4>3. /\ Len(host') = j + k
            /\ \A i \in 1 .. j + k : host'[i] = IF i <= j THEN host[i] ELSE s[i - j]
        BY <3>1, <3>2, <4>1, <4>2, ConcatProperties
      <4> QED
        BY <4>1, <4>3
    <3>4. arrived' = arrived
      BY <2>2 DEF HostIn
    <3>5. HostInv'
      BY DEF OrderInv
    <3>6. \A i \in 1 .. Len(host') : host'[i] \in 1 .. arrived
      BY <3>4, <3>5 DEF HostInv, Elements
    <3>7. \A i, k \in 1 .. Len(host') : i < k => host'[i] < host'[k]
      BY <3>5 DEF HostInv, Ascending
    <3> QED
      BY <3>3, <3>4, <3>6, <3>7 DEF Abstract!Next, Abstract!Deliver
  <2>3. CASE \/ FrameStart \/ UsartInterrupt \/ InTransferComplete \/ SofInterrupt
             \/ \E baudOk \in BOOLEAN : LineCodingReceived(baudOk)
             \/ SetInterfaceData \/ Reset \/ SetConfiguration \/ UNCHANGED vars
    BY <2>3 DEF FrameStart, UsartInterrupt, InTransferComplete, SofInterrupt,
                LineCodingReceived, SetInterfaceData, Reset, SetConfiguration, vars
  <2> QED
    BY <2>1, <2>2, <2>3 DEF Next
<1> QED
  BY <1>1, <1>2, Invariance, OrderInvariance, PTL
  DEF Spec, ImplementsLossyWire, Abstract!Spec

=============================================================================
