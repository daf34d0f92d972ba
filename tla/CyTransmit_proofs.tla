------------------------- MODULE CyTransmit_proofs -------------------------
(* Proofs of the safety invariants of CyTransmit, for any number of writes *)
(* and processors, writes of any length and buffers of any size.           *)
EXTENDS CyTransmit, CyPort_proofs

Pairs == Irps \X Nat
Sent == wire \o tx

(* The bytes the writes have copied, from how many each has.               *)
CopiedBy(off) == UNION {{i} \X (1..off[i]) : i \in Irps}

(* What WriteInOrder says of what is sent, what is lost and the offsets.   *)
InOrder(s, g, off) ==
  /\ \A m, n \in DOMAIN s : m < n /\ s[m][1] = s[n][1] => s[m][2] < s[n][2]
  /\ Bytes(s) \cup g = CopiedBy(off)
  /\ Bytes(s) \cap g = {}

BuffersOK ==
  /\ tx \in Seq(Pairs) /\ Len(tx) <= RingSize /\ wire \in Seq(Pairs)
  /\ txRdy \in BOOLEAN
OffsetsOK == offset \in [Irps -> Nat] /\ \A i \in Irps : offset[i] <= Length[i]
WholeIfOk == \A i \in Irps : pos[i] = "ok" => offset[i] = Length[i]

(* The inductive invariant.                                                *)
Inv == PortInv /\ BuffersOK /\ OffsetsOK /\ WholeIfOk /\ InOrder(Sent, gone, offset)

-----------------------------------------------------------------------------
(* What keeps bytes in order.                                              *)

(* The constants are numbers.                                              *)
LEMMA Numbers ==
  /\ FifoSize \in Nat /\ RingSize \in Nat
  /\ \A i \in Irps : Length[i] \in Nat
BY TransmitAssumption

(* Three sequences one after the other, put together either way.           *)
LEMMA Regroup ==
  ASSUME NEW s \in Seq(Pairs), NEW t \in Seq(Pairs), NEW u \in Seq(Pairs)
  PROVE  (s \o t) \o u = s \o (t \o u)
<1>. DEFINE Regroups(S) == \A a, b, c \in Seq(S) : (a \o b) \o c = a \o (b \o c)
<1>1. \A S : Regroups(S)
  BY ConcatAssociative, Zenon
<1>. HIDE DEF Regroups
<1>2. Regroups(Pairs)
  BY <1>1
<1>. QED
  BY <1>2, Zenon DEF Regroups

(* The bytes of two sequences, one after the other.                        *)
LEMMA ConcatBytes ==
  ASSUME NEW s \in Seq(Pairs), NEW t \in Seq(Pairs)
  PROVE  Bytes(s \o t) = Bytes(s) \cup Bytes(t)
<1>1. Elements(s \o t) = Elements(s) \cup Elements(t)
  BY ConcatElements
<1>. QED
  BY <1>1 DEF Bytes, Elements

(* Losing the end of the sequence.                                         *)
LEMMA InOrderCut ==
  ASSUME NEW s \in Seq(Pairs), NEW t \in Seq(Pairs), NEW g, NEW off, InOrder(s \o t, g, off)
  PROVE  InOrder(s, g \cup Bytes(t), off)
<1>1. /\ Len(s) \in Nat /\ Len(t) \in Nat /\ DOMAIN s = 1..Len(s) /\ DOMAIN t = 1..Len(t)
  BY LenProperties
<1>2. /\ s \o t \in Seq(Pairs) /\ Len(s \o t) = Len(s) + Len(t)
      /\ \A k \in 1..Len(s) + Len(t) :
           (s \o t)[k] = IF k <= Len(s) THEN s[k] ELSE t[k - Len(s)]
  BY ConcatProperties
<1>3. DOMAIN (s \o t) = 1..(Len(s) + Len(t))
  BY <1>2, LenProperties
<1>4. Bytes(s \o t) = Bytes(s) \cup Bytes(t)
  BY ConcatBytes
<1>5. \A m \in DOMAIN s : m \in DOMAIN (s \o t) /\ (s \o t)[m] = s[m]
  BY <1>1, <1>2, <1>3
<1>6. \A m, n \in DOMAIN s : m < n /\ s[m][1] = s[n][1] => s[m][2] < s[n][2]
  BY <1>5 DEF InOrder
<1>7. Bytes(s) \cap Bytes(t) = {}
  <2>1. ASSUME NEW m \in DOMAIN s, NEW n \in DOMAIN t
        PROVE  s[m] # t[n]
    <3>1. n + Len(s) \in 1..Len(s) + Len(t) /\ m < n + Len(s)
          /\ ~(n + Len(s) <= Len(s)) /\ (n + Len(s)) - Len(s) = n
      BY <1>1
    <3>2. (s \o t)[m] = s[m] /\ (s \o t)[n + Len(s)] = t[n] /\ m \in DOMAIN (s \o t)
      BY <1>2, <1>5, <3>1
    <3>3. s[m][1] = t[n][1] => s[m][2] < t[n][2]
      BY <1>3, <3>1, <3>2 DEF InOrder
    <3>4. s[m] \in Pairs /\ t[n] \in Pairs
      BY <1>1, ElementOfSeq
    <3>. QED
      BY <3>3, <3>4 DEF Pairs
  <2>. QED
    BY <2>1 DEF Bytes
<1>8. (Bytes(s) \cup (g \cup Bytes(t)) = CopiedBy(off)) /\ (Bytes(s) \cap (g \cup Bytes(t)) = {})
  BY <1>4, <1>7 DEF InOrder
<1>. QED
  BY <1>6, <1>8 DEF InOrder

-----------------------------------------------------------------------------
(* The copy from a write.                                                  *)

(* The next n bytes of write i.                                            *)
NextBytes(i, n) == [k \in 1..n |-> <<i, NextByte(i) + k - 1>>]

(* Their shape.                                                            *)
LEMMA NextBytesAre ==
  ASSUME NEW i \in Irps, NEW n \in Nat, offset[i] \in Nat
  PROVE  /\ NextBytes(i, n) \in Seq(Pairs) /\ Len(NextBytes(i, n)) = n
         /\ DOMAIN NextBytes(i, n) = 1..n
         /\ \A k \in 1..n : NextBytes(i, n)[k] = <<i, offset[i] + k>>
<1>1. \A k \in 1..n : offset[i] + 1 + k - 1 = offset[i] + k /\ offset[i] + k \in Nat
  OBVIOUS
<1>2. \A k \in 1..n : NextBytes(i, n)[k] = <<i, offset[i] + k>>
  BY <1>1 DEF NextBytes, NextByte
<1>3. NextBytes(i, n) \in [1..n -> Pairs]
  BY <1>1 DEF NextBytes, NextByte, Pairs
<1>4. NextBytes(i, n) \in Seq(Pairs)
  BY <1>3, SeqDef
<1>5. Len(NextBytes(i, n)) = n
  BY <1>3, <1>4, LenProperties
<1>. QED
  BY <1>2, <1>3, <1>4, <1>5

(* What the writes have copied once write i has copied n bytes more.       *)
LEMMA CopiedMore ==
  ASSUME NEW i \in Irps, NEW n \in Nat, OffsetsOK
  PROVE  /\ CopiedBy([offset EXCEPT ![i] = @ + n]) = CopiedBy(offset) \cup Bytes(NextBytes(i, n))
         /\ CopiedBy(offset) \cap Bytes(NextBytes(i, n)) = {}
<1>. DEFINE off == [offset EXCEPT ![i] = @ + n]
            o == offset[i]
            new == Bytes(NextBytes(i, n))
<1>1. /\ o \in Nat /\ off[i] = o + n
      /\ \A j \in Irps : j # i => off[j] = offset[j]
  BY DEF OffsetsOK
<1>2. new = {<<i, o + k>> : k \in 1..n}
  <2>1. DOMAIN NextBytes(i, n) = 1..n /\ \A k \in 1..n : NextBytes(i, n)[k] = <<i, o + k>>
    BY <1>1, NextBytesAre
  <2>. QED
    BY <2>1 DEF Bytes
<1>3. \A x : x \in CopiedBy(offset) <=> \E j \in Irps : \E k \in 1..offset[j] : x = <<j, k>>
  BY DEF CopiedBy
<1>4. \A x : x \in CopiedBy(off) <=> \E j \in Irps : \E k \in 1..off[j] : x = <<j, k>>
  BY DEF CopiedBy
<1>. HIDE DEF off, o, new
<1>5. \A k \in 1..(o + n) : k \in 1..o \/ (k - o \in 1..n /\ o + (k - o) = k)
  BY <1>1
<1>6. \A k \in 1..n : o + k \in 1..(o + n) /\ o + k \notin 1..o
  BY <1>1
<1>7. 1..o \subseteq 1..(o + n)
  BY <1>1
<1>8. ASSUME NEW x
      PROVE  x \in CopiedBy(off) <=> x \in CopiedBy(offset) \/ x \in new
  <2>1. ASSUME x \in CopiedBy(off)
        PROVE  x \in CopiedBy(offset) \/ x \in new
    <3>1. PICK j \in Irps : \E k \in 1..off[j] : x = <<j, k>>
      BY <1>4, <2>1
    <3>2. PICK k \in 1..off[j] : x = <<j, k>>
      BY <3>1
    <3>3. CASE j = i
      <4>1. k \in 1..o \/ (k - o \in 1..n /\ o + (k - o) = k)
        BY <1>1, <1>5, <3>3
      <4>2. k \in 1..o => x \in CopiedBy(offset)
        BY <1>3, <3>2, <3>3 DEF o
      <4>3. k - o \in 1..n /\ o + (k - o) = k => x \in new
        BY <1>2, <3>2, <3>3
      <4>. QED
        BY <4>1, <4>2, <4>3
    <3>4. CASE j # i
      BY <1>1, <1>3, <3>2, <3>4
    <3>. QED
      BY <3>3, <3>4
  <2>2. ASSUME x \in CopiedBy(offset)
        PROVE  x \in CopiedBy(off)
    <3>1. PICK j \in Irps : \E k \in 1..offset[j] : x = <<j, k>>
      BY <1>3, <2>2
    <3>2. 1..offset[j] \subseteq 1..off[j]
      BY <1>1, <1>7 DEF o
    <3>. QED
      BY <1>4, <3>1, <3>2
  <2>3. ASSUME x \in new
        PROVE  x \in CopiedBy(off)
    <3>1. PICK k \in 1..n : x = <<i, o + k>>
      BY <1>2, <2>3
    <3>2. o + k \in 1..off[i]
      BY <1>1, <1>6
    <3>. QED
      BY <1>4, <3>1, <3>2
  <2>. QED
    BY <2>1, <2>2, <2>3
<1>9. ASSUME NEW x \in CopiedBy(offset), x \in new
      PROVE  FALSE
  <2>1. PICK k \in 1..n : x = <<i, o + k>>
    BY <1>2, <1>9
  <2>2. PICK j \in Irps : \E h \in 1..offset[j] : x = <<j, h>>
    BY <1>3
  <2>3. PICK h \in 1..offset[j] : x = <<j, h>>
    BY <2>2
  <2>4. j = i /\ h = o + k
    BY <2>1, <2>3
  <2>. QED
    BY <1>6, <2>3, <2>4 DEF o
<1>10. CopiedBy(off) = CopiedBy(offset) \cup new
  BY <1>8
<1>11. CopiedBy(offset) \cap new = {}
  BY <1>9
<1>. QED
  BY <1>10, <1>11 DEF off, new

(* The next bytes of a write go to the end: they follow the bytes it has   *)
(* copied before, wherever those are.                                      *)
LEMMA InOrderMore ==
  ASSUME NEW s \in Seq(Pairs), NEW g, NEW i \in Irps, NEW n \in Nat, OffsetsOK,
         InOrder(s, g, offset)
  PROVE  InOrder(s \o NextBytes(i, n), g, [offset EXCEPT ![i] = @ + n])
<1>. DEFINE u == NextBytes(i, n)
            r == s \o u
            o == offset[i]
<1>1. /\ o \in Nat /\ u \in Seq(Pairs) /\ Len(u) = n /\ DOMAIN u = 1..n
      /\ \A k \in 1..n : u[k] = <<i, o + k>>
  BY NextBytesAre DEF OffsetsOK
<1>2. Len(s) \in Nat /\ DOMAIN s = 1..Len(s) /\ \A k \in DOMAIN s : s[k] \in Pairs
  BY LenProperties, ElementOfSeq
<1>. HIDE DEF u
<1>3. /\ r \in Seq(Pairs) /\ Len(r) = Len(s) + n
      /\ \A k \in 1..Len(s) + n : r[k] = IF k <= Len(s) THEN s[k] ELSE u[k - Len(s)]
  <2>1. /\ s \o u \in Seq(Pairs) /\ Len(s \o u) = Len(s) + Len(u)
        /\ \A k \in 1..Len(s) + Len(u) :
             (s \o u)[k] = IF k <= Len(s) THEN s[k] ELSE u[k - Len(s)]
    BY <1>1, ConcatProperties
  <2>. QED
    BY <1>1, <2>1
<1>4. DOMAIN r = 1..(Len(s) + n)
  BY <1>3, LenProperties
<1>5. \A k \in DOMAIN s : s[k][1] = i => s[k][2] <= o /\ s[k][2] \in Nat
  <2>1. ASSUME NEW k \in DOMAIN s, s[k][1] = i
        PROVE  s[k][2] <= o /\ s[k][2] \in Nat
    <3>1. s[k] \in CopiedBy(offset)
      BY DEF InOrder, Bytes
    <3>2. PICK j \in Irps : s[k] \in {j} \X (1..offset[j])
      BY <3>1 DEF CopiedBy
    <3>3. j = i /\ s[k][2] \in 1..o
      BY <2>1, <3>2
    <3>. QED
      BY <1>1, <3>3
  <2>. QED
    BY <2>1
<1>. HIDE DEF o
<1>6. ASSUME NEW k \in DOMAIN r, ~(k <= Len(s))
      PROVE  k - Len(s) \in 1..n /\ r[k] = <<i, o + (k - Len(s))>>
  <2>1. k - Len(s) \in 1..n
    BY <1>1, <1>2, <1>4, <1>6
  <2>2. r[k] = u[k - Len(s)]
    BY <1>3, <1>4, <1>6
  <2>. QED
    BY <1>1, <2>1, <2>2
<1>7. ASSUME NEW k \in DOMAIN r, k <= Len(s)
      PROVE  k \in DOMAIN s /\ r[k] = s[k]
  <2>1. k \in DOMAIN s
    BY <1>2, <1>4, <1>7
  <2>. QED
    BY <1>3, <1>4, <1>7, <2>1
<1>. HIDE DEF r
<1>8. ASSUME NEW a \in DOMAIN r, NEW b \in DOMAIN r, a < b, r[a][1] = r[b][1]
      PROVE  r[a][2] < r[b][2]
  <2>1. a \in Nat /\ b \in Nat
    BY <1>2, <1>4
  <2>2. CASE b <= Len(s)
    <3>1. a <= Len(s)
      BY <1>2, <1>8, <2>1, <2>2
    <3>. QED
      BY <1>7, <1>8, <2>2, <3>1 DEF InOrder
  <2>3. CASE ~(b <= Len(s)) /\ a <= Len(s)
    <3>1. b - Len(s) \in 1..n /\ r[b] = <<i, o + (b - Len(s))>>
      BY <1>6, <2>3
    <3>2. a \in DOMAIN s /\ r[a] = s[a]
      BY <1>7, <2>3
    <3>3. s[a][1] = i
      BY <1>8, <3>1, <3>2
    <3>4. s[a][2] <= o /\ s[a][2] \in Nat
      BY <1>5, <3>2, <3>3
    <3>5. r[b][2] = o + (b - Len(s)) /\ b - Len(s) \in Nat /\ b - Len(s) > 0
      BY <3>1
    <3>. QED
      BY <1>1, <3>2, <3>4, <3>5
  <2>4. CASE ~(a <= Len(s))
    <3>1. ~(b <= Len(s))
      BY <1>2, <1>8, <2>1, <2>4
    <3>2. r[a][2] = o + (a - Len(s)) /\ r[b][2] = o + (b - Len(s))
      BY <1>6, <2>4, <3>1
    <3>. QED
      BY <1>1, <1>2, <1>8, <2>1, <3>2
  <2>. QED
    BY <2>2, <2>3, <2>4
<1>9. Bytes(r) = Bytes(s) \cup Bytes(u)
  BY <1>1, ConcatBytes DEF r
<1>10. /\ CopiedBy([offset EXCEPT ![i] = @ + n]) = CopiedBy(offset) \cup Bytes(u)
       /\ CopiedBy(offset) \cap Bytes(u) = {}
  BY CopiedMore DEF u
<1>11. (Bytes(s) \cup g = CopiedBy(offset)) /\ (Bytes(s) \cap g = {})
  BY DEF InOrder
<1>12. /\ Bytes(r) \cup g = CopiedBy([offset EXCEPT ![i] = @ + n])
       /\ Bytes(r) \cap g = {}
  BY <1>9, <1>10, <1>11
<1>13. InOrder(r, g, [offset EXCEPT ![i] = @ + n])
  BY <1>8, <1>12 DEF InOrder
<1>. QED
  BY <1>13 DEF r, u

-----------------------------------------------------------------------------
(* The steps.                                                              *)

(* The minimum is one of the two and no more than either.                  *)
LEMMA MinIs ==
  ASSUME NEW a \in Nat, NEW b \in Nat
  PROVE  MinOf(a, b) \in 0..a /\ MinOf(a, b) \in 0..b
BY DEF MinOf

(* No write succeeds, and none gets further.                               *)
LEMMA WholeStays ==
  ASSUME OffsetsOK, WholeIfOk, NoneSucceeds, UNCHANGED offset
  PROVE  OffsetsOK' /\ WholeIfOk'
BY DEF OffsetsOK, WholeIfOk, NoneSucceeds

(* A step that moves no byte.                                              *)
LEMMA QuietStep ==
  ASSUME Inv, PortInv', NoneSucceeds, UNCHANGED <<tx, offset, hist>>, txRdy' \in BOOLEAN
  PROVE  Inv'
<1>1. UNCHANGED <<tx, offset, wire, gone>>
  BY DEF hist
<1>2. Sent' = Sent /\ BuffersOK'
  BY <1>1 DEF Inv, BuffersOK, Sent
<1>3. OffsetsOK' /\ WholeIfOk'
  BY <1>1, WholeStays DEF Inv
<1>4. InOrder(Sent', gone', offset')
  BY <1>1, <1>2 DEF Inv
<1>. QED
  BY <1>2, <1>3, <1>4 DEF Inv, InOrder, Bytes, CopiedBy

(* The interrupt routine gives the chip the front of the ring.             *)
LEMMA InterruptStep == ASSUME Inv, NEW c \in Cpus, Interrupt(c) PROVE Inv'
<1>. DEFINE n == MinOf(FifoSize, Len(tx))
            front == SubSeq(tx, 1, n)
<1>1. /\ wire' = wire \o front /\ tx' = SubSeq(tx, n + 1, Len(tx)) /\ txRdy' = (n < Len(tx))
      /\ QueueDpc(c) /\ UNCHANGED <<port, requests, dpcPc, dpcIrp, offset, gone>>
  BY DEF Interrupt
<1>2. PortInv' /\ NoneSucceeds
  BY <1>1, QueueDpcStep DEF Inv
<1>3. OffsetsOK' /\ WholeIfOk'
  BY <1>1, <1>2, WholeStays DEF Inv
<1>4. tx \in Seq(Pairs) /\ wire \in Seq(Pairs) /\ Len(tx) \in Nat /\ Len(tx) <= RingSize
  BY LenProperties DEF Inv, BuffersOK
<1>5. n \in 0..Len(tx) /\ n \in Nat
  <2>1. n \in 0..Len(tx)
    BY <1>4, Numbers, MinIs
  <2>. HIDE DEF n
  <2>. QED
    BY <1>4, <2>1
<1>. HIDE DEF n
<1>6. front \in Seq(Pairs) /\ tx' \in Seq(Pairs) /\ Len(tx') = Len(tx) - n /\ front \o tx' = tx
  BY <1>1, <1>4, <1>5, Cut
<1>. HIDE DEF front
<1>7. BuffersOK'
  <2>1. wire' \in Seq(Pairs)
    BY <1>1, <1>4, <1>6, ConcatProperties
  <2>2. Len(tx') <= RingSize
    BY <1>4, <1>5, <1>6, Numbers
  <2>3. txRdy' \in BOOLEAN
    BY <1>1
  <2>. QED
    BY <1>6, <2>1, <2>2, <2>3 DEF BuffersOK
<1>8. Sent' = Sent
  <2>1. front \in Seq(Pairs) /\ tx' \in Seq(Pairs)
    BY <1>6
  <2>2. (wire \o front) \o tx' = wire \o (front \o tx')
    BY <1>4, <2>1, Regroup
  <2>3. front \o tx' = tx
    BY <1>6
  <2>. QED
    BY <1>1, <2>2, <2>3 DEF Sent
<1>9. InOrder(Sent', gone', offset')
  BY <1>1, <1>8 DEF Inv
<1>. QED
  BY <1>2, <1>3, <1>7, <1>9 DEF Inv, InOrder, Bytes, CopiedBy

(* A write gets further; it succeeds if that completes it, and no other    *)
(* write succeeds.                                                         *)
LEMMA CopyStep ==
  ASSUME Inv, NEW i \in Irps, pos[i] # "ok", SyncWrite(i), UNCHANGED hist, PortInv',
         \A j \in Irps : j # i => pos'[j] = pos[j],
         pos'[i] = "ok" => Complete(i)
  PROVE  Inv'
<1>. DEFINE n == Fits(i)
<1>1. /\ offset[i] \in Nat /\ Length[i] \in Nat /\ offset[i] <= Length[i]
      /\ tx \in Seq(Pairs) /\ wire \in Seq(Pairs) /\ Len(tx) \in Nat
      /\ Len(tx) <= RingSize /\ RingSize \in Nat
  BY Numbers, LenProperties DEF Inv, BuffersOK, OffsetsOK
<1>2. n \in Nat /\ n <= Length[i] - offset[i] /\ n <= RingSize - Len(tx)
  <2>1. Length[i] - offset[i] \in Nat /\ RingSize - Len(tx) \in Nat
    BY <1>1
  <2>2. n \in 0..(Length[i] - offset[i]) /\ n \in 0..(RingSize - Len(tx))
    BY <2>1, MinIs DEF Fits
  <2>. HIDE DEF n
  <2>. QED
    BY <2>1, <2>2
<1>3. /\ tx' = tx \o NextBytes(i, n) /\ offset' = [offset EXCEPT ![i] = @ + n]
      /\ txRdy' = (txRdy \/ (WasEmpty /\ n > 0)) /\ wire' = wire /\ gone' = gone
  BY DEF SyncWrite, NextBytes, hist
<1>4. pos'[i] = "ok" => offset[i] + n = Length[i]
  BY DEF Complete
<1>. HIDE DEF n
<1>5. NextBytes(i, n) \in Seq(Pairs) /\ Len(NextBytes(i, n)) = n
  BY <1>1, <1>2, NextBytesAre
<1>6. offset'[i] = offset[i] + n /\ \A j \in Irps : j # i => offset'[j] = offset[j]
  BY <1>3 DEF Inv, OffsetsOK
<1>7. OffsetsOK'
  <2>1. offset[i] + n \in Nat /\ offset[i] + n <= Length[i]
    BY <1>1, <1>2
  <2>. QED
    BY <1>3, <1>6, <2>1 DEF Inv, OffsetsOK
<1>8. WholeIfOk'
  BY <1>4, <1>6 DEF Inv, WholeIfOk
<1>9. BuffersOK'
  <2>1. tx' \in Seq(Pairs) /\ Len(tx') = Len(tx) + n
    <3>. DEFINE u == NextBytes(i, n)
    <3>1. tx \in Seq(Pairs) /\ u \in Seq(Pairs) /\ Len(u) = n /\ tx' = tx \o u
      BY <1>1, <1>3, <1>5
    <3>. HIDE DEF u
    <3>2. tx \o u \in Seq(Pairs) /\ Len(tx \o u) = Len(tx) + Len(u)
      BY <3>1, ConcatProperties
    <3>. QED
      BY <3>1, <3>2
  <2>2. Len(tx') <= RingSize
    BY <1>1, <1>2, <2>1
  <2>3. txRdy' \in BOOLEAN
    BY <1>3
  <2>4. wire' \in Seq(Pairs)
    BY <1>1, <1>3
  <2>. QED
    BY <2>1, <2>2, <2>3, <2>4, Zenon DEF BuffersOK
<1>10. Sent' = Sent \o NextBytes(i, n)
  <2>1. (wire \o tx) \o NextBytes(i, n) = wire \o (tx \o NextBytes(i, n))
    BY <1>1, <1>5, Regroup
  <2>. QED
    BY <1>3, <2>1 DEF Sent
<1>11. InOrder(Sent', gone', offset')
  <2>1. Sent \in Seq(Pairs)
    BY <1>1, ConcatProperties DEF Sent
  <2>2. InOrder(Sent \o NextBytes(i, n), gone, [offset EXCEPT ![i] = @ + n])
    BY <1>2, <2>1, InOrderMore DEF Inv
  <2>. QED
    BY <1>3, <1>10, <2>2
<1>. QED
  BY <1>7, <1>8, <1>9, <1>11 DEF Inv, InOrder, Bytes, CopiedBy

(* The ring is emptied.                                                    *)
LEMMA DiscardStep ==
  ASSUME Inv, PortInv', NoneSucceeds, tx' = <<>>, gone' = gone \cup Bytes(tx),
         txRdy' \in BOOLEAN, UNCHANGED <<offset, wire>>
  PROVE  Inv'
<1>1. OffsetsOK' /\ WholeIfOk'
  BY WholeStays DEF Inv
<1>2. tx \in Seq(Pairs) /\ wire \in Seq(Pairs)
  BY DEF Inv, BuffersOK
<1>3. BuffersOK'
  <2>1. <<>> \in Seq(Pairs) /\ Len(<<>>) = 0
    BY EmptySeq
  <2>. QED
    BY <1>2, <2>1, Numbers DEF BuffersOK
<1>4. Sent' = wire
  BY <1>2, ConcatEmptySeq DEF Sent
<1>5. InOrder(wire, gone \cup Bytes(tx), offset)
  BY <1>2, InOrderCut DEF Inv, Sent
<1>6. InOrder(Sent', gone', offset')
  BY <1>4, <1>5
<1>. QED
  BY <1>1, <1>3, <1>6 DEF Inv, InOrder, Bytes, CopiedBy

(* Every step of Next is one of these.                                     *)
LEMMA StepInv == Inv /\ [Next]_vars => Inv'
<1>. SUFFICES ASSUME Inv, [Next]_vars PROVE Inv'
  OBVIOUS
<1>1. txRdy \in BOOLEAN
  BY DEF Inv, BuffersOK
<1>2. CASE Create
  BY <1>2, HandleSteps, DiscardStep DEF Create, Inv
<1>3. CASE Purge
  BY <1>1, <1>3, StillStep, DiscardStep DEF Purge, Inv
<1>4. CASE Close
  BY <1>4, HandleSteps, QuietStep DEF Close, Inv
<1>5. CASE HandleStep
  <2>1. UNCHANGED <<tx, offset, hist>> /\ txRdy' \in BOOLEAN
    BY <1>1, <1>5 DEF HandleStep, ring
  <2>2. PortInv' /\ NoneSucceeds
    <3>1. CASE DrainNext \/ \E i \in Irps : CancelIrp(i)
      BY <3>1, CancelSteps DEF Inv
    <3>2. CASE CleanupEnter \/ CleanupReturn \/ PurgeEnter \/ PurgeReturn
      BY <3>2, HandleSteps DEF Inv
    <3>. QED
      BY <1>5, <3>1, <3>2 DEF HandleStep, Handle
  <2>. QED
    BY <2>1, <2>2, QuietStep
<1>6. ASSUME NEW c \in Cpus, Interrupt(c)
      PROVE  Inv'
  BY <1>6, InterruptStep
<1>7. ASSUME NEW c \in Cpus,
             WriteDpcStart(c) \/ WriteDpcTake(c) \/ WriteDpcLeave(c) \/ WriteDpcRequeue(c)
      PROVE  Inv'
  <2>1. UNCHANGED <<ring, offset, hist>> /\ (DpcStart(c) \/ DpcTake(c) \/ DpcLeave(c) \/ DpcRequeue(c))
    BY <1>7 DEF WriteDpcStart, WriteDpcTake, WriteDpcLeave, WriteDpcRequeue
  <2>2. PortInv' /\ NoneSucceeds
    BY <2>1, DpcSteps DEF Inv
  <2>3. UNCHANGED <<tx, offset, hist>> /\ txRdy' \in BOOLEAN
    BY <1>1, <2>1 DEF ring
  <2>. QED
    BY <2>2, <2>3, QuietStep
<1>8. ASSUME NEW c \in Cpus, WriteDpcFill(c)
      PROVE  Inv'
  <2>. DEFINE i == dpcIrp[c]
  <2>1. /\ dpcPc[c] = "have" /\ SyncWrite(i)
        /\ UNCHANGED <<port, queue, dpcQueued, hist>>
    BY <1>8 DEF WriteDpcFill
  <2>2. i \in Irps /\ pos[i] = "dpc"
    BY <2>1, DpcHolds DEF Inv, PortInv
  <2>3. CASE Complete(i) /\ Done(i, "ok") /\ DpcRelease(c, "next")
    <3>1. PortInv'
      BY <2>1, <2>3, FinishStep DEF Inv, Finished
    <3>2. \A j \in Irps : j # i => pos'[j] = pos[j]
      BY <2>3 DEF Done, Becomes, Inv, PortInv, PosOK
    <3>. QED
      BY <2>1, <2>2, <2>3, <3>1, <3>2, CopyStep
  <2>4. CASE dpcPc' = [dpcPc EXCEPT ![c] = "requeue"] /\ UNCHANGED <<pos, cancel, dpcIrp>>
    <3>1. PortInv'
      BY <2>1, <2>4, KeepStep DEF Inv, requests
    <3>. QED
      BY <2>1, <2>2, <2>4, <3>1, CopyStep
  <2>. QED
    BY <1>8, <2>3, <2>4 DEF WriteDpcFill
<1>9. ASSUME NEW i \in Irps, WriteEnter(i) \/ WriteQueue(i)
      PROVE  Inv'
  <2>1. UNCHANGED <<tx, offset, hist>> /\ txRdy' \in BOOLEAN
    BY <1>1, <1>9 DEF WriteEnter, WriteQueue, ring
  <2>2. PortInv' /\ NoneSucceeds
    <3>1. CASE WriteEnter(i)
      <4>1. pos[i] = "new" /\ Becomes(i, "entered") /\ cancel' = cancel /\ UNCHANGED <<port, dpc, queue>>
        BY <3>1 DEF WriteEnter
      <4>2. PortInv'
        BY <4>1, MoveStep DEF Inv, PortInv
      <4>3. NoneSucceeds
        BY <4>1 DEF Becomes, NoneSucceeds, Inv, PortInv, PosOK
      <4>. QED
        BY <4>2, <4>3
    <3>2. CASE WriteQueue(i)
      BY <3>2, InsertStep DEF WriteQueue, Inv
    <3>. QED
      BY <1>9, <3>1, <3>2
  <2>. QED
    BY <2>1, <2>2, QuietStep
<1>10. ASSUME NEW i \in Irps, WriteFast(i)
       PROVE  Inv'
  <2>1. /\ pos[i] = "entered" /\ SyncWrite(i) /\ UNCHANGED <<port, dpc, queue, hist>>
    BY <1>10 DEF WriteFast
  <2>2. PICK place \in {"ok", "slow"} :
          /\ Becomes(i, place) /\ cancel' \subseteq cancel
          /\ place = "ok" => Complete(i)
    BY <1>10 DEF WriteFast, Done
  <2>3. PortInv'
    <3>1. cancel' \subseteq Irps
      BY <2>2 DEF Inv, PortInv
    <3>. QED
      BY <2>1, <2>2, <3>1, MoveStep DEF Inv, Finished
  <2>4. pos'[i] = place /\ \A j \in Irps : j # i => pos'[j] = pos[j]
    BY <2>2 DEF Becomes, Inv, PortInv, PosOK
  <2>. QED
    BY <2>1, <2>2, <2>3, <2>4, CopyStep
<1>11. CASE UNCHANGED vars
  <2>1. UNCHANGED portVars /\ UNCHANGED <<tx, offset, hist>> /\ txRdy' \in BOOLEAN
    BY <1>1, <1>11 DEF vars, ring
  <2>2. PortInv' /\ NoneSucceeds
    BY <2>1, StillStep DEF Inv
  <2>. QED
    BY <2>1, <2>2, QuietStep
<1>. QED
  BY <1>2, <1>3, <1>4, <1>5, <1>6, <1>7, <1>8, <1>9, <1>10, <1>11 DEF Next, Dpc

(* It holds at the start.                                                  *)
LEMMA InitInv == Init => Inv
<1>. SUFFICES ASSUME Init PROVE Inv
  OBVIOUS
<1>1. PortInv
  BY PortStarts DEF Init
<1>2. /\ tx = <<>> /\ wire = <<>> /\ gone = {} /\ txRdy = FALSE
      /\ offset = [i \in Irps |-> 0] /\ pos = [i \in Irps |-> "new"]
  BY DEF Init, PortInit
<1>3. <<>> \in Seq(Pairs) /\ Len(<<>>) = 0 /\ DOMAIN <<>> = {}
  BY EmptySeq
<1>4. BuffersOK
  <2>1. txRdy \in BOOLEAN
    BY <1>2
  <2>2. Len(tx) <= RingSize
    BY <1>2, <1>3, Numbers
  <2>. QED
    BY <1>2, <1>3, <2>1, <2>2 DEF BuffersOK
<1>5. OffsetsOK /\ WholeIfOk
  BY <1>2, Numbers DEF OffsetsOK, WholeIfOk
<1>6. Sent = <<>>
  BY <1>2, <1>3, ConcatEmptySeq DEF Sent
<1>7. CopiedBy(offset) = {}
  <2>1. \A i \in Irps : 1..offset[i] = {}
    BY <1>2
  <2>. QED
    BY <2>1 DEF CopiedBy
<1>8. InOrder(<<>>, {}, offset)
  BY <1>3, <1>7 DEF InOrder, Bytes
<1>. QED
  BY <1>1, <1>2, <1>4, <1>5, <1>6, <1>8 DEF Inv

(* The invariant holds in every state the system reaches.                  *)
LEMMA Invariance == Spec => []Inv
BY InitInv, StepInv, PTL DEF Spec

-----------------------------------------------------------------------------
(* Each write is in one place, the ring stays within its size, and no      *)
(* write gets past its length, however writes, cancellations, purges and   *)
(* DPCs on several processors interleave.                                  *)
THEOREM TypeCorrect == Spec => []TypeOK
<1>1. Inv => TypeOK
  <2>1. OffsetsOK => \A i \in Irps : offset[i] \in 0..Length[i]
    BY Numbers DEF OffsetsOK
  <2>. QED
    BY <2>1, PortInvIsOneOwner DEF Inv, BuffersOK, TypeOK
<1>. QED
  BY <1>1, Invariance, PTL

(* The bytes of each write are on the wire or in the ring in its order,    *)
(* each once, or are known to be discarded; a write that succeeds has put  *)
(* in all of its bytes.                                                    *)
THEOREM OrderKept == Spec => []WriteInOrder
<1>1. Inv => WriteInOrder
  BY DEF Inv, WholeIfOk, InOrder, Sent, CopiedBy, Copied, WriteInOrder
<1>. QED
  BY <1>1, Invariance, PTL
=============================================================================
