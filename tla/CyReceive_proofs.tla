-------------------------- MODULE CyReceive_proofs --------------------------
(* Proofs of the safety invariants of CyReceive, for any number of reads,  *)
(* processors and bytes, and buffers of any size.                          *)
EXTENDS CyReceive, CyPort_proofs, FiniteSetTheorems

Takens == [read : Irps, byte : Nat]

(* The bytes the reads have, and all that are still somewhere, in order.   *)
BytesTaken(t) == [n \in DOMAIN t |-> t[n].byte]
Inside == BytesTaken(taken) \o rx \o fifo

(* What ReadInOrder says of a sequence of bytes, of the lost ones and of   *)
(* the number that came.                                                   *)
InOrder(s, g, a) ==
  /\ \A m, n \in DOMAIN s : m < n => s[m] < s[n]
  /\ Bytes(s) \cup g = 1..a
  /\ Bytes(s) \cap g = {}

(* How much each read may have got.                                        *)
Got(t, i) == {n \in DOMAIN t : t[n].read = i}

BuffersOK ==
  /\ fifo \in Seq(Nat) /\ Len(fifo) <= FifoSize
  /\ rx \in Seq(Nat) /\ Len(rx) <= RingSize
  /\ arrived \in 0..MaxBytes
TakenOK ==
  /\ taken \in Seq(Takens)
  /\ \A i \in Irps : Cardinality(Got(taken, i)) <= Asked[i]

(* The inductive invariant: what the three properties say is enough, each  *)
(* needs the others.                                                       *)
Inv == PortInv /\ BuffersOK /\ TakenOK /\ NothingTakenIsLost /\ InOrder(Inside, gone, arrived)

-----------------------------------------------------------------------------
(* Arithmetic and sequences.                                               *)

(* The constants are numbers.                                              *)
LEMMA Numbers ==
  /\ MaxBytes \in Nat /\ FifoSize \in Nat /\ RingSize \in Nat
  /\ \A i \in Irps : Asked[i] \in Nat
BY ReceiveAssumption

(* Three sequences one after the other, put together either way.           *)
LEMMA Regroup ==
  ASSUME NEW s \in Seq(Nat), NEW t \in Seq(Nat), NEW u \in Seq(Nat)
  PROVE  (s \o t) \o u = s \o (t \o u)
<1>. DEFINE Regroups(S) == \A a, b, c \in Seq(S) : (a \o b) \o c = a \o (b \o c)
<1>1. \A S : Regroups(S)
  BY ConcatAssociative, Zenon
<1>. HIDE DEF Regroups
<1>2. Regroups(Nat)
  BY <1>1
<1>. QED
  BY <1>2, Zenon DEF Regroups

(* The bytes of two sequences, one after the other.                        *)
LEMMA ConcatBytes ==
  ASSUME NEW s \in Seq(Nat), NEW t \in Seq(Nat)
  PROVE  Bytes(s \o t) = Bytes(s) \cup Bytes(t)
<1>1. Elements(s \o t) = Elements(s) \cup Elements(t)
  BY ConcatElements
<1>. QED
  BY <1>1 DEF Bytes, Elements

-----------------------------------------------------------------------------
(* What keeps bytes in order.                                              *)

(* Losing the end of the sequence.                                         *)
LEMMA InOrderCut ==
  ASSUME NEW s \in Seq(Nat), NEW t \in Seq(Nat), NEW g, NEW a, InOrder(s \o t, g, a)
  PROVE  InOrder(s, g \cup Bytes(t), a)
<1>1. /\ Len(s) \in Nat /\ Len(t) \in Nat /\ DOMAIN s = 1..Len(s) /\ DOMAIN t = 1..Len(t)
  BY LenProperties
<1>2. /\ s \o t \in Seq(Nat) /\ Len(s \o t) = Len(s) + Len(t)
      /\ \A k \in 1..Len(s) + Len(t) :
           (s \o t)[k] = IF k <= Len(s) THEN s[k] ELSE t[k - Len(s)]
  BY ConcatProperties
<1>3. DOMAIN (s \o t) = 1..(Len(s) + Len(t))
  BY <1>2, LenProperties
<1>4. Bytes(s \o t) = Bytes(s) \cup Bytes(t)
  BY ConcatBytes
<1>5. \A m, n \in DOMAIN s : m < n => s[m] < s[n]
  <2>1. \A m \in DOMAIN s : m \in 1..Len(s) + Len(t) /\ m <= Len(s)
    BY <1>1
  <2>2. \A m \in DOMAIN s : m \in DOMAIN (s \o t) /\ (s \o t)[m] = s[m]
    BY <1>2, <1>3, <2>1
  <2>. QED
    BY <2>2 DEF InOrder
<1>6. Bytes(s) \cap Bytes(t) = {}
  <2>1. ASSUME NEW m \in DOMAIN s, NEW n \in DOMAIN t
        PROVE  s[m] # t[n]
    <3>. m \in 1..Len(s) /\ n \in 1..Len(t)
      BY <1>1
    <3>1. m \in 1..Len(s) + Len(t) /\ n + Len(s) \in 1..Len(s) + Len(t) /\ m < n + Len(s)
          /\ ~(n + Len(s) <= Len(s)) /\ (n + Len(s)) - Len(s) = n /\ m <= Len(s)
      BY <1>1
    <3>2. (s \o t)[m] = s[m] /\ (s \o t)[n + Len(s)] = t[n]
      BY <1>2, <3>1
    <3>3. (s \o t)[m] < (s \o t)[n + Len(s)]
      BY <1>3, <3>1 DEF InOrder
    <3>4. s[m] \in Nat /\ t[n] \in Nat
      BY <1>1, ElementOfSeq
    <3>. QED
      BY <3>2, <3>3, <3>4
  <2>. QED
    BY <2>1 DEF Bytes
<1>7. (Bytes(s) \cup (g \cup Bytes(t)) = 1..a) /\ (Bytes(s) \cap (g \cup Bytes(t)) = {})
  BY <1>4, <1>6 DEF InOrder
<1>. QED
  BY <1>5, <1>7 DEF InOrder

(* The next byte, at the end.                                              *)
LEMMA InOrderAppend ==
  ASSUME NEW s \in Seq(Nat), NEW g, NEW a \in Nat, InOrder(s, g, a)
  PROVE  InOrder(Append(s, a + 1), g, a + 1)
<1>. DEFINE r == Append(s, a + 1)
<1>1. /\ Len(s) \in Nat /\ DOMAIN s = 1..Len(s)
      /\ r \in Seq(Nat) /\ Len(r) = Len(s) + 1
      /\ \A k \in 1..Len(s) : r[k] = s[k]
      /\ r[Len(s) + 1] = a + 1
  BY AppendProperties, LenProperties
<1>2. DOMAIN r = 1..(Len(s) + 1)
  BY <1>1, LenProperties
<1>3. \A k \in DOMAIN s : s[k] \in 1..a
  BY DEF InOrder, Bytes
<1>. HIDE DEF r
<1>4. ASSUME NEW m \in DOMAIN r, NEW n \in DOMAIN r, m < n
      PROVE  r[m] < r[n]
  <2>1. m \in 1..Len(s) /\ (n \in 1..Len(s) \/ n = Len(s) + 1)
    BY <1>1, <1>2, <1>4
  <2>2. r[m] = s[m] /\ s[m] \in 1..a
    BY <1>1, <1>3, <2>1
  <2>3. CASE n \in 1..Len(s)
    BY <1>1, <1>4, <2>1, <2>2, <2>3 DEF InOrder
  <2>4. CASE n = Len(s) + 1
    BY <1>1, <2>2, <2>4
  <2>. QED
    BY <2>1, <2>3, <2>4
<1>5. Bytes(r) = Bytes(s) \cup {a + 1}
  <2>1. \A k \in DOMAIN r : r[k] \in Bytes(s) \cup {a + 1}
    BY <1>1, <1>2 DEF Bytes
  <2>2. \A k \in DOMAIN s : s[k] \in Bytes(r)
    <3>1. \A k \in DOMAIN s : k \in DOMAIN r /\ r[k] = s[k]
      BY <1>1, <1>2
    <3>. QED
      BY <3>1 DEF Bytes
  <2>3. a + 1 \in Bytes(r)
    BY <1>1, <1>2 DEF Bytes
  <2>. QED
    BY <2>1, <2>2, <2>3 DEF Bytes
<1>6. (1..(a + 1) = 1..a \cup {a + 1}) /\ a + 1 \notin 1..a
  OBVIOUS
<1>7. (Bytes(r) \cup g = 1..(a + 1)) /\ (Bytes(r) \cap g = {})
  <2>1. (Bytes(s) \cup g = 1..a) /\ (Bytes(s) \cap g = {})
    BY DEF InOrder
  <2>2. a + 1 \notin g
    BY <1>6, <2>1
  <2>. QED
    BY <1>5, <1>6, <2>1, <2>2
<1>8. InOrder(r, g, a + 1)
  BY <1>4, <1>7 DEF InOrder
<1>. QED
  BY <1>8 DEF r

(* The next byte, lost.                                                    *)
LEMMA InOrderLost ==
  ASSUME NEW s \in Seq(Nat), NEW g, NEW a \in Nat, InOrder(s, g, a)
  PROVE  InOrder(s, g \cup {a + 1}, a + 1)
<1>1. (1..(a + 1) = 1..a \cup {a + 1}) /\ a + 1 \notin 1..a
  OBVIOUS
<1>2. (Bytes(s) \cup g = 1..a) /\ (Bytes(s) \cap g = {})
  BY DEF InOrder
<1>3. (Bytes(s) \cup (g \cup {a + 1}) = 1..(a + 1)) /\ (Bytes(s) \cap (g \cup {a + 1}) = {})
  BY <1>1, <1>2
<1>. QED
  BY <1>3 DEF InOrder

-----------------------------------------------------------------------------
(* The copy to a read.                                                     *)

(* The bytes a read gets, as entries.                                      *)
Entries(i, n) == [k \in 1..n |-> [read |-> i, byte |-> rx[k]]]

(* Their shape.                                                            *)
LEMMA EntriesAre ==
  ASSUME rx \in Seq(Nat), NEW i \in Irps, NEW n \in 0..Len(rx)
  PROVE  /\ Entries(i, n) \in Seq(Takens) /\ Len(Entries(i, n)) = n
         /\ DOMAIN Entries(i, n) = 1..n
         /\ \A k \in 1..n : Entries(i, n)[k].read = i /\ Entries(i, n)[k].byte = rx[k]
<1>1. n \in Nat /\ \A k \in 1..n : rx[k] \in Nat
  BY LenProperties, ElementOfSeq
<1>2. Entries(i, n) \in [1..n -> Takens]
  BY <1>1 DEF Entries, Takens
<1>3. Entries(i, n) \in Seq(Takens)
  BY <1>1, <1>2, SeqDef
<1>4. Len(Entries(i, n)) = n
  BY <1>1, <1>2, <1>3, LenProperties
<1>. QED
  BY <1>1, <1>3, <1>4 DEF Entries

(* Bytes of entries.                                                       *)
LEMMA BytesTakenIs ==
  ASSUME NEW t \in Seq(Takens)
  PROVE  /\ BytesTaken(t) \in Seq(Nat) /\ Len(BytesTaken(t)) = Len(t)
         /\ \A k \in 1..Len(t) : BytesTaken(t)[k] = t[k].byte
<1>1. Len(t) \in Nat /\ DOMAIN t = 1..Len(t) /\ \A k \in 1..Len(t) : t[k] \in Takens
  BY LenProperties, ElementOfSeq
<1>2. BytesTaken(t) \in [1..Len(t) -> Nat]
  BY <1>1 DEF BytesTaken, Takens
<1>3. BytesTaken(t) \in Seq(Nat)
  BY <1>1, <1>2, SeqDef
<1>4. Len(BytesTaken(t)) = Len(t)
  BY <1>1, <1>2, <1>3, LenProperties
<1>. QED
  BY <1>1, <1>3, <1>4 DEF BytesTaken

(* What the copy does: the entries are new, and the bytes the reads have   *)
(* and those of the ring, one after the other, are what they were.         *)
LEMMA SyncReadIs ==
  ASSUME rx \in Seq(Nat), taken \in Seq(Takens), NEW i \in Irps, NEW n \in 0..Len(rx),
         SyncRead(i, n)
  PROVE  /\ taken' \in Seq(Takens) /\ Len(taken') = Len(taken) + n
         /\ \A k \in 1..Len(taken) : taken'[k] = taken[k]
         /\ \A k \in 1..n : taken'[Len(taken) + k].read = i
         /\ rx' \in Seq(Nat) /\ Len(rx') = Len(rx) - n
         /\ BytesTaken(taken') \o rx' = BytesTaken(taken) \o rx
<1>. DEFINE u == Entries(i, n)
            first == SubSeq(rx, 1, n)
<1>1. taken' = taken \o u /\ rx' = SubSeq(rx, n + 1, Len(rx))
  BY DEF SyncRead, Entries
<1>2. /\ u \in Seq(Takens) /\ Len(u) = n /\ n \in Nat /\ Len(taken) \in Nat
      /\ \A k \in 1..n : u[k].read = i /\ u[k].byte = rx[k]
  BY EntriesAre, LenProperties
<1>3. /\ first \in Seq(Nat) /\ Len(first) = n /\ \A k \in 1..n : first[k] = rx[k]
      /\ rx' \in Seq(Nat) /\ Len(rx') = Len(rx) - n /\ first \o rx' = rx
  BY <1>1, Cut
<1>. HIDE DEF u, first
<1>4. /\ taken' \in Seq(Takens) /\ Len(taken') = Len(taken) + n
      /\ \A k \in 1..Len(taken) + n :
           taken'[k] = IF k <= Len(taken) THEN taken[k] ELSE u[k - Len(taken)]
  <2>1. /\ taken \o u \in Seq(Takens) /\ Len(taken \o u) = Len(taken) + Len(u)
        /\ \A k \in 1..Len(taken) + Len(u) :
             (taken \o u)[k] = IF k <= Len(taken) THEN taken[k] ELSE u[k - Len(taken)]
    BY <1>2, ConcatProperties
  <2>. QED
    BY <1>1, <1>2, <2>1
<1>5. ASSUME NEW k \in 1..Len(taken)
      PROVE  taken'[k] = taken[k]
  <2>1. k \in 1..Len(taken) + n /\ k <= Len(taken)
    BY <1>2
  <2>. QED
    BY <1>4, <2>1
<1>6. ASSUME NEW k \in 1..n
      PROVE  taken'[Len(taken) + k] = u[k]
  <2>1. /\ Len(taken) + k \in 1..Len(taken) + n /\ ~(Len(taken) + k <= Len(taken))
        /\ (Len(taken) + k) - Len(taken) = k
    BY <1>2
  <2>. QED
    BY <1>4, <2>1
<1>7. BytesTaken(taken') = BytesTaken(taken) \o first
  <2>. DEFINE b == BytesTaken(taken)
              c == BytesTaken(taken')
  <2>1. /\ b \in Seq(Nat) /\ Len(b) = Len(taken) /\ \A k \in 1..Len(taken) : b[k] = taken[k].byte
    BY BytesTakenIs
  <2>2. /\ c \in Seq(Nat) /\ Len(c) = Len(taken) + n
        /\ \A k \in 1..Len(taken) + n : c[k] = taken'[k].byte
    <3>1. /\ c \in Seq(Nat) /\ Len(c) = Len(taken') /\ \A k \in 1..Len(taken') : c[k] = taken'[k].byte
      BY <1>4, BytesTakenIs
    <3>. QED
      BY <1>4, <3>1
  <2>. HIDE DEF b, c
  <2>3. /\ b \o first \in Seq(Nat) /\ Len(b \o first) = Len(taken) + n
        /\ \A k \in 1..Len(taken) + n :
             (b \o first)[k] = IF k <= Len(taken) THEN b[k] ELSE first[k - Len(taken)]
    <3>1. /\ b \o first \in Seq(Nat) /\ Len(b \o first) = Len(b) + Len(first)
          /\ \A k \in 1..Len(b) + Len(first) :
               (b \o first)[k] = IF k <= Len(b) THEN b[k] ELSE first[k - Len(b)]
      <4>1. b \in Seq(Nat) /\ first \in Seq(Nat)
        BY <1>3, <2>1
      <4>. QED
        BY <4>1, ConcatProperties
    <3>. QED
      BY <1>3, <2>1, <3>1
  <2>4. ASSUME NEW k \in 1..Len(taken) + n
        PROVE  c[k] = (b \o first)[k]
    <3>1. CASE k <= Len(taken)
      <4>1. k \in 1..Len(taken)
        BY <1>2, <3>1
      <4>2. c[k] = taken'[k].byte
        BY <2>2
      <4>3. (b \o first)[k] = b[k]
        BY <2>3, <3>1
      <4>. QED
        BY <1>5, <2>1, <4>1, <4>2, <4>3
    <3>2. CASE ~(k <= Len(taken))
      <4>1. k - Len(taken) \in 1..n /\ Len(taken) + (k - Len(taken)) = k
        BY <1>2, <3>2
      <4>2. c[k] = taken'[k].byte
        BY <2>2
      <4>3. (b \o first)[k] = IF k <= Len(taken) THEN b[k] ELSE first[k - Len(taken)]
        BY <2>3
      <4>. DEFINE j == k - Len(taken)
      <4>4. taken'[Len(taken) + j].byte = first[j]
        <5>1. j \in 1..n
          BY <4>1
        <5>. HIDE DEF j
        <5>2. taken'[Len(taken) + j] = u[j]
          BY <1>6, <5>1
        <5>3. u[j].byte = rx[j] /\ first[j] = rx[j]
          BY <1>2, <1>3, <5>1
        <5>. QED
          BY <5>2, <5>3
      <4>. QED
        BY <3>2, <4>1, <4>2, <4>3, <4>4
    <3>. QED
      BY <3>1, <3>2
  <2>5. c = b \o first
    BY <2>2, <2>3, <2>4, SeqEqual
  <2>. QED
    BY <2>5 DEF b, c
<1>8. BytesTaken(taken') \o rx' = BytesTaken(taken) \o rx
  <2>1. BytesTaken(taken) \in Seq(Nat)
    BY BytesTakenIs
  <2>2. (BytesTaken(taken) \o first) \o rx' = BytesTaken(taken) \o (first \o rx')
    <3>. DEFINE b == BytesTaken(taken)
    <3>1. b \in Seq(Nat) /\ first \in Seq(Nat) /\ rx' \in Seq(Nat)
      BY <1>3, <2>1
    <3>. HIDE DEF b
    <3>2. (b \o first) \o rx' = b \o (first \o rx')
      BY <3>1, Regroup
    <3>. QED
      BY <3>2 DEF b
  <2>3. BytesTaken(taken') \o rx' = (BytesTaken(taken) \o first) \o rx'
    BY <1>7
  <2>4. first \o rx' = rx
    BY <1>3
  <2>. QED
    BY <2>2, <2>3, <2>4
<1>. QED
  BY <1>2, <1>3, <1>4, <1>5, <1>6, <1>8

(* A read that has got nothing may get as many bytes as it asked for.      *)
LEMMA SyncReadCount ==
  ASSUME TakenOK, rx \in Seq(Nat), NEW i \in Irps, NEW n \in 0..Len(rx), SyncRead(i, n),
         n <= Asked[i], Got(taken, i) = {}
  PROVE  TakenOK'
<1>1. /\ taken' \in Seq(Takens) /\ Len(taken') = Len(taken) + n
      /\ \A k \in 1..Len(taken) : taken'[k] = taken[k]
      /\ \A k \in 1..n : taken'[Len(taken) + k].read = i
  BY SyncReadIs DEF TakenOK
<1>2. /\ Len(taken) \in Nat /\ n \in Nat /\ DOMAIN taken = 1..Len(taken)
      /\ DOMAIN taken' = 1..(Len(taken) + n)
  BY <1>1, LenProperties DEF TakenOK
<1>3. ASSUME NEW k \in DOMAIN taken', ~(k <= Len(taken))
      PROVE  taken'[k].read = i
  <2>1. k - Len(taken) \in 1..n /\ Len(taken) + (k - Len(taken)) = k
    BY <1>2, <1>3
  <2>. QED
    BY <1>1, <2>1
<1>4. ASSUME NEW j \in Irps, j # i
      PROVE  Got(taken', j) = Got(taken, j)
  <2>1. \A k \in DOMAIN taken' : taken'[k].read = j => k \in DOMAIN taken
    BY <1>2, <1>3, <1>4
  <2>2. DOMAIN taken \subseteq DOMAIN taken'
    BY <1>2
  <2>. QED
    BY <1>1, <1>2, <2>1, <2>2 DEF Got
<1>5. Cardinality(Got(taken', i)) <= Asked[i]
  <2>. DEFINE new == (Len(taken) + 1)..(Len(taken) + n)
  <2>1. Got(taken', i) \subseteq new
    <3>1. ASSUME NEW k \in DOMAIN taken', k <= Len(taken)
          PROVE  taken'[k].read # i
      <4>1. k \in DOMAIN taken /\ taken'[k] = taken[k]
        BY <1>1, <1>2, <3>1
      <4>. QED
        BY <4>1 DEF Got
    <3>. QED
      BY <1>2, <3>1 DEF Got
  <2>2. IsFiniteSet(new) /\ Cardinality(new) = n
    <3>1. IsFiniteSet(new)
          /\ Cardinality(new) = IF Len(taken) + 1 > Len(taken) + n THEN 0
                                ELSE (Len(taken) + n) - (Len(taken) + 1) + 1
      <4>1. Len(taken) + 1 \in Int /\ Len(taken) + n \in Int
        BY <1>2
      <4>. QED
        BY <4>1, FS_Interval
    <3>. QED
      BY <1>2, <3>1
  <2>3. IsFiniteSet(Got(taken', i)) /\ Cardinality(Got(taken', i)) <= n
    BY <2>1, <2>2, FS_Subset
  <2>4. Cardinality(Got(taken', i)) \in Nat
    BY <2>3, FS_CardinalityType
  <2>. QED
    BY <1>2, <2>3, <2>4, Numbers
<1>. QED
  BY <1>1, <1>4, <1>5 DEF TakenOK

-----------------------------------------------------------------------------
(* The steps.                                                              *)

(* The minimum is one of the two and no more than either.                  *)
LEMMA MinIs ==
  ASSUME NEW a \in Nat, NEW b \in Nat
  PROVE  MinOf(a, b) \in 0..a /\ MinOf(a, b) \in 0..b
BY DEF MinOf

(* What the reads have lies in the buffers of reads that have succeeded,   *)
(* as long as no step changes the outcome of a read that has one.          *)
LEMMA TakenStays ==
  ASSUME TakenOK, NothingTakenIsLost, FinishedStay, UNCHANGED taken
  PROVE  TakenOK' /\ NothingTakenIsLost'
<1>1. \A n \in DOMAIN taken : taken[n].read \in Irps /\ pos[taken[n].read] \in Finished
  <2>1. \A n \in DOMAIN taken : taken[n] \in Takens
    BY LenProperties, ElementOfSeq DEF TakenOK
  <2>. QED
    BY <2>1 DEF Takens, NothingTakenIsLost, Finished
<1>2. NothingTakenIsLost'
  BY <1>1 DEF NothingTakenIsLost, FinishedStay
<1>3. TakenOK'
  BY DEF TakenOK, Got
<1>. QED
  BY <1>2, <1>3

(* What is inside is a sequence of numbers.                                *)
LEMMA InsideIs ==
  ASSUME fifo \in Seq(Nat), rx \in Seq(Nat), taken \in Seq(Takens)
  PROVE  /\ BytesTaken(taken) \in Seq(Nat) /\ BytesTaken(taken) \o rx \in Seq(Nat)
         /\ Inside \in Seq(Nat)
<1>1. BytesTaken(taken) \in Seq(Nat)
  BY BytesTakenIs
<1>2. BytesTaken(taken) \o rx \in Seq(Nat)
  BY <1>1, ConcatProperties
<1>3. (BytesTaken(taken) \o rx) \o fifo \in Seq(Nat)
  BY <1>2, ConcatProperties
<1>. QED
  BY <1>1, <1>2, <1>3 DEF Inside

(* A step that moves no byte.                                              *)
LEMMA QuietStep ==
  ASSUME Inv, PortInv', FinishedStay, UNCHANGED <<chip, rx, hist>>
  PROVE  Inv'
<1>1. UNCHANGED <<fifo, arrived, rx, taken, gone>>
  BY DEF chip, hist
<1>2. Inside' = Inside /\ BuffersOK'
  BY <1>1 DEF Inv, BuffersOK, Inside, BytesTaken
<1>3. InOrder(Inside', gone', arrived')
  BY <1>1, <1>2 DEF Inv
<1>4. TakenOK' /\ NothingTakenIsLost'
  BY <1>1, TakenStays DEF Inv
<1>. QED
  BY <1>2, <1>3, <1>4 DEF Inv, InOrder, Bytes

(* A byte comes, into the FIFO or to its loss.                             *)
LEMMA ArriveStep == Inv /\ ByteArrives => Inv'
<1>. SUFFICES ASSUME Inv, ByteArrives PROVE Inv'
  OBVIOUS
<1>1. UNCHANGED <<portVars, rx, taken>> /\ arrived' = arrived + 1 /\ arrived < MaxBytes
  BY DEF ByteArrives
<1>2. PortInv' /\ FinishedStay
  BY <1>1, StillStep DEF Inv
<1>3. TakenOK' /\ NothingTakenIsLost'
  BY <1>1, <1>2, TakenStays DEF Inv
<1>4. arrived \in Nat /\ arrived' \in 0..MaxBytes
  BY <1>1, Numbers DEF Inv, BuffersOK
<1>5. /\ fifo \in Seq(Nat) /\ Len(fifo) \in Nat /\ Inside \in Seq(Nat)
      /\ BytesTaken(taken) \o rx \in Seq(Nat)
  BY InsideIs, LenProperties DEF Inv, BuffersOK, TakenOK
<1>6. CASE Len(fifo) < FifoSize
  <2>1. fifo' = Append(fifo, arrived + 1) /\ gone' = gone
    BY <1>6 DEF ByteArrives
  <2>2. fifo' \in Seq(Nat) /\ Len(fifo') <= FifoSize
    BY <1>4, <1>5, <1>6, <2>1, Numbers, AppendProperties
  <2>3. Inside' = Append(Inside, arrived + 1)
    <3>1. fifo' = fifo \o <<arrived + 1>> /\ <<arrived + 1>> \in Seq(Nat)
      <4>1. arrived + 1 \in Nat
        BY <1>4
      <4>2. <<arrived + 1>> \in Seq(Nat)
        BY <4>1
      <4>. QED
        BY <1>5, <2>1, <4>1, <4>2, AppendIsConcat
    <3>2. Inside' = (BytesTaken(taken) \o rx) \o fifo'
      BY <1>1 DEF Inside, BytesTaken
    <3>3. (BytesTaken(taken) \o rx) \o (fifo \o <<arrived + 1>>)
            = ((BytesTaken(taken) \o rx) \o fifo) \o <<arrived + 1>>
      <4>. DEFINE x == BytesTaken(taken) \o rx
                  y == <<arrived + 1>>
      <4>1. x \in Seq(Nat) /\ fifo \in Seq(Nat) /\ y \in Seq(Nat)
        BY <1>5, <3>1
      <4>. HIDE DEF x, y
      <4>2. x \o (fifo \o y) = (x \o fifo) \o y
        BY <4>1, Regroup
      <4>. QED
        BY <4>2 DEF x, y
    <3>4. Inside' = Inside \o <<arrived + 1>>
      BY <3>1, <3>2, <3>3 DEF Inside
    <3>. QED
      BY <1>4, <1>5, <3>4, AppendIsConcat
  <2>4. InOrder(Append(Inside, arrived + 1), gone, arrived + 1)
    BY <1>4, <1>5, InOrderAppend DEF Inv
  <2>5. InOrder(Inside', gone', arrived')
    BY <1>1, <2>1, <2>3, <2>4
  <2>6. BuffersOK'
    BY <1>1, <1>4, <2>2 DEF Inv, BuffersOK
  <2>. QED
    BY <1>2, <1>3, <2>5, <2>6 DEF Inv, InOrder, Bytes
<1>7. CASE ~(Len(fifo) < FifoSize)
  <2>1. gone' = gone \cup {arrived + 1} /\ fifo' = fifo
    BY <1>7 DEF ByteArrives
  <2>2. Inside' = Inside
    BY <1>1, <2>1 DEF Inside, BytesTaken
  <2>3. InOrder(Inside, gone \cup {arrived + 1}, arrived + 1)
    BY <1>4, <1>5, InOrderLost DEF Inv
  <2>4. InOrder(Inside', gone', arrived')
    BY <1>1, <2>1, <2>2, <2>3
  <2>5. BuffersOK'
    BY <1>1, <1>4, <2>1 DEF Inv, BuffersOK
  <2>. QED
    BY <1>2, <1>3, <2>4, <2>5 DEF Inv, InOrder, Bytes
<1>. QED
  BY <1>6, <1>7

(* The interrupt routine moves the FIFO to the ring; what does not fit is  *)
(* the end of the sequence.                                                *)
LEMMA InterruptStep == ASSUME Inv, NEW c \in Cpus, Interrupt(c) PROVE Inv'
<1>. DEFINE n == MinOf(Len(fifo), RingSize - Len(rx))
            fit == SubSeq(fifo, 1, n)
            rest == SubSeq(fifo, n + 1, Len(fifo))
            held == BytesTaken(taken) \o rx
<1>1. /\ rx' = rx \o fit /\ gone' = gone \cup Bytes(rest) /\ fifo' = <<>>
      /\ QueueDpc(c) /\ UNCHANGED <<port, requests, dpcPc, dpcIrp, arrived, taken>>
  BY DEF Interrupt, RxBufPut, RxServed
<1>2. PortInv' /\ FinishedStay
  BY <1>1, QueueDpcStep DEF Inv
<1>3. TakenOK' /\ NothingTakenIsLost'
  BY <1>1, <1>2, TakenStays DEF Inv
<1>4. /\ fifo \in Seq(Nat) /\ Len(fifo) \in Nat /\ rx \in Seq(Nat) /\ Len(rx) \in Nat
      /\ held \in Seq(Nat) /\ BytesTaken(taken) \in Seq(Nat)
      /\ Len(rx) <= RingSize /\ RingSize \in Nat
  BY InsideIs, LenProperties, Numbers DEF Inv, BuffersOK, TakenOK
<1>5. n \in 0..Len(fifo) /\ n \in Nat /\ n <= RingSize - Len(rx)
  <2>1. RingSize - Len(rx) \in Nat
    BY <1>4
  <2>2. n \in 0..Len(fifo) /\ n \in 0..(RingSize - Len(rx))
    BY <1>4, <2>1, MinIs
  <2>. HIDE DEF n
  <2>. QED
    BY <1>4, <2>1, <2>2
<1>. HIDE DEF n
<1>6. fit \in Seq(Nat) /\ Len(fit) = n /\ rest \in Seq(Nat) /\ fit \o rest = fifo
  BY <1>4, <1>5, Cut
<1>. HIDE DEF fit, rest
<1>7. BuffersOK'
  <2>1. rx' \in Seq(Nat) /\ Len(rx') = Len(rx) + Len(fit)
    BY <1>1, <1>4, <1>6, ConcatProperties
  <2>2. <<>> \in Seq(Nat) /\ Len(<<>>) = 0
    BY EmptySeq
  <2>. QED
    BY <1>1, <1>4, <1>5, <1>6, <2>1, <2>2, Numbers DEF Inv, BuffersOK
<1>8. Inside = (held \o fit) \o rest
  <2>1. Inside = held \o (fit \o rest)
    BY <1>6 DEF Inside
  <2>2. (held \o fit) \o rest = held \o (fit \o rest)
    <3>1. held \in Seq(Nat) /\ fit \in Seq(Nat) /\ rest \in Seq(Nat)
      BY <1>4, <1>6
    <3>. HIDE DEF held
    <3>. QED
      BY <3>1, Regroup
  <2>. QED
    BY <2>1, <2>2
<1>9. Inside' = held \o fit
  <2>1. Inside' = (BytesTaken(taken) \o (rx \o fit)) \o <<>>
    BY <1>1 DEF Inside, BytesTaken
  <2>2. BytesTaken(taken) \o (rx \o fit) = held \o fit
    <3>. DEFINE b == BytesTaken(taken)
    <3>1. b \in Seq(Nat) /\ rx \in Seq(Nat) /\ fit \in Seq(Nat)
      BY <1>4, <1>6
    <3>. HIDE DEF b
    <3>2. (b \o rx) \o fit = b \o (rx \o fit)
      BY <3>1, Regroup
    <3>. QED
      BY <3>2 DEF b
  <2>3. held \o fit \in Seq(Nat)
    BY <1>4, <1>6, ConcatProperties
  <2>. HIDE DEF held
  <2>. QED
    BY <2>1, <2>2, <2>3, ConcatEmptySeq
<1>10. InOrder(held \o fit, gone \cup Bytes(rest), arrived)
  <2>1. held \o fit \in Seq(Nat) /\ rest \in Seq(Nat)
    BY <1>4, <1>6, ConcatProperties
  <2>2. InOrder((held \o fit) \o rest, gone, arrived)
    BY <1>8 DEF Inv
  <2>. HIDE DEF held
  <2>. QED
    BY <2>1, <2>2, InOrderCut
<1>11. InOrder(Inside', gone', arrived')
  BY <1>1, <1>9, <1>10
<1>. QED
  BY <1>2, <1>3, <1>7, <1>11 DEF Inv, InOrder, Bytes

(* A read gets its bytes, and is complete if it gets any.                  *)
LEMMA CopyStep ==
  ASSUME Inv, NEW i \in Irps, pos[i] \in {"entered", "dpc"}, SyncRead(i, Avail(Asked[i])),
         UNCHANGED <<chip, gone>>, PortInv', FinishedStay,
         pos'[i] = "ok" \/ Avail(Asked[i]) = 0
  PROVE  Inv'
<1>. DEFINE n == Avail(Asked[i])
<1>1. /\ fifo \in Seq(Nat) /\ rx \in Seq(Nat) /\ Len(rx) \in Nat
      /\ taken \in Seq(Takens) /\ Len(taken) \in Nat /\ Asked[i] \in Nat
      /\ DOMAIN taken = 1..Len(taken)
  BY Numbers, LenProperties DEF Inv, BuffersOK, TakenOK
<1>2. n \in 0..Len(rx) /\ n <= Asked[i] /\ n \in Nat
  BY <1>1, MinIs DEF Avail
<1>3. SyncRead(i, n)
  OBVIOUS
<1>4. Got(taken, i) = {}
  BY DEF Got, Inv, NothingTakenIsLost
<1>5. pos'[i] = "ok" \/ n = 0
  OBVIOUS
<1>. HIDE DEF n
<1>6. TakenOK'
  BY <1>1, <1>2, <1>3, <1>4, SyncReadCount DEF Inv
<1>7. /\ taken' \in Seq(Takens) /\ Len(taken') = Len(taken) + n
      /\ \A k \in 1..Len(taken) : taken'[k] = taken[k]
      /\ \A k \in 1..n : taken'[Len(taken) + k].read = i
      /\ rx' \in Seq(Nat) /\ Len(rx') = Len(rx) - n
      /\ BytesTaken(taken') \o rx' = BytesTaken(taken) \o rx
  BY <1>1, <1>2, <1>3, SyncReadIs
<1>8. NothingTakenIsLost'
  <2>1. DOMAIN taken' = 1..(Len(taken) + n)
    BY <1>7, LenProperties
  <2>2. ASSUME NEW k \in 1..Len(taken)
        PROVE  pos'[taken'[k].read] = "ok"
    <3>1. taken[k] \in Takens /\ pos[taken[k].read] = "ok"
      BY <1>1, ElementOfSeq DEF Inv, NothingTakenIsLost
    <3>. QED
      BY <1>7, <3>1 DEF FinishedStay, Finished, Takens
  <2>3. ASSUME NEW k \in 1..(Len(taken) + n), ~(k <= Len(taken))
        PROVE  pos'[taken'[k].read] = "ok"
    <3>1. k - Len(taken) \in 1..n /\ Len(taken) + (k - Len(taken)) = k /\ n # 0
      BY <1>1, <1>2, <2>3
    <3>. QED
      BY <1>5, <1>7, <3>1
  <2>4. \A k \in 1..(Len(taken) + n) : k <= Len(taken) => k \in 1..Len(taken)
    BY <1>1, <1>2
  <2>5. \A k \in DOMAIN taken' : pos'[taken'[k].read] = "ok"
    BY <2>1, <2>2, <2>3, <2>4
  <2>. QED
    BY <2>5 DEF NothingTakenIsLost
<1>9. Inside' = Inside
  <2>1. Inside' = (BytesTaken(taken') \o rx') \o fifo
    BY DEF Inside, BytesTaken, chip
  <2>. QED
    BY <1>7, <2>1 DEF Inside
<1>10. InOrder(Inside', gone', arrived')
  BY <1>9 DEF Inv, chip
<1>11. BuffersOK'
  BY <1>1, <1>2, <1>7, Numbers DEF Inv, BuffersOK, chip
<1>. QED
  BY <1>6, <1>8, <1>10, <1>11 DEF Inv, InOrder, Bytes

(* The ring and the FIFO are emptied.                                      *)
LEMMA DiscardStep ==
  ASSUME Inv, PortInv', FinishedStay, rx' = <<>>, fifo' = <<>>,
         gone' = gone \cup Bytes(rx) \cup Bytes(fifo), UNCHANGED <<arrived, taken>>
  PROVE  Inv'
<1>1. TakenOK' /\ NothingTakenIsLost'
  BY TakenStays DEF Inv
<1>2. BuffersOK'
  <2>1. <<>> \in Seq(Nat) /\ Len(<<>>) = 0
    BY EmptySeq
  <2>. QED
    BY <2>1, Numbers DEF Inv, BuffersOK
<1>. DEFINE t == BytesTaken(taken)
            left == rx \o fifo
<1>3. t \in Seq(Nat) /\ rx \in Seq(Nat) /\ fifo \in Seq(Nat)
  BY InsideIs DEF Inv, BuffersOK, TakenOK
<1>4. Inside' = (t \o <<>>) \o <<>>
  BY DEF Inside, BytesTaken
<1>5. Inside = (t \o rx) \o fifo
  BY DEF Inside
<1>. HIDE DEF t
<1>6. Inside' = t
  <2>1. t \o <<>> = t
    BY <1>3, ConcatEmptySeq
  <2>. QED
    BY <1>4, <2>1
<1>7. Inside = t \o left
  <2>1. (t \o rx) \o fifo = t \o (rx \o fifo)
    BY <1>3, Regroup
  <2>. QED
    BY <1>5, <2>1
<1>8. left \in Seq(Nat) /\ Bytes(left) = Bytes(rx) \cup Bytes(fifo)
  BY <1>3, ConcatProperties, ConcatBytes
<1>. HIDE DEF left
<1>9. InOrder(t, gone \cup Bytes(left), arrived)
  <2>1. InOrder(t \o left, gone, arrived)
    BY <1>7 DEF Inv
  <2>. QED
    BY <1>3, <1>8, <2>1, InOrderCut
<1>10. gone' = gone \cup Bytes(left)
  BY <1>8
<1>11. InOrder(Inside', gone', arrived')
  BY <1>6, <1>9, <1>10
<1>. QED
  BY <1>1, <1>2, <1>11 DEF Inv, InOrder, Bytes

(* Every step of Next is one of these.                                     *)
LEMMA StepInv == Inv /\ [Next]_vars => Inv'
<1>. SUFFICES ASSUME Inv, [Next]_vars PROVE Inv'
  OBVIOUS
<1>1. CASE ByteArrives
  BY <1>1, ArriveStep
<1>2. CASE Create \/ Purge
  <2>1. /\ rx' = <<>> /\ fifo' = <<>> /\ gone' = gone \cup Bytes(rx) \cup Bytes(fifo)
        /\ UNCHANGED <<arrived, taken>>
    BY <1>2 DEF Create, FreshRing, Purge
  <2>2. PortInv' /\ FinishedStay
    <3>1. CASE Create
      BY <3>1, HandleSteps DEF Create, Inv
    <3>2. CASE Purge
      BY <3>2, StillStep DEF Purge, Inv
    <3>. QED
      BY <1>2, <3>1, <3>2
  <2>. QED
    BY <2>1, <2>2, DiscardStep
<1>3. CASE HandleStep
  <2>1. UNCHANGED <<chip, rx, hist>>
    BY <1>3 DEF HandleStep
  <2>2. PortInv' /\ FinishedStay
    <3>1. CASE DrainNext \/ \E i \in Irps : CancelIrp(i)
      BY <3>1, CancelSteps DEF Inv
    <3>2. CASE \/ CleanupEnter \/ CleanupReturn \/ PurgeEnter \/ PurgeReturn \/ ClosePort
      BY <3>2, HandleSteps DEF Inv
    <3>. QED
      BY <1>3, <3>1, <3>2 DEF HandleStep, Handle
  <2>. QED
    BY <2>1, <2>2, QuietStep
<1>4. ASSUME NEW c \in Cpus, Interrupt(c)
      PROVE  Inv'
  BY <1>4, InterruptStep
<1>5. ASSUME NEW c \in Cpus,
             ReadDpcStart(c) \/ ReadDpcTake(c) \/ ReadDpcLeave(c) \/ ReadDpcRequeue(c)
      PROVE  Inv'
  <2>1. UNCHANGED <<chip, rx, hist>> /\ (DpcStart(c) \/ DpcTake(c) \/ DpcLeave(c) \/ DpcRequeue(c))
    BY <1>5 DEF ReadDpcStart, ReadDpcTake, ReadDpcLeave, ReadDpcRequeue
  <2>2. PortInv' /\ FinishedStay
    BY <2>1, DpcSteps DEF Inv
  <2>. QED
    BY <2>1, <2>2, QuietStep
<1>6. ASSUME NEW c \in Cpus, ReadDpcFill(c)
      PROVE  Inv'
  <2>. DEFINE i == dpcIrp[c]
              n == Avail(Asked[i])
  <2>1. /\ dpcPc[c] = "have" /\ SyncRead(i, n)
        /\ UNCHANGED <<port, queue, dpcQueued, chip, gone>>
    BY <1>6 DEF ReadDpcFill
  <2>2. i \in Irps /\ pos[i] = "dpc"
    BY <2>1, DpcHolds DEF Inv, PortInv
  <2>3. CASE Done(i, "ok") /\ DpcRelease(c, "next")
    <3>1. PortInv' /\ FinishedStay
      BY <2>1, <2>3, FinishStep DEF Inv, Finished
    <3>2. pos'[i] = "ok"
      BY <2>2, <2>3 DEF Done, Becomes, Inv, PortInv, PosOK
    <3>. QED
      BY <2>1, <2>2, <3>1, <3>2, CopyStep
  <2>4. CASE n = 0 /\ dpcPc' = [dpcPc EXCEPT ![c] = "requeue"] /\ UNCHANGED <<pos, cancel, dpcIrp>>
    <3>1. PortInv' /\ FinishedStay
      BY <2>1, <2>4, KeepStep DEF Inv, requests
    <3>. QED
      BY <2>1, <2>2, <2>4, <3>1, CopyStep
  <2>. QED
    BY <1>6, <2>3, <2>4 DEF ReadDpcFill, ReadStatus, AfterRead
<1>7. ASSUME NEW i \in Irps, ReadEnter(i) \/ ReadQueue(i)
      PROVE  Inv'
  <2>1. UNCHANGED <<chip, rx, hist>>
    BY <1>7 DEF ReadEnter, ReadQueue
  <2>2. PortInv' /\ FinishedStay
    <3>1. CASE ReadEnter(i)
      <4>1. pos[i] = "new" /\ Becomes(i, "entered") /\ cancel' = cancel /\ UNCHANGED <<port, dpc, queue>>
        BY <3>1 DEF ReadEnter
      <4>. QED
        BY <4>1, MoveStep DEF Inv, PortInv
    <3>2. CASE ReadQueue(i)
      BY <3>2, InsertStep DEF ReadQueue, Inv
    <3>. QED
      BY <1>7, <3>1, <3>2
  <2>. QED
    BY <2>1, <2>2, QuietStep
<1>8. ASSUME NEW i \in Irps, ReadFast(i)
      PROVE  Inv'
  <2>. DEFINE n == Avail(Asked[i])
  <2>1. /\ pos[i] = "entered" /\ SyncRead(i, n) /\ UNCHANGED <<port, dpc, queue, chip, gone>>
    BY <1>8 DEF ReadFast
  <2>2. CASE Done(i, "ok")
    <3>1. PortInv' /\ FinishedStay
      <4>1. Becomes(i, "ok") /\ cancel' \subseteq Irps
        BY <2>2 DEF Done, Inv, PortInv
      <4>. QED
        BY <2>1, <4>1, MoveStep DEF Inv, Finished
    <3>2. pos'[i] = "ok"
      BY <2>2 DEF Done, Becomes, Inv, PortInv, PosOK
    <3>. QED
      BY <2>1, <3>1, <3>2, CopyStep
  <2>3. CASE n = 0 /\ Becomes(i, "slow") /\ UNCHANGED cancel
    <3>1. PortInv' /\ FinishedStay
      <4>1. Becomes(i, "slow") /\ cancel' \subseteq Irps
        BY <2>3 DEF Inv, PortInv
      <4>. QED
        BY <2>1, <4>1, MoveStep DEF Inv
    <3>. QED
      BY <2>1, <2>3, <3>1, CopyStep
  <2>. QED
    BY <1>8, <2>2, <2>3 DEF ReadFast
<1>9. CASE UNCHANGED vars
  <2>1. UNCHANGED portVars /\ UNCHANGED <<chip, rx, hist>>
    BY <1>9 DEF vars
  <2>2. PortInv' /\ FinishedStay
    BY <2>1, StillStep DEF Inv
  <2>. QED
    BY <2>1, <2>2, QuietStep
<1>. QED
  BY <1>1, <1>2, <1>3, <1>4, <1>5, <1>6, <1>7, <1>8, <1>9 DEF Next, Dpc

(* It holds at the start.                                                  *)
LEMMA InitInv == Init => Inv
<1>. SUFFICES ASSUME Init PROVE Inv
  OBVIOUS
<1>1. PortInv
  BY PortStarts DEF Init
<1>2. /\ fifo = <<>> /\ rx = <<>> /\ arrived = 0 /\ taken = <<>> /\ gone = {}
  BY DEF Init
<1>3. /\ <<>> \in Seq(Nat) /\ <<>> \in Seq(Takens) /\ Len(<<>>) = 0 /\ DOMAIN <<>> = {}
  <2>1. <<>> \in Seq(Nat) /\ Len(<<>>) = 0
    BY EmptySeq
  <2>2. <<>> \in Seq(Takens)
    BY EmptySeq
  <2>. QED
    BY <2>1, <2>2
<1>4. BuffersOK
  BY <1>2, <1>3, Numbers DEF BuffersOK
<1>5. TakenOK
  <2>1. ASSUME NEW i \in Irps
        PROVE  Cardinality(Got(taken, i)) <= Asked[i]
    <3>1. Got(taken, i) = {}
      BY <1>2, <1>3 DEF Got
    <3>. QED
      BY <3>1, FS_EmptySet, Numbers
  <2>. QED
    BY <1>2, <1>3, <2>1 DEF TakenOK
<1>6. NothingTakenIsLost
  BY <1>2, <1>3 DEF NothingTakenIsLost
<1>7. Inside = <<>>
  <2>1. BytesTaken(<<>>) = <<>>
    <3>1. BytesTaken(<<>>) \in Seq(Nat) /\ Len(BytesTaken(<<>>)) = 0
      BY <1>3, BytesTakenIs
    <3>. QED
      BY <3>1, EmptySeq
  <2>. QED
    BY <1>2, <1>3, <2>1, ConcatEmptySeq DEF Inside
<1>8. InOrder(<<>>, {}, 0)
  <2>1. 1..0 = {}
    OBVIOUS
  <2>. QED
    BY <1>3, <2>1 DEF InOrder, Bytes
<1>. QED
  BY <1>1, <1>2, <1>4, <1>5, <1>6, <1>7, <1>8 DEF Inv

(* The invariant holds in every state the system reaches.                  *)
LEMMA Invariance == Spec => []Inv
BY InitInv, StepInv, PTL DEF Spec

-----------------------------------------------------------------------------
(* Each read is in one place, the buffers stay within their sizes, and no  *)
(* read gets more bytes than it asked for, however reads, cancellations,   *)
(* purges and DPCs on several processors interleave.                       *)
THEOREM TypeCorrect == Spec => []TypeOK
<1>1. Inv => TypeOK
  BY PortInvIsOneOwner DEF Inv, BuffersOK, TakenOK, Got, TypeOK
<1>. QED
  BY <1>1, Invariance, PTL

(* A byte that left the ring is in the buffer of a read that succeeded: a  *)
(* read cancelled while a DPC holds it is completed with what it got.      *)
THEOREM TakenIsKept == Spec => []NothingTakenIsLost
<1>1. Inv => NothingTakenIsLost
  BY DEF Inv
<1>. QED
  BY <1>1, Invariance, PTL

(* The bytes the reads have, those of the ring and those of the FIFO are,  *)
(* one after the other, in the order of arrival and each once, and every   *)
(* other byte that came is known to be lost or discarded.                  *)
THEOREM OrderKept == Spec => []ReadInOrder
<1>1. Inv => ReadInOrder
  BY DEF Inv, InOrder, Inside, BytesTaken, ReadInOrder
<1>. QED
  BY <1>1, Invariance, PTL
=============================================================================
