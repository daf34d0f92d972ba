---------------------------- MODULE CyPort_proofs ----------------------------
(* Proofs about the request handling that reading and writing share, for   *)
(* any set of requests and of processors: each operation of the queue, of  *)
(* the handle and of the DPC keeps each request with its one owner.        *)
EXTENDS CyPort, SequenceTheorems, TLAPS

-----------------------------------------------------------------------------
(* Sequences, as the buffers use them.                                     *)

(* A cut divides a sequence.                                               *)
LEMMA Cut ==
  ASSUME NEW S, NEW s \in Seq(S), NEW n \in 0..Len(s)
  PROVE  /\ SubSeq(s, 1, n) \in Seq(S) /\ Len(SubSeq(s, 1, n)) = n
         /\ \A k \in 1..n : SubSeq(s, 1, n)[k] = s[k]
         /\ SubSeq(s, n + 1, Len(s)) \in Seq(S) /\ Len(SubSeq(s, n + 1, Len(s))) = Len(s) - n
         /\ SubSeq(s, 1, n) \o SubSeq(s, n + 1, Len(s)) = s
<1>1. /\ Len(s) \in Nat /\ n \in Nat /\ n <= Len(s)
      /\ \A k \in 1..Len(s) : s[k] \in S
  BY LenProperties, ElementOfSeq
<1>2. \A k \in 1..n : s[k] \in S
  BY <1>1
<1>3. \A k \in (n + 1)..Len(s) : s[k] \in S
  BY <1>1
<1>4. /\ SubSeq(s, 1, n) \in Seq(S) /\ Len(SubSeq(s, 1, n)) = n
      /\ \A k \in 1..n : SubSeq(s, 1, n)[k] = s[k]
  <2>1. /\ SubSeq(s, 1, n) \in Seq(S)
        /\ Len(SubSeq(s, 1, n)) = IF 1 <= n THEN n - 1 + 1 ELSE 0
        /\ \A k \in 1..(n - 1 + 1) : SubSeq(s, 1, n)[k] = s[1 + k - 1]
    BY <1>1, <1>2, SubSeqProperties
  <2>. QED
    BY <1>1, <2>1
<1>5. SubSeq(s, n + 1, Len(s)) \in Seq(S) /\ Len(SubSeq(s, n + 1, Len(s))) = Len(s) - n
  <2>1. /\ SubSeq(s, n + 1, Len(s)) \in Seq(S)
        /\ Len(SubSeq(s, n + 1, Len(s))) = IF n + 1 <= Len(s) THEN Len(s) - (n + 1) + 1 ELSE 0
    BY <1>1, <1>3, SubSeqProperties
  <2>. QED
    BY <1>1, <2>1
<1>6. SubSeq(s, 1, n) \o SubSeq(s, n + 1, Len(s)) = s
  <2>1. 1 \in 1..(Len(s) + 1) /\ n \in (1 - 1)..Len(s) /\ Len(s) \in n..Len(s)
    BY <1>1
  <2>2. SubSeq(s, 1, n) \o SubSeq(s, n + 1, Len(s)) = SubSeq(s, 1, Len(s))
    BY <2>1, ConcatAdjacentSubSeq
  <2>. QED
    BY <2>2, SubSeqFull
<1>. QED
  BY <1>4, <1>5, <1>6

(* The elements of a sequence.                                           *)
Elements(s) == {s[n] : n \in DOMAIN s}

(* Those of two sequences, one after the other.                            *)
LEMMA ConcatElements ==
  ASSUME NEW S, NEW s \in Seq(S), NEW t \in Seq(S)
  PROVE  Elements(s \o t) = Elements(s) \cup Elements(t)
<1>1. /\ s \o t \in Seq(S) /\ Len(s \o t) = Len(s) + Len(t)
      /\ \A k \in 1..Len(s) + Len(t) :
           (s \o t)[k] = IF k <= Len(s) THEN s[k] ELSE t[k - Len(s)]
  BY ConcatProperties
<1>2. /\ Len(s) \in Nat /\ Len(t) \in Nat /\ DOMAIN s = 1..Len(s) /\ DOMAIN t = 1..Len(t)
      /\ DOMAIN (s \o t) = 1..(Len(s) + Len(t))
  BY <1>1, LenProperties
<1>3. ASSUME NEW k \in DOMAIN s
      PROVE  k \in DOMAIN (s \o t) /\ (s \o t)[k] = s[k]
  BY <1>1, <1>2
<1>4. ASSUME NEW k \in DOMAIN t
      PROVE  k + Len(s) \in DOMAIN (s \o t) /\ (s \o t)[k + Len(s)] = t[k]
  <2>1. k + Len(s) \in 1..Len(s) + Len(t) /\ ~(k + Len(s) <= Len(s)) /\ (k + Len(s)) - Len(s) = k
    BY <1>2
  <2>. QED
    BY <1>1, <1>2, <2>1
<1>5. ASSUME NEW k \in DOMAIN (s \o t)
      PROVE  (s \o t)[k] \in Elements(s) \cup Elements(t)
  <2>1. CASE k <= Len(s)
    BY <1>1, <1>2, <2>1 DEF Elements
  <2>2. CASE ~(k <= Len(s))
    <3>1. k - Len(s) \in DOMAIN t
      BY <1>2, <2>2
    <3>. QED
      BY <1>1, <1>2, <2>2, <3>1 DEF Elements
  <2>. QED
    BY <2>1, <2>2
<1>6. Elements(s) \subseteq Elements(s \o t) /\ Elements(t) \subseteq Elements(s \o t)
  BY <1>3, <1>4 DEF Elements
<1>7. Elements(s \o t) \subseteq Elements(s) \cup Elements(t)
  BY <1>5 DEF Elements
<1>. QED
  BY <1>6, <1>7

-----------------------------------------------------------------------------
(* The invariant.                                                          *)
Places == Finished \cup {"new", "entered", "slow", "queued", "dpc"}

(* OneOwner, element by element: for the queue ...                         *)
QueueOwns(q, p) ==
  /\ \A m, n \in DOMAIN q : q[m] = q[n] => m = n
  /\ \A n \in DOMAIN q : p[q[n]] = "queued"
  /\ \A i \in Irps : p[i] = "queued" => \E n \in DOMAIN q : q[n] = i

(* ... and for the DPCs.                                                   *)
DpcsOwn(d, p) ==
  /\ \A c, e \in Cpus : d[c] = d[e] => c = e \/ d[c] = NoIrp
  /\ \A c \in Cpus : d[c] # NoIrp => p[d[c]] = "dpc"
  /\ \A i \in Irps : p[i] = "dpc" => \E c \in Cpus : d[c] = i

(* The places, the queue and the DPCs, each with its shape.                *)
PosOK(p) == p \in [Irps -> Places]
QueueOK(q, p) == q \in Seq(Irps) /\ QueueOwns(q, p)
DpcOK(pc, d, p) ==
  /\ pc \in [Cpus -> {"idle", "next", "have", "requeue"}]
  /\ d \in [Cpus -> Irps \cup {NoIrp}]
  /\ \A c \in Cpus : pc[c] \in {"have", "requeue"} <=> d[c] # NoIrp
  /\ DpcsOwn(d, p)

(* The handle and the flags.                                               *)
HandleOK ==
  /\ handle \in {"none", "open", "cleanup", "cleaned"}
  /\ isOpen \in BOOLEAN /\ (isOpen <=> handle # "none")
  /\ opens \in 0..MaxOpens /\ purging \in BOOLEAN

(* The invariant of the port, in the parts the proofs treat one by one.    *)
PortInv ==
  /\ HandleOK
  /\ PosOK(pos) /\ QueueOK(queue, pos) /\ DpcOK(dpcPc, dpcIrp, pos)
  /\ cancel \subseteq Irps /\ dpcQueued \subseteq Cpus

(* The parts add up to what the runs check.                                *)
LEMMA PortInvIsOneOwner == PortInv <=> PortTypeOK /\ OneOwner
<1>1. ASSUME PortTypeOK
      PROVE  OneOwner <=> QueueOwns(queue, pos) /\ DpcsOwn(dpcIrp, pos)
  <2>1. queue \in Seq(Irps) /\ dpcIrp \in [Cpus -> Irps \cup {NoIrp}] /\ NoIrp \notin Irps
    BY <1>1, PortAssumption DEF PortTypeOK
  <2>2. \A n \in DOMAIN queue : queue[n] \in Irps
    BY <2>1
  <2>3. {queue[n] : n \in DOMAIN queue} = {i \in Irps : pos[i] = "queued"}
          <=> /\ \A n \in DOMAIN queue : pos[queue[n]] = "queued"
              /\ \A i \in Irps : pos[i] = "queued" => \E n \in DOMAIN queue : queue[n] = i
    BY <2>2
  <2>4. {dpcIrp[c] : c \in Cpus} \ {NoIrp} = {i \in Irps : pos[i] = "dpc"}
          <=> /\ \A c \in Cpus : dpcIrp[c] # NoIrp => pos[dpcIrp[c]] = "dpc"
              /\ \A i \in Irps : pos[i] = "dpc" => \E c \in Cpus : dpcIrp[c] = i
    BY <2>1
  <2>. QED
    BY <2>3, <2>4 DEF OneOwner, QueueOwns, DpcsOwn
<1>2. PortTypeOK <=> /\ HandleOK /\ PosOK(pos) /\ queue \in Seq(Irps)
                     /\ cancel \subseteq Irps /\ dpcQueued \subseteq Cpus
                     /\ dpcPc \in [Cpus -> {"idle", "next", "have", "requeue"}]
                     /\ dpcIrp \in [Cpus -> Irps \cup {NoIrp}]
                     /\ \A c \in Cpus : dpcPc[c] \in {"have", "requeue"} <=> dpcIrp[c] # NoIrp
  BY DEF PortTypeOK, HandleOK, PosOK, Places
<1>. QED
  BY <1>1, <1>2 DEF PortInv, QueueOK, DpcOK

-----------------------------------------------------------------------------
(* The queue.                                                              *)

(* A request that moves between places outside the queue leaves it alone.  *)
LEMMA MoveOutsideQueue ==
  ASSUME NEW q, NEW p, PosOK(p), QueueOK(q, p), NEW i \in Irps, p[i] # "queued",
         NEW place \in Places, place # "queued"
  PROVE  QueueOK(q, [p EXCEPT ![i] = place])
BY DEF PosOK, QueueOK, QueueOwns

(* A request put at the end of the queue is owned by the queue.            *)
LEMMA AppendOwned ==
  ASSUME NEW q, NEW p, PosOK(p), QueueOK(q, p), NEW i \in Irps, p[i] # "queued"
  PROVE  QueueOK(Append(q, i), [p EXCEPT ![i] = "queued"])
<1>. DEFINE r == Append(q, i)
            s == [p EXCEPT ![i] = "queued"]
<1>1. /\ q \in Seq(Irps) /\ r \in Seq(Irps) /\ Len(q) \in Nat
      /\ DOMAIN q = 1..Len(q) /\ DOMAIN r = 1..(Len(q) + 1)
      /\ \A n \in 1..Len(q) : r[n] = q[n] /\ q[n] \in Irps /\ q[n] # i
      /\ r[Len(q) + 1] = i
  BY DEF QueueOK, QueueOwns
<1>2. \A j \in Irps : s[j] = IF j = i THEN "queued" ELSE p[j]
  BY DEF PosOK
<1>3. \A m, n \in DOMAIN r : r[m] = r[n] => m = n
  BY <1>1 DEF QueueOK, QueueOwns
<1>4. \A n \in DOMAIN r : s[r[n]] = "queued"
  BY <1>1, <1>2 DEF QueueOK, QueueOwns
<1>5. \A j \in Irps : s[j] = "queued" => \E n \in DOMAIN r : r[n] = j
  BY <1>1, <1>2 DEF QueueOK, QueueOwns
<1>. QED
  BY <1>1, <1>3, <1>4, <1>5 DEF QueueOK, QueueOwns

(* The queue without one of its requests.                                  *)
Less(q, n) == SubSeq(q, 1, n - 1) \o SubSeq(q, n + 1, Len(q))

(* What it holds.                                                          *)
LEMMA LessIs ==
  ASSUME NEW q \in Seq(Irps), NEW n \in DOMAIN q
  PROVE  /\ Less(q, n) \in Seq(Irps) /\ Len(Less(q, n)) = Len(q) - 1
         /\ DOMAIN Less(q, n) = 1..(Len(q) - 1)
         /\ \A k \in 1..(Len(q) - 1) : Less(q, n)[k] = IF k < n THEN q[k] ELSE q[k + 1]
<1>. DEFINE a == SubSeq(q, 1, n - 1)
            b == SubSeq(q, n + 1, Len(q))
<1>1. Len(q) \in Nat /\ n \in Nat /\ 1 <= n /\ n <= Len(q) /\ DOMAIN q = 1..Len(q)
  BY LenProperties
<1>2. /\ a \in Seq(Irps) /\ Len(a) = n - 1 /\ \A k \in 1..(n - 1) : a[k] = q[k]
  <2>1. 1 \in 1..(Len(q) + 1) /\ n - 1 \in 0..Len(q)
    BY <1>1
  <2>. QED
    BY <1>1, <2>1, SubSeqProperties
<1>3. /\ b \in Seq(Irps) /\ Len(b) = Len(q) - n /\ \A k \in 1..(Len(q) - n) : b[k] = q[n + k]
  <2>1. n + 1 \in 1..(Len(q) + 1) /\ Len(q) \in n..Len(q)
    BY <1>1
  <2>. QED
    BY <1>1, <2>1, SubSeqProperties
<1>. HIDE DEF a, b
<1>4. /\ a \o b \in Seq(Irps) /\ Len(a \o b) = Len(q) - 1
      /\ \A k \in 1..(Len(q) - 1) : (a \o b)[k] = IF k <= n - 1 THEN a[k] ELSE b[k - (n - 1)]
  <2>1. Len(a) + Len(b) = Len(q) - 1
    BY <1>1, <1>2, <1>3
  <2>2. /\ a \o b \in Seq(Irps) /\ Len(a \o b) = Len(a) + Len(b)
        /\ \A k \in 1..Len(a) + Len(b) :
             (a \o b)[k] = IF k <= Len(a) THEN a[k] ELSE b[k - Len(a)]
    <3>1. a \in Seq(Irps) /\ b \in Seq(Irps)
      BY <1>2, <1>3
    <3>. QED
      BY <3>1, ConcatProperties
  <2>. QED
    BY <1>2, <2>1, <2>2
<1>5. ASSUME NEW k \in 1..(Len(q) - 1)
      PROVE  (a \o b)[k] = IF k < n THEN q[k] ELSE q[k + 1]
  <2>1. CASE k < n
    BY <1>1, <1>2, <1>4, <2>1
  <2>2. CASE ~(k < n)
    <3>1. k - (n - 1) \in 1..(Len(q) - n) /\ n + (k - (n - 1)) = k + 1 /\ ~(k <= n - 1)
      BY <1>1, <2>2
    <3>. QED
      BY <1>3, <1>4, <2>2, <3>1
  <2>. QED
    BY <2>1, <2>2
<1>. QED
  BY <1>1, <1>4, <1>5, LenProperties DEF Less, a, b

(* A request taken out of the queue is no longer the queue's, and every    *)
(* other still is.                                                         *)
LEMMA LessOwned ==
  ASSUME NEW q, NEW p, PosOK(p), QueueOK(q, p), NEW n \in DOMAIN q,
         NEW place \in Places, place # "queued"
  PROVE  QueueOK(Less(q, n), [p EXCEPT ![q[n]] = place])
<1>. DEFINE r == Less(q, n)
            s == [p EXCEPT ![q[n]] = place]
<1>1. /\ q \in Seq(Irps) /\ Len(q) \in Nat /\ DOMAIN q = 1..Len(q)
      /\ n \in Nat /\ 1 <= n /\ n <= Len(q)
      /\ \A k \in 1..Len(q) : q[k] \in Irps
  BY LenProperties DEF QueueOK
<1>2. /\ r \in Seq(Irps) /\ DOMAIN r = 1..(Len(q) - 1)
      /\ \A k \in 1..(Len(q) - 1) : r[k] = IF k < n THEN q[k] ELSE q[k + 1]
  BY <1>1, LessIs
<1>3. \A k, m \in 1..Len(q) : q[k] = q[m] => k = m
  BY <1>1 DEF QueueOK, QueueOwns
<1>4. \A j \in Irps : s[j] = IF j = q[n] THEN place ELSE p[j]
  BY DEF PosOK
<1>. HIDE DEF r, s
<1>5. \A k, m \in DOMAIN r : r[k] = r[m] => k = m
  <2>. DEFINE at(k) == IF k < n THEN k ELSE k + 1
  <2>1. ASSUME NEW k \in DOMAIN r
        PROVE  at(k) \in 1..Len(q) /\ r[k] = q[at(k)]
    <3>1. k \in 1..(Len(q) - 1) /\ r[k] = IF k < n THEN q[k] ELSE q[k + 1]
      BY <1>2
    <3>2. at(k) \in 1..Len(q)
      BY <1>1, <3>1
    <3>. QED
      BY <3>1, <3>2
  <2>2. \A k, m \in DOMAIN r : at(k) = at(m) => k = m
    BY <1>1, <1>2
  <2>. HIDE DEF at
  <2>. QED
    BY <1>3, <2>1, <2>2
<1>6. \A k \in DOMAIN r : r[k] # q[n] /\ r[k] \in Irps /\ p[r[k]] = "queued"
  <2>1. \A k \in 1..Len(q) : p[q[k]] = "queued"
    BY <1>1 DEF QueueOK, QueueOwns
  <2>. QED
    BY <1>1, <1>2, <1>3, <2>1
<1>7. \A k \in DOMAIN r : s[r[k]] = "queued"
  BY <1>4, <1>6
<1>8. ASSUME NEW j \in Irps, s[j] = "queued"
      PROVE  \E k \in DOMAIN r : r[k] = j
  <2>1. j # q[n] /\ p[j] = "queued"
    BY <1>4, <1>8
  <2>2. PICK k \in 1..Len(q) : q[k] = j
    BY <1>1, <2>1 DEF QueueOK, QueueOwns
  <2>3. CASE k < n
    BY <1>1, <1>2, <2>2, <2>3
  <2>4. CASE k > n
    <3>1. k - 1 \in 1..(Len(q) - 1) /\ ~(k - 1 < n) /\ (k - 1) + 1 = k
      BY <1>1, <2>4
    <3>. QED
      BY <1>2, <2>2, <3>1
  <2>. QED
    BY <1>1, <2>1, <2>2, <2>3, <2>4
<1>9. QueueOK(r, s)
  BY <1>2, <1>5, <1>7, <1>8 DEF QueueOK, QueueOwns
<1>. QED
  BY <1>9 DEF r, s

(* Taking the first is a case of it.                                       *)
LEMMA TailIsLess ==
  ASSUME NEW q \in Seq(Irps), q # <<>>
  PROVE  /\ 1 \in DOMAIN q /\ Head(q) = q[1] /\ Tail(q) = Less(q, 1)
         /\ Head(q) \in Irps
<1>1. Len(q) \in Nat /\ Len(q) >= 1 /\ DOMAIN q = 1..Len(q)
  BY LenProperties, EmptySeq
<1>2. 1 \in DOMAIN q
  BY <1>1
<1>3. /\ Less(q, 1) \in Seq(Irps) /\ Len(Less(q, 1)) = Len(q) - 1
      /\ \A k \in 1..(Len(q) - 1) : Less(q, 1)[k] = q[k + 1]
  <2>1. /\ Less(q, 1) \in Seq(Irps) /\ Len(Less(q, 1)) = Len(q) - 1
        /\ \A k \in 1..(Len(q) - 1) : Less(q, 1)[k] = IF k < 1 THEN q[k] ELSE q[k + 1]
    BY <1>2, LessIs
  <2>2. ASSUME NEW k \in 1..(Len(q) - 1)
        PROVE  Less(q, 1)[k] = q[k + 1]
    <3>1. ~(k < 1)
      OBVIOUS
    <3>. QED
      BY <2>1, <3>1
  <2>. QED
    BY <2>1, <2>2
<1>4. /\ Tail(q) \in Seq(Irps) /\ Len(Tail(q)) = Len(q) - 1
      /\ \A k \in 1..Len(Tail(q)) : Tail(q)[k] = q[k + 1]
      /\ Head(q) \in Irps
  BY HeadTailProperties
<1>5. Tail(q) = Less(q, 1)
  BY <1>1, <1>3, <1>4, SeqEqual
<1>. QED
  BY <1>2, <1>4, <1>5

-----------------------------------------------------------------------------
(* The DPCs.                                                               *)

(* A request that moves between places outside the DPCs leaves them alone. *)
LEMMA MoveOutsideDpcs ==
  ASSUME NEW pc, NEW d, NEW p, PosOK(p), DpcOK(pc, d, p), NEW i \in Irps, p[i] # "dpc",
         NEW place \in Places, place # "dpc"
  PROVE  DpcOK(pc, d, [p EXCEPT ![i] = place])
BY DEF PosOK, DpcOK, DpcsOwn

(* A DPC that holds no request takes one that no DPC holds.                *)
LEMMA DpcGets ==
  ASSUME NEW pc, NEW d, NEW p, PosOK(p), DpcOK(pc, d, p), NEW i \in Irps, p[i] # "dpc",
         NEW c \in Cpus, pc[c] = "next"
  PROVE  DpcOK([pc EXCEPT ![c] = "have"], [d EXCEPT ![c] = i], [p EXCEPT ![i] = "dpc"])
<1>. DEFINE f == [d EXCEPT ![c] = i]
            s == [p EXCEPT ![i] = "dpc"]
            r == [pc EXCEPT ![c] = "have"]
<1>1. d[c] = NoIrp /\ NoIrp \notin Irps
  BY PortAssumption DEF DpcOK
<1>2. /\ \A j \in Irps : s[j] = IF j = i THEN "dpc" ELSE p[j]
      /\ \A e \in Cpus : f[e] = IF e = c THEN i ELSE d[e]
      /\ \A e \in Cpus : r[e] = IF e = c THEN "have" ELSE pc[e]
      /\ r \in [Cpus -> {"idle", "next", "have", "requeue"}]
      /\ f \in [Cpus -> Irps \cup {NoIrp}]
  BY DEF PosOK, DpcOK
<1>. HIDE DEF f, s, r
<1>3. \A e \in Cpus : r[e] \in {"have", "requeue"} <=> f[e] # NoIrp
  BY <1>1, <1>2 DEF DpcOK
<1>4. \A e \in Cpus : d[e] \in Irps \cup {NoIrp} /\ d[e] # i
  BY <1>1 DEF DpcOK, DpcsOwn
<1>5. DpcsOwn(f, s)
  BY <1>1, <1>2, <1>4 DEF DpcOK, DpcsOwn
<1>6. DpcOK(r, f, s)
  BY <1>2, <1>3, <1>5 DEF DpcOK
<1>. QED
  BY <1>6 DEF r, f, s

(* A DPC past the removal holds a request.                                 *)
LEMMA DpcHolds ==
  ASSUME NEW pc, NEW d, NEW p, DpcOK(pc, d, p), NEW c \in Cpus, pc[c] \in {"have", "requeue"}
  PROVE  d[c] \in Irps /\ p[d[c]] = "dpc"
BY DEF DpcOK, DpcsOwn

(* It lets go of it.                                                       *)
LEMMA DpcLoses ==
  ASSUME NEW pc, NEW d, NEW p, PosOK(p), DpcOK(pc, d, p),
         NEW c \in Cpus, pc[c] \in {"have", "requeue"},
         NEW to \in {"idle", "next"}, NEW place \in Places, place # "dpc"
  PROVE  DpcOK([pc EXCEPT ![c] = to], [d EXCEPT ![c] = NoIrp], [p EXCEPT ![d[c]] = place])
<1>. DEFINE f == [d EXCEPT ![c] = NoIrp]
            s == [p EXCEPT ![d[c]] = place]
            r == [pc EXCEPT ![c] = to]
<1>1. d[c] \in Irps /\ p[d[c]] = "dpc"
  BY DpcHolds
<1>2. /\ \A j \in Irps : s[j] = IF j = d[c] THEN place ELSE p[j]
      /\ \A e \in Cpus : f[e] = IF e = c THEN NoIrp ELSE d[e]
      /\ \A e \in Cpus : r[e] = IF e = c THEN to ELSE pc[e]
      /\ r \in [Cpus -> {"idle", "next", "have", "requeue"}]
      /\ f \in [Cpus -> Irps \cup {NoIrp}]
  BY DEF PosOK, DpcOK
<1>. HIDE DEF f, s, r
<1>3. \A e \in Cpus : r[e] \in {"have", "requeue"} <=> f[e] # NoIrp
  BY <1>1, <1>2 DEF DpcOK
<1>4. \A e \in Cpus : d[e] \in Irps \cup {NoIrp} /\ (e # c => d[e] # d[c])
  BY <1>1, PortAssumption DEF DpcOK, DpcsOwn
<1>5. DpcsOwn(f, s)
  BY <1>1, <1>2, <1>4 DEF DpcOK, DpcsOwn
<1>6. DpcOK(r, f, s)
  BY <1>2, <1>3, <1>5 DEF DpcOK
<1>. QED
  BY <1>6 DEF r, f, s

(* A DPC moves on with what it holds, or with nothing.                     *)
LEMMA DpcMoves ==
  ASSUME NEW pc, NEW d, NEW p, DpcOK(pc, d, p), NEW c \in Cpus,
         NEW to \in {"idle", "next", "have", "requeue"},
         to \in {"have", "requeue"} <=> pc[c] \in {"have", "requeue"}
  PROVE  DpcOK([pc EXCEPT ![c] = to], d, p)
BY DEF DpcOK

-----------------------------------------------------------------------------
(* The operations.  What is completed stays as it was completed, and only  *)
(* those that serve a request complete it with success.                    *)
FinishedStay == \A i \in Irps : pos[i] \in Finished => pos'[i] = pos[i]
NoneSucceeds == \A i \in Irps : pos'[i] = "ok" => pos[i] = "ok"

(* The parts of the invariant of the next state, from the parts of this    *)
(* state the step changes.                                                 *)
LEMMA HandleSteps ==
  ASSUME PortInv,
         \/ OpenPort \/ ClosePort \/ CleanupEnter \/ CleanupReturn
         \/ PurgeEnter \/ PurgeReturn
  PROVE  PortInv' /\ FinishedStay /\ NoneSucceeds
<1>1. UNCHANGED <<dpc, requests>>
  BY DEF OpenPort, ClosePort, CleanupEnter, CleanupReturn, PurgeEnter, PurgeReturn
<1>2. HandleOK'
  <2>1. \A n \in 0..MaxOpens : n < MaxOpens => n + 1 \in 0..MaxOpens
    BY PortAssumption
  <2>2. CASE OpenPort
    <3>1. opens \in 0..MaxOpens /\ opens < MaxOpens /\ opens' = opens + 1
      BY <2>2 DEF PortInv, HandleOK, OpenPort
    <3>2. opens' \in 0..MaxOpens
      BY <2>1, <3>1
    <3>. QED
      BY <2>2, <3>2 DEF PortInv, HandleOK, OpenPort
  <2>3. CASE ClosePort
    BY <2>3 DEF PortInv, HandleOK, ClosePort
  <2>4. CASE CleanupEnter \/ CleanupReturn
    BY <2>4 DEF PortInv, HandleOK, CleanupEnter, CleanupReturn
  <2>5. CASE PurgeEnter \/ PurgeReturn
    <3>1. purging' \in BOOLEAN /\ UNCHANGED <<handle, isOpen, opens>>
      BY <2>5 DEF PurgeEnter, PurgeReturn
    <3>. QED
      BY <3>1 DEF PortInv, HandleOK
  <2>. QED
    BY <2>2, <2>3, <2>4, <2>5
<1>. QED
  BY <1>1, <1>2 DEF PortInv, FinishedStay, NoneSucceeds, dpc, requests

(* A request enters, is served at once or turns slow.                      *)
LEMMA MoveStep ==
  ASSUME PortInv, NEW i \in Irps, pos[i] \in {"new", "entered", "slow"},
         NEW place \in Finished \cup {"entered", "slow"}, Becomes(i, place),
         cancel' \subseteq Irps, UNCHANGED <<port, dpc, queue>>
  PROVE  PortInv' /\ FinishedStay
<1>1. place \in Places /\ place # "queued" /\ place # "dpc"
  BY DEF Finished, Places
<1>2. PosOK(pos') /\ FinishedStay
  BY <1>1 DEF Becomes, PortInv, PosOK, FinishedStay, Finished
<1>3. QueueOK(queue', pos')
  BY <1>1, MoveOutsideQueue DEF Becomes, PortInv, port, dpc
<1>4. DpcOK(dpcPc', dpcIrp', pos')
  BY <1>1, MoveOutsideDpcs DEF Becomes, PortInv, port, dpc
<1>. QED
  BY <1>2, <1>3, <1>4 DEF PortInv, HandleOK, port, dpc

(* A slow request is queued, or completed because it was cancelled.        *)
LEMMA InsertStep ==
  ASSUME PortInv, NEW i \in Irps, pos[i] = "slow", CsqInsert(i), UNCHANGED <<port, dpc>>
  PROVE  PortInv' /\ FinishedStay /\ NoneSucceeds
<1>1. CASE i \in cancel
  <2>1. Becomes(i, "cancelled") /\ cancel' = cancel \ {i} /\ UNCHANGED queue
    BY <1>1 DEF CsqInsert, Done
  <2>2. NoneSucceeds
    BY <2>1 DEF Becomes, NoneSucceeds, PortInv, PosOK
  <2>. QED
    BY <2>1, <2>2, MoveStep DEF PortInv, Finished
<1>2. CASE i \notin cancel
  <2>1. pos' = [pos EXCEPT ![i] = "queued"] /\ queue' = Append(queue, i) /\ UNCHANGED cancel
    BY <1>2 DEF CsqInsert, Becomes
  <2>2. PosOK(pos') /\ FinishedStay /\ NoneSucceeds
    BY <2>1 DEF PortInv, PosOK, FinishedStay, NoneSucceeds, Finished, Places
  <2>3. QueueOK(queue', pos')
    BY <2>1, AppendOwned DEF PortInv
  <2>4. DpcOK(dpcPc', dpcIrp', pos')
    BY <2>1, MoveOutsideDpcs DEF PortInv, dpc, Places
  <2>. QED
    BY <2>1, <2>2, <2>3, <2>4 DEF PortInv, HandleOK, port, dpc
<1>. QED
  BY <1>1, <1>2

(* A request leaves the queue cancelled.                                   *)
LEMMA LeaveStep ==
  ASSUME PortInv, NEW n \in DOMAIN queue, queue' = Less(queue, n),
         Becomes(queue[n], "cancelled"), UNCHANGED <<port, dpc, cancel>>
  PROVE  PortInv' /\ FinishedStay /\ NoneSucceeds
<1>1. queue[n] \in Irps /\ pos[queue[n]] = "queued" /\ "cancelled" \in Places
  BY DEF PortInv, QueueOK, QueueOwns, Places, Finished
<1>2. PosOK(pos') /\ FinishedStay /\ NoneSucceeds
  BY <1>1 DEF Becomes, PortInv, PosOK, FinishedStay, NoneSucceeds, Finished
<1>3. QueueOK(queue', pos')
  BY <1>1, LessOwned DEF Becomes, PortInv
<1>4. DpcOK(dpcPc', dpcIrp', pos')
  BY <1>1, MoveOutsideDpcs DEF Becomes, PortInv, dpc
<1>. QED
  BY <1>2, <1>3, <1>4 DEF PortInv, HandleOK, port, dpc

(* Cancellation and the draining of the queue.                             *)
LEMMA CancelSteps ==
  ASSUME PortInv, DrainNext \/ \E i \in Irps : CancelIrp(i)
  PROVE  PortInv' /\ FinishedStay /\ NoneSucceeds
<1>1. CASE DrainNext
  <2>1. /\ queue # <<>> /\ queue' = Tail(queue) /\ Becomes(Head(queue), "cancelled")
        /\ UNCHANGED <<port, dpc, cancel>>
    BY <1>1 DEF DrainNext, CsqRemoveNext
  <2>2. queue \in Seq(Irps)
    BY DEF PortInv, QueueOK
  <2>3. 1 \in DOMAIN queue /\ queue' = Less(queue, 1) /\ Becomes(queue[1], "cancelled")
    BY <2>1, <2>2, TailIsLess
  <2>. QED
    BY <2>1, <2>3, LeaveStep
<1>2. ASSUME NEW i \in Irps, CancelIrp(i)
      PROVE  PortInv' /\ FinishedStay /\ NoneSucceeds
  <2>1. CASE CompleteCanceled(i)
    <3>1. PICK n \in DOMAIN queue : queue[n] = i /\ queue' = Without(n)
      BY <2>1 DEF CompleteCanceled
    <3>2. queue' = Less(queue, n)
      BY <3>1 DEF Without, Less
    <3>3. Becomes(queue[n], "cancelled") /\ UNCHANGED <<port, dpc, cancel>>
      BY <1>2, <2>1, <3>1 DEF CompleteCanceled, CancelIrp
    <3>. QED
      BY <3>2, <3>3, LeaveStep
  <2>2. CASE cancel' = cancel \cup {i} /\ UNCHANGED <<queue, pos, port, dpc>>
    BY <2>2 DEF PortInv, HandleOK, port, dpc, FinishedStay, NoneSucceeds
  <2>. QED
    BY <1>2, <2>1, <2>2 DEF CancelIrp
<1>. QED
  BY <1>1, <1>2

(* A DPC starts, takes a request, leaves, or puts its request back.        *)
LEMMA DpcSteps ==
  ASSUME PortInv, NEW c \in Cpus,
         DpcStart(c) \/ DpcTake(c) \/ DpcLeave(c) \/ DpcRequeue(c)
  PROVE  PortInv' /\ FinishedStay /\ NoneSucceeds
<1>1. CASE DpcStart(c) \/ DpcLeave(c)
  <2>1. PICK to \in {"idle", "next"} :
          /\ pos' = pos /\ dpcPc[c] \in {"idle", "next"} /\ dpcPc' = [dpcPc EXCEPT ![c] = to]
          /\ dpcQueued' \subseteq dpcQueued /\ UNCHANGED <<port, requests, dpcIrp>>
    BY <1>1 DEF DpcStart, DpcLeave, requests
  <2>2. DpcOK(dpcPc', dpcIrp', pos')
    BY <2>1, DpcMoves DEF PortInv
  <2>. QED
    BY <2>1, <2>2 DEF PortInv, HandleOK, port, requests, FinishedStay, NoneSucceeds
<1>2. CASE DpcTake(c)
  <2>1. /\ queue # <<>> /\ queue' = Tail(queue) /\ pos' = [pos EXCEPT ![Head(queue)] = "dpc"]
        /\ dpcPc[c] = "next" /\ dpcPc' = [dpcPc EXCEPT ![c] = "have"]
        /\ dpcIrp' = [dpcIrp EXCEPT ![c] = Head(queue)]
        /\ UNCHANGED <<port, cancel, dpcQueued>>
    BY <1>2 DEF DpcTake, CsqRemoveNext, Becomes
  <2>2. queue \in Seq(Irps)
    BY DEF PortInv, QueueOK
  <2>3. 1 \in DOMAIN queue /\ Head(queue) = queue[1] /\ Tail(queue) = Less(queue, 1)
        /\ Head(queue) \in Irps
    BY <2>1, <2>2, TailIsLess
  <2>4. pos[Head(queue)] = "queued"
    BY <2>3 DEF PortInv, QueueOK, QueueOwns
  <2>5. PosOK(pos') /\ FinishedStay /\ NoneSucceeds
    BY <2>1, <2>3, <2>4 DEF PortInv, PosOK, FinishedStay, NoneSucceeds, Finished, Places
  <2>6. QueueOK(queue', pos')
    <3>1. queue' = Less(queue, 1) /\ pos' = [pos EXCEPT ![queue[1]] = "dpc"]
      BY <2>1, <2>3
    <3>2. "dpc" \in Places
      BY DEF Places
    <3>. QED
      BY <2>3, <3>1, <3>2, LessOwned DEF PortInv
  <2>7. DpcOK(dpcPc', dpcIrp', pos')
    BY <2>1, <2>3, <2>4, DpcGets DEF PortInv
  <2>. QED
    BY <2>1, <2>5, <2>6, <2>7 DEF PortInv, HandleOK, port
<1>3. CASE DpcRequeue(c)
  <2>. DEFINE i == dpcIrp[c]
  <2>1. /\ dpcPc[c] = "requeue" /\ CsqInsert(i)
        /\ dpcPc' = [dpcPc EXCEPT ![c] = "idle"] /\ dpcIrp' = [dpcIrp EXCEPT ![c] = NoIrp]
        /\ UNCHANGED <<port, dpcQueued>>
    BY <1>3 DEF DpcRequeue, DpcRelease
  <2>2. i \in Irps /\ pos[i] = "dpc"
    BY <2>1, DpcHolds DEF PortInv
  <2>3. ASSUME NEW place \in Places, place # "dpc", pos' = [pos EXCEPT ![i] = place]
        PROVE  DpcOK(dpcPc', dpcIrp', pos')
    BY <2>1, <2>3, DpcLoses DEF PortInv
  <2>4. CASE i \in cancel
    <3>1. pos' = [pos EXCEPT ![i] = "cancelled"] /\ cancel' = cancel \ {i} /\ queue' = queue
      BY <2>1, <2>4 DEF CsqInsert, Done, Becomes
    <3>2. PosOK(pos') /\ FinishedStay /\ NoneSucceeds
      BY <2>2, <3>1 DEF PortInv, PosOK, FinishedStay, NoneSucceeds, Finished, Places
    <3>3. QueueOK(queue', pos')
      BY <2>2, <3>1, MoveOutsideQueue DEF PortInv, Places, Finished
    <3>4. DpcOK(dpcPc', dpcIrp', pos')
      BY <2>3, <3>1 DEF Places, Finished
    <3>. QED
      BY <2>1, <3>1, <3>2, <3>3, <3>4 DEF PortInv, HandleOK, port
  <2>5. CASE i \notin cancel
    <3>1. pos' = [pos EXCEPT ![i] = "queued"] /\ cancel' = cancel /\ queue' = Append(queue, i)
      BY <2>1, <2>5 DEF CsqInsert, Becomes
    <3>2. PosOK(pos') /\ FinishedStay /\ NoneSucceeds
      BY <2>2, <3>1 DEF PortInv, PosOK, FinishedStay, NoneSucceeds, Finished, Places
    <3>3. QueueOK(queue', pos')
      BY <2>2, <3>1, AppendOwned DEF PortInv
    <3>4. DpcOK(dpcPc', dpcIrp', pos')
      BY <2>3, <3>1 DEF Places
    <3>. QED
      BY <2>1, <3>1, <3>2, <3>3, <3>4 DEF PortInv, HandleOK, port
  <2>. QED
    BY <2>4, <2>5
<1>. QED
  BY <1>1, <1>2, <1>3

(* A DPC completes its request.                                            *)
LEMMA FinishStep ==
  ASSUME PortInv, NEW c \in Cpus, dpcPc[c] = "have",
         NEW to \in {"idle", "next"}, NEW status \in Finished,
         Done(dpcIrp[c], status), DpcRelease(c, to), UNCHANGED <<port, queue, dpcQueued>>
  PROVE  PortInv' /\ FinishedStay
<1>1. status \in Places /\ status # "dpc" /\ status # "queued"
  BY DEF Finished, Places
<1>2. dpcIrp[c] \in Irps /\ pos[dpcIrp[c]] = "dpc"
  BY DpcHolds DEF PortInv
<1>3. PosOK(pos') /\ FinishedStay
  BY <1>1, <1>2 DEF Done, Becomes, PortInv, PosOK, FinishedStay, Finished
<1>4. QueueOK(queue', pos')
  BY <1>1, <1>2, MoveOutsideQueue DEF Done, Becomes, PortInv
<1>5. DpcOK(dpcPc', dpcIrp', pos')
  BY <1>1, DpcLoses DEF Done, Becomes, DpcRelease, PortInv
<1>. QED
  BY <1>3, <1>4, <1>5 DEF PortInv, HandleOK, port, Done

(* A DPC keeps its request, to put it back.                                *)
LEMMA KeepStep ==
  ASSUME PortInv, NEW c \in Cpus, dpcPc[c] = "have",
         dpcPc' = [dpcPc EXCEPT ![c] = "requeue"],
         UNCHANGED <<port, requests, dpcIrp, dpcQueued>>
  PROVE  PortInv' /\ FinishedStay /\ NoneSucceeds
<1>1. DpcOK(dpcPc', dpcIrp', pos')
  BY DpcMoves DEF PortInv, requests
<1>. QED
  BY <1>1 DEF PortInv, HandleOK, port, requests, FinishedStay, NoneSucceeds

(* The interrupt routine asks for the DPC.                                 *)
LEMMA QueueDpcStep ==
  ASSUME PortInv, NEW c \in Cpus, QueueDpc(c), UNCHANGED <<port, requests, dpcPc, dpcIrp>>
  PROVE  PortInv' /\ FinishedStay /\ NoneSucceeds
BY DEF PortInv, HandleOK, port, requests, QueueDpc, FinishedStay, NoneSucceeds

(* A step that leaves the port alone.                                      *)
LEMMA StillStep ==
  ASSUME PortInv, UNCHANGED portVars
  PROVE  PortInv' /\ FinishedStay /\ NoneSucceeds
BY DEF PortInv, HandleOK, portVars, port, dpc, requests, FinishedStay, NoneSucceeds

(* The initial state.                                                      *)
LEMMA PortStarts == PortInit => PortInv
<1>. SUFFICES ASSUME PortInit PROVE PortInv
  OBVIOUS
<1>1. <<>> \in Seq(Irps) /\ DOMAIN <<>> = {}
  BY EmptySeq
<1>2. HandleOK /\ PosOK(pos)
  <2>1. 0 \in 0..MaxOpens
    BY PortAssumption
  <2>2. HandleOK
    BY <2>1 DEF PortInit, HandleOK
  <2>. QED
    BY <2>2 DEF PortInit, PosOK, Places
<1>3. QueueOK(queue, pos)
  BY <1>1 DEF PortInit, QueueOK, QueueOwns
<1>4. DpcOK(dpcPc, dpcIrp, pos)
  BY DEF PortInit, DpcOK, DpcsOwn
<1>. QED
  BY <1>2, <1>3, <1>4 DEF PortInit, PortInv
=============================================================================
