-------------------------- MODULE NodeSwitch_proofs --------------------------
(* Proofs of the safety invariants of NodeSwitch, for any number of slots  *)
(* and of addresses, and of SynapseLink, the socket link of a node, for    *)
(* buffers, packets and a tail of any length.  The two specifications      *)
(* share no variable.                                                      *)
EXTENDS NodeSwitch, SynapseLink, FiniteSetTheorems, SequenceTheorems, TLAPS

(* No node is in two slots: what one of them frees is not in another.      *)
SlotsDistinct == \A i, j \in Index : slot[i] = slot[j] /\ slot[i] # None => i = j

(* The list is full only when it has every live node; this needs all       *)
(* that NoDangling says of it.                                             *)
SwitchInv == TypeOK /\ SlotsDistinct /\ NoDangling /\ OnlineListed

(* A list without repetitions. *)
Once(list) == list \in Seq(Node) /\ IsInjective(list)

(* The type of everything that is not in the list. *)
FieldsOK ==
  /\ state \in [Node -> {"idle", "online", "hungup"}]
  /\ carrier \in [Node -> BOOLEAN]
  /\ modem \in [Node -> {"command", "online"}]
  /\ link \in [Node -> {"up", "closing", "down"}]

-----------------------------------------------------------------------------
(* The list. *)

(* A sequence is a function on its indices.                                *)
LEMMA ListIndices ==
  ASSUME NEW list \in Seq(Node)
  PROVE  /\ Len(list) \in Nat /\ DOMAIN list = 1..Len(list)
         /\ Range(list) \subseteq Node
<1>1. Len(list) \in Nat /\ DOMAIN list = 1..Len(list) /\ list \in [1..Len(list) -> Node]
  BY LenProperties
<1>. QED
  BY <1>1 DEF Range

(* A list without repetitions has as many members as entries.              *)
LEMMA ListCount ==
  ASSUME NEW list, Once(list)
  PROVE  IsFiniteSet(Range(list)) /\ Cardinality(Range(list)) = Len(list)
<1>1. Len(list) \in Nat /\ DOMAIN list = 1..Len(list) /\ list \in [1..Len(list) -> Node]
  BY LenProperties DEF Once
<1>2. list \in Bijection(1..Len(list), Range(list))
  <2>1. list \in [1..Len(list) -> Range(list)]
    BY <1>1 DEF Range
  <2>2. list \in Injection(1..Len(list), Range(list))
    BY <2>1 DEF Once, Injection
  <2>3. list \in Surjection(1..Len(list), Range(list))
    BY <1>1, <2>1 DEF Surjection, Range
  <2>. QED
    BY <2>2, <2>3 DEF Bijection
<1>3. IsFiniteSet(1..Len(list)) /\ Cardinality(1..Len(list)) = Len(list)
  <2>1. 1 \in Int /\ Len(list) \in Int
    BY <1>1
  <2>2. /\ IsFiniteSet(1..Len(list))
        /\ Cardinality(1..Len(list)) = IF 1 > Len(list) THEN 0 ELSE Len(list) - 1 + 1
    BY <2>1, FS_Interval
  <2>. QED
    BY <1>1, <2>2
<1>4. ExistsBijection(1..Len(list), Range(list))
  BY <1>2 DEF ExistsBijection
<1>. QED
  BY <1>3, <1>4, FS_Bijection

(* As long as a node in a slot is missing the list has room for it: there  *)
(* are as many places as slots.                                            *)
LEMMA RoomForMissing ==
  ASSUME NEW f \in [Index -> Node \cup {None}], NEW list, Once(list),
         Range(list) \subseteq {f[i] : i \in Index},
         NEW n \in {f[i] : i \in Index}, n \notin Range(list)
  PROVE  Len(list) < MaxNodes
<1> DEFINE filled == {f[i] : i \in Index}
<1>1. IsFiniteSet(Index) /\ Cardinality(Index) = MaxNodes
  BY SwitchAssumption
<1>2. IsFiniteSet(filled) /\ Cardinality(filled) <= MaxNodes
  <2>1. f \in Surjection(Index, filled)
    BY DEF Surjection
  <2>. HIDE DEF filled
  <2>. QED
    BY <1>1, <2>1, FS_Surjection
<1>3. IsFiniteSet(Range(list)) /\ Cardinality(Range(list)) = Len(list)
  BY ListCount
<1>4. Cardinality(Range(list) \cup {n}) = Len(list) + 1
  BY <1>3, FS_AddElement
<1>5. Range(list) \cup {n} \in SUBSET filled
  OBVIOUS
<1>6. Cardinality(Range(list) \cup {n}) <= Cardinality(filled)
  <2>. HIDE DEF filled
  <2>. QED
    BY <1>2, <1>5, FS_Subset
<1>7. Cardinality(filled) \in Nat /\ MaxNodes \in Nat /\ Len(list) \in Nat
  <2>. HIDE DEF filled
  <2>. QED
    BY <1>1, <1>2, FS_CardinalityType, ListIndices DEF Once
<1>. QED
  <2>. HIDE DEF filled
  <2>. QED
    BY <1>2, <1>4, <1>6, <1>7

(* AddActive adds at most the node, and does if there is room.             *)
LEMMA Added ==
  ASSUME NEW list, Once(list), Len(list) <= MaxNodes, NEW n \in Node
  PROVE  /\ Once(AddActive(list, n)) /\ Len(AddActive(list, n)) <= MaxNodes
         /\ Range(list) \subseteq Range(AddActive(list, n))
         /\ Range(AddActive(list, n)) \subseteq Range(list) \cup {n}
         /\ Len(list) < MaxNodes => n \in Range(AddActive(list, n))
<1>1. Len(list) \in Nat /\ DOMAIN list = 1..Len(list) /\ MaxNodes \in Nat /\ list \in Seq(Node)
  BY ListIndices, SwitchAssumption, FS_CardinalityType DEF Once
<1>2. CASE n \in Range(list) \/ Len(list) >= MaxNodes
  <2>1. AddActive(list, n) = list
    BY <1>2 DEF AddActive
  <2>. QED
    BY <1>1, <1>2, <2>1
<1>3. CASE ~(n \in Range(list) \/ Len(list) >= MaxNodes)
  <2> DEFINE longer == Append(list, n)
  <2>1. AddActive(list, n) = longer
    BY <1>3 DEF AddActive
  <2>2. /\ longer \in Seq(Node) /\ Len(longer) = Len(list) + 1
        /\ \A i \in 1..Len(list) : longer[i] = list[i]
        /\ longer[Len(list) + 1] = n
    BY <1>1
  <2> HIDE DEF longer
  <2>3. DOMAIN longer = 1..Len(list) + 1
    BY <2>2, ListIndices
  <2>4. Range(longer) = Range(list) \cup {n}
    <3>1. \A i \in DOMAIN longer : i \in DOMAIN list \/ i = Len(list) + 1
      BY <1>1, <2>3
    <3>2. \A i \in DOMAIN list : i \in DOMAIN longer
      BY <1>1, <2>3
    <3>3. Len(list) + 1 \in DOMAIN longer
      BY <1>1, <2>3
    <3>. QED
      BY <1>1, <2>2, <3>1, <3>2, <3>3 DEF Range
  <2>5. IsInjective(longer)
    <3>1. \A i \in 1..Len(list) : longer[i] # n
      BY <1>1, <1>3, <2>2 DEF Range
    <3>2. ASSUME NEW i \in DOMAIN longer, NEW j \in DOMAIN longer, longer[i] = longer[j]
          PROVE  i = j
      <4>1. i \in 1..Len(list) \/ i = Len(list) + 1
        BY <1>1, <2>3
      <4>2. j \in 1..Len(list) \/ j = Len(list) + 1
        BY <1>1, <2>3
      <4>3. \A a, b \in 1..Len(list) : list[a] = list[b] => a = b
        BY <1>1 DEF Once, IsInjective
      <4>. QED
        BY <2>2, <3>1, <3>2, <4>1, <4>2, <4>3
    <3>. QED
      BY <3>2 DEF IsInjective
  <2>. QED
    BY <1>1, <1>3, <2>1, <2>2, <2>4, <2>5 DEF Once
<1>. QED
  BY <1>2, <1>3

(* What is left when one place is taken out.                               *)
LEMMA OneLess ==
  ASSUME NEW q \in Seq(Node), NEW n \in DOMAIN q
  PROVE  /\ RemoveAt(q, n) \in Seq(Node) /\ Len(RemoveAt(q, n)) = Len(q) - 1
         /\ DOMAIN RemoveAt(q, n) = 1..(Len(q) - 1)
         /\ \A k \in 1..(Len(q) - 1) : RemoveAt(q, n)[k] = IF k < n THEN q[k] ELSE q[k + 1]
<1>. DEFINE a == SubSeq(q, 1, n - 1)
            b == SubSeq(q, n + 1, Len(q))
<1>1. Len(q) \in Nat /\ n \in Nat /\ 1 <= n /\ n <= Len(q) /\ DOMAIN q = 1..Len(q)
  BY LenProperties
<1>2. /\ a \in Seq(Node) /\ Len(a) = n - 1 /\ \A k \in 1..(n - 1) : a[k] = q[k]
  <2>1. 1 \in 1..(Len(q) + 1) /\ n - 1 \in 0..Len(q)
    BY <1>1
  <2>. QED
    BY <1>1, <2>1, SubSeqProperties
<1>3. /\ b \in Seq(Node) /\ Len(b) = Len(q) - n /\ \A k \in 1..(Len(q) - n) : b[k] = q[n + k]
  <2>1. /\ n + 1 \in Int /\ Len(q) \in Int /\ \A k \in n + 1..Len(q) : q[k] \in Node
        /\ Len(q) - (n + 1) + 1 = Len(q) - n
    BY <1>1, ElementOfSeq
  <2>2. /\ b \in Seq(Node)
        /\ Len(b) = IF n + 1 <= Len(q) THEN Len(q) - (n + 1) + 1 ELSE 0
        /\ \A k \in 1..(Len(q) - (n + 1) + 1) : b[k] = q[(n + 1) + k - 1]
    BY <2>1, SubSeqProperties
  <2>. HIDE DEF b
  <2>3. Len(b) = Len(q) - n
    BY <1>1, <2>2
  <2>4. \A k \in 1..(Len(q) - n) : (n + 1) + k - 1 = n + k
    BY <1>1
  <2>. QED
    BY <2>1, <2>2, <2>3, <2>4
<1>. HIDE DEF a, b
<1>4. /\ a \o b \in Seq(Node) /\ Len(a \o b) = Len(q) - 1
      /\ \A k \in 1..(Len(q) - 1) : (a \o b)[k] = IF k <= n - 1 THEN a[k] ELSE b[k - (n - 1)]
  <2>1. Len(a) + Len(b) = Len(q) - 1
    BY <1>1, <1>2, <1>3
  <2>2. /\ a \o b \in Seq(Node) /\ Len(a \o b) = Len(a) + Len(b)
        /\ \A k \in 1..Len(a) + Len(b) :
             (a \o b)[k] = IF k <= Len(a) THEN a[k] ELSE b[k - Len(a)]
    <3>1. a \in Seq(Node) /\ b \in Seq(Node)
      BY <1>2, <1>3
    <3>. QED
      BY <3>1, ConcatProperties
  <2>. QED
    BY <1>2, <2>1, <2>2
<1>5. ASSUME NEW k \in 1..(Len(q) - 1)
      PROVE  (a \o b)[k] = IF k < n THEN q[k] ELSE q[k + 1]
  <2>1. CASE k < n
    BY <1>1, <1>2, <1>4, <2>1
  <2>2. CASE ~(k < n)
    <3>1. k - (n - 1) \in 1..(Len(q) - n) /\ n + (k - (n - 1)) = k + 1 /\ ~(k <= n - 1)
      BY <1>1, <2>2
    <3>. QED
      BY <1>3, <1>4, <2>2, <3>1
  <2>. QED
    BY <2>1, <2>2
<1>. QED
  BY <1>1, <1>4, <1>5, LenProperties DEF RemoveAt, a, b

(* RemoveActive removes the node, and nothing else.                        *)
LEMMA Removed ==
  ASSUME NEW list, Once(list), NEW n
  PROVE  /\ Once(RemoveActive(list, n)) /\ Len(RemoveActive(list, n)) <= Len(list)
         /\ Range(RemoveActive(list, n)) = Range(list) \ {n}
<1>1. Len(list) \in Nat /\ DOMAIN list = 1..Len(list) /\ list \in Seq(Node)
  BY ListIndices DEF Once
<1>2. \A a, b \in 1..Len(list) : list[a] = list[b] => a = b
  BY <1>1 DEF Once, IsInjective
<1>3. CASE n \notin Range(list)
  BY <1>1, <1>3 DEF RemoveActive
<1>4. CASE n \in Range(list)
  <2> DEFINE p == First(list, n)
             rest == RemoveAt(list, p)
  <2>1. p \in 1..Len(list) /\ list[p] = n
    <3>1. PICK i \in 1..Len(list) : list[i] = n
      BY <1>1, <1>4 DEF Range
    <3>2. \A j \in 1..i - 1 : list[j] # n
      BY <1>1, <1>2, <3>1
    <3>3. \E k \in DOMAIN list : list[k] = n /\ \A j \in 1..k - 1 : list[j] # n
      BY <1>1, <3>1, <3>2
    <3>. QED
      BY <1>1, <3>3 DEF First
  <2>2. RemoveActive(list, n) = rest
    BY <1>4 DEF RemoveActive
  <2> HIDE DEF p
  <2>3. /\ rest \in Seq(Node) /\ Len(rest) = Len(list) - 1 /\ DOMAIN rest = 1..Len(list) - 1
        /\ \A i \in 1..Len(list) - 1 : rest[i] = IF i < p THEN list[i] ELSE list[i + 1]
    BY <1>1, <2>1, OneLess
  <2> HIDE DEF rest
  <2> DEFINE at(i) == IF i < p THEN i ELSE i + 1
  <2>4. \A i \in DOMAIN rest : at(i) \in 1..Len(list) /\ at(i) # p /\ rest[i] = list[at(i)]
    BY <1>1, <2>1, <2>3
  <2>5. Range(rest) = Range(list) \ {n}
    <3>1. ASSUME NEW i \in DOMAIN rest
          PROVE  rest[i] \in Range(list) \ {n}
      BY <1>1, <1>2, <2>1, <2>4 DEF Range
    <3>2. ASSUME NEW m \in Range(list) \ {n}
          PROVE  \E i \in DOMAIN rest : rest[i] = m
      <4>1. PICK k \in 1..Len(list) : list[k] = m /\ k # p
        BY <1>1, <2>1, <3>2 DEF Range
      <4>2. CASE k < p
        BY <1>1, <2>1, <2>3, <4>1, <4>2
      <4>3. CASE k > p
        <5>1. k - 1 \in 1..Len(list) - 1 /\ ~(k - 1 < p) /\ k - 1 + 1 = k
          BY <1>1, <2>1, <4>1, <4>3
        <5>. QED
          BY <2>3, <4>1, <5>1
      <4>. QED
        BY <1>1, <2>1, <4>1, <4>2, <4>3
    <3>. QED
      BY <3>1, <3>2 DEF Range
  <2>6. IsInjective(rest)
    <3>1. ASSUME NEW i \in DOMAIN rest, NEW j \in DOMAIN rest, rest[i] = rest[j]
          PROVE  i = j
      <4>1. at(i) = at(j)
        <5>. HIDE DEF at
        <5>. QED
          BY <1>2, <2>4, <3>1
      <4>. QED
        BY <1>1, <2>1, <2>3, <4>1
    <3>. QED
      BY <3>1 DEF IsInjective
  <2>. QED
    BY <1>1, <2>2, <2>3, <2>5, <2>6 DEF Once
<1>. QED
  BY <1>3, <1>4

(* A tick leaves the nodes that are online, and nothing else.              *)
LEMMA Kept ==
  ASSUME NEW list, Once(list), NEW left \in Survivors(list)
  PROVE  /\ Once(left) /\ Len(left) <= Len(list)
         /\ Range(left) = {n \in Range(list) : state[n] = "online"}
<1> DEFINE S == {k \in DOMAIN list : state[list[k]] = "online"}
           size == Cardinality(S)
<1>1. /\ Len(list) \in Nat /\ DOMAIN list = 1..Len(list) /\ list \in [1..Len(list) -> Node]
  BY LenProperties DEF Once
<1>2. PICK q \in Bijection(1..size, S) : left = [i \in DOMAIN q |-> list[q[i]]]
  BY DEF Survivors, InOrder
<1>3. size \in Nat /\ size <= Len(list)
  <2>1. 1 \in Int /\ Len(list) \in Int
    BY <1>1
  <2>2. /\ IsFiniteSet(1..Len(list))
        /\ Cardinality(1..Len(list)) = IF 1 > Len(list) THEN 0 ELSE Len(list) - 1 + 1
    BY <2>1, FS_Interval
  <2>3. S \in SUBSET (1..Len(list))
    BY <1>1
  <2>4. IsFiniteSet(S) /\ Cardinality(S) <= Cardinality(1..Len(list))
    <3>. HIDE DEF S
    <3>. QED
      BY <2>2, <2>3, FS_Subset
  <2>5. Cardinality(S) \in Nat
    <3>. HIDE DEF S
    <3>. QED
      BY <2>4, FS_CardinalityType
  <2>. HIDE DEF S
  <2>. QED
    BY <1>1, <2>2, <2>4, <2>5
<1>4. /\ q \in [1..size -> S] /\ \A a, b \in 1..size : q[a] = q[b] => a = b
      /\ \A k \in S : \E i \in 1..size : q[i] = k
  <2>. HIDE DEF S, size
  <2>. QED
    BY <1>2 DEF Bijection, Injection, Surjection, IsInjective
<1>5. /\ left \in [1..size -> Node] /\ DOMAIN left = 1..size
      /\ \A i \in 1..size : left[i] = list[q[i]] /\ q[i] \in S
  <2>. HIDE DEF size
  <2>. QED
    BY <1>1, <1>2, <1>4
<1> HIDE DEF size
<1>6. left \in Seq(Node) /\ Len(left) = size
  BY <1>3, <1>5, SeqDef, LenProperties
<1>7. IsInjective(left)
  BY <1>4, <1>5 DEF Once, IsInjective
<1>8. Range(left) = {n \in Range(list) : state[n] = "online"}
  <2>1. ASSUME NEW i \in 1..size
        PROVE  left[i] \in Range(list) /\ state[left[i]] = "online"
    BY <1>5 DEF Range
  <2>2. ASSUME NEW n \in Range(list), state[n] = "online"
        PROVE  \E i \in 1..size : left[i] = n
    <3>1. PICK k \in DOMAIN list : list[k] = n
      BY DEF Range
    <3>2. k \in S
      BY <2>2, <3>1
    <3>. HIDE DEF S
    <3>. QED
      BY <1>4, <1>5, <3>1, <3>2
  <2>. QED
    BY <1>5, <2>1, <2>2 DEF Range
<1>. QED
  BY <1>3, <1>6, <1>7, <1>8 DEF Once

-----------------------------------------------------------------------------
(* The fields of the nodes. *)

(* Setting the field of freed and new objects.                             *)
LEMMA BlankIs ==
  ASSUME NEW T, NEW f \in [Node -> T], NEW S, NEW v \in T
  PROVE  /\ Blank(f, S, v) \in [Node -> T]
         /\ \A n \in Node : Blank(f, S, v)[n] = IF n \in S THEN v ELSE f[n]
BY DEF Blank

(* What Pump does to the nodes it is for.                                  *)
LEMMA PumpIs ==
  ASSUME FieldsOK, NEW S, Pump(S), UNCHANGED modem
  PROVE  /\ FieldsOK'
         /\ \A n \in Node : state'[n] = "online" => state[n] = "online"
         /\ \A n \in Node \ S : state'[n] = state[n]
<1>1. /\ state' = [n \in Node |-> IF n \in S THEN StatePumped(n) ELSE state[n]]
      /\ link' = [n \in Node |-> IF n \in S /\ link[n] = "closing" THEN "down" ELSE link[n]]
  BY DEF Pump
<1>2. carrier' \in [Node -> BOOLEAN]
  <2>1. \A n \in Node : (carrier[n] /\ (n \in S => link[n] = "up")) \in BOOLEAN
    OBVIOUS
  <2>2. carrier' = [n \in Node |-> carrier[n] /\ (n \in S => link[n] = "up")]
    BY DEF Pump
  <2>. QED
    BY <2>1, <2>2, Zenon
<1>3. \A n \in Node : StatePumped(n) \in {state[n], "hungup"}
  BY DEF StatePumped
<1>4. state' \in [Node -> {"idle", "online", "hungup"}]
  BY <1>1, <1>3 DEF FieldsOK
<1>5. link' \in [Node -> {"up", "closing", "down"}]
  BY <1>1 DEF FieldsOK
<1>. QED
  BY <1>1, <1>2, <1>3, <1>4, <1>5 DEF FieldsOK

-----------------------------------------------------------------------------
(* The steps. *)

(* A live node is in one slot.                                             *)
LEMMA InSlots ==
  ASSUME SwitchInv
  PROVE  /\ FieldsOK /\ Once(active) /\ Len(active) <= MaxNodes
         /\ Range(active) \subseteq Live /\ Live \subseteq Node
         /\ \A i \in Index : slot[i] # None => slot[i] \in Live /\ slot[i] \in Node
BY DEF SwitchInv, TypeOK, NoDangling, FieldsOK, Once, Live

(* The parts of the invariant, put together.                               *)
LEMMA InvFrom ==
  ASSUME slot' \in [Index -> Node \cup {None}], FieldsOK', SlotsDistinct', Once(active)',
         Len(active') <= MaxNodes, Range(active') \subseteq Live', OnlineListed'
  PROVE  SwitchInv'
BY DEF SwitchInv, TypeOK, NoDangling, FieldsOK, Once

(* A connection: the node is in a slot by now, and there is room for it.   *)
LEMMA ConnectHolds ==
  ASSUME SwitchInv, NEW n \in Node, ConnectInbound(n),
         slot' \in [Index -> Node \cup {None}], SlotsDistinct',
         link' \in [Node -> {"up", "closing", "down"}],
         Live \subseteq Live', n \in Live', Live' \subseteq Live \cup {n}
  PROVE  SwitchInv'
<1>1. /\ FieldsOK /\ Once(active) /\ Len(active) <= MaxNodes
      /\ Range(active) \subseteq Live /\ Live \subseteq Node
  BY InSlots
<1>2. FieldsOK' /\ state'[n] = "online" /\ \A m \in Node \ {n} : state'[m] = state[m]
  <2>1. state' \in [Node -> {"idle", "online", "hungup"}] /\ state'[n] = "online"
    BY <1>1 DEF ConnectInbound, Be, FieldsOK
  <2>2. \A m \in Node \ {n} : state'[m] = state[m]
    BY <1>1 DEF ConnectInbound, Be, FieldsOK
  <2>3. carrier' \in [Node -> BOOLEAN] /\ modem' \in [Node -> {"command", "online"}]
    BY <1>1 DEF ConnectInbound, Be, FieldsOK
  <2>. QED
    BY <2>1, <2>2, <2>3 DEF FieldsOK
<1>3. active' = AddActive(active, n)
  BY DEF ConnectInbound
<1>4. /\ Once(active') /\ Len(active') <= MaxNodes
      /\ Range(active) \subseteq Range(active') /\ Range(active') \subseteq Range(active) \cup {n}
      /\ Len(active) < MaxNodes => n \in Range(active')
  BY <1>1, <1>3, Added
<1>5. n \in Range(active')
  <2>1. CASE n \in Range(active)
    BY <1>4, <2>1
  <2>2. CASE n \notin Range(active)
    <3>1. /\ Range(active) \subseteq {slot'[i] : i \in Index}
          /\ n \in {slot'[i] : i \in Index}
      BY <1>1 DEF Live
    <3>2. Len(active) < MaxNodes
      BY <1>1, <2>2, <3>1, RoomForMissing
    <3>. QED
      BY <1>4, <3>2
  <2>. QED
    BY <2>1, <2>2
<1>6. OnlineListed'
  <2>1. ASSUME NEW m \in Live', state'[m] = "online"
        PROVE  m \in Range(active')
    <3>1. CASE m = n
      BY <1>5, <3>1
    <3>2. CASE m # n
      <4>1. m \in Live /\ m \in Node /\ state[m] = "online"
        BY <1>1, <1>2, <2>1, <3>2
      <4>. QED
        BY <1>4, <4>1 DEF SwitchInv, OnlineListed
    <3>. QED
      BY <3>1, <3>2
  <2>. QED
    BY <2>1 DEF OnlineListed
<1>7. Range(active') \subseteq Live'
  BY <1>1, <1>4
<1>8. Once(active)'
  BY <1>4 DEF Once
<1>. QED
  BY <1>2, <1>4, <1>6, <1>7, <1>8, InvFrom

(* A slot that is emptied or given a new object: what was in it is gone    *)
(* from the list as well.                                                  *)
LEMMA ReplaceHolds ==
  ASSUME SwitchInv, NEW i \in Index, NEW v \in (Node \ Live) \cup {None},
         slot' = [slot EXCEPT ![i] = v], active' = RemoveActive(active, slot[i]),
         FieldsOK', \A n \in Node : state'[n] = IF n \in {v, slot[i]} THEN "idle" ELSE state[n]
  PROVE  SwitchInv'
<1>1. /\ FieldsOK /\ Once(active) /\ Len(active) <= MaxNodes
      /\ Range(active) \subseteq Live /\ Live \subseteq Node
      /\ \A k \in Index : slot[k] # None => slot[k] \in Live /\ slot[k] \in Node
  BY InSlots
<1>2. slot \in [Index -> Node \cup {None}] /\ MaxNodes \in Nat
  BY SwitchAssumption, FS_CardinalityType DEF SwitchInv, TypeOK
<1>3. /\ slot' \in [Index -> Node \cup {None}] /\ slot'[i] = v
      /\ \A k \in Index \ {i} : slot'[k] = slot[k]
  BY <1>2
<1>4. Once(active') /\ Len(active') <= Len(active) /\ Range(active') = Range(active) \ {slot[i]}
  BY <1>1, Removed
<1>5. SlotsDistinct'
  BY <1>1, <1>3 DEF SwitchInv, SlotsDistinct
<1>6. Range(active') \subseteq Live'
  <2>1. ASSUME NEW m \in Range(active')
        PROVE  m \in Live'
    <3>1. m \in Live /\ m # slot[i]
      BY <1>1, <1>4
    <3>2. PICK k \in Index : slot[k] = m /\ m # None
      BY <3>1 DEF Live
    <3>3. k # i /\ slot'[k] = m
      BY <1>3, <3>1, <3>2
    <3>. QED
      BY <3>2, <3>3 DEF Live
  <2>. QED
    BY <2>1
<1>7. OnlineListed'
  <2>1. ASSUME NEW m \in Live', state'[m] = "online"
        PROVE  m \in Range(active')
    <3>1. PICK k \in Index : slot'[k] = m /\ m # None
      BY DEF Live
    <3>2. m \in Node
      BY <1>3, <3>1
    <3>3. m # v /\ m # slot[i] /\ state[m] = "online"
      BY <2>1, <3>2
    <3>4. k # i /\ slot[k] = m
      BY <1>3, <3>1, <3>3
    <3>5. m \in Range(active)
      BY <1>1, <3>1, <3>3, <3>4 DEF SwitchInv, OnlineListed
    <3>. QED
      BY <1>4, <3>3, <3>5
  <2>. QED
    BY <2>1 DEF OnlineListed
<1>8. Once(active)' /\ Len(active') <= MaxNodes
  <2>1. Len(active) \in Nat /\ Len(active') \in Nat
    BY <1>1, <1>4, ListIndices DEF Once
  <2>. QED
    BY <1>1, <1>2, <1>4, <2>1 DEF Once
<1>. QED
  BY <1>3, <1>5, <1>6, <1>7, <1>8, InvFrom

(* Steps that change neither the slots nor the list and put no node        *)
(* online.                                                                 *)
LEMMA QuietHolds ==
  ASSUME SwitchInv, UNCHANGED <<slot, active>>, FieldsOK',
         \A n \in Node : state'[n] = "online" => state[n] = "online"
  PROVE  SwitchInv'
<1>1. Live \subseteq Node
  BY InSlots
<1>2. slot' \in [Index -> Node \cup {None}] /\ SlotsDistinct' /\ Live' = Live
  BY DEF SwitchInv, TypeOK, SlotsDistinct, Live
<1>3. Once(active)' /\ Len(active') <= MaxNodes /\ Range(active') \subseteq Live'
  BY <1>2, InSlots DEF Once
<1>4. OnlineListed'
  BY <1>1, <1>2 DEF SwitchInv, OnlineListed
<1>. QED
  BY <1>2, <1>3, <1>4, InvFrom

(* OnConnectNode.                                                          *)
LEMMA OnConnectHolds ==
  ASSUME SwitchInv, NEW i \in Index, OnConnectNode(i)
  PROVE  SwitchInv'
<1>1. /\ FieldsOK /\ Live \subseteq Node /\ slot \in [Index -> Node \cup {None}]
      /\ \A k \in Index : slot[k] # None => slot[k] \in Live /\ slot[k] \in Node
  BY InSlots DEF SwitchInv, TypeOK
<1>2. CASE slot[i] # None /\ ConnectInbound(slot[i]) /\ UNCHANGED <<slot, link>>
  <2>1. SlotsDistinct' /\ Live' = Live
    BY <1>2 DEF SwitchInv, SlotsDistinct, Live
  <2>2. link' \in [Node -> {"up", "closing", "down"}]
    BY <1>1, <1>2 DEF FieldsOK
  <2>. QED
    BY <1>1, <1>2, <2>1, <2>2, ConnectHolds
<1>3. ASSUME slot[i] = None, NEW n \in Node \ Live, slot' = [slot EXCEPT ![i] = n],
             link' = Be(link, n, "down"), ConnectInbound(n)
      PROVE  SwitchInv'
  <2>1. /\ slot' \in [Index -> Node \cup {None}] /\ slot'[i] = n /\ n # None
        /\ \A k \in Index \ {i} : slot'[k] = slot[k]
    BY <1>1, <1>3, SwitchAssumption
  <2>2. SlotsDistinct'
    BY <1>1, <1>3, <2>1 DEF SwitchInv, SlotsDistinct
  <2>3. n \in Live' /\ Live' \subseteq Live \cup {n}
    BY <1>3, <2>1 DEF Live
  <2>4. Live \subseteq Live'
    <3>1. ASSUME NEW m \in Live PROVE m \in Live'
      <4>1. PICK k \in Index : slot[k] = m /\ m # None
        BY DEF Live
      <4>2. slot'[k] = m
        BY <1>3, <2>1, <4>1
      <4>. QED
        BY <4>1, <4>2 DEF Live
    <3>. QED
      BY <3>1
  <2>5. link' \in [Node -> {"up", "closing", "down"}]
    BY <1>1, <1>3 DEF FieldsOK, Be
  <2>. QED
    BY <1>3, <2>1, <2>2, <2>3, <2>4, <2>5, ConnectHolds
<1>. QED
  BY <1>2, <1>3 DEF OnConnectNode

(* AddNode and OnDisconnectNode.                                           *)
LEMMA SlotHolds ==
  ASSUME SwitchInv, NEW i \in Index,
         (\E n \in Node, l \in {"up", "down"} : AddNode(i, n, l)) \/ OnDisconnectNode(i)
  PROVE  SwitchInv'
<1>1. /\ state \in [Node -> {"idle", "online", "hungup"}]
      /\ carrier \in [Node -> BOOLEAN]
      /\ modem \in [Node -> {"command", "online"}]
      /\ link \in [Node -> {"up", "closing", "down"}]
  BY InSlots DEF FieldsOK
<1>2. ASSUME NEW n \in Node, NEW l \in {"up", "down"}, AddNode(i, n, l)
      PROVE  SwitchInv'
  <2>1. /\ n \in Node \ Live /\ slot' = [slot EXCEPT ![i] = n]
        /\ active' = RemoveActive(active, slot[i])
    BY <1>2 DEF AddNode
  <2>2. /\ state' \in [Node -> {"idle", "online", "hungup"}]
        /\ \A m \in Node : state'[m] = IF m \in {n, slot[i]} THEN "idle" ELSE state[m]
    BY <1>1, <1>2 DEF AddNode, Blank
  <2>3. carrier' \in [Node -> BOOLEAN] /\ modem' \in [Node -> {"command", "online"}]
    BY <1>1, <1>2 DEF AddNode, Blank
  <2>4. link' \in [Node -> {"up", "closing", "down"}]
    BY <1>1, <1>2 DEF AddNode, Blank, Be
  <2>5. FieldsOK'
    BY <2>2, <2>3, <2>4 DEF FieldsOK
  <2>. QED
    BY <2>1, <2>2, <2>5, ReplaceHolds
<1>3. CASE OnDisconnectNode(i)
  <2>1. /\ slot' = [slot EXCEPT ![i] = None] /\ active' = RemoveActive(active, slot[i])
    BY <1>3 DEF OnDisconnectNode
  <2>2. /\ state' \in [Node -> {"idle", "online", "hungup"}]
        /\ \A m \in Node : state'[m] = IF m \in {slot[i]} THEN "idle" ELSE state[m]
    BY <1>1, <1>3 DEF OnDisconnectNode, Blank
  <2>3. \A m \in Node : state'[m] = IF m \in {None, slot[i]} THEN "idle" ELSE state[m]
    BY <2>2, SwitchAssumption
  <2>4. carrier' \in [Node -> BOOLEAN] /\ modem' \in [Node -> {"command", "online"}]
    BY <1>1, <1>3 DEF OnDisconnectNode, Blank
  <2>5. link' \in [Node -> {"up", "closing", "down"}]
    BY <1>1, <1>3 DEF OnDisconnectNode, Blank
  <2>6. FieldsOK'
    BY <2>2, <2>4, <2>5 DEF FieldsOK
  <2>. QED
    BY <2>1, <2>3, <2>6, ReplaceHolds
<1>. QED
  BY <1>2, <1>3

(* OnBinary finds its node in the slot.                                    *)
LEMMA OnBinaryHolds ==
  ASSUME SwitchInv, NEW i \in Index, OnBinary(i)
  PROVE  SwitchInv'
BY OnConnectHolds DEF OnBinary, OnConnectNode

(* A ring puts a node in the list that may or may not be online.           *)
LEMMA RingHolds ==
  ASSUME SwitchInv, NEW i \in Index, Ring(i)
  PROVE  SwitchInv'
<1>1. /\ FieldsOK /\ Once(active) /\ Len(active) <= MaxNodes
      /\ Range(active) \subseteq Live /\ slot[i] \in Live /\ slot[i] \in Node
  BY InSlots DEF Ring
<1>2. active' = AddActive(active, slot[i]) /\ UNCHANGED <<slot, state, carrier, modem, link>>
  BY DEF Ring
<1>3. /\ Once(active') /\ Len(active') <= MaxNodes
      /\ Range(active) \subseteq Range(active')
      /\ Range(active') \subseteq Range(active) \cup {slot[i]}
  BY <1>1, <1>2, Added
<1>4. FieldsOK' /\ Once(active)'
  BY <1>1, <1>2, <1>3 DEF FieldsOK, Once
<1>5. slot' \in [Index -> Node \cup {None}] /\ SlotsDistinct' /\ Live' = Live
  BY <1>2 DEF SwitchInv, TypeOK, SlotsDistinct, Live
<1>6. OnlineListed'
  BY <1>2, <1>3, <1>5 DEF SwitchInv, OnlineListed
<1>. QED
  BY <1>1, <1>3, <1>4, <1>5, <1>6, InvFrom

(* What the guest and the peer do changes no state.                        *)
LEMMA GuestHolds ==
  ASSUME SwitchInv,
         \/ \E i \in Index : GuestCommand(i) \/ GuestDropsDTR(i)
         \/ \E n \in Node : PeerCloses(n)
  PROVE  SwitchInv'
<1>1. /\ state \in [Node -> {"idle", "online", "hungup"}]
      /\ carrier \in [Node -> BOOLEAN]
      /\ modem \in [Node -> {"command", "online"}]
      /\ link \in [Node -> {"up", "closing", "down"}]
  BY InSlots DEF FieldsOK
<1>2. UNCHANGED <<slot, active, state>>
  BY DEF GuestCommand, GuestDropsDTR, PeerCloses
<1>3. carrier' \in [Node -> BOOLEAN]
  BY <1>1 DEF GuestCommand, GuestDropsDTR, PeerCloses, Dial, Hook, ReturnOnline, Be
<1>4. modem' \in [Node -> {"command", "online"}]
  BY <1>1 DEF GuestCommand, GuestDropsDTR, PeerCloses, Dial, Hook, ReturnOnline, Be
<1>5. link' \in [Node -> {"up", "closing", "down"}]
  BY <1>1 DEF GuestCommand, GuestDropsDTR, PeerCloses, Dial, Hook, ReturnOnline, Be
<1>6. FieldsOK'
  BY <1>1, <1>2, <1>3, <1>4, <1>5 DEF FieldsOK
<1>. QED
  BY <1>2, <1>6, QuietHolds

(* The driver pumps one node.                                              *)
LEMMA DriverHolds ==
  ASSUME SwitchInv, NEW i \in Index, DriverIO(i)
  PROVE  SwitchInv'
<1>1. FieldsOK' /\ \A n \in Node : state'[n] = "online" => state[n] = "online"
  BY InSlots, PumpIs DEF DriverIO
<1>. QED
  BY <1>1, QuietHolds DEF DriverIO

(* The tick keeps in the list what it found online, also the nodes it      *)
(* hung up; a node it did not find online is not online.                   *)
LEMMA TickHolds ==
  ASSUME SwitchInv, PumpAll
  PROVE  SwitchInv'
<1>1. /\ FieldsOK /\ Once(active) /\ Len(active) <= MaxNodes
      /\ Range(active) \subseteq Live /\ Live \subseteq Node
  BY InSlots
<1>2. FieldsOK' /\ \A n \in Node : state'[n] = "online" => state[n] = "online"
  BY <1>1, PumpIs DEF PumpAll
<1>3. active' \in Survivors(active) /\ UNCHANGED slot
  BY DEF PumpAll
<1>4. /\ Once(active') /\ Len(active') <= Len(active)
      /\ Range(active') = {n \in Range(active) : state[n] = "online"}
  BY <1>1, <1>3, Kept
<1>5. slot' \in [Index -> Node \cup {None}] /\ SlotsDistinct' /\ Live' = Live
  BY <1>3 DEF SwitchInv, TypeOK, SlotsDistinct, Live
<1>6. OnlineListed'
  BY <1>1, <1>2, <1>4, <1>5 DEF SwitchInv, OnlineListed
<1>7. Once(active)' /\ Len(active') <= MaxNodes /\ Range(active') \subseteq Live'
  <2>1. Len(active) \in Nat /\ Len(active') \in Nat /\ MaxNodes \in Nat
    BY <1>1, <1>4, ListIndices, SwitchAssumption, FS_CardinalityType DEF Once
  <2>. QED
    BY <1>1, <1>4, <1>5, <2>1 DEF Once
<1>. QED
  BY <1>2, <1>5, <1>6, <1>7, InvFrom

-----------------------------------------------------------------------------
(* The theorems. *)

(* At first every slot is empty.                                           *)
LEMMA SwitchStarts == Init => SwitchInv
<1>1. SUFFICES ASSUME Init PROVE SwitchInv
  OBVIOUS
<1>2. /\ active \in Seq(Node) /\ Len(active) = 0 /\ DOMAIN active = {} /\ MaxNodes \in Nat
  BY <1>1, SwitchAssumption, FS_CardinalityType DEF Init
<1>3. TypeOK
  BY <1>1, <1>2 DEF Init, TypeOK
<1>4. Live = {}
  BY <1>1 DEF Init, Live
<1>5. NoDangling
  BY <1>2 DEF NoDangling, Range, IsInjective
<1>6. SlotsDistinct
  BY <1>1 DEF Init, SlotsDistinct
<1>. QED
  BY <1>3, <1>4, <1>5, <1>6 DEF SwitchInv, OnlineListed

(* Every step keeps the invariant.                                         *)
LEMMA SwitchStep == SwitchInv /\ [Next]_vars => SwitchInv'
<1>1. SUFFICES ASSUME SwitchInv, [Next]_vars PROVE SwitchInv'
  OBVIOUS
<1>2. CASE UNCHANGED vars
  BY <1>1, <1>2 DEF vars, SwitchInv, TypeOK, SlotsDistinct, NoDangling, OnlineListed, Live
<1>3. CASE \/ \E i \in Index, n \in Node, l \in {"up", "down"} : AddNode(i, n, l)
           \/ \E i \in Index : OnDisconnectNode(i)
  BY <1>1, <1>3, SlotHolds
<1>4. CASE \E i \in Index : OnConnectNode(i) \/ OnBinary(i)
  BY <1>1, <1>4, OnConnectHolds, OnBinaryHolds
<1>5. CASE \E i \in Index : Ring(i)
  BY <1>1, <1>5, RingHolds
<1>6. CASE \/ \E i \in Index : GuestCommand(i) \/ GuestDropsDTR(i)
           \/ \E n \in Node : PeerCloses(n)
  BY <1>1, <1>6, GuestHolds
<1>7. CASE \E i \in Index : DriverIO(i)
  BY <1>1, <1>7, DriverHolds
<1>8. CASE PumpAll
  BY <1>1, <1>8, TickHolds
<1>. QED
  BY <1>1, <1>2, <1>3, <1>4, <1>5, <1>6, <1>7, <1>8 DEF Next

(* The invariant holds always.                                             *)
LEMMA SwitchAlways == Spec => []SwitchInv
BY SwitchStarts, SwitchStep, PTL DEF Spec

(* The list never grows beyond its array, whatever connects, rings and is  *)
(* replaced.                                                               *)
THEOREM TypeCorrect == Spec => []TypeOK
<1>1. SwitchInv => TypeOK
  BY DEF SwitchInv
<1>. QED
  BY <1>1, SwitchAlways, PTL

(* The tick follows no reference to a freed node, and no node is in the    *)
(* list twice.                                                             *)
THEOREM ListRefersToLive == Spec => []NoDangling
<1>1. SwitchInv => NoDangling
  BY DEF SwitchInv
<1>. QED
  BY <1>1, SwitchAlways, PTL

(* Every online node is in the list: it is never too full to take one.     *)
THEOREM NobodyLeftOut == Spec => []OnlineListed
<1>1. SwitchInv => OnlineListed
  BY DEF SwitchInv
<1>. QED
  BY <1>1, SwitchAlways, PTL

-----------------------------------------------------------------------------
(* The link.                                                               *)

\* Numbers that rise, and all those of one sequence before all of the other.
Rising(s) == \A i, j \in 1 .. Len(s) : i < j => s[i] < s[j]
Before(s, t) == \A i \in 1 .. Len(s), j \in 1 .. Len(t) : s[i] < t[j]

\* What Carries says, of the first n of whole.
Carried(stream, whole, n) ==
  \A i \in 1 .. n : \E k \in 1 .. Len(stream) :
    /\ stream[k] = whole[i]
    /\ \A j \in 1 .. i - 1, m \in k .. Len(stream) : stream[m] # whole[j]

\* The tail is the end of what was accepted, and the wire carries the rest.
TailIsEnd ==
  /\ Len(tail) <= Len(accepted)
  /\ \A i \in 1 .. Len(tail) : tail[i] = accepted[Len(accepted) - Len(tail) + i]
SendOrder ==
  connected =>
    Rising(accepted) /\ TailIsEnd /\ Carried(wire, accepted, Len(accepted) - Len(tail))

\* What Recv has yet to hand out comes after what it did.
ReadOrder == Rising(handed) /\ Rising(Pending) /\ Before(handed, Pending)

LinkInv == LinkTypeOK /\ SendOrder /\ ReadOrder

-----------------------------------------------------------------------------
LEMMA PrefixIs ==
  ASSUME NEW S, NEW s \in Seq(S), NEW n \in 0 .. Len(s)
  PROVE  /\ SubSeq(s, 1, n) \in Seq(S) /\ Len(SubSeq(s, 1, n)) = n
         /\ \A i \in 1 .. n : SubSeq(s, 1, n)[i] = s[i]
<1>1. Len(s) \in Nat /\ n \in Int /\ 1 \in Int /\ n <= Len(s) /\ n >= 0
  BY LenProperties
<1>2. \A i \in 1 .. n : s[i] \in S
  BY <1>1, ElementOfSeq
<1>3. /\ SubSeq(s, 1, n) \in Seq(S)
      /\ Len(SubSeq(s, 1, n)) = IF 1 <= n THEN n - 1 + 1 ELSE 0
      /\ \A i \in 1 .. n - 1 + 1 : SubSeq(s, 1, n)[i] = s[1 + i - 1]
  BY <1>1, <1>2, SubSeqProperties
<1> QED
  BY <1>1, <1>3

LEMMA RestIs ==
  ASSUME NEW S, NEW s \in Seq(S), NEW n \in 0 .. Len(s)
  PROVE  /\ SubSeq(s, n + 1, Len(s)) \in Seq(S) /\ Len(SubSeq(s, n + 1, Len(s))) = Len(s) - n
         /\ \A i \in 1 .. Len(s) - n : SubSeq(s, n + 1, Len(s))[i] = s[n + i]
<1>1. Len(s) \in Nat /\ n + 1 \in Int /\ Len(s) \in Int /\ n \in Nat /\ n <= Len(s)
  BY LenProperties
<1>2. \A i \in n + 1 .. Len(s) : s[i] \in S
  BY <1>1, ElementOfSeq
<1>3. /\ SubSeq(s, n + 1, Len(s)) \in Seq(S)
      /\ Len(SubSeq(s, n + 1, Len(s))) = IF n + 1 <= Len(s) THEN Len(s) - (n + 1) + 1 ELSE 0
      /\ \A i \in 1 .. Len(s) - (n + 1) + 1 : SubSeq(s, n + 1, Len(s))[i] = s[n + 1 + i - 1]
  BY <1>1, <1>2, SubSeqProperties
<1> QED
  BY <1>1, <1>3

\* A place behind n is a later one.
LEMMA Later ==
  ASSUME NEW n \in Nat, NEW l \in Nat, NEW k \in Nat, n + l = k
  PROVE  /\ \A m \in 1 .. l : n + m \in 1 .. k
         /\ \A j \in 1 .. n, m \in 1 .. l : j < n + m
         /\ \A j \in 1 .. n - 1 : j \in 1 .. n
         /\ \A j \in 1 .. n : j \in 1 .. k
         /\ \A i \in 1 .. l, j \in 1 .. l : i < j => n + i < n + j
  OBVIOUS

LEMMA NumberedIs ==
  ASSUME NEW m \in Nat, NEW n \in Nat
  PROVE  /\ Numbered(m + 1, m + n) \in Seq(1 .. m + n) /\ Len(Numbered(m + 1, m + n)) = n
         /\ \A i \in 1 .. n : Numbered(m + 1, m + n)[i] = m + i
<1>1. m + n - (m + 1) + 1 = n /\ \A i \in 1 .. n : m + 1 + i - 1 = m + i
  OBVIOUS
<1>2. Numbered(m + 1, m + n) = [i \in 1 .. n |-> m + i]
  BY <1>1 DEF Numbered
<1>3. [i \in 1 .. n |-> m + i] \in [1 .. n -> 1 .. m + n]
  OBVIOUS
<1>4. [i \in 1 .. n |-> m + i] \in Seq(1 .. m + n)
  BY <1>3, SeqDef
<1> QED
  BY <1>2, <1>4

LEMMA Wider == ASSUME NEW a \in Nat, NEW b \in Nat, a <= b, NEW s \in Seq(1 .. a) PROVE s \in Seq(1 .. b)
<1>1. 1 .. a \subseteq 1 .. b
  OBVIOUS
<1> QED
  BY <1>1, SeqMonotonic

-----------------------------------------------------------------------------
\* What is added to the wire does no harm if it is none of the earlier bytes.
LEMMA CarriedOnwards ==
  ASSUME NEW w \in Seq(Nat), NEW e \in Seq(Nat), NEW a, NEW n \in Nat, Carried(w, a, n),
         \A m \in 1 .. Len(e), j \in 1 .. n - 1 : e[m] # a[j]
  PROVE  Carried(w \o e, a, n)
<1>1. /\ w \o e \in Seq(Nat) /\ Len(w \o e) = Len(w) + Len(e)
      /\ \A i \in 1 .. Len(w) + Len(e) : (w \o e)[i] = IF i <= Len(w) THEN w[i] ELSE e[i - Len(w)]
  BY ConcatProperties
<1>2. Len(w) \in Nat /\ Len(e) \in Nat
  BY LenProperties
<1> SUFFICES ASSUME NEW i \in 1 .. n
             PROVE  \E k \in 1 .. Len(w \o e) :
                      /\ (w \o e)[k] = a[i]
                      /\ \A j \in 1 .. i - 1, m \in k .. Len(w \o e) : (w \o e)[m] # a[j]
  BY DEF Carried
<1>3. PICK k \in 1 .. Len(w) :
        w[k] = a[i] /\ \A j \in 1 .. i - 1, m \in k .. Len(w) : w[m] # a[j]
  BY DEF Carried
<1>4. k \in 1 .. Len(w \o e) /\ (w \o e)[k] = a[i]
  BY <1>1, <1>2, <1>3
<1>5. ASSUME NEW j \in 1 .. i - 1, NEW m \in k .. Len(w \o e)
      PROVE  (w \o e)[m] # a[j]
  <2>1. m \in 1 .. Len(w) + Len(e) /\ j \in 1 .. n - 1
    BY <1>1, <1>2
  <2>2. CASE m <= Len(w)
    BY <1>1, <1>3, <2>1, <2>2
  <2>3. CASE m > Len(w)
    <3>1. m - Len(w) \in 1 .. Len(e)
      BY <1>2, <2>1, <2>3
    <3>2. (w \o e)[m] = e[m - Len(w)]
      BY <1>1, <1>2, <2>1, <2>3
    <3> QED
      BY <2>1, <3>1, <3>2
  <2> QED
    BY <1>2, <2>1, <2>2, <2>3
<1> QED
  BY <1>4, <1>5

\* The rest of a rising sequence, added to the wire, completes it.
LEMMA CarriedThrough ==
  ASSUME NEW w \in Seq(Nat), NEW e \in Seq(Nat), NEW a \in Seq(Nat), NEW n \in Nat,
         n + Len(e) = Len(a), Rising(a), \A i \in 1 .. Len(e) : e[i] = a[n + i],
         Carried(w, a, n)
  PROVE  Carried(w \o e, a, Len(a))
<1>1. /\ w \o e \in Seq(Nat) /\ Len(w \o e) = Len(w) + Len(e)
      /\ \A i \in 1 .. Len(w) + Len(e) : (w \o e)[i] = IF i <= Len(w) THEN w[i] ELSE e[i - Len(w)]
  BY ConcatProperties
<1>2. Len(w) \in Nat /\ Len(e) \in Nat /\ Len(a) \in Nat
  BY LenProperties
<1>3. \A x \in 1 .. Len(a) : a[x] \in Nat
  BY ElementOfSeq
<1>4. ASSUME NEW m \in 1 .. Len(e), NEW j \in 1 .. n - 1
      PROVE  e[m] # a[j]
  <2>1. j \in 1 .. Len(a) /\ n + m \in 1 .. Len(a) /\ j < n + m
    BY <1>2, Later
  <2>2. a[j] < a[n + m]
    BY <2>1 DEF Rising
  <2> QED
    BY <1>3, <2>1, <2>2
<1>5. Carried(w \o e, a, n)
  BY <1>4, CarriedOnwards
<1>6. ASSUME NEW i \in 1 .. Len(a), i > n
      PROVE  \E k \in 1 .. Len(w \o e) :
               /\ (w \o e)[k] = a[i]
               /\ \A j \in 1 .. i - 1, m \in k .. Len(w \o e) : (w \o e)[m] # a[j]
  <2> DEFINE k == Len(w) + (i - n)
  <2>1. k \in 1 .. Len(w \o e) /\ k > Len(w) /\ k - Len(w) = i - n /\ i - n \in 1 .. Len(e)
    BY <1>1, <1>2, <1>6
  <2>2. (w \o e)[k] = e[i - n]
    BY <1>1, <1>2, <2>1
  <2>3. e[i - n] = a[i]
    <3>1. n + (i - n) = i
      OBVIOUS
    <3> QED
      BY <2>1, <3>1
  <2>4. ASSUME NEW j \in 1 .. i - 1, NEW m \in k .. Len(w \o e)
        PROVE  (w \o e)[m] # a[j]
    <3> DEFINE x == m - Len(w)
    <3>0. m \in Int /\ Len(w) + (i - n) <= m /\ m <= Len(w) + Len(e)
      BY <1>1, <1>2, <2>1
    <3>1. /\ x \in 1 .. Len(e) /\ m \in 1 .. Len(w) + Len(e) /\ ~(m <= Len(w))
          /\ j \in 1 .. Len(a) /\ n + x \in 1 .. Len(a) /\ j < n + x
      <4>1. x \in Int /\ i - n <= x /\ x <= Len(e)
        BY <1>2, <3>0
      <4>2. j \in Nat /\ j < i /\ 1 <= j /\ i > n /\ i <= Len(a) /\ i \in Nat
        BY <1>2, <1>6
      <4> HIDE DEF x, k
      <4>3. 1 <= x /\ n + x <= Len(a) /\ j < n + x
        BY <1>2, <4>1, <4>2
      <4>4. 1 <= m /\ m > Len(w)
        BY <1>2, <3>0, <4>2
      <4>5. x \in 1 .. Len(e)
        BY <1>2, <4>1, <4>3
      <4>6. m \in 1 .. Len(w) + Len(e) /\ ~(m <= Len(w))
        BY <1>2, <3>0, <4>4
      <4>7. j \in 1 .. Len(a)
        BY <1>2, <4>2
      <4>8. n + x \in 1 .. Len(a)
        BY <1>2, <4>5, Later
      <4> QED
        BY <4>3, <4>5, <4>6, <4>7, <4>8
    <3>2. (w \o e)[m] = e[x]
      BY <1>1, <3>1
    <3> HIDE DEF x
    <3>3. e[x] = a[n + x]
      BY <3>1
    <3>4. a[j] < a[n + x]
      BY <3>1 DEF Rising
    <3>5. a[j] \in Nat /\ a[n + x] \in Nat
      BY <1>3, <3>1
    <3> QED
      BY <3>2, <3>3, <3>4, <3>5
  <2> HIDE DEF k
  <2> QED
    BY <2>1, <2>2, <2>3, <2>4
<1> QED
  <2> SUFFICES ASSUME NEW i \in 1 .. Len(a)
               PROVE  \E k \in 1 .. Len(w \o e) :
                        /\ (w \o e)[k] = a[i]
                        /\ \A j \in 1 .. i - 1, m \in k .. Len(w \o e) : (w \o e)[m] # a[j]
    BY DEF Carried
  <2>1. CASE i <= n
    <3>1. i \in 1 .. n
      BY <2>1
    <3> QED
      BY <1>5, <3>1 DEF Carried
  <2>2. CASE i > n
    BY <1>6, <2>2
  <2>3. i <= n \/ i > n
    BY <1>2
  <2> QED
    BY <2>1, <2>2, <2>3, Zenon

\* So does what is added to the whole.
LEMMA CarriedMore ==
  ASSUME NEW w, NEW a \in Seq(Nat), NEW p \in Seq(Nat), NEW n \in Nat, n <= Len(a),
         Carried(w, a, n)
  PROVE  Carried(w, a \o p, n)
<1>1. Len(a) \in Nat /\ Len(p) \in Nat
  BY LenProperties
<1>2. ASSUME NEW i \in 1 .. n PROVE (a \o p)[i] = a[i]
  <2>1. i \in 1 .. Len(a) + Len(p) /\ i <= Len(a)
    BY <1>1
  <2> QED
    BY <2>1, ConcatProperties
<1> SUFFICES ASSUME NEW i \in 1 .. n
             PROVE  \E k \in 1 .. Len(w) :
                      /\ w[k] = (a \o p)[i]
                      /\ \A j \in 1 .. i - 1, m \in k .. Len(w) : w[m] # (a \o p)[j]
  BY DEF Carried
<1>3. \A j \in 1 .. i - 1 : (a \o p)[j] = a[j]
  BY <1>2
<1> QED
  BY <1>2, <1>3 DEF Carried

LEMMA RisingOnwards ==
  ASSUME NEW s \in Seq(Nat), NEW t \in Seq(Nat), Rising(s), Rising(t), Before(s, t)
  PROVE  Rising(s \o t)
<1>1. /\ Len(s \o t) = Len(s) + Len(t)
      /\ \A i \in 1 .. Len(s) + Len(t) : (s \o t)[i] = IF i <= Len(s) THEN s[i] ELSE t[i - Len(s)]
  BY ConcatProperties
<1>2. Len(s) \in Nat /\ Len(t) \in Nat
  BY LenProperties
<1> SUFFICES ASSUME NEW i \in 1 .. Len(s \o t), NEW j \in 1 .. Len(s \o t), i < j
             PROVE  (s \o t)[i] < (s \o t)[j]
  BY DEF Rising
<1>3. CASE j <= Len(s)
  <2>1. i \in 1 .. Len(s) /\ j \in 1 .. Len(s)
    BY <1>1, <1>2, <1>3
  <2>2. (s \o t)[i] = s[i] /\ (s \o t)[j] = s[j]
    BY <1>1, <1>2, <2>1
  <2> QED
    BY <2>1, <2>2 DEF Rising
<1>4. CASE i <= Len(s) /\ j > Len(s)
  <2>1. i \in 1 .. Len(s) /\ j - Len(s) \in 1 .. Len(t)
    BY <1>1, <1>2, <1>4
  <2>2. (s \o t)[i] = s[i] /\ (s \o t)[j] = t[j - Len(s)]
    BY <1>1, <1>2, <1>4
  <2> QED
    BY <2>1, <2>2 DEF Before
<1>5. CASE i > Len(s)
  <2>1. i - Len(s) \in 1 .. Len(t) /\ j - Len(s) \in 1 .. Len(t) /\ i - Len(s) < j - Len(s)
    BY <1>1, <1>2, <1>5
  <2>2. (s \o t)[i] = t[i - Len(s)] /\ (s \o t)[j] = t[j - Len(s)]
    BY <1>1, <1>2, <1>5
  <2> QED
    BY <2>1, <2>2 DEF Rising
<1> QED
  BY <1>1, <1>2, <1>3, <1>4, <1>5


-----------------------------------------------------------------------------
\* Types as the provers read them.
LEMMA Types ==
  ASSUME LinkTypeOK
  PROVE  /\ given \in Nat /\ given <= MaxBytes /\ arrived \in Nat /\ arrived <= MaxBytes
         /\ tail \in Seq(1 .. given) /\ wire \in Seq(1 .. given) /\ accepted \in Seq(1 .. given)
         /\ buffer \in Seq(1 .. arrived) /\ inbox \in Seq(1 .. arrived)
         /\ handed \in Seq(1 .. arrived)
         /\ MaxBytes \in Nat /\ TailMax \in Nat /\ TailMax > 0 /\ Chunk \in Nat /\ Chunk > 0
<1>1. MaxBytes \in Nat /\ TailMax \in Nat \ {0} /\ Chunk \in Nat \ {0}
  BY LinkAssumption
<1>2. given \in 0 .. MaxBytes /\ arrived \in 0 .. MaxBytes
  BY DEF LinkTypeOK
<1>3. /\ tail \in Seq(1 .. given) /\ wire \in Seq(1 .. given) /\ accepted \in Seq(1 .. given)
      /\ buffer \in Seq(1 .. arrived) /\ inbox \in Seq(1 .. arrived)
      /\ handed \in Seq(1 .. arrived)
  BY DEF LinkTypeOK
<1> QED
  BY <1>1, <1>2, <1>3

LEMMA InNat == ASSUME NEW n, NEW s \in Seq(1 .. n) PROVE s \in Seq(Nat)
<1>1. 1 .. n \subseteq Nat
  OBVIOUS
<1> QED
  BY <1>1, SeqMonotonic

\* The tail a refusal leaves is a prefix of what was to be sent, below the cap.
LEMMA TailQueued ==
  ASSUME NEW n \in Nat, NEW s \in Seq(1 .. n)
  PROVE  \E q \in 0 .. Len(s) : q <= TailMax /\ QueueTail(<<>>, s) = SubSeq(s, 1, q)
<1>1. TailMax \in Nat /\ TailMax > 0 /\ Len(s) \in Nat
  BY LinkAssumption, LenProperties
<1>2. Len(<<>>) = 0 /\ ~(TailMax <= 0) /\ TailMax - 0 = TailMax
  BY <1>1
<1> DEFINE q == IF Len(s) < TailMax THEN Len(s) ELSE TailMax
<1>3. q \in 0 .. Len(s) /\ q <= TailMax
  BY <1>1
<1>4. QueueTail(<<>>, s) = <<>> \o SubSeq(s, 1, q)
  BY <1>2 DEF QueueTail
<1> HIDE DEF q
<1>5. SubSeq(s, 1, q) \in Seq(1 .. n)
  BY <1>3, PrefixIs
<1>6. <<>> \o SubSeq(s, 1, q) = SubSeq(s, 1, q)
  BY <1>5, ConcatEmptySeq
<1> QED
  BY <1>3, <1>4, <1>6


-----------------------------------------------------------------------------
\* Send.  New bytes have higher numbers than all before them.
LEMMA NewAreHigher ==
  ASSUME NEW n \in Nat, NEW a \in Seq(1 .. n), Rising(a), NEW p \in Seq(Nat),
         \A i \in 1 .. Len(p) : p[i] = n + i
  PROVE  /\ Rising(a \o p) /\ Len(a \o p) = Len(a) + Len(p) /\ a \o p \in Seq(Nat)
         /\ \A i \in 1 .. Len(p) : p[i] = (a \o p)[Len(a) + i]
         /\ \A m \in 1 .. Len(p), j \in 1 .. Len(a) : p[m] # a[j]
<1>1. a \in Seq(Nat) /\ Len(a) \in Nat /\ Len(p) \in Nat
  BY InNat, LenProperties
<1>2. \A j \in 1 .. Len(a) : a[j] \in 1 .. n
  BY ElementOfSeq
<1>3. Rising(p)
  BY <1>1 DEF Rising
<1>4. Before(a, p)
  BY <1>1, <1>2 DEF Before
<1>5. Rising(a \o p)
  BY <1>1, <1>3, <1>4, RisingOnwards
<1>6. /\ a \o p \in Seq(Nat) /\ Len(a \o p) = Len(a) + Len(p)
      /\ \A i \in 1 .. Len(a) + Len(p) : (a \o p)[i] = IF i <= Len(a) THEN a[i] ELSE p[i - Len(a)]
  BY <1>1, ConcatProperties
<1>7. ASSUME NEW i \in 1 .. Len(p) PROVE p[i] = (a \o p)[Len(a) + i]
  <2>1. Len(a) + i \in 1 .. Len(a) + Len(p) /\ ~(Len(a) + i <= Len(a)) /\ Len(a) + i - Len(a) = i
    BY <1>1
  <2> QED
    BY <1>6, <2>1
<1>8. ASSUME NEW m \in 1 .. Len(p), NEW j \in 1 .. Len(a) PROVE p[m] # a[j]
  BY <1>1, <1>2
<1> QED
  BY <1>5, <1>6, <1>7, <1>8

LEMMA NewSent ==
  ASSUME LinkTypeOK, NEW len \in Nat, given + len <= MaxBytes, given' = given + len,
         Rising(accepted), NEW sent \in Seq(1 .. given),
         Carried(sent, accepted, Len(accepted)),
         SendNew(Numbered(given + 1, given + len), sent)
  PROVE  /\ connected' \in BOOLEAN /\ Len(tail') <= TailMax
         /\ tail' \in Seq(1 .. given') /\ wire' \in Seq(1 .. given')
         /\ accepted' \in Seq(1 .. given')
         /\ SendOrder'
<1> DEFINE s == Numbered(given + 1, given + len)
<1>1. /\ given \in Nat /\ given' \in Nat /\ given <= given' /\ accepted \in Seq(1 .. given)
      /\ TailMax \in Nat
  BY Types
<1>2. /\ s \in Seq(1 .. given') /\ Len(s) = len
      /\ \A i \in 1 .. len : s[i] = given + i
  BY <1>1, NumberedIs
<1>3. accepted \in Seq(1 .. given') /\ sent \in Seq(1 .. given')
  BY <1>1, Wider
<1>4. accepted \in Seq(Nat) /\ sent \in Seq(Nat) /\ s \in Seq(Nat)
  BY <1>2, <1>3, InNat
<1>5. Len(accepted) \in Nat
  BY <1>1, LenProperties
<1>6. \A x \in 1 .. Len(accepted) : accepted[x] \in Nat
  BY <1>4, ElementOfSeq
<1>7. PICK o \in Outcomes(s) :
        /\ wire' = sent \o SubSeq(s, 1, o.n)
        /\ \/ o.error = "none" /\ tail' = <<>> /\ accepted' = accepted \o s
           \/ /\ o.error = "wouldblock"
              /\ tail' = QueueTail(<<>>, s)
              /\ accepted' = accepted \o SubSeq(s, 1, Len(tail'))
           \/ o.error = "fatal" /\ tail' = <<>> /\ accepted' = accepted
        /\ connected' = (o.error # "fatal")
  BY DEF SendNew
<1>8. o.n \in 0 .. Len(s) /\ (o.error = "none" => o.n = Len(s))
  BY <1>2 DEF Outcomes
<1> HIDE DEF s
<1> DEFINE e == SubSeq(s, 1, o.n)
<1>9. /\ e \in Seq(1 .. given') /\ Len(e) = o.n /\ \A i \in 1 .. o.n : e[i] = given + i
  <2>1. e \in Seq(1 .. given') /\ Len(e) = o.n /\ \A i \in 1 .. o.n : e[i] = s[i]
    BY <1>2, <1>8, PrefixIs
  <2> QED
    BY <1>2, <1>8, <2>1
<1>10. e \in Seq(Nat)
  BY <1>9, InNat
<1> HIDE DEF e
<1>11. wire' = sent \o e
  BY <1>7 DEF e
<1>12. wire' \in Seq(1 .. given')
  BY <1>3, <1>9, <1>11, ConcatProperties
<1>13. CASE o.error = "none"
  <2>1. tail' = <<>> /\ accepted' = accepted \o s /\ connected' = TRUE
    BY <1>7, <1>13
  <2>2. e = s
    BY <1>2, <1>8, <1>13, SubSeqFull DEF e
  <2>3. accepted' \in Seq(1 .. given')
    BY <1>2, <1>3, <2>1, ConcatProperties
  <2>4. /\ Rising(accepted \o s) /\ Len(accepted \o s) = Len(accepted) + Len(s)
        /\ accepted \o s \in Seq(Nat)
        /\ \A i \in 1 .. Len(s) : s[i] = (accepted \o s)[Len(accepted) + i]
    <3>1. \A i \in 1 .. Len(s) : s[i] = given + i
      BY <1>2
    <3> QED
      BY <1>1, <1>4, <3>1, NewAreHigher
  <2>5. Carried(sent, accepted \o s, Len(accepted))
    BY <1>4, <1>5, CarriedMore
  <2>6. Carried(sent \o s, accepted \o s, Len(accepted \o s))
    BY <1>4, <1>5, <2>4, <2>5, CarriedThrough
  <2>7. Len(tail') = 0 /\ Len(accepted') \in Nat /\ tail' \in Seq(1 .. given')
    BY <2>1, <2>3, LenProperties
  <2>8. Carried(wire', accepted', Len(accepted') - Len(tail'))
    BY <1>11, <2>1, <2>2, <2>6, <2>7
  <2>9. TailIsEnd'
    BY <2>7 DEF TailIsEnd
  <2> QED
    BY <1>1, <1>12, <2>1, <2>3, <2>4, <2>7, <2>8, <2>9 DEF SendOrder
<1>14. CASE o.error = "wouldblock"
  <2>1. PICK q \in 0 .. Len(s) : q <= TailMax /\ QueueTail(<<>>, s) = SubSeq(s, 1, q)
    BY <1>1, <1>2, TailQueued
  <2> DEFINE p == SubSeq(s, 1, q)
  <2>2. p \in Seq(1 .. given') /\ Len(p) = q /\ \A i \in 1 .. q : p[i] = given + i
    <3>1. p \in Seq(1 .. given') /\ Len(p) = q /\ \A i \in 1 .. q : p[i] = s[i]
      BY <1>2, PrefixIs
    <3> QED
      BY <1>2, <3>1
  <2>3. tail' = p /\ accepted' = accepted \o p /\ connected' = TRUE
    BY <1>7, <1>14, <2>1, <2>2
  <2>4. p \in Seq(Nat)
    BY <2>2, InNat
  <2> HIDE DEF p
  <2>5. accepted' \in Seq(1 .. given')
    BY <1>3, <2>2, <2>3, ConcatProperties
  <2>6. /\ Rising(accepted \o p) /\ Len(accepted \o p) = Len(accepted) + Len(p)
        /\ \A i \in 1 .. Len(p) : p[i] = (accepted \o p)[Len(accepted) + i]
    <3>1. \A i \in 1 .. Len(p) : p[i] = given + i
      BY <2>2
    <3> QED
      BY <1>1, <2>4, <3>1, NewAreHigher
  <2>7. \A m \in 1 .. Len(e), j \in 1 .. Len(accepted) : e[m] # accepted[j]
    <3>1. \A i \in 1 .. Len(e) : e[i] = given + i
      BY <1>9
    <3> QED
      BY <1>1, <1>10, <3>1, NewAreHigher
  <2>8. \A m \in 1 .. Len(e), j \in 1 .. Len(accepted) - 1 : e[m] # accepted[j]
    BY <1>5, <2>7
  <2>9. Carried(wire', accepted, Len(accepted))
    BY <1>4, <1>5, <1>10, <1>11, <2>8, CarriedOnwards
  <2>10. Carried(wire', accepted', Len(accepted))
    BY <1>4, <1>5, <2>3, <2>4, <2>9, CarriedMore
  <2>11. /\ Len(tail') = q /\ Len(accepted') = Len(accepted) + q
         /\ Len(accepted') - Len(tail') = Len(accepted) /\ q \in Nat
    BY <1>5, <2>2, <2>3, <2>6
  <2>12. TailIsEnd'
    <3>1. \A i \in 1 .. Len(p) : tail'[i] = accepted'[Len(accepted) + i]
      BY <2>3, <2>6
    <3>2. Len(p) = Len(tail')
      BY <2>3
    <3>3. Len(tail') <= Len(accepted')
      BY <1>5, <2>11
    <3> QED
      BY <2>11, <3>1, <3>2, <3>3 DEF TailIsEnd
  <2>13. SendOrder'
    BY <2>3, <2>6, <2>10, <2>11, <2>12 DEF SendOrder
  <2> QED
    BY <1>1, <1>12, <2>1, <2>2, <2>3, <2>5, <2>13
<1>15. CASE o.error = "fatal"
  <2>1. tail' = <<>> /\ accepted' = accepted /\ connected' = FALSE
    BY <1>7, <1>15
  <2>2. Len(tail') <= TailMax /\ tail' \in Seq(1 .. given')
    BY <1>1, <2>1
  <2> QED
    BY <1>3, <1>12, <2>1, <2>2 DEF SendOrder
<1> QED
  BY <1>7, <1>13, <1>14, <1>15


\* A flush of the tail: of the bytes it moves none was accepted before them.
LEMMA FlushCarries ==
  ASSUME NEW a \in Seq(Nat), NEW w \in Seq(Nat), NEW t \in Seq(Nat), Rising(a),
         Len(t) <= Len(a), \A i \in 1 .. Len(t) : t[i] = a[Len(a) - Len(t) + i],
         Carried(w, a, Len(a) - Len(t)), NEW n \in 0 .. Len(t)
  PROVE  /\ Carried(w \o SubSeq(t, 1, n), a, Len(a) - Len(t))
         /\ Carried(w \o t, a, Len(a))
<1>1. Len(a) \in Nat /\ Len(t) \in Nat
  BY LenProperties
<1> DEFINE kept == Len(a) - Len(t)
<1>2. kept \in Nat /\ kept + Len(t) = Len(a)
  BY <1>1
<1>3. \A i \in 1 .. Len(t) : t[i] = a[kept + i]
  OBVIOUS
<1>4. \A x \in 1 .. Len(a) : a[x] \in Nat
  BY ElementOfSeq
<1> DEFINE e == SubSeq(t, 1, n)
<1>5. e \in Seq(Nat) /\ Len(e) = n /\ \A i \in 1 .. n : e[i] = t[i]
  BY PrefixIs
<1>6. Carried(w, a, kept)
  OBVIOUS
<1> HIDE DEF kept, e
<1>7. ASSUME NEW m \in 1 .. Len(e), NEW j \in 1 .. kept - 1
      PROVE  e[m] # a[j]
  <2>1. m \in 1 .. n /\ m \in 1 .. Len(t)
    BY <1>1, <1>5
  <2>2. e[m] = a[kept + m]
    BY <1>3, <1>5, <2>1
  <2>3. j \in 1 .. Len(a) /\ kept + m \in 1 .. Len(a) /\ j < kept + m
    <3>1. j \in 1 .. kept
      BY <1>1, <1>2, Later
    <3> QED
      BY <1>1, <1>2, <2>1, <3>1, Later
  <2>4. a[j] < a[kept + m]
    BY <2>3 DEF Rising
  <2>5. a[j] \in Nat /\ a[kept + m] \in Nat
    BY <1>4, <2>3
  <2> QED
    BY <2>2, <2>4, <2>5
<1>8. Carried(w \o e, a, kept)
  BY <1>2, <1>5, <1>6, <1>7, CarriedOnwards
<1>9. Carried(w \o t, a, Len(a))
  BY <1>2, <1>3, <1>6, CarriedThrough
<1> QED
  BY <1>8, <1>9 DEF kept, e

LEMMA SendKeeps ==
  ASSUME LinkInv, connected, NEW len \in 1 .. MaxLen, given + len <= MaxBytes, Send(len)
  PROVE  LinkInv'
<1>1. LinkTypeOK /\ SendOrder /\ ReadOrder
  BY DEF LinkInv
<1>2. Rising(accepted) /\ TailIsEnd /\ Carried(wire, accepted, Len(accepted) - Len(tail))
  BY <1>1 DEF SendOrder
<1>3. /\ given \in Nat /\ given <= MaxBytes /\ MaxBytes \in Nat
      /\ tail \in Seq(1 .. given) /\ wire \in Seq(1 .. given) /\ accepted \in Seq(1 .. given)
  BY <1>1, Types
<1>4. Len(tail) \in Nat /\ Len(accepted) \in Nat /\ Len(tail) <= TailMax
  BY <1>1, <1>3, LenProperties DEF LinkTypeOK
<1>4a. 0 <= TailMax
  BY <1>1, Types
<1>5. tail \in Seq(Nat) /\ wire \in Seq(Nat) /\ accepted \in Seq(Nat)
  BY <1>3, InNat
<1>6. len \in Nat /\ given' = given + len /\ given' \in 0 .. MaxBytes
  BY <1>3 DEF Send
<1>7. UNCHANGED <<buffer, inbox, arrived, handed, eof>>
  BY DEF Send, receiving
<1>8. ReadOrder'
  BY <1>1, <1>7 DEF ReadOrder, Pending
<1>9. SUFFICES /\ connected' \in BOOLEAN /\ Len(tail') <= TailMax
               /\ tail' \in Seq(1 .. given') /\ wire' \in Seq(1 .. given')
               /\ accepted' \in Seq(1 .. given')
               /\ SendOrder'
  <2>1. /\ arrived' \in 0 .. MaxBytes /\ eof' \in BOOLEAN
        /\ {buffer', inbox', handed'} \subseteq Seq(1 .. arrived')
    BY <1>1, <1>7 DEF LinkTypeOK
  <2>2. SUFFICES LinkTypeOK'
    BY <1>8, <1>9 DEF LinkInv
  <2> QED
    BY <1>6, <1>9, <2>1 DEF LinkTypeOK
<1> DEFINE s == Numbered(given + 1, given + len)
<1>10. CASE tail = <<>> /\ SendNew(s, wire)
  <2>1. Len(accepted) - Len(tail) = Len(accepted)
    BY <1>4, <1>10
  <2>2. Carried(wire, accepted, Len(accepted))
    BY <1>2, <2>1
  <2> QED
    BY <1>1, <1>2, <1>3, <1>6, <1>10, <2>2, NewSent
<1>11. CASE tail # <<>>
  <2>1. PICK o \in Outcomes(tail) :
          \/ Flushed(o).is = "empty" /\ SendNew(s, wire \o SubSeq(tail, 1, o.n))
          \/ /\ Flushed(o).is # "empty"
             /\ wire' = wire \o SubSeq(tail, 1, o.n)
             /\ tail' = Flushed(o).tail
             /\ connected' = (Flushed(o).is # "closed")
             /\ accepted' = accepted
    BY <1>11 DEF Send
  <2>2. o.n \in 0 .. Len(tail) /\ (o.error = "none" => o.n = Len(tail))
    BY <1>4 DEF Outcomes
  <2>3. SubSeq(tail, 1, o.n) \in Seq(1 .. given)
    BY <1>3, <2>2, PrefixIs
  <2>4. wire \o SubSeq(tail, 1, o.n) \in Seq(1 .. given)
    BY <1>3, <2>3, ConcatProperties
  <2>5. /\ Len(tail) <= Len(accepted)
        /\ \A i \in 1 .. Len(tail) : tail[i] = accepted[Len(accepted) - Len(tail) + i]
    BY <1>2 DEF TailIsEnd
  <2>6. /\ Carried(wire \o SubSeq(tail, 1, o.n), accepted, Len(accepted) - Len(tail))
        /\ Carried(wire \o tail, accepted, Len(accepted))
    BY <1>2, <1>5, <2>2, <2>5, FlushCarries
  <2>7. CASE Flushed(o).is = "empty"
    <3>1. o.error = "none"
      BY <2>7 DEF Flushed
    <3>2. SubSeq(tail, 1, o.n) = tail
      BY <1>3, <2>2, <3>1, SubSeqFull
    <3>3. SendNew(s, wire \o tail) /\ wire \o tail \in Seq(1 .. given)
      BY <2>1, <2>4, <2>7, <3>2
    <3> QED
      BY <1>1, <1>2, <1>3, <1>6, <2>6, <3>3, NewSent
  <2>8. CASE Flushed(o).is # "empty"
    <3>1. /\ wire' = wire \o SubSeq(tail, 1, o.n) /\ tail' = Flushed(o).tail
          /\ connected' = (Flushed(o).is # "closed") /\ accepted' = accepted
      BY <2>1, <2>8
    <3>2. given' \in Nat /\ given <= given'
      BY <1>3, <1>6
    <3>3. wire' \in Seq(1 .. given') /\ accepted' \in Seq(1 .. given')
      BY <1>3, <2>4, <3>1, <3>2, Wider
    <3>4. CASE o.error = "wouldblock"
      <4>1. tail' = tail /\ connected' = TRUE
        BY <3>1, <3>4 DEF Flushed
      <4>2. tail' \in Seq(1 .. given')
        BY <1>3, <3>2, <4>1, Wider
      <4>3. TailIsEnd'
        BY <1>2, <3>1, <4>1 DEF TailIsEnd
      <4>4. Carried(wire', accepted', Len(accepted') - Len(tail')) /\ Rising(accepted')
        BY <1>2, <2>6, <3>1, <4>1
      <4>5. SendOrder'
        BY <4>3, <4>4 DEF SendOrder
      <4>6. Len(tail') <= TailMax
        BY <1>4, <4>1
      <4> QED
        BY <3>3, <4>1, <4>2, <4>5, <4>6
    <3>5. CASE o.error # "wouldblock"
      <4>1. tail' = <<>> /\ connected' = FALSE
        BY <2>8, <3>1, <3>5 DEF Flushed
      <4>2. Len(tail') <= TailMax /\ tail' \in Seq(1 .. given')
        BY <1>4a, <4>1
      <4> QED
        BY <3>3, <4>1, <4>2 DEF SendOrder
    <3> QED
      BY <3>4, <3>5
  <2> QED
    BY <2>7, <2>8
<1> QED
  BY <1>10, <1>11 DEF Send


-----------------------------------------------------------------------------
\* Recv.  A part of what is pending goes to what was handed out.
LEMMA HandOver ==
  ASSUME NEW h \in Seq(Nat), NEW p \in Seq(Nat), NEW f \in Seq(Nat), NEW r \in Seq(Nat),
         Rising(h), Rising(p), Before(h, p), NEW n \in 0 .. Len(p),
         Len(f) = n, \A i \in 1 .. n : f[i] = p[i],
         Len(r) = Len(p) - n, \A i \in 1 .. Len(p) - n : r[i] = p[n + i]
  PROVE  Rising(h \o f) /\ Rising(r) /\ Before(h \o f, r)
<1>1. Len(h) \in Nat /\ Len(p) \in Nat /\ n \in Nat /\ n <= Len(p)
  BY LenProperties
<1>0. \A i \in 1 .. n : i \in 1 .. Len(p)
  BY <1>1
<1>2. Rising(f)
  <2> SUFFICES ASSUME NEW i \in 1 .. n, NEW j \in 1 .. n, i < j PROVE f[i] < f[j]
    BY DEF Rising
  <2>1. p[i] < p[j]
    BY <1>0 DEF Rising
  <2> QED
    BY <2>1
<1>3. Before(h, f)
  <2> SUFFICES ASSUME NEW i \in 1 .. Len(h), NEW j \in 1 .. n PROVE h[i] < f[j]
    BY DEF Before
  <2>1. h[i] < p[j]
    BY <1>0 DEF Before
  <2> QED
    BY <2>1
<1>4. Rising(h \o f)
  BY <1>2, <1>3, RisingOnwards
<1>5. Rising(r)
  <2> SUFFICES ASSUME NEW i \in 1 .. Len(r), NEW j \in 1 .. Len(r), i < j PROVE r[i] < r[j]
    BY DEF Rising
  <2>0. i \in 1 .. Len(p) - n /\ j \in 1 .. Len(p) - n
    OBVIOUS
  <2>1. n + i \in 1 .. Len(p) /\ n + j \in 1 .. Len(p) /\ n + i < n + j
    <3>1. Len(p) - n \in Nat /\ n + (Len(p) - n) = Len(p)
      BY <1>1
    <3> QED
      BY <1>1, <2>0, <3>1, Later
  <2>2. p[n + i] < p[n + j]
    BY <2>1 DEF Rising
  <2> QED
    BY <2>0, <2>2
<1>6. /\ Len(h \o f) = Len(h) + n
      /\ \A i \in 1 .. Len(h) + n : (h \o f)[i] = IF i <= Len(h) THEN h[i] ELSE f[i - Len(h)]
  BY ConcatProperties
<1>7. ASSUME NEW i \in 1 .. Len(h \o f), NEW j \in 1 .. Len(r)
      PROVE  (h \o f)[i] < r[j]
  <2>0. j \in 1 .. Len(p) - n
    OBVIOUS
  <2>1. n + j \in 1 .. Len(p) /\ \A x \in 1 .. n : x < n + j /\ x \in 1 .. Len(p)
    <3>1. Len(p) - n \in Nat /\ n + (Len(p) - n) = Len(p)
      BY <1>1
    <3> QED
      BY <1>1, <2>0, <3>1, Later
  <2>1a. r[j] = p[n + j]
    BY <2>0
  <2>2. CASE i <= Len(h)
    <3>1. i \in 1 .. Len(h) /\ (h \o f)[i] = h[i]
      BY <1>1, <1>6, <2>2
    <3> QED
      BY <2>1, <2>1a, <3>1 DEF Before
  <2>3. CASE i > Len(h)
    <3> DEFINE x == i - Len(h)
    <3>0. i \in 1 .. Len(h) + n /\ ~(i <= Len(h))
      BY <1>1, <1>6, <2>3
    <3>1. x \in 1 .. n /\ i \in 1 .. Len(h) + n /\ ~(i <= Len(h))
      BY <1>1, <3>0
    <3>2. (h \o f)[i] = f[x]
      BY <1>6, <3>1
    <3> HIDE DEF x
    <3>3. f[x] = p[x] /\ p[x] < p[n + j]
      BY <2>1, <3>1 DEF Rising
    <3> QED
      BY <2>1a, <3>2, <3>3
  <2>4. i <= Len(h) \/ i > Len(h)
    BY <1>1, <1>6
  <2> QED
    BY <2>2, <2>3, <2>4
<1> QED
  BY <1>4, <1>5, <1>7 DEF Before

LEMMA PendingIs ==
  ASSUME LinkTypeOK
  PROVE  /\ Pending \in Seq(1 .. arrived) /\ Len(Pending) = Len(buffer) + Len(inbox)
         /\ \A i \in 1 .. Len(Pending) :
              Pending[i] = IF i <= Len(buffer) THEN buffer[i] ELSE inbox[i - Len(buffer)]
<1>1. buffer \in Seq(1 .. arrived) /\ inbox \in Seq(1 .. arrived)
  BY Types
<1> QED
  BY <1>1, ConcatProperties DEF Pending

\* What is left after Chunk bytes is the rest of what was pending.
LEMMA LeftIs ==
  ASSUME LinkTypeOK, Len(Pending) >= Chunk
  PROVE  /\ Leftover.buffer \in Seq(1 .. arrived) /\ Leftover.inbox \in Seq(1 .. arrived)
         /\ Len(Leftover.buffer \o Leftover.inbox) = Len(Pending) - Chunk
         /\ \A i \in 1 .. Len(Pending) - Chunk :
              (Leftover.buffer \o Leftover.inbox)[i] = Pending[Chunk + i]
<1>1. /\ buffer \in Seq(1 .. arrived) /\ inbox \in Seq(1 .. arrived) /\ Chunk \in Nat
  BY Types
<1>2. Len(buffer) \in Nat /\ Len(inbox) \in Nat
  BY <1>1, LenProperties
<1>3. /\ Pending \in Seq(1 .. arrived) /\ Len(Pending) = Len(buffer) + Len(inbox)
      /\ \A i \in 1 .. Len(Pending) :
           Pending[i] = IF i <= Len(buffer) THEN buffer[i] ELSE inbox[i - Len(buffer)]
  BY PendingIs
<1>4. CASE Len(buffer) >= Chunk
  <2> DEFINE rest == SubSeq(buffer, Chunk + 1, Len(buffer))
  <2>1. Leftover = [buffer |-> rest, inbox |-> inbox]
    BY <1>4 DEF Leftover
  <2>2. Chunk \in 0 .. Len(buffer)
    BY <1>1, <1>2, <1>4
  <2>3. /\ rest \in Seq(1 .. arrived) /\ Len(rest) = Len(buffer) - Chunk
        /\ \A i \in 1 .. Len(buffer) - Chunk : rest[i] = buffer[Chunk + i]
    BY <1>1, <2>2, RestIs
  <2> HIDE DEF rest
  <2>4. /\ Len(rest \o inbox) = Len(rest) + Len(inbox)
        /\ \A i \in 1 .. Len(rest) + Len(inbox) :
             (rest \o inbox)[i] = IF i <= Len(rest) THEN rest[i] ELSE inbox[i - Len(rest)]
    BY <1>1, <2>3, ConcatProperties
  <2>5. Len(rest \o inbox) = Len(Pending) - Chunk
    BY <1>1, <1>2, <1>3, <2>3, <2>4
  <2>6. ASSUME NEW i \in 1 .. Len(Pending) - Chunk
        PROVE  (rest \o inbox)[i] = Pending[Chunk + i]
    <3>1. i \in 1 .. Len(rest) + Len(inbox) /\ Chunk + i \in 1 .. Len(Pending)
      BY <1>1, <1>2, <1>3, <2>3
    <3>2. CASE i <= Len(rest)
      <4>1. i \in 1 .. Len(buffer) - Chunk /\ Chunk + i <= Len(buffer)
        BY <1>1, <1>2, <2>3, <3>2
      <4> QED
        BY <1>3, <2>3, <2>4, <3>1, <3>2, <4>1
    <3>3. CASE ~(i <= Len(rest))
      <4>1. ~(Chunk + i <= Len(buffer)) /\ i - Len(rest) = (Chunk + i) - Len(buffer)
        BY <1>1, <1>2, <2>3, <3>3
      <4>2. (rest \o inbox)[i] = inbox[i - Len(rest)]
        BY <2>4, <3>1, <3>3
      <4>3. Pending[Chunk + i] = inbox[(Chunk + i) - Len(buffer)]
        <5> DEFINE y == Chunk + i
        <5>1. y \in 1 .. Len(Pending) /\ ~(y <= Len(buffer))
          BY <3>1, <4>1
        <5> HIDE DEF y
        <5>2. Pending[y] = inbox[y - Len(buffer)]
          BY <1>3, <5>1
        <5> QED
          BY <5>2 DEF y
      <4> QED
        BY <4>1, <4>2, <4>3
    <3> QED
      BY <3>2, <3>3
  <2> QED
    BY <1>1, <2>1, <2>3, <2>5, <2>6
<1>5. CASE ~(Len(buffer) >= Chunk)
  <2> DEFINE rest == SubSeq(Pending, Chunk + 1, Len(Pending))
  <2>1. Leftover = [buffer |-> rest, inbox |-> <<>>]
    BY <1>5 DEF Leftover
  <2>2. Chunk \in 0 .. Len(Pending)
    BY <1>1, <1>2, <1>3
  <2>3. /\ rest \in Seq(1 .. arrived) /\ Len(rest) = Len(Pending) - Chunk
        /\ \A i \in 1 .. Len(Pending) - Chunk : rest[i] = Pending[Chunk + i]
    BY <1>3, <2>2, RestIs
  <2> HIDE DEF rest
  <2>4. rest \o <<>> = rest
    BY <2>3, ConcatEmptySeq
  <2> QED
    BY <2>1, <2>3, <2>4
<1> QED
  BY <1>4, <1>5


LEMMA RecvKeeps == ASSUME LinkInv, connected, Recv PROVE LinkInv'
<1>1. LinkTypeOK /\ SendOrder /\ ReadOrder
  BY DEF LinkInv
<1>2. UNCHANGED <<tail, wire, given, accepted, arrived, eof>>
  BY DEF Recv, sending
<1>3. /\ buffer \in Seq(1 .. arrived) /\ inbox \in Seq(1 .. arrived)
      /\ handed \in Seq(1 .. arrived) /\ Chunk \in Nat
  BY <1>1, Types
<1>4. handed \in Seq(Nat)
  BY <1>3, InNat
<1>5. Rising(handed) /\ Rising(Pending) /\ Before(handed, Pending)
  BY <1>1 DEF ReadOrder
<1>6. SUFFICES /\ connected' \in BOOLEAN
               /\ buffer' \in Seq(1 .. arrived) /\ inbox' \in Seq(1 .. arrived)
               /\ handed' \in Seq(1 .. arrived)
               /\ ReadOrder'
  <2>1. /\ given' \in 0 .. MaxBytes /\ arrived' \in 0 .. MaxBytes /\ eof' \in BOOLEAN
        /\ Len(tail') <= TailMax /\ {tail', wire', accepted'} \subseteq Seq(1 .. given')
    BY <1>1, <1>2 DEF LinkTypeOK
  <2>2. {buffer', inbox', handed'} \subseteq Seq(1 .. arrived')
    BY <1>2, <1>6
  <2>3. LinkTypeOK'
    BY <1>6, <2>1, <2>2 DEF LinkTypeOK
  <2>4. SendOrder'
    BY <1>1, <1>2 DEF SendOrder, TailIsEnd
  <2> QED
    BY <1>6, <2>3, <2>4 DEF LinkInv
<1>7. CASE RecvWhole
  <2> DEFINE f == SubSeq(Pending, 1, Chunk)
             r == Leftover.buffer \o Leftover.inbox
  <2>1. /\ Len(Pending) >= Chunk /\ handed' = handed \o f
        /\ buffer' = Leftover.buffer /\ inbox' = Leftover.inbox /\ connected' = connected
    BY <1>7 DEF RecvWhole
  <2>2. /\ Leftover.buffer \in Seq(1 .. arrived) /\ Leftover.inbox \in Seq(1 .. arrived)
        /\ Len(r) = Len(Pending) - Chunk
        /\ \A i \in 1 .. Len(Pending) - Chunk : r[i] = Pending[Chunk + i]
    BY <1>1, <2>1, LeftIs
  <2>3. Pending \in Seq(1 .. arrived)
    BY <1>1, PendingIs
  <2>4. Chunk \in 0 .. Len(Pending)
    BY <1>3, <2>1, <2>3, LenProperties
  <2>5. /\ f \in Seq(1 .. arrived) /\ Len(f) = Chunk
        /\ \A i \in 1 .. Chunk : f[i] = Pending[i]
    BY <2>3, <2>4, PrefixIs
  <2>6. r \in Seq(1 .. arrived)
    BY <2>2, ConcatProperties
  <2>7. f \in Seq(Nat) /\ r \in Seq(Nat) /\ Pending \in Seq(Nat)
    BY <2>3, <2>5, <2>6, InNat
  <2>8. Pending' = r
    BY <2>1 DEF Pending
  <2> HIDE DEF f, r
  <2>9. Rising(handed \o f) /\ Rising(r) /\ Before(handed \o f, r)
    BY <1>4, <1>5, <2>2, <2>4, <2>5, <2>7, HandOver
  <2>10. handed' \in Seq(1 .. arrived)
    BY <1>3, <2>1, <2>5, ConcatProperties
  <2>11. ReadOrder'
    BY <2>1, <2>8, <2>9 DEF ReadOrder
  <2>12. connected' \in BOOLEAN
    BY <1>1, <2>1 DEF LinkTypeOK
  <2> QED
    BY <2>1, <2>2, <2>10, <2>11, <2>12
<1>8. CASE RecvShort
  <2>1. buffer' = <<>> /\ inbox' = <<>> /\ handed' = handed /\ connected' = ~eof
    BY <1>8 DEF RecvShort
  <2>2. Pending' = <<>>
    BY <2>1 DEF Pending
  <2>3. Len(Pending') = 0
    BY <2>2
  <2>4. Rising(Pending') /\ Before(handed, Pending')
    BY <2>3 DEF Rising, Before
  <2>5. ReadOrder'
    BY <1>5, <2>1, <2>4 DEF ReadOrder
  <2> QED
    BY <1>3, <2>1, <2>5
<1> QED
  BY <1>7, <1>8 DEF Recv

\* A byte that arrives has a higher number than all before it.
LEMMA DeliverKeeps == ASSUME LinkInv, arrived < MaxBytes, Deliver PROVE LinkInv'
<1>1. LinkTypeOK /\ SendOrder /\ ReadOrder
  BY DEF LinkInv
<1>2. UNCHANGED <<connected, tail, wire, given, accepted, buffer, handed, eof>>
  BY DEF Deliver, sending
<1>3. arrived' = arrived + 1 /\ inbox' = Append(inbox, arrived + 1)
  BY DEF Deliver
<1>4. /\ buffer \in Seq(1 .. arrived) /\ inbox \in Seq(1 .. arrived)
      /\ handed \in Seq(1 .. arrived) /\ arrived \in Nat /\ MaxBytes \in Nat
  BY <1>1, Types
<1>5. /\ buffer \in Seq(1 .. arrived + 1) /\ inbox \in Seq(1 .. arrived + 1)
      /\ handed \in Seq(1 .. arrived + 1)
  BY <1>4, Wider
<1>6. /\ inbox' \in Seq(1 .. arrived + 1) /\ Len(inbox') = Len(inbox) + 1
      /\ \A i \in 1 .. Len(inbox) : inbox'[i] = inbox[i]
      /\ inbox'[Len(inbox) + 1] = arrived + 1
  <2>1. arrived + 1 \in 1 .. arrived + 1
    BY <1>4
  <2> QED
    BY <1>3, <1>5, <2>1, AppendProperties
<1>7. LinkTypeOK'
  <2>1. /\ arrived' \in 0 .. MaxBytes
        /\ {buffer', inbox', handed'} \subseteq Seq(1 .. arrived')
    BY <1>2, <1>3, <1>4, <1>5, <1>6
  <2> QED
    BY <1>1, <1>2, <2>1 DEF LinkTypeOK
<1>8. SendOrder'
  BY <1>1, <1>2 DEF SendOrder, TailIsEnd
<1>9. Pending' = buffer \o inbox'
  BY <1>2 DEF Pending
<1>10. Len(buffer) \in Nat /\ Len(inbox) \in Nat
  BY <1>4, LenProperties
<1>11. /\ Pending \in Seq(1 .. arrived) /\ Len(Pending) = Len(buffer) + Len(inbox)
       /\ \A i \in 1 .. Len(Pending) :
            Pending[i] = IF i <= Len(buffer) THEN buffer[i] ELSE inbox[i - Len(buffer)]
  BY <1>1, PendingIs
<1>12. /\ Len(Pending') = Len(Pending) + 1
       /\ \A i \in 1 .. Len(Pending) + 1 :
            Pending'[i] = IF i <= Len(buffer) THEN buffer[i] ELSE inbox'[i - Len(buffer)]
  <2>1. /\ Len(buffer \o inbox') = Len(buffer) + Len(inbox')
        /\ \A i \in 1 .. Len(buffer) + Len(inbox') :
             (buffer \o inbox')[i] = IF i <= Len(buffer) THEN buffer[i] ELSE inbox'[i - Len(buffer)]
    BY <1>5, <1>6, ConcatProperties
  <2>2. Len(buffer) + Len(inbox') = Len(Pending) + 1
    BY <1>6, <1>10, <1>11
  <2> QED
    BY <1>9, <2>1, <2>2
<1>13. ASSUME NEW i \in 1 .. Len(Pending) PROVE Pending'[i] = Pending[i]
  <2>1. i \in 1 .. Len(Pending) + 1
    BY <1>10, <1>11
  <2>2. CASE i <= Len(buffer)
    BY <1>11, <1>12, <2>1, <2>2
  <2>3. CASE ~(i <= Len(buffer))
    <3>1. i - Len(buffer) \in 1 .. Len(inbox)
      BY <1>10, <1>11, <2>3
    <3>2. Pending'[i] = inbox'[i - Len(buffer)] /\ Pending[i] = inbox[i - Len(buffer)]
      BY <1>11, <1>12, <2>1, <2>3
    <3> QED
      BY <1>6, <3>1, <3>2
  <2> QED
    BY <2>2, <2>3
<1>14. Pending'[Len(Pending) + 1] = arrived + 1
  <2>1. /\ Len(Pending) + 1 \in 1 .. Len(Pending) + 1 /\ ~(Len(Pending) + 1 <= Len(buffer))
        /\ Len(Pending) + 1 - Len(buffer) = Len(inbox) + 1
    BY <1>10, <1>11
  <2>2. Pending'[Len(Pending) + 1] = inbox'[Len(Pending) + 1 - Len(buffer)]
    BY <1>12, <2>1
  <2> QED
    BY <1>6, <2>1, <2>2
<1>15. /\ \A i \in 1 .. Len(Pending) : Pending[i] \in 1 .. arrived
       /\ \A i \in 1 .. Len(handed) : handed[i] \in 1 .. arrived
  BY <1>4, <1>11, ElementOfSeq
<1>16. Rising(handed) /\ Rising(Pending) /\ Before(handed, Pending)
  BY <1>1 DEF ReadOrder
<1>17. \A i \in 1 .. Len(Pending) + 1 : i \in 1 .. Len(Pending) \/ i = Len(Pending) + 1
  BY <1>10, <1>11
<1>18. Rising(Pending')
  <2> SUFFICES ASSUME NEW i \in 1 .. Len(Pending) + 1, NEW j \in 1 .. Len(Pending) + 1, i < j
               PROVE  Pending'[i] < Pending'[j]
    BY <1>12 DEF Rising
  <2>1. i \in 1 .. Len(Pending)
    BY <1>10, <1>11
  <2>2. CASE j \in 1 .. Len(Pending)
    <3>1. Pending[i] < Pending[j]
      BY <1>16, <2>1, <2>2 DEF Rising
    <3> QED
      BY <1>13, <2>1, <2>2, <3>1
  <2>3. CASE j = Len(Pending) + 1
    <3>1. Pending'[i] \in 1 .. arrived /\ Pending'[j] = arrived + 1
      BY <1>13, <1>14, <1>15, <2>1, <2>3
    <3> QED
      BY <1>4, <3>1
  <2> QED
    BY <1>17, <2>2, <2>3
<1>19. Before(handed, Pending')
  <2> SUFFICES ASSUME NEW i \in 1 .. Len(handed), NEW j \in 1 .. Len(Pending) + 1
               PROVE  handed[i] < Pending'[j]
    BY <1>12 DEF Before
  <2>1. CASE j \in 1 .. Len(Pending)
    <3>1. handed[i] < Pending[j]
      BY <1>16, <2>1 DEF Before
    <3> QED
      BY <1>13, <2>1, <3>1
  <2>2. CASE j = Len(Pending) + 1
    <3>1. handed[i] \in 1 .. arrived /\ Pending'[j] = arrived + 1
      BY <1>14, <1>15, <2>2
    <3> QED
      BY <1>4, <3>1
  <2> QED
    BY <1>17, <2>1, <2>2
<1>20. ReadOrder'
  BY <1>2, <1>16, <1>18, <1>19 DEF ReadOrder
<1> QED
  BY <1>7, <1>8, <1>20 DEF LinkInv


-----------------------------------------------------------------------------
LEMMA LinkInitInv == LinkInit => LinkInv
<1> SUFFICES ASSUME LinkInit PROVE LinkInv
  OBVIOUS
<1>1. /\ connected = FALSE /\ eof = FALSE
      /\ tail = <<>> /\ wire = <<>> /\ given = 0 /\ accepted = <<>>
      /\ buffer = <<>> /\ inbox = <<>> /\ arrived = 0 /\ handed = <<>>
  BY DEF LinkInit
<1>2. MaxBytes \in Nat /\ TailMax \in Nat
  BY LinkAssumption
<1>3. <<>> \in Seq(1 .. 0) /\ Len(<<>>) = 0
  OBVIOUS
<1>4. LinkTypeOK
  <2>1. given \in 0 .. MaxBytes /\ arrived \in 0 .. MaxBytes /\ Len(tail) <= TailMax
    BY <1>1, <1>2, <1>3
  <2>2. /\ {tail, wire, accepted} \subseteq Seq(1 .. given)
        /\ {buffer, inbox, handed} \subseteq Seq(1 .. arrived)
    BY <1>1, <1>3
  <2> QED
    BY <1>1, <2>1, <2>2 DEF LinkTypeOK
<1>5. Pending = <<>>
  BY <1>1 DEF Pending
<1>6. ReadOrder
  BY <1>1, <1>3, <1>5 DEF ReadOrder, Rising, Before
<1> QED
  BY <1>1, <1>4, <1>6 DEF LinkInv, SendOrder

\* A connection that was just made is as empty as at the start.
LEMMA ConnectKeeps == ASSUME Connect PROVE LinkInv'
<1>1. /\ connected' = TRUE /\ eof' = FALSE
      /\ tail' = <<>> /\ wire' = <<>> /\ given' = 0 /\ accepted' = <<>>
      /\ buffer' = <<>> /\ inbox' = <<>> /\ arrived' = 0 /\ handed' = <<>>
  BY DEF Connect
<1>2. MaxBytes \in Nat /\ TailMax \in Nat
  BY LinkAssumption
<1>3. <<>> \in Seq(1 .. 0) /\ Len(<<>>) = 0
  OBVIOUS
<1>4. LinkTypeOK'
  <2>1. given' \in 0 .. MaxBytes /\ arrived' \in 0 .. MaxBytes /\ Len(tail') <= TailMax
    BY <1>1, <1>2, <1>3
  <2>2. /\ {tail', wire', accepted'} \subseteq Seq(1 .. given')
        /\ {buffer', inbox', handed'} \subseteq Seq(1 .. arrived')
    BY <1>1, <1>3
  <2> QED
    BY <1>1, <2>1, <2>2 DEF LinkTypeOK
<1>5. Pending' = <<>>
  BY <1>1 DEF Pending
<1>6. ReadOrder'
  BY <1>1, <1>3, <1>5 DEF ReadOrder, Rising, Before
<1>7. /\ Rising(accepted') /\ TailIsEnd'
      /\ Carried(wire', accepted', Len(accepted') - Len(tail'))
  BY <1>1, <1>3 DEF Rising, TailIsEnd, Carried
<1> QED
  BY <1>4, <1>6, <1>7 DEF LinkInv, SendOrder

LEMMA LinkStepInv == LinkInv /\ [LinkNext]_linkVars => LinkInv'
<1> SUFFICES ASSUME LinkInv, [LinkNext]_linkVars PROVE LinkInv'
  OBVIOUS
<1>1. CASE Connect
  BY <1>1, ConnectKeeps
<1>2. CASE connected /\ Close
  <2>1. /\ connected' = FALSE /\ tail' = <<>>
        /\ UNCHANGED <<wire, given, accepted, buffer, inbox, arrived, handed, eof>>
    BY <1>2 DEF Close, receiving
  <2>2. LinkTypeOK /\ TailMax \in Nat
    BY LinkAssumption DEF LinkInv
  <2>3. LinkTypeOK'
    <3>1. Len(tail') <= TailMax /\ tail' \in Seq(1 .. given')
      BY <2>1, <2>2
    <3>2. /\ given' \in 0 .. MaxBytes /\ arrived' \in 0 .. MaxBytes
          /\ wire' \in Seq(1 .. given') /\ accepted' \in Seq(1 .. given')
          /\ {buffer', inbox', handed'} \subseteq Seq(1 .. arrived') /\ eof' \in BOOLEAN
      BY <2>1, <2>2 DEF LinkTypeOK
    <3> QED
      BY <2>1, <3>1, <3>2 DEF LinkTypeOK
  <2>4. ReadOrder'
    BY <2>1 DEF LinkInv, ReadOrder, Pending
  <2> QED
    BY <2>1, <2>3, <2>4 DEF LinkInv, SendOrder
<1>3. CASE connected /\ Recv
  BY <1>3, RecvKeeps
<1>4. CASE connected /\ PeerEnds
  <2>1. eof' = TRUE /\ UNCHANGED <<connected, tail, wire, given, accepted, buffer, inbox,
                                   arrived, handed>>
    BY <1>4 DEF PeerEnds, sending, receiving
  <2> QED
    BY <2>1 DEF LinkInv, LinkTypeOK, SendOrder, TailIsEnd, ReadOrder, Pending
<1>5. CASE arrived < MaxBytes /\ Deliver
  BY <1>5, DeliverKeeps
<1>6. CASE connected /\ \E len \in 1 .. MaxLen : given + len <= MaxBytes /\ Send(len)
  BY <1>6, SendKeeps
<1>7. CASE UNCHANGED linkVars
  BY <1>7 DEF linkVars, sending, receiving, LinkInv, LinkTypeOK, SendOrder, TailIsEnd,
              ReadOrder, Pending
<1> QED
  BY <1>1, <1>2, <1>3, <1>4, <1>5, <1>6, <1>7 DEF LinkNext

LEMMA LinkInvariant == LinkSpec => []LinkInv
  BY LinkInitInv, LinkStepInv, PTL DEF LinkSpec

(* The link's state has its types, and its tail never grows beyond the cap *)
(* (NM_SynapseLink.pas 194-213).                                           *)
THEOREM LinkTypeCorrect == LinkSpec => []LinkTypeOK
<1>1. LinkInv => LinkTypeOK
  BY DEF LinkInv
<1> QED
  BY LinkInvariant, <1>1, PTL

(* Whatever mixture of refusals the socket answers with, and however long  *)
(* the buffers are, the bytes Send reported as sent are on the wire or in  *)
(* the tail in the order in which they were accepted.                      *)
THEOREM NothingIsSkipped == LinkSpec => []NothingSkipped
<1>1. LinkInv => NothingSkipped
  <2> SUFFICES ASSUME LinkInv, connected PROVE Carries(wire \o tail, accepted)
    BY DEF NothingSkipped
  <2>1. LinkTypeOK /\ Rising(accepted) /\ TailIsEnd
        /\ Carried(wire, accepted, Len(accepted) - Len(tail))
    BY DEF LinkInv, SendOrder
  <2>2. tail \in Seq(Nat) /\ wire \in Seq(Nat) /\ accepted \in Seq(Nat)
    BY <2>1, Types, InNat
  <2>3. 0 \in 0 .. Len(tail)
    BY <2>2, LenProperties
  <2>4. Carried(wire \o tail, accepted, Len(accepted))
    BY <2>1, <2>2, <2>3, FlushCarries DEF TailIsEnd
  <2> QED
    BY <2>4 DEF Carried, Carries
<1> QED
  BY LinkInvariant, <1>1, PTL

(* Successive Recv calls return the peer's bytes in order and at most      *)
(* once, for any packets and any length asked for.                         *)
THEOREM ReadAtMostOnce == LinkSpec => []HandedOnce
<1>1. LinkInv => HandedOnce
  <2> SUFFICES ASSUME LinkInv PROVE Carries(Numbered(1, arrived), handed)
    BY DEF HandedOnce
  <2>1. LinkTypeOK /\ Rising(handed)
    BY DEF LinkInv, ReadOrder
  <2>2. handed \in Seq(1 .. arrived) /\ arrived \in Nat
    BY <2>1, Types
  <2>3. Len(Numbered(1, arrived)) = arrived /\ \A i \in 1 .. arrived : Numbered(1, arrived)[i] = i
    <3>1. arrived - 1 + 1 = arrived /\ \A i \in 1 .. arrived : 1 + i - 1 = i
      BY <2>2
    <3>2. Numbered(1, arrived) = [i \in 1 .. arrived |-> i]
      BY <3>1 DEF Numbered
    <3> QED
      BY <2>2, <3>2
  <2>4. \A i \in 1 .. Len(handed) : handed[i] \in 1 .. arrived
    BY <2>2, ElementOfSeq
  <2>5. ASSUME NEW i \in 1 .. Len(handed)
        PROVE  \E k \in 1 .. arrived :
                 /\ Numbered(1, arrived)[k] = handed[i]
                 /\ \A j \in 1 .. i - 1, m \in k .. arrived : Numbered(1, arrived)[m] # handed[j]
    <3>1. handed[i] \in 1 .. arrived /\ Numbered(1, arrived)[handed[i]] = handed[i]
      BY <2>3, <2>4
    <3>2. ASSUME NEW j \in 1 .. i - 1, NEW m \in handed[i] .. arrived
          PROVE  Numbered(1, arrived)[m] # handed[j]
      <4>1. j \in 1 .. Len(handed) /\ j < i
        BY <2>2, LenProperties
      <4>2. handed[j] < handed[i] /\ handed[j] \in 1 .. arrived
        BY <2>1, <2>4, <4>1 DEF Rising
      <4>3. m \in 1 .. arrived /\ handed[i] <= m
        BY <2>2, <3>1
      <4>4. Numbered(1, arrived)[m] = m
        BY <2>3, <4>3
      <4> QED
        BY <3>1, <4>2, <4>3, <4>4
    <3> QED
      BY <3>1, <3>2
  <2> QED
    BY <2>3, <2>5 DEF Carries
<1> QED
  BY LinkInvariant, <1>1, PTL
=============================================================================
