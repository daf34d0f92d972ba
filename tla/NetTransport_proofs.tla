------------------------ MODULE NetTransport_proofs ------------------------
(* Proofs of the safety invariants of NetTransport, for rings and buffers  *)
(* of any size, any byte values and any stream of the peer, cut anywhere.  *)
(*                                                                         *)
(* Encoded, Parsed, Starts and InOrder are recursive functions.  What they *)
(* yield is proved by an induction stated with sets: a set of naturals     *)
(* that has 0 and the successor of each of its members is all of them.     *)
EXTENDS NetTransport, SequenceTheorems, WellFoundedInduction, TLAPS

-----------------------------------------------------------------------------
(* Induction over the natural numbers, as every set of them has a least.   *)
LessThan == {p \in Nat \X Nat : p[1] < p[2]}

LEMMA LeastOf ==
  ASSUME NEW T, T \subseteq Nat, T # {}
  PROVE  \E x \in T : \A y \in T : x <= y
<1>1. IsWellFoundedOn(LessThan, Nat)
  BY NatLessThanWellFounded DEF OpToRel, LessThan
<1>2. PICK x \in T : \A y \in T : ~(<<y, x>> \in LessThan)
  BY <1>1, WFMin
<1>3. \A y \in T : ~(y < x)
  BY <1>2 DEF LessThan
<1>. QED
  BY <1>3

LEMMA Climb ==
  ASSUME NEW S, 0 \in S, \A n \in Nat : n \in S => n + 1 \in S
  PROVE  Nat \subseteq S
<1>. SUFFICES ASSUME Nat \ S # {} PROVE FALSE
  OBVIOUS
<1>1. PICK x \in Nat \ S : \A y \in Nat \ S : x <= y
  BY LeastOf
<1>2. x # 0 /\ x - 1 \in Nat
  OBVIOUS
<1>3. x - 1 \in S
  BY <1>1, <1>2
<1>. QED
  BY <1>2, <1>3

(* Induction over sequences. *)
LEMMA Grow ==
  ASSUME NEW S, NEW Q, <<>> \in Q,
         \A s \in Seq(S), e \in S : s \in Q => Append(s, e) \in Q
  PROVE  Seq(S) \subseteq Q
<1>. DEFINE N == {n \in Nat : \A s \in Seq(S) : Len(s) = n => s \in Q}
<1>1. 0 \in N
  <2>1. \A s \in Seq(S) : Len(s) = 0 => s = <<>>
    BY EmptySeq, LenProperties
  <2>. QED
    BY <2>1
<1>2. ASSUME NEW n \in Nat, n \in N PROVE n + 1 \in N
  <2>1. SUFFICES ASSUME NEW s \in Seq(S), Len(s) = n + 1 PROVE s \in Q
    OBVIOUS
  <2>2. s # <<>>
    BY <2>1, EmptySeq
  <2>3. PICK t \in Seq(S), e \in S : s = Append(t, e)
    BY <2>2, SequenceEmptyOrAppend
  <2>4. Len(s) = Len(t) + 1 /\ Len(t) \in Nat
    BY <2>3, AppendProperties, LenProperties
  <2>5. Len(t) = n
    BY <2>1, <2>4
  <2>6. t \in Q
    BY <1>2, <2>5
  <2>. QED
    BY <2>3, <2>6
<1>. HIDE DEF N
<1>3. Nat \subseteq N
  BY <1>1, <1>2, Climb
<1>4. \A s \in Seq(S) : Len(s) \in Nat
  BY LenProperties
<1>. QED
  BY <1>3, <1>4 DEF N

(* Two functions that go on alike from equal beginnings are equal.         *)
GoOnAlike(f, g, n) ==
  f[0] = g[0] /\ \A k \in 1 .. n : f[k - 1] = g[k - 1] => f[k] = g[k]
Alike(f, g, n) == \A k \in 0 .. n : f[k] = g[k]

LEMMA StayAlike ==
  ASSUME NEW n \in Nat, NEW f, NEW g, GoOnAlike(f, g, n)
  PROVE  Alike(f, g, n)
<1>. DEFINE N == {k \in Nat : k <= n => f[k] = g[k]}
<1>1. 0 \in N
  BY DEF GoOnAlike
<1>2. ASSUME NEW k \in Nat, k \in N PROVE k + 1 \in N
  <2>1. SUFFICES ASSUME k + 1 <= n PROVE f[k + 1] = g[k + 1]
    OBVIOUS
  <2>2. f[k] = g[k] /\ k + 1 \in 1 .. n /\ (k + 1) - 1 = k
    BY <1>2, <2>1
  <2>3. f[(k + 1) - 1] = g[(k + 1) - 1] => f[k + 1] = g[k + 1]
    BY <2>2 DEF GoOnAlike
  <2>. QED
    BY <2>2, <2>3
<1>. HIDE DEF N
<1>3. Nat \subseteq N
  BY <1>1, <1>2, Climb
<1>. QED
  BY <1>3 DEF N, Alike

(* A recursion over the numbers up to n defines a function: step k takes   *)
(* the value before it to the next.                                        *)
StepChain(f, base, step, n) == f[0] = base /\ \A k \in 1 .. n : f[k] = step[k][f[k - 1]]

LEMMA RecursionDefines ==
  ASSUME NEW V, NEW base \in V, NEW n \in Nat, NEW step \in [1 .. n -> [V -> V]]
  PROVE  \E f \in [0 .. n -> V] : StepChain(f, base, step, n)
<1>. DEFINE N == {m \in Nat : m <= n => \E f \in [0 .. n -> V] : StepChain(f, base, step, m)}
<1>1. 0 \in N
  <2>1. [k \in 0 .. n |-> base] \in [0 .. n -> V] /\ StepChain([k \in 0 .. n |-> base], base, step, 0)
    BY DEF StepChain
  <2>. QED
    BY <2>1
<1>2. ASSUME NEW m \in Nat, m \in N PROVE m + 1 \in N
  <2>1. SUFFICES ASSUME m + 1 <= n
        PROVE \E f \in [0 .. n -> V] : StepChain(f, base, step, m + 1)
    OBVIOUS
  <2>2. PICK f \in [0 .. n -> V] : StepChain(f, base, step, m)
    BY <1>2, <2>1
  <2>. DEFINE g == [f EXCEPT ![m + 1] = step[m + 1][f[m]]]
  <2>3. m \in 0 .. n /\ m + 1 \in 1 .. n /\ step[m + 1][f[m]] \in V
    BY <2>1
  <2>4. g \in [0 .. n -> V] /\ g[0] = base
    BY <2>2, <2>3 DEF StepChain
  <2>5. ASSUME NEW k \in 1 .. m + 1 PROVE g[k] = step[k][g[k - 1]]
    <3>1. CASE k = m + 1
      <4>1. g[k] = step[k][f[k - 1]] /\ g[k - 1] = f[k - 1]
        BY <2>3, <3>1
      <4>. QED
        BY <4>1
    <3>2. CASE k # m + 1
      <4>1. k \in 1 .. m /\ k \in 0 .. n /\ k - 1 \in 0 .. n
        BY <2>1, <3>2
      <4>2. g[k] = f[k] /\ g[k - 1] = f[k - 1]
        BY <4>1, <2>3, <3>2
      <4>3. f[k] = step[k][f[k - 1]]
        BY <2>2, <4>1 DEF StepChain
      <4>. QED
        BY <4>2, <4>3
    <3>. QED
      BY <3>1, <3>2
  <2>. QED
    BY <2>4, <2>5 DEF StepChain
<1>. HIDE DEF N
<1>3. n \in N
  BY <1>1, <1>2, Climb
<1>. QED
  BY <1>3 DEF N

(* A longer recursion goes on from a shorter one of the same steps.        *)
SameSteps(d, e, n) == \A k \in 1 .. n : d[k] = e[k]

LEMMA RecursionGoesOn ==
  ASSUME NEW n \in Nat, NEW f, NEW g, NEW base, NEW d, NEW e,
         StepChain(f, base, d, n), StepChain(g, base, e, n + 1), SameSteps(d, e, n)
  PROVE  g[n + 1] = e[n + 1][f[n]]
<1>1. GoOnAlike(f, g, n)
  <2>1. ASSUME NEW k \in 1 .. n, f[k - 1] = g[k - 1] PROVE f[k] = g[k]
    <3>1. k \in 1 .. n + 1
      OBVIOUS
    <3>2. f[k] = d[k][f[k - 1]]
      BY Zenon DEF StepChain
    <3>3. g[k] = e[k][g[k - 1]]
      BY <3>1, Zenon DEF StepChain
    <3>. QED
      BY <2>1, <3>2, <3>3, Zenon DEF SameSteps
  <2>. QED
    BY <2>1 DEF GoOnAlike, StepChain
<1>2. Alike(f, g, n)
  BY <1>1, StayAlike
<1>3. n + 1 \in 1 .. n + 1 /\ (n + 1) - 1 = n /\ n \in 0 .. n
  OBVIOUS
<1>4. g[n + 1] = e[n + 1][g[(n + 1) - 1]]
  BY <1>3, Zenon DEF StepChain
<1>. QED
  BY <1>2, <1>3, <1>4 DEF Alike

-----------------------------------------------------------------------------
(* The recursive operators, one value after the other.  For each: the      *)
(* function it is defined by exists (RecursionDefines), the one the        *)
(* operator takes is no other (StayAlike), and a sequence with one more    *)
(* byte goes on from it (RecursionGoesOn).                                 *)

EncodeSteps(S, s, n) == [k \in 1 .. n |-> [v \in Seq(S) |-> v \o Encode(s[k])]]
EncodeChosen(e, s, n) ==
  CHOOSE g : g = [k \in 0 .. n |-> IF k = 0 THEN e ELSE g[k - 1] \o Encode(s[k])]

(* The function the operator chooses is the one that follows the steps.    *)
LEMMA EncodeChosenIs ==
  ASSUME NEW n \in Nat, NEW S, NEW f \in [0 .. n -> Seq(S)], NEW e, NEW s,
         StepChain(f, e, EncodeSteps(S, s, n), n)
  PROVE  EncodeChosen(e, s, n)[n] = f[n]
<1>1. f[0] = e
  BY DEF StepChain
<1>2. ASSUME NEW k \in 1 .. n PROVE f[k] = f[k - 1] \o Encode(s[k])
  <2>1. f[k] = EncodeSteps(S, s, n)[k][f[k - 1]]
    BY Zenon DEF StepChain
  <2>2. f[k - 1] \in Seq(S)
    OBVIOUS
  <2>. QED
    BY <2>1, <2>2 DEF EncodeSteps
<1>3. f = [k \in 0 .. n |-> IF k = 0 THEN e ELSE f[k - 1] \o Encode(s[k])]
  <2>1. ASSUME NEW k \in 0 .. n
        PROVE f[k] = IF k = 0 THEN e ELSE f[k - 1] \o Encode(s[k])
    <3>1. k # 0 => k \in 1 .. n
      OBVIOUS
    <3>. QED
      BY <1>1, <1>2, <3>1
  <2>2. f = [k \in 0 .. n |-> f[k]]
    OBVIOUS
  <2>. QED
    BY <2>1, <2>2
<1>. DEFINE c == EncodeChosen(e, s, n)
<1>4. c = [k \in 0 .. n |-> IF k = 0 THEN e ELSE c[k - 1] \o Encode(s[k])]
  BY <1>3, Zenon DEF EncodeChosen
<1>. HIDE DEF c
<1>5. ASSUME NEW k \in 1 .. n, c[k - 1] = f[k - 1] PROVE c[k] = f[k]
  <2>1. k \in 0 .. n /\ k # 0
    OBVIOUS
  <2>2. c[k] = c[k - 1] \o Encode(s[k])
    BY <1>4, <2>1
  <2>. QED
    BY <1>2, <1>5, <2>2, Zenon
<1>6. c[0] = f[0]
  BY <1>1, <1>4
<1>7. Alike(c, f, n)
  <2>1. GoOnAlike(c, f, n)
    BY <1>5, <1>6 DEF GoOnAlike
  <2>. QED
    BY <2>1, StayAlike
<1>. QED
  BY <1>7 DEF Alike, c

(* Encoded is the last value of a function on the prefixes.                *)
LEMMA EncodedBy ==
  ASSUME NEW S, NEW s \in Seq(S)
  PROVE  \E f \in [0 .. Len(s) -> Seq(S)] :
            StepChain(f, <<>>, EncodeSteps(S, s, Len(s)), Len(s)) /\ Encoded(s) = f[Len(s)]
<1>. DEFINE n == Len(s)
            step == EncodeSteps(S, s, n)
<1>1. n \in Nat /\ \A k \in 1 .. n : s[k] \in S
  BY LenProperties, ElementOfSeq
<1>2. ASSUME NEW k \in 1 .. n, NEW v \in Seq(S) PROVE v \o Encode(s[k]) \in Seq(S)
  <2>1. Encode(s[k]) \in Seq(S)
    BY <1>1 DEF Encode
  <2>. QED
    BY <2>1, ConcatProperties
<1>3. step \in [1 .. n -> [Seq(S) -> Seq(S)]]
  BY <1>2 DEF EncodeSteps
<1>4. PICK f \in [0 .. n -> Seq(S)] : StepChain(f, <<>>, step, n)
  <2>1. <<>> \in Seq(S)
    OBVIOUS
  <2>. HIDE DEF n, step
  <2>. QED
    BY <1>1, <1>3, <2>1, RecursionDefines
<1>5. Encoded(s) = EncodeChosen(<<>>, s, n)[n]
  BY DEF Encoded, EncodeChosen
<1>6. EncodeChosen(<<>>, s, n)[n] = f[n]
  BY <1>1, <1>4, EncodeChosenIs
<1>. QED
  BY <1>4, <1>5, <1>6

(* A further byte adds what it is encoded as.                              *)
LEMMA EncodedNext ==
  ASSUME NEW S, NEW s \in Seq(S), NEW b \in S
  PROVE  /\ Encoded(<<>>) = <<>>
         /\ Encoded(s) \in Seq(S)
         /\ Encoded(Append(s, b)) = Encoded(s) \o Encode(b)
<1>1. Encoded(<<>>) = <<>>
  <2>1. PICK f : StepChain(f, <<>>, EncodeSteps(S, <<>>, Len(<<>>)), Len(<<>>))
                 /\ Encoded(<<>>) = f[Len(<<>>)]
    BY EncodedBy, EmptySeq
  <2>. QED
    BY <2>1 DEF StepChain
<1>. DEFINE t == Append(s, b)
            n == Len(s)
<1>2. /\ t \in Seq(S) /\ Len(t) = n + 1 /\ n \in Nat /\ t[n + 1] = b
      /\ \A k \in 1 .. n : s[k] = t[k]
  BY AppendProperties, LenProperties
<1>3. PICK f \in [0 .. n -> Seq(S)] : StepChain(f, <<>>, EncodeSteps(S, s, n), n) /\ Encoded(s) = f[n]
  BY EncodedBy
<1>4. PICK g : StepChain(g, <<>>, EncodeSteps(S, t, Len(t)), Len(t)) /\ Encoded(t) = g[Len(t)]
  BY <1>2, EncodedBy
<1>. HIDE DEF t, n
<1>5. StepChain(g, <<>>, EncodeSteps(S, t, n + 1), n + 1) /\ StepChain(f, <<>>, EncodeSteps(S, s, n), n)
  BY <1>2, <1>3, <1>4
<1>6. SameSteps(EncodeSteps(S, s, n), EncodeSteps(S, t, n + 1), n)
  <2>1. ASSUME NEW k \in 1 .. n PROVE EncodeSteps(S, s, n)[k] = EncodeSteps(S, t, n + 1)[k]
    <3>1. s[k] = t[k] /\ k \in 1 .. n + 1
      BY <1>2
    <3>. QED
      BY <3>1 DEF EncodeSteps
  <2>. QED
    BY <2>1 DEF SameSteps
<1>7. g[n + 1] = EncodeSteps(S, t, n + 1)[n + 1][f[n]]
  BY <1>2, <1>5, <1>6, RecursionGoesOn
<1>8. f[n] \in Seq(S) /\ n + 1 \in 1 .. n + 1
  BY <1>2
<1>9. g[n + 1] = f[n] \o Encode(b)
  BY <1>2, <1>7, <1>8 DEF EncodeSteps
<1>. QED
  BY <1>1, <1>2, <1>3, <1>4, <1>8, <1>9 DEF t

(* The parser: the record that Parse goes on with, byte by byte.           *)
WireByte == Byte \cup Verb \cup Known \cup {"IAC", "CMD"}
Parser == [state : State, rx : Seq(Byte), lost : BOOLEAN, out : Seq(WireByte)]

(* A reply has bytes that may be on the wire only.                         *)
LEMMA ReplyType ==
  ASSUME NEW st \in State, NEW b \in Byte
  PROVE  Reply(st, b) \in Seq(WireByte)
<1>1. Answer(st, b) \in WireByte
  BY DEF Answer, WireByte, Verb
<1>2. b \in WireByte /\ "IAC" \in WireByte
  BY DEF WireByte
<1>3. <<"IAC", Answer(st, b), b>> \in Seq(WireByte) /\ <<>> \in Seq(WireByte)
  BY <1>1, <1>2
<1>. QED
  BY <1>3 DEF Reply

(* One byte leaves a parser a parser.                                      *)
LEMMA ParseByteType ==
  ASSUME NEW p \in Parser, NEW b \in Byte
  PROVE  ParseByte(p, b) \in Parser
<1>1. /\ p.state \in State /\ p.rx \in Seq(Byte) /\ p.lost \in BOOLEAN
      /\ p.out \in Seq(WireByte)
  BY DEF Parser
<1>2. NextState(p.state, b) \in State
  BY DEF NextState, State, Verb
<1>3. Put(p.rx, b) \in Seq(Byte)
  BY <1>1, AppendProperties DEF Put
<1>4. p.out \o Reply(p.state, b) \in Seq(WireByte)
  BY <1>1, ReplyType, ConcatProperties
<1>5. (p.lost \/ (IsData(p.state, b) /\ ~HasRoom(p.rx))) \in BOOLEAN
  BY <1>1
<1>. QED
  BY <1>1, <1>2, <1>3, <1>4, <1>5 DEF ParseByte, Parser

ParseSteps(s, n) == [k \in 1 .. n |-> [v \in Parser |-> ParseByte(v, s[k])]]
ParseChosen(e, s, n) ==
  CHOOSE g : g = [k \in 0 .. n |-> IF k = 0 THEN e ELSE ParseByte(g[k - 1], s[k])]

(* The function the operator chooses is the one that follows the steps.    *)
LEMMA ParseChosenIs ==
  ASSUME NEW n \in Nat, NEW f \in [0 .. n -> Parser], NEW e, NEW s,
         StepChain(f, e, ParseSteps(s, n), n)
  PROVE  ParseChosen(e, s, n)[n] = f[n]
<1>1. f[0] = e
  BY DEF StepChain
<1>2. ASSUME NEW k \in 1 .. n PROVE f[k] = ParseByte(f[k - 1], s[k])
  <2>1. f[k] = ParseSteps(s, n)[k][f[k - 1]]
    BY Zenon DEF StepChain
  <2>2. f[k - 1] \in Parser
    OBVIOUS
  <2>. QED
    BY <2>1, <2>2 DEF ParseSteps
<1>3. f = [k \in 0 .. n |-> IF k = 0 THEN e ELSE ParseByte(f[k - 1], s[k])]
  <2>1. ASSUME NEW k \in 0 .. n
        PROVE f[k] = IF k = 0 THEN e ELSE ParseByte(f[k - 1], s[k])
    <3>1. k # 0 => k \in 1 .. n
      OBVIOUS
    <3>. QED
      BY <1>1, <1>2, <3>1
  <2>2. f = [k \in 0 .. n |-> f[k]]
    OBVIOUS
  <2>. QED
    BY <2>1, <2>2
<1>. DEFINE c == ParseChosen(e, s, n)
<1>4. c = [k \in 0 .. n |-> IF k = 0 THEN e ELSE ParseByte(c[k - 1], s[k])]
  BY <1>3, Zenon DEF ParseChosen
<1>. HIDE DEF c
<1>5. ASSUME NEW k \in 1 .. n, c[k - 1] = f[k - 1] PROVE c[k] = f[k]
  <2>1. k \in 0 .. n /\ k # 0
    OBVIOUS
  <2>2. c[k] = ParseByte(c[k - 1], s[k])
    BY <1>4, <2>1
  <2>. QED
    BY <1>2, <1>5, <2>2, Zenon
<1>6. c[0] = f[0]
  BY <1>1, <1>4
<1>7. Alike(c, f, n)
  <2>1. GoOnAlike(c, f, n)
    BY <1>5, <1>6 DEF GoOnAlike
  <2>. QED
    BY <2>1, StayAlike
<1>. QED
  BY <1>7 DEF Alike, c

(* Parsed is the last value of a function on the prefixes.                 *)
LEMMA ParsedBy ==
  ASSUME NEW p \in Parser, NEW s \in Seq(Byte)
  PROVE  \E f \in [0 .. Len(s) -> Parser] :
            StepChain(f, p, ParseSteps(s, Len(s)), Len(s)) /\ Parsed(p, s) = f[Len(s)]
<1>. DEFINE n == Len(s)
            step == ParseSteps(s, n)
<1>1. n \in Nat /\ \A k \in 1 .. n : s[k] \in Byte
  BY LenProperties, ElementOfSeq
<1>2. step \in [1 .. n -> [Parser -> Parser]]
  BY <1>1, ParseByteType DEF ParseSteps
<1>3. PICK f \in [0 .. n -> Parser] : StepChain(f, p, step, n)
  <2>. HIDE DEF n, step
  <2>. QED
    BY <1>1, <1>2, RecursionDefines
<1>4. Parsed(p, s) = ParseChosen(p, s, n)[n]
  BY DEF Parsed, ParseChosen
<1>5. ParseChosen(p, s, n)[n] = f[n]
  BY <1>1, <1>3, ParseChosenIs
<1>. QED
  BY <1>3, <1>4, <1>5

(* A longer chunk is parsed by going on with one byte.                     *)
LEMMA ParsedNext ==
  ASSUME NEW p \in Parser, NEW s \in Seq(Byte), NEW b \in Byte
  PROVE  /\ Parsed(p, <<>>) = p
         /\ Parsed(p, s) \in Parser
         /\ Parsed(p, Append(s, b)) = ParseByte(Parsed(p, s), b)
<1>1. Parsed(p, <<>>) = p
  <2>1. PICK f : StepChain(f, p, ParseSteps(<<>>, Len(<<>>)), Len(<<>>))
                 /\ Parsed(p, <<>>) = f[Len(<<>>)]
    BY ParsedBy, EmptySeq
  <2>. QED
    BY <2>1 DEF StepChain
<1>. DEFINE t == Append(s, b)
            n == Len(s)
<1>2. /\ t \in Seq(Byte) /\ Len(t) = n + 1 /\ n \in Nat /\ t[n + 1] = b
      /\ \A k \in 1 .. n : s[k] = t[k]
  BY AppendProperties, LenProperties
<1>3. PICK f \in [0 .. n -> Parser] : StepChain(f, p, ParseSteps(s, n), n) /\ Parsed(p, s) = f[n]
  BY ParsedBy
<1>4. PICK g : StepChain(g, p, ParseSteps(t, Len(t)), Len(t)) /\ Parsed(p, t) = g[Len(t)]
  BY <1>2, ParsedBy
<1>. HIDE DEF t, n
<1>5. StepChain(g, p, ParseSteps(t, n + 1), n + 1) /\ StepChain(f, p, ParseSteps(s, n), n)
  BY <1>2, <1>3, <1>4
<1>6. SameSteps(ParseSteps(s, n), ParseSteps(t, n + 1), n)
  <2>1. ASSUME NEW k \in 1 .. n PROVE ParseSteps(s, n)[k] = ParseSteps(t, n + 1)[k]
    <3>1. s[k] = t[k] /\ k \in 1 .. n + 1
      BY <1>2
    <3>. QED
      BY <3>1 DEF ParseSteps
  <2>. QED
    BY <2>1 DEF SameSteps
<1>7. g[n + 1] = ParseSteps(t, n + 1)[n + 1][f[n]]
  BY <1>2, <1>5, <1>6, RecursionGoesOn
<1>8. f[n] \in Parser /\ n + 1 \in 1 .. n + 1
  BY <1>2
<1>9. g[n + 1] = ParseByte(f[n], b)
  BY <1>2, <1>7, <1>8 DEF ParseSteps
<1>. QED
  BY <1>1, <1>2, <1>3, <1>4, <1>8, <1>9 DEF t

(* The positions in order. *)
OrderSteps(at, n) ==
  [k \in 1 .. n |-> [v \in Seq(Nat) |-> IF k \in at THEN Append(v, k) ELSE v]]
OrderChosen(e, at, n) ==
  CHOOSE g : g = [k \in 0 .. n |->
    IF k = 0 THEN e ELSE IF k \in at THEN Append(g[k - 1], k) ELSE g[k - 1]]

(* The function the operator chooses is the one that follows the steps.    *)
LEMMA OrderChosenIs ==
  ASSUME NEW n \in Nat, NEW f \in [0 .. n -> Seq(Nat)], NEW e, NEW at,
         StepChain(f, e, OrderSteps(at, n), n)
  PROVE  OrderChosen(e, at, n)[n] = f[n]
<1>1. f[0] = e
  BY DEF StepChain
<1>2. ASSUME NEW k \in 1 .. n PROVE f[k] = IF k \in at THEN Append(f[k - 1], k) ELSE f[k - 1]
  <2>1. f[k] = OrderSteps(at, n)[k][f[k - 1]]
    BY Zenon DEF StepChain
  <2>2. f[k - 1] \in Seq(Nat)
    OBVIOUS
  <2>. QED
    BY <2>1, <2>2 DEF OrderSteps
<1>3. f = [k \in 0 .. n |->
             IF k = 0 THEN e ELSE IF k \in at THEN Append(f[k - 1], k) ELSE f[k - 1]]
  <2>1. ASSUME NEW k \in 0 .. n
        PROVE f[k] = IF k = 0 THEN e ELSE IF k \in at THEN Append(f[k - 1], k) ELSE f[k - 1]
    <3>1. k # 0 => k \in 1 .. n
      OBVIOUS
    <3>. QED
      BY <1>1, <1>2, <3>1
  <2>2. f = [k \in 0 .. n |-> f[k]]
    OBVIOUS
  <2>. QED
    BY <2>1, <2>2
<1>. DEFINE c == OrderChosen(e, at, n)
<1>4. c = [k \in 0 .. n |->
             IF k = 0 THEN e ELSE IF k \in at THEN Append(c[k - 1], k) ELSE c[k - 1]]
  BY <1>3, Zenon DEF OrderChosen
<1>. HIDE DEF c
<1>5. ASSUME NEW k \in 1 .. n, c[k - 1] = f[k - 1] PROVE c[k] = f[k]
  <2>1. k \in 0 .. n /\ k # 0
    OBVIOUS
  <2>2. c[k] = IF k \in at THEN Append(c[k - 1], k) ELSE c[k - 1]
    BY <1>4, <2>1
  <2>3. f[k] = IF k \in at THEN Append(f[k - 1], k) ELSE f[k - 1]
    BY <1>2
  <2>4. CASE k \in at
    BY <1>5, <2>2, <2>3, <2>4, Zenon
  <2>5. CASE k \notin at
    BY <1>5, <2>2, <2>3, <2>5, Zenon
  <2>. QED
    BY <2>4, <2>5
<1>6. c[0] = f[0]
  BY <1>1, <1>4
<1>7. Alike(c, f, n)
  <2>1. GoOnAlike(c, f, n)
    BY <1>5, <1>6 DEF GoOnAlike
  <2>. QED
    BY <2>1, StayAlike
<1>. QED
  BY <1>7 DEF Alike, c

OrderedBy(f, at, n) ==
  /\ f \in [0 .. n -> Seq(Nat)]
  /\ StepChain(f, <<>>, OrderSteps(at, n), n) /\ InOrder(n, at) = f[n]

(* InOrder is the last value of a function on the positions.               *)
LEMMA InOrderBy ==
  ASSUME NEW n \in Nat, NEW at
  PROVE  \E f : OrderedBy(f, at, n)
<1>1. OrderSteps(at, n) \in [1 .. n -> [Seq(Nat) -> Seq(Nat)]]
  <2>1. ASSUME NEW k \in 1 .. n, NEW v \in Seq(Nat)
        PROVE (IF k \in at THEN Append(v, k) ELSE v) \in Seq(Nat)
    BY AppendProperties
  <2>. QED
    BY <2>1 DEF OrderSteps
<1>2. PICK f \in [0 .. n -> Seq(Nat)] : StepChain(f, <<>>, OrderSteps(at, n), n)
  <2>1. <<>> \in Seq(Nat)
    OBVIOUS
  <2>. QED
    BY <1>1, <2>1, RecursionDefines
<1>3. InOrder(n, at) = OrderChosen(<<>>, at, n)[n]
  BY DEF InOrder, OrderChosen
<1>4. OrderChosen(<<>>, at, n)[n] = f[n]
  BY <1>2, OrderChosenIs
<1>. QED
  BY <1>2, <1>3, <1>4 DEF OrderedBy

SameUpTo(at, bt, n) == \A k \in 1 .. n : k \in at <=> k \in bt

(* One position more is appended or left out; positions beyond the end do  *)
(* not count.                                                              *)
LEMMA InOrderNext ==
  ASSUME NEW n \in Nat, NEW at, NEW bt, SameUpTo(at, bt, n)
  PROVE  /\ InOrder(0, at) = <<>>
         /\ InOrder(n, at) \in Seq(Nat)
         /\ InOrder(n + 1, bt) = IF n + 1 \in bt THEN Append(InOrder(n, at), n + 1)
                                 ELSE InOrder(n, at)
<1>1. InOrder(0, at) = <<>>
  <2>1. PICK f : OrderedBy(f, at, 0)
    BY InOrderBy
  <2>. QED
    BY <2>1 DEF OrderedBy, StepChain
<1>2. PICK f : OrderedBy(f, at, n)
  BY InOrderBy
<1>3. PICK g : OrderedBy(g, bt, n + 1)
  BY InOrderBy
<1>4. SameSteps(OrderSteps(at, n), OrderSteps(bt, n + 1), n)
  <2>1. ASSUME NEW k \in 1 .. n PROVE OrderSteps(at, n)[k] = OrderSteps(bt, n + 1)[k]
    <3>1. (k \in at <=> k \in bt) /\ k \in 1 .. n + 1
      BY DEF SameUpTo
    <3>. QED
      BY <3>1 DEF OrderSteps
  <2>. QED
    BY <2>1 DEF SameSteps
<1>5. g[n + 1] = OrderSteps(bt, n + 1)[n + 1][f[n]]
  <2>1. StepChain(f, <<>>, OrderSteps(at, n), n) /\ StepChain(g, <<>>, OrderSteps(bt, n + 1), n + 1)
    BY <1>2, <1>3 DEF OrderedBy
  <2>. QED
    BY <1>4, <2>1, RecursionGoesOn
<1>6. f[n] \in Seq(Nat) /\ n + 1 \in 1 .. n + 1
  BY <1>2 DEF OrderedBy
<1>7. g[n + 1] = IF n + 1 \in bt THEN Append(f[n], n + 1) ELSE f[n]
  BY <1>5, <1>6 DEF OrderSteps
<1>. QED
  BY <1>1, <1>2, <1>3, <1>6, <1>7 DEF OrderedBy

-----------------------------------------------------------------------------
(* The elements of a stream, as it grows by one byte. *)

Whole(s, j) == j \in 1 .. Len(s) /\ j + ElementLen(s, j) <= Len(s) + 1

(* A run of IACs that reaches the end is even or odd by turns.             *)
LEMMA RunGrows ==
  ASSUME NEW S, NEW s \in Seq(S), NEW b, NEW i \in 1 .. Len(s), i < Len(s)
  PROVE  OddRun(Append(s, b), i, Len(s) + 1) <=> (b = "IAC" /\ ~OddRun(s, i, Len(s)))
<1>. DEFINE t == Append(s, b)
            n == Len(s)
<1>1. /\ n \in Nat /\ i \in Nat /\ i + 1 <= n /\ t[n + 1] = b
      /\ \A k \in 1 .. n : t[k] = s[k]
  BY LenProperties, AppendProperties
<1>. HIDE DEF t, n
<1>2. CASE b # "IAC"
  <2>1. \A k \in i + 2 .. n + 1 : n + 1 \in k .. n + 1
    BY <1>1
  <2>. QED
    BY <1>1, <1>2, <2>1 DEF OddRun, t, n
<1>3. CASE b = "IAC"
  <2>1. ASSUME OddRun(t, i, n + 1), OddRun(s, i, n) PROVE FALSE
    <3>1. PICK k \in i + 2 .. n + 1 :
            /\ \A m \in k .. n + 1 : t[m] = "IAC"
            /\ k = i + 2 \/ t[k - 1] # "IAC"
            /\ (n + 1 + 1 - k) % 2 = 1
      BY <2>1 DEF OddRun
    <3>2. PICK h \in i + 2 .. n :
            /\ \A m \in h .. n : s[m] = "IAC"
            /\ h = i + 2 \/ s[h - 1] # "IAC"
            /\ (n + 1 - h) % 2 = 1
      BY <2>1 DEF OddRun
    <3>3. k \in Nat /\ h \in Nat
      BY <1>1
    <3>4. ~(h < k)
      <4>1. SUFFICES ASSUME h < k PROVE FALSE
        OBVIOUS
      <4>2. k - 1 \in h .. n /\ k - 1 \in 1 .. n /\ k # i + 2
        BY <1>1, <3>3, <4>1
      <4>. QED
        BY <1>1, <3>1, <3>2, <4>2
    <3>5. ~(k < h)
      <4>1. SUFFICES ASSUME k < h PROVE FALSE
        OBVIOUS
      <4>2. h - 1 \in k .. n + 1 /\ h - 1 \in 1 .. n /\ h # i + 2
        BY <1>1, <3>3, <4>1
      <4>. QED
        BY <1>1, <3>1, <3>2, <4>2
    <3>6. k = h
      BY <3>3, <3>4, <3>5
    <3>. QED
      BY <1>1, <3>1, <3>2, <3>3, <3>6
  <2>2. ASSUME ~OddRun(s, i, n) PROVE OddRun(t, i, n + 1)
    <3>1. CASE n = i + 1 \/ s[n] # "IAC"
      <4>1. /\ n + 1 \in i + 2 .. n + 1 /\ (n + 1) - 1 = n /\ (n + 2 - (n + 1)) % 2 = 1
            /\ \A m \in n + 1 .. n + 1 : m = n + 1
        BY <1>1
      <4>2. n + 1 = i + 2 \/ t[(n + 1) - 1] # "IAC"
        BY <1>1, <3>1, <4>1
      <4>3. \A m \in n + 1 .. n + 1 : t[m] = "IAC"
        BY <1>1, <1>3, <4>1
      <4>4. (n + 1 + 1 - (n + 1)) % 2 = 1
        BY <1>1
      <4>. QED
        BY <4>1, <4>2, <4>3, <4>4 DEF OddRun
    <3>2. CASE n # i + 1 /\ s[n] = "IAC"
      <4>. DEFINE T == {k \in i + 2 .. n : \A m \in k .. n : s[m] = "IAC"}
      <4>1. n \in T /\ T \subseteq Nat
        BY <1>1, <3>2
      <4>2. PICK k \in T : \A h \in T : k <= h
        <5>. HIDE DEF T
        <5>. QED
          BY <4>1, LeastOf
      <4>3. k \in i + 2 .. n /\ k \in Nat /\ \A m \in k .. n : s[m] = "IAC"
        BY <1>1
      <4>4. k = i + 2 \/ s[k - 1] # "IAC"
        <5>1. SUFFICES ASSUME k # i + 2, s[k - 1] = "IAC" PROVE FALSE
          OBVIOUS
        <5>2. k - 1 \in i + 2 .. n /\ ~(k <= k - 1)
          BY <1>1, <4>3, <5>1
        <5>3. ASSUME NEW m \in k - 1 .. n PROVE s[m] = "IAC"
          <6>1. m = k - 1 \/ m \in k .. n
            BY <1>1, <4>3
          <6>. QED
            BY <4>3, <5>1, <6>1
        <5>4. k - 1 \in T
          BY <5>2, <5>3
        <5>. QED
          BY <4>2, <5>2, <5>4
      <4>5. (n + 1 - k) % 2 # 1
        BY <2>2, <4>3, <4>4 DEF OddRun
      <4>6. (n + 1 + 1 - k) % 2 = 1
        BY <1>1, <4>3, <4>5
      <4>7. \A m \in k .. n + 1 : t[m] = "IAC"
        <5>1. ASSUME NEW m \in k .. n + 1 PROVE t[m] = "IAC"
          <6>1. m = n + 1 \/ (m \in k .. n /\ m \in 1 .. n)
            BY <1>1, <4>3
          <6>. QED
            BY <1>1, <1>3, <4>3, <6>1
        <5>. QED
          BY <5>1
      <4>8. k = i + 2 \/ t[k - 1] # "IAC"
        <5>1. k # i + 2 => k - 1 \in 1 .. n
          BY <1>1, <4>3
        <5>. QED
          BY <1>1, <4>4, <5>1
      <4>9. k \in i + 2 .. n + 1
        BY <1>1, <4>3
      <4>. QED
        BY <4>6, <4>7, <4>8, <4>9 DEF OddRun
    <3>. QED
      BY <3>1, <3>2
  <2>. QED
    BY <1>3, <2>1, <2>2 DEF t, n
<1>. QED
  BY <1>2, <1>3

(* Where the subnegotiation at i may end. *)
LEMMA EndsGrow ==
  ASSUME NEW S, NEW s \in Seq(S), NEW b, NEW i \in 1 .. Len(s), i < Len(s)
  PROVE  SubnegotiationEnds(Append(s, b), i) =
           SubnegotiationEnds(s, i)
             \cup {j \in {Len(s) + 1} : b = "SE" /\ OddRun(s, i, Len(s))}
<1>. DEFINE t == Append(s, b)
            n == Len(s)
<1>1. /\ n \in Nat /\ i \in Nat /\ i + 1 <= n /\ t[n + 1] = b /\ Len(t) = n + 1
      /\ \A k \in 1 .. n : t[k] = s[k]
  BY LenProperties, AppendProperties
<1>2. /\ SubnegotiationEnds(s, i) = {j \in i + 3 .. n : s[j] = "SE" /\ OddRun(s, i, j - 1)}
      /\ SubnegotiationEnds(t, i) = {j \in i + 3 .. n + 1 : t[j] = "SE" /\ OddRun(t, i, j - 1)}
  BY <1>1 DEF SubnegotiationEnds
<1>. HIDE DEF t, n
<1>3. ASSUME NEW j \in i + 3 .. n + 1 PROVE OddRun(s, i, j - 1) <=> OddRun(t, i, j - 1)
  <2>1. ASSUME NEW k \in i + 2 .. j - 1
        PROVE k \in 1 .. n /\ (k = i + 2 \/ k - 1 \in 1 .. n) /\ \A m \in k .. j - 1 : m \in 1 .. n
    BY <1>1
  <2>2. ASSUME NEW k \in i + 2 .. j - 1
        PROVE /\ (\A m \in k .. j - 1 : s[m] = "IAC") <=> (\A m \in k .. j - 1 : t[m] = "IAC")
              /\ (k = i + 2 \/ s[k - 1] # "IAC") <=> (k = i + 2 \/ t[k - 1] # "IAC")
    BY <1>1, <2>1
  <2>. QED
    BY <2>2 DEF OddRun
<1>4. (n + 1) - 1 = n
  BY <1>1
<1>5. OddRun(s, i, n) => n + 1 \in i + 3 .. n + 1
  <2>1. SUFFICES ASSUME NEW k \in i + 2 .. n PROVE n + 1 \in i + 3 .. n + 1
    BY DEF OddRun
  <2>. QED
    BY <1>1
<1>6. ASSUME NEW j
      PROVE j \in SubnegotiationEnds(t, i) <=>
              (j \in SubnegotiationEnds(s, i) \/ (j = n + 1 /\ b = "SE" /\ OddRun(s, i, n)))
  <2>1. CASE j = n + 1
    BY <1>1, <1>2, <1>3, <1>4, <1>5, <2>1
  <2>2. CASE j # n + 1
    <3>1. j \in i + 3 .. n + 1 <=> j \in i + 3 .. n
      BY <1>1, <2>2
    <3>2. j \in i + 3 .. n => j \in 1 .. n
      BY <1>1
    <3>. QED
      BY <1>1, <1>2, <1>3, <2>2, <3>1, <3>2
  <2>. QED
    BY <2>1, <2>2
<1>. QED
  BY <1>6 DEF t, n

(* The least member of a set of naturals.                                  *)
LEMMA MinIs ==
  ASSUME NEW T, T \subseteq Nat, NEW j \in T, \A k \in T : j <= k
  PROVE  Min(T) = j
<1>1. Min(T) \in T /\ \A k \in T : Min(T) <= k
  BY Zenon DEF Min
<1>2. Min(T) <= j /\ j <= Min(T) /\ j \in Nat /\ Min(T) \in Nat
  BY <1>1
<1>. QED
  BY <1>2

(* The length of the element at i, kind by kind. *)
ByKind(s, i) ==
  /\ s[i] # "IAC" => ElementLen(s, i) = 1
  /\ s[i] = "IAC" /\ i = Len(s) => ElementLen(s, i) = Len(s) + 1
  /\ s[i] = "IAC" /\ i # Len(s) =>
       /\ s[i + 1] \in Verb => ElementLen(s, i) = 3
       /\ s[i + 1] \notin Verb /\ s[i + 1] # "SB" => ElementLen(s, i) = 2
       /\ s[i + 1] = "SB" /\ SubnegotiationEnds(s, i) = {} =>
            ElementLen(s, i) = Len(s) + 1
       /\ s[i + 1] = "SB" /\ SubnegotiationEnds(s, i) # {} =>
            ElementLen(s, i) = Min(SubnegotiationEnds(s, i)) - i + 1

LEMMA ElementLenOf == \A s, i : ByKind(s, i)
<1>1. "SB" \notin Verb
  BY DEF Verb
<1>. QED
  BY <1>1 DEF ElementLen, ByKind

(* A subnegotiation with an end has a first one.                           *)
LEMMA FirstEnd ==
  ASSUME NEW S, NEW s \in Seq(S), NEW i \in 1 .. Len(s), SubnegotiationEnds(s, i) # {}
  PROVE  /\ Min(SubnegotiationEnds(s, i)) \in SubnegotiationEnds(s, i)
         /\ Min(SubnegotiationEnds(s, i)) \in i + 3 .. Len(s)
         /\ \A k \in SubnegotiationEnds(s, i) : Min(SubnegotiationEnds(s, i)) <= k
<1>1. Len(s) \in Nat
  BY LenProperties
<1>2. SubnegotiationEnds(s, i) \subseteq i + 3 .. Len(s)
  BY DEF SubnegotiationEnds
<1>3. SubnegotiationEnds(s, i) \subseteq Nat
  BY <1>1, <1>2
<1>4. PICK j \in SubnegotiationEnds(s, i) : \A k \in SubnegotiationEnds(s, i) : j <= k
  BY <1>3, LeastOf
<1>5. Min(SubnegotiationEnds(s, i)) = j
  BY <1>3, <1>4, MinIs
<1>. QED
  BY <1>2, <1>4, <1>5

(* A whole element stays as it is, another one becomes whole with the next *)
(* byte at the earliest.                                                   *)
LEMMA ElementGrows ==
  ASSUME NEW S, NEW s \in Seq(S), NEW b \in S, NEW i \in 1 .. Len(s)
  PROVE  /\ ElementLen(s, i) \in Nat \ {0}
         /\ Whole(s, i) => ElementLen(Append(s, b), i) = ElementLen(s, i)
         /\ ~Whole(s, i) => i + ElementLen(Append(s, b), i) >= Len(s) + 2
<1>. DEFINE t == Append(s, b)
            n == Len(s)
<1>1. /\ n \in Nat /\ i \in 1 .. n /\ t[n + 1] = b /\ Len(t) = n + 1 /\ t \in Seq(S)
      /\ \A k \in 1 .. n : t[k] = s[k]
  BY LenProperties, AppendProperties
<1>2. i \in 1 .. Len(t) /\ t[i] = s[i] /\ (i # n => t[i + 1] = s[i + 1] /\ i < n)
  BY <1>1
<1>. HIDE DEF t
<1>8. n = Len(s) /\ ByKind(s, i) /\ ByKind(t, i)
  BY ElementLenOf
<1>. HIDE DEF n
<1>. SUFFICES /\ ElementLen(s, i) \in Nat \ {0}
              /\ Whole(s, i) => ElementLen(t, i) = ElementLen(s, i)
              /\ ~Whole(s, i) => i + ElementLen(t, i) >= n + 2
  BY DEF t, n
<1>3. CASE s[i] # "IAC"
  <2>1. ElementLen(s, i) = 1 /\ ElementLen(t, i) = 1
    BY <1>1, <1>2, <1>3, <1>8 DEF ByKind
  <2>2. i + 1 <= n + 1
    BY <1>1
  <2>. QED
    BY <1>1, <2>1, <2>2, <1>8 DEF Whole
<1>4. CASE s[i] = "IAC" /\ i = n
  <2>1. ElementLen(s, i) = n + 1
    BY <1>1, <1>4, <1>8 DEF ByKind
  <2>2. ~Whole(s, i)
    BY <1>1, <2>1, <1>8 DEF Whole
  <2>3. i + 1 = Len(t) /\ i # Len(t) /\ t[i] = "IAC"
    BY <1>1, <1>2, <1>4
  <2>4. SubnegotiationEnds(t, i) = {}
    <3>1. SubnegotiationEnds(t, i) \subseteq i + 3 .. i + 1
      BY <2>3 DEF SubnegotiationEnds
    <3>. QED
      BY <1>1, <3>1
  <2>5. ElementLen(t, i) \in {2, 3, n + 2}
    BY <1>1, <1>2, <2>3, <2>4, <1>8 DEF ByKind
  <2>6. i + ElementLen(t, i) >= n + 2
    BY <1>1, <1>4, <2>5
  <2>. QED
    BY <1>1, <2>1, <2>2, <2>6
<1>5. CASE s[i] = "IAC" /\ i # n /\ s[i + 1] \in Verb
  <2>1. ElementLen(s, i) = 3 /\ ElementLen(t, i) = 3
    BY <1>1, <1>2, <1>5, <1>8 DEF ByKind
  <2>. QED
    BY <1>1, <2>1, <1>8 DEF Whole
<1>6. CASE s[i] = "IAC" /\ i # n /\ s[i + 1] \notin Verb /\ s[i + 1] # "SB"
  <2>1. ElementLen(s, i) = 2 /\ ElementLen(t, i) = 2
    BY <1>1, <1>2, <1>6, <1>8 DEF ByKind
  <2>. QED
    BY <1>1, <2>1, <1>8 DEF Whole
<1>7. CASE s[i] = "IAC" /\ i # n /\ s[i + 1] = "SB"
  <2>. DEFINE E == SubnegotiationEnds(s, i)
              F == SubnegotiationEnds(t, i)
  <2>1. F = E \cup {j \in {n + 1} : b = "SE" /\ OddRun(s, i, n)}
    BY <1>1, <1>2, <1>7, <1>8, EndsGrow DEF t
  <2>2. CASE E = {}
    <3>1. ElementLen(s, i) = n + 1
      BY <1>1, <1>7, <2>2, <1>8 DEF ByKind
    <3>2. ~Whole(s, i)
      BY <1>1, <3>1, <1>8 DEF Whole
    <3>3. CASE F = {}
      <4>1. ElementLen(t, i) = n + 2
        BY <1>1, <1>2, <1>7, <3>3, <1>8 DEF ByKind
      <4>. QED
        BY <1>1, <3>1, <3>2, <4>1
    <3>4. CASE F # {}
      <4>1. ElementLen(t, i) = Min(F) - i + 1
        BY <1>1, <1>2, <1>7, <3>4, <1>8 DEF ByKind
      <4>2. Min(F) \in F
        BY <1>1, <1>2, <3>4, FirstEnd
      <4>3. Min(F) = n + 1
        BY <2>1, <2>2, <4>2
      <4>. QED
        BY <1>1, <3>1, <3>2, <4>1, <4>3
    <3>. QED
      BY <3>3, <3>4
  <2>3. CASE E # {}
    <3>1. Min(E) \in E /\ Min(E) \in i + 3 .. n /\ \A k \in E : Min(E) <= k
      BY <1>1, <1>8, <2>3, FirstEnd
    <3>2. Min(F) = Min(E)
      <4>1. F \subseteq Nat
        BY <1>1, <2>1 DEF SubnegotiationEnds
      <4>2. Min(E) \in F
        BY <2>1, <3>1
      <4>3. \A k \in F : Min(E) <= k
        BY <1>1, <2>1, <3>1
      <4>. HIDE DEF E, F
      <4>. QED
        BY <4>1, <4>2, <4>3, MinIs
    <3>3. ElementLen(s, i) = Min(E) - i + 1
      BY <1>1, <1>7, <2>3, <1>8 DEF ByKind
    <3>4. F # {}
      BY <2>1, <2>3
    <3>5. ElementLen(t, i) = Min(F) - i + 1
      BY <1>1, <1>2, <1>7, <3>4, <1>8 DEF ByKind
    <3>6. Whole(s, i)
      BY <1>1, <3>1, <3>3, <1>8 DEF Whole
    <3>. QED
      BY <1>1, <3>1, <3>2, <3>3, <3>5, <3>6
  <2>. QED
    BY <2>2, <2>3
<1>. QED
  BY <1>3, <1>4, <1>5, <1>6, <1>7

(* Where elements start. *)
NextStarts(s, v, i) == v \cup {k \in {i + 1} : \E j \in v : j + ElementLen(s, j) = k}
StartSteps(s, n) ==
  [i \in 1 .. n |-> [v \in SUBSET Nat |-> v \cup NextStarts(s, v \cap 1 .. i, i)]]
StartsChosen(s, n) ==
  CHOOSE g : g = [i \in 0 .. n |-> IF i = 0 THEN {1} ELSE NextStarts(s, g[i - 1], i)]

Within(f, n) == \A k \in 0 .. n : f[k] \subseteq 1 .. k + 1

(* No element starts beyond the place behind the last byte.                *)
LEMMA StartsWithin ==
  ASSUME NEW n \in Nat, NEW f \in [0 .. n -> SUBSET Nat], NEW s,
         StepChain(f, {1}, StartSteps(s, n), n)
  PROVE  Within(f, n)
<1>. DEFINE N == {k \in Nat : k <= n => f[k] \subseteq 1 .. k + 1}
<1>1. 0 \in N
  BY DEF StepChain
<1>2. ASSUME NEW k \in Nat, k \in N PROVE k + 1 \in N
  <2>1. SUFFICES ASSUME k + 1 <= n PROVE f[k + 1] \subseteq 1 .. (k + 1) + 1
    OBVIOUS
  <2>2. f[k] \subseteq 1 .. k + 1 /\ k + 1 \in 1 .. n /\ (k + 1) - 1 = k
    BY <1>2, <2>1
  <2>3. f[k + 1] = StartSteps(s, n)[k + 1][f[(k + 1) - 1]]
    BY <2>2, Zenon DEF StepChain
  <2>4. f[k] \in SUBSET Nat
    BY <2>2
  <2>5. f[k + 1] = f[k] \cup NextStarts(s, f[k] \cap 1 .. k + 1, k + 1)
    BY <2>2, <2>3, <2>4 DEF StartSteps
  <2>. QED
    BY <2>2, <2>5 DEF NextStarts
<1>. HIDE DEF N
<1>3. Nat \subseteq N
  BY <1>1, <1>2, Climb
<1>. QED
  BY <1>3 DEF N, Within

(* The function the operator chooses is the one that follows the steps.    *)
LEMMA StartsChosenIs ==
  ASSUME NEW n \in Nat, NEW f \in [0 .. n -> SUBSET Nat], NEW s,
         StepChain(f, {1}, StartSteps(s, n), n)
  PROVE  StartsChosen(s, n)[n] = f[n]
<1>1. f[0] = {1}
  BY DEF StepChain
<1>2. ASSUME NEW k \in 1 .. n PROVE f[k] = NextStarts(s, f[k - 1], k)
  <2>1. f[k] = StartSteps(s, n)[k][f[k - 1]]
    BY Zenon DEF StepChain
  <2>2. f[k - 1] \in SUBSET Nat /\ k - 1 \in 0 .. n /\ (k - 1) + 1 = k
    OBVIOUS
  <2>3. f[k - 1] \subseteq 1 .. k
    BY <2>2, StartsWithin DEF Within
  <2>4. f[k - 1] \cap 1 .. k = f[k - 1]
    BY <2>3
  <2>5. f[k] = f[k - 1] \cup NextStarts(s, f[k - 1], k)
    BY <2>1, <2>2, <2>4 DEF StartSteps
  <2>. QED
    BY <2>5 DEF NextStarts
<1>3. f = [k \in 0 .. n |-> IF k = 0 THEN {1} ELSE NextStarts(s, f[k - 1], k)]
  <2>1. ASSUME NEW k \in 0 .. n
        PROVE f[k] = IF k = 0 THEN {1} ELSE NextStarts(s, f[k - 1], k)
    <3>1. k # 0 => k \in 1 .. n
      OBVIOUS
    <3>. QED
      BY <1>1, <1>2, <3>1
  <2>2. f = [k \in 0 .. n |-> f[k]]
    OBVIOUS
  <2>. QED
    BY <2>1, <2>2
<1>. DEFINE c == StartsChosen(s, n)
<1>4. c = [k \in 0 .. n |-> IF k = 0 THEN {1} ELSE NextStarts(s, c[k - 1], k)]
  BY <1>3, Zenon DEF StartsChosen
<1>. HIDE DEF c
<1>5. ASSUME NEW k \in 1 .. n, c[k - 1] = f[k - 1] PROVE c[k] = f[k]
  <2>1. k \in 0 .. n /\ k # 0
    OBVIOUS
  <2>2. c[k] = NextStarts(s, c[k - 1], k)
    BY <1>4, <2>1
  <2>. QED
    BY <1>2, <1>5, <2>2, Zenon
<1>6. c[0] = f[0]
  BY <1>1, <1>4
<1>7. Alike(c, f, n)
  <2>1. GoOnAlike(c, f, n)
    BY <1>5, <1>6 DEF GoOnAlike
  <2>. QED
    BY <2>1, StayAlike
<1>. QED
  BY <1>7 DEF Alike, c

StartsBy(f, s) ==
  /\ f \in [0 .. Len(s) -> SUBSET Nat]
  /\ StepChain(f, {1}, StartSteps(s, Len(s)), Len(s))
  /\ Within(f, Len(s))
  /\ Starts(s) = f[Len(s)]

(* Starts is the last value of a function on the prefixes.                 *)
LEMMA StartsExist ==
  ASSUME NEW S, NEW s \in Seq(S)
  PROVE  \E f : StartsBy(f, s)
<1>. DEFINE n == Len(s)
<1>1. n \in Nat
  BY LenProperties
<1>2. StartSteps(s, n) \in [1 .. n -> [SUBSET Nat -> SUBSET Nat]]
  <2>1. ASSUME NEW i \in 1 .. n, NEW v \in SUBSET Nat
        PROVE v \cup NextStarts(s, v \cap 1 .. i, i) \in SUBSET Nat
    <3>1. v \subseteq Nat /\ {i + 1} \subseteq Nat
      BY <1>1
    <3>2. NextStarts(s, v \cap 1 .. i, i) \subseteq v \cup {i + 1}
      BY DEF NextStarts
    <3>. QED
      BY <3>1, <3>2
  <2>. QED
    BY <2>1 DEF StartSteps
<1>3. PICK f \in [0 .. n -> SUBSET Nat] : StepChain(f, {1}, StartSteps(s, n), n)
  <2>1. {1} \in SUBSET Nat
    OBVIOUS
  <2>. HIDE DEF n
  <2>. QED
    BY <1>1, <1>2, <2>1, RecursionDefines
<1>4. Starts(s) = StartsChosen(s, n)[n]
  BY DEF Starts, StartsChosen, NextStarts
<1>5. StartsChosen(s, n)[n] = f[n]
  BY <1>1, <1>3, StartsChosenIs
<1>6. Within(f, n)
  BY <1>1, <1>3, StartsWithin
<1>. QED
  BY <1>3, <1>4, <1>5, <1>6 DEF StartsBy

(* A further byte adds the place behind it, if some element ends with that *)
(* byte, and no other start.                                               *)
LEMMA StartsNext ==
  ASSUME NEW S, NEW s \in Seq(S), NEW b \in S
  PROVE  /\ Starts(<<>>) = {1}
         /\ Starts(s) \subseteq 1 .. Len(s) + 1
         /\ Starts(Append(s, b)) = NextStarts(Append(s, b), Starts(s), Len(s) + 1)
<1>1. Starts(<<>>) = {1}
  <2>1. <<>> \in Seq(S) /\ Len(<<>>) = 0
    BY EmptySeq
  <2>2. PICK f : StartsBy(f, <<>>)
    BY <2>1, StartsExist
  <2>. QED
    BY <2>1, <2>2 DEF StartsBy, StepChain
<1>. DEFINE t == Append(s, b)
            n == Len(s)
<1>2. t \in Seq(S) /\ Len(t) = n + 1 /\ n \in Nat
  BY AppendProperties, LenProperties
<1>3. PICK f : StartsBy(f, s)
  BY StartsExist
<1>4. PICK g : StartsBy(g, t)
  BY <1>2, StartsExist
<1>5. f[n] \subseteq 1 .. n + 1 /\ f[n] \in SUBSET Nat
  BY <1>2, <1>3 DEF StartsBy, Within
<1>6. ASSUME NEW i \in 1 .. n, NEW v \in SUBSET Nat
      PROVE NextStarts(s, v \cap 1 .. i, i) = NextStarts(t, v \cap 1 .. i, i)
  <2>1. ASSUME NEW j \in v \cap 1 .. i
        PROVE j + ElementLen(s, j) = i + 1 <=> j + ElementLen(t, j) = i + 1
    <3>1. j \in 1 .. n
      BY <1>2
    <3>2. ElementLen(s, j) \in Nat /\ j \in Nat /\ i \in Nat /\ i <= n
      BY <1>2, <3>1, ElementGrows
    <3>3. CASE Whole(s, j)
      BY <3>1, <3>3, ElementGrows
    <3>4. CASE ~Whole(s, j)
      <4>1. j + ElementLen(t, j) >= n + 2
        BY <3>1, <3>4, ElementGrows
      <4>2. ~(j + ElementLen(s, j) <= n + 1)
        BY <3>1, <3>4 DEF Whole
      <4>. QED
        BY <1>2, <3>2, <4>1, <4>2
    <3>. QED
      BY <3>3, <3>4
  <2>. QED
    BY <2>1 DEF NextStarts
<1>. HIDE DEF t, n
<1>7. SameSteps(StartSteps(s, n), StartSteps(t, n + 1), n)
  <2>1. ASSUME NEW k \in 1 .. n PROVE StartSteps(s, n)[k] = StartSteps(t, n + 1)[k]
    <3>1. k \in 1 .. n + 1
      BY <1>2
    <3>2. [v \in SUBSET Nat |-> v \cup NextStarts(s, v \cap 1 .. k, k)]
            = [v \in SUBSET Nat |-> v \cup NextStarts(t, v \cap 1 .. k, k)]
      BY <1>6
    <3>. QED
      BY <3>1, <3>2, Zenon DEF StartSteps
  <2>. QED
    BY <2>1 DEF SameSteps
<1>8. g[n + 1] = StartSteps(t, n + 1)[n + 1][f[n]]
  <2>1. StepChain(f, {1}, StartSteps(s, n), n) /\ StepChain(g, {1}, StartSteps(t, n + 1), n + 1)
    BY <1>2, <1>3, <1>4 DEF StartsBy, n
  <2>. QED
    BY <1>2, <1>7, <2>1, RecursionGoesOn
<1>9. n + 1 \in 1 .. n + 1 /\ f[n] \cap 1 .. n + 1 = f[n]
  BY <1>2, <1>5
<1>10. g[n + 1] = f[n] \cup NextStarts(t, f[n], n + 1)
  BY <1>5, <1>8, <1>9 DEF StartSteps
<1>11. Starts(s) = f[n] /\ Starts(t) = g[n + 1]
  BY <1>2, <1>3, <1>4 DEF StartsBy, n
<1>. QED
  BY <1>1, <1>5, <1>10, <1>11 DEF t, n, NextStarts

-----------------------------------------------------------------------------
(* A parser in state st has read s: the element at p is the only one that  *)
(* is not whole yet.                                                       *)
OpenState(s, p, st) ==
  \/ st = "data" /\ p = Len(s) + 1
  \/ st = "iac" /\ p = Len(s) /\ s[p] = "IAC"
  \/ st \in Verb /\ p + 1 = Len(s) /\ s[p] = "IAC" /\ s[p + 1] = st
  \/ /\ st \in {"sb", "sbiac"}
     /\ p < Len(s) /\ s[p] = "IAC" /\ s[p + 1] = "SB"
     /\ SubnegotiationEnds(s, p) = {}
     /\ OddRun(s, p, Len(s)) <=> st = "sbiac"

OnlyOpen(s, p) == p \in Starts(s) /\ \A j \in Starts(s) : j = p \/ Whole(s, j)

HasRead(s, st) == \E p \in 1 .. Len(s) + 1 : OnlyOpen(s, p) /\ OpenState(s, p, st)

(* What the next byte makes of the open element. *)
OpenNext(t, p, st, b, n) ==
  /\ NextState(st, b) = "data" => p + ElementLen(t, p) = n + 2
  /\ NextState(st, b) # "data" =>
       p + ElementLen(t, p) > n + 2 /\ OpenState(t, p, NextState(st, b))
  /\ IsData(st, b) <=> NextState(st, b) = "data" /\ (t[p] # "IAC" \/ t[p + 1] = "IAC")
  /\ st \in Verb <=> NextState(st, b) = "data" /\ t[p] = "IAC" /\ t[p + 1] \in Verb
  /\ st \in Verb => t[n] = st

(* A byte takes the open element to what NextState says of the parser.     *)
LEMMA OpenGrows ==
  ASSUME NEW S, NEW s \in Seq(S), NEW b \in S, NEW st \in State,
         NEW p \in 1 .. Len(s) + 1, OpenState(s, p, st)
  PROVE  OpenNext(Append(s, b), p, st, b, Len(s))
<1>. DEFINE t == Append(s, b)
            n == Len(s)
            after == NextState(st, b)
<1>1. /\ n \in Nat /\ p \in 1 .. n + 1 /\ t[n + 1] = b /\ Len(t) = n + 1 /\ t \in Seq(S)
      /\ \A k \in 1 .. n : t[k] = s[k]
  BY LenProperties, AppendProperties
<1>. HIDE DEF t
<1>2. n = Len(s) /\ ByKind(t, p)
  BY ElementLenOf
<1>. HIDE DEF n
<1>. SUFFICES OpenNext(t, p, st, b, n)
  BY DEF t, n
<1>3. /\ {"data", "iac", "sb", "sbiac", "IAC", "SB", "SE"} \cap Verb = {}
  BY DEF Verb
<1>4. CASE st = "data"
  <2>1. p = n + 1 /\ t[p] = b
    BY <1>1, <1>2, <1>3, <1>4 DEF OpenState
  <2>2. CASE b = "IAC"
    <3>1. after = "iac" /\ ~IsData(st, b) /\ st \notin Verb
      BY <1>3, <1>4, <2>2 DEF NextState, IsData
    <3>2. ElementLen(t, p) = n + 2 /\ p + ElementLen(t, p) > n + 2
      BY <1>1, <1>2, <2>1, <2>2 DEF ByKind
    <3>3. OpenState(t, p, "iac")
      BY <1>1, <2>1, <2>2 DEF OpenState
    <3>. QED
      BY <3>1, <3>2, <3>3 DEF OpenNext
  <2>3. CASE b # "IAC"
    <3>1. after = "data" /\ IsData(st, b) /\ st \notin Verb
      BY <1>3, <1>4, <2>3 DEF NextState, IsData
    <3>2. ElementLen(t, p) = 1
      BY <1>2, <2>1, <2>3 DEF ByKind
    <3>. QED
      BY <1>1, <2>1, <2>3, <3>1, <3>2 DEF OpenNext
  <2>. QED
    BY <2>2, <2>3
<1>5. CASE st = "iac"
  <2>1. p = n /\ s[p] = "IAC"
    BY <1>2, <1>3, <1>5 DEF OpenState
  <2>2. p \in 1 .. n /\ t[p] = "IAC" /\ t[p + 1] = b /\ p # Len(t) /\ p < Len(t)
    BY <1>1, <2>1
  <2>3. CASE b \in Verb
    <3>1. after = b /\ b # "data" /\ ~IsData(st, b) /\ st \notin Verb
      BY <1>3, <1>5, <2>3 DEF NextState, IsData
    <3>2. ElementLen(t, p) = 3
      BY <1>2, <2>2, <2>3 DEF ByKind
    <3>3. OpenState(t, p, b)
      BY <1>1, <2>1, <2>2, <2>3 DEF OpenState
    <3>. QED
      BY <1>1, <2>1, <3>1, <3>2, <3>3 DEF OpenNext
  <2>4. CASE b = "SB"
    <3>1. after = "sb" /\ ~IsData(st, b) /\ st \notin Verb
      BY <1>3, <1>5, <2>4 DEF NextState, IsData
    <3>2. SubnegotiationEnds(t, p) = {}
      <4>1. SubnegotiationEnds(t, p) \subseteq p + 3 .. n + 1
        BY <1>1 DEF SubnegotiationEnds
      <4>. QED
        BY <1>1, <2>1, <4>1
    <3>3. ElementLen(t, p) = n + 2
      BY <1>1, <1>2, <1>3, <2>2, <2>4, <3>2 DEF ByKind
    <3>4. ~OddRun(t, p, n + 1)
      BY <1>1, <2>1 DEF OddRun
    <3>5. OpenState(t, p, "sb")
      BY <1>1, <2>2, <2>4, <3>2, <3>4 DEF OpenState
    <3>. QED
      BY <1>1, <2>1, <3>1, <3>3, <3>5 DEF OpenNext
  <2>5. CASE b \notin Verb /\ b # "SB"
    <3>1. after = "data" /\ (IsData(st, b) <=> b = "IAC") /\ st \notin Verb
      BY <1>3, <1>5, <2>5 DEF NextState, IsData
    <3>2. ElementLen(t, p) = 2
      BY <1>2, <2>2, <2>5 DEF ByKind
    <3>. QED
      BY <1>1, <2>1, <2>2, <2>5, <3>1, <3>2 DEF OpenNext
  <2>. QED
    BY <2>3, <2>4, <2>5
<1>6. CASE st \in Verb
  <2>1. p + 1 = n /\ s[p] = "IAC" /\ s[p + 1] = st
    BY <1>2, <1>3, <1>6 DEF OpenState
  <2>2. /\ p \in 1 .. n /\ p + 1 \in 1 .. n
        /\ t[p] = "IAC" /\ t[p + 1] = st /\ t[n] = st /\ p # Len(t)
    BY <1>1, <2>1
  <2>3. after = "data" /\ ~IsData(st, b) /\ st # "IAC"
    BY <1>3, <1>6 DEF NextState, IsData
  <2>4. ElementLen(t, p) = 3
    BY <1>2, <1>6, <2>2 DEF ByKind
  <2>. QED
    BY <1>1, <1>6, <2>1, <2>2, <2>3, <2>4 DEF OpenNext
<1>7. CASE st \in {"sb", "sbiac"}
  <2>1. /\ p < n /\ s[p] = "IAC" /\ s[p + 1] = "SB" /\ SubnegotiationEnds(s, p) = {}
        /\ OddRun(s, p, n) <=> st = "sbiac"
    BY <1>2, <1>3, <1>7 DEF OpenState
  <2>2. /\ p \in 1 .. n /\ p + 1 \in 1 .. n /\ p \in 1 .. Len(s) /\ p < Len(s)
        /\ t[p] = "IAC" /\ t[p + 1] = "SB" /\ p # Len(t) /\ p < Len(t)
    BY <1>1, <1>2, <2>1
  <2>3. SubnegotiationEnds(t, p) = {j \in {n + 1} : b = "SE" /\ st = "sbiac"}
    BY <1>2, <2>1, <2>2, EndsGrow DEF t
  <2>4. OddRun(t, p, n + 1) <=> (b = "IAC" /\ st # "sbiac")
    BY <1>2, <2>1, <2>2, RunGrows DEF t
  <2>5. st \notin Verb /\ ~IsData(st, b)
    BY <1>3, <1>7 DEF IsData
  <2>6. CASE b = "SE" /\ st = "sbiac"
    <3>1. after = "data"
      BY <2>6 DEF NextState
    <3>2. SubnegotiationEnds(t, p) = {n + 1}
      BY <2>3, <2>6
    <3>3. Min(SubnegotiationEnds(t, p)) = n + 1
      BY <1>1, <3>2, FirstEnd, <2>2
    <3>4. ElementLen(t, p) = (n + 1) - p + 1
      BY <1>2, <1>3, <2>2, <3>2, <3>3 DEF ByKind
    <3>. QED
      BY <1>1, <1>3, <2>2, <2>5, <3>1, <3>4 DEF OpenNext
  <2>7. CASE ~(b = "SE" /\ st = "sbiac")
    <3>1. SubnegotiationEnds(t, p) = {}
      BY <2>3, <2>7
    <3>2. ElementLen(t, p) = n + 2
      BY <1>1, <1>2, <1>3, <2>2, <3>1 DEF ByKind
    <3>3. after = IF b = "IAC" /\ st # "sbiac" THEN "sbiac" ELSE "sb"
      BY <1>7, <2>7 DEF NextState
    <3>4. OpenState(t, p, after)
      BY <1>1, <2>2, <2>4, <3>1, <3>3 DEF OpenState
    <3>5. after # "data"
      BY <3>3
    <3>. QED
      BY <1>1, <2>2, <2>5, <3>2, <3>4, <3>5 DEF OpenNext
  <2>. QED
    BY <2>6, <2>7
<1>. QED
  BY <1>4, <1>5, <1>6, <1>7 DEF State

(* The open element is the one that is not whole yet.                      *)
LEMMA OpenIsNotWhole ==
  ASSUME NEW S, NEW s \in Seq(S), NEW st \in State,
         NEW p \in 1 .. Len(s) + 1, OpenState(s, p, st)
  PROVE  ~Whole(s, p)
<1>1. Len(s) \in Nat /\ ByKind(s, p)
  BY LenProperties, ElementLenOf
<1>2. {"data", "iac", "sb", "sbiac", "IAC", "SB"} \cap Verb = {}
  BY DEF Verb
<1>. SUFFICES ASSUME p \in 1 .. Len(s) PROVE ~(p + ElementLen(s, p) <= Len(s) + 1)
  BY <1>1 DEF Whole
<1>3. CASE st = "iac"
  BY <1>1, <1>2, <1>3 DEF OpenState, ByKind
<1>4. CASE st \in Verb
  BY <1>1, <1>2, <1>4 DEF OpenState, ByKind
<1>5. CASE st \in {"sb", "sbiac"}
  BY <1>1, <1>2, <1>5 DEF OpenState, ByKind
<1>6. st # "data"
  BY <1>1, <1>2 DEF OpenState
<1>. QED
  BY <1>3, <1>4, <1>5, <1>6 DEF State

(* A whole element of s is one of a longer stream. *)
KeptBy(s, t, i) ==
  /\ t[i] = s[i]
  /\ s[i] = "IAC" => t[i + 1] = s[i + 1]
  /\ EndOf(t, i) = EndOf(s, i)
  /\ EndOf(s, i) \in 1 .. Len(s)
  /\ s[i] = "IAC" /\ s[i + 1] \in Verb => EndOf(s, i) \in 3 .. Len(s)

(* The complete elements of a stream stay where they are when it grows.    *)
LEMMA CompleteKept ==
  ASSUME NEW S, NEW s \in Seq(S), NEW b \in S, NEW i \in Complete(s)
  PROVE  KeptBy(s, Append(s, b), i)
<1>. DEFINE t == Append(s, b)
            n == Len(s)
<1>1. n \in Nat /\ \A k \in 1 .. n : t[k] = s[k]
  BY LenProperties, AppendProperties
<1>2. i \in 1 .. n /\ i + ElementLen(s, i) <= n + 1
  BY <1>1, StartsNext DEF Complete
<1>3. Whole(s, i)
  BY <1>2 DEF Whole
<1>4. ElementLen(t, i) = ElementLen(s, i) /\ ElementLen(s, i) \in Nat \ {0}
  BY <1>2, <1>3, ElementGrows
<1>5. ByKind(s, i)
  BY ElementLenOf
<1>6. s[i] = "IAC" => i # n
  BY <1>1, <1>2, <1>5 DEF ByKind
<1>7. EndOf(s, i) \in 1 .. n /\ EndOf(t, i) = EndOf(s, i)
  <2>1. ASSUME NEW k \in Nat \ {0}, k = ElementLen(s, i) PROVE i + k - 1 \in 1 .. n
    BY <1>1, <1>2, <2>1
  <2>2. EndOf(s, i) \in 1 .. n
    BY <1>4, <2>1 DEF EndOf
  <2>. QED
    BY <1>4, <2>2 DEF EndOf
<1>8. ASSUME s[i] = "IAC", s[i + 1] \in Verb PROVE EndOf(s, i) \in 3 .. n
  <2>1. ElementLen(s, i) = 3
    BY <1>5, <1>6, <1>8 DEF ByKind
  <2>. QED
    BY <1>1, <1>2, <2>1 DEF EndOf
<1>9. t[i] = s[i] /\ (i # n => t[i + 1] = s[i + 1])
  BY <1>1, <1>2
<1>. HIDE DEF t
<1>10. KeptBy(s, t, i)
  BY <1>6, <1>7, <1>8, <1>9 DEF KeptBy
<1>. QED
  BY <1>10 DEF t

(* What a stream has gained with a byte that a parser in state st reads.   *)
Gains(s, t, st, b) ==
  /\ HasRead(t, NextState(st, b))
  /\ DataEnds(t) = DataEnds(s) \cup {k \in {Len(s) + 1} : IsData(st, b)}
  /\ CommandEnds(t) = CommandEnds(s) \cup {k \in {Len(s) + 1} : st \in Verb}
  /\ DataEnds(s) \subseteq 1 .. Len(s)
  /\ CommandEnds(s) \subseteq 3 .. Len(s)
  /\ st \in Verb => t[Len(s)] = st

(* One byte later the parser's state again tells the only open element,    *)
(* and the data and command ends have grown by the element that the byte   *)
(* completed, if it did. This is where the parser, which reads byte after  *)
(* byte, and the definition, which measures elements, are seen to agree.   *)
LEMMA ReadNext ==
  ASSUME NEW S, NEW s \in Seq(S), NEW b \in S, NEW st \in State, HasRead(s, st)
  PROVE  Gains(s, Append(s, b), st, b)
<1>. DEFINE t == Append(s, b)
            n == Len(s)
            after == NextState(st, b)
<1>1. n \in Nat /\ Len(t) = n + 1
  BY LenProperties, AppendProperties
<1>2. PICK p \in 1 .. n + 1 : OnlyOpen(s, p) /\ OpenState(s, p, st)
  BY DEF HasRead
<1>3. OpenNext(t, p, st, b, n)
  BY <1>2, OpenGrows
<1>4. ~Whole(s, p)
  BY <1>2, OpenIsNotWhole
<1>5. Starts(t) = NextStarts(t, Starts(s), n + 1) /\ Starts(s) \subseteq 1 .. n + 1
  BY StartsNext
<1>6. ASSUME NEW i \in Starts(s), i # p
      PROVE /\ i \in 1 .. n /\ Whole(s, i) /\ ElementLen(t, i) = ElementLen(s, i)
            /\ i + ElementLen(t, i) <= n + 1 /\ ElementLen(t, i) \in Nat
  <2>1. Whole(s, i) /\ i \in 1 .. n
    BY <1>2, <1>6 DEF OnlyOpen, Whole
  <2>2. ElementLen(t, i) = ElementLen(s, i) /\ ElementLen(s, i) \in Nat
    BY <2>1, ElementGrows
  <2>. QED
    BY <2>1, <2>2 DEF Whole
<1>7. ASSUME NEW i \in Complete(s) PROVE KeptBy(s, t, i)
  BY CompleteKept
<1>21. ElementLen(t, p) \in Nat
  <2>1. t \in Seq(S) /\ p \in 1 .. Len(t)
    BY <1>1, AppendProperties
  <2>. HIDE DEF t
  <2>. QED
    BY <2>1, ElementGrows
<1>. HIDE DEF t
<1>8. n = Len(s)
  OBVIOUS
<1>. HIDE DEF n
<1>9. p \in Starts(s) /\ p \in 1 .. n + 1
  BY <1>2 DEF OnlyOpen
<1>10. n + 2 = (n + 1) + 1
  BY <1>1
<1>11. Starts(t) = Starts(s) \cup {k \in {n + 2} : after = "data"}
  <2>1. (\E j \in Starts(s) : j + ElementLen(t, j) = n + 2) <=> after = "data"
    <3>1. ASSUME NEW j \in Starts(s), j + ElementLen(t, j) = n + 2 PROVE after = "data"
      <4>1. CASE j = p
        BY <1>1, <1>3, <3>1, <4>1 DEF OpenNext
      <4>2. CASE j # p
        BY <1>1, <1>6, <3>1, <4>2
      <4>. QED
        BY <4>1, <4>2
    <3>2. ASSUME after = "data" PROVE p + ElementLen(t, p) = n + 2
      BY <1>3, <3>2 DEF OpenNext
    <3>. QED
      BY <1>9, <3>1, <3>2
  <2>. QED
    BY <1>5, <1>10, <2>1 DEF NextStarts
<1>12. Complete(s) = Starts(s) \ {p}
  <2>1. p \notin Complete(s)
    BY <1>4, <1>8, <1>9 DEF Complete, Whole
  <2>2. ASSUME NEW i \in Starts(s), i # p PROVE i \in Complete(s)
    BY <1>6, <1>8, <2>2 DEF Complete, Whole
  <2>. QED
    BY <2>1, <2>2 DEF Complete
<1>13. Complete(t) = Complete(s) \cup {k \in {p} : after = "data"}
  <2>1. \A i \in Starts(t) : i <= n + 1 => i \in Starts(s)
    BY <1>1, <1>11
  <2>2. ASSUME NEW i \in Complete(t)
        PROVE i \in Complete(s) \/ (i = p /\ after = "data")
    <3>1. i \in Starts(s) /\ i + ElementLen(t, i) <= n + 2
      BY <1>1, <1>10, <2>1 DEF Complete
    <3>2. i = p => after = "data"
      <4>1. ASSUME NEW k \in Nat, p + k <= n + 2 PROVE ~(p + k > n + 2)
        BY <1>1, <1>9, <4>1
      <4>. QED
        BY <1>3, <1>21, <3>1, <4>1 DEF OpenNext
    <3>. QED
      BY <1>12, <3>1, <3>2
  <2>3. ASSUME NEW i \in Complete(s) PROVE i \in Complete(t)
    <3>1. i \in Starts(s) /\ i # p
      BY <1>12
    <3>2. i \in 1 .. n /\ i + ElementLen(t, i) <= n + 1 /\ ElementLen(t, i) \in Nat
      BY <1>6, <3>1
    <3>3. i \in Starts(t) /\ i <= n + 1 /\ i + ElementLen(t, i) <= (n + 1) + 1
      BY <1>1, <1>11, <3>1, <3>2
    <3>. QED
      BY <1>1, <3>3 DEF Complete
  <2>4. ASSUME after = "data" PROVE p \in Complete(t)
    <3>1. p + ElementLen(t, p) = n + 2
      BY <1>3, <2>4 DEF OpenNext
    <3>2. p <= n + 1 /\ n + 2 <= (n + 1) + 1 /\ p \in Starts(t)
      BY <1>1, <1>9, <1>11
    <3>3. p <= Len(t) /\ p + ElementLen(t, p) <= Len(t) + 1
      BY <1>1, <3>1, <3>2
    <3>. QED
      BY <3>2, <3>3 DEF Complete
  <2>. QED
    BY <2>2, <2>3, <2>4
<1>14. after = "data" => EndOf(t, p) = n + 1
  <2>1. after = "data" => p + ElementLen(t, p) = n + 2
    BY <1>3 DEF OpenNext
  <2>2. p \in Nat
    BY <1>1, <1>9
  <2>3. ASSUME NEW k \in Nat, p + k = n + 2 PROVE p + k - 1 = n + 1
    BY <1>1, <2>2, <2>3
  <2>. QED
    BY <1>21, <2>1, <2>3 DEF EndOf
<1>15. DataEnds(t) = DataEnds(s) \cup {k \in {n + 1} : IsData(st, b)}
  <2>1. IsData(st, b) <=> after = "data" /\ (t[p] # "IAC" \/ t[p + 1] = "IAC")
    BY <1>3 DEF OpenNext
  <2>2. \A i \in Complete(s) :
           /\ (t[i] # "IAC" \/ t[i + 1] = "IAC") <=> (s[i] # "IAC" \/ s[i + 1] = "IAC")
           /\ EndOf(t, i) = EndOf(s, i)
    BY <1>7 DEF KeptBy
  <2>3. ASSUME NEW x \in DataEnds(t) PROVE x \in DataEnds(s) \/ (x = n + 1 /\ IsData(st, b))
    <3>1. PICK i \in Complete(t) : (t[i] # "IAC" \/ t[i + 1] = "IAC") /\ x = EndOf(t, i)
      BY DEF DataEnds
    <3>2. CASE i \in Complete(s)
      BY <2>2, <3>1, <3>2 DEF DataEnds
    <3>3. CASE i = p /\ after = "data"
      BY <1>14, <2>1, <3>1, <3>3
    <3>. QED
      BY <1>13, <3>2, <3>3
  <2>4. ASSUME NEW x \in DataEnds(s) PROVE x \in DataEnds(t)
    <3>1. PICK i \in Complete(s) : (s[i] # "IAC" \/ s[i + 1] = "IAC") /\ x = EndOf(s, i)
      BY DEF DataEnds
    <3>. QED
      BY <1>13, <2>2, <3>1 DEF DataEnds
  <2>5. ASSUME IsData(st, b) PROVE n + 1 \in DataEnds(t)
    BY <1>13, <1>14, <2>1, <2>5 DEF DataEnds
  <2>. QED
    BY <2>3, <2>4, <2>5
<1>16. CommandEnds(t) = CommandEnds(s) \cup {k \in {n + 1} : st \in Verb}
  <2>1. st \in Verb <=> after = "data" /\ t[p] = "IAC" /\ t[p + 1] \in Verb
    BY <1>3 DEF OpenNext
  <2>2. \A i \in Complete(s) :
           /\ (t[i] = "IAC" /\ t[i + 1] \in Verb) <=> (s[i] = "IAC" /\ s[i + 1] \in Verb)
           /\ EndOf(t, i) = EndOf(s, i)
    BY <1>7 DEF KeptBy
  <2>3. ASSUME NEW x \in CommandEnds(t) PROVE x \in CommandEnds(s) \/ (x = n + 1 /\ st \in Verb)
    <3>1. PICK i \in Complete(t) : t[i] = "IAC" /\ t[i + 1] \in Verb /\ x = EndOf(t, i)
      BY DEF CommandEnds
    <3>2. CASE i \in Complete(s)
      BY <2>2, <3>1, <3>2 DEF CommandEnds
    <3>3. CASE i = p /\ after = "data"
      BY <1>14, <2>1, <3>1, <3>3
    <3>. QED
      BY <1>13, <3>2, <3>3
  <2>4. ASSUME NEW x \in CommandEnds(s) PROVE x \in CommandEnds(t)
    <3>1. PICK i \in Complete(s) : s[i] = "IAC" /\ s[i + 1] \in Verb /\ x = EndOf(s, i)
      BY DEF CommandEnds
    <3>. QED
      BY <1>13, <2>2, <3>1 DEF CommandEnds
  <2>5. ASSUME st \in Verb PROVE n + 1 \in CommandEnds(t)
    BY <1>13, <1>14, <2>1, <2>5 DEF CommandEnds
  <2>. QED
    BY <2>3, <2>4, <2>5
<1>17. DataEnds(s) \subseteq 1 .. n /\ CommandEnds(s) \subseteq 3 .. n
  <2>1. ASSUME NEW i \in Complete(s)
        PROVE /\ EndOf(s, i) \in 1 .. n
              /\ s[i] = "IAC" /\ s[i + 1] \in Verb => EndOf(s, i) \in 3 .. n
    BY <1>7, <1>8 DEF KeptBy
  <2>. QED
    BY <2>1 DEF DataEnds, CommandEnds
<1>18. HasRead(t, after)
  <2>1. ASSUME NEW i \in Starts(s), i # p PROVE Whole(t, i)
    <3>1. i \in 1 .. n /\ i + ElementLen(t, i) <= n + 1 /\ ElementLen(t, i) \in Nat
      BY <1>6, <2>1
    <3>. QED
      BY <1>1, <3>1 DEF Whole
  <2>2. CASE after = "data"
    <3>1. Whole(t, p)
      BY <1>1, <1>3, <1>9, <1>10, <2>2 DEF OpenNext, Whole
    <3>2. OnlyOpen(t, n + 2)
      BY <1>11, <2>1, <2>2, <3>1 DEF OnlyOpen
    <3>3. OpenState(t, n + 2, "data") /\ n + 2 \in 1 .. Len(t) + 1
      BY <1>1, <1>10 DEF OpenState
    <3>. QED
      BY <2>2, <3>2, <3>3 DEF HasRead
  <2>3. CASE after # "data"
    <3>1. OpenState(t, p, after)
      BY <1>3, <2>3 DEF OpenNext
    <3>2. OnlyOpen(t, p)
      BY <1>9, <1>11, <2>1, <2>3 DEF OnlyOpen
    <3>3. p \in 1 .. Len(t) + 1
      BY <1>1, <1>9
    <3>. QED
      BY <3>1, <3>2, <3>3 DEF HasRead
  <2>. QED
    BY <2>2, <2>3
<1>19. st \in Verb => t[n] = st
  BY <1>3 DEF OpenNext
<1>. HIDE DEF after
<1>20. Gains(s, t, st, b)
  BY <1>8, <1>15, <1>16, <1>17, <1>18, <1>19 DEF Gains, after
<1>. QED
  BY <1>20 DEF t

-----------------------------------------------------------------------------
(* Data and commands, as a stream grows. *)

(* The positions in order are members of the set, none beyond the end.     *)
LEMMA InOrderIn ==
  ASSUME NEW n \in Nat, NEW at
  PROVE  InOrder(n, at) \in Seq(at \cap 1 .. n)
<1>. DEFINE N == {m \in Nat : InOrder(m, at) \in Seq(at \cap 1 .. m)}
<1>1. ASSUME NEW m \in Nat
      PROVE /\ InOrder(0, at) = <<>>
            /\ InOrder(m + 1, at) = IF m + 1 \in at THEN Append(InOrder(m, at), m + 1)
                                    ELSE InOrder(m, at)
  <2>1. SameUpTo(at, at, m)
    BY DEF SameUpTo
  <2>. QED
    BY <2>1, InOrderNext
<1>2. 0 \in N
  BY <1>1, EmptySeq
<1>3. ASSUME NEW m \in Nat, m \in N PROVE m + 1 \in N
  <2>. DEFINE A == at \cap 1 .. m
              B == at \cap 1 .. m + 1
  <2>1. A \subseteq B /\ (m + 1 \in at => m + 1 \in B)
    OBVIOUS
  <2>2. InOrder(m, at) \in Seq(A)
    BY <1>3
  <2>. HIDE DEF A, B
  <2>3. InOrder(m, at) \in Seq(B)
    BY <2>1, <2>2, SeqMonotonic
  <2>4. m + 1 \in at => Append(InOrder(m, at), m + 1) \in Seq(B)
    BY <2>1, <2>3, AppendProperties
  <2>5. InOrder(m + 1, at) \in Seq(B)
    <3>1. InOrder(m + 1, at) = IF m + 1 \in at THEN Append(InOrder(m, at), m + 1)
                              ELSE InOrder(m, at)
      BY <1>1
    <3>. QED
      BY <2>3, <2>4, <3>1
  <2>6. InOrder(m + 1, at) \in Seq(at \cap 1 .. m + 1)
    BY <2>5 DEF B
  <2>. QED
    BY <2>6
<1>. HIDE DEF N
<1>4. Nat \subseteq N
  BY <1>2, <1>3, Climb
<1>. QED
  BY <1>4 DEF N

Pick(at, F) == [k \in DOMAIN at |-> F[at[k]]]
AgreeOn(F, G, D) == \A x \in D : F[x] = G[x]

(* What is picked is as long as the list of positions.                     *)
LEMMA PickType ==
  ASSUME NEW D, NEW at \in Seq(D), NEW V, NEW F, \A x \in D : F[x] \in V
  PROVE  Pick(at, F) \in Seq(V) /\ Len(Pick(at, F)) = Len(at) /\ DOMAIN Pick(at, F) = 1 .. Len(at)
<1>1. Len(at) \in Nat /\ DOMAIN at = 1 .. Len(at) /\ \A k \in 1 .. Len(at) : at[k] \in D
  BY LenProperties, ElementOfSeq
<1>2. Pick(at, F) \in [1 .. Len(at) -> V]
  BY <1>1 DEF Pick
<1>3. Pick(at, F) \in Seq(V)
  BY <1>1, <1>2, SeqDef
<1>. QED
  BY <1>1, <1>2, <1>3

(* To pick at one position more is to append what is there.                *)
LEMMA PickNext ==
  ASSUME NEW D, NEW at \in Seq(D), NEW F, NEW G, AgreeOn(F, G, D), NEW e
  PROVE  /\ Pick(at, G) = Pick(at, F)
         /\ Pick(Append(at, e), G) = Append(Pick(at, F), G[e])
         /\ Pick(<<>>, F) = <<>>
<1>1. Len(at) \in Nat /\ DOMAIN at = 1 .. Len(at) /\ \A k \in 1 .. Len(at) : at[k] \in D
  BY LenProperties, ElementOfSeq
<1>2. Pick(at, G) = Pick(at, F)
  BY <1>1 DEF Pick, AgreeOn
<1>. DEFINE V == {F[x] : x \in D} \cup {G[e]}
            E == D \cup {e}
            m == Len(at)
            u == Append(at, e)
            left == Pick(u, G)
            right == Append(Pick(at, F), G[e])
<1>3. Pick(at, F) \in Seq(V) /\ Len(Pick(at, F)) = m /\ G[e] \in V
  <2>1. \A x \in D : F[x] \in V
    OBVIOUS
  <2>. HIDE DEF V
  <2>2. Pick(at, F) \in Seq(V) /\ Len(Pick(at, F)) = m
    BY <2>1, PickType
  <2>. QED
    BY <2>2 DEF V
<1>4. /\ right \in Seq(V) /\ Len(right) = m + 1 /\ right[m + 1] = G[e]
      /\ \A k \in 1 .. m : right[k] = Pick(at, F)[k]
  <2>. HIDE DEF V
  <2>. QED
    BY <1>1, <1>3, AppendProperties
<1>5. u \in Seq(E) /\ Len(u) = m + 1 /\ u[m + 1] = e /\ \A k \in 1 .. m : u[k] = at[k]
  <2>1. at \in Seq(E) /\ e \in E
    BY SeqMonotonic
  <2>. HIDE DEF E
  <2>. QED
    BY <2>1, AppendProperties
<1>6. left \in Seq(V) /\ Len(left) = m + 1
  <2>1. \A x \in E : G[x] \in V
    BY DEF AgreeOn
  <2>. HIDE DEF V, E, u
  <2>. QED
    BY <1>5, <2>1, PickType
<1>7. ASSUME NEW k \in 1 .. m + 1 PROVE left[k] = right[k]
  <2>1. DOMAIN u = 1 .. m + 1
    BY <1>1, <1>5
  <2>2. left[k] = G[u[k]]
    BY <2>1 DEF Pick
  <2>3. CASE k = m + 1
    BY <1>4, <1>5, <2>2, <2>3
  <2>4. CASE k # m + 1
    <3>1. k \in 1 .. m
      BY <1>1, <2>4
    <3>2. left[k] = G[at[k]] /\ at[k] \in D /\ right[k] = F[at[k]]
      BY <1>1, <1>4, <1>5, <2>2, <3>1 DEF Pick
    <3>. QED
      BY <3>2 DEF AgreeOn
  <2>. QED
    BY <2>3, <2>4
<1>8. left = right
  <2>. HIDE DEF left, right, V, m
  <2>. QED
    BY <1>4, <1>6, <1>7, SeqEqual
<1>9. Pick(<<>>, F) = <<>>
  BY DEF Pick
<1>. QED
  BY <1>2, <1>8, <1>9

CommandAt(s) == [a \in 2 .. Len(s) |-> <<s[a - 1], s[a]>>]

LEMMA DataPicked == \A s : DataOf(s) = Pick(InOrder(Len(s), DataEnds(s)), s)
BY DEF DataOf, Pick

(* Commands are picked at the places where they end.                       *)
LEMMA CommandsPicked ==
  ASSUME NEW S, NEW s \in Seq(S), NEW at \in Seq(3 .. Len(s)),
         at = InOrder(Len(s), CommandEnds(s))
  PROVE  CommandsOf(s) = Pick(at, CommandAt(s))
<1>1. \A k \in DOMAIN at : at[k] \in 2 .. Len(s)
  <2>1. \A k \in DOMAIN at : at[k] \in 3 .. Len(s)
    OBVIOUS
  <2>. QED
    BY <2>1, LenProperties
<1>. QED
  BY <1>1 DEF CommandsOf, Pick, CommandAt

(* What a parser in state st makes of the next byte is what it means.      *)
Understood(s, t, st, b) ==
  /\ HasRead(t, NextState(st, b))
  /\ DataOf(t) = IF IsData(st, b) THEN Append(DataOf(s), b) ELSE DataOf(s)
  /\ CommandsOf(t) = IF st \in Verb THEN Append(CommandsOf(s), <<st, b>>) ELSE CommandsOf(s)

(* One byte later the data has grown by the byte if the parser takes it    *)
(* for data, and the commands by the verb and the byte if it answers it;   *)
(* nothing else changes.                                                   *)
LEMMA ReadOn ==
  ASSUME NEW S, NEW s \in Seq(S), NEW b \in S, NEW st \in State, HasRead(s, st)
  PROVE  Understood(s, Append(s, b), st, b)
<1>. DEFINE t == Append(s, b)
            n == Len(s)
<1>1. /\ n \in Nat /\ Len(t) = n + 1 /\ t \in Seq(S) /\ t[n + 1] = b
      /\ \A k \in 1 .. n : t[k] = s[k]
  BY LenProperties, AppendProperties
<1>2. Gains(s, t, st, b)
  BY ReadNext
<1>. HIDE DEF t
<1>3. n = Len(s)
  OBVIOUS
<1>. HIDE DEF n
<1>4. HasRead(t, NextState(st, b))
  BY <1>2 DEF Gains
<1>5. DataOf(t) = IF IsData(st, b) THEN Append(DataOf(s), b) ELSE DataOf(s)
  <2>. DEFINE A == DataEnds(s)
              B == DataEnds(t)
              at == InOrder(n, A)
              bt == InOrder(n + 1, B)
  <2>1. B = A \cup {k \in {n + 1} : IsData(st, b)} /\ A \subseteq 1 .. n
    BY <1>2, <1>3 DEF Gains
  <2>. HIDE DEF A, B
  <2>2. n + 1 \in B <=> IsData(st, b)
    BY <1>1, <2>1
  <2>3. SameUpTo(A, B, n)
    BY <1>1, <2>1 DEF SameUpTo
  <2>4. bt = IF n + 1 \in B THEN Append(at, n + 1) ELSE at
    BY <1>1, <2>3, InOrderNext
  <2>5. at \in Seq(1 .. n)
    <3>1. at \in Seq(A \cap 1 .. n) /\ A \cap 1 .. n = 1 .. n \cap A
      BY <1>1, InOrderIn
    <3>. HIDE DEF at
    <3>. QED
      BY <3>1, SeqMonotonic
  <2>6. DataOf(s) = Pick(at, s) /\ DataOf(t) = Pick(bt, t)
    BY <1>1, <1>3, DataPicked DEF A, B
  <2>. HIDE DEF at, bt
  <2>7. AgreeOn(s, t, 1 .. n)
    BY <1>1 DEF AgreeOn
  <2>8. Pick(at, t) = Pick(at, s) /\ Pick(Append(at, n + 1), t) = Append(Pick(at, s), t[n + 1])
    BY <2>5, <2>7, PickNext
  <2>. QED
    BY <1>1, <2>2, <2>4, <2>6, <2>8
<1>6. CommandsOf(t) = IF st \in Verb THEN Append(CommandsOf(s), <<st, b>>) ELSE CommandsOf(s)
  <2>. DEFINE A == CommandEnds(s)
              B == CommandEnds(t)
              at == InOrder(n, A)
              bt == InOrder(n + 1, B)
  <2>1. B = A \cup {k \in {n + 1} : st \in Verb} /\ A \subseteq 3 .. n
    BY <1>2, <1>3 DEF Gains
  <2>2. B \subseteq 3 .. n + 1
    <3>1. st \in Verb => n + 1 \in 3 .. n + 1
      <4>1. PICK p \in 1 .. n + 1 : OpenState(s, p, st)
        BY <1>3 DEF HasRead
      <4>2. st \in Verb => p + 1 = n
        BY <1>3, <4>1 DEF OpenState, Verb
      <4>. QED
        BY <1>1, <4>2
    <3>. QED
      BY <1>1, <2>1, <3>1
  <2>. HIDE DEF A, B
  <2>3. n + 1 \in B <=> st \in Verb
    BY <1>1, <2>1
  <2>4. SameUpTo(A, B, n)
    BY <1>1, <2>1 DEF SameUpTo
  <2>5. bt = IF n + 1 \in B THEN Append(at, n + 1) ELSE at
    BY <1>1, <2>4, InOrderNext
  <2>6. at \in Seq(3 .. n)
    <3>1. at \in Seq(A \cap 1 .. n) /\ A \cap 1 .. n \subseteq 3 .. n
      BY <1>1, <2>1, InOrderIn
    <3>. HIDE DEF at
    <3>. QED
      BY <3>1, SeqMonotonic
  <2>7. bt \in Seq(3 .. n + 1)
    <3>1. bt \in Seq(B \cap 1 .. n + 1) /\ B \cap 1 .. n + 1 \subseteq 3 .. n + 1
      BY <1>1, <2>2, InOrderIn
    <3>. HIDE DEF bt
    <3>. QED
      BY <3>1, SeqMonotonic
  <2>8. CommandsOf(s) = Pick(at, CommandAt(s)) /\ CommandsOf(t) = Pick(bt, CommandAt(t))
    <3>1. at = InOrder(Len(s), CommandEnds(s)) /\ at \in Seq(3 .. Len(s))
      BY <1>3, <2>6 DEF A
    <3>2. bt = InOrder(Len(t), CommandEnds(t)) /\ bt \in Seq(3 .. Len(t))
      BY <1>1, <2>7 DEF B
    <3>. HIDE DEF at, bt
    <3>. QED
      BY <1>1, <3>1, <3>2, CommandsPicked
  <2>. HIDE DEF at, bt
  <2>9. AgreeOn(CommandAt(s), CommandAt(t), 3 .. n)
    <3>1. ASSUME NEW a \in 3 .. n PROVE CommandAt(s)[a] = CommandAt(t)[a]
      <4>1. a \in 2 .. n /\ a \in 2 .. n + 1 /\ a \in 1 .. n /\ a - 1 \in 1 .. n
        BY <1>1
      <4>. QED
        BY <1>1, <1>3, <4>1 DEF CommandAt
    <3>. QED
      BY <3>1 DEF AgreeOn
  <2>10. Pick(at, CommandAt(t)) = Pick(at, CommandAt(s))
         /\ Pick(Append(at, n + 1), CommandAt(t)) = Append(Pick(at, CommandAt(s)), CommandAt(t)[n + 1])
    BY <2>6, <2>9, PickNext
  <2>11. st \in Verb => CommandAt(t)[n + 1] = <<st, b>>
    <3>1. SUFFICES ASSUME st \in Verb PROVE CommandAt(t)[n + 1] = <<st, b>>
      OBVIOUS
    <3>2. t[n] = st
      BY <1>2, <1>3, <3>1 DEF Gains
    <3>3. n + 1 \in 3 .. n + 1
      BY <2>2, <2>3, <3>1
    <3>4. n + 1 \in 2 .. n + 1 /\ (n + 1) - 1 = n
      BY <1>1, <3>3
    <3>. QED
      BY <1>1, <3>2, <3>4 DEF CommandAt
  <2>. QED
    BY <2>3, <2>5, <2>8, <2>10, <2>11
<1>7. Understood(s, t, st, b)
  BY <1>4, <1>5, <1>6 DEF Understood
<1>. QED
  BY <1>7 DEF t

(* A stream without bytes has no data and no commands.                     *)
LEMMA NothingRead ==
  HasRead(<<>>, "data") /\ DataOf(<<>>) = <<>> /\ CommandsOf(<<>>) = <<>>
<1>1. <<>> \in Seq({}) /\ Len(<<>>) = 0
  BY EmptySeq
<1>2. Starts(<<>>) = {1}
  <2>1. <<>> \in Seq({1})
    OBVIOUS
  <2>. QED
    BY <2>1, StartsNext
<1>3. OnlyOpen(<<>>, 1) /\ OpenState(<<>>, 1, "data")
  BY <1>1, <1>2 DEF OnlyOpen, OpenState
<1>4. \A at : InOrder(0, at) = <<>>
  <2>1. ASSUME NEW at PROVE InOrder(0, at) = <<>>
    <3>1. SameUpTo(at, at, 0)
      BY DEF SameUpTo
    <3>. QED
      BY <3>1, InOrderNext
  <2>. QED
    BY <2>1
<1>5. DataOf(<<>>) = <<>> /\ CommandsOf(<<>>) = <<>>
  BY <1>1, <1>4 DEF DataOf, CommandsOf
<1>. QED
  BY <1>1, <1>3, <1>5 DEF HasRead

-----------------------------------------------------------------------------
(* What the pump adds to a stream. *)

(* Data bytes are bytes of the stream.                                     *)
LEMMA DataType ==
  ASSUME NEW S, NEW s \in Seq(S)
  PROVE  DataOf(s) \in Seq(S)
<1>. DEFINE D == DataEnds(s) \cap 1 .. Len(s)
            at == InOrder(Len(s), DataEnds(s))
<1>1. Len(s) \in Nat /\ \A x \in 1 .. Len(s) : s[x] \in S
  BY LenProperties, ElementOfSeq
<1>2. at \in Seq(D)
  BY <1>1, InOrderIn
<1>3. DataOf(s) = Pick(at, s)
  BY DataPicked
<1>4. \A x \in D : s[x] \in S
  BY <1>1
<1>. HIDE DEF D, at
<1>. QED
  BY <1>2, <1>3, <1>4, PickType

(* Commands are pairs of bytes of the stream.                              *)
LEMMA CommandsType ==
  ASSUME NEW S, NEW s \in Seq(S), NEW e \in S
  PROVE  CommandsOf(s) \in Seq(S \X S)
<1>. DEFINE n == Len(s)
            at == InOrder(n, CommandEnds(s))
<1>1. n \in Nat /\ \A x \in 1 .. n : s[x] \in S
  BY LenProperties, ElementOfSeq
<1>2. CommandEnds(s) \subseteq 3 .. n
  <2>1. ASSUME NEW i \in Complete(s), s[i] = "IAC", s[i + 1] \in Verb PROVE EndOf(s, i) \in 3 .. n
    <3>1. KeptBy(s, Append(s, e), i)
      BY CompleteKept
    <3>. QED
      BY <2>1, <3>1 DEF KeptBy
  <2>. QED
    BY <2>1 DEF CommandEnds
<1>3. at \in Seq(3 .. n)
  <2>1. at \in Seq(CommandEnds(s) \cap 1 .. n) /\ CommandEnds(s) \cap 1 .. n \subseteq 3 .. n
    BY <1>1, <1>2, InOrderIn
  <2>. HIDE DEF at
  <2>. QED
    BY <2>1, SeqMonotonic
<1>4. at = InOrder(Len(s), CommandEnds(s))
  OBVIOUS
<1>. HIDE DEF at
<1>5. CommandsOf(s) = Pick(at, CommandAt(s))
  BY <1>3, <1>4, CommandsPicked
<1>6. \A x \in 3 .. n : CommandAt(s)[x] \in S \X S
  <2>1. ASSUME NEW x \in 3 .. n PROVE CommandAt(s)[x] \in S \X S
    <3>1. x \in 2 .. n /\ x \in 1 .. n /\ x - 1 \in 1 .. n
      BY <1>1
    <3>. QED
      BY <1>1, <3>1 DEF CommandAt
  <2>. QED
    BY <2>1
<1>. QED
  BY <1>3, <1>5, <1>6, PickType

Stream == Seq(WireByte)

(* ReadOn, for what may be on the wire.                                    *)
LEMMA StreamNext ==
  ASSUME NEW s \in Stream, NEW b \in WireByte, NEW st \in State, HasRead(s, st)
  PROVE  Append(s, b) \in Stream /\ Understood(s, Append(s, b), st, b)
<1>1. s \in Seq(WireByte)
  BY DEF Stream
<1>. QED
  BY <1>1, ReadOn, AppendProperties DEF Stream

(* DataType and CommandsType, for what may be on the wire.                 *)
LEMMA StreamTypes ==
  ASSUME NEW s \in Stream
  PROVE  DataOf(s) \in Stream /\ CommandsOf(s) \in Seq(WireByte \X WireByte)
<1>1. s \in Seq(WireByte) /\ "IAC" \in WireByte
  BY DEF Stream, WireByte
<1>. QED
  BY <1>1, DataType, CommandsType DEF Stream

(* A stream that ends outside an element goes on with u, which brings the  *)
(* data d and the commands c.                                              *)
GoesOn(w, v, d, c) ==
  /\ v \in Stream /\ HasRead(v, "data")
  /\ DataOf(v) = DataOf(w) \o d
  /\ CommandsOf(v) = CommandsOf(w) \o c

(* Nothing sent, nothing gained.                                           *)
LEMMA NoGain ==
  ASSUME NEW w \in Stream, HasRead(w, "data")
  PROVE  GoesOn(w, w, <<>>, <<>>)
<1>1. DataOf(w) \in Stream /\ CommandsOf(w) \in Seq(WireByte \X WireByte)
  BY StreamTypes
<1>. QED
  BY <1>1, ConcatEmptySeq DEF GoesOn, Stream

(* Two bytes, one after the other.                                         *)
LEMMA AppendTwo ==
  ASSUME NEW S, NEW w \in Seq(S), NEW a \in S, NEW b \in S
  PROVE  w \o <<a, b>> = Append(Append(w, a), b)
OBVIOUS

(* Three bytes, one after the other.                                       *)
LEMMA AppendThree ==
  ASSUME NEW S, NEW w \in Seq(S), NEW a \in S, NEW b \in S, NEW c \in S
  PROVE  w \o <<a, b, c>> = Append(Append(Append(w, a), b), c)
OBVIOUS

Shifts(w, q, b) == Append(w \o q, b) = w \o Append(q, b)
Groups(w, q, r) == w \o (q \o r) = (w \o q) \o r

LEMMA AppendToConcat ==
  ASSUME NEW S, NEW w \in Seq(S), NEW q \in Seq(S), NEW b \in S
  PROVE  Shifts(w, q, b)
BY DEF Shifts

LEMMA ConcatGroups ==
  ASSUME NEW S, NEW w \in Seq(S), NEW q \in Seq(S), NEW r \in Seq(S)
  PROVE  Groups(w, q, r)
BY ConcatAssociative DEF Groups

StatesDiffer == {"data", "iac", "IAC", "CMD", "SB"} \cap Verb = {}
LEMMA Different == StatesDiffer
BY DEF StatesDiffer, Verb

(* The peer reads an encoded byte as that byte, 255 included.              *)
LEMMA EncodeGoesOn ==
  ASSUME NEW w \in Stream, HasRead(w, "data"), NEW b \in WireByte
  PROVE  GoesOn(w, w \o Encode(b), <<b>>, <<>>)
<1>1. w \in Seq(WireByte) /\ "data" \in State /\ "iac" \in State
  BY DEF Stream, State
<1>2. DataOf(w) \in Stream /\ CommandsOf(w) \in Seq(WireByte \X WireByte)
  BY StreamTypes
<1>3. DataOf(w) \o <<b>> = Append(DataOf(w), b) /\ CommandsOf(w) \o <<>> = CommandsOf(w)
  BY <1>2, AppendIsConcat, ConcatEmptySeq DEF Stream
<1>4. CASE b # "IAC"
  <2>1. w \o Encode(b) = Append(w, b)
    BY <1>1, <1>4, AppendIsConcat DEF Encode
  <2>2. Append(w, b) \in Stream /\ Understood(w, Append(w, b), "data", b)
    BY <1>1, StreamNext
  <2>3. NextState("data", b) = "data" /\ IsData("data", b) /\ "data" \notin Verb
    BY <1>4, Different DEF NextState, IsData, StatesDiffer
  <2>. QED
    BY <1>3, <2>1, <2>2, <2>3 DEF Understood, GoesOn
<1>5. CASE b = "IAC"
  <2>. DEFINE u == Append(w, b)
              v == Append(u, b)
  <2>1. w \o Encode(b) = v
    BY <1>1, <1>5, AppendTwo DEF Encode
  <2>2. u \in Stream /\ Understood(w, u, "data", b)
    BY <1>1, StreamNext
  <2>3. NextState("data", b) = "iac" /\ ~IsData("data", b) /\ "data" \notin Verb
    BY <1>5, Different DEF NextState, IsData, StatesDiffer
  <2>4. HasRead(u, "iac") /\ DataOf(u) = DataOf(w) /\ CommandsOf(u) = CommandsOf(w)
    BY <2>2, <2>3 DEF Understood
  <2>. HIDE DEF u
  <2>5. v \in Stream /\ Understood(u, v, "iac", b)
    BY <1>1, <2>2, <2>4, StreamNext
  <2>6. NextState("iac", b) = "data" /\ IsData("iac", b) /\ "iac" \notin Verb
    BY <1>5, Different DEF NextState, IsData, StatesDiffer
  <2>. HIDE DEF v
  <2>. QED
    BY <1>3, <2>1, <2>4, <2>5, <2>6 DEF Understood, GoesOn
<1>. QED
  BY <1>4, <1>5

(* The peer reads an IAC, a verb and an option as one command.             *)
LEMMA CommandGoesOn ==
  ASSUME NEW w \in Stream, HasRead(w, "data"), NEW verb \in Verb, NEW b \in WireByte
  PROVE  GoesOn(w, w \o <<"IAC", verb, b>>, <<>>, <<<<verb, b>>>>)
<1>1. /\ w \in Seq(WireByte) /\ "data" \in State /\ "iac" \in State /\ verb \in State
      /\ "IAC" \in WireByte /\ verb \in WireByte
  BY DEF Stream, State, WireByte
<1>2. DataOf(w) \in Stream /\ CommandsOf(w) \in Seq(WireByte \X WireByte)
  BY StreamTypes
<1>3. DataOf(w) \o <<>> = DataOf(w)
      /\ CommandsOf(w) \o <<<<verb, b>>>> = Append(CommandsOf(w), <<verb, b>>)
  <2>1. <<verb, b>> \in WireByte \X WireByte
    BY <1>1
  <2>. QED
    BY <1>2, <2>1, AppendIsConcat, ConcatEmptySeq DEF Stream
<1>. DEFINE u == Append(w, "IAC")
            v == Append(u, verb)
            x == Append(v, b)
<1>4. w \o <<"IAC", verb, b>> = x
  BY <1>1, AppendThree
<1>5. u \in Stream /\ Understood(w, u, "data", "IAC")
  BY <1>1, StreamNext
<1>6. NextState("data", "IAC") = "iac" /\ ~IsData("data", "IAC") /\ "data" \notin Verb
  BY Different DEF NextState, IsData, StatesDiffer
<1>7. HasRead(u, "iac") /\ DataOf(u) = DataOf(w) /\ CommandsOf(u) = CommandsOf(w)
  BY <1>5, <1>6 DEF Understood
<1>. HIDE DEF u
<1>8. v \in Stream /\ Understood(u, v, "iac", verb)
  BY <1>1, <1>5, <1>7, StreamNext
<1>9. NextState("iac", verb) = verb /\ ~IsData("iac", verb) /\ "iac" \notin Verb
  BY Different DEF NextState, IsData, StatesDiffer
<1>10. HasRead(v, verb) /\ DataOf(v) = DataOf(w) /\ CommandsOf(v) = CommandsOf(w)
  BY <1>7, <1>8, <1>9 DEF Understood
<1>. HIDE DEF v
<1>11. x \in Stream /\ Understood(v, x, verb, b)
  BY <1>1, <1>8, <1>10, StreamNext
<1>12. NextState(verb, b) = "data" /\ ~IsData(verb, b)
  BY DEF NextState, IsData, Verb
<1>. HIDE DEF x
<1>. QED
  BY <1>3, <1>4, <1>10, <1>11, <1>12 DEF Understood, GoesOn

(* The peer reads a break as neither data nor command.                     *)
LEMMA BreakGoesOn ==
  ASSUME NEW w \in Stream, HasRead(w, "data")
  PROVE  GoesOn(w, w \o <<"IAC", "CMD">>, <<>>, <<>>)
<1>1. /\ w \in Seq(WireByte) /\ "data" \in State /\ "iac" \in State
      /\ "IAC" \in WireByte /\ "CMD" \in WireByte
  BY DEF Stream, State, WireByte
<1>2. DataOf(w) \in Stream /\ CommandsOf(w) \in Seq(WireByte \X WireByte)
  BY StreamTypes
<1>3. DataOf(w) \o <<>> = DataOf(w) /\ CommandsOf(w) \o <<>> = CommandsOf(w)
  BY <1>2, ConcatEmptySeq DEF Stream
<1>. DEFINE u == Append(w, "IAC")
            v == Append(u, "CMD")
<1>4. w \o <<"IAC", "CMD">> = v
  BY <1>1, AppendTwo
<1>5. u \in Stream /\ Understood(w, u, "data", "IAC")
  BY <1>1, StreamNext
<1>6. NextState("data", "IAC") = "iac" /\ ~IsData("data", "IAC") /\ "data" \notin Verb
  BY Different DEF NextState, IsData, StatesDiffer
<1>7. HasRead(u, "iac") /\ DataOf(u) = DataOf(w) /\ CommandsOf(u) = CommandsOf(w)
  BY <1>5, <1>6 DEF Understood
<1>. HIDE DEF u
<1>8. v \in Stream /\ Understood(u, v, "iac", "CMD")
  BY <1>1, <1>5, <1>7, StreamNext
<1>9. NextState("iac", "CMD") = "data" /\ ~IsData("iac", "CMD") /\ "iac" \notin Verb
  BY Different DEF NextState, IsData, StatesDiffer
<1>. HIDE DEF v
<1>. QED
  BY <1>3, <1>4, <1>7, <1>8, <1>9 DEF Understood, GoesOn

(* What two parts of a stream bring adds up.                               *)
LEMMA GoOnTwice ==
  ASSUME NEW w \in Stream, NEW v, NEW x,
         NEW d \in Stream, NEW e \in Stream,
         NEW c \in Seq(WireByte \X WireByte), NEW f \in Seq(WireByte \X WireByte),
         GoesOn(w, v, d, c), GoesOn(v, x, e, f)
  PROVE  GoesOn(w, x, d \o e, c \o f)
<1>1. DataOf(w) \in Seq(WireByte) /\ CommandsOf(w) \in Seq(WireByte \X WireByte)
      /\ d \in Seq(WireByte) /\ e \in Seq(WireByte)
  BY StreamTypes DEF Stream
<1>2. Groups(DataOf(w), d, e)
  BY <1>1, ConcatGroups
<1>3. Groups(CommandsOf(w), c, f)
  <2>. DEFINE P == WireByte \X WireByte
  <2>1. CommandsOf(w) \in Seq(P) /\ c \in Seq(P) /\ f \in Seq(P)
    BY <1>1
  <2>. HIDE DEF P
  <2>. QED
    BY <2>1, ConcatGroups
<1>. QED
  BY <1>2, <1>3 DEF GoesOn, Groups

(* What the guest wrote, doubled where need be, is read as it was written. *)
LEMMA EncodedGoesOn ==
  ASSUME NEW w \in Stream, HasRead(w, "data"), NEW q \in Stream
  PROVE  GoesOn(w, w \o Encoded(q), q, <<>>)
<1>. DEFINE Q == {r \in Stream : GoesOn(w, w \o Encoded(r), r, <<>>)}
<1>1. <<>> \in Q
  <2>1. Encoded(<<>>) = <<>> /\ <<>> \in Stream
    <3>1. <<>> \in Seq(WireByte) /\ "IAC" \in WireByte
      BY DEF WireByte
    <3>. QED
      BY <3>1, EncodedNext DEF Stream
  <2>2. w \o <<>> = w
    BY ConcatEmptySeq DEF Stream
  <2>. QED
    BY <2>1, <2>2, NoGain
<1>2. ASSUME NEW r \in Seq(WireByte), NEW b \in WireByte, r \in Q PROVE Append(r, b) \in Q
  <2>1. Encoded(r) \in Seq(WireByte) /\ Encoded(Append(r, b)) = Encoded(r) \o Encode(b)
    BY EncodedNext
  <2>2. Encode(b) \in Seq(WireByte)
    BY DEF Encode
  <2>3. w \o Encoded(Append(r, b)) = (w \o Encoded(r)) \o Encode(b)
    <3>1. w \in Seq(WireByte)
      BY DEF Stream
    <3>2. Encoded(r) \in Seq(WireByte)
      BY <2>1
    <3>3. Groups(w, Encoded(r), Encode(b))
      BY <2>2, <3>1, <3>2, ConcatGroups
    <3>. QED
      BY <2>1, <3>3, Zenon DEF Groups
  <2>. DEFINE v == w \o Encoded(r)
  <2>4. GoesOn(w, v, r, <<>>)
    BY <1>2
  <2>. HIDE DEF v
  <2>5. v \in Stream /\ HasRead(v, "data")
    BY <2>4 DEF GoesOn
  <2>6. GoesOn(v, v \o Encode(b), <<b>>, <<>>)
    BY <2>5, EncodeGoesOn
  <2>7. r \in Stream /\ <<b>> \in Stream /\ <<>> \in Seq(WireByte \X WireByte)
    BY DEF Stream
  <2>8. GoesOn(w, v \o Encode(b), r \o <<b>>, <<>> \o <<>>)
    BY <2>4, <2>6, <2>7, GoOnTwice
  <2>9. r \o <<b>> = Append(r, b) /\ <<>> \o <<>> = <<>> /\ Append(r, b) \in Stream
    BY AppendIsConcat, AppendProperties DEF Stream
  <2>. QED
    BY <2>3, <2>8, <2>9 DEF v
<1>. HIDE DEF Q
<1>3. Seq(WireByte) \subseteq Q
  BY <1>1, <1>2, Grow
<1>. QED
  BY <1>3 DEF Q, Stream

-----------------------------------------------------------------------------
(* What one pump drains. *)

(* A prefix of the ring and how much of the buffer it fills.               *)
LEMMA FillsType ==
  ASSUME NEW q \in Seq(Byte), NEW k \in 0 .. Len(q)
  PROVE  /\ SubSeq(q, 1, k) \in Seq(Byte)
         /\ Encoded(SubSeq(q, 1, k)) \in Seq(Byte)
         /\ Fills(q, k) \in Nat
<1>1. SubSeq(q, 1, k) \in Seq(Byte)
  <2>1. Len(q) \in Nat /\ \A i \in 1 .. k : q[i] \in Byte
    BY LenProperties, ElementOfSeq
  <2>. QED
    BY <2>1, SubSeqProperties
<1>2. Encoded(SubSeq(q, 1, k)) \in Seq(Byte)
  <2>1. CASE Byte = {}
    <3>1. Seq(Byte) = {<<>>}
      BY <2>1
    <3>2. Encoded(<<>>) = <<>>
      <4>1. <<>> \in Seq({1})
        OBVIOUS
      <4>. QED
        BY <4>1, EncodedNext
    <3>. QED
      BY <1>1, <3>1, <3>2
  <2>2. CASE Byte # {}
    BY <1>1, <2>2, EncodedNext
  <2>. QED
    BY <2>1, <2>2
<1>. QED
  BY <1>1, <1>2, LenProperties DEF Fills

StopsAt(q, k) ==
  /\ k \in 0 .. Len(q)
  /\ k = Len(q) \/ Fills(q, k) > OutSize - 2
  /\ \A j \in 0 .. k - 1 : Fills(q, j) <= OutSize - 2

(* The ring has a prefix at which the loop stops, and Drain is its length. *)
LEMMA DrainIs ==
  ASSUME NEW q \in Seq(Byte)
  PROVE  StopsAt(q, Drain(q))
<1>1. Len(q) \in Nat /\ OutSize \in Nat
  BY LenProperties, TransportAssumption
<1>. DEFINE T == {k \in 0 .. Len(q) : k = Len(q) \/ Fills(q, k) > OutSize - 2}
<1>2. Len(q) \in T /\ T \subseteq Nat
  BY <1>1
<1>3. PICK k \in T : \A j \in T : k <= j
  <2>. HIDE DEF T
  <2>. QED
    BY <1>2, LeastOf
<1>4. StopsAt(q, k)
  <2>1. ASSUME NEW j \in 0 .. k - 1 PROVE Fills(q, j) <= OutSize - 2
    <3>1. j \in 0 .. Len(q) /\ ~(k <= j)
      BY <1>1
    <3>2. j \notin T
      BY <1>3, <3>1
    <3>3. Fills(q, j) \in Nat
      BY <3>1, FillsType
    <3>. QED
      BY <1>1, <3>1, <3>2, <3>3
  <2>. QED
    BY <2>1 DEF StopsAt
<1>. QED
  BY <1>4, Zenon DEF StopsAt, Drain

(* The loop stops in time: before the last byte it took there was room for *)
(* two, so that what it wrote fits the buffer even if that byte was        *)
(* doubled.                                                                *)
LEMMA DrainFits ==
  ASSUME NEW q \in Seq(Byte)
  PROVE  /\ Drain(q) \in 0 .. Len(q)
         /\ Fills(q, Drain(q)) <= OutSize
<1>. DEFINE k == Drain(q)
<1>1. StopsAt(q, k)
  BY DrainIs
<1>. HIDE DEF k
<1>2. Len(q) \in Nat /\ OutSize \in Nat /\ k \in 0 .. Len(q)
  BY <1>1, LenProperties, TransportAssumption DEF StopsAt
<1>3. CASE k = 0
  <2>1. SubSeq(q, 1, 0) = <<>>
    BY SubSeqEmpty
  <2>2. Encoded(<<>>) = <<>>
    <3>1. <<>> \in Seq({1})
      OBVIOUS
    <3>. QED
      BY <3>1, EncodedNext
  <2>3. Fills(q, k) = 0
    BY <1>3, <2>1, <2>2, EmptySeq DEF Fills
  <2>. QED
    BY <1>2, <2>3 DEF k
<1>4. CASE k # 0
  <2>1. k - 1 \in 0 .. k - 1 /\ k - 1 \in 0 .. Len(q) /\ k \in 1 .. Len(q)
    BY <1>2, <1>4
  <2>. DEFINE r == SubSeq(q, 1, k - 1)
  <2>2. r \in Seq(Byte) /\ q[k] \in Byte /\ Fills(q, k - 1) \in Nat
    BY <2>1, FillsType, ElementOfSeq
  <2>3. SubSeq(q, 1, k) = Append(r, q[k])
    <3>1. \A i \in 1 .. k : q[i] \in Byte
      BY <1>2, ElementOfSeq
    <3>. QED
      BY <1>2, <2>1, <3>1, SubSeqRecursiveSecond
  <2>4. Encoded(SubSeq(q, 1, k)) = Encoded(r) \o Encode(q[k]) /\ Encoded(r) \in Seq(Byte)
    <3>. HIDE DEF r
    <3>. QED
      BY <2>2, <2>3, EncodedNext
  <2>5. Encode(q[k]) \in Seq(Byte) /\ Len(Encode(q[k])) <= 2 /\ Len(Encode(q[k])) \in Nat
    BY <2>2 DEF Encode
  <2>6. Fills(q, k) = Fills(q, k - 1) + Len(Encode(q[k]))
    BY <2>4, <2>5, ConcatProperties DEF Fills
  <2>7. Fills(q, k - 1) <= OutSize - 2
    BY <1>1, <2>1 DEF StopsAt
  <2>8. \A x, y \in Nat : x <= OutSize - 2 /\ y <= 2 => x + y <= OutSize
    BY <1>2
  <2>. QED
    BY <1>2, <2>2, <2>5, <2>6, <2>7, <2>8 DEF k
<1>. QED
  BY <1>3, <1>4

-----------------------------------------------------------------------------
(* What a pump makes of a chunk of the peer's stream. *)

(* The answer of AllAgreed is the one the code gives.                      *)
LEMMA AgreedIsAnswer ==
  ASSUME NEW verb \in Verb, NEW b
  PROVE  Agreed(<<verb, b>>) = <<Answer(verb, b), b>>
BY DEF Agreed, Answer, Verb, Opposite, Refusal

(* One command more is one answer more.                                    *)
LEMMA AgreedNext ==
  ASSUME NEW P, NEW cs \in Seq(P), NEW c \in P
  PROVE  /\ AllAgreed(<<>>) = <<>>
         /\ AllAgreed(cs) \in Seq({Agreed(x) : x \in P})
         /\ AllAgreed(Append(cs, c)) = Append(AllAgreed(cs), Agreed(c))
<1>. DEFINE F == [x \in P |-> Agreed(x)]
<1>1. \A x \in P : F[x] = Agreed(x)
  OBVIOUS
<1>2. \A ds \in Seq(P) : AllAgreed(ds) = Pick(ds, F)
  <2>1. ASSUME NEW ds \in Seq(P) PROVE AllAgreed(ds) = Pick(ds, F)
    <3>1. \A k \in DOMAIN ds : ds[k] \in P
      OBVIOUS
    <3>. QED
      BY <3>1 DEF AllAgreed, Pick
  <2>. QED
    BY <2>1
<1>3. Append(cs, c) \in Seq(P)
  BY AppendProperties
<1>. HIDE DEF F
<1>4. AgreeOn(F, F, P)
  BY DEF AgreeOn
<1>5. Pick(Append(cs, c), F) = Append(Pick(cs, F), F[c]) /\ Pick(<<>>, F) = <<>>
  BY <1>4, PickNext
<1>6. Pick(cs, F) \in Seq({Agreed(x) : x \in P})
  <2>. DEFINE V == {Agreed(x) : x \in P}
  <2>1. \A x \in P : F[x] \in V
    BY <1>1
  <2>. HIDE DEF V
  <2>2. Pick(cs, F) \in Seq(V)
    BY <2>1, PickType
  <2>. QED
    BY <2>2 DEF V
<1>7. AllAgreed(<<>>) = <<>>
  BY DEF AllAgreed
<1>. QED
  BY <1>1, <1>2, <1>3, <1>5, <1>6, <1>7

(* What comes after the first k of cs.                                     *)
After(cs, k) == SubSeq(cs, k + 1, Len(cs))

Lengthens(cs, c, k) == After(Append(cs, c), k) = Append(After(cs, k), c)

LEMMA AfterNext ==
  ASSUME NEW P, NEW cs \in Seq(P), NEW c \in P, NEW k \in 0 .. Len(cs)
  PROVE  /\ After(cs, k) \in Seq(P) /\ After(cs, Len(cs)) = <<>>
         /\ Lengthens(cs, c, k) /\ k \in 0 .. Len(Append(cs, c))
<1>. DEFINE n == Len(cs)
            ds == Append(cs, c)
<1>1. /\ n \in Nat /\ k \in 0 .. n /\ ds \in Seq(P) /\ Len(ds) = n + 1
      /\ \A i \in 1 .. n : cs[i] \in P /\ ds[i] = cs[i]
      /\ ds[n + 1] = c
  BY AppendProperties, LenProperties, ElementOfSeq
<1>. HIDE DEF ds
<1>2. /\ SubSeq(cs, k + 1, n) \in Seq(P)
      /\ Len(SubSeq(cs, k + 1, n)) = IF k + 1 <= n THEN n - (k + 1) + 1 ELSE 0
      /\ \A i \in 1 .. n - (k + 1) + 1 : SubSeq(cs, k + 1, n)[i] = cs[k + 1 + i - 1]
  <2>1. k + 1 \in Int /\ n \in Int /\ \A i \in k + 1 .. n : cs[i] \in P
    BY <1>1
  <2>. QED
    BY <2>1, SubSeqProperties
<1>3. /\ SubSeq(ds, k + 1, n + 1) \in Seq(P)
      /\ Len(SubSeq(ds, k + 1, n + 1)) = IF k + 1 <= n + 1 THEN (n + 1) - (k + 1) + 1 ELSE 0
      /\ \A i \in 1 .. (n + 1) - (k + 1) + 1 : SubSeq(ds, k + 1, n + 1)[i] = ds[k + 1 + i - 1]
  <2>1. k + 1 \in Int /\ n + 1 \in Int /\ \A i \in k + 1 .. n + 1 : ds[i] \in P
    BY <1>1, ElementOfSeq
  <2>. QED
    BY <2>1, SubSeqProperties
<1>. DEFINE u == SubSeq(cs, k + 1, n)
            v == SubSeq(ds, k + 1, n + 1)
            m == n - k
<1>4. /\ m \in Nat /\ n - (k + 1) + 1 = m /\ (n + 1) - (k + 1) + 1 = m + 1
      /\ (IF k + 1 <= n THEN m ELSE 0) = m /\ k + 1 <= n + 1
      /\ \A i \in 1 .. m : k + 1 + i - 1 \in 1 .. n
      /\ k + 1 + (m + 1) - 1 = n + 1
  BY <1>1
<1>5. u \in Seq(P) /\ Len(u) = m /\ \A i \in 1 .. m : u[i] = cs[k + 1 + i - 1]
  BY <1>2, <1>4
<1>6. v \in Seq(P) /\ Len(v) = m + 1 /\ \A i \in 1 .. m + 1 : v[i] = ds[k + 1 + i - 1]
  BY <1>3, <1>4
<1>. HIDE DEF u, v, m
<1>7. /\ Append(u, c) \in Seq(P) /\ Len(Append(u, c)) = m + 1
      /\ \A i \in 1 .. m : Append(u, c)[i] = u[i]
      /\ Append(u, c)[m + 1] = c
  BY <1>5, AppendProperties
<1>8. \A i \in 1 .. m + 1 : v[i] = Append(u, c)[i]
  <2>1. \A i \in 1 .. m : i \in 1 .. m + 1 /\ v[i] = Append(u, c)[i]
    <3>1. ASSUME NEW i \in 1 .. m PROVE i \in 1 .. m + 1 /\ v[i] = Append(u, c)[i]
      <4>. DEFINE j == k + 1 + i - 1
      <4>1. i \in 1 .. m + 1 /\ j \in 1 .. n
        BY <1>4
      <4>2. v[i] = ds[j] /\ u[i] = cs[j] /\ Append(u, c)[i] = u[i]
        BY <1>5, <1>6, <1>7, <4>1
      <4>. HIDE DEF j
      <4>3. ds[j] = cs[j]
        BY <1>1, <4>1
      <4>. QED
        BY <4>1, <4>2, <4>3
    <3>. QED
      BY <3>1
  <2>2. v[m + 1] = c
    <3>1. m + 1 \in 1 .. m + 1
      BY <1>4
    <3>. QED
      BY <1>1, <1>4, <1>6, <3>1
  <2>3. \A i \in 1 .. m + 1 : i \in 1 .. m \/ i = m + 1
    BY <1>4
  <2>. QED
    BY <1>7, <2>1, <2>2, <2>3
<1>9. v = Append(u, c)
  BY <1>6, <1>7, <1>8, SeqEqual
<1>10. Lengthens(cs, c, k)
  BY <1>1, <1>9 DEF Lengthens, After, u, v, ds
<1>11. After(cs, Len(cs)) = <<>>
  BY <1>1, SubSeqEmpty DEF After
<1>12. k \in 0 .. Len(ds)
  BY <1>1
<1>. QED
  BY <1>5, <1>10, <1>11, <1>12 DEF After, u, ds

(* The commands of w are those of X and the answers to all but the first k *)
(* of a.                                                                   *)
Answers(w, a, X, k) == CommandsOf(w) = X \o AllAgreed(After(CommandsOf(a), k))

(* A parser that has read a, with w before what it sends and tk before the *)
(* ring; X was on the wire before the last commands, from the k-th, came.  *)
Follows(p, a, tk, w, X, k) ==
  /\ X \in Seq(WireByte \X WireByte) /\ k \in 0 .. Len(CommandsOf(a))
  /\ p \in Parser /\ Len(p.rx) <= RingSize
  /\ a \in Seq(Byte)
  /\ HasRead(a, p.state)
  /\ ~p.lost => tk \o p.rx = DataOf(a)
  /\ w \o p.out \in Stream
  /\ HasRead(w \o p.out, "data")
  /\ DataOf(w \o p.out) = DataOf(w)
  /\ Answers(w \o p.out, a, X, k)

(* The offer is a whole number of elements and carries no data: wherever a *)
(* stream is outside an element, it goes on with the offer's commands.     *)
LEMMA OfferGoesOn ==
  ASSUME NEW w \in Stream, HasRead(w, "data")
  PROVE  /\ GoesOn(w, w \o Offer, <<>>, CommandsOf(Offer))
         /\ CommandsOf(Offer) \in Seq(WireByte \X WireByte)
<1>. DEFINE three == (<<<<"WILL", "BINARY">>>> \o <<<<"DO", "BINARY">>>>) \o <<<<"WILL", "SGA">>>>
<1>1. <<>> \in Stream /\ HasRead(<<>>, "data") /\ CommandsOf(<<>>) = <<>>
  BY NothingRead DEF Stream
<1>2. {"WILL", "DO"} \subseteq Verb /\ {"BINARY", "SGA"} \subseteq WireByte
      /\ {"WILL", "DO", "IAC"} \subseteq WireByte
  BY DEF Verb, Known, WireByte
<1>3. ASSUME NEW x \in Stream, HasRead(x, "data")
      PROVE  GoesOn(x, x \o Offer, <<>>, three)
  <2>. DEFINE a1 == <<"IAC", "WILL", "BINARY">>
              a2 == <<"IAC", "DO", "BINARY">>
              a3 == <<"IAC", "WILL", "SGA">>
              u == x \o a1
              v == u \o a2
              z == v \o a3
              c1 == <<<<"WILL", "BINARY">>>>
              c2 == <<<<"DO", "BINARY">>>>
              c3 == <<<<"WILL", "SGA">>>>
  <2>1. GoesOn(x, u, <<>>, c1)
    BY <1>2, <1>3, CommandGoesOn
  <2>. HIDE DEF u
  <2>2. u \in Stream /\ HasRead(u, "data")
    BY <2>1 DEF GoesOn
  <2>3. GoesOn(u, v, <<>>, c2)
    BY <1>2, <2>2, CommandGoesOn
  <2>. HIDE DEF v
  <2>4. v \in Stream /\ HasRead(v, "data")
    BY <2>3 DEF GoesOn
  <2>5. GoesOn(v, z, <<>>, c3)
    BY <1>2, <2>4, CommandGoesOn
  <2>6. x \o Offer = z
    <3>1. x \in Seq(WireByte) /\ a1 \in Seq(WireByte) /\ a2 \in Seq(WireByte)
          /\ a3 \in Seq(WireByte) /\ a2 \o a3 \in Seq(WireByte)
      BY <1>2, <1>3 DEF Stream
    <3>2. Offer = a1 \o (a2 \o a3)
      BY DEF Offer
    <3>. HIDE DEF a1, a2, a3
    <3>3. Groups(x, a1, a2 \o a3)
      BY <3>1, ConcatGroups
    <3>4. x \o a1 \in Seq(WireByte)
      BY <3>1, ConcatProperties
    <3>5. Groups(x \o a1, a2, a3)
      BY <3>1, <3>4, ConcatGroups
    <3>. QED
      BY <3>2, <3>3, <3>5, Zenon DEF Groups, u, v, z
  <2>. HIDE DEF z
  <2>. DEFINE P == WireByte \X WireByte
  <2>7. c1 \in Seq(P) /\ c2 \in Seq(P) /\ c3 \in Seq(P) /\ c1 \o c2 \in Seq(P)
    BY <1>2
  <2>8. <<>> \in Stream /\ <<>> \o <<>> = <<>>
    BY <1>1, ConcatEmptySeq DEF Stream
  <2>. HIDE DEF c1, c2, c3
  <2>9. GoesOn(x, v, <<>>, c1 \o c2)
    <3>1. GoesOn(x, v, <<>> \o <<>>, c1 \o c2)
      BY <2>1, <2>3, <2>7, <2>8, <1>3, GoOnTwice
    <3>. QED
      BY <2>8, <3>1
  <2>10. GoesOn(x, z, <<>>, (c1 \o c2) \o c3)
    <3>. DEFINE c == c1 \o c2
    <3>. HIDE DEF c
    <3>1. c \in Seq(P) /\ GoesOn(x, v, <<>>, c)
      BY <2>7, <2>9 DEF c
    <3>2. GoesOn(x, z, <<>> \o <<>>, c \o c3)
      BY <2>5, <2>7, <2>8, <3>1, <1>3, GoOnTwice
    <3>. QED
      BY <2>8, <3>2 DEF c
  <2>. QED
    BY <2>6, <2>10 DEF c1, c2, c3
<1>4. three \in Seq(WireByte \X WireByte)
  BY <1>2
<1>. HIDE DEF three
<1>5. CommandsOf(Offer) = three
  <2>1. GoesOn(<<>>, <<>> \o Offer, <<>>, three)
    BY <1>1, <1>3
  <2>2. <<>> \o Offer = Offer
    BY DEF Offer
  <2>3. <<>> \o three = three
    <3>. DEFINE P == WireByte \X WireByte
    <3>1. three \in Seq(P)
      BY <1>4
    <3>. HIDE DEF P
    <3>. QED
      BY <3>1, ConcatEmptySeq
  <2>. QED
    BY <1>1, <2>1, <2>2, <2>3 DEF GoesOn
<1>. QED
  BY <1>3, <1>4, <1>5

(* Whatever a peer sends may be on the wire.                               *)
LEMMA ByteStream == Seq(Byte) \subseteq Stream
BY SeqMonotonic DEF Stream, WireByte

(* A parser that is in step stays so over one byte: it puts the byte into  *)
(* the ring if it is data, answers it if it is the option of a command,    *)
(* and what it sends is read as these answers.                             *)
LEMMA FollowsNext ==
  ASSUME NEW p, NEW a, NEW tk \in Seq(Byte), NEW w \in Stream, NEW b \in Byte,
         NEW X, NEW k, Follows(p, a, tk, w, X, k)
  PROVE  Follows(ParseByte(p, b), Append(a, b), tk, w, X, k)
<1>. DEFINE st == p.state
            x == Append(a, b)
            r == ParseByte(p, b)
            u == w \o p.out
            v == w \o r.out
<1>1. /\ p \in Parser /\ Len(p.rx) <= RingSize /\ a \in Seq(Byte)
      /\ HasRead(a, st) /\ (~p.lost => tk \o p.rx = DataOf(a))
      /\ u \in Stream /\ HasRead(u, "data") /\ DataOf(u) = DataOf(w)
      /\ Answers(u, a, X, k) /\ X \in Seq(WireByte \X WireByte) /\ k \in 0 .. Len(CommandsOf(a))
  BY DEF Follows
<1>2. /\ st \in State /\ p.rx \in Seq(Byte) /\ p.lost \in BOOLEAN /\ p.out \in Seq(WireByte)
  BY <1>1 DEF Parser
<1>3. /\ r.state = NextState(st, b)
      /\ r.rx = IF IsData(st, b) THEN Put(p.rx, b) ELSE p.rx
      /\ r.lost = (p.lost \/ (IsData(st, b) /\ ~HasRoom(p.rx)))
      /\ r.out = p.out \o Reply(st, b)
  BY DEF ParseByte
<1>4. r \in Parser
  BY <1>1, ParseByteType
<1>. HIDE DEF r, st
<1>5. Understood(a, x, st, b) /\ x \in Seq(Byte)
  BY <1>1, <1>2, ReadOn, AppendProperties
<1>. HIDE DEF x
<1>6. HasRead(x, r.state)
  BY <1>3, <1>5 DEF Understood
<1>7. Len(r.rx) <= RingSize
  <2>1. CASE IsData(st, b) /\ HasRoom(p.rx)
    <3>1. r.rx = Append(p.rx, b) /\ Len(p.rx) < RingSize
      BY <1>3, <2>1 DEF Put, HasRoom
    <3>2. Len(Append(p.rx, b)) = Len(p.rx) + 1 /\ Len(p.rx) \in Nat
      BY <1>2, AppendProperties, LenProperties
    <3>. QED
      BY <3>1, <3>2, SizeAssumption
  <2>2. CASE ~(IsData(st, b) /\ HasRoom(p.rx))
    BY <1>1, <1>3, <2>2 DEF Put
  <2>. QED
    BY <2>1, <2>2
<1>8. ASSUME ~r.lost PROVE tk \o r.rx = DataOf(x)
  <2>1. ~p.lost /\ (IsData(st, b) => HasRoom(p.rx))
    BY <1>3, <1>8
  <2>2. tk \o p.rx = DataOf(a)
    BY <1>1, <2>1
  <2>3. CASE IsData(st, b)
    <3>1. r.rx = Append(p.rx, b)
      BY <1>3, <2>1, <2>3 DEF Put
    <3>2. Shifts(tk, p.rx, b)
      BY <1>2, AppendToConcat
    <3>3. DataOf(x) = Append(DataOf(a), b)
      BY <1>5, <2>3 DEF Understood
    <3>. QED
      BY <2>2, <3>1, <3>2, <3>3, Zenon DEF Shifts
  <2>4. CASE ~IsData(st, b)
    BY <1>3, <1>5, <2>2, <2>4 DEF Understood
  <2>. QED
    BY <2>3, <2>4
<1>9. b \in WireByte /\ w \in Seq(WireByte)
  BY DEF WireByte, Stream
<1>10. CASE st \notin Verb
  <2>1. Reply(st, b) = <<>>
    BY <1>10 DEF Reply
  <2>2. r.out = p.out
    BY <1>2, <1>3, <2>1, ConcatEmptySeq
  <2>3. CommandsOf(x) = CommandsOf(a)
    BY <1>5, <1>10 DEF Understood
  <2>. HIDE DEF u
  <2>4. v = u
    BY <2>2 DEF u
  <2>. HIDE DEF v
  <2>5. Answers(v, x, X, k) /\ k \in 0 .. Len(CommandsOf(x))
    BY <1>1, <2>3, <2>4 DEF Answers
  <2>. QED
    BY <1>1, <1>4, <1>5, <1>6, <1>7, <1>8, <2>4, <2>5 DEF Follows, r, x, v
<1>11. CASE st \in Verb
  <2>. DEFINE verb == Answer(st, b)
              P == WireByte \X WireByte
              c == <<st, b>>
  <2>1. Reply(st, b) = <<"IAC", verb, b>> /\ verb \in Verb
    BY <1>11 DEF Reply, Answer, Verb
  <2>. HIDE DEF verb
  <2>2. <<"IAC", verb, b>> \in Seq(WireByte)
    <3>1. "IAC" \in WireByte /\ verb \in WireByte
      BY <2>1 DEF WireByte
    <3>. QED
      BY <1>9, <3>1
  <2>. DEFINE e == <<"IAC", verb, b>>
  <2>3. v = u \o e
    <3>1. e \in Seq(WireByte) /\ r.out = p.out \o e
      BY <1>3, <2>1, <2>2
    <3>. HIDE DEF e
    <3>2. Groups(w, p.out, e)
      BY <1>2, <1>9, <3>1, ConcatGroups
    <3>. QED
      BY <3>1, <3>2, Zenon DEF Groups
  <2>. HIDE DEF u
  <2>4. GoesOn(u, u \o e, <<>>, <<<<verb, b>>>>)
    BY <1>1, <1>9, <2>1, CommandGoesOn
  <2>5. GoesOn(u, v, <<>>, <<<<verb, b>>>>)
    BY <2>3, <2>4, Zenon
  <2>. HIDE DEF v
  <2>6. v \in Stream /\ HasRead(v, "data") /\ DataOf(v) = DataOf(w)
    <3>1. DataOf(w) \in Seq(WireByte) /\ DataOf(v) = DataOf(w) \o <<>>
      BY <1>1, <2>5, StreamTypes DEF GoesOn, Stream
    <3>. QED
      BY <2>5, <3>1, ConcatEmptySeq DEF GoesOn
  <2>7. Answers(v, x, X, k) /\ k \in 0 .. Len(CommandsOf(x))
    <3>. DEFINE cs == CommandsOf(a)
                V == {Agreed(y) : y \in P}
                W == P \cup V
    <3>1. cs \in Seq(P) /\ c \in P
      <4>1. a \in Stream
        BY <1>1, ByteStream
      <4>2. st \in WireByte
        BY <1>11 DEF WireByte
      <4>. QED
        BY <1>9, <4>1, <4>2, StreamTypes
    <3>2. CommandsOf(x) = Append(cs, c)
      BY <1>5, <1>11 DEF Understood
    <3>3. X \in Seq(P) /\ k \in 0 .. Len(cs)
      BY <1>1
    <3>4. Agreed(c) = <<verb, b>>
      BY <1>11, AgreedIsAnswer DEF verb
    <3>9. CommandsOf(u) = X \o AllAgreed(After(cs, k))
      BY <1>1 DEF Answers
    <3>. HIDE DEF P, c, cs
    <3>. DEFINE since == After(cs, k)
    <3>13. since \in Seq(P) /\ Lengthens(cs, c, k) /\ k \in 0 .. Len(Append(cs, c))
      BY <3>1, <3>3, AfterNext
    <3>14. CommandsOf(u) = X \o AllAgreed(since)
      BY <3>9
    <3>. HIDE DEF since
    <3>5. /\ AllAgreed(since) \in Seq(V)
          /\ AllAgreed(Append(since, c)) = Append(AllAgreed(since), Agreed(c))
      BY <3>1, <3>13, AgreedNext
    <3>6. Agreed(c) \in W /\ P \subseteq W /\ V \subseteq W
      BY <3>1
    <3>. HIDE DEF V, W
    <3>7. AllAgreed(since) \in Seq(W) /\ X \in Seq(W)
      BY <3>3, <3>5, <3>6, SeqMonotonic
    <3>8. Shifts(X, AllAgreed(since), Agreed(c))
      BY <3>6, <3>7, AppendToConcat
    <3>10. CommandsOf(v) = CommandsOf(u) \o <<Agreed(c)>>
      BY <2>5, <3>4 DEF GoesOn
    <3>11. CommandsOf(u) \in Seq(W)
      BY <3>7, <3>14, ConcatProperties
    <3>12. CommandsOf(v) = Append(CommandsOf(u), Agreed(c))
      BY <3>6, <3>10, <3>11, AppendIsConcat
    <3>15. After(CommandsOf(x), k) = Append(since, c)
      BY <3>2, <3>13 DEF Lengthens, since
    <3>16. Answers(v, x, X, k)
      BY <3>5, <3>8, <3>12, <3>14, <3>15, Zenon DEF Answers, Shifts
    <3>. QED
      BY <3>2, <3>13, <3>16
  <2>. QED
    BY <1>1, <1>4, <1>5, <1>6, <1>7, <1>8, <2>6, <2>7 DEF Follows, r, x, v
<1>. QED
  BY <1>10, <1>11

(* The same over a chunk of any length.                                    *)
LEMMA FollowsAll ==
  ASSUME NEW p, NEW a, NEW tk \in Seq(Byte), NEW w \in Stream, NEW X, NEW k,
         Follows(p, a, tk, w, X, k), NEW chunk \in Seq(Byte)
  PROVE  Follows(Parsed(p, chunk), a \o chunk, tk, w, X, k)
<1>. DEFINE Q == {c \in Seq(Byte) : Follows(Parsed(p, c), a \o c, tk, w, X, k)}
<1>1. p \in Parser /\ a \in Seq(Byte)
  BY DEF Follows
<1>2. CASE Byte = {}
  <2>1. chunk = <<>>
    BY <1>2
  <2>2. Parsed(p, <<>>) = p
    <3>1. PICK f : StepChain(f, p, ParseSteps(<<>>, Len(<<>>)), Len(<<>>))
                   /\ Parsed(p, <<>>) = f[Len(<<>>)]
      BY <1>1, ParsedBy, EmptySeq
    <3>. QED
      BY <3>1, EmptySeq DEF StepChain
  <2>3. a \o <<>> = a
    BY <1>1, ConcatEmptySeq
  <2>. QED
    BY <2>1, <2>2, <2>3
<1>3. CASE Byte # {}
  <2>1. <<>> \in Q
    <3>1. <<>> \in Seq(Byte) /\ a \o <<>> = a
      BY <1>1, ConcatEmptySeq, EmptySeq
    <3>2. Parsed(p, <<>>) = p
      BY <1>1, <1>3, <3>1, ParsedNext
    <3>. QED
      BY <3>1, <3>2
  <2>2. ASSUME NEW c \in Seq(Byte), NEW b \in Byte, c \in Q PROVE Append(c, b) \in Q
    <3>1. Follows(ParseByte(Parsed(p, c), b), Append(a \o c, b), tk, w, X, k)
      BY <2>2, FollowsNext
    <3>2. Parsed(p, Append(c, b)) = ParseByte(Parsed(p, c), b)
      BY <1>1, ParsedNext
    <3>3. Shifts(a, c, b)
      BY <1>1, AppendToConcat
    <3>4. Append(c, b) \in Seq(Byte)
      BY AppendProperties
    <3>5. Follows(Parsed(p, Append(c, b)), a \o Append(c, b), tk, w, X, k)
      BY <3>1, <3>2, <3>3, Zenon DEF Shifts
    <3>. QED
      BY <3>4, <3>5
  <2>. HIDE DEF Q
  <2>3. Seq(Byte) \subseteq Q
    BY <2>1, <2>2, Grow
  <2>. QED
    BY <2>3 DEF Q
<1>. QED
  BY <1>2, <1>3

-----------------------------------------------------------------------------
(* The invariant. *)

TransportTyped ==
  /\ UartTypeOK
  /\ state \in State
  /\ {connected, serviced, eof, overrun} \subseteq BOOLEAN
  /\ {arrived, written, taken} \subseteq Seq(Byte)
  /\ got \in 0 .. Len(arrived)
  /\ wire \in Stream
  /\ own \in 0 .. MaxOwn

(* The guest is in online mode: neither the latch nor the loop is on.      *)
OnlineMode == ~dlab /\ ~loop

(* The parser is where the stream it has read is. *)
InStep ==
  /\ HasRead(wire, "data")
  /\ connected => HasRead(Received, state)
  /\ ~connected /\ ~eof => state = "data"

TransportInv ==
  /\ TransportTyped
  /\ OnlineMode
  /\ InStep
  /\ OutboundTransparent
  /\ InboundTransparent
  /\ Negotiated

(* LSR has its own bits only.                                              *)
LEMMA LsrType == \A r, t : LsrOf(r, t) \in SUBSET LsrBits
BY DEF LsrOf, LsrBits, Flag

(* A change of the carrier leaves MSR with its own bits only.              *)
LEMMA CarrierType ==
  ASSUME UartTypeOK, NEW on \in BOOLEAN, SetCarrier(on),
         rx' \in Seq(Byte), Len(rx') <= RingSize, tx' \in Seq(Byte), Len(tx') <= RingSize,
         lsr' \in SUBSET LsrBits, UNCHANGED mode
  PROVE  UartTypeOK'
<1>1. msr' \in SUBSET MsrBits
  BY DEF SetCarrier, RecomputeMSR, Flag, MsrBits, Deltas
<1>. QED
  BY <1>1 DEF UartTypeOK, SetCarrier, mode

(* What was received is a sequence of bytes.                               *)
LEMMA ReceivedType ==
  ASSUME TransportTyped
  PROVE  Received \in Seq(Byte)
<1>1. arrived \in Seq(Byte) /\ got \in Nat /\ Len(arrived) \in Nat /\ got <= Len(arrived)
  BY LenProperties DEF TransportTyped
<1>2. \A i \in 1 .. got : arrived[i] \in Byte
  BY <1>1, ElementOfSeq
<1>. QED
  BY <1>1, <1>2, SubSeqProperties DEF Received

(* Draining the ring moves its bytes to the stream. *)
Rest == SubSeq(tx, Drain(tx) + 1, Len(tx))

(* The bytes a pump drains leave the ring and are read off the wire.       *)
LEMMA DrainMoves ==
  ASSUME TransportInv
  PROVE  /\ wire \o Drained \in Stream
         /\ HasRead(wire \o Drained, "data")
         /\ DataOf(wire \o Drained) \o Rest = written
         /\ CommandsOf(wire \o Drained) = CommandsOf(wire)
         /\ Rest \in Seq(Byte) /\ Len(Rest) <= RingSize
         /\ Len(Drained) <= OutSize
<1>1. /\ tx \in Seq(Byte) /\ Len(tx) <= RingSize /\ wire \in Stream
      /\ HasRead(wire, "data") /\ DataOf(wire) \o tx = written
  BY DEF TransportInv, TransportTyped, UartTypeOK, InStep, OutboundTransparent
<1>. DEFINE k == Drain(tx)
            front == SubSeq(tx, 1, k)
<1>2. k \in 0 .. Len(tx) /\ Fills(tx, k) <= OutSize
  BY <1>1, DrainFits
<1>3. Len(tx) \in Nat /\ \A i \in 1 .. Len(tx) : tx[i] \in Byte
  BY <1>1, LenProperties, ElementOfSeq
<1>4. front \in Seq(Byte) /\ Drained \in Seq(Byte)
  BY <1>1, <1>2, FillsType DEF Drained
<1>. HIDE DEF k
<1>5. front \o Rest = tx
  <2>1. 1 \in 1 .. Len(tx) + 1 /\ k \in 1 - 1 .. Len(tx) /\ Len(tx) \in k .. Len(tx)
    BY <1>2, <1>3
  <2>2. front \o SubSeq(tx, k + 1, Len(tx)) = SubSeq(tx, 1, Len(tx))
    BY <1>1, <2>1, ConcatAdjacentSubSeq
  <2>. QED
    BY <1>1, <2>2, SubSeqFull DEF Rest, k
<1>6. Rest \in Seq(Byte) /\ Len(Rest) <= RingSize
  <2>1. /\ SubSeq(tx, k + 1, Len(tx)) \in Seq(Byte)
        /\ Len(SubSeq(tx, k + 1, Len(tx))) =
             IF k + 1 <= Len(tx) THEN Len(tx) - (k + 1) + 1 ELSE 0
    <3>1. k + 1 \in Int /\ Len(tx) \in Int /\ \A i \in k + 1 .. Len(tx) : tx[i] \in Byte
      BY <1>2, <1>3
    <3>. QED
      BY <3>1, SubSeqProperties
  <2>. QED
    BY <1>1, <1>2, <1>3, <2>1, SizeAssumption DEF Rest, k
<1>. HIDE DEF front
<1>7. GoesOn(wire, wire \o Drained, front, <<>>)
  <2>1. front \in Stream
    BY <1>4, ByteStream
  <2>2. GoesOn(wire, wire \o Encoded(front), front, <<>>)
    BY <1>1, <2>1, EncodedGoesOn
  <2>. QED
    BY <2>2 DEF Drained, front, k
<1>. DEFINE v == wire \o Drained
<1>8. v \in Stream /\ HasRead(v, "data") /\ DataOf(v) = DataOf(wire) \o front
      /\ CommandsOf(v) = CommandsOf(wire) \o <<>>
  BY <1>7 DEF GoesOn
<1>9. DataOf(wire) \in Seq(WireByte) /\ CommandsOf(wire) \in Seq(WireByte \X WireByte)
  BY <1>1, StreamTypes DEF Stream
<1>10. CommandsOf(v) = CommandsOf(wire)
  BY <1>8, <1>9, ConcatEmptySeq
<1>11. DataOf(v) \o Rest = written
  <2>1. front \in Seq(WireByte) /\ Rest \in Seq(WireByte)
    BY <1>4, <1>6, ByteStream DEF Stream
  <2>2. Groups(DataOf(wire), front, Rest)
    BY <1>9, <2>1, ConcatGroups
  <2>. QED
    BY <1>1, <1>5, <1>8, <2>2, Zenon DEF Groups
<1>13. Len(Drained) <= OutSize
  BY <1>2 DEF Drained, Fills, k
<1>. QED
  BY <1>6, <1>8, <1>10, <1>11, <1>13

(* At first nothing was sent or read.                                      *)
LEMMA TransportStarts == Init => TransportInv
<1>. SUFFICES ASSUME Init PROVE TransportInv
  OBVIOUS
<1>1. UartTypeOK
  <2>1. lsr \in SUBSET LsrBits
    BY LsrType DEF Init, UartInit
  <2>2. <<>> \in Seq(Byte) /\ Len(<<>>) <= RingSize
    BY EmptySeq, SizeAssumption
  <2>3. /\ rx = <<>> /\ tx = <<>> /\ msr = {} /\ ~online /\ ~ringing /\ ~fifoOn /\ ~dlab /\ ~loop
        /\ {online, ringing, fifoOn, dlab, loop} \subseteq BOOLEAN
    BY DEF Init, UartInit
  <2>. QED
    BY <2>1, <2>2, <2>3 DEF UartTypeOK
<1>2. wire = <<>> /\ tx = <<>> /\ written = <<>> /\ rx = <<>> /\ taken = <<>>
      /\ arrived = <<>> /\ got = 0 /\ state = "data" /\ due = <<>>
      /\ {connected, serviced, eof, overrun} \subseteq BOOLEAN /\ own \in 0 .. MaxOwn
  <2>1. 0 \in 0 .. MaxOwn
    BY TransportAssumption
  <2>. QED
    BY <2>1 DEF Init, UartInit
<1>3. TransportTyped
  BY <1>1, <1>2, EmptySeq DEF TransportTyped, State, Stream
<1>4. Received = <<>>
  BY <1>2, SubSeqEmpty DEF Received
<1>5. OnlineMode
  BY DEF Init, UartInit, OnlineMode
<1>6. InStep
  BY <1>2, <1>4, NothingRead DEF InStep
<1>7. OutboundTransparent /\ InboundTransparent /\ Negotiated
  <2>1. <<>> \o <<>> = <<>>
    BY ConcatEmptySeq, EmptySeq
  <2>. QED
    BY <1>2, <1>4, <2>1, NothingRead DEF OutboundTransparent, InboundTransparent, Negotiated
<1>. QED
  BY <1>3, <1>5, <1>6, <1>7 DEF TransportInv

(* The offer goes to the end of what was sent, and is due from then on.    *)
LEMMA NegotiateKeeps ==
  ASSUME TransportInv, NegotiateBinary, tx' = tx, written' = written
  PROVE  /\ wire' \in Stream /\ HasRead(wire', "data")
         /\ OutboundTransparent' /\ Negotiated'
<1>1. wire \in Stream /\ HasRead(wire, "data") /\ DataOf(wire) \o tx = written
      /\ CommandsOf(wire) = due
  BY DEF TransportInv, TransportTyped, InStep, OutboundTransparent, Negotiated
<1>2. GoesOn(wire, wire', <<>>, CommandsOf(Offer))
  BY <1>1, OfferGoesOn DEF NegotiateBinary
<1>3. DataOf(wire) \in Seq(WireByte)
  BY <1>1, StreamTypes DEF Stream
<1>4. DataOf(wire') = DataOf(wire)
  BY <1>2, <1>3, ConcatEmptySeq DEF GoesOn
<1>5. CommandsOf(wire') = due \o CommandsOf(Offer)
  BY <1>1, <1>2 DEF GoesOn
<1>. QED
  BY <1>1, <1>2, <1>4, <1>5 DEF GoesOn, OutboundTransparent, Negotiated, NegotiateBinary

(* The link of a call is new when it is dialled.                           *)
LEMMA DialKeeps == TransportInv /\ Dial => TransportInv'
<1>. SUFFICES ASSUME TransportInv, Dial PROVE TransportInv'
  OBVIOUS
<1>1. /\ rx' = rx /\ tx' = tx /\ lsr' = lsr /\ mode' = mode /\ state' = state /\ eof' = eof
      /\ arrived' = arrived /\ got' = got /\ written' = written /\ taken' = taken
      /\ overrun' = overrun /\ serviced' = serviced /\ own' = own /\ connected' = TRUE
      /\ arrived = <<>> /\ ~connected /\ ~eof
      /\ NegotiateBinary /\ SetCarrier(TRUE)
  BY DEF Dial, rings
<1>2. TransportTyped /\ state = "data" /\ OnlineMode
  BY <1>1 DEF TransportInv, InStep
<1>3. UartTypeOK'
  BY <1>1, <1>2, CarrierType DEF TransportTyped, UartTypeOK
<1>4. wire' \in Stream /\ HasRead(wire', "data") /\ OutboundTransparent' /\ Negotiated'
  BY <1>1, NegotiateKeeps
<1>5. TransportTyped' /\ OnlineMode'
  BY <1>1, <1>2, <1>3, <1>4 DEF TransportTyped, OnlineMode, mode
<1>6. got = 0
  BY <1>1, <1>2, EmptySeq DEF TransportTyped
<1>7. Received' = <<>>
  BY <1>1, <1>6, SubSeqEmpty DEF Received
<1>8. InStep'
  BY <1>1, <1>2, <1>4, <1>7, NothingRead DEF InStep
<1>9. InboundTransparent'
  BY <1>1 DEF TransportInv, InboundTransparent, Received
<1>. QED
  BY <1>4, <1>5, <1>8, <1>9 DEF TransportInv

(* Brought online by the server, with a connection or without.             *)
LEMMA ConnectInboundKeeps ==
  ASSUME TransportInv, ConnectInbound, own < MaxOwn
  PROVE  TransportInv'
<1>1. /\ rx' = rx /\ tx' = tx /\ lsr' = lsr /\ mode' = mode /\ state' = state /\ eof' = eof
      /\ arrived' = arrived /\ got' = got /\ written' = written /\ taken' = taken
      /\ overrun' = overrun /\ serviced' = TRUE /\ own' = own + 1 /\ connected' = connected
      /\ SetCarrier(TRUE)
  BY DEF ConnectInbound, rings
<1>2. TransportTyped /\ OnlineMode
  BY DEF TransportInv
<1>3. UartTypeOK'
  BY <1>1, <1>2, CarrierType DEF TransportTyped, UartTypeOK
<1>4. wire' \in Stream /\ HasRead(wire', "data") /\ OutboundTransparent' /\ Negotiated'
  <2>1. CASE connected
    BY <1>1, <2>1, NegotiateKeeps DEF ConnectInbound
  <2>2. CASE ~connected
    <3>1. wire' = wire /\ due' = due
      BY <2>2 DEF ConnectInbound
    <3>. QED
      BY <1>1, <3>1
         DEF TransportInv, TransportTyped, InStep, OutboundTransparent, Negotiated
  <2>. QED
    BY <2>1, <2>2
<1>5. own' \in 0 .. MaxOwn
  <2>1. own \in 0 .. MaxOwn /\ MaxOwn \in Nat
    BY <1>2, TransportAssumption DEF TransportTyped
  <2>. QED
    BY <1>1, <2>1
<1>6. TransportTyped' /\ OnlineMode'
  BY <1>1, <1>2, <1>3, <1>4, <1>5 DEF TransportTyped, OnlineMode, mode
<1>7. InStep' /\ InboundTransparent'
  BY <1>1, <1>4 DEF TransportInv, InStep, InboundTransparent, Received
<1>. QED
  BY <1>4, <1>6, <1>7 DEF TransportInv

(* A hang-up touches no stream, and nothing is read after it.              *)
LEMMA HangUpKeeps == TransportInv /\ HangUp => TransportInv'
<1>. SUFFICES ASSUME TransportInv, HangUp PROVE TransportInv'
  OBVIOUS
<1>1. /\ rx' = rx /\ tx' = tx /\ lsr' = lsr /\ mode' = mode /\ eof' = eof
      /\ arrived' = arrived /\ got' = got /\ written' = written /\ taken' = taken
      /\ overrun' = overrun /\ wire' = wire /\ connected' = FALSE /\ state' = "data"
      /\ SetCarrier(FALSE) /\ serviced' \in {serviced, FALSE} /\ due' = due /\ own' = own
  BY DEF HangUp, rings
<1>2. UartTypeOK'
  BY <1>1, CarrierType DEF TransportInv, TransportTyped, UartTypeOK
<1>3. TransportTyped'
  BY <1>1, <1>2 DEF TransportInv, TransportTyped, State
<1>4. OnlineMode'
  BY <1>1 DEF TransportInv, OnlineMode, mode
<1>5. InStep'
  BY <1>1 DEF TransportInv, InStep
<1>6. (OutboundTransparent /\ InboundTransparent /\ Negotiated)'
  BY <1>1 DEF TransportInv, OutboundTransparent, InboundTransparent, Negotiated, Received
<1>. QED
  BY <1>3, <1>4, <1>5, <1>6 DEF TransportInv

(* A break is neither data nor command, and without a connection nothing.  *)
LEMMA SendBreakKeeps ==
  ASSUME TransportInv, SendBreak, own < MaxOwn
  PROVE  TransportInv'
<1>1. /\ uart' = uart /\ state' = state /\ eof' = eof /\ connected' = connected
      /\ arrived' = arrived /\ got' = got /\ written' = written /\ taken' = taken
      /\ overrun' = overrun /\ serviced' = serviced /\ due' = due /\ own' = own + 1
      /\ wire' = IF connected THEN wire \o <<"IAC", "CMD">> ELSE wire
  BY DEF SendBreak
<1>2. wire \in Stream /\ HasRead(wire, "data")
  BY DEF TransportInv, InStep, TransportTyped
<1>3. /\ wire' \in Stream /\ HasRead(wire', "data") /\ DataOf(wire') = DataOf(wire)
      /\ CommandsOf(wire') = CommandsOf(wire)
  <2>1. CASE connected
    <3>1. GoesOn(wire, wire', <<>>, <<>>)
      BY <1>1, <1>2, <2>1, BreakGoesOn
    <3>2. DataOf(wire) \in Seq(WireByte) /\ CommandsOf(wire) \in Seq(WireByte \X WireByte)
      BY <1>2, StreamTypes DEF Stream
    <3>. QED
      BY <3>1, <3>2, ConcatEmptySeq DEF GoesOn
  <2>2. CASE ~connected
    BY <1>1, <1>2, <2>2
  <2>. QED
    BY <2>1, <2>2
<1>4. own' \in 0 .. MaxOwn
  <2>1. own \in 0 .. MaxOwn /\ MaxOwn \in Nat
    BY TransportAssumption DEF TransportInv, TransportTyped
  <2>. QED
    BY <1>1, <2>1
<1>5. TransportTyped' /\ OnlineMode'
  BY <1>1, <1>3, <1>4 DEF TransportInv, TransportTyped, UartTypeOK, uart, OnlineMode
<1>6. InStep'
  BY <1>1, <1>3 DEF TransportInv, InStep, Received
<1>7. (OutboundTransparent /\ InboundTransparent)'
  BY <1>1, <1>3 DEF TransportInv, OutboundTransparent, InboundTransparent, Received, uart
<1>8. Negotiated'
  BY <1>1, <1>3 DEF TransportInv, Negotiated
<1>. QED
  BY <1>5, <1>6, <1>7, <1>8 DEF TransportInv

(* Where no byte is received, no answer is due.                            *)
Answered == due' = due \o AllAgreed(NewCommands(got' - got))

LEMMA NothingNew ==
  ASSUME TransportInv, Answered, got' = got
  PROVE  due' = due
<1>. DEFINE P == WireByte \X WireByte
<1>1. Received \in Seq(Byte) /\ got \in Int
  BY ReceivedType, LenProperties DEF TransportInv, TransportTyped
<1>2. CommandsOf(Received) \in Seq(P)
  <2>1. Received \in Stream
    BY <1>1, ByteStream
  <2>. QED
    BY <2>1, StreamTypes
<1>3. due \in Seq(P)
  BY StreamTypes DEF TransportInv, TransportTyped, Negotiated
<1>. HIDE DEF P
<1>4. got + (got' - got) = got
  BY <1>1
<1>5. NewCommands(got' - got) = After(CommandsOf(Received), Len(CommandsOf(Received)))
  BY <1>4 DEF NewCommands, After, Received
<1>6. After(CommandsOf(Received), Len(CommandsOf(Received))) = <<>>
  <2>1. Len(CommandsOf(Received)) \in Nat
    BY <1>2, LenProperties
  <2>. QED
    BY <2>1, SubSeqEmpty DEF After
<1>7. AllAgreed(<<>>) = <<>>
  BY DEF AllAgreed
<1>. QED
  BY <1>3, <1>5, <1>6, <1>7, ConcatEmptySeq DEF Answered

(* Without a connection nothing moves.                                     *)
LEMMA PumpIdleKeeps ==
  ASSUME TransportInv, PumpIdle, UNCHANGED <<eof, arrived, written, taken, own>>, Answered
  PROVE  TransportInv'
<1>1. /\ rx' = rx /\ tx' = tx /\ lsr' = lsr /\ mode' = mode /\ state' = state /\ eof' = eof
      /\ arrived' = arrived /\ got' = got /\ written' = written /\ taken' = taken
      /\ overrun' = overrun /\ wire' = wire /\ connected' = connected
      /\ SetCarrier(FALSE) /\ serviced' = FALSE /\ own' = own /\ due' = due
  BY NothingNew DEF PumpIdle, rings
<1>2. UartTypeOK'
  BY <1>1, CarrierType DEF TransportInv, TransportTyped, UartTypeOK
<1>5. TransportTyped /\ OnlineMode
  BY DEF TransportInv
<1>6. {connected, serviced, eof, overrun}' \subseteq BOOLEAN
  BY <1>1, <1>5 DEF TransportTyped
<1>3. TransportTyped' /\ OnlineMode'
  BY <1>1, <1>2, <1>5, <1>6 DEF TransportTyped, OnlineMode, mode
<1>4. (InStep /\ OutboundTransparent /\ InboundTransparent /\ Negotiated)'
  BY <1>1 DEF TransportInv, InStep, OutboundTransparent, InboundTransparent, Negotiated, Received
<1>. QED
  BY <1>3, <1>4 DEF TransportInv

(* The last bytes are sent, and the connection is gone.                    *)
LEMMA PumpClosedKeeps ==
  ASSUME TransportInv, PumpClosed, UNCHANGED <<eof, arrived, written, taken, own>>, Answered
  PROVE  TransportInv'
<1>1. /\ rx' = rx /\ tx' = Rest /\ lsr' = LsrOf(rx', tx') /\ mode' = mode /\ state' = state
      /\ eof' = eof /\ arrived' = arrived /\ got' = got /\ written' = written /\ taken' = taken
      /\ overrun' = overrun /\ wire' = wire \o Drained /\ connected' = FALSE /\ connected
      /\ SetCarrier(FALSE) /\ eof /\ serviced' = FALSE /\ own' = own /\ due' = due
  BY NothingNew DEF PumpClosed, PumpOut, Rest, RecomputeLSR
<1>. DEFINE v == wire \o Drained
<1>3. /\ v \in Stream /\ HasRead(v, "data") /\ DataOf(v) \o Rest = written
      /\ CommandsOf(v) = CommandsOf(wire) /\ Rest \in Seq(Byte) /\ Len(Rest) <= RingSize
  BY DrainMoves
<1>4. wire' = v
  BY <1>1
<1>. HIDE DEF v
<1>5. UartTypeOK'
  <2>1. rx \in Seq(Byte) /\ Len(rx) <= RingSize /\ UartTypeOK
    BY DEF TransportInv, TransportTyped, UartTypeOK
  <2>2. lsr' \in SUBSET LsrBits
    BY <1>1, LsrType
  <2>. QED
    BY <1>1, <1>3, <2>1, <2>2, CarrierType
<1>10. OnlineMode'
  BY <1>1 DEF TransportInv, OnlineMode, mode
<1>11. TransportTyped
  BY DEF TransportInv
<1>6. TransportTyped'
  BY <1>1, <1>3, <1>4, <1>5, <1>11 DEF TransportTyped
<1>7. InStep'
  BY <1>1, <1>3, <1>4 DEF InStep
<1>8. OutboundTransparent'
  BY <1>1, <1>3, <1>4 DEF OutboundTransparent
<1>9. (InboundTransparent /\ Negotiated)'
  BY <1>1, <1>3, <1>4 DEF TransportInv, InboundTransparent, Negotiated, Received
<1>. QED
  BY <1>6, <1>7, <1>8, <1>9, <1>10 DEF TransportInv

Fresh == [state |-> state, rx |-> rx, lost |-> overrun, out |-> <<>>]

(* The drained bytes go before the replies, and the chunk is parsed on.    *)
LEMMA PumpBothKeeps ==
  ASSUME TransportInv, PumpBoth, UNCHANGED <<eof, arrived, written, taken, own>>, Answered
  PROVE  TransportInv'
<1>1. PICK n \in 0 .. InSize :
        LET p == Parse(SubSeq(arrived, got + 1, got + n)) IN
        /\ got + n <= Len(arrived)
        /\ got' = got + n
        /\ rx' = p.rx /\ state' = p.state /\ overrun' = p.lost
        /\ wire' = wire \o Drained \o p.out
  BY DEF PumpBoth
<1>. DEFINE chunk == SubSeq(arrived, got + 1, got + n)
            p == Parsed(Fresh, chunk)
            v == wire \o Drained
<1>2. /\ got + n <= Len(arrived) /\ got' = got + n /\ rx' = p.rx /\ state' = p.state
      /\ overrun' = p.lost /\ wire' = v \o p.out
  BY <1>1 DEF Parse, Fresh
<1>3. /\ tx' = Rest /\ lsr' = LsrOf(rx', tx') /\ mode' = mode /\ line' = line
      /\ eof' = eof /\ arrived' = arrived /\ written' = written /\ taken' = taken
      /\ connected' = connected /\ connected /\ serviced' = serviced /\ own' = own
  BY DEF PumpBoth, PumpOut, Rest, RecomputeLSR
<1>4. /\ TransportTyped /\ HasRead(Received, state)
      /\ (~overrun => taken \o rx = DataOf(Received))
      /\ CommandsOf(wire) = due
  BY <1>3 DEF TransportInv, InStep, InboundTransparent, Negotiated
<1>5. /\ v \in Stream /\ HasRead(v, "data") /\ DataOf(v) \o Rest = written
      /\ CommandsOf(v) = CommandsOf(wire) /\ Rest \in Seq(Byte) /\ Len(Rest) <= RingSize
  BY DrainMoves
<1>. HIDE DEF v
<1>6. Received \in Seq(Byte) /\ taken \in Seq(Byte) /\ rx \in Seq(Byte) /\ Len(rx) <= RingSize
  BY <1>4, ReceivedType DEF TransportTyped, UartTypeOK
<1>7. arrived \in Seq(Byte) /\ Len(arrived) \in Nat /\ got \in 0 .. Len(arrived)
      /\ n \in Nat /\ \A i \in 1 .. Len(arrived) : arrived[i] \in Byte
  <2>1. InSize \in Nat
    BY TransportAssumption
  <2>. QED
    BY <1>4, <2>1, LenProperties, ElementOfSeq DEF TransportTyped
<1>8. chunk \in Seq(Byte)
  <2>1. got + 1 \in Int /\ got + n \in Int /\ \A i \in got + 1 .. got + n : arrived[i] \in Byte
    BY <1>2, <1>7
  <2>. QED
    BY <2>1, SubSeqProperties
<1>9. Received' = Received \o chunk
  <2>1. /\ 1 \in 1 .. Len(arrived) + 1 /\ got \in 1 - 1 .. Len(arrived)
        /\ got + n \in got .. Len(arrived)
    BY <1>2, <1>7
  <2>2. SubSeq(arrived, 1, got) \o SubSeq(arrived, got + 1, got + n) = SubSeq(arrived, 1, got + n)
    BY <1>7, <2>1, ConcatAdjacentSubSeq
  <2>. QED
    BY <1>2, <1>3, <2>2 DEF Received
<1>. HIDE DEF chunk
<1>. DEFINE k == Len(CommandsOf(Received))
<1>21. /\ due \in Seq(WireByte \X WireByte) /\ k \in 0 .. Len(CommandsOf(Received))
       /\ CommandsOf(v) = due \o AllAgreed(After(CommandsOf(Received), k))
  <2>. DEFINE P == WireByte \X WireByte
              cs == CommandsOf(Received)
  <2>1. cs \in Seq(P)
    <3>1. Received \in Stream
      BY <1>6, ByteStream
    <3>. QED
      BY <3>1, StreamTypes
  <2>2. due \in Seq(P)
    BY <1>4, StreamTypes DEF TransportTyped
  <2>3. Len(cs) \in 0 .. Len(cs) /\ Len(cs) \in Nat
    BY <2>1, LenProperties
  <2>4. CommandsOf(v) = due
    BY <1>4, <1>5
  <2>. HIDE DEF P, cs
  <2>5. After(cs, Len(cs)) = <<>>
    BY <2>3, SubSeqEmpty DEF After
  <2>6. AllAgreed(<<>>) = <<>>
    BY DEF AllAgreed
  <2>7. due \o <<>> = due
    BY <2>2, ConcatEmptySeq
  <2>. QED
    BY <2>2, <2>3, <2>4, <2>5, <2>6, <2>7 DEF P, cs
<1>. HIDE DEF k
<1>10. Follows(Fresh, Received, taken, v, due, k)
  <2>1. Fresh \in Parser
    BY <1>4, EmptySeq DEF Fresh, Parser, TransportTyped, UartTypeOK
  <2>2. v \o <<>> = v
    BY <1>5, ConcatEmptySeq DEF Stream
  <2>3. Answers(v, Received, due, k)
    BY <1>21 DEF Answers
  <2>4. Fresh.out = <<>> /\ Fresh.rx = rx /\ Fresh.lost = overrun /\ Fresh.state = state
    BY DEF Fresh
  <2>. QED
    BY <1>4, <1>5, <1>6, <1>21, <2>1, <2>2, <2>3, <2>4 DEF Follows
<1>11. Follows(p, Received', taken, v, due, k)
  <2>. HIDE DEF p
  <2>1. Follows(Parsed(Fresh, chunk), Received \o chunk, taken, v, due, k)
    BY <1>5, <1>6, <1>8, <1>10, FollowsAll
  <2>. QED
    BY <1>9, <2>1 DEF p
<1>. HIDE DEF p
<1>12. /\ p \in Parser /\ Len(p.rx) <= RingSize /\ HasRead(Received', p.state)
       /\ (~p.lost => taken \o p.rx = DataOf(Received'))
       /\ v \o p.out \in Stream /\ HasRead(v \o p.out, "data")
       /\ DataOf(v \o p.out) = DataOf(v) /\ Answers(v \o p.out, Received', due, k)
  BY <1>11 DEF Follows
<1>13. p.rx \in Seq(Byte) /\ p.state \in State /\ p.lost \in BOOLEAN /\ p.out \in Seq(WireByte)
  BY <1>12 DEF Parser
<1>15. UartTypeOK'
  <2>1. lsr' \in SUBSET LsrBits
    BY <1>3, LsrType
  <2>. QED
    BY <1>2, <1>3, <1>4, <1>5, <1>12, <1>13, <2>1 DEF TransportTyped, UartTypeOK, line, mode
<1>16. TransportTyped' /\ OnlineMode'
  <2>1. got' \in 0 .. Len(arrived')
    BY <1>2, <1>3, <1>7
  <2>. QED
    BY <1>2, <1>3, <1>4, <1>12, <1>13, <1>15, <2>1
       DEF TransportInv, TransportTyped, OnlineMode, mode
<1>17. InStep'
  BY <1>2, <1>3, <1>12 DEF InStep
<1>18. OutboundTransparent'
  BY <1>2, <1>3, <1>5, <1>12 DEF OutboundTransparent
<1>19. InboundTransparent'
  BY <1>2, <1>3, <1>12 DEF InboundTransparent
<1>20. Negotiated'
  <2>1. got + (got' - got) = got'
    BY <1>2, <1>7
  <2>2. NewCommands(got' - got) = After(CommandsOf(Received'), k)
    <3>1. Received' = SubSeq(arrived, 1, got + (got' - got))
      BY <1>3, <2>1 DEF Received
    <3>. QED
      BY <3>1, Zenon DEF NewCommands, After, k
  <2>3. CommandsOf(wire') = due \o AllAgreed(After(CommandsOf(Received'), k))
    BY <1>2, <1>12 DEF Answers
  <2>. QED
    BY <2>2, <2>3, Zenon DEF Negotiated, Answered
<1>. QED
  BY <1>16, <1>17, <1>18, <1>19, <1>20 DEF TransportInv

LEMMA PumpKeeps == TransportInv /\ Pump /\ Answered => TransportInv'
BY PumpIdleKeeps, PumpClosedKeeps, PumpBothKeeps DEF Pump

(* A byte of the guest goes to the end of the output ring or is refused.   *)
LEMMA GuestWriteKeeps ==
  ASSUME TransportInv, NEW b \in GuestByte, GuestWrite(b)
  PROVE  TransportInv'
<1>1. ~dlab /\ ~loop /\ b \in Byte
  BY TransportAssumption DEF TransportInv, OnlineMode
<1>2. /\ rx' = rx /\ tx' = Put(tx, b) /\ lsr' = LsrOf(rx', tx') /\ line' = line /\ mode' = mode
      /\ written' = IF HasRoom(tx) THEN Append(written, b) ELSE written
      /\ state' = state /\ connected' = connected /\ eof' = eof /\ arrived' = arrived
      /\ got' = got /\ wire' = wire /\ taken' = taken /\ overrun' = overrun
      /\ serviced' = serviced /\ due' = due /\ own' = own
  BY <1>1 DEF GuestWrite, WriteTHR
<1>3. /\ tx \in Seq(Byte) /\ Len(tx) <= RingSize /\ written \in Seq(Byte) /\ wire \in Stream
      /\ UartTypeOK /\ TransportTyped /\ DataOf(wire) \o tx = written
  BY DEF TransportInv, TransportTyped, UartTypeOK, OutboundTransparent
<1>4. /\ tx' \in Seq(Byte) /\ Len(tx') <= RingSize /\ written' \in Seq(Byte)
      /\ DataOf(wire) \o tx' = written'
  <2>1. CASE HasRoom(tx)
    <3>1. tx' = Append(tx, b) /\ written' = Append(written, b)
      BY <1>2, <2>1 DEF Put
    <3>2. /\ Append(tx, b) \in Seq(Byte) /\ Append(written, b) \in Seq(Byte)
          /\ Len(Append(tx, b)) = Len(tx) + 1 /\ Len(tx) \in Nat
      BY <1>1, <1>3, AppendProperties, LenProperties
    <3>3. Len(Append(tx, b)) <= RingSize
      BY <2>1, <3>2, SizeAssumption DEF HasRoom
    <3>4. Shifts(DataOf(wire), tx, b)
      <4>1. DataOf(wire) \in Seq(WireByte) /\ tx \in Seq(WireByte) /\ b \in WireByte
        BY <1>1, <1>3, StreamTypes, ByteStream DEF Stream, WireByte
      <4>. QED
        BY <4>1, AppendToConcat
    <3>5. DataOf(wire) \o Append(tx, b) = Append(written, b)
      BY <1>3, <3>4, Zenon DEF Shifts
    <3>. QED
      BY <3>1, <3>2, <3>3, <3>5
  <2>2. CASE ~HasRoom(tx)
    BY <1>2, <1>3, <2>2 DEF Put
  <2>. QED
    BY <2>1, <2>2
<1>5. UartTypeOK'
  <2>1. lsr' \in SUBSET LsrBits
    BY <1>2, LsrType
  <2>. QED
    BY <1>2, <1>3, <1>4, <2>1 DEF UartTypeOK, line, mode
<1>6. TransportTyped' /\ OnlineMode'
  BY <1>2, <1>3, <1>4, <1>5 DEF TransportInv, TransportTyped, OnlineMode, mode
<1>7. (InStep /\ InboundTransparent /\ Negotiated)'
  BY <1>2 DEF TransportInv, InStep, InboundTransparent, Negotiated, Received
<1>8. OutboundTransparent'
  BY <1>2, <1>4 DEF OutboundTransparent
<1>. QED
  BY <1>6, <1>7, <1>8 DEF TransportInv

(* A first element moved to the end of what precedes it.                   *)
LEMMA HeadMoves ==
  ASSUME NEW S, NEW t \in Seq(S), NEW r \in Seq(S), r # <<>>
  PROVE  t \o r = Append(t, Head(r)) \o Tail(r)
<1>1. Head(r) \in S /\ Tail(r) \in Seq(S) /\ r = <<Head(r)>> \o Tail(r)
  BY HeadTailProperties
<1>2. <<Head(r)>> \in Seq(S) /\ Append(t, Head(r)) = t \o <<Head(r)>>
  BY <1>1, AppendIsConcat
<1>3. Groups(t, <<Head(r)>>, Tail(r))
  BY <1>1, <1>2, ConcatGroups
<1>. QED
  BY <1>1, <1>2, <1>3, Zenon DEF Groups

(* The guest reads the oldest byte of the input ring.                      *)
LEMMA GuestReadKeeps == TransportInv /\ GuestRead => TransportInv'
<1>. SUFFICES ASSUME TransportInv, GuestRead PROVE TransportInv'
  OBVIOUS
<1>1. /\ rx # <<>> /\ rx' = Tail(rx) /\ tx' = tx /\ lsr' = LsrOf(rx', tx')
      /\ line' = line /\ mode' = mode /\ taken' = Append(taken, Head(rx))
      /\ state' = state /\ connected' = connected /\ eof' = eof /\ arrived' = arrived
      /\ got' = got /\ wire' = wire /\ written' = written /\ overrun' = overrun
      /\ serviced' = serviced /\ due' = due /\ own' = own
  BY DEF TransportInv, OnlineMode, GuestRead, ReadRBR, Drop
<1>2. rx \in Seq(Byte) /\ Len(rx) <= RingSize /\ taken \in Seq(Byte) /\ UartTypeOK /\ TransportTyped
  BY DEF TransportInv, TransportTyped, UartTypeOK
<1>3. Tail(rx) \in Seq(Byte) /\ Len(Tail(rx)) = Len(rx) - 1 /\ Len(rx) \in Nat /\ Head(rx) \in Byte
  BY <1>1, <1>2, HeadTailProperties, LenProperties
<1>4. UartTypeOK'
  <2>1. lsr' \in SUBSET LsrBits
    BY <1>1, LsrType
  <2>2. Len(Tail(rx)) <= RingSize
    BY <1>2, <1>3, SizeAssumption
  <2>. QED
    BY <1>1, <1>2, <1>3, <2>1, <2>2 DEF UartTypeOK, line, mode
<1>5. taken' \in Seq(Byte)
  BY <1>1, <1>2, <1>3, AppendProperties
<1>6. TransportTyped' /\ OnlineMode'
  BY <1>1, <1>2, <1>4, <1>5 DEF TransportInv, TransportTyped, OnlineMode, mode
<1>7. (InStep /\ OutboundTransparent /\ Negotiated)'
  BY <1>1 DEF TransportInv, InStep, OutboundTransparent, Negotiated, Received
<1>8. InboundTransparent'
  <2>1. taken \o rx = Append(taken, Head(rx)) \o Tail(rx)
    BY <1>1, <1>2, HeadMoves
  <2>2. Received' = Received
    BY <1>1 DEF Received
  <2>3. ~overrun => taken \o rx = DataOf(Received)
    BY DEF TransportInv, InboundTransparent
  <2>4. ~overrun => Append(taken, Head(rx)) \o Tail(rx) = DataOf(Received)
    BY <2>1, <2>3, Zenon
  <2>. QED
    BY <1>1, <2>2, <2>4 DEF InboundTransparent
<1>. QED
  BY <1>6, <1>7, <1>8 DEF TransportInv

(* What the peer sends is not received yet.                                *)
LEMMA PeerSendsKeeps ==
  ASSUME TransportInv, NEW b \in Byte, PeerSends(b)
  PROVE  TransportInv'
<1>1. /\ uart' = uart /\ state' = state /\ connected' = connected /\ eof' = eof
      /\ arrived' = Append(arrived, b) /\ got' = got /\ wire' = wire /\ written' = written
      /\ taken' = taken /\ overrun' = overrun /\ serviced' = serviced /\ due' = due /\ own' = own
  BY DEF PeerSends
<1>2. arrived \in Seq(Byte) /\ Len(arrived) \in Nat /\ got \in 0 .. Len(arrived) /\ TransportTyped
  BY LenProperties DEF TransportInv, TransportTyped
<1>3. /\ arrived' \in Seq(Byte) /\ Len(arrived') = Len(arrived) + 1
      /\ \A i \in 1 .. Len(arrived) : arrived'[i] = arrived[i]
  BY <1>1, <1>2, AppendProperties
<1>4. Received' = Received
  <2>. DEFINE t == arrived'
  <2>1. got \in Int /\ \A i \in 1 .. got : arrived[i] \in Byte /\ t[i] \in Byte /\ t[i] = arrived[i]
    BY <1>2, <1>3, ElementOfSeq
  <2>. HIDE DEF t
  <2>2. /\ SubSeq(arrived, 1, got) \in Seq(Byte)
        /\ Len(SubSeq(arrived, 1, got)) = IF 1 <= got THEN got - 1 + 1 ELSE 0
        /\ \A i \in 1 .. got - 1 + 1 : SubSeq(arrived, 1, got)[i] = arrived[1 + i - 1]
    BY <2>1, SubSeqProperties
  <2>3. /\ SubSeq(t, 1, got) \in Seq(Byte)
        /\ Len(SubSeq(t, 1, got)) = IF 1 <= got THEN got - 1 + 1 ELSE 0
        /\ \A i \in 1 .. got - 1 + 1 : SubSeq(t, 1, got)[i] = t[1 + i - 1]
    BY <2>1, SubSeqProperties
  <2>4. \A i \in 1 .. got - 1 + 1 : i \in 1 .. got /\ 1 + i - 1 = i
    BY <1>2
  <2>5. \A i \in 1 .. Len(SubSeq(t, 1, got)) : i \in 1 .. got - 1 + 1
    BY <1>2, <2>3
  <2>6. SubSeq(t, 1, got) = SubSeq(arrived, 1, got)
    <3>. DEFINE a == SubSeq(arrived, 1, got)
                c == SubSeq(t, 1, got)
    <3>1. a \in Seq(Byte) /\ c \in Seq(Byte) /\ Len(c) = Len(a)
      BY <2>2, <2>3
    <3>2. \A i \in 1 .. Len(c) : c[i] = a[i]
      BY <2>1, <2>2, <2>3, <2>4, <2>5
    <3>. HIDE DEF a, c
    <3>3. c = a
      BY <3>1, <3>2, SeqEqual
    <3>. QED
      BY <3>3 DEF a, c
  <2>. QED
    BY <1>1, <2>6 DEF Received, t
<1>5. TransportTyped' /\ OnlineMode'
  <2>1. got' \in 0 .. Len(arrived')
    BY <1>1, <1>2, <1>3
  <2>. QED
    BY <1>1, <1>2, <1>3, <2>1 DEF TransportInv, TransportTyped, UartTypeOK, uart, OnlineMode
<1>6. (InStep /\ OutboundTransparent /\ InboundTransparent /\ Negotiated)'
  BY <1>1, <1>4
     DEF TransportInv, InStep, OutboundTransparent, InboundTransparent, Negotiated, uart
<1>. QED
  BY <1>5, <1>6 DEF TransportInv

LEMMA PeerClosesKeeps == TransportInv /\ PeerCloses => TransportInv'
<1>. SUFFICES ASSUME TransportInv, PeerCloses PROVE TransportInv'
  OBVIOUS
<1>1. /\ uart' = uart /\ state' = state /\ connected' = connected /\ eof' = TRUE
      /\ arrived' = arrived /\ got' = got /\ wire' = wire /\ written' = written
      /\ taken' = taken /\ overrun' = overrun /\ serviced' = serviced /\ due' = due /\ own' = own
  BY DEF PeerCloses
<1>. QED
  BY <1>1 DEF TransportInv, TransportTyped, UartTypeOK, uart, OnlineMode, InStep,
              OutboundTransparent, InboundTransparent, Negotiated, Received

(* Every step keeps the invariant.                                         *)
LEMMA TransportStep == TransportInv /\ [Next]_vars => TransportInv'
<1>. SUFFICES ASSUME TransportInv, [Next]_vars PROVE TransportInv'
  OBVIOUS
<1>1. CASE Dial
  BY <1>1, DialKeeps
<1>2. CASE HangUp
  BY <1>2, HangUpKeeps
<1>3. CASE own < MaxOwn /\ ConnectInbound
  BY <1>3, ConnectInboundKeeps
<1>10. CASE own < MaxOwn /\ SendBreak
  BY <1>10, SendBreakKeeps
<1>4. CASE Pump /\ Answered
  BY <1>4, PumpKeeps
<1>5. CASE \E b \in GuestByte : GuestWrite(b)
  BY <1>5, GuestWriteKeeps
<1>6. CASE GuestRead
  BY <1>6, GuestReadKeeps
<1>7. CASE \E b \in Byte : PeerSends(b)
  BY <1>7, PeerSendsKeeps
<1>8. CASE PeerCloses
  BY <1>8, PeerClosesKeeps
<1>9. CASE UNCHANGED vars
  BY <1>9 DEF vars, code, uart, TransportInv, TransportTyped, UartTypeOK, OnlineMode, InStep,
              OutboundTransparent, InboundTransparent, Negotiated, Received
<1>. QED
  BY <1>1, <1>2, <1>3, <1>4, <1>5, <1>6, <1>7, <1>8, <1>9, <1>10 DEF Next, Answered

(* The types, and that one pump never puts more into outbuf than it holds, *)
(* whatever the ring holds and however many of its bytes are doubled       *)
(* (NetTransport.pas 205-208).                                             *)
THEOREM TransportTypeCorrect == Spec => []TypeOK
<1>1. TransportInv => TypeOK
  BY DrainMoves DEF TransportInv, TransportTyped, TypeOK, Stream, WireByte
<1>. QED
  BY <1>1, TransportStarts, TransportStep, PTL DEF Spec

(* What the guest writes reaches the peer byte for byte, with breaks,      *)
(* answers and offers anywhere in between (NetTransport.pas 201-226,       *)
(* 291-303).                                                               *)
THEOREM GuestIsHeard == Spec => []OutboundTransparent
<1>1. TransportInv => OutboundTransparent
  BY DEF TransportInv
<1>. QED
  BY <1>1, TransportStarts, TransportStep, PTL DEF Spec

(* What the peer sends as data reaches the guest, however the network cuts *)
(* the stream (NetTransport.pas 228-289).                                  *)
THEOREM PeerIsHeard == Spec => []InboundTransparent
<1>1. TransportInv => InboundTransparent
  BY DEF TransportInv
<1>. QED
  BY <1>1, TransportStarts, TransportStep, PTL DEF Spec

(* The commands on the wire are the offers made and one answer for every   *)
(* command received, in order, wherever an offer is made again and however *)
(* the peer's stream is cut (NetTransport.pas 257-280, 291-297).           *)
THEOREM EveryRequestAnswered == Spec => []Negotiated
<1>1. TransportInv => Negotiated
  BY DEF TransportInv
<1>. QED
  BY <1>1, TransportStarts, TransportStep, PTL DEF Spec
=============================================================================
