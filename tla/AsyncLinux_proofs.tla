--------------------------- MODULE AsyncLinux_proofs ---------------------------
(***************************************************************************)
(* The safety properties of the Linux ASYNC layer, for every number of     *)
(* calls and bytes, every buffer length (none included), every stream, and *)
(* whichever of the three ways the channel is named.                       *)
(***************************************************************************)
EXTENDS AsyncLinux, SequenceTheorems, TLAPS

\* The types in three parts, with what they need besides TypeOK: the shapes of
\* the history, and that a call is accepted only while there is none and one is
\* left to come.
LineOK ==
  /\ env \in {"PCBFD", "PCBPORT", "NMPORT"}
  /\ comm_fd \in {"none", "open", "shut", "closed"}
  /\ CDokay \in BOOLEAN /\ CDup = CDokay
  /\ CDokay => comm_fd # "none"
  /\ comm_fd = "closed" => env = "PCBFD"
  /\ dropped \in {"no", "local", "recv", "send", "asked for nothing"}
  /\ pc = "accept" => ~CDokay

FrameOK ==
  /\ pc \in {"idle", "accept", "getbuf", "getstr"}
  /\ want \in 0..MaxLen /\ line \in Seq(Nat)
  /\ pc = "getstr" /\ want > 0 => Len(line) + 1 <= want
  /\ pc = "accept" => calls < MaxCalls

StreamOK ==
  /\ peer \in {"none", "open", "closed", "reset", "gone"}
  /\ arrived \in 0..MaxSent /\ next \in 0..arrived
  /\ inBytes \in Nat /\ outBytes \in Nat /\ calls \in 0..MaxCalls
  /\ got \in Seq(Nat) /\ flushed \subseteq Nat

Shape == LineOK /\ FrameOK /\ StreamOK
Inv   == Shape /\ ReadOnce /\ DropsAtEnd

USE DEF Idle, Return, Unread

\* The three parts are the types.
LEMMA ShapeIsType == Shape => TypeOK
  BY Zenon DEF Shape, LineOK, FrameOK, StreamOK, TypeOK

\* The initial state.
LEMMA InitInv == Init => Inv
<1>. SUFFICES ASSUME Init PROVE Inv
  OBVIOUS
<1>1. LineOK
  BY DEF Init, LineOK
<1>2. FrameOK
  BY BoundsAssumption DEF Init, FrameOK
<1>3. StreamOK
  BY BoundsAssumption DEF Init, StreamOK
<1>4. ReadOnce
  BY DEF Init, ReadOnce, Handed
<1>5. DropsAtEnd
  BY DEF Init, DropsAtEnd
<1>. QED BY <1>1, <1>2, <1>3, <1>4, <1>5 DEF Inv, Shape

\* The numbers of the model.
LEMMA Numbers ==
  ASSUME Shape
  PROVE  /\ next \in Nat /\ arrived \in Nat /\ next <= arrived
         /\ inBytes \in Nat /\ outBytes \in Nat
         /\ got \in Seq(Nat) /\ flushed \subseteq Nat
  BY BoundsAssumption DEF Shape, StreamOK

\* Taking n bytes that are there keeps the types.
LEMMA HandShape ==
  ASSUME NEW n \in Nat, n <= Unread, Shape, Hand(n)
  PROVE  /\ next' \in 0..arrived /\ inBytes' \in Nat /\ outBytes' = outBytes
         /\ got' \in Seq(Nat) /\ flushed' = flushed
<1>. DEFINE new == [i \in 1..n |-> next + i]
<1>1. next \in Nat /\ arrived \in Nat /\ inBytes \in Nat /\ got \in Seq(Nat)
  BY Numbers
<1>2. new \in Seq(Nat)
  BY <1>1
<1>3. got' \in Seq(Nat)
  BY <1>1, <1>2, ConcatProperties DEF Hand
<1>. QED BY <1>1, <1>3 DEF Hand

\* Taking n bytes keeps each byte taken once and in order.
LEMMA HandReadOnce ==
  ASSUME NEW n \in Nat, Shape, ReadOnce, Hand(n)
  PROVE  ReadOnce'
<1>. DEFINE new == [i \in 1..n |-> next + i]
<1>1. next \in Nat /\ got \in Seq(Nat)
  BY Numbers
<1>2. new \in Seq(Nat) /\ Len(new) = n
  BY <1>1
<1>3. got' = got \o new /\ next' = next + n /\ flushed' = flushed
  BY DEF Hand
<1>4. /\ Len(got') = Len(got) + n
      /\ \A i \in 1..Len(got) : got'[i] = got[i]
      /\ \A i \in 1..n : got'[Len(got) + i] = next + i
  BY <1>1, <1>2, <1>3
<1>5. DOMAIN got = 1..Len(got) /\ DOMAIN got' = 1..(Len(got) + n) /\ Len(got) \in Nat
  BY <1>1, <1>2, <1>3, <1>4
<1>6. \A i \in 1..Len(got) : got[i] \in 1..next
  BY <1>5 DEF ReadOnce, Handed
<1>7. \A i \in (Len(got) + 1)..(Len(got) + n) : got'[i] = next + (i - Len(got))
  <2>1. SUFFICES ASSUME NEW i \in (Len(got) + 1)..(Len(got) + n)
                 PROVE  got'[i] = next + (i - Len(got))
    OBVIOUS
  <2>2. i - Len(got) \in 1..n /\ Len(got) + (i - Len(got)) = i
    BY <1>5
  <2>. QED BY <2>2, <1>4
<1>8. \A i, j \in DOMAIN got' : i < j => got'[i] < got'[j]
  <2>1. SUFFICES ASSUME NEW i \in 1..(Len(got) + n), NEW j \in 1..(Len(got) + n), i < j
                 PROVE  got'[i] < got'[j]
    BY <1>5
  <2>2. CASE j <= Len(got)
    BY <2>1, <2>2, <1>4, <1>5 DEF ReadOnce
  <2>3. CASE i <= Len(got) /\ j > Len(got)
    <3>1. i \in 1..Len(got) /\ j \in (Len(got) + 1)..(Len(got) + n)
      BY <2>3, <1>5
    <3>2. got'[i] = got[i] /\ got[i] \in 1..next /\ got'[j] = next + (j - Len(got))
      BY <3>1, <1>4, <1>6, <1>7
    <3>. QED BY <3>1, <3>2, <1>1, <1>5
  <2>4. CASE i > Len(got)
    <3>1. i \in (Len(got) + 1)..(Len(got) + n) /\ j \in (Len(got) + 1)..(Len(got) + n)
      BY <2>1, <2>4, <1>5
    <3>2. got'[i] = next + (i - Len(got)) /\ got'[j] = next + (j - Len(got))
      BY <3>1, <1>7
    <3>. QED BY <3>1, <3>2, <2>1, <1>1, <1>5
  <2>. QED BY <2>2, <2>3, <2>4, <1>5
<1>9. Handed' = Handed \cup (next + 1)..(next + n)
  <2>1. ASSUME NEW b \in Handed' PROVE b \in Handed \cup (next + 1)..(next + n)
    <3>1. PICK i \in 1..(Len(got) + n) : b = got'[i]
      BY <1>5, <2>1 DEF Handed
    <3>2. CASE i <= Len(got)
      BY <3>1, <3>2, <1>4, <1>5 DEF Handed
    <3>3. CASE i > Len(got)
      BY <3>1, <3>3, <1>7, <1>5, <1>1
    <3>. QED BY <3>2, <3>3, <1>5
  <2>2. ASSUME NEW b \in Handed PROVE b \in Handed'
    <3>1. PICK i \in 1..Len(got) : b = got[i]
      BY <1>5, <2>2 DEF Handed
    <3>2. i \in DOMAIN got' /\ got'[i] = b
      BY <3>1, <1>4, <1>5
    <3>. QED BY <3>2 DEF Handed
  <2>3. ASSUME NEW b \in (next + 1)..(next + n) PROVE b \in Handed'
    <3>1. b - next \in 1..n /\ Len(got) + (b - next) \in DOMAIN got'
      BY <1>1, <1>5
    <3>2. got'[Len(got) + (b - next)] = next + (b - next)
      BY <3>1, <1>4
    <3>3. next + (b - next) = b
      BY <1>1
    <3>. QED BY <3>1, <3>2, <3>3 DEF Handed
  <2>. QED BY <2>1, <2>2, <2>3
<1>10. Handed' \cup flushed' = 1..next'
  <2>1. 1..(next + n) = (1..next) \cup (next + 1)..(next + n)
    BY <1>1
  <2>. QED BY <2>1, <1>3, <1>9 DEF ReadOnce
<1>11. Handed' \cap flushed' = {}
  <2>1. flushed \subseteq 1..next
    BY DEF ReadOnce
  <2>2. (1..next) \cap (next + 1)..(next + n) = {}
    BY <1>1
  <2>. QED BY <2>1, <2>2, <1>3, <1>9 DEF ReadOnce
<1>. QED BY <1>8, <1>10, <1>11 DEF ReadOnce

-----------------------------------------------------------------------------
\* The smaller of two numbers.
LEMMA MinOfBounds ==
  \A a, b \in Nat : /\ MinOf(a, b) \in Nat /\ MinOf(a, b) <= a /\ MinOf(a, b) <= b
                    /\ (a > 0 /\ b > 0) => MinOf(a, b) > 0
  BY DEF MinOf

\* The promise about the end speaks of four variables only.
LEMMA EndKept ==
  ASSUME DropsAtEnd, UNCHANGED <<dropped, peer, arrived, next>>
  PROVE  DropsAtEnd'
  BY DEF DropsAtEnd

\* A carrier that goes for another reason keeps it.
LEMMA EndKeptDown ==
  ASSUME NEW why, why # "recv", DropsAtEnd, Down(why), UNCHANGED <<peer, arrived, next>>
  PROVE  DropsAtEnd'
  BY DEF DropsAtEnd, Down

\* What is not read stays read once.
LEMMA ReadKept == ASSUME ReadOnce, UNCHANGED taken PROVE ReadOnce'
  BY DEF ReadOnce, Handed, taken

\* Taking the carrier down keeps the line in order, outside of accept.
LEMMA DownLine ==
  ASSUME NEW why \in {"local", "recv", "send", "asked for nothing"}, LineOK,
         Down(why), env' = env,
         comm_fd' = comm_fd \/ comm_fd' \in {"none", "shut"}
  PROVE  LineOK'
  BY DEF LineOK, Down

\* The line is in order while carrier and descriptor stay.
LEMMA LineKept ==
  ASSUME LineOK, UNCHANGED <<env, comm_fd, carrier>>, pc' # "accept" \/ pc' = pc
  PROVE  LineOK'
  BY DEF LineOK, carrier

\* A call that returns leaves a frame in order.
LEMMA ReturnFrame == ASSUME Return PROVE FrameOK'
  BY BoundsAssumption DEF FrameOK

\* The streams are in order while the numbers and the histories stay.
LEMMA StreamKept ==
  ASSUME StreamOK, UNCHANGED <<arrived, taken, count, calls>>,
         peer' \in {"none", "open", "closed", "reset", "gone"}
  PROVE  StreamOK'
  BY DEF StreamOK, taken, count

\* A new connection starts all over, in a frame of any kind but accept.
LEMMA NewConnectionInv ==
  ASSUME Inv, NewConnection, calls < MaxCalls, pc' # "accept"
  PROVE  LineOK' /\ StreamOK' /\ ReadOnce' /\ DropsAtEnd'
<1>1. LineOK'
  BY DEF Inv, Shape, LineOK, NewConnection, CarrierOn
<1>2. StreamOK'
  BY BoundsAssumption DEF Inv, Shape, StreamOK, NewConnection, CarrierOn, count
<1>3. ReadOnce'
  BY DEF NewConnection, ReadOnce, Handed
<1>4. DropsAtEnd'
  BY DEF NewConnection, CarrierOn, DropsAtEnd
<1>. QED BY <1>1, <1>2, <1>3, <1>4

\* A failed attempt changes the descriptor only, and there is no carrier.
LEMMA NoConnectionInv ==
  ASSUME Inv, NoConnection, ~CDokay, pc' # "accept"
  PROVE  LineOK' /\ StreamOK' /\ ReadOnce' /\ DropsAtEnd'
<1>1. LineOK'
  BY DEF Inv, Shape, LineOK, NoConnection, carrier
<1>2. StreamOK'
  BY StreamKept DEF Inv, Shape, StreamOK, NoConnection, stream
<1>3. ReadOnce'
  BY ReadKept DEF Inv, NoConnection
<1>4. DropsAtEnd'
  BY EndKept DEF Inv, NoConnection, carrier, stream, taken
<1>. QED BY <1>1, <1>2, <1>3, <1>4

\* Handing over bytes that are there keeps the streams and both promises: after
\* a peer that closed and was read to the end there is nothing to hand over.
LEMMA HandInv ==
  ASSUME NEW n \in Nat, n > 0, n <= Unread, Inv, Hand(n), UNCHANGED calls,
         arrived' = arrived, peer' = peer \/ (peer = "reset" /\ peer' = "gone"),
         dropped' = dropped
  PROVE  StreamOK' /\ ReadOnce' /\ DropsAtEnd'
<1>1. /\ next' \in 0..arrived /\ inBytes' \in Nat /\ outBytes' = outBytes
      /\ got' \in Seq(Nat) /\ flushed' = flushed
  BY HandShape DEF Inv
<1>2. StreamOK'
  BY <1>1 DEF Inv, Shape, StreamOK
<1>3. ReadOnce'
  BY HandReadOnce DEF Inv
<1>4. DropsAtEnd'
  <2>1. next # arrived
    BY Numbers DEF Inv
  <2>. QED BY <2>1 DEF Inv, DropsAtEnd
<1>. QED BY <1>2, <1>3, <1>4

\* The carrier that a reading call takes down is that of a finished call.
LEMMA LostInv ==
  ASSUME Inv, KeyEnd, Down("recv"), Report,
         UNCHANGED <<env, comm_fd, taken, count, calls>>
  PROVE  LineOK' /\ StreamOK' /\ ReadOnce' /\ DropsAtEnd'
<1>1. LineOK'
  BY DownLine DEF Inv, Shape, LineOK
<1>2. StreamOK'
  BY StreamKept DEF Inv, Shape, StreamOK, Report
<1>3. ReadOnce'
  BY ReadKept DEF Inv
<1>4. DropsAtEnd'
  <2>1. next = arrived /\ peer \in {"closed", "reset", "gone"}
    BY Numbers DEF Inv, KeyEnd, ReadsEnd, ReadFails
  <2>. QED BY <2>1 DEF DropsAtEnd, Report, taken
<1>. QED BY <1>1, <1>2, <1>3, <1>4

\* Discarding what has arrived is a way of reading it.
LEMMA ClearInv ==
  ASSUME Inv, CLEARINBUF
  PROVE  StreamOK' /\ ReadOnce' /\ DropsAtEnd'
<1>. DEFINE n == MinOf(Unread, FlushMax)
<1>1. /\ next \in Nat /\ arrived \in Nat /\ next <= arrived /\ flushed \subseteq Nat
  BY Numbers DEF Inv
<1>2. n \in Nat /\ n <= Unread
  BY <1>1, MinOfBounds, BoundsAssumption
<1>3. /\ next' = next + n /\ flushed' = flushed \cup (next + 1)..(next + n)
      /\ got' = got /\ arrived' = arrived
      /\ peer' = peer \/ (peer = "reset" /\ peer' = "gone")
      /\ dropped' = dropped /\ inBytes' = inBytes /\ outBytes' = outBytes /\ calls' = calls
  BY DEF CLEARINBUF, Report, ReadFails, carrier, count
<1>. HIDE DEF n
<1>4. StreamOK'
  BY <1>1, <1>2, <1>3 DEF Inv, Shape, StreamOK
<1>5. ReadOnce'
  <2>1. Handed' = Handed
    BY <1>3 DEF Handed
  <2>2. /\ 1..(next + n) = (1..next) \cup (next + 1)..(next + n)
        /\ (1..next) \cap (next + 1)..(next + n) = {}
    BY <1>1, <1>2
  <2>3. Handed' \cup flushed' = 1..next' /\ Handed' \cap flushed' = {}
    BY <1>3, <2>1, <2>2 DEF Inv, ReadOnce
  <2>. QED BY <1>3, <2>3 DEF Inv, ReadOnce
<1>6. DropsAtEnd'
  BY <1>1, <1>2, <1>3 DEF Inv, DropsAtEnd
<1>. QED BY <1>4, <1>5, <1>6

-----------------------------------------------------------------------------
\* Every step keeps the invariant.
LEMMA StepInv == Inv /\ [Next]_vars => Inv'
<1>. SUFFICES ASSUME Inv, [Next]_vars PROVE Inv'
  OBVIOUS
<1>. USE DEF Inv, Shape
<1>1. CASE InitByFd
  <2>1. /\ calls < MaxCalls /\ pc' = "idle" /\ env' = env /\ env = "PCBFD"
        /\ CarrierOn /\ comm_fd' = PassedFd
        /\ UNCHANGED <<count, frame, stream, taken>>
    BY <1>1 DEF InitByFd, Starting, frame
  <2>2. LineOK'
    BY <2>1 DEF LineOK, CarrierOn, PassedFd
  <2>3. FrameOK'
    BY <2>1 DEF FrameOK, frame
  <2>4. StreamOK' /\ ReadOnce'
    BY <2>1, ReadKept, BoundsAssumption DEF StreamOK, CarrierOn, count, stream, taken
  <2>5. DropsAtEnd'
    BY <2>1 DEF CarrierOn, DropsAtEnd
  <2>. QED BY <2>2, <2>3, <2>4, <2>5
<1>2. CASE InitListen
  <2>0. /\ ~CDokay /\ calls < MaxCalls /\ pc' \in {"accept", "idle"}
        /\ comm_fd' \in {comm_fd, "none"}
        /\ UNCHANGED <<env, carrier, count, want, line, stream, taken, calls>>
    BY <1>2 DEF InitListen, Starting
  <2>1. LineOK'
    BY <2>0 DEF LineOK, carrier
  <2>2. FrameOK'
    BY <2>0 DEF FrameOK
  <2>3. StreamOK' /\ ReadOnce' /\ DropsAtEnd'
    BY <2>0, StreamKept, ReadKept, EndKept
       DEF StreamOK, stream, taken, carrier
  <2>. QED BY <2>1, <2>2, <2>3
<1>3. CASE InitAccept
  <2>1. FrameOK' /\ pc' # "accept"
    BY <1>3, ReturnFrame DEF InitAccept
  <2>2. CASE NewConnection
    <3>1. calls < MaxCalls
      BY <1>3 DEF InitAccept, FrameOK
    <3>. QED BY <2>1, <2>2, <3>1, NewConnectionInv
  <2>3. CASE NoConnection
    BY <1>3, <2>1, <2>3, NoConnectionInv DEF InitAccept, LineOK
  <2>. QED BY <1>3, <2>2, <2>3 DEF InitAccept
<1>4. CASE InitConnect
  <2>1. calls < MaxCalls /\ ~CDokay /\ pc' # "accept" /\ FrameOK'
    BY <1>4 DEF InitConnect, Starting, frame, FrameOK
  <2>2. NewConnection \/ NoConnection
    BY <1>4 DEF InitConnect
  <2>. QED BY <2>1, <2>2, NewConnectionInv, NoConnectionInv
<1>5. CASE CLOSECOM \/ TURNOFFDTR
  <2>1. /\ Down("local") /\ (comm_fd' = comm_fd \/ comm_fd' \in {"none", "shut"})
        /\ UNCHANGED <<env, count, frame, stream, taken, calls>>
    BY <1>5 DEF CLOSECOM, TURNOFFDTR
  <2>2. LineOK'
    BY <2>1, DownLine
  <2>3. FrameOK'
    BY <2>1 DEF FrameOK, frame
  <2>4. StreamOK' /\ ReadOnce'
    BY <2>1, StreamKept, ReadKept DEF StreamOK, stream
  <2>5. DropsAtEnd'
    BY <2>1, EndKeptDown DEF stream, taken
  <2>. QED BY <2>2, <2>3, <2>4, <2>5
<1>6. CASE COMMINKEY
  <2>1. /\ FrameOK' /\ calls' = calls /\ pc' = pc /\ Report
        /\ comm_fd' = comm_fd /\ env' = env
    BY <1>6 DEF COMMINKEY, frame, FrameOK
  <2>2. CASE KeyByte
    <3>1. Hand(1) /\ 1 <= Unread /\ UNCHANGED carrier
      BY <2>2, Numbers DEF KeyByte
    <3>2. LineOK'
      BY <2>1, <3>1, LineKept
    <3>3. StreamOK' /\ ReadOnce' /\ DropsAtEnd'
      BY <2>1, <3>1, HandInv DEF Report, ReadFails, carrier
    <3>. QED BY <2>1, <3>2, <3>3
  <2>3. CASE KeyLost
    BY <2>1, <2>3, LostInv DEF KeyLost
  <2>. QED BY <1>6, <2>2, <2>3 DEF COMMINKEY
<1>7. ASSUME NEW len \in 0..MaxLen, CSENDSTR(len) PROVE Inv'
  <2>1. /\ comm_fd' = comm_fd /\ env' = env /\ inBytes' = inBytes
        /\ UNCHANGED <<frame, stream, taken, calls>>
    BY <1>7 DEF CSENDSTR
  <2>2. outBytes' \in Nat
    BY <1>7, Numbers, BoundsAssumption DEF CSENDSTR
  <2>3. FrameOK' /\ pc' = pc
    BY <2>1 DEF FrameOK, frame
  <2>4. StreamOK' /\ ReadOnce'
    BY <2>1, <2>2, ReadKept DEF StreamOK, stream, taken
  <2>5. CASE UNCHANGED carrier
    BY <2>1, <2>3, <2>4, <2>5, LineKept, EndKept DEF stream, taken, carrier
  <2>6. CASE Down("send")
    BY <2>1, <2>3, <2>4, <2>6, DownLine, EndKeptDown DEF stream, taken, LineOK
  <2>. QED BY <1>7, <2>5, <2>6 DEF CSENDSTR
<1>8. ASSUME NEW maxlen \in 0..MaxLen, GetBufEnter(maxlen) \/ GetStrEnter(maxlen)
      PROVE  Inv'
  <2>1. /\ UNCHANGED <<env, comm_fd, carrier, count, stream, taken, calls>>
        /\ pc' # "accept"
    BY <1>8 DEF GetBufEnter, GetStrEnter
  <2>2. FrameOK'
    <3>1. CASE GetBufEnter(maxlen)
      BY <3>1 DEF GetBufEnter, FrameOK
    <3>2. CASE GetStrEnter(maxlen)
      <4>1. <<>> \in Seq(Nat) /\ (maxlen > 0 => Len(<<>>) + 1 <= maxlen)
        BY BoundsAssumption
      <4>. QED BY <3>2, <4>1 DEF GetStrEnter, FrameOK
    <3>. QED BY <1>8, <3>1, <3>2
  <2>3. StreamOK'
    BY <2>1, StreamKept DEF StreamOK, stream
  <2>. QED BY <2>1, <2>2, <2>3, LineKept, ReadKept, EndKept DEF stream, taken, carrier
<1>9. CASE GetBufReturn
  <2>1. /\ FrameOK' /\ pc' # "accept" /\ comm_fd' = comm_fd /\ env' = env
        /\ calls' = calls
    BY <1>9, ReturnFrame DEF GetBufReturn
  <2>2. CASE /\ Live /\ want > 0 /\ Unread > 0 /\ Report
             /\ \E n \in 1..MinOf(want, Unread) : Hand(n)
             /\ UNCHANGED carrier
    <3>1. PICK n \in 1..MinOf(want, Unread) : Hand(n)
      BY <2>2
    <3>2. n \in Nat /\ n > 0 /\ n <= Unread
      <4>1. want \in Nat /\ Unread \in Nat
        BY Numbers, BoundsAssumption DEF FrameOK
      <4>2. MinOf(want, Unread) \in Nat /\ MinOf(want, Unread) <= Unread
        BY <4>1, MinOfBounds
      <4>. QED BY <4>1, <4>2
    <3>3. StreamOK' /\ ReadOnce' /\ DropsAtEnd'
      BY <2>1, <2>2, <3>1, <3>2, HandInv DEF Report, ReadFails, carrier
    <3>. QED BY <2>1, <2>2, <3>3, LineKept
  <2>3. CASE want > 0 /\ ReadsEnd /\ Down("recv") /\ Report /\ UNCHANGED <<taken, count>>
    BY <2>1, <2>3, LostInv DEF KeyEnd
  <2>4. CASE /\ Live /\ want = 0 /\ Down("asked for nothing")
             /\ UNCHANGED <<taken, count, stream>>
    <3>1. StreamOK' /\ ReadOnce'
      BY <2>1, <2>4, StreamKept, ReadKept DEF StreamOK, stream
    <3>2. DropsAtEnd'
      BY <2>4, EndKeptDown DEF stream, taken
    <3>. QED BY <2>1, <2>4, <3>1, <3>2, DownLine
  <2>5. CASE /\ ~Live \/ (want > 0 /\ ReadFails)
             /\ Report /\ UNCHANGED <<carrier, taken, count>>
    <3>1. StreamOK' /\ ReadOnce'
      BY <2>1, <2>5, StreamKept, ReadKept DEF StreamOK, Report
    <3>2. DropsAtEnd'
      BY <2>1, <2>5 DEF DropsAtEnd, carrier, Report, ReadFails, taken
    <3>. QED BY <2>1, <2>5, <3>1, <3>2, LineKept
  <2>. QED BY <1>9, <2>2, <2>3, <2>4, <2>5 DEF GetBufReturn
<1>10. CASE GetStrByte
  <2>1. /\ Hand(1) /\ 1 <= Unread
        /\ UNCHANGED <<carrier, env, comm_fd, pc, want, stream, calls>>
    BY <1>10, Numbers DEF GetStrByte, KeyByte
  <2>2. FrameOK'
    <3>1. next \in Nat /\ line' = Append(line, next + 1) /\ line \in Seq(Nat)
      BY <1>10, Numbers DEF GetStrByte, FrameOK
    <3>2. line' \in Seq(Nat) /\ Len(line') = Len(line) + 1 /\ Len(line) \in Nat
      BY <3>1
    <3>3. Len(line) < want - 1 /\ want \in Nat
      BY <1>10, BoundsAssumption DEF GetStrByte, LineRoom, FrameOK
    <3>. QED BY <2>1, <3>2, <3>3 DEF FrameOK
  <2>3. StreamOK' /\ ReadOnce' /\ DropsAtEnd'
    BY <2>1, HandInv DEF stream, carrier
  <2>. QED BY <2>1, <2>2, <2>3, LineKept
<1>11. CASE GetStrReturn
  <2>1. /\ FrameOK' /\ pc' # "accept" /\ comm_fd' = comm_fd /\ env' = env
        /\ calls' = calls
    BY <1>11, ReturnFrame DEF GetStrReturn
  <2>2. CASE UNCHANGED <<carrier, taken, count, stream>>
    <3>1. StreamOK'
      BY <2>1, <2>2, StreamKept DEF StreamOK, stream
    <3>. QED BY <2>1, <2>2, <3>1, LineKept, ReadKept, EndKept DEF stream, taken, carrier
  <2>3. CASE KeyLost /\ Report
    BY <2>1, <2>3, LostInv DEF KeyLost
  <2>. QED BY <1>11, <2>2, <2>3 DEF GetStrReturn
<1>12. CASE ONLINE
  <2>1. /\ FrameOK' /\ pc' = pc /\ comm_fd' = comm_fd /\ env' = env
        /\ calls' = calls /\ Report
        /\ UNCHANGED <<taken, count>>
    BY <1>12 DEF ONLINE, Peeked, frame, FrameOK
  <2>2. StreamOK' /\ ReadOnce'
    BY <2>1, StreamKept, ReadKept DEF StreamOK, Report
  <2>3. CASE ReadsEnd /\ Down("recv")
    BY <2>1, <2>3, LostInv DEF KeyEnd
  <2>4. CASE UNCHANGED carrier
    <3>1. DropsAtEnd'
      BY <2>1, <2>4 DEF DropsAtEnd, carrier, Report, ReadFails, taken
    <3>. QED BY <2>1, <2>2, <2>4, <3>1, LineKept
  <2>. QED BY <1>12, <2>3, <2>4 DEF ONLINE
<1>13. CASE CLEARINBUF
  <2>1. FrameOK' /\ LineOK'
    BY <1>13, LineKept DEF CLEARINBUF, frame, FrameOK
  <2>. QED BY <1>13, <2>1, ClearInv
<1>14. CASE PeerSend \/ PeerClose \/ PeerReset
  <2>1. /\ UNCHANGED <<env, comm_fd, carrier, count, frame, taken, calls>>
        /\ peer' \in {"open", "closed", "reset"}
    BY <1>14 DEF PeerSend, PeerClose, PeerReset
  <2>2. LineOK' /\ FrameOK' /\ ReadOnce'
    BY <2>1, LineKept, ReadKept DEF frame, FrameOK
  <2>3. arrived' \in 0..MaxSent /\ next' \in 0..arrived'
    BY <1>14, <2>1, Numbers, BoundsAssumption
       DEF PeerSend, PeerClose, PeerReset, StreamOK, taken
  <2>4. StreamOK'
    BY <2>1, <2>3 DEF StreamOK, taken, count
  <2>5. DropsAtEnd'
    BY <1>14 DEF PeerSend, PeerClose, PeerReset, DropsAtEnd, carrier
  <2>. QED BY <2>2, <2>4, <2>5
<1>15. CASE UNCHANGED vars
  <2>1. LineOK' /\ FrameOK'
    BY <1>15, LineKept DEF vars, frame, FrameOK
  <2>2. StreamOK'
    BY <1>15, StreamKept DEF vars, stream, StreamOK
  <2>. QED BY <1>15, <2>1, <2>2, ReadKept, EndKept DEF vars, stream, carrier, taken
<1>. QED BY <1>1, <1>2, <1>3, <1>4, <1>5, <1>6, <1>7, <1>8, <1>9, <1>10, <1>11, <1>12,
            <1>13, <1>14, <1>15 DEF Next, Program

-----------------------------------------------------------------------------
\* The shapes of the layer's state hold throughout: the line of CGETSTR and its
\* zero fit into every buffer that is not empty, and only a number from PCBFD is
\* ever that of a closed descriptor.
THEOREM LayerTypeCorrect == Spec => []TypeOK
<1>1. Inv => TypeOK
  BY ShapeIsType DEF Inv
<1>. QED BY <1>1, InitInv, StepInv, PTL DEF Spec

\* Whatever calls PCBoard makes, every byte taken from the socket is handed over
\* once and in order, or discarded by CLEARINBUF.
THEOREM BytesReadOnce == Spec => []ReadOnce
<1>1. Inv => ReadOnce
  BY DEF Inv
<1>. QED BY <1>1, InitInv, StepInv, PTL DEF Spec

\* A reading call that asks for at least one byte takes the carrier away only when
\* the call is over.
THEOREM CarrierDropsAtEnd == Spec => []DropsAtEnd
<1>1. Inv => DropsAtEnd
  BY DEF Inv
<1>. QED BY <1>1, InitInv, StepInv, PTL DEF Spec
=============================================================================
