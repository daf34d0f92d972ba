---------------------------- MODULE Fossil_proofs ----------------------------
(* Proofs of the safety invariants of Fossil, and of the rings under it,   *)
(* for rings of any size, any byte values and any set of blocks.  The two  *)
(* specifications share their constants and no variable.                   *)
EXTENDS Fossil, ByteRing, SequenceTheorems, TLAPS

(* A bounded queue of bytes. *)
Queue(q) == q \in Seq(Byte) /\ Len(q) <= RingSize

-----------------------------------------------------------------------------
(* The queue operators. *)

(* Put keeps the queue bounded; it leaves a byte there, and the head of a  *)
(* queue that was not empty.                                               *)
LEMMA PutQueue ==
  ASSUME NEW q, Queue(q), NEW b \in Byte
  PROVE  /\ Queue(Put(q, b))
         /\ Put(q, b) # <<>>
         /\ q # <<>> => Head(Put(q, b)) = Head(q)
<1>1. Len(q) \in Nat /\ RingSize \in Nat /\ RingSize # 0
  BY SizeAssumption, LenProperties DEF Queue
<1>2. CASE HasRoom(q)
  <2>1. Append(q, b) \in Seq(Byte) /\ Len(Append(q, b)) = Len(q) + 1
    BY DEF Queue
  <2>2. q # <<>> => Head(Append(q, b)) = Head(q)
    BY <1>1 DEF Queue
  <2>3. Append(q, b) # <<>>
    BY <1>1, <2>1
  <2>4. Len(Append(q, b)) <= RingSize
    BY <1>1, <1>2, <2>1 DEF HasRoom
  <2>5. Put(q, b) = Append(q, b)
    BY <1>2 DEF Put
  <2>. QED
    BY <2>1, <2>2, <2>3, <2>4, <2>5 DEF Queue
<1>3. CASE ~HasRoom(q)
  BY <1>1, <1>3 DEF Queue, Put, HasRoom
<1>. QED
  BY <1>2, <1>3

(* Taking the first byte keeps the queue bounded. *)
LEMMA DropQueue ==
  ASSUME NEW q, Queue(q)
  PROVE  Queue(Drop(q)) /\ Len(Drop(q)) <= Len(q)
<1>1. CASE q = <<>>
  BY <1>1 DEF Queue, Drop
<1>2. CASE q # <<>>
  <2>1. Tail(q) \in Seq(Byte) /\ Len(Tail(q)) = Len(q) - 1
    BY <1>2, HeadTailProperties DEF Queue
  <2>. QED
    BY <1>2, <2>1, SizeAssumption, LenProperties DEF Queue, Drop
<1>. QED
  BY <1>1, <1>2

(* The empty queue is bounded. *)
LEMMA EmptyQueue == Queue(<<>>)
BY SizeAssumption DEF Queue

(* What Fn 18h leaves of the input is bounded. *)
LEMMA RestQueue ==
  ASSUME NEW q, Queue(q), NEW k \in 1 .. RingSize
  PROVE  Queue(IF k < Len(q) THEN SubSeq(q, k + 1, Len(q)) ELSE <<>>)
<1>1. Len(q) \in Nat /\ k \in Nat /\ k >= 1 /\ RingSize \in Nat
  BY SizeAssumption, LenProperties DEF Queue
<1>2. CASE k < Len(q)
  <2>1. k + 1 \in 1 .. Len(q) + 1 /\ Len(q) \in k .. Len(q)
    BY <1>1, <1>2
  <2>2. /\ SubSeq(q, k + 1, Len(q)) \in Seq(Byte)
        /\ Len(SubSeq(q, k + 1, Len(q))) = IF k + 1 <= Len(q) THEN Len(q) - (k + 1) + 1 ELSE 0
    BY <1>1, <1>2, <2>1, SubSeqProperties DEF Queue
  <2>. QED
    BY <1>1, <1>2, <2>2 DEF Queue
<1>3. CASE ~(k < Len(q))
  BY <1>3, EmptyQueue
<1>. QED
  BY <1>2, <1>3

(* A block cut to the room left fits the queue. *)
LEMMA FittingQueue ==
  ASSUME NEW s \in Blocks, Queue(tx)
  PROVE  Queue(tx \o Fitting(s))
<1>1. /\ s \in Seq(Byte) /\ Len(s) \in Nat
      /\ Len(tx) \in Nat /\ RingSize \in Nat /\ Len(tx) <= RingSize
  BY SizeAssumption, FossilAssumption, LenProperties DEF Queue
<1>2. Fitting(s) \in Seq(Byte) /\ Len(Fitting(s)) <= RingSize - Len(tx)
  <2>1. CASE Len(s) <= RingSize - Len(tx)
    BY <1>1, <2>1 DEF Fitting
  <2>2. CASE ~(Len(s) <= RingSize - Len(tx))
    <3>1. RingSize - Len(tx) \in Nat /\ RingSize - Len(tx) <= Len(s)
      BY <1>1, <2>2
    <3>2. /\ SubSeq(s, 1, RingSize - Len(tx)) \in Seq(Byte)
          /\ Len(SubSeq(s, 1, RingSize - Len(tx))) = RingSize - Len(tx)
      BY <1>1, <3>1, SubSeqProperties
    <3>. QED
      BY <1>1, <2>2, <3>1, <3>2 DEF Fitting
  <2>. QED
    BY <2>1, <2>2
<1>3. /\ tx \o Fitting(s) \in Seq(Byte)
      /\ Len(tx \o Fitting(s)) = Len(tx) + Len(Fitting(s))
  BY <1>2, ConcatProperties DEF Queue
<1>4. Len(Fitting(s)) \in Nat
  BY <1>2, LenProperties
<1>. QED
  BY <1>1, <1>2, <1>3, <1>4 DEF Queue

-----------------------------------------------------------------------------
(* What a step does to each part of the state. *)

(* Both rings stay within their size. *)
LEMMA RingsStep ==
  ASSUME Queue(rx), Queue(tx), Next
  PROVE  Queue(rx') /\ Queue(tx')
<1>. DEFINE Goal == Queue(rx') /\ Queue(tx')
<1>. SUFFICES Goal
  OBVIOUS
<1>1. CASE \/ \E b \in Byte : TxChar(b) \/ Arrive(b) \/ GuestWriteTHR(b)
  BY <1>1, Queue(rx), Queue(tx), PutQueue
  DEF TxChar, WriteTHR, RoomUsed, Arrive, NetToGuest, RecomputeLSR,
    GuestWriteTHR, rings
<1>2. CASE \/ RxChar
          \/ RxWaitReturn
          \/ X00Read
          \/ GuestReadRBR
          \/ ServerTake
  BY <1>2, Queue(rx), Queue(tx), DropQueue
  DEF RxChar, TakeChar, RecomputeLSR, InputUsed, RxWaitReturn, X00Read,
    GuestReadRBR, ReadRBR, ServerTake, GuestToNet, rings
<1>3. CASE \/ InitPort
          \/ PurgeOutput
          \/ PurgeInput
          \/ \E f, r, t : GuestWriteFCR(f, r, t)
  BY <1>3, Queue(rx), Queue(tx), EmptyQueue
  DEF InitPort, Reset, RecomputeLSR, RecomputeMSR, PurgeOutput, PurgeInput,
    InputUsed, GuestWriteFCR, WriteFCR, rings
<1>4. ASSUME NEW k \in 1 .. RingSize, ReadBlock(k) PROVE Goal
  BY <1>4, Queue(rx), Queue(tx), RestQueue
  DEF ReadBlock, RecomputeLSR, InputUsed, rings
<1>5. CASE \/ \E s \in Blocks : WriteBlock(s) \/ AnsiWrite(s)
  BY <1>5, Queue(rx), Queue(tx), FittingQueue
  DEF WriteBlock, RecomputeLSR, RoomUsed, AnsiWrite, rings
<1>6. CASE \/ Hangup
          \/ RxWaitEnter
          \/ Peek
          \/ GetStatus
          \/ FlushOutput
          \/ GuestReadLSR
          \/ GuestReadMSR
          \/ \E a, l : GuestWriteMode(a, l)
          \/ \E on : ServerCarrier(on) \/ ServerRing(on)
  BY <1>6, Queue(rx), Queue(tx)
  DEF Hangup, SetCarrier, RecomputeMSR, RxWaitEnter, Peek, GetStatus, ReadLSR,
    RecomputeLSR, FlushOutput, GuestReadLSR, GuestReadMSR, ReadMSR,
    GuestWriteMode, WriteLCR, WriteMCR, ServerCarrier, ServerRing, SetRing,
    rings, uart
<1>. HIDE DEF Goal
<1>. QED
  BY <1>1, <1>2, <1>3, <1>4, <1>5, <1>6
  DEF Next, GuestStep, FossilCall, RegisterAccess, ServerStep, X00Inject

(* LSR is left alone or rebuilt from the rings. *)
LEMMA LsrStep ==
  ASSUME Next
  PROVE  lsr' = lsr \/ lsr' = LsrOf(rx', tx')
<1>. DEFINE Goal == lsr' = lsr \/ lsr' = LsrOf(rx', tx')
<1>. SUFFICES Goal
  OBVIOUS
<1>1. CASE \/ InitPort
          \/ Hangup
          \/ RxChar
          \/ RxWaitEnter
          \/ RxWaitReturn
          \/ Peek
          \/ GetStatus
          \/ FlushOutput
          \/ PurgeOutput
          \/ PurgeInput
          \/ X00Read
          \/ \E b : TxChar(b) \/ Arrive(b) \/ GuestWriteTHR(b)
          \/ \E k : ReadBlock(k)
          \/ \E s : WriteBlock(s) \/ AnsiWrite(s)
          \/ GuestReadRBR
          \/ GuestReadLSR
          \/ GuestReadMSR
          \/ \E f, r, t : GuestWriteFCR(f, r, t)
          \/ \E a, l : GuestWriteMode(a, l)
          \/ ServerTake
          \/ \E on : ServerCarrier(on) \/ ServerRing(on)
  BY <1>1
  DEF InitPort, Reset, RecomputeLSR, RecomputeMSR, Hangup, SetCarrier, RxChar,
    TakeChar, InputUsed, RxWaitEnter, RxWaitReturn, Peek, GetStatus, ReadLSR,
    FlushOutput, PurgeOutput, PurgeInput, X00Read, TxChar, WriteTHR, RoomUsed,
    Arrive, NetToGuest, ReadBlock, WriteBlock, AnsiWrite, GuestReadRBR,
    ReadRBR, GuestReadLSR, GuestReadMSR, ReadMSR, GuestWriteTHR,
    GuestWriteFCR, WriteFCR, GuestWriteMode, WriteLCR, WriteMCR, ServerTake,
    GuestToNet, ServerCarrier, ServerRing, SetRing, uart, LsrOf
<1>. HIDE DEF Goal
<1>. QED
  BY <1>1
  DEF Next, GuestStep, FossilCall, RegisterAccess, ServerStep, X00Inject

(* The line changes by four operations of the UART only. *)
LEMMA LineStep ==
  ASSUME Next
  PROVE  \/ UNCHANGED <<line, seen>>
         \/ \E on \in BOOLEAN : (SetCarrier(on) \/ SetRing(on)) /\ UNCHANGED seen
         \/ ReadMSR /\ seen' = IF "DCD" \in msr THEN "up" ELSE "down"
         \/ Reset /\ seen' = "unknown"
<1>. DEFINE Goal == \/ UNCHANGED <<line, seen>>
                    \/ \E on \in BOOLEAN :
                         (SetCarrier(on) \/ SetRing(on)) /\ UNCHANGED seen
                    \/ ReadMSR /\ seen' = IF "DCD" \in msr THEN "up" ELSE "down"
                    \/ Reset /\ seen' = "unknown"
<1>. SUFFICES Goal
  OBVIOUS
<1>1. CASE \/ Hangup
          \/ \E on \in BOOLEAN : ServerCarrier(on) \/ ServerRing(on)
  BY <1>1
  DEF Hangup, ServerCarrier, ServerRing, promises
<1>2. CASE GuestReadMSR
  BY <1>2
  DEF GuestReadMSR
<1>3. CASE InitPort
  BY <1>3
  DEF InitPort, line, promises
<1>4. CASE \/ RxChar
          \/ RxWaitEnter
          \/ RxWaitReturn
          \/ Peek
          \/ GetStatus
          \/ FlushOutput
          \/ PurgeOutput
          \/ PurgeInput
          \/ X00Read
          \/ \E b : TxChar(b) \/ Arrive(b) \/ GuestWriteTHR(b)
          \/ \E k : ReadBlock(k)
          \/ \E s : WriteBlock(s) \/ AnsiWrite(s)
          \/ GuestReadRBR
          \/ GuestReadLSR
          \/ \E f, r, t : GuestWriteFCR(f, r, t)
          \/ \E a, l : GuestWriteMode(a, l)
          \/ ServerTake
  BY <1>4
  DEF RxChar, TakeChar, RecomputeLSR, InputUsed, RxWaitEnter, RxWaitReturn,
    Peek, GetStatus, ReadLSR, FlushOutput, PurgeOutput, PurgeInput, X00Read,
    TxChar, WriteTHR, RoomUsed, Arrive, NetToGuest, ReadBlock, WriteBlock,
    AnsiWrite, GuestReadRBR, ReadRBR, GuestReadLSR, GuestWriteTHR,
    GuestWriteFCR, WriteFCR, GuestWriteMode, WriteLCR, WriteMCR, ServerTake,
    GuestToNet, uart, line, promises
<1>. HIDE DEF Goal
<1>. QED
  BY <1>1, <1>2, <1>3, <1>4
  DEF Next, GuestStep, FossilCall, RegisterAccess, ServerStep, X00Inject

(* Whether a FOSSIL is initialised, DLAB and loopback stay Boolean. *)
LEMMA ModeStep ==
  ASSUME TypeOK, Next
  PROVE  fifoOn' \in BOOLEAN /\ dlab' \in BOOLEAN /\ loop' \in BOOLEAN
<1>. DEFINE Goal == fifoOn' \in BOOLEAN /\ dlab' \in BOOLEAN /\ loop' \in BOOLEAN
<1>. SUFFICES Goal
  OBVIOUS
<1>1. CASE \/ InitPort
          \/ \E f, r, t \in BOOLEAN : GuestWriteFCR(f, r, t)
          \/ \E a, l \in BOOLEAN : GuestWriteMode(a, l)
  BY <1>1
  DEF InitPort, Reset, RecomputeLSR, RecomputeMSR, GuestWriteFCR, WriteFCR,
    InputUsed, GuestWriteMode, WriteLCR, WriteMCR, TypeOK, UartTypeOK, mode
<1>2. CASE \/ Hangup
          \/ RxChar
          \/ RxWaitEnter
          \/ RxWaitReturn
          \/ Peek
          \/ GetStatus
          \/ FlushOutput
          \/ PurgeOutput
          \/ PurgeInput
          \/ X00Read
          \/ \E b : TxChar(b) \/ Arrive(b) \/ GuestWriteTHR(b)
          \/ \E k : ReadBlock(k)
          \/ \E s : WriteBlock(s) \/ AnsiWrite(s)
          \/ GuestReadRBR
          \/ GuestReadLSR
          \/ GuestReadMSR
          \/ ServerTake
          \/ \E on : ServerCarrier(on) \/ ServerRing(on)
  BY <1>2
  DEF Hangup, SetCarrier, RecomputeMSR, RxChar, TakeChar, RecomputeLSR,
    InputUsed, RxWaitEnter, RxWaitReturn, Peek, GetStatus, ReadLSR,
    FlushOutput, PurgeOutput, PurgeInput, X00Read, TxChar, WriteTHR, RoomUsed,
    Arrive, NetToGuest, ReadBlock, WriteBlock, AnsiWrite, GuestReadRBR,
    ReadRBR, GuestReadLSR, GuestReadMSR, ReadMSR, GuestWriteTHR, ServerTake,
    GuestToNet, ServerCarrier, ServerRing, SetRing, TypeOK, UartTypeOK, mode,
    uart
<1>. HIDE DEF Goal
<1>. QED
  BY <1>1, <1>2
  DEF Next, GuestStep, FossilCall, RegisterAccess, ServerStep, X00Inject

(* The variables that remember promises keep their types. *)
LEMMA PromiseStep ==
  ASSUME TypeOK, Next
  PROVE  /\ peeked' \in Byte \cup {NoByte}
         /\ told' \in SUBSET {"ready", "room"}
         /\ seen' \in {"up", "down", "unknown"}
<1>. DEFINE Goal == /\ peeked' \in Byte \cup {NoByte}
                    /\ told' \in SUBSET {"ready", "room"}
                    /\ seen' \in {"up", "down", "unknown"}
<1>. SUFFICES Goal
  OBVIOUS
<1>1. CASE Peek
  BY <1>1, HeadTailProperties, EmptySeq
  DEF Peek, TypeOK, UartTypeOK, FossilTypeOK
<1>2. CASE \/ GetStatus
          \/ GuestReadLSR
  BY <1>2
  DEF GetStatus, ReadLSR, RecomputeLSR, GuestReadLSR, TypeOK, UartTypeOK,
    FossilTypeOK, StatusOf, Flag
<1>3. ASSUME NEW b \in Byte, Arrive(b) PROVE Goal
  BY <1>3
  DEF Arrive, NetToGuest, RecomputeLSR, TypeOK, UartTypeOK, FossilTypeOK
<1>4. CASE \/ InitPort
          \/ Hangup
          \/ RxChar
          \/ RxWaitEnter
          \/ RxWaitReturn
          \/ FlushOutput
          \/ PurgeOutput
          \/ PurgeInput
          \/ X00Read
          \/ \E b : TxChar(b) \/ GuestWriteTHR(b)
          \/ \E k : ReadBlock(k)
          \/ \E s : WriteBlock(s) \/ AnsiWrite(s)
          \/ GuestReadRBR
          \/ GuestReadMSR
          \/ \E f, r, t : GuestWriteFCR(f, r, t)
          \/ \E a, l : GuestWriteMode(a, l)
          \/ ServerTake
          \/ \E on : ServerCarrier(on) \/ ServerRing(on)
  BY <1>4
  DEF InitPort, Reset, RecomputeLSR, RecomputeMSR, Hangup, SetCarrier, RxChar,
    TakeChar, InputUsed, RxWaitEnter, RxWaitReturn, FlushOutput, ReadLSR,
    PurgeOutput, PurgeInput, X00Read, TxChar, WriteTHR, RoomUsed, ReadBlock,
    WriteBlock, AnsiWrite, GuestReadRBR, ReadRBR, GuestReadMSR, ReadMSR,
    GuestWriteTHR, GuestWriteFCR, WriteFCR, GuestWriteMode, WriteLCR,
    WriteMCR, ServerTake, GuestToNet, ServerCarrier, ServerRing, SetRing,
    TypeOK, UartTypeOK, FossilTypeOK, uart, promises
<1>. HIDE DEF Goal
<1>. QED
  BY <1>1, <1>2, <1>3, <1>4
  DEF Next, GuestStep, FossilCall, RegisterAccess, ServerStep, X00Inject

(* The input ring is left alone, or grows at its end, or every promise     *)
(* about it is withdrawn; "ready" is only promised of a ring with a byte.  *)
LEMMA InputStep ==
  ASSUME Next
  PROVE  \/ /\ rx' = rx
            /\ peeked' \in {peeked, IF rx = <<>> THEN NoByte ELSE Head(rx)}
            /\ "ready" \in told' => "ready" \in told \/ rx # <<>>
         \/ /\ \E b \in Byte : rx' = Put(rx, b)
            /\ peeked' = peeked
            /\ "ready" \in told' => "ready" \in told
         \/ peeked' = NoByte /\ "ready" \notin told'
<1>. DEFINE Goal == \/ /\ rx' = rx
                       /\ peeked' \in {peeked, IF rx = <<>> THEN NoByte ELSE Head(rx)}
                       /\ "ready" \in told' => "ready" \in told \/ rx # <<>>
                    \/ /\ \E b \in Byte : rx' = Put(rx, b)
                       /\ peeked' = peeked
                       /\ "ready" \in told' => "ready" \in told
                    \/ peeked' = NoByte /\ "ready" \notin told'
<1>. SUFFICES Goal
  OBVIOUS
<1>1. CASE \/ \E b \in Byte : TxChar(b) \/ Arrive(b) \/ GuestWriteTHR(b)
  BY <1>1
  DEF TxChar, WriteTHR, RoomUsed, Arrive, NetToGuest, RecomputeLSR,
    GuestWriteTHR
<1>2. CASE \/ GetStatus
          \/ GuestReadLSR
  BY <1>2
  DEF GetStatus, ReadLSR, RecomputeLSR, GuestReadLSR, StatusOf, Flag, rings
<1>3. CASE Peek
  BY <1>3
  DEF Peek, uart
<1>4. CASE \/ InitPort
          \/ RxChar
          \/ RxWaitReturn
          \/ PurgeInput
          \/ X00Read
          \/ \E k : ReadBlock(k)
          \/ GuestReadRBR
          \/ \E f, r, t : GuestWriteFCR(f, r, t)
  BY <1>4
  DEF InitPort, Reset, RecomputeLSR, RecomputeMSR, RxChar, TakeChar,
    InputUsed, RxWaitReturn, PurgeInput, X00Read, ReadBlock, GuestReadRBR,
    ReadRBR, GuestWriteFCR, WriteFCR, rings, promises
<1>5. CASE \/ Hangup
          \/ RxWaitEnter
          \/ FlushOutput
          \/ PurgeOutput
          \/ \E s : WriteBlock(s) \/ AnsiWrite(s)
          \/ GuestReadMSR
          \/ \E a, l : GuestWriteMode(a, l)
          \/ ServerTake
          \/ \E on : ServerCarrier(on) \/ ServerRing(on)
  BY <1>5
  DEF Hangup, SetCarrier, RecomputeMSR, RxWaitEnter, FlushOutput, ReadLSR,
    RecomputeLSR, PurgeOutput, WriteBlock, RoomUsed, AnsiWrite, GuestReadMSR,
    ReadMSR, GuestWriteMode, WriteLCR, WriteMCR, ServerTake, GuestToNet,
    ServerCarrier, ServerRing, SetRing, uart, rings, promises, mode, line
<1>. HIDE DEF Goal
<1>. QED
  BY <1>1, <1>2, <1>3, <1>4, <1>5
  DEF Next, GuestStep, FossilCall, RegisterAccess, ServerStep, X00Inject

(* The output ring is left alone, or shrinks, or the promise of room is    *)
(* used; room is only promised of a ring that has some.                    *)
LEMMA OutputStep ==
  ASSUME Next
  PROVE  \/ /\ tx' = tx
            /\ "room" \in told' => "room" \in told \/ HasRoom(tx)
         \/ /\ tx' = Drop(tx) \/ tx' = <<>>
            /\ "room" \in told' => "room" \in told
         \/ "room" \notin told'
<1>. DEFINE Goal == \/ /\ tx' = tx
                       /\ "room" \in told' => "room" \in told \/ HasRoom(tx)
                    \/ /\ tx' = Drop(tx) \/ tx' = <<>>
                       /\ "room" \in told' => "room" \in told
                    \/ "room" \notin told'
<1>. SUFFICES Goal
  OBVIOUS
<1>1. CASE \/ \E b : TxChar(b) \/ GuestWriteTHR(b)
          \/ \E s : WriteBlock(s) \/ AnsiWrite(s)
  BY <1>1
  DEF TxChar, WriteTHR, RoomUsed, GuestWriteTHR, WriteBlock, RecomputeLSR,
    AnsiWrite
<1>2. CASE \/ GetStatus
          \/ GuestReadLSR
  BY <1>2
  DEF GetStatus, ReadLSR, RecomputeLSR, GuestReadLSR, StatusOf, Flag, rings
<1>3. CASE \/ PurgeOutput
          \/ ServerTake
          \/ \E f, r, t : GuestWriteFCR(f, r, t)
          \/ InitPort
  BY <1>3
  DEF PurgeOutput, ServerTake, GuestToNet, RecomputeLSR, GuestWriteFCR,
    WriteFCR, InputUsed, InitPort, Reset, RecomputeMSR, rings, promises
<1>4. CASE \/ Hangup
          \/ RxChar
          \/ RxWaitEnter
          \/ RxWaitReturn
          \/ Peek
          \/ FlushOutput
          \/ PurgeInput
          \/ X00Read
          \/ \E b : Arrive(b)
          \/ \E k : ReadBlock(k)
          \/ GuestReadRBR
          \/ GuestReadMSR
          \/ \E a, l : GuestWriteMode(a, l)
          \/ \E on : ServerCarrier(on) \/ ServerRing(on)
  BY <1>4
  DEF Hangup, SetCarrier, RecomputeMSR, RxChar, TakeChar, RecomputeLSR,
    InputUsed, RxWaitEnter, RxWaitReturn, Peek, FlushOutput, ReadLSR,
    PurgeInput, X00Read, Arrive, NetToGuest, ReadBlock, GuestReadRBR, ReadRBR,
    GuestReadMSR, ReadMSR, GuestWriteMode, WriteLCR, WriteMCR, ServerCarrier,
    ServerRing, SetRing, uart, rings, promises, mode, line
<1>. HIDE DEF Goal
<1>. QED
  BY <1>1, <1>2, <1>3, <1>4
  DEF Next, GuestStep, FossilCall, RegisterAccess, ServerStep, X00Inject

-----------------------------------------------------------------------------
(* The invariants. *)

(* The initial state satisfies every invariant. *)
LEMMA InitSafe ==
  ASSUME Init
  PROVE  TypeOK /\ MsrMatchesLine /\ CarrierChangeLatched /\ StatusKept /\ PeekKept
<1>1. TypeOK
  BY EmptyQueue
  DEF Init, UartInit, TypeOK, UartTypeOK, FossilTypeOK, Queue, LsrOf, Flag,
    LsrBits, MsrBits, Deltas
<1>2. MsrMatchesLine /\ CarrierChangeLatched /\ StatusKept /\ PeekKept
  BY DEF Init, UartInit, MsrMatchesLine, CarrierChangeLatched, StatusKept, PeekKept
<1>. QED
  BY <1>1, <1>2

(* Every step keeps the types. *)
LEMMA TypeStep ==
  ASSUME TypeOK, Next
  PROVE  TypeOK'
<1>1. Queue(rx') /\ Queue(tx')
  BY RingsStep DEF TypeOK, UartTypeOK, Queue
<1>2. lsr' \in SUBSET LsrBits
  BY LsrStep DEF TypeOK, UartTypeOK, LsrOf, Flag, LsrBits
<1>3. msr' \in SUBSET MsrBits /\ online' \in BOOLEAN /\ ringing' \in BOOLEAN
  <2>1. CASE UNCHANGED line
    BY <2>1 DEF TypeOK, UartTypeOK, line
  <2>2. CASE \E on \in BOOLEAN : SetCarrier(on) \/ SetRing(on)
    BY <2>2
    DEF SetCarrier, SetRing, RecomputeMSR, Flag, TypeOK, UartTypeOK, MsrBits, Deltas
  <2>3. CASE ReadMSR
    BY <2>3 DEF ReadMSR, TypeOK, UartTypeOK
  <2>4. CASE Reset
    BY <2>4 DEF Reset, RecomputeMSR, Flag, TypeOK, UartTypeOK, MsrBits, Deltas
  <2>. QED
    BY <2>1, <2>2, <2>3, <2>4, LineStep
<1>4. waiting' \in BOOLEAN
  BY DEF Next, GuestStep, ServerStep, RxWaitEnter, RxWaitReturn, TypeOK, FossilTypeOK
<1>. QED
  BY <1>1, <1>2, <1>3, <1>4, ModeStep, PromiseStep
  DEF TypeOK, UartTypeOK, FossilTypeOK, Queue

(* Every step keeps MSR equal to the line it reports. *)
LEMMA LineMatchStep ==
  ASSUME TypeOK, MsrMatchesLine, Next
  PROVE  MsrMatchesLine'
<1>1. CASE UNCHANGED line
  BY <1>1 DEF MsrMatchesLine, line
<1>2. CASE \E on \in BOOLEAN : SetCarrier(on) \/ SetRing(on)
  BY <1>2
  DEF SetCarrier, SetRing, RecomputeMSR, Flag, Deltas, MsrMatchesLine, TypeOK, UartTypeOK
<1>3. CASE ReadMSR
  BY <1>3 DEF ReadMSR, Deltas, MsrMatchesLine
<1>4. CASE Reset
  BY <1>4 DEF Reset, RecomputeMSR, Flag, Deltas, MsrMatchesLine
<1>. QED
  BY <1>1, <1>2, <1>3, <1>4, LineStep

(* Every step keeps a change of carrier the guest has not read latched.    *)
(* SetCarrier compares with Online, so this needs MsrMatchesLine.          *)
LEMMA LatchStep ==
  ASSUME TypeOK, MsrMatchesLine, CarrierChangeLatched, Next
  PROVE  CarrierChangeLatched'
<1>1. CASE UNCHANGED <<line, seen>>
  BY <1>1 DEF CarrierChangeLatched, line
<1>2. ASSUME NEW on \in BOOLEAN, SetCarrier(on) \/ SetRing(on), UNCHANGED seen
      PROVE  CarrierChangeLatched'
  <2>1. "DDCD" \in msr => "DDCD" \in msr'
    BY <1>2 DEF SetCarrier, SetRing, RecomputeMSR, Deltas
  <2>2. "DDCD" \in msr' \/ online' = online
    BY <1>2 DEF SetCarrier, SetRing, RecomputeMSR, Flag, Deltas
  <2>. QED
    BY <1>2, <2>1, <2>2, LineMatchStep DEF MsrMatchesLine, CarrierChangeLatched
<1>3. CASE ReadMSR /\ seen' = IF "DCD" \in msr THEN "up" ELSE "down"
  BY <1>3 DEF ReadMSR, Deltas, CarrierChangeLatched
<1>4. CASE seen' = "unknown"
  BY <1>4 DEF CarrierChangeLatched
<1>. QED
  BY <1>1, <1>2, <1>3, <1>4, LineStep

(* Every step keeps the promises of the last status report. *)
LEMMA StatusStep ==
  ASSUME TypeOK, StatusKept, Next
  PROVE  StatusKept'
<1>1. Queue(rx) /\ Queue(tx)
  BY DEF TypeOK, UartTypeOK, Queue
<1>2. "ready" \in told' => rx' # <<>>
  BY <1>1, InputStep, PutQueue DEF StatusKept
<1>3. "room" \in told' => HasRoom(tx')
  <2>1. HasRoom(tx) => HasRoom(Drop(tx))
    BY <1>1, DropQueue, SizeAssumption, LenProperties DEF HasRoom, Queue
  <2>2. HasRoom(<<>>)
    BY SizeAssumption DEF HasRoom
  <2>. QED
    BY <2>1, <2>2, OutputStep DEF StatusKept
<1>. QED
  BY <1>2, <1>3 DEF StatusKept, HasRoom

(* Every step keeps the byte the guest has peeked at the head. *)
LEMMA PeekStep ==
  ASSUME TypeOK, PeekKept, Next
  PROVE  PeekKept'
<1>1. Queue(rx)
  BY DEF TypeOK, UartTypeOK, Queue
<1>. QED
  BY <1>1, InputStep, PutQueue DEF PeekKept

(* UartReset, UartSetCarrier, every register access and every FOSSIL call  *)
(* keep the port well formed: the rings never hold more than RING_SIZE     *)
(* bytes and the status registers hold only bits that exist.               *)
THEOREM PortTypeCorrect == Spec => []TypeOK
<1>1. Init => TypeOK
  BY InitSafe
<1>2. TypeOK /\ [Next]_vars => TypeOK'
  <2>1. ASSUME TypeOK, UNCHANGED vars PROVE TypeOK'
    BY <2>1
    DEF vars, uart, promises, TypeOK, UartTypeOK, FossilTypeOK
  <2>. QED
    BY <2>1, TypeStep
<1>. QED
  BY <1>1, <1>2, PTL DEF Spec

(* The MSR a guest reads is the line the transport drives. *)
THEOREM LineReported == Spec => []MsrMatchesLine
<1>1. Init => MsrMatchesLine
  BY InitSafe
<1>2. TypeOK /\ MsrMatchesLine /\ [Next]_vars => MsrMatchesLine'
  <2>1. ASSUME MsrMatchesLine, UNCHANGED vars PROVE MsrMatchesLine'
    BY <2>1 DEF vars, uart, MsrMatchesLine
  <2>. QED
    BY <2>1, LineMatchStep
<1>. QED
  BY <1>1, <1>2, PortTypeCorrect, PTL DEF Spec

(* A guest that polls MSR never misses a change of carrier, whatever       *)
(* number of changes and calls lie between two polls.                      *)
THEOREM CarrierNeverMissed == Spec => []CarrierChangeLatched
<1>1. Init => CarrierChangeLatched
  BY InitSafe
<1>2. TypeOK /\ MsrMatchesLine /\ CarrierChangeLatched /\ [Next]_vars
        => CarrierChangeLatched'
  <2>1. ASSUME CarrierChangeLatched, UNCHANGED vars PROVE CarrierChangeLatched'
    BY <2>1 DEF vars, uart, promises, CarrierChangeLatched
  <2>. QED
    BY <2>1, LatchStep
<1>. QED
  BY <1>1, <1>2, PortTypeCorrect, LineReported, PTL DEF Spec

(* What Fn 03h or LSR reported of the rings stays true until the guest     *)
(* uses it, for rings and blocks of any size.                              *)
THEOREM StatusTrustworthy == Spec => []StatusKept
<1>1. Init => StatusKept
  BY InitSafe
<1>2. TypeOK /\ StatusKept /\ [Next]_vars => StatusKept'
  <2>1. ASSUME StatusKept, UNCHANGED vars PROVE StatusKept'
    BY <2>1 DEF vars, uart, promises, StatusKept, HasRoom
  <2>. QED
    BY <2>1, StatusStep
<1>. QED
  BY <1>1, <1>2, PortTypeCorrect, PTL DEF Spec

(* The byte Fn 0Ch showed is the next byte the guest takes. *)
THEOREM PeekTrustworthy == Spec => []PeekKept
<1>1. Init => PeekKept
  BY InitSafe
<1>2. TypeOK /\ PeekKept /\ [Next]_vars => PeekKept'
  <2>1. ASSUME PeekKept, UNCHANGED vars PROVE PeekKept'
    BY <2>1 DEF vars, uart, promises, PeekKept
  <2>. QED
    BY <2>1, PeekStep
<1>. QED
  BY <1>1, <1>2, PortTypeCorrect, PTL DEF Spec

-----------------------------------------------------------------------------
(* The rings: cursors, cells, and the queue they implement.                *)

(* A cursor that is advanced by less than two turns wraps at most once.    *)
LEMMA Wrap ==
  \A i \in 0 .. (2 * RingSize - 1) :
    i % RingSize = IF i < RingSize THEN i ELSE i - RingSize
  BY SizeAssumption, RingAssumption, SMTT(30)

LEMMA CursorInRange == \A i \in Nat : i % RingSize \in Cell
  BY SizeAssumption, RingAssumption DEF Cell

(* Storing a byte moves the write cursor as the count moves.               *)
LEMMA HeadAdvances ==
  \A t \in Cell, n \in 0 .. RingSize - 1 :
    (((t + n) % RingSize) + 1) % RingSize = (t + (n + 1)) % RingSize
<1> SUFFICES ASSUME NEW t \in Cell, NEW n \in 0 .. RingSize - 1
             PROVE  (((t + n) % RingSize) + 1) % RingSize = (t + (n + 1)) % RingSize
  OBVIOUS
<1>1. (t + n) % RingSize = IF t + n < RingSize THEN t + n ELSE t + n - RingSize
  BY Wrap, SizeAssumption, RingAssumption DEF Cell
<1>2. (t + (n + 1)) % RingSize
        = IF t + n + 1 < RingSize THEN t + n + 1 ELSE t + n + 1 - RingSize
  BY Wrap, SizeAssumption, RingAssumption DEF Cell
<1>3. CASE t + n < RingSize
  BY <1>1, <1>3, SizeAssumption, RingAssumption DEF Cell
<1>4. CASE t + n >= RingSize
  <2>1. (t + n - RingSize + 1) % RingSize
          = IF t + n - RingSize + 1 < RingSize
              THEN t + n - RingSize + 1 ELSE t + n - RingSize + 1 - RingSize
    BY <1>4, Wrap, SizeAssumption, RingAssumption DEF Cell
  <2> QED
    BY <1>1, <1>2, <1>4, <2>1, SizeAssumption, RingAssumption DEF Cell
<1> QED
  BY <1>3, <1>4, SizeAssumption, RingAssumption DEF Cell

(* Taking a byte moves the read cursor and the count in opposite ways.     *)
LEMMA TailAdvances ==
  \A t \in Cell, n \in 1 .. RingSize :
    (((t + 1) % RingSize) + (n - 1)) % RingSize = (t + n) % RingSize
<1> SUFFICES ASSUME NEW t \in Cell, NEW n \in 1 .. RingSize
             PROVE  (((t + 1) % RingSize) + (n - 1)) % RingSize = (t + n) % RingSize
  OBVIOUS
<1>1. (t + 1) % RingSize = IF t + 1 < RingSize THEN t + 1 ELSE 0
  BY Wrap, SizeAssumption, RingAssumption DEF Cell
<1>2. CASE t + 1 < RingSize
  BY <1>1, <1>2, SizeAssumption, RingAssumption DEF Cell
<1>3. CASE t + 1 = RingSize
  <2>1. (t + n) % RingSize = t + n - RingSize
    BY <1>3, Wrap, SizeAssumption, RingAssumption DEF Cell
  <2>2. (0 + (n - 1)) % RingSize = n - 1
    BY Wrap, SizeAssumption, RingAssumption DEF Cell
  <2> QED
    BY <1>1, <1>3, <2>1, <2>2, SizeAssumption, RingAssumption DEF Cell
<1> QED
  BY <1>2, <1>3, SizeAssumption, RingAssumption DEF Cell

(* The cell behind the last byte is none of the cells that hold a byte.    *)
LEMMA FreshCell ==
  \A t \in Cell, n \in 0 .. RingSize - 1 : \A i \in 1 .. n :
    (t + i - 1) % RingSize # (t + n) % RingSize
<1> SUFFICES ASSUME NEW t \in Cell, NEW n \in 0 .. RingSize - 1, NEW i \in 1 .. n
             PROVE  (t + i - 1) % RingSize # (t + n) % RingSize
  OBVIOUS
<1>1. (t + i - 1) % RingSize
        = IF t + i - 1 < RingSize THEN t + i - 1 ELSE t + i - 1 - RingSize
  BY Wrap, SizeAssumption, RingAssumption DEF Cell
<1>2. (t + n) % RingSize = IF t + n < RingSize THEN t + n ELSE t + n - RingSize
  BY Wrap, SizeAssumption, RingAssumption DEF Cell
<1> QED
  BY <1>1, <1>2, SizeAssumption, RingAssumption DEF Cell

-----------------------------------------------------------------------------
LEMMA StoreWellFormed ==
  ASSUME NEW r \in Ring, NEW b \in Byte,
         r.head = (r.tail + r.count) % RingSize,
         ~RingFull(r)
  PROVE  /\ Store(r, b) \in Ring
         /\ Store(r, b).head = (Store(r, b).tail + Store(r, b).count) % RingSize
<1>1. r.count \in 0 .. RingSize - 1
  BY SizeAssumption, RingAssumption DEF Ring, RingFull
<1>2. (r.head + 1) % RingSize \in Cell
  <2>1. r.head + 1 \in Nat
    BY DEF Ring, Cell
  <2> QED
    BY <2>1, CursorInRange
<1>3. (r.head + 1) % RingSize = (r.tail + (r.count + 1)) % RingSize
  BY <1>1, HeadAdvances DEF Ring
<1>4. [r.data EXCEPT ![r.head] = b] \in [Cell -> Byte]
  BY DEF Ring
<1> QED
  BY <1>1, <1>2, <1>3, <1>4, SizeAssumption, RingAssumption DEF Store, Ring

LEMMA DiscardWellFormed ==
  ASSUME NEW r \in Ring,
         r.head = (r.tail + r.count) % RingSize,
         r.count # 0
  PROVE  /\ Discard(r) \in Ring
         /\ Discard(r).head
              = (Discard(r).tail + Discard(r).count) % RingSize
<1>1. r.count \in 1 .. RingSize
  BY DEF Ring
<1>2. (r.tail + 1) % RingSize \in Cell
  <2>1. r.tail + 1 \in Nat
    BY DEF Ring, Cell
  <2> QED
    BY <2>1, CursorInRange
<1>3. (((r.tail + 1) % RingSize) + (r.count - 1)) % RingSize = r.head
  BY <1>1, TailAdvances DEF Ring
<1> QED
  BY <1>1, <1>2, <1>3, SizeAssumption, RingAssumption DEF Discard, Ring

LEMMA WellFormedInit == RingInit => WellFormed
<1>1. (0 + 0) % RingSize = 0
  BY Wrap, SizeAssumption, RingAssumption
<1> QED
  BY <1>1, SizeAssumption, RingAssumption
  DEF RingInit, WellFormed, RingTypeOK, CursorsAgree, Ring, Cell, Result, Returned

LEMMA ResultTyped ==
  /\ Returned(TRUE, <<>>) \in Result
  /\ Returned(FALSE, <<>>) \in Result
  /\ \A b \in Byte : Returned(TRUE, <<b>>) \in Result
  BY DEF Returned, Result

LEMMA WellFormedStep == WellFormed /\ [RingNext]_ringVars => WellFormed'
<1> SUFFICES ASSUME WellFormed, [RingNext]_ringVars
             PROVE  WellFormed'
  OBVIOUS
<1> USE DEF WellFormed, RingTypeOK, CursorsAgree
<1>1. ASSUME NEW b \in Byte, RingPut(b)
      PROVE  WellFormed'
  <2>1. CASE ~RingFull(ring)
    <3>1. ring' = Store(ring, b) /\ result' \in Result
      BY <1>1, <2>1, ResultTyped DEF RingPut
    <3>2. /\ Store(ring, b) \in Ring
          /\ Store(ring, b).head
               = (Store(ring, b).tail + Store(ring, b).count) % RingSize
      BY <2>1, StoreWellFormed
    <3> QED
      BY <3>1, <3>2
  <2>2. CASE RingFull(ring)
    BY <1>1, <2>2, ResultTyped DEF RingPut
  <2> QED
    BY <2>1, <2>2
<1>2. CASE RingGet
  <2>1. CASE ring.count # 0
    <3>1. Front(ring) \in Byte
      BY DEF Front, Ring
    <3>2. ring' = Discard(ring) /\ result' \in Result
      BY <1>2, <2>1, <3>1, ResultTyped DEF RingGet
    <3>3. /\ Discard(ring) \in Ring
          /\ Discard(ring).head
               = (Discard(ring).tail + Discard(ring).count) % RingSize
      BY <2>1, DiscardWellFormed
    <3> QED
      BY <3>2, <3>3
  <2>2. CASE ring.count = 0
    BY <1>2, <2>2, ResultTyped DEF RingGet
  <2> QED
    BY <2>1, <2>2
<1>3. CASE Clear
  <2>1. (0 + 0) % RingSize = 0
    BY Wrap, SizeAssumption, RingAssumption
  <2>2. /\ RingClear(ring) \in Ring
        /\ RingClear(ring).head = 0
        /\ RingClear(ring).tail + RingClear(ring).count = 0 + 0
    BY SizeAssumption, RingAssumption DEF RingClear, Ring, Cell
  <2> QED
    BY <1>3, <2>1, <2>2, ResultTyped DEF Clear
<1>4. CASE UNCHANGED ringVars
  BY <1>4 DEF ringVars
<1> QED
  BY <1>1, <1>2, <1>3, <1>4 DEF RingNext

(* NM_UART16550.pas RingPut/RingGet/RingClear: whatever the calls, the     *)
(* count and the cursors of a ring of any size never disagree.             *)
THEOREM RingWellFormed == RingSpec => []WellFormed
  BY WellFormedInit, WellFormedStep, PTL DEF RingSpec

-----------------------------------------------------------------------------
(* Refinement: what each primitive does to the bytes the ring holds.       *)

LEMMA ContentsTyped ==
  ASSUME NEW r \in Ring
  PROVE  /\ Contents(r) \in Seq(Byte)
         /\ Len(Contents(r)) = r.count
         /\ DOMAIN Contents(r) = 1 .. r.count
<1>1. ASSUME NEW i \in 1 .. r.count
      PROVE  r.data[(r.tail + i - 1) % RingSize] \in Byte
  <2>1. r.tail + i - 1 \in Nat
    BY DEF Ring, Cell
  <2>2. (r.tail + i - 1) % RingSize \in Cell
    BY <2>1, CursorInRange
  <2> QED
    BY <2>2 DEF Ring
<1>2. r.count \in Nat
  BY DEF Ring
<1> QED
  BY <1>1, <1>2 DEF Contents

LEMMA StoreAppends ==
  ASSUME NEW r \in Ring, NEW b \in Byte,
         r.head = (r.tail + r.count) % RingSize,
         ~RingFull(r)
  PROVE  Contents(Store(r, b)) = Append(Contents(r), b)
<1> DEFINE new == Contents(Store(r, b))
           app == Append(Contents(r), b)
<1>1. r.count \in 0 .. RingSize - 1 /\ r.tail \in Cell
  BY SizeAssumption, RingAssumption DEF Ring, RingFull
<1>2. /\ Store(r, b) \in Ring
      /\ Store(r, b).count = r.count + 1
      /\ Store(r, b).tail = r.tail
      /\ Store(r, b).data = [r.data EXCEPT ![r.head] = b]
  BY StoreWellFormed DEF Store
<1>3. /\ new \in Seq(Byte) /\ Len(new) = r.count + 1
      /\ app \in Seq(Byte) /\ Len(app) = r.count + 1
  <2>1. Contents(r) \in Seq(Byte) /\ Len(Contents(r)) = r.count
    BY ContentsTyped
  <2> QED
    BY <1>1, <1>2, <2>1, ContentsTyped
<1>4. ASSUME NEW i \in 1 .. r.count
      PROVE  new[i] = app[i]
  <2>1. (r.tail + i - 1) % RingSize # r.head
    BY <1>1, FreshCell
  <2>2. new[i] = [r.data EXCEPT ![r.head] = b][(r.tail + i - 1) % RingSize]
    BY <1>1, <1>2 DEF Contents
  <2>3. (r.tail + i - 1) % RingSize \in Cell
    <3>1. r.tail + i - 1 \in Nat
      BY <1>1 DEF Cell
    <3> QED
      BY <3>1, CursorInRange
  <2>4. new[i] = r.data[(r.tail + i - 1) % RingSize]
    BY <2>1, <2>2, <2>3 DEF Ring
  <2>5. Contents(r)[i] = r.data[(r.tail + i - 1) % RingSize]
    BY DEF Contents
  <2>6. app[i] = Contents(r)[i]
    BY <1>1, ContentsTyped
  <2> QED
    BY <2>4, <2>5, <2>6
<1>5. new[r.count + 1] = app[r.count + 1]
  <2>1. r.tail + (r.count + 1) - 1 = r.tail + r.count
    BY <1>1 DEF Cell
  <2>2. new[r.count + 1] = [r.data EXCEPT ![r.head] = b][r.head]
    BY <1>1, <1>2, <2>1 DEF Contents
  <2>3. app[r.count + 1] = b
    BY <1>1, ContentsTyped
  <2> QED
    BY <2>2, <2>3 DEF Ring
<1>6. \A i \in 1 .. Len(new) : new[i] = app[i]
  BY <1>1, <1>3, <1>4, <1>5
<1> HIDE DEF new, app
<1>7. new = app
  BY <1>3, <1>6
<1> QED
  BY <1>7 DEF new, app

LEMMA DiscardDropsFirst ==
  ASSUME NEW r \in Ring, r.count # 0
  PROVE  /\ Contents(r) # <<>>
         /\ Front(r) = Head(Contents(r))
         /\ Discard(r) \in Ring => Contents(Discard(r)) = Tail(Contents(r))
<1>1. r.count \in 1 .. RingSize /\ r.tail \in Cell
  BY DEF Ring
<1>2. /\ Contents(r) \in Seq(Byte)
      /\ Len(Contents(r)) = r.count
      /\ Contents(r) # <<>>
  BY <1>1, ContentsTyped
<1>3. Front(r) = Head(Contents(r))
  <2>1. r.tail + 1 - 1 = r.tail /\ r.tail % RingSize = r.tail
    BY <1>1, Wrap, SizeAssumption, RingAssumption DEF Cell
  <2>2. Contents(r)[1] = r.data[r.tail]
    BY <1>1, <2>1 DEF Contents
  <2> QED
    BY <1>2, <2>2 DEF Front
<1>4. ASSUME Discard(r) \in Ring
      PROVE  Contents(Discard(r)) = Tail(Contents(r))
  <2> DEFINE new == Contents(Discard(r))
             rest == Tail(Contents(r))
  <2>1. /\ Discard(r).count = r.count - 1
        /\ Discard(r).tail = (r.tail + 1) % RingSize
        /\ Discard(r).data = r.data
    BY DEF Discard
  <2>2. /\ new \in Seq(Byte) /\ Len(new) = r.count - 1
        /\ rest \in Seq(Byte) /\ Len(rest) = r.count - 1
    BY <1>1, <1>2, <1>4, <2>1, ContentsTyped
  <2>3. ASSUME NEW i \in 1 .. r.count - 1
        PROVE  new[i] = rest[i]
    <3>1. i \in 1 .. RingSize
      BY <1>1, SizeAssumption, RingAssumption
    <3>2. (((r.tail + 1) % RingSize) + i - 1) % RingSize
            = (r.tail + (i + 1) - 1) % RingSize
      <4>1. (((r.tail + 1) % RingSize) + (i - 1)) % RingSize
              = (r.tail + i) % RingSize
        BY <1>1, <3>1, TailAdvances
      <4>2. (r.tail + 1) % RingSize \in Cell
        <5>1. r.tail + 1 \in Nat
          BY <1>1 DEF Cell
        <5> QED
          BY <5>1, CursorInRange
      <4> QED
        BY <1>1, <4>1, <4>2, SizeAssumption, RingAssumption DEF Cell
    <3>3. new[i] = r.data[(((r.tail + 1) % RingSize) + i - 1) % RingSize]
      BY <1>1, <2>1 DEF Contents
    <3>4. Contents(r)[i + 1] = r.data[(r.tail + (i + 1) - 1) % RingSize]
      BY <1>1 DEF Contents
    <3>5. rest[i] = Contents(r)[i + 1]
      BY <1>1, <1>2
    <3> QED
      BY <3>2, <3>3, <3>4, <3>5
  <2>4. \A i \in 1 .. Len(new) : new[i] = rest[i]
    BY <2>2, <2>3
  <2> HIDE DEF new, rest
  <2>5. new = rest
    BY <2>2, <2>4
  <2> QED
    BY <2>5 DEF new, rest
<1> QED
  BY <1>2, <1>3, <1>4

LEMMA ClearEmpties ==
  ASSUME NEW r \in Ring
  PROVE  Contents(RingClear(r)) = <<>>
  BY DEF Contents, RingClear

LEMMA RefinesInit == RingInit => Fifo!Init
  BY SizeAssumption, RingAssumption DEF RingInit, Fifo!Init, Contents, Returned

(* Each primitive is the queue operation of the same name on the contents. *)
LEMMA RefinesStep == WellFormed /\ [RingNext]_ringVars => [Fifo!Next]_(Fifo!vars)
<1> SUFFICES ASSUME WellFormed, [RingNext]_ringVars
             PROVE  [Fifo!Next]_(Fifo!vars)
  OBVIOUS
<1> USE DEF WellFormed, RingTypeOK, CursorsAgree
<1>0. Contents(ring) \in Seq(Byte) /\ Len(Contents(ring)) = ring.count
  BY ContentsTyped
<1>1. ASSUME NEW b \in Byte, RingPut(b)
      PROVE  Fifo!Put(b)
  <2>1. CASE ~RingFull(ring)
    <3>1. ring' = Store(ring, b) /\ result' = Returned(TRUE, <<>>)
      BY <1>1, <2>1 DEF RingPut
    <3>2. Contents(ring)' = Append(Contents(ring), b)
      BY <2>1, <3>1, StoreAppends
    <3>3. Len(Contents(ring)) < RingSize
      BY <1>0, <2>1, SizeAssumption, RingAssumption DEF RingFull, Ring
    <3> QED
      BY <3>1, <3>2, <3>3 DEF Fifo!Put, Returned
  <2>2. CASE RingFull(ring)
    <3>1. ring' = ring /\ result' = Returned(FALSE, <<>>)
      BY <1>1, <2>2 DEF RingPut
    <3>2. Len(Contents(ring)) = RingSize
      BY <1>0, <2>2, SizeAssumption, RingAssumption DEF RingFull, Ring
    <3> QED
      BY <3>1, <3>2 DEF Fifo!Put, Returned
  <2> QED
    BY <2>1, <2>2
<1>2. CASE RingGet
  <2>1. CASE ring.count # 0
    <3>1. ring' = Discard(ring) /\ result' = Returned(TRUE, <<Front(ring)>>)
      BY <1>2, <2>1 DEF RingGet
    <3>2. Contents(ring)' = Tail(Contents(ring))
      BY <2>1, <3>1, DiscardDropsFirst, DiscardWellFormed
    <3>3. Contents(ring) # <<>> /\ Front(ring) = Head(Contents(ring))
      BY <2>1, DiscardDropsFirst
    <3> QED
      BY <3>1, <3>2, <3>3 DEF Fifo!Get, Fifo!Next, Returned
  <2>2. CASE ring.count = 0
    <3>1. ring' = ring /\ result' = Returned(FALSE, <<>>)
      BY <1>2, <2>2 DEF RingGet
    <3>2. Contents(ring) = <<>>
      BY <1>0, <2>2
    <3> QED
      BY <3>1, <3>2 DEF Fifo!Get, Fifo!Next, Returned
  <2> QED
    BY <2>1, <2>2
<1>3. CASE Clear
  <2>1. Contents(ring)' = <<>>
    BY <1>3, ClearEmpties DEF Clear
  <2> QED
    BY <1>3, <2>1 DEF Clear, Fifo!Clear, Fifo!Next, Returned
<1>4. CASE UNCHANGED ringVars
  BY <1>4 DEF ringVars, Fifo!vars
<1> QED
  BY <1>1, <1>2, <1>3, <1>4 DEF RingNext, Fifo!Next

(* NM_UART16550.pas: the cursors implement a bounded queue at every size.  *)
THEOREM RingImplementsFifo == RingSpec => ImplementsFifo
<1>1. RingInit => Fifo!Init
  BY RefinesInit
<1>2. WellFormed /\ [RingNext]_ringVars => [Fifo!Next]_(Fifo!vars)
  BY RefinesStep
<1> QED
  BY <1>1, <1>2, RingWellFormed, PTL DEF RingSpec, ImplementsFifo, Fifo!Spec
=============================================================================
