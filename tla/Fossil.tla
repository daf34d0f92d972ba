------------------------------- MODULE Fossil -------------------------------
(***************************************************************************)
(* One port as a door game sees it: the FOSSIL calls of INT 14h            *)
(* (src/engine/NM_Fossil.pas) and the registers of the UART under them on  *)
(* one side, the server's pump on the other.                               *)
(*                                                                         *)
(* A FOSSIL call is one step, except Fn 02h, the only one that waits.      *)
(* What a call returns is modelled where it is a promise about a later     *)
(* call; the variables that remember it have no counterpart in the code.   *)
(***************************************************************************)
EXTENDS Uart16550

CONSTANTS
  Blocks,    \* the buffers a guest writes with one block call
  NoByte     \* no byte was peeked

ASSUME FossilAssumption == Blocks \subseteq Seq(Byte) /\ NoByte \notin Byte

VARIABLES
  waiting,   \* the guest is inside the wait loop of Fn 02h
  peeked,    \* what Fn 0Ch showed the guest, until it takes or purges input
  told,      \* what a status call told the guest and it has not used yet
  seen       \* DCD at the guest's last MSR read, "unknown" after an Fn 04h

promises == <<peeked, told, seen>>
vars == <<uart, waiting, promises>>

FossilTypeOK ==
  /\ waiting \in BOOLEAN
  /\ peeked \in Byte \cup {NoByte}
  /\ told \in SUBSET {"ready", "room"}
  /\ seen \in {"up", "down", "unknown"}

TypeOK == UartTypeOK /\ FossilTypeOK

Init ==
  /\ UartInit
  /\ waiting = FALSE
  /\ peeked = NoByte
  /\ told = {}
  /\ seen = "down"

(* The guest takes or discards input, or sends: promises are used up. *)
InputUsed == peeked' = NoByte /\ told' = told \ {"ready"} /\ UNCHANGED seen
RoomUsed  == told' = told \ {"room"} /\ UNCHANGED <<peeked, seen>>

-----------------------------------------------------------------------------
(* FossilDispatch, one action per function. *)

(* Fn 04h.  "First init" is told by FifoOn, which the guest can also set   *)
(* and clear through FCR.                                                  *)
InitPort ==
  /\ fifoOn' = TRUE
  /\ \/ /\ ~fifoOn /\ Reset
        /\ peeked' = NoByte /\ told' = {} /\ seen' = "unknown"
     \/ fifoOn /\ UNCHANGED <<rings, lsr, line, dlab, loop, promises>>

(* Fn 05h, and Fn 06h with AL = 0. *)
Hangup ==
  /\ SetCarrier(FALSE)
  /\ UNCHANGED <<rings, lsr, mode, promises>>

(* Fn 01h and 0Bh: both return at once when there is no room. *)
TxChar(b) ==
  /\ HasRoom(tx)
  /\ WriteTHR(b)
  /\ RoomUsed

TakeChar ==
  /\ rx' = Drop(rx)
  /\ UNCHANGED <<tx, line, mode>>
  /\ RecomputeLSR
  /\ InputUsed

(* Fn 02h loops while this holds. *)
MustWait == rx = <<>> /\ "DCD" \in msr

RxWaitEnter ==
  /\ MustWait
  /\ waiting' = TRUE
  /\ UNCHANGED <<uart, promises>>

(* Fault: the wait loop tests the carrier alone. *)
RxWaitReturnOnHangup ==
  /\ waiting
  /\ "DCD" \notin msr
  /\ waiting' = FALSE
  /\ TakeChar

RxWaitReturn ==
  /\ waiting
  /\ ~MustWait
  /\ waiting' = FALSE
  /\ TakeChar

(* Fn 02h when it need not wait. *)
RxChar == ~MustWait /\ TakeChar

(* Fn 0Ch *)
Peek ==
  /\ peeked' = IF rx = <<>> THEN NoByte ELSE Head(rx)
  /\ UNCHANGED <<uart, told, seen>>

(* Fault: room is reported although the last cell is taken. *)
StatusOfOffByOne(r, t) == Flag("ready", r # <<>>) \cup Flag("room", Len(t) <= RingSize)

StatusOf(r, t) == Flag("ready", r # <<>>) \cup Flag("room", HasRoom(t))

(* Fn 03h *)
GetStatus ==
  /\ ReadLSR
  /\ told' = StatusOf(rx, tx)
  /\ UNCHANGED <<peeked, seen>>

(* Fn 08h does not wait for the output to leave. *)
FlushOutput == ReadLSR /\ UNCHANGED promises

(* Fn 09h *)
PurgeOutput ==
  /\ tx' = <<>>
  /\ UNCHANGED <<rx, lsr, line, mode, promises>>

(* Fn 0Ah *)
PurgeInput ==
  /\ rx' = <<>>
  /\ UNCHANGED <<tx, line, mode>>
  /\ RecomputeLSR
  /\ InputUsed

(* Fn 18h with CX = k. *)
ReadBlock(k) ==
  /\ rx' = IF k < Len(rx) THEN SubSeq(rx, k + 1, Len(rx)) ELSE <<>>
  /\ UNCHANGED <<tx, line, mode>>
  /\ RecomputeLSR
  /\ InputUsed

(* What of a block fits the output ring. *)
Fitting(s) ==
  IF Len(s) <= RingSize - Len(tx) THEN s ELSE SubSeq(s, 1, RingSize - Len(tx))

(* Fn 19h *)
WriteBlock(s) ==
  /\ tx' = tx \o Fitting(s)
  /\ UNCHANGED <<rx, line, mode>>
  /\ RecomputeLSR
  /\ RoomUsed

(* Fn 13h puts every byte and does not look whether it fitted. *)
AnsiWrite(s) ==
  /\ tx' = tx \o Fitting(s)
  /\ UNCHANGED <<rx, lsr, line, mode>>
  /\ RoomUsed

(* Fn 20h *)
X00Read ==
  /\ rx' = Drop(rx)
  /\ UNCHANGED <<tx, lsr, line, mode>>
  /\ InputUsed

(* A byte reaches the input ring or is dropped there. *)
Arrive(b) ==
  /\ NetToGuest(b)
  /\ UNCHANGED <<peeked, told, seen>>

(* Fn 21h *)
X00Inject(b) == Arrive(b)

FossilCall ==
  \/ InitPort
  \/ Hangup
  \/ RxChar
  \/ Peek
  \/ GetStatus
  \/ FlushOutput
  \/ PurgeOutput
  \/ PurgeInput
  \/ X00Read
  \/ \E b \in Byte : TxChar(b) \/ X00Inject(b)
  \/ \E k \in 1 .. RingSize : ReadBlock(k)
  \/ \E s \in Blocks : WriteBlock(s) \/ AnsiWrite(s)

-----------------------------------------------------------------------------
(* The guest's register accesses that change state. *)

GuestReadRBR ==
  /\ ReadRBR
  /\ \/ ~dlab /\ InputUsed
     \/ dlab /\ UNCHANGED promises

GuestReadLSR ==
  /\ ReadLSR
  /\ told' = StatusOf(rx, tx)
  /\ UNCHANGED <<peeked, seen>>

GuestReadMSR ==
  /\ ReadMSR
  /\ seen' = IF "DCD" \in msr THEN "up" ELSE "down"
  /\ UNCHANGED <<peeked, told>>

GuestWriteTHR(b) == WriteTHR(b) /\ RoomUsed

GuestWriteFCR(fifo, clearRx, clearTx) ==
  /\ WriteFCR(fifo, clearRx, clearTx)
  /\ \/ clearRx /\ InputUsed
     \/ ~clearRx /\ UNCHANGED promises

GuestWriteMode(latch, loopback) ==
  /\ WriteLCR(latch) \/ WriteMCR(loopback)
  /\ UNCHANGED promises

RegisterAccess ==
  \/ GuestReadRBR
  \/ GuestReadLSR
  \/ GuestReadMSR
  \/ \E b \in Byte : GuestWriteTHR(b)
  \/ \E f, r, t \in BOOLEAN : GuestWriteFCR(f, r, t)
  \/ \E a, l \in BOOLEAN : GuestWriteMode(a, l)

-----------------------------------------------------------------------------
(* The server: bytes to and from the socket, carrier and ring. *)

ServerCarrier(on) == SetCarrier(on) /\ UNCHANGED <<rings, lsr, mode, promises>>

ServerRing(on) == SetRing(on) /\ UNCHANGED <<rings, lsr, mode, promises>>

ServerTake == GuestToNet /\ UNCHANGED promises

ServerStep ==
  /\ \/ \E b \in Byte : Arrive(b)
     \/ ServerTake
     \/ \E on \in BOOLEAN : ServerCarrier(on) \/ ServerRing(on)
  /\ UNCHANGED waiting

GuestStep ==
  /\ ~waiting
  /\ \/ RxWaitEnter
     \/ (FossilCall \/ RegisterAccess) /\ UNCHANGED waiting

Next == GuestStep \/ RxWaitReturn \/ ServerStep

(* The wait loop polls about once a millisecond for as long as it runs. *)
Spec == Init /\ [][Next]_vars /\ WF_vars(RxWaitReturn)

-----------------------------------------------------------------------------
(* The modem status the guest and Fn 02h read is the line the transport    *)
(* drives: UartSetCarrier, UartSetRing and UartReset keep the two apart    *)
(* fields Online/Ringing and MSR equal (NM_UART16550.pas 199-262).         *)
MsrMatchesLine ==
  /\ online <=> "DCD" \in msr
  /\ ringing <=> "RI" \in msr

(* A guest that polls MSR cannot miss a change of carrier: if DCD is not   *)
(* what it last read there, the delta bit is still set, whatever FOSSIL    *)
(* calls, rings and toggles came between.  Fn 04h is excepted: on a port   *)
(* whose FIFO the guest never enabled it drops the line without a delta    *)
(* (NM_Fossil.pas 167).                                                    *)
CarrierChangeLatched ==
  /\ seen = "up" /\ "DCD" \notin msr => "DDCD" \in msr
  /\ seen = "down" /\ "DCD" \in msr => "DDCD" \in msr

(* A status report stays good until the guest uses it: the server may      *)
(* drain the output and fill the input, but it never takes back the room   *)
(* or the byte that Fn 03h or LSR reported (NM_Fossil.pas 219-228).        *)
StatusKept ==
  /\ "ready" \in told => rx # <<>>
  /\ "room" \in told => HasRoom(tx)

(* The byte Fn 0Ch showed is the byte the next read returns, whatever the  *)
(* server delivers in between (NM_Fossil.pas 210-217).                     *)
PeekKept == peeked # NoByte => rx # <<>> /\ Head(rx) = peeked

(* A guest blocked in Fn 02h wakes: once a byte is there the call returns, *)
(* and if the carrier stays away it does not block for ever                *)
(* (NM_Fossil.pas 194-208).                                                *)
RxWaitWakes ==
  /\ (waiting /\ rx # <<>>) ~> ~waiting
  /\ <>[]("DCD" \notin msr) => []<>(~waiting)
=============================================================================
