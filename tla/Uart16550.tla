------------------------------ MODULE Uart16550 ------------------------------
(***************************************************************************)
(* The emulated 16550 of one port (src/engine/NM_UART16550.pas): its two   *)
(* byte rings, its line and modem status, and the three interfaces to it,  *)
(* the guest's registers, the network side and the status helpers.         *)
(*                                                                         *)
(* The rings are bounded queues here; Fossil_proofs shows that the         *)
(* cursors of the source implement such a queue at every size.  Registers  *)
(* that nothing but their own read-back depends on (IER, SCR, the divisor  *)
(* latches, the DTR, RTS and OUT bits of MCR, the word-format bits of LCR) *)
(* and the MSR bits that never change (CTS and DSR, always set) are left   *)
(* out.  A handler runs to completion on the engine's one thread: one step.*)
(***************************************************************************)
EXTENDS Bytes

VARIABLES
  rx,        \* ReceiveRing: from the network, for the guest
  tx,        \* TransmitRing: from the guest, for the network
  lsr,       \* line status as stored; it is only ever rebuilt from the rings
  msr,       \* modem status as stored: deltas and status bits
  online,    \* Online: carrier present
  ringing,   \* Ringing: incoming call
  fifoOn,    \* FifoOn: FCR bit 0, also "a FOSSIL was initialised"
  dlab,      \* LCR bit 7: offsets 0 and 1 address the divisor latch
  loop       \* MCR bit 4: local loopback

rings == <<rx, tx>>
line  == <<online, ringing, msr>>
mode  == <<fifoOn, dlab, loop>>
uart  == <<rx, tx, lsr, msr, online, ringing, fifoOn, dlab, loop>>

LsrBits == {"DR", "OE", "THRE", "TEMT"}
Deltas  == {"DDCD", "TERI"}
MsrBits == Deltas \cup {"DCD", "RI"}

UartTypeOK ==
  /\ rx \in Seq(Byte) /\ Len(rx) <= RingSize
  /\ tx \in Seq(Byte) /\ Len(tx) <= RingSize
  /\ lsr \in SUBSET LsrBits
  /\ msr \in SUBSET MsrBits
  /\ online \in BOOLEAN /\ ringing \in BOOLEAN
  /\ fifoOn \in BOOLEAN /\ dlab \in BOOLEAN /\ loop \in BOOLEAN

-----------------------------------------------------------------------------
(* Ring operations on the queues.  Callers that ignore the result of       *)
(* RingPut lose the byte: the queue is unchanged.                          *)

HasRoom(q) == Len(q) < RingSize

(* Fault: a full ring makes room by dropping its oldest byte. *)
PutOverwriting(q, b) == IF HasRoom(q) THEN Append(q, b) ELSE Append(Tail(q), b)

(* Fault: the full test of RingPut is one byte late. *)
PutLate(q, b) == IF Len(q) <= RingSize THEN Append(q, b) ELSE q

Put(q, b) == IF HasRoom(q) THEN Append(q, b) ELSE q

Drop(q) == IF q = <<>> THEN q ELSE Tail(q)

-----------------------------------------------------------------------------
(* Status. *)

Flag(bit, holds) == IF holds THEN {bit} ELSE {}

(* UartRecomputeLSR builds LSR from nothing but the rings, so a bit set    *)
(* beforehand (OE) does not survive it.                                    *)
LsrOf(r, t) ==
  Flag("DR", r # <<>>) \cup Flag("THRE", HasRoom(t)) \cup Flag("TEMT", t = <<>>)

RecomputeLSR == lsr' = LsrOf(rx', tx')

(* UartRecomputeMSR keeps the delta bits and rebuilds the status bits. *)
RecomputeMSR(deltas) ==
  msr' = deltas \cup Flag("DCD", online') \cup Flag("RI", ringing')

(* Fault: only the rise of carrier is signalled to the guest. *)
SetCarrierRiseOnly(on) ==
  /\ online' = on
  /\ UNCHANGED ringing
  /\ RecomputeMSR((msr \cap Deltas) \cup Flag("DDCD", on /\ ~online))

(* UartSetCarrier *)
SetCarrier(on) ==
  /\ online' = on
  /\ UNCHANGED ringing
  /\ RecomputeMSR((msr \cap Deltas) \cup Flag("DDCD", on # online))

(* UartSetRing *)
SetRing(on) ==
  /\ ringing' = on
  /\ UNCHANGED online
  /\ RecomputeMSR((msr \cap Deltas) \cup Flag("TERI", on # ringing))

(* Fault: UartReset drops the line but leaves the modem status as it was. *)
ResetStaleMSR ==
  /\ rx' = <<>> /\ tx' = <<>>
  /\ online' = FALSE /\ ringing' = FALSE
  /\ dlab' = FALSE /\ loop' = FALSE
  /\ RecomputeLSR
  /\ UNCHANGED msr

(* UartReset, all but FifoOn, which its callers go on to set. *)
Reset ==
  /\ rx' = <<>> /\ tx' = <<>>
  /\ online' = FALSE /\ ringing' = FALSE
  /\ dlab' = FALSE /\ loop' = FALSE
  /\ RecomputeLSR
  /\ RecomputeMSR(msr \cap Deltas)

UartInit ==
  /\ rx = <<>> /\ tx = <<>>
  /\ online = FALSE /\ ringing = FALSE /\ fifoOn = FALSE
  /\ dlab = FALSE /\ loop = FALSE
  /\ lsr = LsrOf(<<>>, <<>>)
  /\ msr = {}

-----------------------------------------------------------------------------
(* UartReadReg and UartWriteReg, by offset. *)

ReadRBR ==
  /\ rx' = IF dlab THEN rx ELSE Drop(rx)
  /\ lsr' = IF dlab THEN lsr ELSE LsrOf(rx', tx)
  /\ UNCHANGED <<tx, line, mode>>

ReadLSR ==
  /\ UNCHANGED <<rings, line, mode>>
  /\ RecomputeLSR

ReadMSR ==
  /\ msr' = msr \ Deltas
  /\ UNCHANGED <<rings, lsr, online, ringing, mode>>

WriteTHR(b) ==
  /\ rx' = IF ~dlab /\ loop THEN Put(rx, b) ELSE rx
  /\ tx' = IF ~dlab /\ ~loop THEN Put(tx, b) ELSE tx
  /\ lsr' = IF dlab THEN lsr ELSE LsrOf(rx', tx')
  /\ UNCHANGED <<line, mode>>

(* FCR: the FIFO clears do not recompute LSR. *)
WriteFCR(fifo, clearRx, clearTx) ==
  /\ fifoOn' = fifo
  /\ rx' = IF clearRx THEN <<>> ELSE rx
  /\ tx' = IF clearTx THEN <<>> ELSE tx
  /\ UNCHANGED <<lsr, line, dlab, loop>>

WriteLCR(latch) ==
  /\ dlab' = latch
  /\ UNCHANGED <<rings, lsr, line, fifoOn, loop>>

WriteMCR(loopback) ==
  /\ loop' = loopback
  /\ UNCHANGED <<rings, lsr, line, fifoOn, dlab>>

-----------------------------------------------------------------------------
(* The network side. *)

(* For a byte that does not fit the code sets OE first; the rebuild that  *)
(* follows clears it again.                                                *)
NetToGuest(b) ==
  /\ rx' = Put(rx, b)
  /\ UNCHANGED <<tx, line, mode>>
  /\ RecomputeLSR

GuestToNet ==
  /\ tx' = Drop(tx)
  /\ UNCHANGED <<rx, line, mode>>
  /\ RecomputeLSR
=============================================================================
