----------------------------- MODULE CyTransmit -----------------------------
(***************************************************************************)
(* Writing to a Cyclades port: a write puts what fits into the ring and    *)
(* waits in the queue with the rest; the interrupt routine feeds the chip  *)
(* from the ring and switches the transmit interrupt off when the ring is  *)
(* empty, and the write DPC refills the ring from the queue.  A byte is    *)
(* its write and its place in it.                                          *)
(***************************************************************************)
EXTENDS CyPort

CONSTANTS RingSize, FifoSize,
          Length     \* of each write

ASSUME TransmitAssumption ==
  RingSize \in Nat \ {0} /\ FifoSize \in Nat \ {0} /\ Length \in [Irps -> Nat]

VARIABLES tx,        \* TxBuf, oldest byte first
          txRdy,     \* the TxRdy bit of SRER
          offset,    \* per write: bytes put into the ring (DriverContext[0])
          wire,      \* history: bytes given to the chip
          gone       \* history: bytes discarded by a purge or a reopening

ring == <<tx, txRdy>>
hist == <<wire, gone>>
vars == <<portVars, ring, offset, hist>>

Init ==
  /\ PortInit
  /\ tx = <<>> /\ txRdy = FALSE
  /\ offset = [i \in Irps |-> 0]
  /\ wire = <<>> /\ gone = {}

Bytes(s) == {s[n] : n \in DOMAIN s}
MinOf(a, b) == IF a <= b THEN a ELSE b

-----------------------------------------------------------------------------
\* Fault: looked at after the bytes are in, the ring is never empty.
WasEmptyAfter == tx' = <<>>
WasEmpty == tx = <<>>

\* Fault: what an earlier attempt has put in is forgotten.
NextByteFirst(i) == 1
NextByte(i) == offset[i] + 1

\* CySyncWriteToTxBuf, at interrupt level: as many bytes of write i as fit.
\* Bytes put into an empty ring switch the transmit interrupt on.
Fits(i) == MinOf(Length[i] - offset[i], RingSize - Len(tx))
SyncWrite(i) ==
  LET n == Fits(i) IN
    /\ tx' = tx \o [k \in 1..n |-> <<i, NextByte(i) + k - 1>>]
    /\ offset' = [offset EXCEPT ![i] = @ + n]
    /\ txRdy' = (txRdy \/ (WasEmpty /\ n > 0))

Complete(i) == offset[i] + Fits(i) = Length[i]

\* CyDispatchWrite.
WriteEnter(i) ==
  /\ pos[i] = "new" /\ handle = "open" /\ isOpen
  /\ Becomes(i, "entered")
  /\ UNCHANGED <<port, dpc, queue, cancel, ring, offset, hist>>

WriteFast(i) ==
  /\ pos[i] = "entered"
  /\ SyncWrite(i)
  /\ IF Complete(i) THEN Done(i, "ok") ELSE Becomes(i, "slow") /\ UNCHANGED cancel
  /\ UNCHANGED <<port, dpc, queue, hist>>

WriteQueue(i) ==
  /\ pos[i] = "slow" /\ CsqInsert(i)
  /\ UNCHANGED <<port, dpc, ring, offset, hist>>

-----------------------------------------------------------------------------
\* The transmit part of the interrupt routine: up to a FIFO of bytes, the
\* interrupt off if that empties the ring, and the DPC queued in any case.
Interrupt(c) ==
  /\ isOpen /\ txRdy
  /\ LET n == MinOf(FifoSize, Len(tx)) IN
       /\ wire' = wire \o SubSeq(tx, 1, n)
       /\ tx' = SubSeq(tx, n + 1, Len(tx))
       /\ txRdy' = (n < Len(tx))
  /\ QueueDpc(c)
  /\ UNCHANGED <<port, requests, dpcPc, dpcIrp, offset, gone>>

\* CyWriteDpcComplete.  The loop goes on while the ring has room.
Room == Len(tx) < RingSize

WriteDpcStart(c) == DpcStart(c) /\ UNCHANGED <<ring, offset, hist>>
WriteDpcTake(c) == Room /\ DpcTake(c) /\ UNCHANGED <<ring, offset, hist>>
WriteDpcLeave(c) ==
  /\ queue = <<>> \/ ~Room
  /\ DpcLeave(c) /\ UNCHANGED <<ring, offset, hist>>

WriteDpcFill(c) ==
  /\ dpcPc[c] = "have"
  /\ LET i == dpcIrp[c] IN
       /\ SyncWrite(i)
       /\ IF Complete(i)
            THEN Done(i, "ok") /\ DpcRelease(c, "next")
            ELSE /\ dpcPc' = [dpcPc EXCEPT ![c] = "requeue"]
                 /\ UNCHANGED <<pos, cancel, dpcIrp>>
  /\ UNCHANGED <<port, queue, dpcQueued, hist>>

WriteDpcRequeue(c) == DpcRequeue(c) /\ UNCHANGED <<ring, offset, hist>>

-----------------------------------------------------------------------------
\* Opening empties the ring and leaves the transmit interrupt off, closing
\* switches it off and leaves the ring; a CLEAR purge leaves it as it is.
Create ==
  /\ OpenPort
  /\ tx' = <<>> /\ txRdy' = FALSE /\ gone' = gone \cup Bytes(tx)
  /\ UNCHANGED <<offset, wire>>

Close == ClosePort /\ txRdy' = FALSE /\ UNCHANGED <<tx, offset, hist>>

Purge ==
  /\ handle = "open" /\ ~purging
  /\ tx' = <<>> /\ gone' = gone \cup Bytes(tx)
  /\ UNCHANGED <<portVars, txRdy, offset, wire>>

Handle ==
  \/ CleanupEnter \/ CleanupReturn \/ PurgeEnter \/ PurgeReturn
  \/ DrainNext \/ \E i \in Irps : CancelIrp(i)

HandleStep == Handle /\ UNCHANGED <<ring, offset, hist>>

Dpc(c) == WriteDpcStart(c) \/ WriteDpcTake(c) \/ WriteDpcLeave(c)
          \/ WriteDpcFill(c) \/ WriteDpcRequeue(c)

Next ==
  \/ Create \/ Close \/ Purge \/ HandleStep
  \/ \E c \in Cpus : Interrupt(c) \/ Dpc(c)
  \/ \E i \in Irps : WriteEnter(i) \/ WriteFast(i) \/ WriteQueue(i)

\* The chip asks for bytes while the line takes them, and some processor
\* answers; deferred calls run as soon as their processor may run them.
Spec == /\ Init /\ [][Next]_vars
        /\ WF_vars(\E c \in Cpus : Interrupt(c))
        /\ \A c \in Cpus : WF_vars(Dpc(c))

-----------------------------------------------------------------------------
\* Shapes and bounds, and each write in exactly one place.
TypeOK ==
  /\ PortTypeOK /\ OneOwner
  /\ Len(tx) <= RingSize /\ txRdy \in BOOLEAN
  /\ \A i \in Irps : offset[i] \in 0..Length[i]

Copied == UNION {{i} \X (1..offset[i]) : i \in Irps}

\* The bytes of a write reach the wire in order, none twice and none left out,
\* however often it was put back into the queue and whatever other writes came
\* between them; and a write that succeeds has put in all of its bytes.
WriteInOrder ==
  LET sent == wire \o tx IN
    /\ \A m, n \in DOMAIN sent : m < n /\ sent[m][1] = sent[n][1] => sent[m][2] < sent[n][2]
    /\ Bytes(sent) \cup gone = Copied
    /\ Bytes(sent) \cap gone = {}
    /\ \A i \in Irps : pos[i] = "ok" => offset[i] = Length[i]

\* What is in the ring of an open port goes out: the transmit interrupt cannot
\* be left off while there is something to send.
RingDrains == (isOpen /\ tx # <<>>) ~> (tx = <<>> \/ ~isOpen)
=============================================================================
