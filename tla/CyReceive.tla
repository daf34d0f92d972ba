------------------------------ MODULE CyReceive ------------------------------
(***************************************************************************)
(* Reading from a Cyclades port: bytes arrive in the chip's FIFO, the      *)
(* interrupt routine moves them to the ring, and a read takes them from    *)
(* there, at once or when the read DPC finds it in the queue.  A byte is   *)
(* its number in the order of arrival; Bad are those the chip reports with *)
(* an error.  The ring is the sequence of what it holds: its cursors are   *)
(* those of ByteRing.                                                      *)
(***************************************************************************)
EXTENDS CyPort

CONSTANTS MaxBytes, FifoSize, RingSize,
          Asked      \* the length each read asks for

ASSUME ReceiveAssumption ==
  /\ MaxBytes \in Nat /\ FifoSize \in Nat \ {0} /\ RingSize \in Nat \ {0}
  /\ Asked \in [Irps -> Nat]

VARIABLES fifo, rx,         \* the chip's FIFO and RxBuf, oldest byte first
          arrived,          \* bytes that came over the line
          taken, gone       \* history: bytes copied, each with its read; bytes lost or discarded

chip  == <<fifo, arrived>>
hist  == <<taken, gone>>
vars  == <<portVars, chip, rx, hist>>

Init ==
  /\ PortInit
  /\ fifo = <<>> /\ rx = <<>> /\ arrived = 0
  /\ taken = <<>> /\ gone = {}

Bytes(s) == {s[n] : n \in DOMAIN s}
MinOf(a, b) == IF a <= b THEN a ELSE b

-----------------------------------------------------------------------------
\* The line.  The receiver is on while the port is open.
ByteArrives ==
  /\ isOpen /\ arrived < MaxBytes
  /\ arrived' = arrived + 1
  /\ IF Len(fifo) < FifoSize
       THEN fifo' = Append(fifo, arrived + 1) /\ UNCHANGED gone
       ELSE gone' = gone \cup {arrived + 1} /\ UNCHANGED fifo
  /\ UNCHANGED <<portVars, rx, taken>>

\* CyRxBufPut for each byte in turn: what does not fit is lost.
RxBufPut(bytes) ==
  LET n == MinOf(Len(bytes), RingSize - Len(rx)) IN
    /\ rx' = rx \o SubSeq(bytes, 1, n)
    /\ gone' = gone \cup Bytes(SubSeq(bytes, n + 1, Len(bytes)))

\* A normal service reads the bytes the chip announces, an exception service
\* one byte after its status; both store what they read.
RxServed == fifo

\* The interrupt routine serves the port until the chip asks for nothing, and
\* then queues the DPC on its processor.
Interrupt(c) ==
  /\ isOpen /\ fifo # <<>>
  /\ RxBufPut(RxServed) /\ fifo' = <<>>
  /\ QueueDpc(c)
  /\ UNCHANGED <<port, requests, dpcPc, dpcIrp, arrived, taken>>

-----------------------------------------------------------------------------
\* CySyncReadFromRxBuf, at interrupt level: n bytes for read i.
SyncRead(i, n) ==
  /\ rx' = SubSeq(rx, n + 1, Len(rx))
  /\ taken' = taken \o [k \in 1..n |-> [read |-> i, byte |-> rx[k]]]

Avail(len) == MinOf(len, Len(rx))

\* CyDispatchRead.  The fast path looks at RxCount without a lock; a number that
\* is stale by the time of the copy only turns a fast read into a slow one.
ReadEnter(i) ==
  /\ pos[i] = "new" /\ handle = "open" /\ isOpen
  /\ Becomes(i, "entered")
  /\ UNCHANGED <<port, dpc, queue, cancel, chip, rx, hist>>

\* With nothing there a read whose time-outs say so returns at once.
ReadFast(i) ==
  /\ pos[i] = "entered"
  /\ LET n == Avail(Asked[i]) IN
       /\ SyncRead(i, n)
       /\ \/ Done(i, "ok")
          \/ n = 0 /\ Becomes(i, "slow") /\ UNCHANGED cancel
  /\ UNCHANGED <<port, dpc, queue, chip, gone>>

ReadQueue(i) ==
  /\ pos[i] = "slow" /\ CsqInsert(i)
  /\ UNCHANGED <<port, dpc, chip, rx, hist>>

-----------------------------------------------------------------------------
\* CyReadDpcComplete.  The clock is read before the loop; a read whose
\* deadline it shows passed is completed with what there is.
ReadDpcStart(c) == DpcStart(c) /\ UNCHANGED <<chip, rx, hist>>
ReadDpcTake(c) == DpcTake(c) /\ UNCHANGED <<chip, rx, hist>>
ReadDpcLeave(c) == queue = <<>> /\ DpcLeave(c) /\ UNCHANGED <<chip, rx, hist>>

\* Fault: the DPC serves one read and leaves.
AfterReadOne == "idle"
AfterRead == "next"

\* Fault: a read cancelled while the DPC holds it is completed as cancelled.
ReadStatusCancelled(i) == IF i \in cancel THEN "cancelled" ELSE "ok"
ReadStatus(i) == "ok"

ReadDpcFill(c) ==
  /\ dpcPc[c] = "have"
  /\ LET i == dpcIrp[c]
         n == Avail(Asked[i]) IN
       /\ SyncRead(i, n)
       /\ \/ Done(i, ReadStatus(i)) /\ DpcRelease(c, AfterRead)
          \/ /\ n = 0 /\ dpcPc' = [dpcPc EXCEPT ![c] = "requeue"]
             /\ UNCHANGED <<pos, cancel, dpcIrp>>
  /\ UNCHANGED <<port, queue, dpcQueued, chip, gone>>

ReadDpcRequeue(c) == DpcRequeue(c) /\ UNCHANGED <<chip, rx, hist>>

-----------------------------------------------------------------------------
\* Fault: the port is opened with what the last session left in the ring.
FreshRingStale == UNCHANGED rx
FreshRing == rx' = <<>>

\* The rings start empty and the channel reset empties the FIFO.
Create ==
  /\ OpenPort /\ FreshRing /\ fifo' = <<>>
  /\ gone' = gone \cup Bytes(rx) \cup Bytes(fifo)
  /\ UNCHANGED <<arrived, taken>>

\* The CLEAR part of a purge: the ring and up to a FIFO of bytes in the chip.
Purge ==
  /\ handle = "open" /\ ~purging
  /\ rx' = <<>> /\ fifo' = <<>>
  /\ gone' = gone \cup Bytes(rx) \cup Bytes(fifo)
  /\ UNCHANGED <<portVars, arrived, taken>>

Handle ==
  \/ CleanupEnter \/ CleanupReturn \/ PurgeEnter \/ PurgeReturn
  \/ DrainNext \/ ClosePort \/ \E i \in Irps : CancelIrp(i)

HandleStep == Handle /\ UNCHANGED <<chip, rx, hist>>

Dpc(c) == ReadDpcStart(c) \/ ReadDpcTake(c) \/ ReadDpcLeave(c)
          \/ ReadDpcFill(c) \/ ReadDpcRequeue(c)

Next ==
  \/ ByteArrives \/ Create \/ Purge \/ HandleStep
  \/ \E c \in Cpus : Interrupt(c) \/ Dpc(c)
  \/ \E i \in Irps : ReadEnter(i) \/ ReadFast(i) \/ ReadQueue(i)

\* Deferred calls run as soon as a processor may run them.
Spec == Init /\ [][Next]_vars /\ \A c \in Cpus : WF_vars(Dpc(c))

-----------------------------------------------------------------------------
\* Shapes and bounds, and each read in exactly one place.
TypeOK ==
  /\ PortTypeOK /\ OneOwner
  /\ Len(fifo) <= FifoSize /\ Len(rx) <= RingSize
  /\ arrived \in 0..MaxBytes
  /\ \A i \in Irps :
       Cardinality({n \in DOMAIN taken : taken[n].read = i}) <= Asked[i]

\* Bytes reach the reads in the order of arrival, each at most once, whichever
\* read, processor or path took them; the ring and the FIFO hold later ones;
\* and a byte that is in none of them was lost to a full buffer or discarded.
ReadInOrder ==
  LET inside == [n \in DOMAIN taken |-> taken[n].byte] \o rx \o fifo IN
    /\ \A m, n \in DOMAIN inside : m < n => inside[m] < inside[n]
    /\ Bytes(inside) \cup gone = 1..arrived
    /\ Bytes(inside) \cap gone = {}

\* A byte that left the ring is in the buffer of a read that ends with success:
\* no cancellation, purge or close can take it along.
NothingTakenIsLost ==
  \A n \in DOMAIN taken : pos[taken[n].read] = "ok"

\* The reads that ask for something.
Asking == {i \in Irps : Asked[i] > 0}

\* A read that asks for nothing is in the queue before read i.  The DPC puts
\* it back with nothing copied and leaves.
BehindEmpty(i) ==
  \E m, n \in DOMAIN queue : m < n /\ queue[n] = i /\ Asked[queue[m]] = 0

\* The DPC that a byte asks for completes each read that asks for something and
\* is in the queue by then, unless others empty the ring before it or the read
\* is behind one that asks for nothing (cyread.c 306-352).  It says nothing of
\* a read that comes to the queue later: NoReadStarves.
WakesReaders ==
  \A i \in Asking : (dpcQueued # {} /\ rx # <<>> /\ pos[i] = "queued" /\ ~BehindEmpty(i))
                     ~> (pos[i] \in Finished \/ rx = <<>>)

\* A read in the queue does not wait for ever while bytes wait in the ring:
\* "we take the slow path, queue the IRP, DPC completes it when data arrives.
\* Correct." (cyread.c 158-160).  It can, until the next byte comes: the DPC of
\* the byte may have run before the read is in the queue, or while another
\* DPC, which looked before the byte came, still holds the read.
NoReadStarves ==
  \A i \in Asking : (pos[i] = "queued" /\ rx # <<>>)
                     ~> (pos[i] # "queued" \/ rx = <<>>)
=============================================================================
