------------------------------ MODULE ByteRing ------------------------------
(***************************************************************************)
(* TByteRing, the ring buffer under both directions of every emulated      *)
(* port (src/engine/NM_UART16550.pas).  The ring is a cell array, a write  *)
(* cursor, a read cursor and a count that is kept beside the cursors, not  *)
(* derived from them, so a full ring and an empty ring have equal cursors  *)
(* and only the count tells them apart.                                    *)
(*                                                                         *)
(* Every operation of the engine is one call on one thread, so each ring   *)
(* primitive is one step here.  The ring the DOS driver shares with an     *)
(* interrupt handler is a different one (SerialIrq).                       *)
(***************************************************************************)
EXTENDS Bytes

ASSUME RingAssumption == Byte \subseteq Nat /\ 0 \in Byte

VARIABLES
  ring,      \* the TByteRing record
  result     \* what the last primitive returned

ringVars == <<ring, result>>

Cell == 0 .. RingSize - 1

Ring == [data : [Cell -> Byte], head : Cell, tail : Cell, count : 0 .. RingSize]

Result == [ok : BOOLEAN, bytes : Seq(Byte)]

Returned(ok, bytes) == [ok |-> ok, bytes |-> bytes]

-----------------------------------------------------------------------------
(* The primitives as functions of the ring record.                         *)

RingClear(r) == [data |-> r.data, head |-> 0, tail |-> 0, count |-> 0]

(* Fault: the test is one byte late, so a full ring overwrites a byte. *)
RingFullLate(r) == r.count > RingSize

RingFull(r) == r.count >= RingSize

(* Fault: the write cursor is reset past the last cell instead of at it. *)
StoreNoWrap(r, b) ==
  [data  |-> [r.data EXCEPT ![r.head] = b],
   head  |-> (r.head + 1) % (RingSize + 1),
   tail  |-> r.tail,
   count |-> r.count + 1]

(* The body of RingPut once there is room. *)
Store(r, b) ==
  [data  |-> [r.data EXCEPT ![r.head] = b],
   head  |-> (r.head + 1) % RingSize,
   tail  |-> r.tail,
   count |-> r.count + 1]

(* The body of RingGet once there is a byte. *)
Discard(r) ==
  [data  |-> r.data,
   head  |-> r.head,
   tail  |-> (r.tail + 1) % RingSize,
   count |-> r.count - 1]

Front(r) == r.data[r.tail]

-----------------------------------------------------------------------------
(* A node object is allocated zero-filled and its UART is reset.           *)
RingInit ==
  /\ ring = [data |-> [c \in Cell |-> 0], head |-> 0, tail |-> 0, count |-> 0]
  /\ result = Returned(TRUE, <<>>)

RingPut(b) ==
  \/ /\ RingFull(ring)
     /\ ring' = ring
     /\ result' = Returned(FALSE, <<>>)
  \/ /\ ~RingFull(ring)
     /\ ring' = Store(ring, b)
     /\ result' = Returned(TRUE, <<>>)

RingGet ==
  \/ /\ ring.count = 0
     /\ ring' = ring
     /\ result' = Returned(FALSE, <<>>)
  \/ /\ ring.count # 0
     /\ ring' = Discard(ring)
     /\ result' = Returned(TRUE, <<Front(ring)>>)

Clear ==
  /\ ring' = RingClear(ring)
  /\ result' = Returned(TRUE, <<>>)

RingNext == (\E b \in Byte : RingPut(b)) \/ RingGet \/ Clear

RingSpec == RingInit /\ [][RingNext]_ringVars

-----------------------------------------------------------------------------
(* The bytes a ring holds, oldest first, read off its cells.               *)
Contents(r) == [i \in 1 .. r.count |-> r.data[(r.tail + i - 1) % RingSize]]

RingTypeOK ==
  /\ ring \in Ring
  /\ result \in Result

(* The count and the two cursors, three fields updated separately, agree:  *)
(* the write cursor is exactly count cells ahead of the read cursor.  It   *)
(* is what makes RingFull and RingGet's emptiness test, which look only at *)
(* the count, safe for the cells.                                          *)
CursorsAgree == ring.head = (ring.tail + ring.count) % RingSize

(* NM_UART16550.pas: the ring in every state is well formed. *)
WellFormed == RingTypeOK /\ CursorsAgree

(* Every behaviour of the cursors is a behaviour of a bounded queue: no    *)
(* byte is overwritten before it is read, read twice, or read out of       *)
(* order, also when the cursors wrap.                                      *)
Fifo == INSTANCE BoundedFifo
          WITH Capacity <- RingSize, queue <- Contents(ring)

ImplementsFifo == Fifo!Spec
=============================================================================
