----------------------------- MODULE BoundedFifo -----------------------------
(***************************************************************************)
(* What a byte ring promises its two users: a first-in first-out queue of  *)
(* at most Capacity bytes.  A put into a full queue is refused and changes *)
(* nothing, a get from an empty queue is refused, and every call says      *)
(* whether it was carried out.  The queue knows nothing of cells, cursors  *)
(* or wrap-around: those are ByteRing's business.                          *)
(***************************************************************************)
EXTENDS Integers, Sequences

CONSTANTS
  Capacity,  \* the number of bytes the queue holds when full
  Byte       \* the values a byte takes

VARIABLES
  queue,     \* the bytes stored, oldest first
  result     \* what the last call returned: the flag, and the byte of a get

vars == <<queue, result>>

Result == [ok : BOOLEAN, bytes : Seq(Byte)]

Init ==
  /\ queue = <<>>
  /\ result = [ok |-> TRUE, bytes |-> <<>>]

Put(b) ==
  \/ /\ Len(queue) < Capacity
     /\ queue' = Append(queue, b)
     /\ result' = [ok |-> TRUE, bytes |-> <<>>]
  \/ /\ Len(queue) = Capacity
     /\ queue' = queue
     /\ result' = [ok |-> FALSE, bytes |-> <<>>]

Get ==
  \/ /\ queue # <<>>
     /\ queue' = Tail(queue)
     /\ result' = [ok |-> TRUE, bytes |-> <<Head(queue)>>]
  \/ /\ queue = <<>>
     /\ queue' = queue
     /\ result' = [ok |-> FALSE, bytes |-> <<>>]

Clear ==
  /\ queue' = <<>>
  /\ result' = [ok |-> TRUE, bytes |-> <<>>]

Next == (\E b \in Byte : Put(b)) \/ Get \/ Clear

Spec == Init /\ [][Next]_vars
=============================================================================
