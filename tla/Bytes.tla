-------------------------------- MODULE Bytes --------------------------------
(* What the rings of a port and the port itself have in common.            *)
EXTENDS Integers, Sequences

CONSTANTS
  RingSize,  \* RING_SIZE, 4096 in the source
  Byte       \* the values a byte takes

ASSUME SizeAssumption == RingSize \in Nat \ {0}
=============================================================================
