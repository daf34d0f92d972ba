---------------------------- MODULE MCCyReceive ----------------------------
\* A read of no byte, one of one byte and one of two.
EXTENDS CyReceive, TLC

CONSTANTS i0, i1, i2

ZeroToTwo == i0 :> 0 @@ i1 :> 1 @@ i2 :> 2
=============================================================================
