---------------------------- MODULE MCCyTransmit ----------------------------
\* Two writes, longer than the ring and as long as it, on two processors.
EXTENDS CyTransmit, TLC

CONSTANTS i1, i2

ThreeAndTwo == i1 :> 3 @@ i2 :> 2
=============================================================================
