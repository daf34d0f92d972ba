----------------------------- MODULE MCByteRing -----------------------------
(* ByteRing at a size where both cursors wrap with the ring partly full.   *)
EXTENDS ByteRing

MCByte == {0, 1}
=============================================================================
