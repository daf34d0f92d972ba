------------------------------ MODULE MCFossil ------------------------------
(* Rings of two bytes, two byte values and a block longer than the ring:   *)
(* every call meets an empty, a half full and a full ring.                 *)
EXTENDS Fossil

MCByte == {1, 2}
MCBlocks == {<<1, 2>>, <<2, 1, 1>>}
=============================================================================
