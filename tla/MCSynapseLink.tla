---------------------------- MODULE MCSynapseLink ----------------------------
(* A tail of two bytes under requests of up to three, and reads of two     *)
(* bytes from an inbox of up to five: the cap is met, packets are split,   *)
(* and both buffers are refilled after they were emptied.                  *)
EXTENDS SynapseLink
=============================================================================
