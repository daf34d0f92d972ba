------------------------------- MODULE MCCyPnp -------------------------------
(***************************************************************************)
(* A card of two chips with one port each, started at most twice.          *)
(***************************************************************************)
EXTENDS CyPnp
=============================================================================
