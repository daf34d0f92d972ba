----------------------------- MODULE MCCyInstall -----------------------------
(***************************************************************************)
(* Three runs: an install, an uninstall that goes wrong, and its           *)
(* repetition.                                                             *)
(***************************************************************************)
EXTENDS CyInstall
=============================================================================
