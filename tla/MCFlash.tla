------------------------------ MODULE MCFlash ------------------------------
(***************************************************************************)
(* The mothership and another actor use the flash storage.                 *)
(***************************************************************************)
EXTENDS FlashTask
=============================================================================
