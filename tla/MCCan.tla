------------------------------- MODULE MCCan -------------------------------
(***************************************************************************)
(* The threads of system/canopen.c that run the CANopen stack: the input   *)
(* thread (PDOs) preempts the high-priority thread (everything else).      *)
(***************************************************************************)
EXTENDS CanTx, TLC
CONSTANTS input, high

TwoPriorities == input :> 5 @@ high :> 4
TwoOwners == [b \in Buffers |-> IF b = 1 THEN input ELSE high]
=============================================================================
