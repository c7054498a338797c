------------------------------ MODULE MCKernel ------------------------------
(***************************************************************************)
(* Two threads of the program.  The tick count wraps every few ticks, and  *)
(* a sleep may last nearly as long.                                        *)
(***************************************************************************)
EXTENDS Kernel, TLC
CONSTANTS input, high

MCPriority == input :> 5 @@ high :> 4
=============================================================================
