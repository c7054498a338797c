----------------------------- MODULE MCCircuits -----------------------------
(***************************************************************************)
(* Two circuits on a supply that is itself on another supply, written by   *)
(* the CANopen node (high-priority thread) and by an actor of a thread of  *)
(* lower priority.                                                         *)
(***************************************************************************)
EXTENDS Circuits, TLC
CONSTANTS high, low, lamp, pump, psu, mains

MCCircuits == {lamp, pump, psu, mains}
MCSupply == lamp :> psu @@ pump :> psu @@ psu :> mains @@ mains :> NoSupply
MCPriority == high :> 4 @@ low :> 2
=============================================================================
