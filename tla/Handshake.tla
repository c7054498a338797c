----------------------------- MODULE Handshake -----------------------------
(***************************************************************************)
(* What a client of a transport may rely on: a request is asked, is served *)
(* and is acknowledged, one at a time.  A request that is not acknowledged *)
(* has failed, and keeps the transport.                                    *)
(***************************************************************************)
VARIABLE state

Init == state = "idle"

Ask == state = "idle" /\ state' = "asked"
Serve == state = "asked" /\ state' = "served"
Acknowledge == state = "served" /\ state' = "idle"
Fail == state \in {"asked", "served"} /\ state' = "failed"

Next == Ask \/ Serve \/ Acknowledge \/ Fail

Spec == Init /\ [][Next]_state
=============================================================================
