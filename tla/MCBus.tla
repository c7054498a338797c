------------------------------- MODULE MCBus -------------------------------
(***************************************************************************)
(* One thread with a queue of two, three events to publish and two callers *)
(* that also set alarms.  As in the firmware, no actor defers:             *)
(* actor_event_accept_and_process_generic never finds one busy.            *)
(***************************************************************************)
EXTENDS AppThread, TLC

CONSTANTS high, spi, w25, e1, e2, e3

MCThreads == {high}
MCActors == {spi, w25}
MCEvents == {e1, e2, e3}
MCQueueSize == high :> 2
MCTickIndex == [t \in MCThreads |-> "high"]
MCCatchupThread == [t \in MCThreads |-> high]
MCListeners == [t \in MCThreads |-> <<spi, w25>>]
MCTarget == [e \in MCEvents |-> high]
MCConsumer == e1 :> spi @@ e2 :> NoActor @@ e3 :> NoActor
MCSubscribed == e1 :> {} @@ e2 :> {w25} @@ e3 :> {spi, w25}
MCAnswers == [a \in MCActors |-> {"leave", "HANDLED"}]
MCOwnDelays == spi :> {1} @@ w25 :> {}
MCCallerDelays == {0}
=============================================================================
