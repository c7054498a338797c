------------------------------ MODULE MCDefer ------------------------------
(***************************************************************************)
(* The input and catchup threads, which share the input ticks, with actors *)
(* that may be busy: an event of the input thread may be handed over to    *)
(* the catchup thread and requeued there again.                            *)
(***************************************************************************)
EXTENDS AppThread, TLC

CONSTANTS input, catchup, spi, e1, e2

MCThreads == {input, catchup}
MCActors == {spi}
MCEvents == {e1, e2}
MCQueueSize == input :> 1 @@ catchup :> 1
MCTickIndex == [t \in MCThreads |-> "input"]
MCCatchupThread == [t \in MCThreads |-> catchup]
MCListeners == [t \in MCThreads |-> <<spi>>]
MCTarget == [e \in MCEvents |-> input]
MCConsumer == e1 :> spi @@ e2 :> NoActor
MCSubscribed == [e \in MCEvents |-> {}]
MCAnswers == [a \in MCActors |-> Answer]
MCOwnDelays == [a \in MCActors |-> {}]
=============================================================================
