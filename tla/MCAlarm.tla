------------------------------ MODULE MCAlarm ------------------------------
(***************************************************************************)
(* A thread without a queue, the ticks of two actors and a caller: alarms  *)
(* set from outside and from a callback, and an event in the notification  *)
(* slot that a busy actor leaves there.                                    *)
(***************************************************************************)
EXTENDS AppThread, TLC

CONSTANTS bg, led, sensor, e1

MCThreads == {bg}
MCActors == {led, sensor}
MCEvents == {e1}
MCQueueSize == bg :> 0
MCTickIndex == bg :> "bg"
MCCatchupThread == bg :> bg
MCListeners == bg :> <<led, sensor>>
MCTarget == e1 :> bg
MCConsumer == e1 :> NoActor
MCSubscribed == e1 :> {led, sensor}
MCAnswers == led :> {"leave", "DEFERRED"} @@ sensor :> {"leave"}
MCOwnDelays == [a \in MCActors |-> {}]
MCCallerDelays == {0, 1}
=============================================================================
