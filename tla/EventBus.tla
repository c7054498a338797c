------------------------------ MODULE EventBus ------------------------------
(***************************************************************************)
(* What the event threads promise to publishers, without notifications,    *)
(* sleep or time: each thread is a bounded first-in first-out channel.  An *)
(* event is accepted or refused when it is published; an accepted event is *)
(* served after those accepted before it, one at a time, and then settled. *)
(***************************************************************************)
EXTENDS Naturals, Sequences

CONSTANTS Threads, Events, Capacity, Target, NoEvent

VARIABLES
    buffer,     \* accepted events each thread has yet to serve
    serving,    \* the event a thread is serving, or NoEvent
    outcome     \* what each event's publisher can tell of it

vars == <<buffer, serving, outcome>>

Init ==
    /\ buffer = [t \in Threads |-> <<>>]
    /\ serving = [t \in Threads |-> NoEvent]
    /\ outcome = [e \in Events |-> "unpublished"]

Accept(e) ==
    LET t == Target[e] IN
    /\ outcome[e] = "unpublished" /\ Len(buffer[t]) < Capacity[t]
    /\ buffer' = [buffer EXCEPT ![t] = Append(@, e)]
    /\ outcome' = [outcome EXCEPT ![e] = "accepted"]
    /\ UNCHANGED serving

Refuse(e) ==
    /\ outcome[e] = "unpublished" /\ Len(buffer[Target[e]]) >= Capacity[Target[e]]
    /\ outcome' = [outcome EXCEPT ![e] = "refused"]
    /\ UNCHANGED <<buffer, serving>>

Serve(t) ==
    /\ serving[t] = NoEvent /\ buffer[t] # <<>>
    /\ serving' = [serving EXCEPT ![t] = Head(buffer[t])]
    /\ buffer' = [buffer EXCEPT ![t] = Tail(@)]
    /\ UNCHANGED outcome

Settle(t) ==
    /\ serving[t] # NoEvent
    /\ serving' = [serving EXCEPT ![t] = NoEvent]
    /\ outcome' = [outcome EXCEPT ![serving[t]] = "settled"]
    /\ UNCHANGED buffer

Next ==
    \/ \E e \in Events : Accept(e) \/ Refuse(e)
    \/ \E t \in Threads : Serve(t) \/ Settle(t)

Spec == Init /\ [][Next]_vars
=============================================================================
