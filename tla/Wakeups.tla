------------------------------ MODULE Wakeups ------------------------------
(***************************************************************************)
(* What the threads of src/src/core/thread.c expect of the kernel: a task  *)
(* that takes its notification gets it, or sleeps until it comes or the    *)
(* time is up, and neither earlier nor later.                              *)
(***************************************************************************)
EXTENDS Integers

CONSTANTS Tasks, None

VARIABLES asleep, note, left

vars == <<asleep, note, left>>

Init ==
    /\ asleep = [t \in Tasks |-> FALSE]
    /\ note = [t \in Tasks |-> None]
    /\ left = [t \in Tasks |-> 0]

Sleep(t) ==
    /\ ~asleep[t] /\ note[t] = None
    /\ asleep' = [asleep EXCEPT ![t] = TRUE]
    /\ left'[t] \in Nat \ {0} /\ left' = [left EXCEPT ![t] = left'[t]]
    /\ UNCHANGED note

\* The task gets its notification, or finds that there is none
Take(t) ==
    /\ ~asleep[t]
    /\ note' = [note EXCEPT ![t] = None]
    /\ UNCHANGED <<asleep, left>>

\* A notification that does not overwrite is lost if there is one already
Notify(t) ==
    /\ note'[t] # None /\ note' = [note EXCEPT ![t] = note'[t]]
    /\ asleep' = [asleep EXCEPT ![t] = FALSE]
    /\ left' = [left EXCEPT ![t] = 0]

Tick ==
    /\ left' = [t \in Tasks |-> IF asleep[t] THEN left[t] - 1 ELSE left[t]]
    /\ asleep' = [t \in Tasks |-> asleep[t] /\ left'[t] > 0]
    /\ UNCHANGED note

Next == Tick \/ \E t \in Tasks : Sleep(t) \/ Take(t) \/ Notify(t)

Spec == Init /\ [][Next]_vars
=============================================================================
