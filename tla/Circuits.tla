------------------------------ MODULE Circuits ------------------------------
(***************************************************************************)
(* src/src/device/circuit.c: relays that may be fed by a supply which is a *)
(* circuit itself.  A circuit is on while it has a duty cycle or consumers.*)
(* A write to a property that switches it sets the relay, and adds itself  *)
(* to or removes itself from the consumers of its supply, which is another *)
(* write to a property.  The current that a sensor measures is a property, *)
(* too, and switches nothing.                                              *)
(*                                                                         *)
(* Properties are written by the CANopen node and by actors, from threads  *)
(* of different priorities.  CO_LOCK_OD is empty in CO_driver_target.h: a  *)
(* thread may come between any two steps of another one's write.           *)
(***************************************************************************)
EXTENDS Integers, FiniteSets

CONSTANTS
    Circuits,       \* the circuits
    Supply,         \* [Circuits -> Circuits \cup {NoSupply}]: psu, as linked
    NoSupply,       \* psu_index is 0
    Threads,
    Priority,       \* [Threads -> Nat]
    Duties,         \* the duty cycles that are written
    Counts,         \* the counts the CANopen node may write over consumers
    Modulus,        \* 2^8: consumers is an uint8_t
    MaxWrites       \* bound: writes in a behaviour

ASSUME CircuitsAssumption ==
    /\ NoSupply \notin Circuits /\ IsFiniteSet(Circuits)
    /\ Supply \in [Circuits -> Circuits \cup {NoSupply}]
    /\ Priority \in [Threads -> Nat]
    /\ Duties \subseteq Nat /\ 0 \in Duties
    /\ Modulus \in Nat \ {0, 1}
    /\ Cardinality(Circuits) < Modulus /\ Counts \subseteq 0 .. Modulus - 1
    /\ MaxWrites \in Nat

VARIABLES
    duty, consumers,    \* the properties of a circuit
    relay,              \* the pin of its relay
    call,               \* where a thread's write stands
    writes,             \* the number of writes
    alone,              \* history: no write began while another was under way
    meddled             \* history: the circuits whose count the node wrote over

vars == <<duty, consumers, relay, call, writes, alone, meddled>>

Idle == [at |-> "idle", circuit |-> NoSupply, property |-> "duty", value |-> 0, was |-> FALSE]

\* Mutant of On: a supply with consumers is off when its own duty cycle is 0
OnByDuty(c) == duty[c] > 0

\* device_circuit_get_state
On(c) == duty[c] > 0 \/ consumers[c] > 0

MayRun(t) == \A u \in Threads : Priority[u] > Priority[t] => call[u] = Idle
At(t, place) == call[t].at = place /\ MayRun(t)
Return(t) == call' = [call EXCEPT ![t] = Idle]

\* circuit_property_write up to what it stores
Begin(t, c, property, value) ==
    /\ At(t, "idle") /\ writes < MaxWrites
    /\ writes' = writes + 1
    /\ alone' = (alone /\ \A u \in Threads : call[u] = Idle)
    /\ call' = [call EXCEPT ![t] =
          [at |-> "store", circuit |-> c, property |-> property, value |-> value, was |-> On(c)]]
    /\ UNCHANGED <<duty, consumers, relay>>

\* A write of a duty cycle.  The CANopen node calls circuit_property_write;
\* actors go through actor_set_property, which returns if nothing changes.
Write(t, c, d, fromActor) ==
    /\ fromActor => d # duty[c]
    /\ Begin(t, c, "duty", d) /\ UNCHANGED meddled

\* A write of consumers by the node: the entry is readable and writable, and
\* the number that was counted there is lost
WriteConsumers(t, c, n) ==
    Begin(t, c, "consumers", n) /\ meddled' = meddled \cup {c}

\* circuit_on_value: the current has changed
Measure(t, c) == Begin(t, c, "current", 0) /\ UNCHANGED meddled

\* OD_writeOriginal
Store(t) ==
    LET w == call[t] IN
    /\ At(t, "store") /\ call' = [call EXCEPT ![t].at = "switch"]
    /\ duty' = IF w.property = "duty" THEN [duty EXCEPT ![w.circuit] = w.value] ELSE duty
    /\ consumers' = IF w.property = "consumers" THEN [consumers EXCEPT ![w.circuit] = w.value]
                    ELSE consumers
    /\ UNCHANGED <<relay, writes, alone, meddled>>

\* The rest of circuit_property_write, if the circuit is as it was
Keep(t) ==
    /\ At(t, "switch") /\ On(call[t].circuit) = call[t].was
    /\ Return(t)
    /\ UNCHANGED <<duty, consumers, relay, writes, alone, meddled>>

\* Mutant of Switch: the relay is set and the supply is not told
SwitchRelayOnly(t) ==
    LET c == call[t].circuit IN
    /\ At(t, "switch") /\ On(c) # call[t].was
    /\ relay' = [relay EXCEPT ![c] = On(c)]
    /\ Return(t)
    /\ UNCHANGED <<duty, consumers, writes, alone, meddled>>

\* device_circuit_set_state: the relay; a circuit without a supply is done
Switch(t) ==
    LET c == call[t].circuit IN
    /\ At(t, "switch") /\ On(c) # call[t].was
    /\ relay' = [relay EXCEPT ![c] = On(c)]
    /\ IF Supply[c] = NoSupply THEN Return(t)
       ELSE call' = [call EXCEPT ![t].at = "count", ![t].was = On(c)]
    /\ UNCHANGED <<duty, consumers, writes, alone, meddled>>

\* Mutants of Counted: a consumer is never removed; the count is not limited
\* to its eight bits
CountedUp(n, on) == (n + 1) % Modulus
CountedWide(n, on) == n + (IF on THEN 1 ELSE Modulus - 1)

Counted(n, on) == (n + (IF on THEN 1 ELSE -1)) % Modulus

\* device_circuit_set_state: the supply's count is read, and changed ...
Count(t) ==
    LET s == Supply[call[t].circuit] IN
    /\ At(t, "count")
    /\ call' = [call EXCEPT ![t].at = "set", ![t].circuit = s, ![t].property = "consumers",
                            ![t].value = Counted(consumers[s], call[t].was)]
    /\ UNCHANGED <<duty, consumers, relay, writes, alone, meddled>>

\* ... by actor_set_property and circuit_property_write of the supply
SetConsumers(t) ==
    LET s == call[t].circuit IN
    /\ At(t, "set")
    /\ IF consumers[s] = call[t].value THEN Return(t)
       ELSE call' = [call EXCEPT ![t].at = "store", ![t].was = On(s)]
    /\ UNCHANGED <<duty, consumers, relay, writes, alone, meddled>>

Step(t) == Store(t) \/ Keep(t) \/ Switch(t) \/ Count(t) \/ SetConsumers(t)

Init ==
    /\ duty = [c \in Circuits |-> 0] /\ consumers = [c \in Circuits |-> 0]
    /\ relay = [c \in Circuits |-> FALSE]
    /\ call = [t \in Threads |-> Idle]
    /\ writes = 0 /\ alone = TRUE /\ meddled = {}

Next ==
    \E t \in Threads :
        \/ Step(t)
        \/ \E c \in Circuits, d \in Duties, fromActor \in BOOLEAN : Write(t, c, d, fromActor)
        \/ \E c \in Circuits, n \in Counts : WriteConsumers(t, c, n)
        \/ \E c \in Circuits : Measure(t, c)

Spec == Init /\ [][Next]_vars

\* A write is finished
FairSpec == Spec /\ \A t \in Threads : WF_vars(Step(t))

(***************************************************************************)
(* Properties                                                              *)
(***************************************************************************)
Place == {"idle", "store", "switch", "count", "set"}
CallState ==
    [at : Place, circuit : Circuits \cup {NoSupply}, property : {"duty", "current", "consumers"},
     value : Nat, was : BOOLEAN]

TypeOK ==
    /\ duty \in [Circuits -> Duties]
    /\ consumers \in [Circuits -> 0 .. Modulus - 1]
    /\ relay \in [Circuits -> BOOLEAN]
    /\ call \in [Threads -> CallState]
    /\ \A t \in Threads : call[t].at # "idle" => call[t].circuit \in Circuits
    /\ writes \in Nat /\ alone \in BOOLEAN /\ meddled \subseteq Circuits

Fed(s) == {c \in Circuits : Supply[c] = s}
Quiet == \A t \in Threads : call[t] = Idle

\* When no write is under way, and no two ever overlapped, every relay is in
\* the state of its circuit, and a supply whose count the node has not written
\* over has as many consumers as circuits it feeds are on: so whatever is
\* switched on along a chain of supplies is powered, and no supply is left on
\* for nobody.  A count written over spoils that supply, and none beyond it.
ConsumersCounted ==
    alone /\ Quiet => \A c \in Circuits :
        /\ c \notin meddled => consumers[c] = Cardinality({d \in Fed(c) : On(d)})
        /\ relay[c] <=> On(c)

\* The relay of a supply whose count was left alone never opens while the
\* relay of a circuit it feeds is closed, not even between the steps of a
\* write.
NeverCutOff ==
    [][alone' => \A s \in Circuits \ meddled' :
          relay[s] /\ ~relay'[s] => \A c \in Fed(s) : ~relay'[c]]_vars

\* A circuit whose relay is closed gets power in the end, unless it is
\* switched off first, or the count of its supply is written over
PowerFollows ==
    \A s \in Circuits : \A c \in Fed(s) :
        relay[c] ~> ~alone \/ s \in meddled \/ ~relay[c] \/ relay[s]
=============================================================================
