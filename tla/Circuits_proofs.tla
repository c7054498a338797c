-------------------------- MODULE Circuits_proofs --------------------------
(***************************************************************************)
(* Proof that supplies count their consumers and are never cut off under a *)
(* circuit, for any circuits, however they feed each other, and any number *)
(* of threads, while writes do not overlap.                                *)
(***************************************************************************)
EXTENDS Circuits, FiniteSetTheorems, TLAPS

\* The number of circuits fed by c that are on, where x counts as b says
Others(c, x) == {d \in Fed(c) \ {x} : On(d)}
CountWith(c, x, b) == Cardinality(Others(c, x)) + (IF x \in Fed(c) /\ b THEN 1 ELSE 0)
CountOn(c) == Cardinality({d \in Fed(c) : On(d)})

Wired == \A c \in Circuits : relay[c] <=> On(c)
\* The circuits whose count the node has not written over
Kept == Circuits \ meddled
Settled == Wired /\ \A c \in Kept : consumers[c] = CountOn(c)

\* A write: what it stores, the circuit it has yet to switch, the circuit its
\* supply has yet to count, and the count that is to be written there
AtStore(w) ==
    /\ w.at = "store" /\ Wired /\ (w.was <=> On(w.circuit))
    /\ IF w.property = "consumers"
       THEN /\ w.circuit \in Kept => w.value = CountOn(w.circuit)
            /\ \A c \in Kept \ {w.circuit} : consumers[c] = CountOn(c)
       ELSE \A c \in Kept : consumers[c] = CountOn(c)

AtSwitch(w) ==
    /\ w.at = "switch" /\ (relay[w.circuit] <=> w.was)
    /\ \A c \in Circuits \ {w.circuit} : relay[c] <=> On(c)
    /\ \A c \in Kept : consumers[c] = CountWith(c, w.circuit, w.was)

AtCount(w) ==
    /\ w.at = "count" /\ Wired /\ (w.was <=> On(w.circuit)) /\ Supply[w.circuit] # NoSupply
    /\ \A c \in Kept : consumers[c] = CountWith(c, w.circuit, ~w.was)

AtSet(w) ==
    /\ w.at = "set" /\ Wired /\ w.property = "consumers"
    /\ w.circuit \in Kept => w.value = CountOn(w.circuit)
    /\ \A c \in Kept \ {w.circuit} : consumers[c] = CountOn(c)

Within(w) == AtStore(w) \/ AtSwitch(w) \/ AtCount(w) \/ AtSet(w)

AloneInv ==
    \/ Quiet /\ Settled
    \/ \E t \in Threads : Within(call[t]) /\ \A u \in Threads \ {t} : call[u] = Idle

\* What a write is about to store
CallsOK ==
    \A t \in Threads :
        LET w == call[t] IN
        /\ w.at = "count" => Supply[w.circuit] \in Circuits
        /\ w.at = "set" => w.property = "consumers"
        /\ w.at \in {"store", "set"} /\ w.property = "consumers" => w.value \in 0 .. Modulus - 1
        /\ w.at \in {"store", "set"} /\ w.property = "duty" => w.value \in Duties

Types == TypeOK /\ CallsOK
IInv == Types /\ (alone => AloneInv)

(***************************************************************************)
(* Counting                                                                *)
(***************************************************************************)
LEMMA Few ==
  ASSUME NEW S \in SUBSET Circuits
  PROVE  IsFiniteSet(S) /\ Cardinality(S) \in 0 .. Modulus - 1
<1>1. IsFiniteSet(S) /\ Cardinality(S) <= Cardinality(Circuits)
  BY CircuitsAssumption, FS_Subset
<1>2. Cardinality(S) \in Nat /\ Cardinality(Circuits) \in Nat
  BY <1>1, CircuitsAssumption, FS_CardinalityType
<1> QED
  BY <1>1, <1>2, CircuitsAssumption

LEMMA CountOnType ==
  ASSUME NEW c \in Circuits
  PROVE  CountOn(c) \in 0 .. Modulus - 1
  BY Few DEF CountOn, Fed

LEMMA CountApart ==
  ASSUME NEW c, NEW x
  PROVE  /\ Cardinality(Others(c, x)) \in Nat
         /\ CountOn(c) = Cardinality(Others(c, x)) + (IF x \in Fed(c) /\ On(x) THEN 1 ELSE 0)
<1> DEFINE on == {d \in Fed(c) : On(d)}
<1>1. IsFiniteSet(Others(c, x)) /\ Cardinality(Others(c, x)) \in 0 .. Modulus - 1
  BY Few DEF Others, Fed
<1>2. CASE x \in Fed(c) /\ On(x)
  <2>1. on = Others(c, x) \cup {x} /\ x \notin Others(c, x)
    BY <1>2 DEF Others
  <2>2. Cardinality(on) = Cardinality(Others(c, x)) + 1
    BY <1>1, <2>1, FS_AddElement
  <2> QED
    BY <1>1, <1>2, <2>2, CircuitsAssumption DEF CountOn
<1>3. CASE ~(x \in Fed(c) /\ On(x))
  <2>1. on = Others(c, x)
    BY <1>3 DEF Others
  <2>2. CountOn(c) = Cardinality(on)
    BY DEF CountOn
  <2>3. Cardinality(Others(c, x)) \in Nat
    BY <1>1, CircuitsAssumption
  <2> HIDE DEF on
  <2>4. CountOn(c) = Cardinality(Others(c, x))
    BY <2>1, <2>2, Zenon
  <2> QED
    BY <1>3, <2>3, <2>4
<1> QED
  BY <1>2, <1>3

\* A circuit that the supply does not feed, or that counts as what it is,
\* makes no difference.
LEMMA CountAsIs ==
  ASSUME NEW c, NEW x, NEW b, x \notin Fed(c) \/ (b <=> On(x))
  PROVE  CountWith(c, x, b) = CountOn(c)
  BY CountApart DEF CountWith

\* The count of the supply, one up or down, is the number of circuits it
\* feeds that are on: it neither wraps nor stops.
LEMMA CountedRight ==
  ASSUME NEW x \in Circuits, NEW s \in Circuits, Supply[x] = s,
         NEW b \in BOOLEAN, b <=> On(x)
  PROVE  Counted(CountWith(s, x, ~b), b) = CountOn(s)
<1>1. x \in Fed(s)
  BY DEF Fed
<1>2. CountOn(s) \in 0 .. Modulus - 1 /\ Modulus \in Nat
  BY CountOnType, CircuitsAssumption
<1>3. CountWith(s, x, ~b) + (IF b THEN 1 ELSE -1) = CountOn(s)
  BY <1>1, CountApart DEF CountWith
<1>4. CountOn(s) % Modulus = CountOn(s)
  BY <1>2
<1> QED
  BY <1>3, <1>4 DEF Counted

(***************************************************************************)
(* Types                                                                   *)
(***************************************************************************)
LEMMA CallType ==
  ASSUME TypeOK, NEW t \in Threads
  PROVE  call[t] \in CallState /\ (call[t].at # "idle" => call[t].circuit \in Circuits)
  BY DEF TypeOK

LEMMA InitInv == Init => IInv
<1> SUFFICES ASSUME Init PROVE IInv
  OBVIOUS
<1>1. Types
  BY CircuitsAssumption DEF Init, Types, TypeOK, CallsOK, Idle, CallState, Place
<1>2. \A c \in Circuits : ~On(c)
  BY CircuitsAssumption DEF Init, On
<1>3. \A c \in Circuits : CountOn(c) = 0
  <2>1. \A c \in Circuits : {d \in Fed(c) : On(d)} = {}
    BY <1>2 DEF Fed
  <2> QED
    BY <2>1, FS_EmptySet DEF CountOn
<1>4. Quiet /\ Settled
  BY <1>2, <1>3 DEF Init, Quiet, Settled, Wired, Kept
<1> QED
  BY <1>1, <1>4 DEF IInv, AloneInv

\* What a thread's step does to its call, and to its own only
LEMMA OwnCall ==
  ASSUME Types, NEW t \in Threads, NEW w \in CallState, call' = [call EXCEPT ![t] = w],
         w.at # "idle" => w.circuit \in Circuits,
         w.at = "count" => Supply[w.circuit] \in Circuits,
         w.at = "set" => w.property = "consumers",
         w.at \in {"store", "set"} /\ w.property = "consumers" => w.value \in 0 .. Modulus - 1,
         w.at \in {"store", "set"} /\ w.property = "duty" => w.value \in Duties
  PROVE  /\ call' \in [Threads -> CallState] /\ CallsOK'
         /\ \A u \in Threads : call'[u].at # "idle" => call'[u].circuit \in Circuits
<1>1. call' \in [Threads -> CallState]
  BY DEF Types, TypeOK
<1>2. \A u \in Threads : call'[u] = IF u = t THEN w ELSE call[u]
  BY DEF Types, TypeOK
<1> QED
  BY <1>1, <1>2 DEF Types, TypeOK, CallsOK

LEMMA IdleCall ==
  ASSUME Types, NEW t \in Threads, Return(t)
  PROVE  /\ call' \in [Threads -> CallState] /\ CallsOK'
         /\ \A u \in Threads : call'[u].at # "idle" => call'[u].circuit \in Circuits
<1>1. Idle \in CallState /\ Idle.at = "idle"
  BY DEF Idle, CallState, Place
<1> QED
  BY <1>1, OwnCall DEF Return

LEMMA OnType == \A c : On(c) \in BOOLEAN
  BY DEF On

\* Everything but meddled
BeginTypes ==
    /\ duty \in [Circuits -> Duties] /\ consumers \in [Circuits -> 0 .. Modulus - 1]
    /\ relay \in [Circuits -> BOOLEAN] /\ call \in [Threads -> CallState] /\ CallsOK
    /\ \A u \in Threads : call[u].at # "idle" => call[u].circuit \in Circuits
    /\ writes \in Nat /\ alone \in BOOLEAN

LEMMA BeginType ==
  ASSUME Types, NEW t \in Threads, NEW c \in Circuits, NEW p \in {"duty", "current", "consumers"},
         NEW n \in Nat, Begin(t, c, p, n),
         p = "consumers" => n \in 0 .. Modulus - 1, p = "duty" => n \in Duties
  PROVE  BeginTypes'
<1> DEFINE w == [at |-> "store", circuit |-> c, property |-> p, value |-> n, was |-> On(c)]
<1>1. w \in CallState
  BY OnType DEF CallState, Place
<1>2. call' = [call EXCEPT ![t] = w]
  BY DEF Begin
<1>3. writes' \in Nat /\ alone' \in BOOLEAN
  BY DEF Begin, Types, TypeOK
<1> QED
  BY <1>1, <1>2, <1>3, OwnCall DEF Begin, Types, TypeOK, BeginTypes

LEMMA TypeStep ==
  ASSUME Types, [Next]_vars
  PROVE  Types'
<1> USE DEF Types
<1>1. ASSUME NEW t \in Threads, NEW c \in Circuits, NEW d \in Duties, NEW a \in BOOLEAN,
             Write(t, c, d, a)
      PROVE  Types'
  <2>1. d \in Nat
    BY CircuitsAssumption
  <2>2. BeginTypes'
    BY <1>1, <2>1, BeginType DEF Write
  <2> QED
    BY <1>1, <2>2 DEF Write, BeginTypes, TypeOK
<1>2. ASSUME NEW t \in Threads, NEW c \in Circuits, Measure(t, c)
      PROVE  Types'
  <2>1. BeginTypes'
    BY <1>2, BeginType DEF Measure
  <2> QED
    BY <1>2, <2>1 DEF Measure, BeginTypes, TypeOK
<1>9. ASSUME NEW t \in Threads, NEW c \in Circuits, NEW n \in Counts, WriteConsumers(t, c, n)
      PROVE  Types'
  <2>1. n \in Nat /\ n \in 0 .. Modulus - 1
    BY CircuitsAssumption
  <2>2. BeginTypes'
    BY <1>9, <2>1, BeginType DEF WriteConsumers
  <2> QED
    BY <1>9, <2>2 DEF WriteConsumers, BeginTypes, TypeOK
<1>3. ASSUME NEW t \in Threads, Store(t)
      PROVE  Types'
  <2> DEFINE w == [call[t] EXCEPT !.at = "switch"]
  <2>1. w \in CallState /\ w.circuit \in Circuits /\ w.at = "switch"
    BY <1>3, CallType DEF Store, At, CallState, Place
  <2>2. call' = [call EXCEPT ![t] = w]
    BY <1>3 DEF Store, TypeOK
  <2>3. duty' \in [Circuits -> Duties]
    BY <1>3, CallType DEF Store, At, TypeOK, CallsOK
  <2>4. consumers' \in [Circuits -> 0 .. Modulus - 1]
    BY <1>3, CallType DEF Store, At, TypeOK, CallsOK
  <2> HIDE DEF w
  <2>5. call' \in [Threads -> CallState] /\ CallsOK'
        /\ \A u \in Threads : call'[u].at # "idle" => call'[u].circuit \in Circuits
    BY <2>1, <2>2, OwnCall
  <2> QED
    BY <1>3, <2>3, <2>4, <2>5 DEF Store, TypeOK
<1>4. ASSUME NEW t \in Threads, Keep(t)
      PROVE  Types'
  BY <1>4, IdleCall DEF Keep, TypeOK
<1>5. ASSUME NEW t \in Threads, Switch(t)
      PROVE  Types'
  <2> DEFINE c == call[t].circuit
             w == [call[t] EXCEPT !.at = "count", !.was = On(c)]
  <2>1. c \in Circuits /\ relay' \in [Circuits -> BOOLEAN]
    BY <1>5, CallType, OnType DEF Switch, At, TypeOK
  <2>2. CASE Supply[c] = NoSupply
    BY <1>5, <2>1, <2>2, IdleCall DEF Switch, TypeOK
  <2>3. CASE Supply[c] # NoSupply
    <3>1. w \in CallState /\ w.at = "count" /\ w.circuit = c
      BY <1>5, CallType, OnType DEF CallState, Place
    <3>2. Supply[c] \in Circuits
      BY <2>1, <2>3, CircuitsAssumption
    <3>3. call' = [call EXCEPT ![t] = w]
      BY <1>5, <2>3 DEF Switch, TypeOK
    <3> HIDE DEF w, c
    <3>4. call' \in [Threads -> CallState] /\ CallsOK'
          /\ \A u \in Threads : call'[u].at # "idle" => call'[u].circuit \in Circuits
      BY <2>1, <3>1, <3>2, <3>3, OwnCall
    <3> QED
      BY <1>5, <2>1, <3>4 DEF Switch, TypeOK
  <2> QED
    BY <2>2, <2>3
<1>6. ASSUME NEW t \in Threads, Count(t)
      PROVE  Types'
  <2> DEFINE s == Supply[call[t].circuit]
             n == Counted(consumers[s], call[t].was)
             w == [call[t] EXCEPT !.at = "set", !.circuit = s, !.property = "consumers", !.value = n]
  <2>1. s \in Circuits
    BY <1>6 DEF Count, At, CallsOK
  <2>2. n \in 0 .. Modulus - 1
    <3>1. consumers[s] + (IF call[t].was THEN 1 ELSE -1) \in Int
      BY <2>1, CircuitsAssumption DEF TypeOK
    <3>2. \A i \in Int : i % Modulus \in 0 .. Modulus - 1
      BY CircuitsAssumption
    <3> QED
      BY <3>1, <3>2 DEF Counted
  <2> HIDE DEF n
  <2>3. w \in CallState /\ w.at = "set" /\ w.circuit = s /\ w.property = "consumers" /\ w.value = n
    <3>1. n \in Nat
      BY <2>2, CircuitsAssumption
    <3>2. call[t] \in CallState
      BY CallType
    <3> HIDE DEF s
    <3> QED
      BY <2>1, <3>1, <3>2 DEF CallState, Place
  <2>4. call' = [call EXCEPT ![t] = w]
    BY <1>6 DEF Count, TypeOK, n
  <2> HIDE DEF w, s
  <2>5. call' \in [Threads -> CallState] /\ CallsOK'
        /\ \A u \in Threads : call'[u].at # "idle" => call'[u].circuit \in Circuits
    BY <2>1, <2>2, <2>3, <2>4, OwnCall
  <2> QED
    BY <1>6, <2>5 DEF Count, TypeOK
<1>7. ASSUME NEW t \in Threads, SetConsumers(t)
      PROVE  Types'
  <2> DEFINE s == call[t].circuit
             w == [call[t] EXCEPT !.at = "store", !.was = On(s)]
  <2>1. CASE consumers[s] = call[t].value
    BY <1>7, <2>1, IdleCall DEF SetConsumers, TypeOK
  <2>2. CASE consumers[s] # call[t].value
    <3>1. s \in Circuits /\ call[t].property = "consumers" /\ call[t].value \in 0 .. Modulus - 1
      BY <1>7, CallType DEF SetConsumers, At, CallsOK
    <3>2. w \in CallState /\ w.at = "store" /\ w.circuit = s /\ w.property = "consumers"
          /\ w.value = call[t].value
      BY <3>1, CallType, OnType DEF CallState, Place
    <3>3. call' = [call EXCEPT ![t] = w]
      BY <1>7, <2>2 DEF SetConsumers, TypeOK
    <3> HIDE DEF w, s
    <3>4. call' \in [Threads -> CallState] /\ CallsOK'
          /\ \A u \in Threads : call'[u].at # "idle" => call'[u].circuit \in Circuits
      BY <3>1, <3>2, <3>3, OwnCall
    <3> QED
      BY <1>7, <3>4 DEF SetConsumers, TypeOK
  <2> QED
    BY <2>1, <2>2
<1>8. CASE UNCHANGED vars
  BY <1>8 DEF vars, TypeOK, CallsOK
<1> QED
  BY <1>1, <1>2, <1>3, <1>4, <1>5, <1>6, <1>7, <1>8, <1>9 DEF Next, Step

(***************************************************************************)
(* Steps of a write that is alone                                          *)
(***************************************************************************)
\* What does not switch a circuit leaves the counts of its like
LEMMA OthersSame ==
  ASSUME NEW x, \A d \in Circuits \ {x} : On(d)' <=> On(d)
  PROVE  \A c : Cardinality(Others(c, x))' = Cardinality(Others(c, x))
<1>1. \A c : Others(c, x)' = Others(c, x)
  BY DEF Others, Fed
<1> QED
  BY <1>1

LEMMA OnSame ==
  ASSUME UNCHANGED <<duty, consumers>>
  PROVE  /\ \A c : On(c)' <=> On(c)
         /\ \A c : CountOn(c)' = CountOn(c)
         /\ \A c, x : Cardinality(Others(c, x))' = Cardinality(Others(c, x))
<1>1. \A c : On(c)' <=> On(c)
  BY DEF On
<1>2. \A c, x : Others(c, x)' = Others(c, x)
  BY <1>1 DEF Others, Fed
<1>3. \A c : {d \in Fed(c) : On(d)}' = {d \in Fed(c) : On(d)}
  BY <1>1 DEF Fed
<1> QED
  BY <1>1, <1>2, <1>3 DEF CountOn

\* Where a thread stands that is about to take a step
LEMMA OnlyOne ==
  ASSUME AloneInv, NEW t \in Threads, call[t].at # "idle"
  PROVE  Within(call[t]) /\ \A u \in Threads \ {t} : call[u] = Idle
<1>1. call[t] # Idle
  BY DEF Idle
<1>2. PICK v \in Threads : Within(call[v]) /\ \A u \in Threads \ {v} : call[u] = Idle
  BY <1>1 DEF AloneInv, Quiet
<1>3. v = t
  BY <1>1, <1>2
<1> QED
  BY <1>2, <1>3

LEMMA StillIdle ==
  ASSUME Types, NEW t \in Threads, NEW w, call' = [call EXCEPT ![t] = w],
         \A u \in Threads \ {t} : call[u] = Idle
  PROVE  call'[t] = w /\ \A u \in Threads \ {t} : call'[u] = Idle
  BY DEF Types, TypeOK

LEMMA BeginStep ==
  ASSUME IInv, alone', NEW t \in Threads, NEW c, NEW p, NEW n, Begin(t, c, p, n),
         \/ p # "consumers" /\ UNCHANGED meddled
         \/ meddled' = meddled \cup {c}
  PROVE  AloneInv'
<1>1. PICK w : w = [at |-> "store", circuit |-> c, property |-> p, value |-> n, was |-> On(c)]
  OBVIOUS
<1>2. call' = [call EXCEPT ![t] = w] /\ UNCHANGED <<duty, consumers, relay>>
      /\ alone /\ \A u \in Threads : call[u] = Idle
  BY <1>1 DEF Begin
<1>3. Settled
  BY <1>2 DEF IInv, AloneInv, Within, AtStore, AtSwitch, AtCount, AtSet, Idle
<1>4. call'[t] = w /\ \A u \in Threads \ {t} : call'[u] = Idle
  BY <1>2, StillIdle DEF IInv
<1>5. Kept' \subseteq Kept /\ (p = "consumers" => c \notin Kept')
  BY DEF Kept
<1>6. AtStore(call[t])'
  BY <1>1, <1>2, <1>3, <1>4, <1>5, OnSame DEF AtStore, Settled, Wired, Kept
<1> QED
  BY <1>4, <1>6 DEF AloneInv, Within

\* In the steps of a write, w is the call before the step and v after it.
LEMMA StoreStep ==
  ASSUME Types, AloneInv, NEW t \in Threads, Store(t)
  PROVE  AloneInv'
<1>1. PICK w : w = call[t]
  OBVIOUS
<1> DEFINE x == w.circuit
           v == [w EXCEPT !.at = "switch"]
<1>2. AtStore(w) /\ (\A u \in Threads \ {t} : call[u] = Idle) /\ x \in Circuits
      /\ w \in CallState
  BY <1>1, OnlyOne, CallType DEF Types, Store, At, Within, AtSwitch, AtCount, AtSet
<1>3. v.at = "switch" /\ v.circuit = x /\ v.was = w.was
  BY <1>2 DEF CallState
<1>4. call' = [call EXCEPT ![t] = v] /\ UNCHANGED relay
  BY <1>1 DEF Store, Types, TypeOK
<1>5. \A d \in Circuits \ {x} : duty'[d] = duty[d] /\ consumers'[d] = consumers[d]
  BY <1>1 DEF Store, Types, TypeOK
<1>6. \A d \in Circuits \ {x} : On(d)' <=> On(d)
  BY <1>5 DEF On
<1>7. \A c \in Kept : consumers'[c] = CountOn(c)
  <2>1. CASE w.property = "consumers"
    BY <1>1, <1>2, <2>1 DEF AtStore, Store, Types, TypeOK, Kept
  <2>2. CASE w.property # "consumers"
    BY <1>1, <1>2, <2>2 DEF AtStore, Store, Kept
  <2> QED
    BY <2>1, <2>2
<1> HIDE DEF v
<1>8. call'[t] = v /\ \A u \in Threads \ {t} : call'[u] = Idle
  BY <1>2, <1>4, StillIdle
<1>9. \A c \in Kept : consumers'[c] = CountWith(c, x, w.was)'
  <2> SUFFICES ASSUME NEW c \in Kept PROVE consumers'[c] = CountWith(c, x, w.was)'
    OBVIOUS
  <2>1. CountWith(c, x, w.was)' = Cardinality(Others(c, x)) + (IF x \in Fed(c) /\ w.was THEN 1 ELSE 0)
    BY <1>6, OthersSame DEF CountWith, Fed
  <2> QED
    BY <1>2, <1>7, <2>1, CountApart DEF AtStore, Kept
<1>10. AtSwitch(call[t])'
  <2>1. relay'[x] <=> w.was
    BY <1>2, <1>4 DEF AtStore, Wired
  <2>2. \A c \in Circuits \ {x} : relay'[c] <=> On(c)'
    BY <1>2, <1>4, <1>6 DEF AtStore, Wired
  <2>3. Kept' = Kept
    BY DEF Store, Kept
  <2> QED
    BY <1>3, <1>8, <1>9, <2>1, <2>2, <2>3 DEF AtSwitch
<1> QED
  BY <1>8, <1>10 DEF AloneInv, Within

LEMMA KeepStep ==
  ASSUME Types, AloneInv, NEW t \in Threads, Keep(t)
  PROVE  AloneInv'
<1>1. AtSwitch(call[t]) /\ (\A u \in Threads \ {t} : call[u] = Idle)
      /\ call[t].circuit \in Circuits /\ call[t].was \in BOOLEAN
  BY OnlyOne, CallType DEF Types, Keep, At, Within, AtStore, AtCount, AtSet, CallState
<1>2. On(call[t].circuit) <=> call[t].was
  BY DEF Keep
<1>3. Settled
  <2>1. \A c \in Kept : consumers[c] = CountOn(c)
    BY <1>1, <1>2, CountAsIs DEF AtSwitch
  <2> QED
    BY <1>1, <1>2, <2>1 DEF AtSwitch, Settled, Wired
<1>4. Quiet'
  BY <1>1, StillIdle DEF Keep, Return, Quiet
<1>5. Settled'
  BY <1>3, OnSame DEF Keep, Settled, Wired, Kept
<1> QED
  BY <1>4, <1>5 DEF AloneInv

LEMMA SwitchStep ==
  ASSUME Types, AloneInv, NEW t \in Threads, Switch(t)
  PROVE  AloneInv'
<1>1. PICK w : w = call[t]
  OBVIOUS
<1> DEFINE x == w.circuit
<1>2. AtSwitch(w) /\ (\A u \in Threads \ {t} : call[u] = Idle) /\ x \in Circuits
      /\ w \in CallState /\ w.was \in BOOLEAN
  BY <1>1, OnlyOne, CallType DEF Types, Switch, At, Within, AtStore, AtCount, AtSet, CallState
<1>3. On(x) <=> ~w.was
  BY <1>1, <1>2, OnType DEF Switch
<1>4. UNCHANGED <<duty, consumers>> /\ relay' = [relay EXCEPT ![x] = On(x)]
  BY <1>1 DEF Switch
<1>5. Wired'
  BY <1>2, <1>4, OnSame DEF Wired, AtSwitch, Types, TypeOK
<1>6. CASE Supply[x] = NoSupply
  <2>1. \A c \in Circuits : x \notin Fed(c)
    BY <1>6, CircuitsAssumption DEF Fed
  <2>2. \A c \in Kept : consumers[c] = CountOn(c)
    BY <1>2, <2>1, CountAsIs DEF AtSwitch, Kept
  <2>3. Settled'
    BY <1>4, <1>5, <2>2, OnSame DEF Settled, Switch, Kept
  <2>4. Quiet'
    BY <1>1, <1>2, <1>6, StillIdle DEF Switch, Return, Quiet
  <2> QED
    BY <2>3, <2>4 DEF AloneInv
<1>7. CASE Supply[x] # NoSupply
  <2>1. PICK v : v = [w EXCEPT !.at = "count", !.was = On(x)]
    OBVIOUS
  <2>2. v.at = "count" /\ v.circuit = x /\ (v.was <=> On(x)) /\ v.was \in BOOLEAN
    BY <1>2, <2>1, OnType DEF CallState
  <2>3. call' = [call EXCEPT ![t] = v]
    BY <1>1, <1>7, <2>1 DEF Switch, Types, TypeOK
  <2>4. call'[t] = v /\ \A u \in Threads \ {t} : call'[u] = Idle
    BY <1>2, <2>3, StillIdle
  <2>5. ASSUME NEW c \in Kept
        PROVE  consumers'[c] = CountWith(c, x, ~v.was)'
    <3>1. CountWith(c, x, ~v.was)' = Cardinality(Others(c, x)) + (IF x \in Fed(c) /\ ~v.was THEN 1 ELSE 0)
      BY <1>4, OnSame DEF CountWith, Fed
    <3>2. CountWith(c, x, w.was) = Cardinality(Others(c, x)) + (IF x \in Fed(c) /\ w.was THEN 1 ELSE 0)
      BY DEF CountWith
    <3>3. w.was <=> ~v.was
      BY <1>3, <2>2
    <3> QED
      BY <1>2, <1>4, <3>1, <3>2, <3>3 DEF AtSwitch
  <2>6. AtCount(call[t])'
    BY <1>4, <1>5, <1>7, <2>2, <2>4, <2>5, OnSame DEF AtCount, Switch, Kept
  <2> QED
    BY <2>4, <2>6 DEF AloneInv, Within
<1> QED
  BY <1>6, <1>7

LEMMA CountStep ==
  ASSUME Types, AloneInv, NEW t \in Threads, Count(t)
  PROVE  AloneInv'
<1>1. PICK w : w = call[t]
  OBVIOUS
<1> DEFINE x == w.circuit
           s == Supply[x]
<1>2. AtCount(w) /\ (\A u \in Threads \ {t} : call[u] = Idle) /\ x \in Circuits
      /\ w \in CallState /\ w.was \in BOOLEAN
  BY <1>1, OnlyOne, CallType DEF Types, Count, At, Within, AtStore, AtSwitch, AtSet, CallState
<1>3. s \in Circuits
  BY <1>2, CircuitsAssumption DEF AtCount
<1>4. PICK n : n = Counted(consumers[s], w.was)
  OBVIOUS
<1>5. s \in Kept => n = CountOn(s)
  BY <1>2, <1>3, <1>4, CountedRight DEF AtCount
<1>6. \A c \in Kept \ {s} : consumers[c] = CountOn(c)
  <2>1. \A c \in Kept \ {s} : x \notin Fed(c)
    BY DEF Fed
  <2> QED
    BY <1>2, <2>1, CountAsIs DEF AtCount, Kept
<1>7. PICK v : v = [w EXCEPT !.at = "set", !.circuit = s, !.property = "consumers", !.value = n]
  OBVIOUS
<1>8. v.at = "set" /\ v.circuit = s /\ v.property = "consumers" /\ v.value = n
  <2> HIDE DEF s
  <2> QED
    BY <1>2, <1>7 DEF CallState
<1>9. call' = [call EXCEPT ![t] = v] /\ UNCHANGED <<duty, consumers, relay>>
  BY <1>1, <1>4, <1>7 DEF Count, Types, TypeOK
<1>10. call'[t] = v /\ \A u \in Threads \ {t} : call'[u] = Idle
  BY <1>2, <1>9, StillIdle
<1>11. AtSet(call[t])'
  <2>1. Kept' = Kept
    BY DEF Count, Kept
  <2>2. Wired'
    BY <1>2, <1>9, OnSame DEF AtCount, Wired
  <2>3. \A c \in Kept \ {s} : consumers'[c] = CountOn(c)'
    BY <1>6, <1>9, OnSame
  <2>4. s \in Kept => v.value = CountOn(s)'
    BY <1>5, <1>8, <1>9, OnSame
  <2> HIDE DEF s
  <2> QED
    BY <1>8, <1>10, <2>1, <2>2, <2>3, <2>4 DEF AtSet
<1> QED
  BY <1>10, <1>11 DEF AloneInv, Within

LEMMA SetConsumersStep ==
  ASSUME Types, AloneInv, NEW t \in Threads, SetConsumers(t)
  PROVE  AloneInv'
<1>1. PICK w : w = call[t]
  OBVIOUS
<1> DEFINE s == w.circuit
<1>2. AtSet(w) /\ (\A u \in Threads \ {t} : call[u] = Idle) /\ s \in Circuits
      /\ w \in CallState
  BY <1>1, OnlyOne, CallType DEF Types, SetConsumers, At, Within, AtStore, AtSwitch, AtCount
<1>3. UNCHANGED <<duty, consumers, relay>>
  BY DEF SetConsumers
<1>4. CASE consumers[s] = w.value
  <2>1. Settled
    BY <1>2, <1>4 DEF AtSet, Settled
  <2>2. Settled'
    BY <1>3, <2>1, OnSame DEF Settled, Wired, SetConsumers, Kept
  <2>3. Quiet'
    BY <1>1, <1>2, <1>4, StillIdle DEF SetConsumers, Return, Quiet
  <2> QED
    BY <2>2, <2>3 DEF AloneInv
<1>5. CASE consumers[s] # w.value
  <2>1. PICK v : v = [w EXCEPT !.at = "store", !.was = On(s)]
    OBVIOUS
  <2>2. v.at = "store" /\ v.circuit = s /\ (v.was <=> On(s)) /\ v.property = "consumers"
        /\ v.value = w.value
    BY <1>2, <2>1 DEF CallState, AtSet
  <2>3. call' = [call EXCEPT ![t] = v]
    BY <1>1, <1>5, <2>1 DEF SetConsumers, Types, TypeOK
  <2>4. call'[t] = v /\ \A u \in Threads \ {t} : call'[u] = Idle
    BY <1>2, <2>3, StillIdle
  <2>5. AtStore(call[t])'
    BY <1>2, <1>3, <2>2, <2>4, OnSame DEF AtStore, AtSet, Wired, SetConsumers, Kept
  <2> QED
    BY <2>4, <2>5 DEF AloneInv, Within
<1> QED
  BY <1>4, <1>5

LEMMA AloneStep ==
  ASSUME IInv, [Next]_vars, alone'
  PROVE  AloneInv'
<1>1. ASSUME NEW t \in Threads, NEW c \in Circuits, NEW d, NEW a, Write(t, c, d, a)
      PROVE  AloneInv'
  <2>1. Begin(t, c, "duty", d) /\ UNCHANGED meddled
    BY <1>1 DEF Write
  <2> QED
    BY <2>1, BeginStep
<1>2. ASSUME NEW t \in Threads, NEW c \in Circuits, Measure(t, c)
      PROVE  AloneInv'
  <2>1. Begin(t, c, "current", 0) /\ UNCHANGED meddled
    BY <1>2 DEF Measure
  <2> QED
    BY <2>1, BeginStep
<1>5. ASSUME NEW t \in Threads, NEW c \in Circuits, NEW n, WriteConsumers(t, c, n)
      PROVE  AloneInv'
  <2>1. Begin(t, c, "consumers", n) /\ meddled' = meddled \cup {c}
    BY <1>5 DEF WriteConsumers
  <2> QED
    BY <2>1, BeginStep
<1>3. ASSUME NEW t \in Threads, Step(t)
      PROVE  AloneInv'
  <2>1. Types /\ AloneInv
    BY <1>3 DEF Step, Store, Keep, Switch, Count, SetConsumers, IInv
  <2> QED
    BY <1>3, <2>1, StoreStep, KeepStep, SwitchStep, CountStep, SetConsumersStep DEF Step
<1>4. CASE UNCHANGED vars
  <2>1. AloneInv /\ UNCHANGED <<duty, consumers, relay, call, meddled>>
    BY <1>4 DEF vars, IInv
  <2> QED
    BY <2>1, OnSame DEF AloneInv, Quiet, Settled, Wired, Within, AtStore, AtSwitch, AtCount,
                        AtSet, CountWith, Fed, Kept
<1> QED
  BY <1>1, <1>2, <1>3, <1>4, <1>5 DEF Next

LEMMA Inductive == Spec => []IInv
<1>1. IInv /\ [Next]_vars => IInv'
  BY TypeStep, AloneStep DEF IInv
<1> QED
  BY InitInv, <1>1, PTL DEF Spec

\* A supply that is switched off has nothing left to count.
LEMMA SwitchedOff ==
  ASSUME Types, AloneInv, NEW t \in Threads, Switch(t),
         NEW s \in Kept, relay[s], ~relay'[s], NEW c \in Fed(s)
  PROVE  ~relay'[c]
<1>1. PICK w : w = call[t]
  OBVIOUS
<1> DEFINE x == w.circuit
<1>2. AtSwitch(w) /\ x \in Circuits /\ w.was \in BOOLEAN
  BY <1>1, OnlyOne, CallType DEF Types, Switch, At, Within, AtStore, AtCount, AtSet, CallState
<1>3. relay' = [relay EXCEPT ![x] = On(x)] /\ c \in Circuits
  BY <1>1 DEF Switch, Fed
<1>4. s = x /\ ~On(x)
  BY <1>3 DEF Types, TypeOK
<1>5. CASE c = x
  BY <1>4, <1>5
<1>6. CASE c # x
  <2>1. relay'[c] <=> On(c)
    BY <1>2, <1>3, <1>6 DEF AtSwitch, Types, TypeOK
  <2> SUFFICES ASSUME On(c) PROVE FALSE
    BY <2>1
  <2>2. consumers[x] = 0
    BY <1>2, <1>4 DEF On, Types, TypeOK
  <2>3. CountWith(x, x, w.was) = 0
    BY <1>2, <1>4, <2>2 DEF AtSwitch
  <2>4. Cardinality(Others(x, x)) = 0
    BY <2>3, CountApart DEF CountWith
  <2>5. IsFiniteSet(Others(x, x))
    BY Few DEF Others, Fed
  <2>6. Others(x, x) = {}
    BY <2>4, <2>5, FS_EmptySet
  <2>7. c \in Others(x, x)
    BY <1>4, <1>6 DEF Others
  <2> QED
    BY <2>6, <2>7
<1> QED
  BY <1>5, <1>6

(***************************************************************************)
(* The theorems                                                            *)
(***************************************************************************)
\* The duty cycles, counts, relays and calls keep their types; a count keeps
\* to its eight bits however many threads write at once.
THEOREM TypeCorrect == Spec => []TypeOK
<1>1. IInv => TypeOK
  BY DEF IInv, Types
<1> QED
  BY Inductive, <1>1, PTL

\* While writes do not overlap, between them every relay is in the state of
\* its circuit, and a supply whose count the node has not written over has as
\* many consumers as circuits it feeds are on, along chains of supplies of any
\* length, whatever was written over elsewhere in the chain.
THEOREM ConsumersAreCounted == Spec => []ConsumersCounted
<1>1. IInv => ConsumersCounted
  <2> SUFFICES ASSUME IInv, alone, Quiet PROVE Settled
    BY DEF ConsumersCounted, Settled, Wired, CountOn, Kept
  <2>1. \A t \in Threads : ~Within(call[t])
    BY DEF Quiet, Idle, Within, AtStore, AtSwitch, AtCount, AtSet
  <2> QED
    BY <2>1 DEF IInv, AloneInv
<1> QED
  BY Inductive, <1>1, PTL

\* While writes do not overlap, no relay of a supply whose count the node has
\* not written over opens while that of a circuit it feeds is closed, not even
\* between the steps of a write.
THEOREM NeverCutsOff == Spec => NeverCutOff
<1>1. IInv /\ [Next]_vars =>
        [alone' => \A s \in Circuits \ meddled' :
            relay[s] /\ ~relay'[s] => \A c \in Fed(s) : ~relay'[c]]_vars
  <2> SUFFICES ASSUME IInv, Next, alone', NEW s \in Circuits \ meddled', relay[s], ~relay'[s],
                      NEW c \in Fed(s)
               PROVE  ~relay'[c]
    OBVIOUS
  <2>1. PICK t \in Threads : Switch(t)
    BY DEF Next, Step, Write, WriteConsumers, Measure, Begin, Store, Keep, Count, SetConsumers
  <2>2. Types /\ AloneInv /\ s \in Kept
    BY <2>1 DEF Switch, IInv, Kept
  <2> QED
    BY <2>1, <2>2, SwitchedOff
<1> QED
  BY Inductive, <1>1, PTL DEF Spec, NeverCutOff
=============================================================================
