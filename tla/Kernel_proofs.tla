--------------------------- MODULE Kernel_proofs ---------------------------
(***************************************************************************)
(* Proof that no notification is slept over and that the most urgent task  *)
(* runs, for any number of tasks of any priorities, timeouts and length of *)
(* the tick count, if critical sections mask the interrupts that notify.   *)
(***************************************************************************)
EXTENDS Kernel, WellFoundedInduction, TLAPS

Base == PriorityOf(current)

\* A task that is about to block found no notification
BlockInv == \A t \in Tasks : at[t] = "block" => current = t /\ value[t] = None

\* A task that makes up for ticks will switch if it should
ResumeInv ==
    \A t \in Tasks : at[t] = "resume" =>
        /\ current = t /\ list[t] = "ready" /\ ~suspended /\ pended > 0
        /\ Above(Ready, Base) => yield

\* The task that has suspended the scheduler runs, and none that is ready is
\* more urgent
SuspendInv ==
    suspended => /\ current \in Tasks /\ at[current] = "run" /\ list[current] = "ready"
                 /\ ~Above(Ready, Base)

\* The current task is ready, unless it has just blocked
RunInv == current \in Tasks /\ ~pendSV => list[current] = "ready"

\* No ready task is more urgent than the current one, unless a switch is due
TopInv ==
    ~suspended /\ ~pendSV /\ (\A t \in Tasks : at[t] # "resume") => ~Above(Ready, Base)

\* A task sleeps only if it waits for a notification
SleepInv == \A t \in Tasks : list[t] # "ready" /\ t \notin pending => state[t] = "WAITING"

IInv ==
    /\ TypeOK /\ BlockInv /\ ResumeInv /\ SuspendInv /\ RunInv /\ TopInv /\ SleepInv
    /\ NoLostWakeUp

ListType == [Tasks -> {"ready", "delayed", "overflow"}]
TimeType == 0 .. Modulus - 1

(***************************************************************************)
(* The operators                                                           *)
(***************************************************************************)
LEMMA PriorityType ==
  ASSUME NEW t \in Tasks \cup {Idle}
  PROVE  PriorityOf(t) \in Nat
  BY KernelAssumption DEF PriorityOf

LEMMA PriorityOfTask ==
  ASSUME NEW t \in Tasks
  PROVE  PriorityOf(t) = Priority[t] /\ Priority[t] \in Nat
  BY KernelAssumption DEF PriorityOf

LEMMA TicksType ==
  ASSUME NEW n \in Int
  PROVE  Ticks(n) \in TimeType
  BY KernelAssumption DEF Ticks, TimeType

\* The next unblocking is a time, whatever sleeps, and not after any that sleeps
\* in the current list
LEMMA EarliestFacts ==
  ASSUME NEW l \in ListType, wake \in [Tasks -> TimeType]
  PROVE  Earliest(l) \in TimeType /\ \A t \in DelayedIn(l) : Earliest(l) =< wake[t]
<1> DEFINE W == {wake[t] : t \in DelayedIn(l)}
<1>1. CASE DelayedIn(l) = {}
  BY <1>1, KernelAssumption DEF Earliest, MaxDelay, TimeType
<1>2. CASE DelayedIn(l) # {}
  <2>1. W \subseteq TimeType /\ W # {}
    BY <1>2 DEF DelayedIn
  <2>2. W \subseteq Nat
    BY <2>1, KernelAssumption DEF TimeType
  <2>3. PICK x \in W : \A y \in W : ~ (<<y, x>> \in OpToRel(<, Nat))
    BY <2>1, <2>2, NatLessThanWellFounded, WFMin
  <2>4. \A y \in W : ~ (y < x)
    BY <2>2, <2>3 DEF OpToRel
  <2>5. \A y \in W : x =< y
    BY <2>2, <2>4
  <2>6. \E w \in W : \A t \in DelayedIn(l) : w =< wake[t]
    BY <2>5
  <2>7. Earliest(l) \in W /\ \A t \in DelayedIn(l) : Earliest(l) =< wake[t]
    BY <1>2, <2>6 DEF Earliest
  <2> QED
    BY <2>1, <2>7
<1> QED
  BY <1>1, <1>2

\* What a tick does to the lists: tasks become ready and none stops to be; a
\* switch that was asked for stays so, and one is asked for if a task more
\* urgent than the current one becomes ready.
LEMMA IncrementedFacts ==
  ASSUME TypeOK, NEW s \in BOOLEAN, NEW k, k = Incremented(Kept(s))
  PROVE  /\ k.tick \in TimeType /\ k.list \in ListType /\ k.next \in TimeType
         /\ k.switch \in BOOLEAN /\ (s => k.switch)
         /\ \A t \in Tasks : list[t] = "ready" => k.list[t] = "ready"
         /\ \A t \in Tasks : k.list[t] = "ready" /\ list[t] # "ready" /\ Priority[t] > Base
                             => k.switch
<1> DEFINE k0 == Kept(s)
           now == Ticks(k0.tick + 1)
           m == IF now = 0 THEN Switched(k0) ELSE k0
           due == IF now >= m.next THEN {t \in DelayedIn(m.list) : Due(wake[t], now)} ELSE {}
           l == [t \in Tasks |-> IF t \in due THEN "ready" ELSE m.list[t]]
           switch == \/ k0.switch
                     \/ Above(due, PriorityOf(current) - 1)
                     \/ \E t \in Tasks \ {current} :
                            l[t] = "ready" /\ Priority[t] = PriorityOf(current)
<1>0. k = [tick |-> now, list |-> l,
           next |-> IF now >= m.next THEN Earliest(l) ELSE m.next, switch |-> switch]
  BY DEF Incremented
<1>1. /\ tick \in TimeType /\ list \in ListType /\ next \in TimeType
      /\ wake \in [Tasks -> TimeType] /\ current \in Tasks \cup {Idle}
  BY DEF TypeOK, TimeType, ListType
<1>2. k0.tick = tick /\ k0.list = list /\ k0.next = next /\ k0.switch = s
  BY DEF Kept
<1>3. now \in TimeType
  <2>1. tick + 1 \in Int
    BY <1>1, KernelAssumption DEF TimeType
  <2> QED
    BY <1>2, <2>1, TicksType
<1>4. /\ m.list \in ListType /\ m.next \in TimeType
      /\ \A t \in Tasks : m.list[t] = "ready" <=> list[t] = "ready"
  <2>1. CASE now = 0
    <3> DEFINE n == [t \in Tasks |-> IF k0.list[t] = "overflow" THEN "delayed"
                                     ELSE IF k0.list[t] = "delayed" THEN "overflow" ELSE "ready"]
    <3>1. Switched(k0) = [k0 EXCEPT !.list = n, !.next = Earliest(n)]
      BY DEF Switched
    <3>2. m.list = n /\ m.next = Earliest(n)
      BY <2>1, <3>1 DEF Kept
    <3>3. n \in ListType /\ \A t \in Tasks : n[t] = "ready" <=> list[t] = "ready"
      BY <1>1, <1>2 DEF ListType
    <3>4. Earliest(n) \in TimeType
      BY <1>1, <3>3, EarliestFacts
    <3> QED
      BY <3>2, <3>3, <3>4
  <2>2. CASE now # 0
    BY <1>1, <1>2, <2>2
  <2> QED
    BY <2>1, <2>2
<1>5. due \subseteq Tasks
  BY DEF DelayedIn
<1>6. /\ l \in ListType
      /\ \A t \in Tasks : list[t] = "ready" => l[t] = "ready"
      /\ \A t \in Tasks : l[t] = "ready" /\ list[t] # "ready" => t \in due
  BY <1>4 DEF ListType
<1>7. Earliest(l) \in TimeType
  BY <1>1, <1>6, EarliestFacts
<1>8. \A t \in due : Priority[t] > Base => Above(due, PriorityOf(current) - 1)
  <2> SUFFICES ASSUME NEW t \in due, Priority[t] > Base
               PROVE  Priority[t] > PriorityOf(current) - 1
    BY DEF Above
  <2>1. PriorityOf(current) \in Nat /\ Priority[t] \in Nat
    BY <1>1, <1>5, PriorityType, PriorityOfTask
  <2> QED
    BY <2>1 DEF Base
<1>9. /\ k.tick = now /\ k.list = l /\ k.switch = switch
      /\ k.next = IF now >= m.next THEN Earliest(l) ELSE m.next
  BY <1>0
<1>10. switch \in BOOLEAN /\ (s => switch)
  BY <1>2
<1>11. k.next \in TimeType
  BY <1>4, <1>7, <1>9
<1>12. \A t \in Tasks : l[t] = "ready" /\ list[t] # "ready" /\ Priority[t] > Base => switch
  BY <1>6, <1>8
<1> HIDE DEF now, m, due, l, switch, k0
<1> QED
  BY <1>3, <1>6, <1>9, <1>10, <1>11, <1>12

(***************************************************************************)
(* Types                                                                   *)
(***************************************************************************)
LEMMA InitTypes == Init => TypeOK
<1> SUFFICES ASSUME Init PROVE TypeOK
  OBVIOUS
<1>1. 0 \in TimeType /\ MaxDelay \in TimeType /\ 0 \in 0 .. MaxPended
  BY KernelAssumption DEF TimeType, MaxDelay
<1>2. current \in Tasks /\ 0 \in 0 .. MaxDelay
  BY KernelAssumption DEF Init, MaxDelay
<1> QED
  BY <1>1, <1>2 DEF Init, TypeOK, TimeType

LEMMA CheckTypes ==
  ASSUME TypeOK, NEW t \in Tasks, Check(t)
  PROVE  TypeOK'
<1>1. PICK d \in Waits : wait' = [wait EXCEPT ![t] = d]
  BY DEF Check
<1> QED
  BY <1>1 DEF Check, TypeOK, listVars, switchVars, noteVars

LEMMA TakeTypes ==
  ASSUME TypeOK, NEW t \in Tasks, Take(t)
  PROVE  TypeOK'
BY KernelAssumption DEF Take, TypeOK, listVars, switchVars, MaxDelay

LEMMA BlockTypes ==
  ASSUME TypeOK, NEW t \in Tasks, Block(t)
  PROVE  TypeOK' /\ Ticks(tick + wait[t]) \in TimeType
<1> DEFINE time == Ticks(tick + wait[t])
<1>1. /\ state' = [state EXCEPT ![t] = "WAITING"]
      /\ left' = [left EXCEPT ![t] = wait[t]]
      /\ at' = [at EXCEPT ![t] = "take"] /\ wait' = [wait EXCEPT ![t] = 0]
      /\ UNCHANGED <<tick, pending, suspended, pended, yield, woken, current, value>>
  BY DEF Block
<1>2. \/ /\ wake' = [wake EXCEPT ![t] = time]
         /\ list' = [list EXCEPT ![t] = Delayed(time)]
         /\ next' = IF list'[t] = "delayed" /\ time < next THEN time ELSE next
         /\ pendSV' = TRUE
      \/ UNCHANGED <<list, wake, next, pendSV>>
  BY DEF Block
<1>3. time \in TimeType
  <2>1. tick \in Int
    BY KernelAssumption DEF TypeOK
  <2>2. Waits \subseteq Int
    BY KernelAssumption
  <2>3. wait[t] \in Waits \cup {0}
    BY DEF TypeOK
  <2>4. \A w \in Waits \cup {0} : tick + w \in Int
    BY <2>1, <2>2
  <2>5. tick + wait[t] \in Int
    BY <2>3, <2>4, Zenon
  <2> QED
    BY <2>5, TicksType
<1>4. Delayed(time) \in {"delayed", "overflow"}
  BY DEF Delayed
<1> HIDE DEF time
<1>5. list' \in ListType /\ wake' \in [Tasks -> TimeType] /\ next' \in TimeType
      /\ pendSV' \in BOOLEAN
  BY <1>2, <1>3, <1>4 DEF TypeOK, ListType, TimeType
<1>6. left' \in [Tasks -> Waits \cup 0 .. MaxDelay]
  <2>1. 0 \in 0 .. MaxDelay
    BY KernelAssumption DEF MaxDelay
  <2> QED
    BY <1>1, <2>1 DEF TypeOK
<1>7. TypeOK'
  BY <1>1, <1>5, <1>6 DEF TypeOK, ListType, TimeType
<1> QED
  BY <1>3, <1>7 DEF time

LEMMA NotifyTypes ==
  ASSUME TypeOK, NEW t \in Tasks, NEW u \in Tasks, NEW v \in Values,
         NEW overwrite \in BOOLEAN, Notify(t, u, v, overwrite)
  PROVE  TypeOK'
<1>1. /\ Mark(u, v, overwrite)
      /\ UNCHANGED <<tick, wake, next, pending, suspended, pended, yield, woken, current,
                     at, wait, left>>
  BY DEF Notify, taskVars
<1>2. \/ /\ list' = [list EXCEPT ![u] = "ready"]
         /\ pendSV' = (Priority[u] > Priority[t])
      \/ UNCHANGED <<list, pendSV>>
  BY DEF Notify, MakeReady, Preempts
<1>3. list' \in ListType
  BY <1>2 DEF TypeOK, ListType
<1>4. pendSV' \in BOOLEAN
  <2>1. pendSV \in BOOLEAN
    BY DEF TypeOK
  <2>2. (Priority[u] > Priority[t]) \in BOOLEAN
    BY PriorityOfTask
  <2> QED
    BY <1>2, <2>1, <2>2, Zenon
<1> QED
  BY <1>1, <1>3, <1>4 DEF Mark, TypeOK, ListType

LEMMA NotifyFromISRTypes ==
  ASSUME TypeOK, NEW u \in Tasks, NEW v \in Values,
         NEW overwrite \in BOOLEAN, NotifyFromISR(u, v, overwrite)
  PROVE  TypeOK'
<1> DEFINE higher == state[u] = "WAITING" /\ Priority[u] > Base
<1>1. /\ Mark(u, v, overwrite)
      /\ yield' = (yield \/ higher) /\ woken' = (woken \/ higher)
      /\ pendSV' = (pendSV \/ woken')
      /\ UNCHANGED <<tick, wake, next, suspended, pended, current, at, wait, left>>
  BY DEF NotifyFromISR, Preempts, Base, taskVars
<1>2. list' \in ListType /\ pending' \subseteq Tasks
  BY DEF NotifyFromISR, MakeReady, TypeOK, ListType
<1>3. yield' \in BOOLEAN /\ woken' \in BOOLEAN /\ pendSV' \in BOOLEAN
  BY <1>1 DEF TypeOK
<1> QED
  BY <1>1, <1>2, <1>3 DEF Mark, TypeOK, ListType

LEMMA LeftType ==
  ASSUME TypeOK, NEW t \in Tasks
  PROVE  left[t] \in 0 .. MaxDelay /\ MaxDelay \in Nat
<1>1. left[t] \in Waits \cup 0 .. MaxDelay
  BY DEF TypeOK
<1>2. Waits \subseteq 0 .. MaxDelay /\ MaxDelay \in Nat
  BY KernelAssumption DEF MaxDelay
<1> QED
  BY <1>1, <1>2

LEMMA SysTickTypes ==
  ASSUME TypeOK, SysTick
  PROVE  TypeOK'
<1>1. /\ left' = [t \in Tasks |-> IF left[t] > 0 THEN left[t] - 1 ELSE 0]
      /\ UNCHANGED <<wake, pending, suspended, yield, woken, current, state, value, at, wait>>
  BY DEF SysTick, noteVars, taskVars
<1>2. left' \in [Tasks -> Waits \cup 0 .. MaxDelay]
  <2> SUFFICES ASSUME NEW t \in Tasks
               PROVE  (IF left[t] > 0 THEN left[t] - 1 ELSE 0) \in 0 .. MaxDelay
    BY <1>1
  <2> QED
    BY LeftType
<1>3. CASE suspended
  <2>1. /\ pended < MaxPended /\ pended' = pended + 1
        /\ UNCHANGED <<tick, list, next, pendSV>>
    BY <1>3 DEF SysTick
  <2>2. pended' \in 0 .. MaxPended
    BY <2>1, KernelAssumption DEF TypeOK
  <2> QED
    BY <1>1, <1>2, <2>1, <2>2 DEF TypeOK
<1>4. CASE ~suspended
  <2>1. PICK k \in {Incremented(Kept(yield))} :
           Becomes(k) /\ pendSV' = (pendSV \/ k.switch) /\ UNCHANGED pended
    BY <1>4 DEF SysTick
  <2>2. k = Incremented(Kept(yield)) /\ tick' = k.tick /\ list' = k.list /\ next' = k.next
    BY <2>1 DEF Becomes
  <2>3. yield \in BOOLEAN
    BY DEF TypeOK
  <2>4. tick' \in TimeType /\ list' \in ListType /\ next' \in TimeType /\ k.switch \in BOOLEAN
    BY <2>2, <2>3, IncrementedFacts, Zenon
  <2>5. pendSV' \in BOOLEAN
    BY <2>1, <2>4 DEF TypeOK
  <2> QED
    BY <1>1, <1>2, <2>1, <2>4, <2>5 DEF TypeOK, TimeType, ListType
<1> QED
  BY <1>3, <1>4

LEMMA SuspendAllTypes ==
  ASSUME TypeOK, NEW t \in Tasks, SuspendAll(t)
  PROVE  TypeOK'
BY DEF SuspendAll, TypeOK, listVars, switchVars, noteVars, taskVars

LEMMA ResumeAllTypes ==
  ASSUME TypeOK, NEW t \in Tasks, ResumeAll(t)
  PROVE  TypeOK'
<1>1. /\ suspended' = FALSE
      /\ list' = [u \in Tasks |-> IF u \in pending THEN "ready" ELSE list[u]]
      /\ next' = IF pending = {} THEN next ELSE Earliest(list')
      /\ yield' = (yield \/ Above(pending, Priority[t] - 1)) /\ pending' = {}
      /\ UNCHANGED <<tick, wake, pended, woken, current, state, value, wait, left>>
  BY DEF ResumeAll, noteVars
<1>2. \/ at' = [at EXCEPT ![t] = "resume"] /\ UNCHANGED pendSV
      \/ pendSV' = yield' /\ UNCHANGED at
  BY DEF ResumeAll
<1>3. list' \in ListType /\ wake \in [Tasks -> TimeType]
  BY <1>1 DEF TypeOK, ListType, TimeType
<1>4. next' \in TimeType
  BY <1>1, <1>3, EarliestFacts DEF TypeOK, TimeType
<1>5. yield' \in BOOLEAN /\ pendSV' \in BOOLEAN
  BY <1>1, <1>2 DEF TypeOK, Above
<1>6. at' \in [Tasks -> {"run", "block", "take", "resume"}]
  BY <1>2 DEF TypeOK
<1> QED
  BY <1>1, <1>3, <1>4, <1>5, <1>6 DEF TypeOK, ListType, TimeType

LEMMA UnwindTypes ==
  ASSUME TypeOK, pended > 0, NEW t \in Tasks, Unwind(t)
  PROVE  TypeOK'
<1> DEFINE k == Incremented(Kept(yield))
<1>1. /\ tick' = k.tick /\ list' = k.list /\ next' = k.next
      /\ yield' = k.switch /\ pended' = pended - 1
      /\ UNCHANGED <<wake, pending, suspended, woken, current, state, value, wait, left>>
  BY DEF Unwind, Becomes, noteVars
<1>2. \/ UNCHANGED <<at, pendSV>>
      \/ at' = [at EXCEPT ![t] = "run"] /\ pendSV' = k.switch
  BY DEF Unwind
<1>3. yield \in BOOLEAN
  BY DEF TypeOK
<1>4. tick' \in TimeType /\ list' \in ListType /\ next' \in TimeType /\ yield' \in BOOLEAN
  BY <1>1, <1>3, IncrementedFacts, Zenon
<1>5. k.switch = yield'
  BY <1>1
<1> HIDE DEF k
<1>6. pended' \in 0 .. MaxPended
  BY <1>1, KernelAssumption DEF TypeOK
<1>7. pendSV' \in BOOLEAN /\ at' \in [Tasks -> {"run", "block", "take", "resume"}]
  BY <1>2, <1>4, <1>5 DEF TypeOK
<1> QED
  BY <1>1, <1>4, <1>6, <1>7 DEF TypeOK, ListType, TimeType

LEMMA SwitchContextTypes ==
  ASSUME TypeOK, SwitchContext
  PROVE  TypeOK'
<1>1. /\ pendSV' = FALSE /\ yield' = suspended
      /\ UNCHANGED <<listVars, pending, suspended, pended, woken, noteVars, taskVars, left>>
  BY DEF SwitchContext
<1>2. current' \in Tasks \cup {Idle}
  BY DEF SwitchContext, Ready, TypeOK
<1> QED
  BY <1>1, <1>2 DEF TypeOK, listVars, noteVars, taskVars

LEMMA StutterTypes ==
  ASSUME TypeOK, UNCHANGED vars
  PROVE  TypeOK'
BY DEF TypeOK, vars, listVars, switchVars, noteVars, taskVars

(***************************************************************************)
(* The steps.  Each keeps the types, and the named parts                   *)
(***************************************************************************)
LEMMA InitInv == Init => IInv
<1> SUFFICES ASSUME Init PROVE IInv
  OBVIOUS
<1>1. TypeOK
  BY InitTypes
<1>2. ~Above(Ready, Base)
  <2>1. current \in Tasks /\ ~Above(Tasks, Priority[current])
    BY DEF Init
  <2> QED
    BY <2>1, PriorityOfTask DEF Above, Ready, Base
<1> QED
  BY <1>1, <1>2 DEF Init, IInv, BlockInv, ResumeInv, SuspendInv, RunInv, TopInv, SleepInv,
     NoLostWakeUp

LEMMA CheckInv ==
  ASSUME IInv, NEW t \in Tasks, Check(t)
  PROVE  IInv'
<1>1. /\ current = t /\ ~pendSV /\ at[t] = "run" /\ ~suspended
      /\ UNCHANGED <<listVars, pending, suspended, pended, switchVars, noteVars, left>>
  BY DEF Check, Runs
<1>2. at' = [at EXCEPT ![t] = IF value[t] = None THEN "block" ELSE "take"]
  BY DEF Check
<1>3. TypeOK'
  BY CheckTypes DEF IInv
<1>4. Ready' = Ready /\ Base' = Base
  BY <1>1 DEF Ready, Base, PriorityOf, listVars, switchVars
<1>5. BlockInv' /\ ResumeInv' /\ SuspendInv'
  BY <1>1, <1>2, <1>4 DEF IInv, TypeOK, BlockInv, ResumeInv, SuspendInv, Above,
     listVars, switchVars, noteVars
<1>6. RunInv' /\ TopInv' /\ SleepInv' /\ NoLostWakeUp'
  BY <1>1, <1>2, <1>4 DEF IInv, TypeOK, RunInv, TopInv, SleepInv, NoLostWakeUp, Above,
     listVars, switchVars, noteVars
<1> QED
  BY <1>3, <1>5, <1>6 DEF IInv

LEMMA TakeInv ==
  ASSUME IInv, NEW t \in Tasks, Take(t)
  PROVE  IInv'
<1>1. /\ current = t /\ ~pendSV /\ at[t] = "take"
      /\ value' = [value EXCEPT ![t] = None]
      /\ state' = [state EXCEPT ![t] = "NOT_WAITING"]
      /\ at' = [at EXCEPT ![t] = "run"] /\ wait' = [wait EXCEPT ![t] = 0]
      /\ left' = [left EXCEPT ![t] = 0]
      /\ UNCHANGED <<listVars, pending, suspended, pended, switchVars>>
  BY DEF Take, Runs
<1>2. TypeOK'
  BY TakeTypes DEF IInv
<1>3. Ready' = Ready /\ Base' = Base
  BY <1>1 DEF Ready, Base, PriorityOf, listVars, switchVars
<1>4. list[t] = "ready"
  BY <1>1 DEF IInv, RunInv
<1>5. BlockInv' /\ ResumeInv' /\ SuspendInv'
  BY <1>1, <1>3 DEF IInv, TypeOK, BlockInv, ResumeInv, SuspendInv, Above, listVars, switchVars
<1>6. RunInv' /\ TopInv' /\ SleepInv' /\ NoLostWakeUp'
  BY <1>1, <1>3, <1>4 DEF IInv, TypeOK, RunInv, TopInv, SleepInv, NoLostWakeUp, Above,
     listVars, switchVars
<1> QED
  BY <1>2, <1>5, <1>6 DEF IInv

LEMMA BlockKeepsInv ==
  ASSUME IInv, NEW t \in Tasks, Block(t)
  PROVE  IInv'
<1> DEFINE time == Ticks(tick + wait[t])
<1>1. /\ current = t /\ at[t] = "block" /\ value[t] = None
      /\ state' = [state EXCEPT ![t] = "WAITING"]
      /\ left' = [left EXCEPT ![t] = wait[t]]
      /\ at' = [at EXCEPT ![t] = "take"] /\ wait' = [wait EXCEPT ![t] = 0]
      /\ UNCHANGED <<tick, pending, suspended, pended, yield, woken, current, value>>
  BY DEF Block, IInv, BlockInv
<1>2. \/ /\ wake' = [wake EXCEPT ![t] = time]
         /\ list' = [list EXCEPT ![t] = Delayed(time)]
         /\ next' = IF list'[t] = "delayed" /\ time < next THEN time ELSE next
         /\ pendSV' = TRUE
      \/ UNCHANGED <<list, wake, next, pendSV>>
  BY DEF Block
<1> HIDE DEF time
<1>3. TypeOK'
  BY BlockTypes DEF IInv
<1>4. ~suspended /\ (\A u \in Tasks : at'[u] # "resume" /\ at'[u] # "block")
  BY <1>1 DEF IInv, TypeOK, BlockInv, ResumeInv, SuspendInv
<1>5. BlockInv' /\ ResumeInv' /\ SuspendInv'
  BY <1>1, <1>4 DEF BlockInv, ResumeInv, SuspendInv
<1>6. RunInv' /\ TopInv'
  <2>1. CASE pendSV'
    BY <2>1 DEF RunInv, TopInv
  <2>2. CASE ~pendSV'
    <3>1. UNCHANGED <<list, pendSV>>
      BY <1>2, <2>2
    <3>2. Ready' = Ready /\ Base' = Base
      BY <1>1, <3>1 DEF Ready, Base, PriorityOf
    <3>3. \A u \in Tasks : at[u] # "resume"
      BY <1>1 DEF IInv, ResumeInv
    <3> QED
      BY <1>1, <2>2, <3>1, <3>2, <3>3 DEF IInv, RunInv, TopInv, Above
  <2> QED
    BY <2>1, <2>2 DEF IInv, TypeOK
<1>7. SleepInv' /\ NoLostWakeUp'
  BY <1>1, <1>2 DEF IInv, TypeOK, SleepInv, NoLostWakeUp
<1> QED
  BY <1>3, <1>5, <1>6, <1>7 DEF IInv

(***************************************************************************)
(* Notifications                                                           *)
(***************************************************************************)
\* A task that is notified was waiting and becomes ready or pending, or was
\* ready or pending already
LEMMA MarkFacts ==
  ASSUME IInv, NEW u \in Tasks, NEW v \in Values, NEW overwrite \in BOOLEAN,
         Mark(u, v, overwrite)
  PROVE  /\ state' \in [Tasks -> {"NOT_WAITING", "WAITING", "RECEIVED"}]
         /\ value' \in [Tasks -> Values \cup {None}]
         /\ state'[u] = "RECEIVED"
         /\ \A t \in Tasks \ {u} : state'[t] = state[t] /\ value'[t] = value[t]
         /\ state[u] # "WAITING" => list[u] = "ready" \/ u \in pending
  BY DEF IInv, TypeOK, SleepInv, Mark

LEMMA NotifyInv ==
  ASSUME IInv, NEW t \in Tasks, NEW u \in Tasks, NEW v \in Values,
         NEW overwrite \in BOOLEAN, Notify(t, u, v, overwrite)
  PROVE  IInv'
<1>1. /\ current = t /\ ~pendSV /\ at[t] = "run" /\ ~suspended /\ Mark(u, v, overwrite)
      /\ UNCHANGED <<tick, wake, next, pending, suspended, pended, yield, woken, current,
                     at, wait, left>>
  BY DEF Notify, Runs, taskVars
<1>2. \/ /\ state[u] = "WAITING" /\ list' = [list EXCEPT ![u] = "ready"]
         /\ pendSV' = (Priority[u] > Priority[t])
      \/ state[u] # "WAITING" /\ UNCHANGED <<list, pendSV>>
  BY DEF Notify, MakeReady, Preempts
<1>3. TypeOK'
  BY NotifyTypes DEF IInv
<1>4. \A s \in Tasks : at[s] # "block" /\ at[s] # "resume"
  BY <1>1 DEF IInv, BlockInv, ResumeInv
<1>5. BlockInv' /\ ResumeInv' /\ SuspendInv'
  BY <1>1, <1>4 DEF BlockInv, ResumeInv, SuspendInv
<1>6. list[t] = "ready" /\ ~Above(Ready, Base) /\ Base = Priority[t] /\ Base' = Base
  BY <1>1, <1>4, PriorityOfTask DEF IInv, RunInv, TopInv, Base, PriorityOf
<1>7. RunInv'
  BY <1>1, <1>2, <1>6 DEF IInv, TypeOK, RunInv
<1>8. TopInv'
  <2> SUFFICES ASSUME ~pendSV', Above(Ready', Base) PROVE FALSE
    BY <1>6 DEF TopInv, Above
  <2>1. PICK s \in Ready' : Priority[s] > Base
    BY DEF Above
  <2>2. s \in Ready
    BY <1>2, <1>6, <2>1 DEF Ready, IInv, TypeOK
  <2> QED
    BY <1>6, <2>1, <2>2 DEF Above
<1>9. SleepInv' /\ NoLostWakeUp'
  BY <1>1, <1>2, MarkFacts DEF IInv, TypeOK, SleepInv, NoLostWakeUp
<1> QED
  BY <1>3, <1>5, <1>7, <1>8, <1>9 DEF IInv

LEMMA NotifyFromISRInv ==
  ASSUME IInv, Masked, NEW u \in Tasks, NEW v \in Values,
         NEW overwrite \in BOOLEAN, NotifyFromISR(u, v, overwrite)
  PROVE  IInv'
<1> DEFINE higher == state[u] = "WAITING" /\ Priority[u] > Base
<1>1. /\ Mark(u, v, overwrite)
      /\ yield' = (yield \/ higher) /\ woken' = (woken \/ higher)
      /\ pendSV' = (pendSV \/ woken')
      /\ UNCHANGED <<tick, wake, next, suspended, pended, current, at, wait, left>>
  BY DEF NotifyFromISR, Preempts, Base, taskVars
<1>2. \/ state[u] # "WAITING" /\ UNCHANGED <<list, pending>>
      \/ /\ state[u] = "WAITING" /\ suspended
         /\ pending' = pending \cup {u} /\ UNCHANGED list
      \/ /\ state[u] = "WAITING" /\ ~suspended
         /\ list' = [list EXCEPT ![u] = "ready"] /\ UNCHANGED pending
  BY DEF NotifyFromISR, MakeReady
<1>3. \A s \in Tasks : at[s] # "block" /\ at[s] # "resume"
  BY DEF NotifyFromISR, Critical
<1>4. /\ list' \in ListType /\ pending' \subseteq Tasks
      /\ \A s \in Tasks : list[s] = "ready" => list'[s] = "ready"
      /\ pending \subseteq pending'
  BY <1>2 DEF IInv, TypeOK, ListType
<1>5. higher \in BOOLEAN /\ (higher => pendSV') /\ (pendSV => pendSV')
      /\ yield' \in BOOLEAN /\ woken' \in BOOLEAN /\ pendSV' \in BOOLEAN
  BY <1>1 DEF IInv, TypeOK
<1>6. TypeOK'
  BY NotifyFromISRTypes DEF IInv
<1>7. Base' = Base /\ (suspended => Ready' = Ready)
  BY <1>1, <1>2 DEF Base, PriorityOf, Ready
<1>8. BlockInv' /\ ResumeInv'
  BY <1>1, <1>3 DEF BlockInv, ResumeInv
<1>9. SuspendInv' /\ RunInv'
  BY <1>1, <1>4, <1>5, <1>7 DEF IInv, SuspendInv, RunInv, Above
<1>10. TopInv'
  <2> SUFFICES ASSUME ~suspended, ~pendSV', Above(Ready', Base) PROVE FALSE
    BY <1>1, <1>7 DEF TopInv, Above
  <2>1. PICK s \in Ready' : Priority[s] > Base
    BY DEF Above
  <2>2. ~pendSV /\ ~higher
    BY <1>5
  <2>3. s \in Ready
    BY <1>2, <2>1, <2>2 DEF Ready, IInv, TypeOK
  <2> QED
    BY <1>3, <2>1, <2>2, <2>3 DEF Above, IInv, TopInv
<1>11. SleepInv' /\ NoLostWakeUp'
  BY <1>1, <1>2, MarkFacts DEF IInv, TypeOK, SleepInv, NoLostWakeUp
<1> QED
  BY <1>6, <1>8, <1>9, <1>10, <1>11 DEF IInv

(***************************************************************************)
(* The tick                                                                *)
(***************************************************************************)
LEMMA SysTickInv ==
  ASSUME IInv, SysTick
  PROVE  IInv'
<1>1. /\ \A s \in Tasks : at[s] # "block" /\ at[s] # "resume"
      /\ left' = [t \in Tasks |-> IF left[t] > 0 THEN left[t] - 1 ELSE 0]
      /\ UNCHANGED <<wake, pending, suspended, yield, woken, current, state, value, at, wait>>
  BY DEF SysTick, Critical, noteVars, taskVars
<1>2. TypeOK'
  BY SysTickTypes DEF IInv
<1>3. BlockInv' /\ ResumeInv'
  BY <1>1 DEF BlockInv, ResumeInv
<1>4. CASE suspended
  <2>1. /\ pended < MaxPended /\ pended' = pended + 1
        /\ UNCHANGED <<tick, list, next, pendSV>>
    BY <1>4 DEF SysTick
  <2>4. Ready' = Ready /\ Base' = Base
    BY <1>1, <2>1 DEF Ready, Base, PriorityOf
  <2>5. SuspendInv' /\ RunInv' /\ TopInv' /\ SleepInv' /\ NoLostWakeUp'
    BY <1>1, <2>1, <2>4
       DEF IInv, SuspendInv, RunInv, TopInv, SleepInv, NoLostWakeUp, Above
  <2> QED
    BY <1>2, <1>3, <2>5 DEF IInv
<1>5. CASE ~suspended
  <2>1. PICK k \in {Incremented(Kept(yield))} :
           Becomes(k) /\ pendSV' = (pendSV \/ k.switch) /\ UNCHANGED pended
    BY <1>5 DEF SysTick
  <2>2. k = Incremented(Kept(yield)) /\ tick' = k.tick /\ list' = k.list /\ next' = k.next
    BY <2>1 DEF Becomes
  <2>3. yield \in BOOLEAN /\ TypeOK
    BY DEF IInv, TypeOK
  <2>4. /\ tick' \in TimeType /\ list' \in ListType /\ next' \in TimeType
        /\ k.switch \in BOOLEAN
        /\ \A t \in Tasks : list[t] = "ready" => list'[t] = "ready"
        /\ \A t \in Tasks : list'[t] = "ready" /\ list[t] # "ready" /\ Priority[t] > Base
                            => k.switch
    BY <2>2, <2>3, IncrementedFacts, Zenon
  <2>5. pendSV' \in BOOLEAN /\ (pendSV => pendSV') /\ (k.switch => pendSV')
    BY <2>1, <2>3, <2>4 DEF TypeOK
  <2>7. SuspendInv' /\ RunInv' /\ SleepInv' /\ NoLostWakeUp'
    BY <1>1, <1>5, <2>4, <2>5 DEF IInv, SuspendInv, RunInv, SleepInv, NoLostWakeUp
  <2>8. Base' = Base
    BY <1>1 DEF Base, PriorityOf
  <2>9. TopInv'
    <3> SUFFICES ASSUME ~pendSV', Above(Ready', Base) PROVE FALSE
      BY <2>8 DEF TopInv, Above
    <3>1. PICK s \in Ready' : Priority[s] > Base
      BY DEF Above
    <3>2. s \in Ready
      BY <2>4, <2>5, <3>1 DEF Ready
    <3> QED
      BY <1>1, <1>5, <2>5, <3>1, <3>2 DEF Above, IInv, TopInv
  <2> QED
    BY <1>2, <1>3, <2>7, <2>9 DEF IInv
<1> QED
  BY <1>4, <1>5

(***************************************************************************)
(* The suspended scheduler, and the switch                                 *)
(***************************************************************************)
LEMMA SuspendAllInv ==
  ASSUME IInv, NEW t \in Tasks, SuspendAll(t)
  PROVE  IInv'
<1>1. /\ current = t /\ ~pendSV /\ at[t] = "run" /\ ~suspended /\ suspended' = TRUE
      /\ UNCHANGED <<listVars, pending, pended, switchVars, noteVars, taskVars, left>>
  BY DEF SuspendAll, Runs
<1>2. TypeOK'
  BY SuspendAllTypes DEF IInv
<1>3. Ready' = Ready /\ Base' = Base
  BY <1>1 DEF Ready, Base, PriorityOf, listVars, switchVars
<1>4. \A s \in Tasks : at[s] # "block" /\ at[s] # "resume"
  BY <1>1 DEF IInv, BlockInv, ResumeInv
<1>5. list[t] = "ready" /\ ~Above(Ready, Base)
  BY <1>1, <1>4 DEF IInv, RunInv, TopInv
<1>6. BlockInv' /\ ResumeInv' /\ SuspendInv'
  BY <1>1, <1>3, <1>4, <1>5 DEF BlockInv, ResumeInv, SuspendInv, Above,
     listVars, switchVars, taskVars
<1>7. RunInv' /\ TopInv' /\ SleepInv' /\ NoLostWakeUp'
  BY <1>1, <1>5 DEF IInv, RunInv, TopInv, SleepInv, NoLostWakeUp, listVars, switchVars, noteVars
<1> QED
  BY <1>2, <1>6, <1>7 DEF IInv

LEMMA ResumeAllInv ==
  ASSUME IInv, NEW t \in Tasks, ResumeAll(t)
  PROVE  IInv'
<1>1. /\ current = t /\ ~pendSV /\ at[t] = "run" /\ suspended /\ suspended' = FALSE
      /\ list' = [u \in Tasks |-> IF u \in pending THEN "ready" ELSE list[u]]
      /\ next' = IF pending = {} THEN next ELSE Earliest(list')
      /\ yield' = (yield \/ Above(pending, Priority[t] - 1)) /\ pending' = {}
      /\ UNCHANGED <<tick, wake, pended, woken, current, state, value, wait, left>>
  BY DEF ResumeAll, Runs, noteVars
<1>2. \/ pended > 0 /\ at' = [at EXCEPT ![t] = "resume"] /\ UNCHANGED pendSV
      \/ ~(pended > 0) /\ pendSV' = yield' /\ UNCHANGED at
  BY DEF ResumeAll
<1>3. /\ list' \in ListType /\ wake \in [Tasks -> TimeType]
      /\ \A s \in Tasks : list'[s] = "ready" <=> list[s] = "ready" \/ s \in pending
  BY <1>1 DEF IInv, TypeOK, ListType, TimeType
<1>4. TypeOK'
  BY ResumeAllTypes DEF IInv
<1>5. Base' = Base /\ Base = Priority[t] /\ Base \in Nat
  BY <1>1, PriorityOfTask DEF Base, PriorityOf
<1>6. Above(Ready', Base) => yield'
  <2> SUFFICES ASSUME Above(Ready', Base) PROVE Above(pending, Priority[t] - 1)
    BY <1>1
  <2>1. PICK s \in Ready' : Priority[s] > Base
    BY DEF Above
  <2>2. s \in Tasks /\ (list[s] = "ready" \/ s \in pending)
    BY <1>3, <2>1 DEF Ready
  <2>3. s \in pending
    BY <1>1, <2>1, <2>2 DEF IInv, SuspendInv, Above, Ready
  <2>4. Priority[s] > Priority[t] - 1
    BY <1>5, <2>1, <2>2, PriorityOfTask
  <2> QED
    BY <2>3, <2>4 DEF Above
<1>7. \A s \in Tasks : at[s] # "block" /\ at[s] # "resume"
  BY <1>1 DEF IInv, BlockInv, ResumeInv
<1>8. list'[t] = "ready"
  BY <1>1, <1>3 DEF IInv, SuspendInv
<1>9. BlockInv' /\ SuspendInv'
  BY <1>1, <1>2, <1>7 DEF IInv, TypeOK, BlockInv, SuspendInv
<1>10. ResumeInv'
  <2> SUFFICES ASSUME NEW s \in Tasks, at'[s] = "resume"
               PROVE  /\ current' = s /\ list'[s] = "ready" /\ ~suspended' /\ pended' > 0
                      /\ Above(Ready', Base') => yield'
    BY DEF ResumeInv, Above
  <2>1. s = t /\ pended > 0
    BY <1>2, <1>7 DEF IInv, TypeOK
  <2> QED
    BY <1>1, <1>5, <1>6, <1>8, <2>1
<1>11. RunInv'
  BY <1>1, <1>8 DEF RunInv
<1>12. TopInv'
  <2> SUFFICES ASSUME ~pendSV', \A s \in Tasks : at'[s] # "resume" PROVE ~Above(Ready', Base)
    BY <1>5 DEF TopInv, Above
  <2>1. at[t] = "run" /\ at \in [Tasks -> {"run", "block", "take", "resume"}]
    BY <1>1 DEF IInv, TypeOK
  <2>2. pendSV' = yield'
    BY <1>2, <2>1
  <2> QED
    BY <1>6, <2>2
<1>13. SleepInv' /\ NoLostWakeUp'
  BY <1>1, <1>3 DEF IInv, SleepInv, NoLostWakeUp
<1> QED
  BY <1>4, <1>9, <1>10, <1>11, <1>12, <1>13 DEF IInv

LEMMA UnwindInv ==
  ASSUME IInv, NEW t \in Tasks, Unwind(t)
  PROVE  IInv'
<1> DEFINE k == Incremented(Kept(yield))
<1>1. /\ current = t /\ at[t] = "resume"
      /\ tick' = k.tick /\ list' = k.list /\ next' = k.next
      /\ yield' = k.switch /\ pended' = pended - 1
      /\ UNCHANGED <<wake, pending, suspended, woken, current, state, value, wait, left>>
  BY DEF Unwind, Becomes, noteVars
<1>2. \/ pended > 1 /\ UNCHANGED <<at, pendSV>>
      \/ ~(pended > 1) /\ at' = [at EXCEPT ![t] = "run"] /\ pendSV' = k.switch
  BY DEF Unwind
<1>3. yield \in BOOLEAN /\ TypeOK
  BY DEF IInv, TypeOK
<1>4. /\ tick' \in TimeType /\ list' \in ListType /\ next' \in TimeType
      /\ yield' \in BOOLEAN /\ (yield => yield')
      /\ \A s \in Tasks : list[s] = "ready" => list'[s] = "ready"
      /\ \A s \in Tasks : list'[s] = "ready" /\ list[s] # "ready" /\ Priority[s] > Base
                          => yield'
  BY <1>1, <1>3, IncrementedFacts, Zenon
<1>5. k.switch = yield'
  BY <1>1
<1> HIDE DEF k
<1>6. ~suspended /\ pended > 0 /\ list[t] = "ready" /\ (Above(Ready, Base) => yield)
  BY <1>1 DEF IInv, ResumeInv
<1>7. pended > 1 => pended' > 0
  BY <1>1, <1>6, KernelAssumption DEF IInv, TypeOK
<1>8. TypeOK'
  BY <1>6, UnwindTypes DEF IInv
<1>9. Base' = Base
  BY <1>1 DEF Base, PriorityOf
<1>10. Above(Ready', Base) => yield'
  <2> SUFFICES ASSUME Above(Ready', Base) PROVE yield'
    OBVIOUS
  <2>1. PICK s \in Ready' : Priority[s] > Base
    BY DEF Above
  <2>2. CASE list[s] = "ready"
    BY <1>4, <1>6, <2>1, <2>2 DEF Above, Ready
  <2>3. CASE list[s] # "ready"
    BY <1>4, <2>1, <2>3 DEF Ready
  <2> QED
    BY <2>2, <2>3
<1>11. \A s \in Tasks : at[s] # "block" /\ (at[s] = "resume" => s = t)
  BY <1>1 DEF IInv, BlockInv, ResumeInv
<1>12. BlockInv' /\ SuspendInv' /\ RunInv'
  BY <1>1, <1>2, <1>4, <1>6, <1>11 DEF IInv, TypeOK, BlockInv, SuspendInv, RunInv
<1>13. ResumeInv'
  <2> SUFFICES ASSUME NEW s \in Tasks, at'[s] = "resume"
               PROVE  /\ current' = s /\ list'[s] = "ready" /\ ~suspended' /\ pended' > 0
                      /\ Above(Ready', Base') => yield'
    BY DEF ResumeInv, Above
  <2>1. s = t /\ pended > 1
    BY <1>2, <1>11 DEF IInv, TypeOK
  <2> QED
    BY <1>1, <1>4, <1>6, <1>7, <1>9, <1>10, <2>1
<1>14. TopInv'
  <2> SUFFICES ASSUME ~pendSV', \A s \in Tasks : at'[s] # "resume" PROVE ~Above(Ready', Base)
    BY <1>9 DEF TopInv, Above
  <2>1. pendSV' = yield'
    BY <1>1, <1>2, <1>5
  <2> QED
    BY <1>10, <2>1
<1>15. SleepInv' /\ NoLostWakeUp'
  BY <1>1, <1>4 DEF IInv, SleepInv, NoLostWakeUp
<1> QED
  BY <1>8, <1>12, <1>13, <1>14, <1>15 DEF IInv

LEMMA SwitchContextInv ==
  ASSUME IInv, SwitchContext
  PROVE  IInv'
<1>1. /\ pendSV' = FALSE /\ yield' = suspended
      /\ \A s \in Tasks : at[s] # "block" /\ at[s] # "resume"
      /\ UNCHANGED <<listVars, pending, suspended, pended, woken, noteVars, taskVars, left>>
  BY DEF SwitchContext, Critical
<1>2. BlockInv' /\ ResumeInv' /\ SleepInv' /\ NoLostWakeUp' /\ Ready' = Ready
  BY <1>1 DEF IInv, BlockInv, ResumeInv, SleepInv, NoLostWakeUp, Ready,
     listVars, noteVars, taskVars
<1>3. TypeOK'
  BY SwitchContextTypes DEF IInv
<1>4. CASE suspended
  <2>1. current' = current /\ Base' = Base
    BY <1>4 DEF SwitchContext, Base, PriorityOf
  <2>2. SuspendInv' /\ RunInv' /\ TopInv'
    BY <1>1, <1>2, <1>4, <2>1 DEF IInv, TypeOK, SuspendInv, RunInv, TopInv, Above,
       listVars, taskVars
  <2> QED
    BY <1>2, <1>3, <2>2 DEF IInv
<1>5. CASE ~suspended
  <2>1. CASE Ready = {}
    <3>1. current' = Idle
      BY <1>5, <2>1 DEF SwitchContext
    <3>2. SuspendInv' /\ RunInv' /\ TopInv'
      BY <1>1, <1>2, <1>5, <2>1, <3>1, KernelAssumption DEF SuspendInv, RunInv, TopInv, Above
    <3> QED
      BY <1>2, <1>3, <3>2 DEF IInv
  <2>2. CASE Ready # {}
    <3>1. current' \in Ready /\ ~Above(Ready, Priority[current'])
      BY <1>5, <2>2 DEF SwitchContext
    <3>2. current' \in Tasks /\ list'[current'] = "ready" /\ Base' = Priority[current']
      BY <1>1, <3>1, PriorityOfTask DEF Ready, Base, PriorityOf, listVars
    <3>3. SuspendInv' /\ RunInv' /\ TopInv'
      BY <1>1, <1>2, <1>5, <3>1, <3>2 DEF SuspendInv, RunInv, TopInv, Above
    <3> QED
      BY <1>2, <1>3, <3>3 DEF IInv
  <2> QED
    BY <2>1, <2>2
<1> QED
  BY <1>4, <1>5

(***************************************************************************)
(* Time.  How far a task's time is ahead is counted on the list it is in:  *)
(* in the overflow list it comes after the tick count has wrapped.         *)
(***************************************************************************)
DistTo(l, time, now) == IF l = "delayed" THEN time - now ELSE time - now + Modulus

\* A task in a critical section runs and is ready; so is one that has suspended
\* the scheduler; ticks are made up for only if some have passed
OwnInv ==
    /\ \A t \in Tasks : at[t] \in {"block", "resume"} =>
            current = t /\ list[t] = "ready" /\ ~suspended
    /\ suspended => current \in Tasks /\ at[current] = "run" /\ list[current] = "ready"
    /\ current \in Tasks /\ ~pendSV => list[current] = "ready"

\* Ticks and tasks are put off only while the scheduler is suspended, ticks
\* until they are made up for, too
PendInv ==
    /\ pended > 0 => suspended \/ \E t \in Tasks : at[t] = "resume"
    /\ \A t \in Tasks : at[t] = "resume" => pended > 0
    /\ pending # {} => suspended

\* A task that is not ready has a time ahead of the tick count on its own list:
\* as far as the ticks put off and its timeout together, or no farther than the
\* ticks put off when the timeout has passed.
TimeInv ==
    \A t \in Tasks : list[t] # "ready" =>
        /\ DistTo(list[t], wake[t], tick) \in 1 .. Modulus - 1
        /\ left[t] > 0 => DistTo(list[t], wake[t], tick) = pended + left[t]
        /\ left[t] = 0 => DistTo(list[t], wake[t], tick) =< pended
        /\ list[t] = "delayed" => next =< wake[t]

TInv == TypeOK /\ OwnInv /\ PendInv /\ TimeInv

LEMMA ModSmall ==
  ASSUME NEW M \in Nat \ {0}, NEW n \in 0 .. M - 1
  PROVE  n % M = n
OBVIOUS

LEMMA ModOver ==
  ASSUME NEW M \in Nat \ {0}, NEW n \in M .. 2 * M - 1
  PROVE  n % M = n - M
OBVIOUS

LEMMA Typed ==
  ASSUME TypeOK
  PROVE  /\ Modulus \in Nat \ {0, 1} /\ tick \in TimeType /\ next \in TimeType
         /\ pended \in Nat /\ wake \in [Tasks -> TimeType] /\ list \in ListType
         /\ \A t \in Tasks : left[t] \in 0 .. Modulus - 1
BY KernelAssumption, LeftType DEF TypeOK, TimeType, ListType, MaxDelay

\* A tick takes one from every distance and wakes the tasks that were one ahead
LEMMA IncrementedTimes ==
  ASSUME TypeOK, TimeInv, NEW s \in BOOLEAN, NEW k, k = Incremented(Kept(s)),
         NEW t \in Tasks, list[t] # "ready"
  PROVE  /\ DistTo(list[t], wake[t], tick) = 1 => k.list[t] = "ready"
         /\ DistTo(list[t], wake[t], tick) > 1 =>
              /\ k.list[t] # "ready"
              /\ DistTo(k.list[t], wake[t], k.tick) = DistTo(list[t], wake[t], tick) - 1
              /\ k.list[t] = "delayed" => k.next =< wake[t]
<1> DEFINE k0 == Kept(s)
           now == Ticks(k0.tick + 1)
           m == IF now = 0 THEN Switched(k0) ELSE k0
           due == IF now >= m.next THEN {u \in DelayedIn(m.list) : Due(wake[u], now)} ELSE {}
           l == [u \in Tasks |-> IF u \in due THEN "ready" ELSE m.list[u]]
           d == DistTo(list[t], wake[t], tick)
<1>1. /\ k.tick = now /\ k.list = l
      /\ k.next = IF now >= m.next THEN Earliest(l) ELSE m.next
  BY DEF Incremented
<1>2. k0.tick = tick /\ k0.list = list /\ k0.next = next
  BY DEF Kept
<1>3. /\ tick \in TimeType /\ next \in TimeType /\ wake \in [Tasks -> TimeType]
      /\ list \in ListType /\ Modulus \in Nat \ {0, 1} /\ wake[t] \in TimeType
  BY Typed
<1>4. /\ d \in 1 .. Modulus - 1 /\ (list[t] = "delayed" => next =< wake[t])
      /\ list[t] \in {"delayed", "overflow"}
  BY <1>3 DEF TimeInv, ListType
<1>5. now = IF tick = Modulus - 1 THEN 0 ELSE tick + 1
  <2>1. CASE tick = Modulus - 1
    BY <1>2, <1>3, <2>1, ModOver DEF Ticks
  <2>2. CASE tick # Modulus - 1
    <3>1. tick + 1 \in 0 .. Modulus - 1
      BY <1>3, <2>2 DEF TimeType
    <3> QED
      BY <1>2, <1>3, <2>2, <3>1, ModSmall DEF Ticks
  <2> QED
    BY <2>1, <2>2
<1>6. now \in TimeType
  BY <1>3, <1>5 DEF TimeType
\* The lists after they were switched, if the tick count has wrapped
<1>7. /\ m.list \in ListType /\ m.next \in TimeType
      /\ m.list[t] \in {"delayed", "overflow"}
      /\ DistTo(m.list[t], wake[t], now) = d - 1
      /\ m.list[t] = "delayed" => m.next =< wake[t]
      /\ m.list[t] = "overflow" => d > 1
  <2>1. CASE now = 0
    <3> DEFINE n == [u \in Tasks |-> IF k0.list[u] = "overflow" THEN "delayed"
                                     ELSE IF k0.list[u] = "delayed" THEN "overflow" ELSE "ready"]
    <3>1. m.list = n /\ m.next = Earliest(n)
      BY <2>1 DEF Switched, Kept
    <3>2. n \in ListType
      BY <1>2, <1>3 DEF ListType
    <3>3. tick = Modulus - 1
      BY <1>3, <1>5, <2>1 DEF TimeType
    <3>4. list[t] = "overflow" /\ d = wake[t] + 1
      BY <1>3, <1>4, <3>3 DEF DistTo, TimeType
    <3>5. n[t] = "delayed"
      BY <1>2, <3>4
    <3>6. t \in DelayedIn(n)
      BY <3>5 DEF DelayedIn
    <3>7. Earliest(n) \in TimeType /\ Earliest(n) =< wake[t]
      BY <1>3, <3>2, <3>6, EarliestFacts
    <3> HIDE DEF n
    <3> QED
      BY <1>3, <2>1, <3>1, <3>2, <3>4, <3>5, <3>7 DEF DistTo, TimeType
  <2>2. CASE now # 0
    <3>1. m.list = list /\ m.next = next /\ now = tick + 1
      BY <1>2, <1>5, <2>2
    <3> HIDE DEF m, now
    <3>2. DistTo(m.list[t], wake[t], now) = d - 1
      BY <1>3, <1>4, <3>1 DEF DistTo, TimeType
    <3>3. list[t] = "overflow" => d > 1
      BY <1>3, <1>6, <3>1 DEF DistTo, TimeType
    <3> QED
      BY <1>3, <1>4, <3>1, <3>2, <3>3
  <2> QED
    BY <2>1, <2>2
<1> HIDE DEF m, now, k0
<1>8. l \in ListType
  BY <1>7 DEF ListType
<1>9. CASE d = 1
  <2>1. m.list[t] = "delayed" /\ wake[t] = now /\ now >= m.next
    <3>1. m.list[t] = "delayed"
      BY <1>7, <1>9
    <3>2. wake[t] - now = 0
      BY <1>7, <1>9, <3>1 DEF DistTo
    <3>3. wake[t] \in Nat /\ now \in Nat /\ m.next \in Nat
      BY <1>3, <1>6, <1>7 DEF TimeType
    <3>4. wake[t] = now
      BY <3>2, <3>3
    <3> QED
      BY <1>7, <3>1, <3>3, <3>4
  <2>2. t \in due
    BY <1>6, <2>1 DEF DelayedIn, Due, TimeType
  <2> QED
    BY <1>1, <1>9, <2>2
<1>10. CASE d > 1
  <2>1. t \notin due
    <3>1. m.list[t] = "delayed" => wake[t] > now
      BY <1>3, <1>6, <1>7, <1>10 DEF DistTo, TimeType
    <3> QED
      BY <1>3, <1>6, <3>1 DEF DelayedIn, Due, TimeType
  <2>2. l[t] = m.list[t]
    BY <2>1
  <2>3. l[t] = "delayed" => Earliest(l) =< wake[t]
    BY <1>3, <1>8, EarliestFacts DEF DelayedIn
  <2> HIDE DEF l, due
  <2> QED
    BY <1>1, <1>7, <1>10, <2>2, <2>3
<1> QED
  BY <1>4, <1>9, <1>10

LEMMA InitTime == Init => TInv
<1> SUFFICES ASSUME Init PROVE TInv
  OBVIOUS
<1>1. OwnInv /\ TimeInv
  BY DEF Init, OwnInv, TimeInv
<1>2. PendInv
  BY DEF Init, PendInv
<1> QED
  BY <1>1, <1>2, InitTypes DEF TInv

\* Nothing sleeps sooner or later if the lists, the times and the ticks stay
LEMMA SameTime ==
  ASSUME TimeInv, UNCHANGED <<tick, wake, next, pended>>,
         \A t \in Tasks : list'[t] # "ready" => list'[t] = list[t] /\ left'[t] = left[t]
  PROVE  TimeInv'
BY DEF TimeInv, DistTo

LEMMA CallTime ==
  ASSUME TInv, NEW t \in Tasks, Check(t) \/ Take(t) \/ SuspendAll(t)
  PROVE  TInv'
<1>1. /\ current = t /\ ~pendSV /\ at[t] \in {"run", "take"} /\ list[t] = "ready"
      /\ UNCHANGED <<listVars, pending, pended, switchVars>>
      /\ at' = at \/ at' = [at EXCEPT ![t] = "run"]
         \/ (~suspended /\ at[t] = "run"
             /\ at' = [at EXCEPT ![t] = IF value[t] = None THEN "block" ELSE "take"])
  BY DEF Check, Take, SuspendAll, Runs, TInv, OwnInv, taskVars
<1>2. TypeOK'
  BY CheckTypes, TakeTypes, SuspendAllTypes DEF TInv
<1>3. \A u \in Tasks : at[u] # "block" /\ at[u] # "resume"
  BY <1>1 DEF TInv, OwnInv
<1>4. \A u \in Tasks : at'[u] = "block" => u = t /\ ~suspended /\ at[t] = "run"
  BY <1>1, <1>3 DEF TInv, TypeOK
<1>5. \A u \in Tasks : at'[u] # "resume"
  BY <1>1, <1>3 DEF TInv, TypeOK
<1>6. \/ suspended' = suspended
      \/ suspended' /\ at' = at /\ at[t] = "run"
  BY DEF Check, Take, SuspendAll, Runs, taskVars
<1>7. OwnInv'
  <2>1. suspended' => at'[t] = "run"
    BY <1>1, <1>6 DEF TInv, TypeOK, OwnInv
  <2>2. \A u \in Tasks : at'[u] = "block" => ~suspended'
    BY <1>3, <1>4, <1>6
  <2> QED
    BY <1>1, <1>4, <1>5, <2>1, <2>2 DEF OwnInv, listVars, switchVars
<1>8. PendInv'
  BY <1>1, <1>3, <1>5, <1>6 DEF TInv, PendInv, TypeOK
<1>9. \A u \in Tasks : list'[u] # "ready" => list'[u] = list[u] /\ left'[u] = left[u]
  BY <1>1 DEF Check, Take, SuspendAll, TInv, TypeOK, listVars
<1>10. TimeInv'
  BY <1>1, <1>9, SameTime DEF TInv, listVars
<1> QED
  BY <1>2, <1>7, <1>8, <1>10 DEF TInv

LEMMA BlockTime ==
  ASSUME TInv, NEW t \in Tasks, Block(t)
  PROVE  TInv'
<1> DEFINE time == Ticks(tick + wait[t])
<1>1. /\ current = t /\ at[t] = "block" /\ ~suspended /\ list[t] = "ready"
      /\ left' = [left EXCEPT ![t] = wait[t]]
      /\ at' = [at EXCEPT ![t] = "take"]
      /\ UNCHANGED <<tick, pending, suspended, pended, current>>
  BY DEF Block, TInv, OwnInv
<1>2. \/ /\ wait[t] > 0
         /\ wake' = [wake EXCEPT ![t] = time]
         /\ list' = [list EXCEPT ![t] = Delayed(time)]
         /\ next' = IF list'[t] = "delayed" /\ time < next THEN time ELSE next
         /\ pendSV' = TRUE
      \/ UNCHANGED <<list, wake, next, pendSV>>
  BY DEF Block
<1>3. TypeOK'
  BY BlockTypes DEF TInv
<1>4. /\ Modulus \in Nat \ {0, 1} /\ tick \in TimeType /\ next \in TimeType
      /\ wake \in [Tasks -> TimeType] /\ list \in ListType
      /\ \A u \in Tasks : left[u] \in 0 .. Modulus - 1
  BY Typed DEF TInv
<1>5. wait[t] \in 0 .. Modulus - 2
  <2>1. wait[t] \in Waits \cup {0}
    BY DEF TInv, TypeOK
  <2>2. Waits \subseteq 0 .. Modulus - 2 /\ 0 \in 0 .. Modulus - 2
    BY KernelAssumption
  <2> QED
    BY <2>1, <2>2
<1>6. /\ time = IF tick + wait[t] < Modulus THEN tick + wait[t] ELSE tick + wait[t] - Modulus
      /\ time \in TimeType
  <2>1. CASE tick + wait[t] < Modulus
    <3>1. tick + wait[t] \in 0 .. Modulus - 1
      BY <1>4, <1>5, <2>1 DEF TimeType
    <3> QED
      BY <1>4, <2>1, <3>1, ModSmall DEF Ticks, TimeType
  <2>2. CASE ~(tick + wait[t] < Modulus)
    <3>1. tick + wait[t] \in Modulus .. 2 * Modulus - 1
      BY <1>4, <1>5, <2>2 DEF TimeType
    <3>2. PICK n : n = tick + wait[t]
      OBVIOUS
    <3>3. time = tick + wait[t] - Modulus
      <4>1. Modulus \in Nat \ {0} /\ n \in Modulus .. 2 * Modulus - 1
        BY <1>4, <3>1, <3>2
      <4>2. n % Modulus = n - Modulus
        BY <4>1, ModOver
      <4>3. time = n % Modulus
        BY <3>2 DEF Ticks
      <4>4. n - Modulus = tick + wait[t] - Modulus
        BY <1>4, <1>5, <3>1, <3>2, <4>1 DEF TimeType
      <4> HIDE DEF time
      <4> QED
        BY <4>2, <4>3, <4>4
    <3> HIDE DEF time
    <3> QED
      BY <1>4, <1>5, <2>2, <3>1, <3>3 DEF TimeType
  <2> QED
    BY <2>1, <2>2
<1> HIDE DEF time
<1>7. \A u \in Tasks : at[u] # "resume" /\ at'[u] # "resume" /\ at'[u] # "block"
  BY <1>1 DEF TInv, TypeOK, OwnInv
<1>8. pended = 0
  BY <1>1, <1>4, <1>7, Typed DEF TInv, PendInv
<1>9. OwnInv'
  BY <1>1, <1>2, <1>7 DEF OwnInv
<1>10. PendInv'
  BY <1>1, <1>7, <1>8 DEF TInv, PendInv
<1>11. TimeInv'
  <2>1. CASE UNCHANGED <<list, wake, next, pendSV>>
    BY <1>1, <2>1, SameTime DEF TInv, TypeOK
  <2>2. CASE /\ wait[t] > 0
             /\ wake' = [wake EXCEPT ![t] = time]
             /\ list' = [list EXCEPT ![t] = Delayed(time)]
             /\ next' = IF list'[t] = "delayed" /\ time < next THEN time ELSE next
    <3> SUFFICES ASSUME NEW u \in Tasks, list'[u] # "ready"
                 PROVE  /\ DistTo(list'[u], wake'[u], tick) \in 1 .. Modulus - 1
                        /\ left'[u] > 0 => DistTo(list'[u], wake'[u], tick) = pended + left'[u]
                        /\ left'[u] = 0 => DistTo(list'[u], wake'[u], tick) =< pended
                        /\ list'[u] = "delayed" => next' =< wake'[u]
      BY <1>1 DEF TimeInv, DistTo
    <3>1. next' =< next
      BY <1>4, <1>6, <2>2 DEF TimeType
    <3>2. CASE u = t
      <4>1. wake'[t] = time /\ list'[t] = Delayed(time) /\ left'[t] = wait[t]
        BY <1>1, <1>4, <2>2 DEF ListType, TInv, TypeOK
      <4>2. DistTo(Delayed(time), time, tick) = wait[t]
        BY <1>4, <1>5, <1>6 DEF Delayed, DistTo, TimeType
      <4>3. Delayed(time) = "delayed" => next' =< time
        BY <1>4, <1>6, <2>2, <4>1 DEF TimeType
      <4> QED
        BY <1>4, <1>5, <1>8, <2>2, <3>2, <4>1, <4>2, <4>3
    <3>3. CASE u # t
      <4>1. wake'[u] = wake[u] /\ list'[u] = list[u] /\ left'[u] = left[u]
        BY <1>1, <1>4, <2>2, <3>3 DEF ListType, TInv, TypeOK
      <4>2. list[u] = "delayed" => next' =< wake[u]
        <5>1. list[u] = "delayed" => next =< wake[u]
          BY DEF TInv, TimeInv
        <5>2. next \in Nat /\ wake[u] \in Nat /\ next' \in Nat
          BY <1>3, <1>4 DEF TimeType, TypeOK
        <5> QED
          BY <3>1, <5>1, <5>2
      <4> QED
        BY <4>1, <4>2 DEF TInv, TimeInv
    <3> QED
      BY <3>2, <3>3
  <2> QED
    BY <1>2, <2>1, <2>2
<1> QED
  BY <1>3, <1>9, <1>10, <1>11 DEF TInv

LEMMA NotifyTime ==
  ASSUME TInv, NEW t \in Tasks, NEW u \in Tasks, NEW v \in Values,
         NEW overwrite \in BOOLEAN, Notify(t, u, v, overwrite)
  PROVE  TInv'
<1>1. /\ current = t /\ ~pendSV /\ at[t] = "run" /\ ~suspended
      /\ list' = list \/ list' = [list EXCEPT ![u] = "ready"]
      /\ UNCHANGED <<tick, wake, next, pending, suspended, pended, current, at, left>>
  BY DEF Notify, Runs, MakeReady, taskVars
<1>2. TypeOK'
  BY NotifyTypes DEF TInv
<1>3. \A s \in Tasks : list'[s] # "ready" => list'[s] = list[s]
  BY <1>1 DEF TInv, TypeOK
<1>4. \A s \in Tasks : list[s] = "ready" => list'[s] = "ready"
  BY <1>1 DEF TInv, TypeOK
<1>5. OwnInv'
  BY <1>1, <1>4 DEF TInv, OwnInv
<1>6. PendInv'
  BY <1>1 DEF TInv, PendInv
<1>7. TimeInv'
  BY <1>1, <1>3, SameTime DEF TInv
<1> QED
  BY <1>2, <1>5, <1>6, <1>7 DEF TInv

LEMMA NotifyFromISRTime ==
  ASSUME TInv, NEW u \in Tasks, NEW v \in Values,
         NEW overwrite \in BOOLEAN, NotifyFromISR(u, v, overwrite)
  PROVE  TInv'
<1>1. /\ list' = list \/ list' = [list EXCEPT ![u] = "ready"]
      /\ pending' = pending \/ suspended
      /\ pendSV => pendSV'
      /\ UNCHANGED <<tick, wake, next, suspended, pended, current, at, left>>
  BY DEF NotifyFromISR, MakeReady, taskVars
<1>2. TypeOK'
  BY NotifyFromISRTypes DEF TInv
<1>3. \A s \in Tasks : list'[s] # "ready" => list'[s] = list[s]
  BY <1>1 DEF TInv, TypeOK
<1>4. \A s \in Tasks : list[s] = "ready" => list'[s] = "ready"
  BY <1>1 DEF TInv, TypeOK
<1>5. OwnInv'
  BY <1>1, <1>4 DEF TInv, OwnInv
<1>6. PendInv'
  BY <1>1 DEF TInv, PendInv
<1>7. TimeInv'
  BY <1>1, <1>3, SameTime DEF TInv
<1> QED
  BY <1>2, <1>5, <1>6, <1>7 DEF TInv

LEMMA SysTickTime ==
  ASSUME TInv, SysTick
  PROVE  TInv'
<1>1. /\ \A s \in Tasks : at[s] # "block" /\ at[s] # "resume"
      /\ left' = [t \in Tasks |-> IF left[t] > 0 THEN left[t] - 1 ELSE 0]
      /\ UNCHANGED <<wake, pending, suspended, current, at>>
  BY DEF SysTick, Critical, taskVars
<1>2. TypeOK'
  BY SysTickTypes DEF TInv
<1>3. /\ Modulus \in Nat \ {0, 1} /\ pended \in Nat
      /\ \A t \in Tasks : left[t] \in 0 .. Modulus - 1
  BY Typed DEF TInv
<1>4. CASE suspended
  <2>1. pended' = pended + 1 /\ UNCHANGED <<tick, list, next, pendSV>>
    BY <1>4 DEF SysTick
  <2>2. OwnInv' /\ PendInv'
    BY <1>1, <1>4, <2>1 DEF TInv, OwnInv, PendInv
  <2>3. TimeInv'
    <3> SUFFICES ASSUME NEW t \in Tasks, list[t] # "ready"
                 PROVE  /\ DistTo(list[t], wake[t], tick) \in 1 .. Modulus - 1
                        /\ left'[t] > 0 => DistTo(list[t], wake[t], tick) = pended' + left'[t]
                        /\ left'[t] = 0 => DistTo(list[t], wake[t], tick) =< pended'
                        /\ list[t] = "delayed" => next =< wake[t]
      BY <1>1, <2>1 DEF TimeInv, DistTo
    <3>1. left'[t] = IF left[t] > 0 THEN left[t] - 1 ELSE 0
      BY <1>1
    <3> QED
      BY <1>3, <2>1, <3>1 DEF TInv, TimeInv
  <2> QED
    BY <1>2, <2>2, <2>3 DEF TInv
<1>5. CASE ~suspended
  <2>1. PICK k \in {Incremented(Kept(yield))} :
           Becomes(k) /\ pendSV' = (pendSV \/ k.switch) /\ UNCHANGED pended
    BY <1>5 DEF SysTick
  <2>2. /\ k = Incremented(Kept(yield)) /\ tick' = k.tick /\ list' = k.list /\ next' = k.next
        /\ yield \in BOOLEAN /\ (pendSV => pendSV')
    BY <2>1 DEF Becomes, TInv, TypeOK
  <2>3. \A t \in Tasks : list[t] = "ready" => list'[t] = "ready"
    BY <2>2, IncrementedFacts DEF TInv
  <2>4. pended = 0
    BY <1>1, <1>3, <1>5 DEF TInv, PendInv
  <2>5. OwnInv' /\ PendInv'
    BY <1>1, <1>5, <2>1, <2>2, <2>3 DEF TInv, OwnInv, PendInv
  <2>6. TimeInv'
    <3> SUFFICES ASSUME NEW t \in Tasks, list'[t] # "ready"
                 PROVE  /\ DistTo(list'[t], wake[t], tick') \in 1 .. Modulus - 1
                        /\ left'[t] > 0 => DistTo(list'[t], wake[t], tick') = pended + left'[t]
                        /\ left'[t] = 0 => DistTo(list'[t], wake[t], tick') =< pended
                        /\ list'[t] = "delayed" => next' =< wake[t]
      BY <1>1, <2>1 DEF TimeInv, DistTo
    <3>1. left'[t] = IF left[t] > 0 THEN left[t] - 1 ELSE 0
      BY <1>1
    <3>2. list[t] # "ready"
      BY <2>3
    <3>3. /\ DistTo(list[t], wake[t], tick) \in 1 .. Modulus - 1
          /\ left[t] > 0 /\ DistTo(list[t], wake[t], tick) = left[t]
      BY <1>3, <2>4, <3>2 DEF TInv, TimeInv
    <3>4. /\ DistTo(list[t], wake[t], tick) # 1
          /\ DistTo(list[t], wake[t], tick) > 1 =>
                /\ DistTo(list'[t], wake[t], tick') = DistTo(list[t], wake[t], tick) - 1
                /\ list'[t] = "delayed" => next' =< wake[t]
      BY <2>2, <3>2, IncrementedTimes DEF TInv
    <3> QED
      BY <1>3, <2>4, <3>1, <3>3, <3>4
  <2> QED
    BY <1>2, <2>5, <2>6 DEF TInv
<1> QED
  BY <1>4, <1>5

LEMMA ResumeAllTime ==
  ASSUME TInv, NEW t \in Tasks, ResumeAll(t)
  PROVE  TInv'
<1>1. /\ current = t /\ ~pendSV /\ at[t] = "run" /\ suspended /\ suspended' = FALSE
      /\ list' = [u \in Tasks |-> IF u \in pending THEN "ready" ELSE list[u]]
      /\ next' = IF pending = {} THEN next ELSE Earliest(list')
      /\ pending' = {}
      /\ UNCHANGED <<tick, wake, pended, current, left>>
  BY DEF ResumeAll, Runs
<1>2. \/ pended > 0 /\ at' = [at EXCEPT ![t] = "resume"] /\ UNCHANGED pendSV
      \/ ~(pended > 0) /\ UNCHANGED at
  BY DEF ResumeAll
<1>3. TypeOK'
  BY ResumeAllTypes DEF TInv
<1>4. /\ \A s \in Tasks : list[s] = "ready" => list'[s] = "ready"
      /\ \A s \in Tasks : list'[s] # "ready" => list'[s] = list[s]
  BY <1>1
<1>5. \A s \in Tasks : at[s] # "block" /\ at[s] # "resume"
  BY <1>1 DEF TInv, OwnInv
<1>6. /\ \A s \in Tasks : at'[s] # "block" /\ (at'[s] = "resume" => s = t /\ pended > 0)
      /\ pended > 0 => at'[t] = "resume"
  BY <1>2, <1>5 DEF TInv, TypeOK
<1>7. OwnInv'
  BY <1>1, <1>4, <1>6 DEF TInv, OwnInv
<1>8. PendInv'
  BY <1>1, <1>6 DEF PendInv
<1>9. \A s \in Tasks : list'[s] = "delayed" => next' =< wake[s]
  <2> SUFFICES ASSUME NEW s \in Tasks, list'[s] = "delayed" PROVE next' =< wake[s]
    OBVIOUS
  <2>1. CASE pending = {}
    BY <1>1, <1>4, <2>1 DEF TInv, TimeInv
  <2>2. CASE pending # {}
    <3>1. list' \in ListType /\ wake \in [Tasks -> TimeType]
      BY <1>3, Typed DEF TInv, TypeOK, ListType
    <3> QED
      BY <1>1, <2>2, <3>1, EarliestFacts DEF DelayedIn
  <2> QED
    BY <2>1, <2>2
<1>10. TimeInv'
  BY <1>1, <1>4, <1>9 DEF TInv, TimeInv, DistTo
<1> QED
  BY <1>3, <1>7, <1>8, <1>10 DEF TInv

LEMMA UnwindTime ==
  ASSUME TInv, NEW t \in Tasks, Unwind(t)
  PROVE  TInv'
<1> DEFINE k == Incremented(Kept(yield))
<1>1. /\ current = t /\ at[t] = "resume"
      /\ tick' = k.tick /\ list' = k.list /\ next' = k.next
      /\ pended' = pended - 1
      /\ UNCHANGED <<wake, pending, suspended, current, left>>
  BY DEF Unwind, Becomes
<1>2. \/ pended > 1 /\ UNCHANGED at
      \/ ~(pended > 1) /\ at' = [at EXCEPT ![t] = "run"]
  BY DEF Unwind
<1>3. /\ list[t] = "ready" /\ ~suspended /\ pended > 0 /\ yield \in BOOLEAN
      /\ pended \in Nat /\ Modulus \in Nat
      /\ \A s \in Tasks : left[s] \in 0 .. Modulus - 1
  BY <1>1, Typed DEF TInv, OwnInv, PendInv, TypeOK
<1>4. TypeOK'
  BY <1>3, UnwindTypes DEF TInv
<1>5. \A s \in Tasks : list[s] = "ready" => list'[s] = "ready"
  BY <1>1, <1>3, IncrementedFacts DEF TInv
<1>6. \A s \in Tasks : at[s] # "block" /\ (at[s] = "resume" => s = t)
  BY <1>1 DEF TInv, OwnInv
<1>7. /\ \A s \in Tasks : at'[s] # "block" /\ (at'[s] = "resume" => s = t /\ pended > 1)
      /\ pended > 1 => at'[t] = "resume"
  BY <1>1, <1>2, <1>6 DEF TInv, TypeOK
<1>8. OwnInv'
  BY <1>1, <1>3, <1>5, <1>7 DEF OwnInv
<1>9. PendInv'
  <2>1. pended' > 0 <=> pended > 1
    BY <1>1, <1>3
  <2> QED
    BY <1>1, <1>3, <1>7, <2>1 DEF TInv, PendInv
<1>10. TimeInv'
  <2> SUFFICES ASSUME NEW s \in Tasks, list'[s] # "ready"
               PROVE  /\ DistTo(list'[s], wake[s], tick') \in 1 .. Modulus - 1
                      /\ left[s] > 0 => DistTo(list'[s], wake[s], tick') = pended' + left[s]
                      /\ left[s] = 0 => DistTo(list'[s], wake[s], tick') =< pended'
                      /\ list'[s] = "delayed" => next' =< wake[s]
    BY <1>1 DEF TimeInv, DistTo
  <2>1. list[s] # "ready"
    BY <1>5
  <2>2. /\ DistTo(list[s], wake[s], tick) \in 1 .. Modulus - 1
        /\ left[s] > 0 => DistTo(list[s], wake[s], tick) = pended + left[s]
        /\ left[s] = 0 => DistTo(list[s], wake[s], tick) =< pended
    BY <2>1 DEF TInv, TimeInv
  <2>3. /\ DistTo(list[s], wake[s], tick) # 1
        /\ DistTo(list[s], wake[s], tick) > 1 =>
              /\ DistTo(list'[s], wake[s], tick') = DistTo(list[s], wake[s], tick) - 1
              /\ list'[s] = "delayed" => next' =< wake[s]
    BY <1>1, <1>3, <2>1, IncrementedTimes DEF TInv
  <2> QED
    BY <1>1, <1>3, <2>2, <2>3
<1> QED
  BY <1>4, <1>8, <1>9, <1>10 DEF TInv

LEMMA SwitchContextTime ==
  ASSUME TInv, SwitchContext
  PROVE  TInv'
<1>1. /\ \A s \in Tasks : at[s] # "block" /\ at[s] # "resume"
      /\ UNCHANGED <<tick, list, wake, next, pending, suspended, pended, at, left>>
  BY DEF SwitchContext, Critical, listVars, taskVars
<1>2. /\ suspended => current' = current
      /\ current' \in Tasks => list[current'] = "ready"
  BY KernelAssumption DEF SwitchContext, Ready, TInv, OwnInv
<1>3. OwnInv' /\ PendInv'
  BY <1>1, <1>2 DEF TInv, OwnInv, PendInv
<1>4. TimeInv'
  BY <1>1, SameTime DEF TInv
<1> QED
  BY <1>3, <1>4, SwitchContextTypes DEF TInv

LEMMA NextTime ==
  ASSUME TInv, [Next]_vars
  PROVE  TInv'
<1>1. CASE UNCHANGED vars
  <2>1. UNCHANGED <<tick, list, wake, next, pending, suspended, pended, pendSV, current, at, left>>
    BY <1>1 DEF vars, listVars, switchVars, taskVars
  <2>2. OwnInv' /\ PendInv'
    BY <2>1 DEF TInv, OwnInv, PendInv
  <2>3. TimeInv'
    BY <2>1, SameTime DEF TInv
  <2> QED
    BY <1>1, <2>2, <2>3, StutterTypes DEF TInv
<1>2. CASE Next
  BY <1>2, CallTime, BlockTime, NotifyTime, NotifyFromISRTime, SysTickTime, ResumeAllTime,
     UnwindTime, SwitchContextTime DEF Next
<1> QED
  BY <1>1, <1>2

LEMMA TimeInvariant == Spec => []TInv
<1>1. TInv /\ [Next]_vars => TInv'
  BY NextTime
<1> QED
  BY <1>1, InitTime, PTL DEF Spec

(***************************************************************************)
(* The theorems                                                            *)
(***************************************************************************)
LEMMA NextInv ==
  ASSUME IInv, Masked, [Next]_vars
  PROVE  IInv'
<1>1. CASE UNCHANGED vars
  <2>1. UNCHANGED <<tick, list, wake, next, pending, suspended, pended, yield, pendSV, woken,
                    current, state, value, at, wait, left>>
    BY <1>1 DEF vars, listVars, switchVars, noteVars, taskVars
  <2>2. Ready' = Ready /\ Base' = Base
    BY <2>1 DEF Ready, Base, PriorityOf
  <2>3. TypeOK'
    BY <1>1, StutterTypes DEF IInv
  <2> QED
    BY <2>1, <2>2, <2>3 DEF IInv, BlockInv, ResumeInv, SuspendInv, RunInv, TopInv, SleepInv,
       NoLostWakeUp, Above
<1>2. ASSUME NEW t \in Tasks, Check(t) \/ Block(t) \/ Take(t)
      PROVE  IInv'
  BY <1>2, CheckInv, BlockKeepsInv, TakeInv
<1>3. ASSUME NEW t \in Tasks, SuspendAll(t) \/ ResumeAll(t) \/ Unwind(t)
      PROVE  IInv'
  BY <1>3, SuspendAllInv, ResumeAllInv, UnwindInv
<1>4. ASSUME NEW t \in Tasks, NEW u \in Tasks, NEW v \in Values, NEW overwrite \in BOOLEAN,
             Notify(t, u, v, overwrite)
      PROVE  IInv'
  BY <1>4, NotifyInv
<1>5. ASSUME NEW u \in Tasks, NEW v \in Values, NEW overwrite \in BOOLEAN,
             NotifyFromISR(u, v, overwrite)
      PROVE  IInv'
  BY <1>5, NotifyFromISRInv
<1>6. CASE SysTick \/ SwitchContext
  BY <1>6, SysTickInv, SwitchContextInv
<1> QED
  BY <1>1, <1>2, <1>3, <1>4, <1>5, <1>6 DEF Next

LEMMA KernelInvariant ==
  ASSUME Masked
  PROVE  Spec => []IInv
<1>1. IInv /\ [Next]_vars => IInv'
  BY NextInv
<1> QED
  BY <1>1, InitInv, PTL DEF Spec

(***************************************************************************)
(* The refinement                                                          *)
(***************************************************************************)
\* The time that is left to a task that sleeps
LeftAsleep == [t \in Tasks |-> IF Asleep[t] THEN left[t] ELSE 0]

\* A task holds a notification it has not taken if its state says so
ReceivedInv == \A t \in Tasks : state[t] = "RECEIVED" => value[t] # None

WInv == IInv /\ TInv /\ ReceivedInv

LEMMA NextReceived ==
  ASSUME TypeOK, ReceivedInv, [Next]_vars
  PROVE  ReceivedInv'
<1>1. ASSUME NEW t \in Tasks, Take(t) \/ Block(t)
      PROVE  ReceivedInv'
  BY <1>1 DEF Take, Block, TypeOK, ReceivedInv
<1>2. ASSUME NEW u \in Tasks, NEW v \in Values, NEW overwrite \in BOOLEAN, Mark(u, v, overwrite)
      PROVE  ReceivedInv'
  BY <1>2, KernelAssumption DEF Mark, TypeOK, ReceivedInv
<1>3. CASE UNCHANGED noteVars
  BY <1>3 DEF noteVars, ReceivedInv
<1>4. CASE \E t \in Tasks : Check(t) \/ SuspendAll(t) \/ ResumeAll(t) \/ Unwind(t)
  BY <1>3, <1>4 DEF Check, SuspendAll, ResumeAll, Unwind
<1>5. CASE SysTick \/ SwitchContext \/ UNCHANGED vars
  BY <1>3, <1>5 DEF SysTick, SwitchContext, vars
<1>6. ASSUME NEW t \in Tasks, NEW u \in Tasks, NEW v \in Values, NEW overwrite \in BOOLEAN,
             Notify(t, u, v, overwrite) \/ NotifyFromISR(u, v, overwrite)
      PROVE  ReceivedInv'
  BY <1>2, <1>6 DEF Notify, NotifyFromISR
<1> QED
  BY <1>1, <1>4, <1>5, <1>6 DEF Next

SleepFacts ==
    \A t \in Tasks :
        /\ Asleep[t] <=> list[t] # "ready" /\ t \notin pending /\ left[t] > 0
        /\ Asleep[t] \in BOOLEAN

LEMMA AsleepNow == TInv => SleepFacts
<1> SUFFICES ASSUME TInv, NEW t \in Tasks
             PROVE  /\ Asleep[t] <=> list[t] # "ready" /\ t \notin pending /\ left[t] > 0
                    /\ Asleep[t] \in BOOLEAN
  BY DEF SleepFacts
<1>1. Asleep[t] = (list[t] # "ready" /\ t \notin pending /\ ~(pended > 0 /\ left[t] = 0))
  BY DEF Asleep
<1>2. pended \in Nat /\ left[t] \in Nat
  BY Typed DEF TInv
<1>3. list[t] # "ready" /\ left[t] = 0 => pended > 0
  <2>1. list[t] # "ready" /\ left[t] = 0 =>
          1 =< DistTo(list[t], wake[t], tick) /\ DistTo(list[t], wake[t], tick) =< pended
          /\ DistTo(list[t], wake[t], tick) \in Int
    BY DEF TInv, TimeInv
  <2> QED
    BY <1>2, <2>1
<1>4. Asleep[t] \in BOOLEAN
  BY <1>1, Zenon
<1>5. Asleep[t] <=> list[t] # "ready" /\ t \notin pending /\ ~(pended > 0 /\ left[t] = 0)
  BY <1>1, Zenon
<1>6. list[t] # "ready" => (~(pended > 0 /\ left[t] = 0) <=> left[t] > 0)
  BY <1>2, <1>3
<1> QED
  BY <1>4, <1>5, <1>6

LEMMA AsleepNext == TInv' => SleepFacts'
BY AsleepNow, PTL

LEMMA AsleepFacts ==
  ASSUME TInv, TInv'
  PROVE  \A t \in Tasks :
            /\ Asleep[t] <=> list[t] # "ready" /\ t \notin pending /\ left[t] > 0
            /\ Asleep'[t] <=> list'[t] # "ready" /\ t \notin pending' /\ left'[t] > 0
            /\ Asleep[t] \in BOOLEAN /\ Asleep'[t] \in BOOLEAN
BY AsleepNow, AsleepNext DEF SleepFacts

\* The mapped variables stay if the same tasks sleep for the same time
LEMMA SameAsleep ==
  ASSUME \A t \in Tasks : Asleep'[t] = Asleep[t] /\ (Asleep[t] => left'[t] = left[t]),
         value' = value
  PROVE  UNCHANGED Waking!vars
<1>1. Asleep' = Asleep
  BY DEF Asleep
<1>2. LeftAsleep' = LeftAsleep
  BY DEF LeftAsleep
<1> QED
  BY <1>1, <1>2 DEF Waking!vars, LeftAsleep

\* A critical section masks the interrupts: a task that blocks has no notification
LEMMA BlockSleeps ==
  ASSUME WInv, NEW t \in Tasks, Block(t)
  PROVE  Waking!Sleep(t) \/ UNCHANGED Waking!vars
<1>1. TInv /\ TInv'
  BY BlockTime DEF WInv
<1>2. /\ current = t /\ at[t] = "block" /\ list[t] = "ready" /\ pending = {} /\ value[t] = None
      /\ left' = [left EXCEPT ![t] = wait[t]]
      /\ pending' = pending /\ value' = value
  BY DEF Block, WInv, IInv, BlockInv, TInv, OwnInv, PendInv
<1>3. wait[t] \in Nat
  <2>1. wait[t] \in Waits \cup {0}
    BY DEF WInv, IInv, TypeOK
  <2>2. Waits \subseteq Nat /\ 0 \in Nat
    BY KernelAssumption
  <2> QED
    BY <2>1, <2>2
<1>4. \A s \in Tasks \ {t} : list'[s] = list[s] /\ left'[s] = left[s]
  BY DEF Block, WInv, IInv, TypeOK
<1>5. \A s \in Tasks \ {t} : Asleep'[s] = Asleep[s]
  <2>1. \A s \in Tasks \ {t} : Asleep'[s] <=> Asleep[s]
    BY <1>1, <1>2, <1>4, AsleepFacts
  <2> QED
    BY <1>1, <2>1, AsleepFacts
<1>6. Asleep[t] = FALSE /\ left'[t] = wait[t]
  BY <1>1, <1>2, AsleepFacts DEF WInv, IInv, TypeOK
<1>7. CASE wait[t] = 0
  <2>1. list' = list
    BY <1>3, <1>7 DEF Block
  <2>2. Asleep'[t] = FALSE
    BY <1>1, <1>2, <2>1, AsleepFacts
  <2> QED
    BY <1>2, <1>4, <1>5, <1>6, <2>2, SameAsleep
<1>8. CASE wait[t] > 0
  <2>1. list'[t] # "ready"
    BY <1>8 DEF Block, Delayed, WInv, IInv, TypeOK
  <2>2. Asleep'[t] = TRUE
    BY <1>1, <1>2, <1>6, <1>8, <2>1, AsleepFacts
  <2>3. Asleep' = [Asleep EXCEPT ![t] = TRUE]
    BY <1>5, <2>2 DEF Asleep
  <2>4. LeftAsleep'[t] = wait[t] /\ LeftAsleep' = [LeftAsleep EXCEPT ![t] = wait[t]]
    BY <1>4, <1>5, <1>6, <2>2 DEF LeftAsleep
  <2>5. /\ LeftAsleep'[t] \in Nat \ {0}
        /\ LeftAsleep' = [LeftAsleep EXCEPT ![t] = LeftAsleep'[t]]
    BY <1>3, <1>8, <2>4
  <2>6. ~Asleep[t] /\ value[t] = None /\ value' = value
    BY <1>2, <1>6
  <2> QED
    BY <2>3, <2>5, <2>6, Zenon DEF Waking!Sleep, LeftAsleep
<1> QED
  BY <1>3, <1>7, <1>8

LEMMA TakeTakes ==
  ASSUME WInv, NEW t \in Tasks, Take(t)
  PROVE  Waking!Take(t)
<1>1. TInv /\ TInv'
  BY CallTime DEF WInv
<1>2. /\ list[t] = "ready" /\ list' = list /\ pending' = pending
      /\ value' = [value EXCEPT ![t] = None]
      /\ left' = [left EXCEPT ![t] = 0]
  BY DEF Take, Runs, listVars, WInv, TInv, OwnInv
<1>3. \A s \in Tasks \ {t} : left'[s] = left[s]
  BY <1>2 DEF WInv, IInv, TypeOK
<1>4. \A s \in Tasks : Asleep'[s] <=> Asleep[s]
  BY <1>1, <1>2, <1>3, AsleepFacts
<1>5. \A s \in Tasks : Asleep'[s] = Asleep[s]
  BY <1>1, <1>4, AsleepFacts
<1>6. Asleep[t] = FALSE
  BY <1>1, <1>2, AsleepFacts
<1>7. Asleep' = Asleep
  BY <1>5 DEF Asleep
<1>8. LeftAsleep' = LeftAsleep
  BY <1>3, <1>5, <1>6 DEF LeftAsleep
<1> QED
  BY <1>2, <1>6, <1>7, <1>8 DEF Waking!Take, LeftAsleep

\* A task that is notified stops sleeping, on either path of the kernel
LEMMA MarkNotifies ==
  ASSUME WInv, TInv', NEW u \in Tasks, NEW v \in Values, NEW overwrite \in BOOLEAN,
         Mark(u, v, overwrite), left' = left,
         \A s \in Tasks \ {u} : list'[s] = list[s] /\ (s \in pending' <=> s \in pending),
         list'[u] = "ready" \/ u \in pending'
  PROVE  Waking!Notify(u)
<1>1. TInv
  BY DEF WInv
<1>2. value'[u] # None /\ value' = [value EXCEPT ![u] = value'[u]]
  BY KernelAssumption DEF Mark, WInv, IInv, TypeOK, ReceivedInv
<1>3. \A s \in Tasks \ {u} : Asleep'[s] <=> Asleep[s]
  BY <1>1, AsleepFacts
<1>4. \A s \in Tasks \ {u} : Asleep'[s] = Asleep[s]
  BY <1>1, <1>3, AsleepFacts
<1>5. Asleep'[u] = FALSE
  BY <1>1, AsleepFacts
<1>6. Asleep' = [Asleep EXCEPT ![u] = FALSE]
  BY <1>4, <1>5 DEF Asleep
<1>7. LeftAsleep' = [LeftAsleep EXCEPT ![u] = 0]
  BY <1>4, <1>5 DEF LeftAsleep
<1> QED
  BY <1>2, <1>6, <1>7 DEF Waking!Notify, LeftAsleep

LEMMA NotifyNotifies ==
  ASSUME WInv, NEW t \in Tasks, NEW u \in Tasks, NEW v \in Values,
         NEW overwrite \in BOOLEAN, Notify(t, u, v, overwrite)
  PROVE  Waking!Notify(u)
<1>1. TInv'
  BY NotifyTime DEF WInv
<1>2. Mark(u, v, overwrite) /\ left' = left /\ pending' = pending
  BY DEF Notify
<1>3. \A s \in Tasks \ {u} : list'[s] = list[s]
  BY DEF Notify, MakeReady, WInv, IInv, TypeOK
<1>4. list'[u] = "ready" \/ u \in pending'
  <2>1. CASE state[u] = "WAITING"
    BY <2>1 DEF Notify, MakeReady, WInv, IInv, TypeOK
  <2>2. CASE state[u] # "WAITING"
    BY <2>2 DEF Notify, WInv, IInv, SleepInv
  <2> QED
    BY <2>1, <2>2
<1> QED
  BY <1>1, <1>2, <1>3, <1>4, MarkNotifies

LEMMA NotifyFromISRNotifies ==
  ASSUME WInv, NEW u \in Tasks, NEW v \in Values, NEW overwrite \in BOOLEAN,
         NotifyFromISR(u, v, overwrite)
  PROVE  Waking!Notify(u)
<1>1. TInv'
  BY NotifyFromISRTime DEF WInv
<1>2. Mark(u, v, overwrite) /\ left' = left
  BY DEF NotifyFromISR
<1>3. \A s \in Tasks \ {u} : list'[s] = list[s] /\ (s \in pending' <=> s \in pending)
  BY DEF NotifyFromISR, MakeReady, WInv, IInv, TypeOK
<1>4. list'[u] = "ready" \/ u \in pending'
  <2>1. CASE state[u] = "WAITING"
    BY <2>1 DEF NotifyFromISR, MakeReady, WInv, IInv, TypeOK
  <2>2. CASE state[u] # "WAITING"
    BY <2>2 DEF NotifyFromISR, WInv, IInv, SleepInv
  <2> QED
    BY <2>1, <2>2
<1> QED
  BY <1>1, <1>2, <1>3, <1>4, MarkNotifies

\* The tick takes one from the time of every task that sleeps and wakes those
\* whose time it was, whether the kernel counts it now or puts it off
LEMMA SysTickTicks ==
  ASSUME WInv, SysTick
  PROVE  Waking!Tick
<1>1. TInv /\ TInv'
  BY SysTickTime DEF WInv
<1>2. /\ \A s \in Tasks : at[s] # "resume"
      /\ left' = [t \in Tasks |-> IF left[t] > 0 THEN left[t] - 1 ELSE 0]
      /\ pending' = pending /\ value' = value
  BY DEF SysTick, Critical, noteVars
<1>3. pended \in Nat /\ \A s \in Tasks : left[s] \in Nat
  BY <1>1, Typed DEF TInv
<1>4. \A s \in Tasks : left'[s] = IF left[s] > 0 THEN left[s] - 1 ELSE 0
  BY <1>2
<1>5. \A s \in Tasks : Asleep'[s] <=> Asleep[s] /\ left[s] - 1 > 0
  <2>1. CASE suspended
    <3>1. list' = list
      BY <2>1 DEF SysTick
    <3> QED
      BY <1>1, <1>2, <1>3, <1>4, <3>1, AsleepFacts
  <2>2. CASE ~suspended
    <3>1. pended = 0
      BY <1>1, <1>2, <1>3, <2>2 DEF TInv, PendInv
    <3>2. PICK k \in {Incremented(Kept(yield))} : Becomes(k)
      BY <2>2 DEF SysTick
    <3>3. k = Incremented(Kept(yield)) /\ list' = k.list /\ yield \in BOOLEAN
      BY <1>1, <3>2 DEF Becomes, TInv, TypeOK
    <3> SUFFICES ASSUME NEW s \in Tasks
                 PROVE  Asleep'[s] <=> Asleep[s] /\ left[s] - 1 > 0
      OBVIOUS
    <3>4. list[s] = "ready" => list'[s] = "ready"
      BY <1>1, <3>3, IncrementedFacts DEF TInv
    <3>5. list[s] # "ready" =>
             left[s] > 0 /\ (list'[s] # "ready" <=> left[s] - 1 > 0)
      <4> SUFFICES ASSUME list[s] # "ready"
                   PROVE  left[s] > 0 /\ (list'[s] # "ready" <=> left[s] - 1 > 0)
        OBVIOUS
      <4>1. /\ DistTo(list[s], wake[s], tick) \in Int /\ left[s] > 0
            /\ DistTo(list[s], wake[s], tick) = left[s]
        BY <1>1, <1>3, <3>1 DEF TInv, TimeInv
      <4>2. /\ DistTo(list[s], wake[s], tick) = 1 => list'[s] = "ready"
            /\ DistTo(list[s], wake[s], tick) > 1 => list'[s] # "ready"
        BY <1>1, <3>3, IncrementedTimes DEF TInv
      <4> QED
        BY <1>3, <4>1, <4>2
    <3> QED
      BY <1>1, <1>2, <1>3, <1>4, <3>4, <3>5, AsleepFacts
  <2> QED
    BY <2>1, <2>2
<1>6. \A s \in Tasks : LeftAsleep'[s] = IF Asleep[s] THEN LeftAsleep[s] - 1 ELSE LeftAsleep[s]
  <2>1. \A s \in Tasks : /\ LeftAsleep'[s] = IF Asleep'[s] THEN left'[s] ELSE 0
                         /\ LeftAsleep[s] = IF Asleep[s] THEN left[s] ELSE 0
    BY DEF LeftAsleep
  <2>2. \A s \in Tasks : Asleep[s] => left[s] > 0
    BY <1>1, AsleepFacts
  <2> QED
    BY <1>3, <1>4, <1>5, <2>1, <2>2
<1>7. \A s \in Tasks : Asleep'[s] = (Asleep[s] /\ LeftAsleep'[s] > 0)
  <2>1. \A s \in Tasks : Asleep'[s] <=> Asleep[s] /\ LeftAsleep'[s] > 0
    BY <1>5, <1>6 DEF LeftAsleep
  <2>2. \A s \in Tasks : Asleep'[s] \in BOOLEAN
    BY <1>1, AsleepFacts
  <2> QED
    BY <2>1, <2>2
<1>8. LeftAsleep' = [s \in Tasks |-> IF Asleep[s] THEN LeftAsleep[s] - 1 ELSE LeftAsleep[s]]
  BY <1>6 DEF LeftAsleep
<1>9. Asleep' = [s \in Tasks |-> Asleep[s] /\ LeftAsleep'[s] > 0]
  BY <1>7 DEF Asleep
<1> QED
  BY <1>2, <1>8, <1>9 DEF Waking!Tick, LeftAsleep

\* A suspension of the scheduler changes nothing for a task that sleeps: the
\* ticks made up for wake only tasks whose time had passed before
LEMMA ResumeStutters ==
  ASSUME WInv, NEW t \in Tasks, ResumeAll(t) \/ Unwind(t)
  PROVE  UNCHANGED Waking!vars
<1>1. TInv /\ TInv'
  BY ResumeAllTime, UnwindTime DEF WInv
<1>2. left' = left /\ value' = value
  BY DEF ResumeAll, Unwind, noteVars
<1>3. \A s \in Tasks : Asleep'[s] <=> Asleep[s]
  <2>1. CASE ResumeAll(t)
    BY <1>1, <1>2, <2>1, AsleepFacts DEF ResumeAll
  <2>2. CASE Unwind(t)
    <3> DEFINE k == Incremented(Kept(yield))
    <3>1. at[t] = "resume" /\ list' = k.list /\ pending' = pending /\ yield \in BOOLEAN
      BY <1>1, <2>2 DEF Unwind, Becomes, TInv, TypeOK
    <3>2. pended > 0 /\ pended \in Nat /\ \A s \in Tasks : left[s] \in Nat
      BY <1>1, <3>1, Typed DEF TInv, PendInv
    <3> SUFFICES ASSUME NEW s \in Tasks
                 PROVE  Asleep'[s] <=> Asleep[s]
      OBVIOUS
    <3>3. list[s] = "ready" => list'[s] = "ready"
      BY <1>1, <3>1, IncrementedFacts DEF TInv
    <3>4. list[s] # "ready" /\ left[s] > 0 => list'[s] # "ready"
      <4> SUFFICES ASSUME list[s] # "ready", left[s] > 0
                   PROVE  list'[s] # "ready"
        OBVIOUS
      <4>1. DistTo(list[s], wake[s], tick) = pended + left[s]
        BY <1>1 DEF TInv, TimeInv
      <4>2. DistTo(list[s], wake[s], tick) > 1
        BY <3>2, <4>1
      <4> QED
        BY <1>1, <3>1, <4>2, IncrementedTimes DEF TInv
    <3> QED
      BY <1>1, <1>2, <3>1, <3>3, <3>4, AsleepFacts
  <2> QED
    BY <2>1, <2>2
<1>4. \A s \in Tasks : Asleep'[s] = Asleep[s]
  BY <1>1, <1>3, AsleepFacts
<1> QED
  BY <1>2, <1>4, SameAsleep

LEMMA OtherStutters ==
  ASSUME UNCHANGED <<list, pending, pended, value, left>>
  PROVE  UNCHANGED Waking!vars
<1>1. Asleep' = Asleep
  BY DEF Asleep
<1> QED
  BY <1>1 DEF Waking!vars

LEMMA StepWakes ==
  ASSUME WInv, [Next]_vars
  PROVE  [Waking!Next]_(Waking!vars)
<1>1. ASSUME NEW t \in Tasks, Check(t) \/ SuspendAll(t)
      PROVE  UNCHANGED Waking!vars
  BY <1>1, OtherStutters DEF Check, SuspendAll, listVars, noteVars
<1>2. ASSUME SwitchContext \/ UNCHANGED vars
      PROVE  UNCHANGED Waking!vars
  BY <1>2, OtherStutters DEF SwitchContext, vars, listVars, noteVars
<1>3. ASSUME NEW t \in Tasks, Block(t) \/ Take(t)
      PROVE  Waking!Next \/ UNCHANGED Waking!vars
  BY <1>3, BlockSleeps, TakeTakes DEF Waking!Next
<1>4. ASSUME NEW t \in Tasks, ResumeAll(t) \/ Unwind(t)
      PROVE  UNCHANGED Waking!vars
  BY <1>4, ResumeStutters
<1>5. ASSUME NEW t \in Tasks, NEW u \in Tasks, NEW v \in Values, NEW overwrite \in BOOLEAN,
             Notify(t, u, v, overwrite) \/ NotifyFromISR(u, v, overwrite)
      PROVE  Waking!Next
  BY <1>5, NotifyNotifies, NotifyFromISRNotifies DEF Waking!Next
<1>6. ASSUME NEW u \in Tasks, NEW v \in Values, NEW overwrite \in BOOLEAN,
             NotifyFromISR(u, v, overwrite)
      PROVE  Waking!Next
  BY <1>6, NotifyFromISRNotifies DEF Waking!Next
<1>7. CASE SysTick
  BY <1>7, SysTickTicks DEF Waking!Next
<1> QED
  BY <1>1, <1>2, <1>3, <1>4, <1>5, <1>6, <1>7 DEF Next

\* Every variable of the kernel keeps its type; the tick count and all times
\* stay within the width of the tick count, and the ticks that are made up for
\* are those that were counted.
THEOREM TypeCorrect == Spec => []TypeOK
<1>1. TInv => TypeOK
  BY DEF TInv
<1> QED
  BY <1>1, TimeInvariant, PTL

\* The lists of sleeping tasks agree with the time that is left, across the wrap
\* of the tick count and the ticks made up for after the scheduler was suspended:
\* the list of the current time is empty when the lists are switched, and
\* xNextTaskUnblockTime is not after any task in it.  An
\* interrupt that comes between the check and the block of ulTaskNotifyTake does
\* not break it; one within a list operation is outside of the module.
THEOREM TheListsMatchTime == Spec => []ListsMatchTime
<1>1. TInv => ListsMatchTime
  <2> SUFFICES ASSUME TInv, NEW t \in Tasks, list[t] # "ready"
               PROVE  /\ wake[t] = Ticks(tick + pended + left[t]) \/ (left[t] = 0 /\ pended > 0)
                      /\ list[t] = "delayed" => wake[t] > tick /\ next =< wake[t]
                      /\ list[t] = "overflow" => wake[t] =< tick
    BY DEF ListsMatchTime
  <2>1. /\ Modulus \in Nat \ {0} /\ tick \in 0 .. Modulus - 1 /\ wake[t] \in 0 .. Modulus - 1
        /\ pended \in Nat /\ left[t] \in Nat /\ list[t] \in {"delayed", "overflow"}
    BY Typed DEF TInv, TimeType, ListType
  <2>2. /\ DistTo(list[t], wake[t], tick) \in 1 .. Modulus - 1
        /\ left[t] > 0 => DistTo(list[t], wake[t], tick) = pended + left[t]
        /\ left[t] = 0 => DistTo(list[t], wake[t], tick) =< pended
        /\ list[t] = "delayed" => next =< wake[t]
    BY DEF TInv, TimeInv
  <2>3. CASE left[t] = 0
    <3>1. pended > 0
      BY <2>1, <2>2, <2>3
    <3> QED
      BY <2>1, <2>2, <2>3, <3>1 DEF DistTo
  <2>4. CASE left[t] > 0
    <3>1. PICK n : n = tick + pended + left[t]
      OBVIOUS
    <3>2. n = tick + DistTo(list[t], wake[t], tick)
      BY <2>1, <2>2, <2>4, <3>1
    <3>3. wake[t] = n % Modulus
      <4>1. CASE list[t] = "delayed"
        <5>1. n = wake[t]
          BY <2>1, <3>2, <4>1 DEF DistTo
        <5> QED
          BY <2>1, <5>1, ModSmall
      <4>2. CASE list[t] = "overflow"
        <5>1. n = wake[t] + Modulus /\ n \in Modulus .. 2 * Modulus - 1
          BY <2>1, <3>2, <4>2 DEF DistTo
        <5> QED
          BY <2>1, <5>1, ModOver
      <4> QED
        BY <2>1, <4>1, <4>2
    <3> QED
      BY <2>1, <2>2, <3>1, <3>3 DEF DistTo, Ticks
  <2> QED
    BY <2>1, <2>3, <2>4
<1> QED
  BY <1>1, TimeInvariant, PTL

\* However notifications, ticks, sleeps and the suspension of the scheduler
\* interleave, a task that was notified is ready or waits for the scheduler
\* to resume: ulTaskNotifyTake never sleeps over a notification.
THEOREM NoWakeUpIsLost ==
  ASSUME Masked
  PROVE  Spec => []NoLostWakeUp
<1>1. IInv => NoLostWakeUp
  BY DEF IInv
<1> QED
  BY <1>1, KernelInvariant, PTL

\* The task that runs is ready and none that is ready is more urgent, unless
\* PendSV is pending, the scheduler is suspended or a critical section runs:
\* every way to become ready asks for a switch if it should.
THEOREM HighestAlwaysRuns ==
  ASSUME Masked
  PROVE  Spec => []HighestRuns
<1>1. IInv => HighestRuns
  <2> SUFFICES ASSUME IInv, ~suspended, ~pendSV, ~Critical
               PROVE  /\ current # Idle => list[current] = "ready"
                      /\ ~Above(Ready, PriorityOf(current))
    BY DEF HighestRuns
  <2>1. \A t \in Tasks : at[t] # "resume"
    BY DEF Critical
  <2>2. current # Idle => current \in Tasks
    BY DEF IInv, TypeOK
  <2> QED
    BY <2>1, <2>2 DEF IInv, RunInv, TopInv, Base
<1> QED
  BY <1>1, KernelInvariant, PTL

\* What app_thread_event_await relies on: a task sleeps only if it has no
\* notification, until one comes or its time is up, neither shorter nor longer,
\* across the wrap of the tick count and the ticks put off while the scheduler is
\* suspended.  The kernel implements the abstract kernel of Wakeups.
THEOREM KernelWakesInTime ==
  ASSUME Masked
  PROVE  Spec => WakesInTime
<1>1. Init => WInv /\ Waking!Init
  <2> SUFFICES ASSUME Init PROVE WInv /\ Waking!Init
    OBVIOUS
  <2>1. IInv /\ TInv
    BY InitInv, InitTime
  <2>2. ReceivedInv
    BY DEF Init, ReceivedInv
  <2>3. \A t \in Tasks : Asleep[t] = FALSE
    BY <2>1, AsleepNow DEF Init, SleepFacts
  <2>4. Asleep = [t \in Tasks |-> FALSE]
    BY <2>3 DEF Asleep
  <2>5. LeftAsleep = [t \in Tasks |-> 0]
    BY <2>3 DEF LeftAsleep
  <2> QED
    BY <2>1, <2>2, <2>4, <2>5 DEF Init, WInv, Waking!Init, LeftAsleep
<1>2. WInv /\ [Next]_vars => WInv'
  BY NextInv, NextTime, NextReceived DEF WInv, IInv
<1>3. WInv /\ [Next]_vars => [Waking!Next]_(Waking!vars)
  BY StepWakes
<1> QED
  BY <1>1, <1>2, <1>3, PTL DEF Spec, WakesInTime, Waking!Spec
=============================================================================
