------------------------- MODULE ModuleTimer_proofs -------------------------
(***************************************************************************)
(* Proofs about the timer, for any keys, slots, timeouts and period.       *)
(* First the types, without conditions: whoever interrupts whom, a time is *)
(* a time and a slot that is used is one of the table.  Then, while calls  *)
(* do not overlap, that a key has one slot and is signalled only for a     *)
(* timeout it has asked for: that needs no arithmetic of times, and holds  *)
(* whatever the driver computes of them, wrapped or not.  Then that no     *)
(* timeout fires early, below the wrap of the time and as long as nobody   *)
(* asks for a time before the one the driver waits for: there the time the *)
(* driver keeps and the clocks it is yet to add to it are, at every place  *)
(* of a thread's call, never more than what has passed.                    *)
(***************************************************************************)
EXTENDS ModuleTimer, FiniteSetTheorems, WellFoundedInduction, TLAPS

TimerType ==
    [subs : [Slots -> [key : Keys \cup {NoKey}, time : 0 .. Never]],
     current : 0 .. Never, next : 0 .. Never, tick : 0 .. Period,
     counter : 0 .. Period, enabled : BOOLEAN, phase : {"RUNNING", "IDLE"}]

CallType ==
    [at : Places, key : Keys \cup {NoKey}, timeout : Timeouts \cup {0},
     asked : Nat, elapsed : 0 .. Never, time : 0 .. Never,
     slot : 0 .. SlotCount, told : Keys \cup {NoKey},
     wasNext : BOOLEAN, wasCloser : BOOLEAN]

\* The places at which a call has a slot, and at which it is to schedule
HasSlot == {"look", "due", "read", "free", "await", "claim", "compare", "settime", "rank"}
Decided == {"settime", "rank", "ask", "schedule", "tick", "counter"}

Placed(call) ==
    /\ call.at = "idle" => call = Idle
    /\ call.at # "idle" => call.key \in Keys /\ call.timeout \in Timeouts
    /\ call.at \in HasSlot => call.slot \in Slots
    /\ call.at \notin Decided => ~call.wasNext

TypeInv == TypeOK /\ \A c \in Threads : Placed(caller[c])

(***************************************************************************)
(* Numbers                                                                 *)
(***************************************************************************)
LEMMA Ranges ==
  /\ Modulus \in Nat /\ Period \in Nat /\ Period > 0 /\ Modulus > Period + 1
  /\ Horizon \in Nat /\ Never \in Nat /\ Never = Modulus - 1
  /\ Modulus \div 2 \in Nat /\ 2 * (Modulus \div 2) =< Modulus
BY TimerAssumption DEF Never

LEMMA ModRange ==
  ASSUME NEW n \in Int
  PROVE  /\ n % Modulus \in Nat /\ n % Modulus =< Never
         /\ n \in Nat /\ n =< Never => n % Modulus = n
         /\ n < 0 /\ n + Modulus >= 0 => n % Modulus = n + Modulus
<1>1. n % Modulus \in 0 .. (Modulus - 1)
  BY Ranges
<1>2. n \in Nat /\ n =< Never => n % Modulus = n
  BY Ranges
<1>3. n < 0 /\ n + Modulus >= 0 => n % Modulus = n + Modulus
  BY Ranges
<1> QED
  BY <1>1, <1>2, <1>3, Ranges

LEMMA ModTime ==
  ASSUME NEW n \in Int
  PROVE  n % Modulus \in 0 .. Never
BY ModRange, Ranges

LEMMA LeastSlot ==
  ASSUME NEW S \in SUBSET Slots, S # {}
  PROVE  Min(S) \in S
<1>1. S \subseteq Nat
  BY TimerAssumption DEF Slots
<1>2. PICK x \in S : \A y \in S : ~ (<<y, x>> \in OpToRel(<, Nat))
  BY <1>1, NatLessThanWellFounded, WFMin
<1>3. \A y \in S : ~ (y < x)
  BY <1>1, <1>2 DEF OpToRel
<1>4. \A y \in S : x =< y
  BY <1>1, <1>3
<1> QED
  BY <1>4 DEF Min

(***************************************************************************)
(* The types of what the driver computes                                   *)
(***************************************************************************)
LEMMA SignedType ==
  ASSUME NEW x \in Int
  PROVE  Signed(x) \in Int /\ Signed(x) + Modulus \div 2 \in Nat
<1>1. PICK h \in Nat : h = Modulus \div 2
  BY Ranges
<1>2. (x + h) % Modulus \in Nat
  BY <1>1, ModRange
<1> QED
  BY <1>1, <1>2 DEF Signed

LEMMA NextType ==
  ASSUME NEW t \in TimerType
  PROVE  NextSubscription(t) = 0 \/ NextSubscription(t) \in Slots
<1> DEFINE distance(i) == Signed(t.subs[i].time - t.next)
           used == {i \in Slots : t.subs[i].key # NoKey /\ distance(i) < Modulus \div 2 - 1}
           nearest == {i \in used : \A j \in used : distance(i) <= distance(j)}
           h == Modulus \div 2
           shifted == {distance(i) + h : i \in used}
<1>1. \A i \in Slots : distance(i) \in Int /\ distance(i) + h \in Nat
  <2>1. \A i \in Slots : t.subs[i].time - t.next \in Int
    BY DEF TimerType
  <2> QED
    BY <2>1, SignedType
<1>2. NextSubscription(t) = IF used = {} THEN 0 ELSE Min(nearest)
  BY DEF NextSubscription
<1>3. h \in Nat
  BY Ranges
<1> HIDE DEF distance, h
<1>4. CASE used # {}
  <2>1. shifted \subseteq Nat /\ shifted # {}
    BY <1>1, <1>4
  <2>2. PICK x \in shifted : \A y \in shifted : ~ (<<y, x>> \in OpToRel(<, Nat))
    BY <2>1, NatLessThanWellFounded, WFMin
  <2>3. \A y \in shifted : ~ (y < x)
    BY <2>1, <2>2 DEF OpToRel
  <2>4. PICK i \in used : x = distance(i) + h
    BY <2>2
  <2>5. ASSUME NEW j \in used
        PROVE  distance(i) <= distance(j)
    <3>1. distance(j) + h \in shifted
      BY <2>5
    <3>2. ~ (distance(j) + h < x)
      BY <2>3, <3>1
    <3> QED
      BY <1>1, <1>3, <2>4, <3>2
  <2>6. i \in nearest
    BY <2>5
  <2>7. nearest \in SUBSET Slots
    OBVIOUS
  <2>8. Min(nearest) \in nearest
    BY <2>6, <2>7, LeastSlot
  <2> QED
    BY <1>2, <1>4, <2>7, <2>8
<1> QED
  BY <1>2, <1>4

LEMMA SlotType ==
  ASSUME NEW t, NEW k
  PROVE  Slot(t, k) \in 0 .. SlotCount /\ (Slot(t, k) # 0 => Slot(t, k) \in Slots)
<1> DEFINE own == {i \in Slots : t.subs[i].key = k}
           free == {i \in Slots : t.subs[i].key = NoKey}
<1>1. Slot(t, k) = 0 \/ Slot(t, k) \in Slots
  <2>1. own # {} => Min(own) \in Slots
    BY LeastSlot
  <2>2. free # {} => Min(free) \in Slots
    BY LeastSlot
  <2> QED
    BY <2>1, <2>2 DEF Slot
<1> QED
  BY <1>1, TimerAssumption DEF Slots

LEMMA FreeType == Free \in [key : Keys \cup {NoKey}, time : 0 .. Never]
  BY Ranges DEF Free

LEMMA ScheduleType ==
  ASSUME NEW t \in TimerType, NEW time \in 0 .. Never
  PROVE  Schedule(t, time) \in TimerType
<1> DEFINE n == IF t.next > time THEN time ELSE t.next
           d == (n - t.current) % Modulus
<1>1. n \in 0 .. Never
  BY DEF TimerType
<1>2. d \in 0 .. Never
  <2>1. n - t.current \in Int
    BY <1>1, Ranges DEF TimerType
  <2> HIDE DEF n
  <2> QED
    BY <2>1, ModTime
<1>3. Schedule(t, time) = IF d < Period
        THEN [t EXCEPT !.next = n, !.tick = d, !.counter = Period - d]
        ELSE [t EXCEPT !.next = n, !.tick = Period]
  BY DEF Schedule
<1> HIDE DEF n, d
<1>4. d < Period => d \in 0 .. Period /\ Period - d \in 0 .. Period
  BY <1>2, Ranges
<1>5. Period \in 0 .. Period
  BY Ranges
<1> QED
  BY <1>1, <1>3, <1>4, <1>5 DEF TimerType

LEMMA RunType ==
  ASSUME NEW t \in TimerType
  PROVE  Run(t) \in TimerType /\ Stop(t) \in TimerType
<1>1. Never \in 0 .. Never /\ Period \in 0 .. Period
  BY Ranges
<1> QED
  BY <1>1 DEF Run, Stop, TimerType

LEMMA NotifyType ==
  ASSUME NEW t \in TimerType
  PROVE  Notify(t) \in TimerType
<1>1. [i \in Slots |-> IF IsDue(t, i) THEN Free ELSE t.subs[i]]
        \in [Slots -> [key : Keys \cup {NoKey}, time : 0 .. Never]]
  BY FreeType DEF TimerType
<1>2. Notify(t) = [t EXCEPT !.subs = [i \in Slots |-> IF IsDue(t, i) THEN Free ELSE t.subs[i]]]
  BY DEF Notify, TimerType
<1> QED
  BY <1>1, <1>2 DEF TimerType

LEMMA AdvanceType ==
  ASSUME NEW t \in TimerType, NEW elapsed \in Nat
  PROVE  Advance(t, elapsed) \in TimerType
<1> DEFINE moved == [Run(t) EXCEPT !.current = (@ + elapsed) % Modulus, !.counter = 0]
           told == Notify(moved)
           j == NextSubscription(told)
           waiting == [told EXCEPT !.next = told.subs[j].time]
<1>1. moved \in TimerType
  <2>1. Run(t) \in TimerType /\ Run(t).current + elapsed \in Int
    BY RunType DEF TimerType
  <2>2. (Run(t).current + elapsed) % Modulus \in 0 .. Never /\ 0 \in 0 .. Period
    BY <2>1, ModTime, Ranges
  <2> QED
    BY <2>1, <2>2 DEF TimerType
<1>2. told \in TimerType
  BY <1>1, NotifyType
<1>3. j = 0 \/ j \in Slots
  BY <1>2, NextType
<1>4. j # 0 => told.subs[j].time \in 0 .. Never
  BY <1>2, <1>3 DEF TimerType
<1>5. Advance(t, elapsed) = IF moved.next > moved.current THEN Schedule(moved, moved.next)
        ELSE IF j = 0 THEN Stop(told) ELSE Schedule(waiting, told.subs[j].time)
  BY DEF Advance
<1> HIDE DEF moved, told, j
<1>6. j # 0 => waiting \in TimerType
  BY <1>2, <1>4 DEF TimerType
<1>7. moved.next \in 0 .. Never
  BY <1>1 DEF TimerType
<1> QED
  BY <1>1, <1>2, <1>4, <1>5, <1>6, <1>7, ScheduleType, RunType

LEMMA TimeAtType ==
  ASSUME NEW t \in TimerType, NEW i, i = 0 \/ i \in Slots
  PROVE  TimeAt(t, i) \in 0 .. Never
  BY TimerAssumption DEF TimeAt, TimerType, Never

LEMMA SubscribeType ==
  ASSUME NEW t \in TimerType, NEW i \in Slots, NEW k \in Keys, NEW d \in Timeouts
  PROVE  Subscribe(t, i, k, d) \in TimerType
<1> DEFINE time == (t.current + d) % Modulus
           updated == [t EXCEPT !.subs[i] = [key |-> k, time |-> time]]
           next == IF WasCloser(t, i, time) THEN NextSubscription(updated) ELSE i
<1>1. time \in 0 .. Never
  <2>1. t.current + d \in Int
    BY TimerAssumption DEF TimerType
  <2> QED
    BY <2>1, ModTime
<1> HIDE DEF time
<1>2. updated \in TimerType
  BY <1>1 DEF TimerType
<1>3. next = 0 \/ next \in Slots
  BY <1>2, NextType
<1>4. TimeAt(updated, next) \in 0 .. Never
  BY <1>2, <1>3, TimeAtType
<1>5. Subscribe(t, i, k, d)
        = IF WasNext(t, i) THEN Schedule(updated, TimeAt(updated, next)) ELSE updated
  BY DEF Subscribe, time
<1> HIDE DEF updated, next
<1> QED
  BY <1>2, <1>4, <1>5, ScheduleType

LEMMA UnsubscribeType ==
  ASSUME NEW t \in TimerType, NEW i \in Slots
  PROVE  Unsubscribe(t, i) \in TimerType
<1> DEFINE cleared == [t EXCEPT !.subs[i] = Free]
           next == NextSubscription(cleared)
<1>1. cleared \in TimerType
  BY FreeType DEF TimerType
<1>2. next = 0 \/ next \in Slots
  BY <1>1, NextType
<1>3. next # 0 => cleared.subs[next].time \in 0 .. Never
  BY <1>1, <1>2 DEF TimerType
<1>4. Unsubscribe(t, i) = IF t.next = t.subs[i].time /\ next # 0
                          THEN Schedule(cleared, cleared.subs[next].time) ELSE cleared
  BY DEF Unsubscribe
<1> HIDE DEF cleared, next
<1> QED
  BY <1>1, <1>3, <1>4, ScheduleType

LEMMA ElapsedType ==
  ASSUME NEW t \in TimerType, NEW n \in Nat
  PROVE  Elapsed(n, t) \in 0 .. Never /\ Elapsed(n, t) \in Nat
<1>1. n - (Period - t.tick) \in Int
  BY Ranges DEF TimerType
<1> QED
  BY <1>1, ModTime, ModRange DEF Elapsed

(***************************************************************************)
(* Every step keeps the types                                              *)
(***************************************************************************)
LEMMA TypesOf ==
  ASSUME TypeInv, NEW c \in Threads
  PROVE  /\ timer \in TimerType /\ caller[c] \in CallType /\ Placed(caller[c])
         /\ DOMAIN caller = Threads /\ due \in [Keys -> Nat]
         /\ fate \in [Keys -> {"none", "pending", "fired", "spurious"}]
BY DEF TypeInv, TypeOK, TimerType, CallType

\* A step of a thread that goes on with a call like this and leaves a timer like that
LEMMA StepTypes ==
  ASSUME TypeInv, NEW c \in Threads, NEW at, NEW call, NEW t, Step(c, at, call, t),
         call \in CallType, Placed(call), t \in TimerType,
         due' \in [Keys -> Nat], fate' \in [Keys -> {"none", "pending", "fired", "spurious"}],
         inTurn' \in BOOLEAN
  PROVE  TypeInv'
<1>1. /\ caller' = [caller EXCEPT ![c] = call] /\ timer' = t
      /\ UNCHANGED <<flag, calls, clock, lag, alone>> /\ whole' \in BOOLEAN
  BY DEF Step, TypeInv, TypeOK
<1>2. \A d \in Threads : caller'[d] = IF d = c THEN call ELSE caller[d]
  BY <1>1 DEF TypeInv, TypeOK
<1>3. caller' \in [Threads -> CallType] /\ \A d \in Threads : Placed(caller'[d])
  BY <1>1, <1>2 DEF TypeInv, TypeOK, CallType
<1>4. timer' \in TimerType
  BY <1>1
<1>5. (flag \in BOOLEAN /\ calls \in Nat /\ clock \in Nat /\ lag \in Nat /\ alone \in BOOLEAN)'
  BY <1>1 DEF TypeInv, TypeOK
<1> QED
  BY <1>1, <1>3, <1>4, <1>5 DEF TypeInv, TypeOK, TimerType, CallType, Placed

LEMMA QuietTypes ==
  ASSUME TypeInv, NEW c \in Threads, NEW at, NEW call, NEW t, Step(c, at, call, t), Quietly,
         call \in CallType, Placed(call), t \in TimerType
  PROVE  TypeInv'
<1>1. /\ due' \in [Keys -> Nat] /\ inTurn' \in BOOLEAN
      /\ fate' \in [Keys -> {"none", "pending", "fired", "spurious"}]
  BY DEF Quietly, TypeInv, TypeOK
<1> QED
  BY <1>1, StepTypes

\* A call that goes on from one place to another
LEMMA ToType ==
  ASSUME TypeInv, NEW c \in Threads, NEW at \in Places
  PROVE  /\ To(c, at) \in CallType /\ To(c, at).at = at /\ DOMAIN To(c, at) = DOMAIN Idle
         /\ To(c, at).key = caller[c].key /\ To(c, at).timeout = caller[c].timeout
         /\ To(c, at).asked = caller[c].asked /\ To(c, at).elapsed = caller[c].elapsed
         /\ To(c, at).time = caller[c].time /\ To(c, at).slot = caller[c].slot
         /\ To(c, at).told = caller[c].told /\ To(c, at).wasNext = caller[c].wasNext
         /\ To(c, at).wasCloser = caller[c].wasCloser
<1>1. caller[c] \in CallType
  BY TypesOf
<1> QED
  BY <1>1 DEF To, CallType, Idle

LEMMA GoesTo ==
  ASSUME TypeInv, NEW c \in Threads, NEW at \in Places, at # "idle", caller[c].at # "idle"
  PROVE  \E z \in CallType :
            /\ z = To(c, at) /\ z.at = at /\ z.key \in Keys /\ z.timeout \in Timeouts
            /\ z.slot = caller[c].slot /\ z.wasNext = caller[c].wasNext
<1>1. Placed(caller[c])
  BY TypesOf
<1> QED
  BY <1>1, ToType DEF Placed

LEMMA IdleType == Idle \in CallType /\ Placed(Idle)
  BY TimerAssumption, Ranges DEF Idle, CallType, Placed, Places, HasSlot, Decided

LEMMA ScheduledType ==
  ASSUME TypeInv, NEW c \in Threads, caller[c].at # "idle"
  PROVE  Scheduled(c) \in CallType /\ Placed(Scheduled(c))
<1>1. CASE caller[c].wasNext
  BY <1>1, IdleType DEF Scheduled
<1>2. CASE ~caller[c].wasNext
  <2>1. Scheduled(c) = [To(c, "find") EXCEPT !.time = 0] /\ 0 \in 0 .. Never
    BY <1>2, Ranges DEF Scheduled
  <2>2. "find" \in Places
    BY DEF Places
  <2>3. Placed(caller[c])
    BY TypesOf
  <2> QED
    BY <1>2, <2>1, <2>2, <2>3, ToType DEF CallType, Placed, HasSlot, Decided
<1> QED
  BY <1>1, <1>2

LEMMA AfterType ==
  ASSUME TypeInv, NEW c \in Threads, NEW i \in Slots, caller[c].at \in {"look", "due", "free"}
  PROVE  /\ After(c, i) \in CallType /\ Placed(After(c, i))
         /\ After(c, i).at = IF i < SlotCount THEN "look" ELSE "pick"
         /\ After(c, i).told = caller[c].told /\ After(c, i).key = caller[c].key
         /\ After(c, i).asked = caller[c].asked /\ After(c, i).wasNext = caller[c].wasNext
         /\ After(c, i).slot = IF i < SlotCount THEN i + 1 ELSE 0
<1>1. "look" \in Places /\ "pick" \in Places /\ 0 \in 0 .. SlotCount
  BY TimerAssumption DEF Places
<1>2. Placed(caller[c])
  BY TypesOf
<1>3. i < SlotCount => i + 1 \in Slots /\ i + 1 \in 0 .. SlotCount
  BY TimerAssumption DEF Slots
<1>4. CASE i < SlotCount
  <2>1. After(c, i) = [To(c, "look") EXCEPT !.slot = i + 1]
    BY <1>4 DEF After
  <2> QED
    BY <1>1, <1>2, <1>3, <1>4, <2>1, ToType DEF CallType, Placed, HasSlot, Decided
<1>5. CASE ~ (i < SlotCount)
  <2>1. After(c, i) = [To(c, "pick") EXCEPT !.slot = 0]
    BY <1>5 DEF After
  <2> QED
    BY <1>1, <1>2, <1>5, <2>1, ToType DEF CallType, Placed, HasSlot, Decided
<1> QED
  BY <1>4, <1>5

LEMMA AdvancingTypes ==
  ASSUME TypeInv, NEW c \in Threads, Measure(c) \/ Advancing(c)
  PROVE  TypeInv'
<1> DEFINE x == caller[c]
<1>0. /\ timer \in TimerType /\ x \in CallType /\ Placed(x)
  BY TypesOf
<1> USE <1>0
<1>1. CASE Measure(c)
  <2> DEFINE y == [To(c, "start") EXCEPT !.elapsed = Elapsed(x.elapsed, timer)]
  <2>1. Step(c, "measure", y, timer) /\ Quietly /\ x.at = "measure"
    <3>1. [To(c, "start") EXCEPT !.elapsed = Elapsed(@, timer)] = y
      BY ToType DEF Places
    <3> QED
      BY <1>1, <3>1 DEF Measure, Step
  <2>2. Elapsed(x.elapsed, timer) \in 0 .. Never
    BY ElapsedType, Ranges DEF CallType
  <2>3. y \in CallType /\ Placed(y)
    BY <2>1, <2>2, ToType DEF CallType, Placed, Places, HasSlot, Decided
  <2> QED
    BY <2>1, <2>3, QuietTypes
<1>2. CASE Start(c)
  <2> DEFINE at == IF timer.phase = "RUNNING" THEN "load" ELSE "run"
  <2>1. To(c, at) \in CallType /\ Placed(To(c, at))
    BY <1>2, ToType DEF Start, Step, Placed, Places, HasSlot, Decided
  <2> QED
    BY <1>2, <2>1, QuietTypes DEF Start
<1>3. CASE SetRunning(c)
  <2>1. To(c, "enable") \in CallType /\ Placed(To(c, "enable"))
    BY <1>3, ToType DEF SetRunning, Step, Placed, Places, HasSlot, Decided
  <2>2. [timer EXCEPT !.phase = "RUNNING"] \in TimerType
    BY DEF TimerType
  <2> QED
    BY <1>3, <2>1, <2>2, QuietTypes DEF SetRunning
<1>4. CASE Enable(c)
  <2>1. To(c, "load") \in CallType /\ Placed(To(c, "load"))
    BY <1>4, ToType DEF Enable, Step, Placed, Places, HasSlot, Decided
  <2>2. [timer EXCEPT !.enabled = TRUE] \in TimerType
    BY DEF TimerType
  <2> QED
    BY <1>4, <2>1, <2>2, QuietTypes DEF Enable
<1>5. CASE Load(c)
  <2> DEFINE y == [To(c, "add") EXCEPT !.time = timer.current]
  <2>1. x.at = "load" /\ timer.current \in 0 .. Never
    BY <1>5 DEF Load, Step, TimerType
  <2>2. PICK z \in CallType :
            /\ z = To(c, "add") /\ z.at = "add" /\ z.key \in Keys /\ z.timeout \in Timeouts
            /\ z.slot = x.slot /\ z.wasNext = x.wasNext
    BY <2>1, GoesTo DEF Places
  <2>3. y \in CallType /\ Placed(y)
    BY <2>1, <2>2 DEF CallType, Placed, HasSlot, Decided
  <2> QED
    BY <1>5, <2>3, QuietTypes DEF Load
<1>6. CASE Add(c)
  <2> DEFINE y == [To(c, "reset") EXCEPT !.time = 0, !.elapsed = 0]
             t == [timer EXCEPT !.current = (x.time + x.elapsed) % Modulus]
  <2>0. x.at = "add" /\ 0 \in 0 .. Never
    BY <1>6, Ranges DEF Add, Step
  <2>0a. PICK z \in CallType :
            /\ z = To(c, "reset") /\ z.at = "reset" /\ z.key \in Keys /\ z.timeout \in Timeouts
            /\ z.slot = x.slot /\ z.wasNext = x.wasNext
    BY <2>0, GoesTo DEF Places
  <2>1. y \in CallType /\ Placed(y)
    BY <2>0, <2>0a DEF CallType, Placed, HasSlot, Decided
  <2>2. (x.time + x.elapsed) % Modulus \in 0 .. Never
    <3>1. x.time + x.elapsed \in Int
      BY Ranges DEF CallType
    <3> QED
      BY <3>1, ModTime
  <2>3. t \in TimerType
    BY <2>2 DEF TimerType
  <2> QED
    BY <1>6, <2>1, <2>3, QuietTypes DEF Add
<1>7. CASE Reset(c)
  <2>1. To(c, "test") \in CallType /\ Placed(To(c, "test"))
    BY <1>7, ToType DEF Reset, Step, Placed, Places, HasSlot, Decided
  <2>2. [timer EXCEPT !.counter = 0] \in TimerType
    BY Ranges DEF TimerType
  <2> QED
    BY <1>7, <2>1, <2>2, QuietTypes DEF Reset
<1>8. CASE Test(c)
  <2> DEFINE y == [To(c, "schedule") EXCEPT !.time = timer.next]
             w == [To(c, "look") EXCEPT !.slot = 1]
  <2>0. x.at = "test" /\ timer.next \in 0 .. Never
    BY <1>8 DEF Test, Step, TimerType
  <2>0a. PICK z \in CallType :
            /\ z = To(c, "schedule") /\ z.at = "schedule" /\ z.key \in Keys /\ z.timeout \in Timeouts
            /\ z.slot = x.slot /\ z.wasNext = x.wasNext
    BY <2>0, GoesTo DEF Places
  <2>1. y \in CallType /\ Placed(y)
    BY <2>0, <2>0a DEF CallType, Placed, HasSlot, Decided
  <2>2. 1 \in 0 .. SlotCount /\ 1 \in Slots
    BY TimerAssumption DEF Slots
  <2>2a. PICK v \in CallType :
            /\ v = To(c, "look") /\ v.at = "look" /\ v.key \in Keys /\ v.timeout \in Timeouts
            /\ v.slot = x.slot /\ v.wasNext = x.wasNext
    BY <2>0, GoesTo DEF Places
  <2>3. w \in CallType /\ Placed(w)
    BY <2>0, <2>2, <2>2a DEF CallType, Placed, HasSlot, Decided
  <2> QED
    BY <1>8, <2>1, <2>3, QuietTypes DEF Test
<1>9. CASE Look(c)
  <2>1. x.at = "look" /\ x.slot \in Slots
    BY <1>9 DEF Look, Step, Placed, HasSlot
  <2>2. To(c, "due") \in CallType /\ Placed(To(c, "due"))
    BY <2>1, ToType DEF Placed, Places, HasSlot, Decided
  <2> QED
    BY <1>9, <2>1, <2>2, AfterType, QuietTypes DEF Look
<1>10. CASE Due(c)
  <2>1. x.at = "due" /\ x.slot \in Slots
    BY <1>10 DEF Due, Step, Placed, HasSlot
  <2>2. To(c, "read") \in CallType /\ Placed(To(c, "read"))
    BY <2>1, ToType DEF Placed, Places, HasSlot, Decided
  <2> QED
    BY <1>10, <2>1, <2>2, AfterType, QuietTypes DEF Due
<1>11. CASE Read(c)
  <2>1. PICK at \in {"free", "faulted"} :
           Step(c, "read", [To(c, at) EXCEPT !.told = timer.subs[x.slot].key], timer) /\ Quietly
    BY <1>11 DEF Read
  <2>2. x.at = "read" /\ x.slot \in Slots
    BY <2>1 DEF Step, Placed, HasSlot
  <2> DEFINE y == [To(c, at) EXCEPT !.told = timer.subs[x.slot].key]
  <2>3. timer.subs[x.slot].key \in Keys \cup {NoKey}
    BY <2>2 DEF TimerType
  <2>3a. PICK z \in CallType :
            /\ z = To(c, at) /\ z.at = at /\ z.key \in Keys /\ z.timeout \in Timeouts
            /\ z.slot = x.slot /\ z.wasNext = x.wasNext
    BY <2>2, GoesTo DEF Places
  <2>4. y \in CallType /\ Placed(y)
    BY <2>2, <2>3, <2>3a DEF CallType, Placed, HasSlot, Decided
  <2> QED
    BY <2>1, <2>4, QuietTypes
<1>12. CASE FreeSlot(c)
  <2>1. x.at = "free" /\ x.slot \in Slots
    BY <1>12 DEF FreeSlot, Step, Placed, HasSlot
  <2> DEFINE y == [After(c, x.slot) EXCEPT !.told = NoKey]
             t == [timer EXCEPT !.subs[x.slot] = Free]
  <2>2. After(c, x.slot) \in CallType /\ Placed(After(c, x.slot))
        /\ After(c, x.slot).at \in {"look", "pick"}
    BY <2>1, AfterType
  <2>3. y \in CallType /\ Placed(y)
    BY <2>2 DEF CallType, Placed
  <2>4. t \in TimerType
    BY <2>1, FreeType DEF TimerType
  <2>5. /\ due' \in [Keys -> Nat] /\ inTurn' \in BOOLEAN
        /\ fate' \in [Keys -> {"none", "pending", "fired", "spurious"}]
    BY <1>12 DEF FreeSlot, TypeInv, TypeOK
  <2> QED
    BY <1>12, <2>3, <2>4, <2>5, StepTypes DEF FreeSlot
<1>13. CASE Pick(c)
  <2> DEFINE n == NextSubscription(timer)
             y == [To(c, "await") EXCEPT !.slot = n]
  <2>1. x.at = "pick" /\ (n = 0 \/ n \in Slots) /\ Slots \subseteq 0 .. SlotCount
    BY <1>13, NextType, TimerAssumption DEF Pick, Step, Slots
  <2>2. To(c, "halt") \in CallType /\ Placed(To(c, "halt"))
    BY <2>1, ToType DEF Placed, Places, HasSlot, Decided
  <2> HIDE DEF n
  <2>2a. PICK z \in CallType :
            /\ z = To(c, "await") /\ z.at = "await" /\ z.key \in Keys /\ z.timeout \in Timeouts
            /\ z.slot = x.slot /\ z.wasNext = x.wasNext
    BY <2>1, GoesTo DEF Places
  <2>3. n # 0 => y \in CallType /\ Placed(y)
    BY <2>1, <2>2a DEF CallType, Placed, HasSlot, Decided
  <2>4. Step(c, "pick", IF n = 0 THEN To(c, "halt") ELSE y, timer) /\ Quietly
    BY <1>13 DEF Pick, n
  <2> QED
    BY <2>2, <2>3, <2>4, QuietTypes
<1>14. CASE Await(c)
  <2>1. x.at = "await" /\ x.slot \in Slots
    BY <1>14 DEF Await, Step, Placed, HasSlot
  <2>2. timer.subs[x.slot].time \in 0 .. Never
    BY <2>1 DEF TimerType
  <2> DEFINE y == [To(c, "schedule") EXCEPT !.slot = 0, !.time = timer.subs[x.slot].time]
             t == [timer EXCEPT !.next = timer.subs[x.slot].time]
  <2>2a. PICK z \in CallType :
            /\ z = To(c, "schedule") /\ z.at = "schedule" /\ z.key \in Keys /\ z.timeout \in Timeouts
            /\ z.slot = x.slot /\ z.wasNext = x.wasNext
    BY <2>1, GoesTo DEF Places
  <2>2b. 0 \in 0 .. SlotCount
    BY TimerAssumption
  <2>3. y \in CallType /\ Placed(y)
    BY <2>1, <2>2, <2>2a, <2>2b DEF CallType, Placed, HasSlot, Decided
  <2>4. t \in TimerType
    BY <2>2 DEF TimerType
  <2> QED
    BY <1>14, <2>3, <2>4, QuietTypes DEF Await
<1>15. CASE Halt(c)
  <2>1. To(c, "stop") \in CallType /\ Placed(To(c, "stop"))
    BY <1>15, ToType DEF Halt, Step, Placed, Places, HasSlot, Decided
  <2>2. [timer EXCEPT !.phase = "IDLE"] \in TimerType
    BY DEF TimerType
  <2> QED
    BY <1>15, <2>1, <2>2, QuietTypes DEF Halt
<1>16. CASE ForgetNext(c)
  <2>1. To(c, "still") \in CallType /\ Placed(To(c, "still"))
    BY <1>16, ToType DEF ForgetNext, Step, Placed, Places, HasSlot, Decided
  <2>2. [timer EXCEPT !.next = Never] \in TimerType
    BY Ranges DEF TimerType
  <2> QED
    BY <1>16, <2>1, <2>2, QuietTypes DEF ForgetNext
<1>17. CASE ForgetTick(c)
  <2>1. To(c, "disable") \in CallType /\ Placed(To(c, "disable"))
    BY <1>17, ToType DEF ForgetTick, Step, Placed, Places, HasSlot, Decided
  <2>2. [timer EXCEPT !.tick = Period] \in TimerType
    BY Ranges DEF TimerType
  <2> QED
    BY <1>17, <2>1, <2>2, QuietTypes DEF ForgetTick
<1>18. CASE Disable(c)
  <2>1. To(c, "find") \in CallType /\ Placed(To(c, "find"))
    BY <1>18, ToType DEF Disable, Step, Placed, Places, HasSlot, Decided
  <2>2. [timer EXCEPT !.enabled = FALSE] \in TimerType
    BY DEF TimerType
  <2> QED
    BY <1>18, <2>1, <2>2, QuietTypes DEF Disable
<1> QED
  BY <1>1, <1>2, <1>3, <1>4, <1>5, <1>6, <1>7, <1>8, <1>9, <1>10, <1>11, <1>12, <1>13, <1>14,
     <1>15, <1>16, <1>17, <1>18 DEF Advancing

LEMMA SubscribingTypes ==
  ASSUME TypeInv, NEW c \in Threads, Subscribing(c)
  PROVE  TypeInv'
<1> DEFINE x == caller[c]
<1>0. /\ timer \in TimerType /\ x \in CallType /\ Placed(x)
  BY TypesOf
<1> USE <1>0
<1>1. CASE FindSlot(c)
  <2> DEFINE i == Slot(timer, x.key)
             y == [To(c, "claim") EXCEPT !.slot = i]
  <2>1. x.at = "find" /\ i \in 0 .. SlotCount /\ (i # 0 => i \in Slots)
    BY <1>1, SlotType DEF FindSlot, Step
  <2>2. Step(c, "find", IF i = 0 THEN Idle ELSE y, timer) /\ Quietly
    BY <1>1 DEF FindSlot
  <2> HIDE DEF i
  <2>3. i # 0 => y \in CallType /\ Placed(y)
    BY <2>1, ToType DEF CallType, Placed, Places, HasSlot, Decided
  <2> QED
    BY <2>2, <2>3, IdleType, QuietTypes
<1>2. CASE Claim(c)
  <2>1. x.at = "claim" /\ x.slot \in Slots /\ x.key \in Keys
    BY <1>2 DEF Claim, Step, Placed, HasSlot
  <2>2. To(c, "compare") \in CallType /\ Placed(To(c, "compare"))
    BY <2>1, ToType DEF Placed, Places, HasSlot, Decided
  <2>3. [timer EXCEPT !.subs[x.slot].key = x.key] \in TimerType
    BY <2>1 DEF TimerType
  <2> QED
    BY <1>2, <2>2, <2>3, QuietTypes DEF Claim
<1>3. CASE Compare(c)
  <2> DEFINE time == (timer.current + x.timeout) % Modulus
             y == [To(c, "settime") EXCEPT !.time = time, !.wasNext = WasNext(timer, x.slot),
                                           !.wasCloser = WasCloser(timer, x.slot, time)]
  <2>1. Step(c, "compare", y, timer) /\ Quietly /\ x.at = "compare" /\ x.slot \in Slots
    BY <1>3 DEF Compare, Step, Placed, HasSlot
  <2>2. time \in 0 .. Never
    <3>1. timer.current + x.timeout \in Int
      BY TimerAssumption DEF TimerType, CallType
    <3> QED
      BY <3>1, ModTime
  <2>3. WasNext(timer, x.slot) \in BOOLEAN /\ \A n : WasCloser(timer, x.slot, n) \in BOOLEAN
    BY DEF WasNext, WasCloser
  <2> HIDE DEF time
  <2>3a. PICK z \in CallType :
            /\ z = To(c, "settime") /\ z.at = "settime" /\ z.key \in Keys /\ z.timeout \in Timeouts
            /\ z.slot = x.slot /\ z.wasNext = x.wasNext
    BY <2>1, GoesTo DEF Places
  <2>4. y \in CallType /\ Placed(y)
    BY <2>1, <2>2, <2>3, <2>3a DEF CallType, Placed, HasSlot, Decided
  <2> QED
    BY <2>1, <2>4, QuietTypes
<1>4. CASE SetTime(c)
  <2>1. x.at = "settime" /\ x.slot \in Slots /\ x.key \in Keys /\ x.timeout \in Timeouts
    BY <1>4 DEF SetTime, Step, Placed, HasSlot
  <2>2. To(c, "rank") \in CallType /\ (x.wasNext => Placed(To(c, "rank")))
    BY <2>1, ToType DEF Placed, Places, HasSlot, Decided
  <2>3. [timer EXCEPT !.subs[x.slot].time = x.time] \in TimerType
    BY <2>1 DEF TimerType, CallType
  <2>4. x.asked + x.timeout \in Nat
    BY <2>1, TimerAssumption DEF CallType
  <2>5. /\ due' \in [Keys -> Nat] /\ inTurn' \in BOOLEAN
        /\ fate' \in [Keys -> {"none", "pending", "fired", "spurious"}]
    BY <1>4, <2>1, <2>4 DEF SetTime, TypeInv, TypeOK
  <2> QED
    BY <1>4, <2>2, <2>3, <2>5, IdleType, StepTypes DEF SetTime
<1>5. CASE Rank(c)
  <2> DEFINE n == NextSubscription(timer)
             y == [To(c, "ask") EXCEPT !.slot = n]
  <2>1. x.at = "rank" /\ n \in 0 .. SlotCount
    BY <1>5, NextType, TimerAssumption DEF Rank, Step, Slots
  <2>2. Step(c, "rank", IF x.wasCloser THEN y ELSE To(c, "ask"), timer) /\ Quietly
    BY <1>5 DEF Rank
  <2> HIDE DEF n
  <2>3. /\ y \in CallType /\ Placed(y) /\ To(c, "ask") \in CallType /\ Placed(To(c, "ask"))
    BY <2>1, ToType DEF CallType, Placed, Places, HasSlot, Decided
  <2> QED
    BY <2>2, <2>3, QuietTypes
<1>6. CASE Ask(c)
  <2> DEFINE y == [To(c, "schedule") EXCEPT !.slot = 0, !.time = TimeAt(timer, x.slot)]
  <2>1. Step(c, "ask", y, timer) /\ Quietly /\ x.at = "ask"
    BY <1>6 DEF Ask, Step
  <2>2. TimeAt(timer, x.slot) \in 0 .. Never
    <3>1. x.slot = 0 \/ x.slot \in Slots
      BY TimerAssumption DEF CallType, Slots
    <3> QED
      BY <3>1, TimeAtType
  <2>2a. PICK z \in CallType :
            /\ z = To(c, "schedule") /\ z.at = "schedule" /\ z.key \in Keys /\ z.timeout \in Timeouts
            /\ z.slot = x.slot /\ z.wasNext = x.wasNext
    BY <2>1, GoesTo DEF Places
  <2>2b. 0 \in 0 .. SlotCount
    BY TimerAssumption
  <2>3. y \in CallType /\ Placed(y)
    BY <2>1, <2>2, <2>2a, <2>2b DEF CallType, Placed, HasSlot, Decided
  <2> QED
    BY <2>1, <2>3, QuietTypes
<1> QED
  BY <1>1, <1>2, <1>3, <1>4, <1>5, <1>6 DEF Subscribing

LEMMA SchedulingTypes ==
  ASSUME TypeInv, NEW c \in Threads, Scheduling(c)
  PROVE  TypeInv'
<1> DEFINE x == caller[c]
<1>0. /\ timer \in TimerType /\ x \in CallType /\ Placed(x)
  BY TypesOf
<1> USE <1>0
<1>1. CASE ScheduleNext(c)
  <2>1. To(c, "tick") \in CallType /\ Placed(To(c, "tick"))
    BY <1>1, ToType DEF ScheduleNext, Step, Placed, Places, HasSlot, Decided
  <2>2. [timer EXCEPT !.next = IF timer.next > x.time THEN x.time ELSE timer.next] \in TimerType
    BY DEF TimerType, CallType
  <2>3. [timer EXCEPT !.next = IF @ > x.time THEN x.time ELSE @]
          = [timer EXCEPT !.next = IF timer.next > x.time THEN x.time ELSE timer.next]
    BY DEF TimerType
  <2> QED
    BY <1>1, <2>1, <2>2, <2>3, QuietTypes DEF ScheduleNext
<1>2. CASE SetTick(c)
  <2> DEFINE d == (timer.next - timer.current) % Modulus
             t == [timer EXCEPT !.tick = IF d < Period THEN d ELSE Period]
             y == IF d < Period THEN To(c, "counter") ELSE Scheduled(c)
  <2>1. Step(c, "tick", y, t) /\ Quietly /\ x.at = "tick"
    BY <1>2 DEF SetTick, Step
  <2>2. d \in 0 .. Never
    <3>1. timer.next - timer.current \in Int
      BY Ranges DEF TimerType
    <3> QED
      BY <3>1, ModTime
  <2> HIDE DEF d
  <2>3. t \in TimerType
    <3>1. (IF d < Period THEN d ELSE Period) \in 0 .. Period
      BY <2>2, Ranges
    <3> QED
      BY <3>1 DEF TimerType
  <2>4. y \in CallType /\ Placed(y)
    <3>1. To(c, "counter") \in CallType /\ Placed(To(c, "counter"))
      BY <2>1, ToType DEF Placed, Places, HasSlot, Decided
    <3> QED
      BY <2>1, <3>1, ScheduledType
  <2> QED
    BY <2>1, <2>3, <2>4, QuietTypes
<1>3. CASE SetCounter(c)
  <2>1. x.at = "counter"
    BY <1>3 DEF SetCounter, Step
  <2>2. [timer EXCEPT !.counter = Period - timer.tick] \in TimerType
    BY Ranges DEF TimerType
  <2> QED
    BY <1>3, <2>1, <2>2, ScheduledType, QuietTypes DEF SetCounter
<1> QED
  BY <1>1, <1>2, <1>3 DEF Scheduling

LEMMA SignalledType ==
  ASSUME TypeInv, NEW t
  PROVE  Signalled(t) \in [Keys -> {"none", "pending", "fired", "spurious"}]
  BY DEF TypeInv, TypeOK, Signalled

\* What a step of a handler keeps the types of
LEMMA HandlerTypes ==
  ASSUME TypeInv, timer' \in TimerType, UNCHANGED caller,
         due' \in [Keys -> Nat], fate' \in [Keys -> {"none", "pending", "fired", "spurious"}],
         flag' \in BOOLEAN, calls' \in Nat, clock' \in Nat, lag' \in Nat,
         alone' \in BOOLEAN, inTurn' \in BOOLEAN, whole' \in BOOLEAN
  PROVE  TypeInv'
  BY DEF TypeInv, TypeOK, TimerType, Placed

LEMMA TimeoutTypes ==
  ASSUME TypeInv, NEW k \in Keys, NEW d \in Timeouts, Timeout(k, d)
  PROVE  TypeInv'
<1> DEFINE u == Advance(timer, Elapsed(timer.counter, timer))
           i == Slot(u, k)
<1>1. timer \in TimerType /\ u \in TimerType
  <2>1. timer \in TimerType
    BY DEF TypeInv, TypeOK, TimerType
  <2>2. Elapsed(timer.counter, timer) \in Nat
    BY <2>1, ElapsedType DEF TimerType
  <2> QED
    BY <2>1, <2>2, AdvanceType
<1>2. i # 0 => i \in Slots
  BY SlotType
<1>3. \/ i = 0 /\ timer' = u /\ fate' = Signalled(u) /\ UNCHANGED <<due, inTurn>>
      \/ /\ i # 0 /\ timer' = Subscribe(u, i, k, d) /\ fate' = [Signalled(u) EXCEPT ![k] = "pending"]
         /\ due' = [due EXCEPT ![k] = clock + d]
         /\ inTurn' = (inTurn /\ InTurn(u, i, d))
  BY DEF Timeout
<1>4. UNCHANGED <<flag, caller, clock, lag>> /\ calls' = calls + 1
      /\ alone' \in BOOLEAN /\ whole' \in BOOLEAN
  BY DEF Timeout, Call, HandlerSpares, TypeInv, TypeOK
<1> HIDE DEF u, i
<1>5. timer' \in TimerType
  BY <1>1, <1>2, <1>3, SubscribeType
<1>6. fate' \in [Keys -> {"none", "pending", "fired", "spurious"}]
  BY <1>3, SignalledType
<1>7. due' \in [Keys -> Nat]
  <2>1. clock + d \in Nat
    BY TimerAssumption DEF TypeInv, TypeOK
  <2> QED
    BY <1>3, <2>1 DEF TypeInv, TypeOK
<1>7a. inTurn' \in BOOLEAN
  BY <1>3 DEF TypeInv, TypeOK
<1>8. flag \in BOOLEAN /\ calls + 1 \in Nat /\ clock \in Nat /\ lag \in Nat
  BY DEF TypeInv, TypeOK
<1> QED
  BY <1>4, <1>5, <1>6, <1>7, <1>7a, <1>8, HandlerTypes

LEMMA ClearTypes ==
  ASSUME TypeInv, NEW k \in Keys, Clear(k)
  PROVE  TypeInv'
<1> DEFINE i == Slot(timer, k)
<1>1. timer \in TimerType
  BY DEF TypeInv, TypeOK, TimerType
<1>2. i # 0 => i \in Slots
  BY SlotType
<1>3. timer' = IF i = 0 THEN timer ELSE Unsubscribe(timer, i)
  BY DEF Clear
<1> HIDE DEF i
<1>4. timer' \in TimerType
  BY <1>1, <1>2, <1>3, UnsubscribeType
<1>5. /\ UNCHANGED <<flag, caller, clock, lag, due, inTurn>> /\ calls' = calls + 1
      /\ fate' = [fate EXCEPT ![k] = "none"] /\ alone' \in BOOLEAN /\ whole' \in BOOLEAN
  BY DEF Clear, Call, HandlerSpares, TypeInv, TypeOK
<1>6. /\ flag \in BOOLEAN /\ calls + 1 \in Nat /\ clock \in Nat /\ lag \in Nat
      /\ due \in [Keys -> Nat] /\ inTurn \in BOOLEAN
      /\ fate' \in [Keys -> {"none", "pending", "fired", "spurious"}]
  BY <1>5 DEF TypeInv, TypeOK
<1> QED
  BY <1>4, <1>5, <1>6, HandlerTypes

LEMMA InterruptTypes ==
  ASSUME TypeInv, Interrupt
  PROVE  TypeInv'
<1>1. timer \in TimerType /\ timer.tick \in Nat
  BY Ranges DEF TypeInv, TypeOK, TimerType
<1>2. timer' \in TimerType
  BY <1>1, AdvanceType DEF Interrupt
<1>3. fate' \in [Keys -> {"none", "pending", "fired", "spurious"}]
  BY SignalledType DEF Interrupt
<1>4. /\ UNCHANGED <<caller, calls, clock, lag, due, alone, inTurn>>
      /\ flag' = FALSE /\ whole' \in BOOLEAN
  BY DEF Interrupt, HandlerSpares, TypeInv, TypeOK
<1>5. /\ calls \in Nat /\ clock \in Nat /\ lag \in Nat /\ due \in [Keys -> Nat]
      /\ alone \in BOOLEAN /\ inTurn \in BOOLEAN
  BY DEF TypeInv, TypeOK
<1> QED
  BY <1>2, <1>3, <1>4, <1>5, HandlerTypes

LEMMA TickTypes ==
  ASSUME TypeInv, Tick
  PROVE  TypeInv'
<1>1. timer \in TimerType
  BY DEF TypeInv, TypeOK, TimerType
<1>2. timer' \in TimerType
  <2>1. timer' = timer \/ \E n \in 0 .. Period : timer' = [timer EXCEPT !.counter = n]
    <3>1. timer.counter # Period => timer.counter + 1 \in 0 .. Period
      BY <1>1, Ranges DEF TimerType
    <3>2. 0 \in 0 .. Period
      BY Ranges
    <3>3. CASE timer.enabled /\ timer.counter = Period
      BY <3>2, <3>3 DEF Tick
    <3>4. CASE timer.enabled /\ timer.counter # Period
      <4>1. timer' = [timer EXCEPT !.counter = timer.counter + 1]
        BY <1>1, <3>4 DEF Tick, TimerType
      <4> QED
        BY <3>1, <3>4, <4>1
    <3>5. CASE ~timer.enabled
      BY <3>5 DEF Tick
    <3> QED
      BY <3>3, <3>4, <3>5
  <2> QED
    BY <1>1, <2>1 DEF TimerType
<1>3. /\ UNCHANGED <<caller, calls, due, fate, inTurn, whole>>
      /\ clock' = clock + 1 /\ (lag' = lag \/ lag' = lag + 1)
      /\ flag' \in BOOLEAN /\ alone' \in BOOLEAN
  BY DEF Tick, TypeInv, TypeOK
<1>4. /\ calls \in Nat /\ clock + 1 \in Nat /\ lag \in Nat /\ lag + 1 \in Nat
      /\ due \in [Keys -> Nat] /\ inTurn \in BOOLEAN /\ whole \in BOOLEAN
      /\ fate \in [Keys -> {"none", "pending", "fired", "spurious"}]
  BY DEF TypeInv, TypeOK
<1> QED
  BY <1>2, <1>3, <1>4, HandlerTypes

LEMMA ReadCounterTypes ==
  ASSUME TypeInv, NEW c \in Threads, NEW k \in Keys, NEW d \in Timeouts, ReadCounter(c, k, d)
  PROVE  TypeInv'
<1> DEFINE call == [Idle EXCEPT !.at = "measure", !.key = k, !.timeout = d, !.asked = clock,
                                !.elapsed = timer.counter]
<1>1. call \in CallType /\ Placed(call)
  <2>1. clock \in Nat /\ timer.counter \in 0 .. Never
    BY Ranges DEF TypeInv, TypeOK
  <2>2. /\ call.at = "measure" /\ call.key = k /\ call.timeout = d /\ call.asked = clock
        /\ call.elapsed = timer.counter /\ call.time = 0 /\ call.slot = 0 /\ call.told = NoKey
        /\ call.wasNext = FALSE /\ call.wasCloser = FALSE
    BY DEF Idle
  <2>3. call \in CallType
    BY <2>1, IdleType DEF CallType, Places
  <2> HIDE DEF call
  <2> QED
    BY <2>2, <2>3 DEF Placed, HasSlot, Decided
<1>2. /\ caller' = [caller EXCEPT ![c] = call] /\ calls' = calls + 1
      /\ UNCHANGED <<timer, flag, clock, lag, due, fate, inTurn>>
      /\ alone' \in BOOLEAN /\ whole' \in BOOLEAN
  BY DEF ReadCounter, Call, TypeInv, TypeOK
<1> HIDE DEF call
<1>3. /\ caller' \in [Threads -> CallType]
      /\ \A b \in Threads : caller'[b] = IF b = c THEN call ELSE caller[b]
  BY <1>1, <1>2 DEF TypeInv, TypeOK, CallType
<1>4. \A b \in Threads : Placed(caller'[b])
  BY <1>1, <1>3 DEF TypeInv
<1>5. /\ timer' \in TimerType /\ flag' \in BOOLEAN /\ calls' \in Nat /\ clock' \in Nat
      /\ lag' \in Nat /\ due' \in [Keys -> Nat] /\ inTurn' \in BOOLEAN
      /\ fate' \in [Keys -> {"none", "pending", "fired", "spurious"}]
  BY <1>2 DEF TypeInv, TypeOK, TimerType
<1> QED
  BY <1>2, <1>3, <1>4, <1>5 DEF TypeInv, TypeOK, TimerType, CallType, Placed

LEMMA TypeInit == Init => TypeInv
<1> SUFFICES ASSUME Init PROVE TypeInv
  OBVIOUS
<1>1. timer \in TimerType
  <2>1. [i \in Slots |-> Free] \in [Slots -> [key : Keys \cup {NoKey}, time : 0 .. Never]]
    BY FreeType
  <2> QED
    BY <2>1, Ranges DEF Init, TimerType
<1>2. caller \in [Threads -> CallType] /\ \A c \in Threads : Placed(caller[c])
  BY IdleType DEF Init
<1> QED
  BY <1>1, <1>2 DEF Init, TypeInv, TypeOK, TimerType, CallType

LEMMA TypeAlways == Spec => []TypeInv
<1>1. TypeInv /\ [Next]_vars => TypeInv'
  <2> SUFFICES ASSUME TypeInv, [Next]_vars PROVE TypeInv'
    OBVIOUS
  <2>1. CASE Interrupt
    BY <2>1, InterruptTypes
  <2>2. CASE \E h \in Handlers : HandlerStep(h)
    BY <2>2, TimeoutTypes, ClearTypes DEF HandlerStep
  <2>3. CASE \E c \in Threads : ThreadStep(c)
    BY <2>3, AdvancingTypes, SubscribingTypes, SchedulingTypes DEF ThreadStep
  <2>4. CASE \E c \in Threads, k \in ThreadKeys, d \in Timeouts : ReadCounter(c, k, d)
    BY <2>4, ReadCounterTypes, TimerAssumption
  <2>5. CASE Tick
    BY <2>5, TickTypes
  <2>6. CASE UNCHANGED vars
    BY <2>6 DEF vars, TypeInv, TypeOK, Placed
  <2> QED
    BY <2>1, <2>2, <2>3, <2>4, <2>5, <2>6 DEF Next
<1> QED
  BY TypeInit, <1>1, PTL DEF Spec

\* Whoever interrupts whom, every field has its type: a slot that is read or
\* written is one of the table, the interval set in the counter is never
\* longer than the period, and a time wraps around at 2^32.
THEOREM TypeCorrect == Spec => []TypeOK
<1>1. TypeInv => TypeOK
  BY DEF TypeInv
<1> QED
  BY TypeAlways, <1>1, PTL

(***************************************************************************)
(* The table.  While no call meets another one or a pending interrupt, a   *)
(* key has one slot, and what has become of the timeouts agrees with it.   *)
(***************************************************************************)
\* The table is there, whatever its times
Table(t) == "subs" \in DOMAIN t /\ DOMAIN t.subs = Slots

\* From t to u slots were freed, and nothing else
Freed(t, u) ==
    Table(u) /\ \A i \in Slots : u.subs[i].key = t.subs[i].key \/ u.subs[i].key = NoKey

\* A slot that a key may be put into
Takes(t, i, k) ==
    i \in Slots /\ (t.subs[i].key = k \/ (t.subs[i].key = NoKey /\ ~Holds(t, k)))

Unique(t) ==
    \A i, j \in Slots : t.subs[i].key \in Keys /\ t.subs[i].key = t.subs[j].key => i = j

\* What has become of the timeouts agrees with the table ...
Agrees(t, f) == \A k \in Keys : f[k] # "spurious" /\ (f[k] = "pending" <=> Holds(t, k))

\* ... but for the key whose slot a call is about to fill in
Agreement ==
    \A k \in Keys : fate[k] # "spurious" /\ (~Half(k) => (fate[k] = "pending" <=> Holds(timer, k)))

\* A call that nobody met is the only one, and no interrupt is pending
AloneCall ==
    \A c \in Threads : caller[c] # Idle =>
        ~flag /\ \A d \in Threads : caller[d] # Idle => d = c

\* What a call knows of its slot
InSlot(call, t) ==
    /\ call.at \in {"due", "read"} => t.subs[call.slot].key \in Keys
    /\ call.at = "free" => call.told \in Keys /\ t.subs[call.slot].key = call.told
    /\ call.at = "claim" => Takes(t, call.slot, call.key)
    /\ call.at \in {"compare", "settime"} => t.subs[call.slot].key = call.key

Structure ==
    /\ Unique(timer) /\ Agreement /\ AloneCall
    /\ \A c \in Threads : InSlot(caller[c], timer)

IInv == TypeInv /\ (alone => Structure)

\* Nobody is in the driver, or only one thread
LEMMA IdleInSlot ==
  ASSUME NEW t
  PROVE  InSlot(Idle, t)
<1>1. Idle.at = "idle"
  BY DEF Idle
<1> QED
  BY <1>1 DEF InSlot

LEMMA NobodyElse ==
  ASSUME NEW c \in Threads, ~flag', InSlot(caller'[c], timer'),
         \A b \in Threads : b # c => caller'[b] = Idle
  PROVE  AloneCall' /\ \A b \in Threads : InSlot(caller[b], timer)'
<1>1. AloneCall'
  BY DEF AloneCall
<1>2. ASSUME NEW b \in Threads
      PROVE  InSlot(caller'[b], timer')
  <2>1. CASE b = c
    BY <2>1
  <2>2. CASE b # c
    BY <2>2, IdleInSlot
  <2> QED
    BY <2>1, <2>2
<1> QED
  BY <1>1, <1>2

LEMMA TableOf ==
  ASSUME NEW t \in TimerType
  PROVE  /\ Table(t)
         /\ \A i \in Slots : t.subs[i].key \in Keys \cup {NoKey} /\ t.subs[i].time \in 0 .. Never
  BY DEF TimerType, Table

(***************************************************************************)
(* The functions of the driver                                             *)
(***************************************************************************)
LEMMA SchedulesKeepTable ==
  ASSUME NEW t, NEW time, Table(t)
  PROVE  Table(Schedule(t, time)) /\ Schedule(t, time).subs = t.subs
  BY DEF Schedule, Table

LEMMA RunKeepsTable ==
  ASSUME NEW t, Table(t)
  PROVE  /\ Table(Run(t)) /\ Run(t).subs = t.subs
         /\ Table(Stop(t)) /\ Stop(t).subs = t.subs
  BY DEF Run, Stop, Table

LEMMA NotifyFrees ==
  ASSUME NEW t, Table(t)
  PROVE  Freed(t, Notify(t))
<1>1. Notify(t).subs = [i \in Slots |-> IF IsDue(t, i) THEN Free ELSE t.subs[i]]
  BY DEF Notify, Table
<1>2. "subs" \in DOMAIN Notify(t)
  BY DEF Notify, Table
<1> QED
  BY <1>1, <1>2 DEF Freed, Table, Free

LEMMA AdvanceFrees ==
  ASSUME NEW t, NEW elapsed, Table(t)
  PROVE  Freed(t, Advance(t, elapsed))
<1> DEFINE moved == [Run(t) EXCEPT !.current = (@ + elapsed) % Modulus, !.counter = 0]
           told == Notify(moved)
           next == NextSubscription(told)
           waiting == [told EXCEPT !.next = told.subs[next].time]
<1>1. Table(moved) /\ moved.subs = t.subs
  BY RunKeepsTable DEF Table
<1>2. Freed(t, told)
  BY <1>1, NotifyFrees DEF Freed
<1>3. Table(waiting) /\ waiting.subs = told.subs
  BY <1>2 DEF Freed, Table
<1>4. \/ Advance(t, elapsed) = Schedule(moved, moved.next)
      \/ Advance(t, elapsed) = Stop(told)
      \/ Advance(t, elapsed) = Schedule(waiting, told.subs[next].time)
  BY DEF Advance
<1> HIDE DEF moved, told, next, waiting
<1>5. CASE Advance(t, elapsed) = Schedule(moved, moved.next)
  BY <1>1, <1>5, SchedulesKeepTable DEF Freed
<1>6. CASE Advance(t, elapsed) = Stop(told)
  BY <1>2, <1>6, RunKeepsTable DEF Freed
<1>7. CASE Advance(t, elapsed) = Schedule(waiting, told.subs[next].time)
  BY <1>2, <1>3, <1>7, SchedulesKeepTable DEF Freed
<1> QED
  BY <1>4, <1>5, <1>6, <1>7

LEMMA SubscribeFills ==
  ASSUME NEW t, NEW i, NEW k, NEW timeout, Table(t)
  PROVE  /\ Table(Subscribe(t, i, k, timeout))
         /\ i \in Slots => \A j \in Slots : Subscribe(t, i, k, timeout).subs[j].key
                                             = IF j = i THEN k ELSE t.subs[j].key
<1> DEFINE time == (t.current + timeout) % Modulus
           updated == [t EXCEPT !.subs[i] = [key |-> k, time |-> time]]
<1>1. /\ Table(updated)
      /\ i \in Slots => \A j \in Slots : updated.subs[j].key = IF j = i THEN k ELSE t.subs[j].key
  BY DEF Table
<1>2. \/ Subscribe(t, i, k, timeout) = updated
      \/ \E x : Subscribe(t, i, k, timeout) = Schedule(updated, x)
  BY DEF Subscribe
<1> HIDE DEF updated
<1> QED
  BY <1>1, <1>2, SchedulesKeepTable

LEMMA UnsubscribeFrees ==
  ASSUME NEW t, NEW i \in Slots, Table(t)
  PROVE  /\ Table(Unsubscribe(t, i))
         /\ \A j \in Slots : Unsubscribe(t, i).subs[j].key
                               = IF j = i THEN NoKey ELSE t.subs[j].key
<1> DEFINE cleared == [t EXCEPT !.subs[i] = Free]
<1>1. /\ Table(cleared)
      /\ \A j \in Slots : cleared.subs[j].key = IF j = i THEN NoKey ELSE t.subs[j].key
  BY DEF Table, Free
<1>2. \/ Unsubscribe(t, i) = cleared
      \/ \E x : Unsubscribe(t, i) = Schedule(cleared, x)
  BY DEF Unsubscribe
<1> HIDE DEF cleared
<1> QED
  BY <1>1, <1>2, SchedulesKeepTable

LEMMA SlotTakes ==
  ASSUME NEW t, NEW k \in Keys, Slot(t, k) # 0
  PROVE  Takes(t, Slot(t, k), k)
<1> DEFINE own == {i \in Slots : t.subs[i].key = k}
           free == {i \in Slots : t.subs[i].key = NoKey}
<1>1. CASE own # {}
  BY <1>1, LeastSlot DEF Slot, Takes
<1>2. CASE own = {}
  BY <1>2, LeastSlot DEF Slot, Takes, Holds
<1> QED
  BY <1>1, <1>2

\* A key without a slot of its own, in a table that has none free
LEMMA NoSlotNotHeld ==
  ASSUME NEW t, NEW k \in Keys, Slot(t, k) = 0
  PROVE  ~Holds(t, k)
<1> SUFFICES ASSUME {i \in Slots : t.subs[i].key = k} # {} PROVE FALSE
  BY DEF Holds
<1>1. Slot(t, k) \in Slots
  BY LeastSlot DEF Slot
<1> QED
  BY <1>1, TimerAssumption DEF Slots

\* After slots were freed and their keys signalled, the table still agrees
LEMMA FreedAgrees ==
  ASSUME NEW u, Freed(timer, u), Unique(timer), Agrees(timer, fate)
  PROVE  Unique(u) /\ Agrees(u, Signalled(u))
<1>1. Unique(u)
  <2> SUFFICES ASSUME NEW i \in Slots, NEW j \in Slots,
                      u.subs[i].key \in Keys, u.subs[i].key = u.subs[j].key
               PROVE  i = j
    BY DEF Unique
  <2>1. timer.subs[i].key = u.subs[i].key /\ timer.subs[j].key = u.subs[j].key
    BY TimerAssumption DEF Freed
  <2> QED
    BY <2>1 DEF Unique
<1>2. ASSUME NEW k \in Keys
      PROVE  Signalled(u)[k] # "spurious" /\ (Signalled(u)[k] = "pending" <=> Holds(u, k))
  <2>1. Holds(u, k) => Holds(timer, k)
    BY TimerAssumption DEF Freed, Holds
  <2>2. CASE k \in Fired(u)
    BY <2>2 DEF Agrees, Signalled, Fired
  <2>3. CASE k \notin Fired(u)
    <3>1. Holds(timer, k) <=> Holds(u, k)
      BY <2>1, <2>3 DEF Fired
    <3>2. Signalled(u)[k] = fate[k]
      BY <2>3 DEF Signalled
    <3> QED
      BY <3>1, <3>2 DEF Agrees
  <2> QED
    BY <2>2, <2>3
<1> QED
  BY <1>1, <1>2 DEF Agrees

\* After a key was put into a slot it may take
LEMMA FilledAgrees ==
  ASSUME NEW t, NEW f, NEW k \in Keys, NEW i \in Slots, NEW u, NEW g,
         Takes(t, i, k), Unique(t), Agrees(t, f),
         \A j \in Slots : u.subs[j].key = IF j = i THEN k ELSE t.subs[j].key,
         \A l \in Keys : g[l] = IF l = k THEN "pending" ELSE f[l]
  PROVE  Unique(u) /\ Agrees(u, g)
<1>1. \A j \in Slots : j # i => t.subs[j].key # k
  BY DEF Takes, Unique, Holds
<1>2. Unique(u)
  BY <1>1 DEF Unique
<1>3. ASSUME NEW l \in Keys
      PROVE  g[l] # "spurious" /\ (g[l] = "pending" <=> Holds(u, l))
  <2>1. CASE l = k
    BY <2>1 DEF Holds
  <2>2. CASE l # k
    <3>1. t.subs[i].key # l
      BY <2>2, TimerAssumption DEF Takes
    <3>2. Holds(u, l) <=> Holds(t, l)
      BY <2>2, <3>1 DEF Holds
    <3> QED
      BY <2>2, <3>2 DEF Agrees
  <2> QED
    BY <2>1, <2>2
<1> QED
  BY <1>2, <1>3 DEF Agrees

LEMMA AllIdle ==
  ASSUME IInv, alone, \A c \in Threads : caller[c] = Idle
  PROVE  Unique(timer) /\ Agrees(timer, fate)
  BY DEF IInv, Structure, Agreement, Agrees, Half, Idle

\* A handler's step leaves nobody in the driver
LEMMA IdleAgain ==
  ASSUME TypeInv', alone' => \A c \in Threads : caller'[c] = Idle,
         alone' => Unique(timer') /\ Agrees(timer', fate')
  PROVE  IInv'
<1> SUFFICES ASSUME alone' PROVE Structure'
  BY DEF IInv
<1>1. Agreement' /\ Unique(timer)'
  BY DEF Agreement, Agrees, Unique, Holds
<1>2. AloneCall'
  BY DEF AloneCall
<1>3. \A c \in Threads : InSlot(caller'[c], timer')
  BY IdleInSlot
<1> QED
  BY <1>1, <1>2, <1>3 DEF Structure

\* A call that begins finds nobody in the driver, if nobody ever met another
LEMMA CallAlone ==
  ASSUME Call, alone'
  PROVE  alone /\ ~flag /\ \A c \in Threads : caller[c] = Idle
  BY DEF Call, Busy

(***************************************************************************)
(* The steps of handlers                                                   *)
(***************************************************************************)
LEMMA InterruptStep ==
  ASSUME IInv, TypeInv', Interrupt
  PROVE  IInv'
<1>1. Freed(timer, timer')
  BY AdvanceFrees, TableOf DEF Interrupt, IInv, TypeInv, TypeOK, TimerType
<1>2. ASSUME alone'
      PROVE  /\ \A c \in Threads : caller'[c] = Idle
             /\ Unique(timer') /\ Agrees(timer', fate')
  <2>1. alone /\ \A c \in Threads : caller[c] = Idle
    BY <1>2 DEF Interrupt, IInv, Structure, AloneCall
  <2>2. Unique(timer) /\ Agrees(timer, fate)
    BY <2>1, AllIdle
  <2> QED
    BY <1>1, <2>1, <2>2, FreedAgrees DEF Interrupt
<1> QED
  BY <1>2, IdleAgain

LEMMA TimeoutStep ==
  ASSUME IInv, TypeInv', NEW k \in Keys, NEW d \in Timeouts, Timeout(k, d)
  PROVE  IInv'
<1> DEFINE u == Advance(timer, Elapsed(timer.counter, timer))
           i == Slot(u, k)
<1>1. Freed(timer, u) /\ Table(u)
  BY AdvanceFrees, TableOf DEF IInv, TypeInv, TypeOK, TimerType, Freed
<1>2. \/ i = 0 /\ timer' = u /\ fate' = Signalled(u)
      \/ i # 0 /\ timer' = Subscribe(u, i, k, d)
         /\ fate' = [Signalled(u) EXCEPT ![k] = "pending"]
  BY DEF Timeout
<1>3. UNCHANGED caller /\ Call
  BY DEF Timeout
<1>4. i # 0 => Takes(u, i, k) /\ i \in Slots
  BY SlotTakes DEF Takes
<1> HIDE DEF u, i
<1>5. ASSUME alone'
      PROVE  Unique(timer') /\ Agrees(timer', fate')
  <2>1. Unique(u) /\ Agrees(u, Signalled(u))
    BY <1>1, <1>3, <1>5, AllIdle, CallAlone, FreedAgrees
  <2>2. CASE i = 0
    BY <1>2, <2>1, <2>2
  <2>3. CASE i # 0
    <3>1. \A l \in Keys : fate'[l] = IF l = k THEN "pending" ELSE Signalled(u)[l]
      BY <1>2, <2>3 DEF Signalled
    <3>2. \A j \in Slots : timer'.subs[j].key = IF j = i THEN k ELSE u.subs[j].key
      BY <1>1, <1>2, <1>4, <2>3, SubscribeFills
    <3> QED
      BY <1>4, <2>1, <2>3, <3>1, <3>2, FilledAgrees
  <2> QED
    BY <2>2, <2>3
<1>6. alone' => \A c \in Threads : caller'[c] = Idle
  BY <1>3, CallAlone
<1> QED
  BY <1>5, <1>6, IdleAgain

\* A key gives up its slot and is told, or not: the table agrees again
LEMMA OneFreedAgrees ==
  ASSUME NEW t, NEW f, NEW k \in Keys, NEW i \in Slots, NEW u, NEW g,
         t.subs[i].key = k, Unique(t), Agrees(t, f),
         \A j \in Slots : u.subs[j].key = IF j = i THEN NoKey ELSE t.subs[j].key,
         g[k] \notin {"pending", "spurious"}, \A l \in Keys : l # k => g[l] = f[l]
  PROVE  Unique(u) /\ Agrees(u, g)
<1>1. \A j \in Slots : j # i => t.subs[j].key # k
  BY DEF Unique
<1>2. Unique(u)
  BY TimerAssumption DEF Unique
<1>3. ~Holds(u, k)
  BY <1>1, TimerAssumption DEF Holds
<1>4. ASSUME NEW l \in Keys, l # k
      PROVE  Holds(u, l) <=> Holds(t, l)
  BY <1>4, TimerAssumption DEF Holds
<1> QED
  BY <1>2, <1>3, <1>4 DEF Agrees

LEMMA ClearStep ==
  ASSUME IInv, TypeInv', NEW k \in Keys, Clear(k)
  PROVE  IInv'
<1> DEFINE i == Slot(timer, k)
<1>1. UNCHANGED caller /\ Call /\ fate' = [fate EXCEPT ![k] = "none"]
  BY DEF Clear
<1>2. \/ i = 0 /\ timer' = timer
      \/ i # 0 /\ timer' = Unsubscribe(timer, i)
  BY DEF Clear
<1>3. i # 0 => Takes(timer, i, k) /\ i \in Slots
  BY SlotTakes DEF Takes
<1>4. i = 0 => ~Holds(timer, k)
  BY NoSlotNotHeld
<1>5. Table(timer) /\ DOMAIN fate = Keys
  BY TableOf DEF IInv, TypeInv, TypeOK, TimerType
<1> HIDE DEF i
<1>6. ASSUME alone'
      PROVE  Unique(timer') /\ Agrees(timer', fate')
  <2>1. Unique(timer) /\ Agrees(timer, fate)
    BY <1>1, <1>6, AllIdle, CallAlone
  <2>2. \A l \in Keys : fate'[l] = IF l = k THEN "none" ELSE fate[l]
    BY <1>1, <1>5
  <2>3. CASE i = 0
    BY <1>2, <1>4, <2>1, <2>2, <2>3 DEF Agrees
  <2>4. CASE i # 0
    <3>1. \A j \in Slots : timer'.subs[j].key = IF j = i THEN NoKey ELSE timer.subs[j].key
      BY <1>2, <1>3, <1>5, <2>4, UnsubscribeFrees
    <3>2. CASE timer.subs[i].key = k
      <4>1. fate'[k] \notin {"pending", "spurious"} /\ \A l \in Keys : l # k => fate'[l] = fate[l]
        BY <2>2
      <4>2. i \in Slots
        BY <1>3, <2>4
      <4> QED
        BY <2>1, <3>1, <3>2, <4>1, <4>2, OneFreedAgrees
    <3>3. CASE timer.subs[i].key # k
      <4>1. timer.subs[i].key = NoKey /\ ~Holds(timer, k)
        BY <1>3, <2>4, <3>3 DEF Takes
      <4>2. \A j \in Slots : timer'.subs[j].key = timer.subs[j].key
        BY <3>1, <4>1
      <4> QED
        BY <2>1, <2>2, <4>1, <4>2 DEF Unique, Agrees, Holds
    <3> QED
      BY <3>2, <3>3
  <2> QED
    BY <2>3, <2>4
<1>7. alone' => \A c \in Threads : caller'[c] = Idle
  BY <1>1, CallAlone
<1> QED
  BY <1>6, <1>7, IdleAgain

(***************************************************************************)
(* The steps of a thread                                                   *)
(***************************************************************************)
LEMMA ReadCounterStep ==
  ASSUME IInv, TypeInv', NEW c \in Threads, NEW k \in Keys, NEW d \in Timeouts,
         ReadCounter(c, k, d)
  PROVE  IInv'
<1>1. UNCHANGED <<timer, flag, fate>> /\ Call /\ ~flag /\ caller[c] = Idle
  BY DEF ReadCounter
<1>2. \A b \in Threads : b # c => caller'[b] = caller[b]
  BY DEF ReadCounter, IInv, TypeInv, TypeOK
<1>3. caller'[c].at = "measure"
  BY DEF ReadCounter, IInv, TypeInv, TypeOK, Idle
<1>4. ASSUME alone'
      PROVE  Structure'
  <2>1. alone /\ \A b \in Threads : caller[b] = Idle
    BY <1>1, <1>4, CallAlone
  <2>2. AloneCall' /\ \A b \in Threads : InSlot(caller[b], timer)'
    <3>1. ~flag' /\ \A b \in Threads : b # c => caller'[b] = Idle
      BY <1>1, <1>2, <2>1
    <3>2. InSlot(caller'[c], timer')
      BY <1>3 DEF InSlot
    <3> QED
      BY <3>1, <3>2, NobodyElse
  <2>3. Unique(timer)' /\ Agreement'
    BY <1>1, <2>1, AllIdle DEF Agreement, Agrees, Unique, Holds
  <2> QED
    BY <2>2, <2>3 DEF Structure
<1> QED
  BY <1>4 DEF IInv

\* Who is in the driver while calls do not overlap
LEMMA OneCaller ==
  ASSUME IInv, alone, NEW c \in Threads, NEW at, NEW call, NEW t, Step(c, at, call, t),
         at # "idle"
  PROVE  /\ alone' /\ ~flag /\ ~flag' /\ caller[c].at = at /\ caller'[c] = call /\ timer' = t
         /\ \A b \in Threads : b # c => caller[b] = Idle /\ caller'[b] = Idle
         /\ Structure
<1>1. caller[c].at = at /\ caller[c] # Idle
  BY DEF Step, Idle
<1> QED
  BY <1>1 DEF Step, IInv, TypeInv, TypeOK, Structure, AloneCall

\* A step that keeps the keys of the table and tells nobody
LEMMA QuietStep ==
  ASSUME IInv, TypeInv', NEW c \in Threads, NEW at, NEW call, NEW t, Step(c, at, call, t),
         Quietly, at # "idle", \A i \in Slots : t.subs[i].key = timer.subs[i].key,
         at \in {"compare", "settime"} <=> call.at \in {"compare", "settime"},
         call = Idle \/ call.key = caller[c].key,
         alone => InSlot(call, t)
  PROVE  IInv'
<1> SUFFICES ASSUME alone PROVE Structure'
  BY DEF IInv, Step
<1>1. /\ ~flag' /\ caller[c].at = at /\ caller'[c] = call /\ timer' = t
      /\ \A b \in Threads : b # c => caller[b] = Idle /\ caller'[b] = Idle
      /\ Structure
  BY OneCaller
<1>2. Unique(timer)' /\ \A k \in Keys : Holds(timer', k) <=> Holds(timer, k)
  BY <1>1 DEF Structure, Unique, Holds
<1>3. \A k \in Keys : Half(k)' <=> Half(k)
  BY <1>1 DEF Half, Idle
<1>4. Agreement'
  BY <1>1, <1>2, <1>3 DEF Structure, Agreement, Quietly, Holds
<1>5. AloneCall'
  BY <1>1 DEF AloneCall
<1>6. \A b \in Threads : InSlot(caller[b], timer)'
  BY <1>1 DEF InSlot, Idle
<1> QED
  BY <1>2, <1>4, <1>5, <1>6 DEF Structure

LEMMA AdvancingStep ==
  ASSUME IInv, TypeInv', NEW c \in Threads, Measure(c) \/ Advancing(c), ~FreeSlot(c)
  PROVE  IInv'
<1> DEFINE x == caller[c]
<1>0. /\ TypeInv /\ timer \in TimerType /\ x \in CallType /\ Placed(x)
      /\ DOMAIN timer.subs = Slots
  BY TypesOf DEF IInv, TimerType
<1> USE <1>0
<1>1. CASE Measure(c)
  <2>1. PICK call : Step(c, "measure", call, timer) /\ Quietly
                    /\ call = [To(c, "start") EXCEPT !.elapsed = Elapsed(@, timer)]
    BY <1>1 DEF Measure
  <2>2. call.at = "start" /\ call.key = x.key
    BY <2>1, ToType DEF Places, CallType
  <2> QED
    BY <2>1, <2>2, QuietStep DEF InSlot
<1>2. CASE Start(c)
  <2>1. PICK at \in {"load", "run"} : Step(c, "start", To(c, at), timer) /\ Quietly
    BY <1>2 DEF Start
  <2>2. To(c, at).at = at /\ To(c, at).key = x.key
    BY ToType DEF Places
  <2> QED
    BY <2>1, <2>2, QuietStep DEF InSlot
<1>3. CASE SetRunning(c)
  <2>1. To(c, "enable").at = "enable" /\ To(c, "enable").key = x.key
    BY ToType DEF Places
  <2>2. [timer EXCEPT !.phase = "RUNNING"].subs = timer.subs
    BY DEF TimerType
  <2> QED
    BY <1>3, <2>1, <2>2, QuietStep DEF SetRunning, InSlot
<1>4. CASE Enable(c)
  <2>1. To(c, "load").at = "load" /\ To(c, "load").key = x.key
    BY ToType DEF Places
  <2>2. [timer EXCEPT !.enabled = TRUE].subs = timer.subs
    BY DEF TimerType
  <2> QED
    BY <1>4, <2>1, <2>2, QuietStep DEF Enable, InSlot
<1>5. CASE Load(c)
  <2>1. PICK call : Step(c, "load", call, timer) /\ Quietly
                    /\ call = [To(c, "add") EXCEPT !.time = timer.current]
    BY <1>5 DEF Load
  <2>2. call.at = "add" /\ call.key = x.key
    BY <2>1, ToType DEF Places, CallType
  <2> QED
    BY <2>1, <2>2, QuietStep DEF InSlot
<1>6. CASE Add(c)
  <2>1. PICK call, t : /\ Step(c, "add", call, t) /\ Quietly
                       /\ call = [To(c, "reset") EXCEPT !.time = 0, !.elapsed = 0]
                       /\ t = [timer EXCEPT !.current = (x.time + x.elapsed) % Modulus]
    BY <1>6 DEF Add
  <2>2. call.at = "reset" /\ call.key = x.key /\ t.subs = timer.subs
    BY <2>1, ToType DEF Places, CallType, TimerType
  <2>3. Step(c, "add", call, t) /\ Quietly
    BY <2>1
  <2>4. InSlot(call, t)
    BY <2>2 DEF InSlot
  <2> QED
    BY <2>2, <2>3, <2>4, QuietStep
<1>7. CASE Reset(c)
  <2>1. To(c, "test").at = "test" /\ To(c, "test").key = x.key
    BY ToType DEF Places
  <2>2. [timer EXCEPT !.counter = 0].subs = timer.subs
    BY DEF TimerType
  <2> QED
    BY <1>7, <2>1, <2>2, QuietStep DEF Reset, InSlot
<1>8. CASE Test(c)
  <2>1. PICK call : /\ Step(c, "test", call, timer) /\ Quietly
                    /\ \/ call = [To(c, "schedule") EXCEPT !.time = timer.next]
                       \/ call = [To(c, "look") EXCEPT !.slot = 1]
    BY <1>8 DEF Test
  <2>2. call.at \in {"schedule", "look"} /\ call.key = x.key
    BY <2>1, ToType DEF Places, CallType
  <2> QED
    BY <2>1, <2>2, QuietStep DEF InSlot
<1>9. CASE Look(c)
  <2>1. x.at = "look" /\ x.slot \in Slots
    BY <1>9 DEF Look, Step, Placed, HasSlot
  <2>2. CASE timer.subs[x.slot].key = NoKey
    <3>1. Step(c, "look", After(c, x.slot), timer) /\ Quietly
      BY <1>9, <2>2 DEF Look
    <3>2. After(c, x.slot).at \in {"look", "pick"} /\ After(c, x.slot).key = x.key
      BY <2>1, AfterType
    <3> QED
      BY <3>1, <3>2, QuietStep DEF InSlot
  <2>3. CASE timer.subs[x.slot].key # NoKey
    <3>1. Step(c, "look", To(c, "due"), timer) /\ Quietly
      BY <1>9, <2>3 DEF Look
    <3>2. To(c, "due").at = "due" /\ To(c, "due").key = x.key /\ To(c, "due").slot = x.slot
      BY ToType DEF Places
    <3>3. timer.subs[x.slot].key \in Keys
      BY <2>1, <2>3, TableOf
    <3> QED
      BY <3>1, <3>2, <3>3, QuietStep DEF InSlot
  <2> QED
    BY <2>2, <2>3
<1>10. CASE Due(c)
  <2>1. x.at = "due" /\ x.slot \in Slots
    BY <1>10 DEF Due, Step, Placed, HasSlot
  <2>2. PICK call : /\ Step(c, "due", call, timer) /\ Quietly
                    /\ call = After(c, x.slot) \/ call = To(c, "read")
    BY <1>10 DEF Due
  <2>3. CASE call = After(c, x.slot)
    <3>1. call.at \in {"look", "pick"} /\ call.key = x.key
      BY <2>1, <2>3, AfterType
    <3> QED
      BY <2>2, <3>1, QuietStep DEF InSlot
  <2>4. CASE call = To(c, "read")
    <3>1. call.at = "read" /\ call.key = x.key /\ call.slot = x.slot
      BY <2>4, ToType DEF Places
    <3>2. alone => InSlot(call, timer)
      BY <2>1, <3>1 DEF IInv, Structure, InSlot
    <3> QED
      BY <2>2, <3>1, <3>2, QuietStep
  <2> QED
    BY <2>2, <2>3, <2>4
<1>11. CASE Read(c)
  <2>1. PICK at, call :
           /\ at \in {"free", "faulted"}
           /\ Step(c, "read", call, timer) /\ Quietly
           /\ call = [To(c, at) EXCEPT !.told = timer.subs[x.slot].key]
    BY <1>11 DEF Read
  <2>2. call.at = at /\ call.key = x.key /\ call.slot = x.slot
        /\ call.told = timer.subs[x.slot].key
    BY <2>1, ToType DEF Places, CallType
  <2>3. x.at = "read"
    BY <2>1 DEF Step
  <2>4. alone => InSlot(call, timer)
    BY <2>1, <2>2, <2>3 DEF IInv, Structure, InSlot
  <2> QED
    BY <2>1, <2>2, <2>4, QuietStep
<1>12. CASE Pick(c)
  <2>1. PICK call : /\ Step(c, "pick", call, timer) /\ Quietly
                    /\ \/ call = To(c, "halt")
                       \/ call = [To(c, "await") EXCEPT !.slot = NextSubscription(timer)]
    BY <1>12 DEF Pick
  <2>2. call.at \in {"halt", "await"} /\ call.key = x.key
    BY <2>1, ToType DEF Places, CallType
  <2>3. InSlot(call, timer)
    BY <2>2 DEF InSlot
  <2> QED
    BY <2>1, <2>2, <2>3, QuietStep
<1>13. CASE Await(c)
  <2> DEFINE time == timer.subs[x.slot].time
  <2>1. PICK call, t : /\ Step(c, "await", call, t) /\ Quietly
                       /\ call = [To(c, "schedule") EXCEPT !.slot = 0, !.time = time]
                       /\ t = [timer EXCEPT !.next = time]
    BY <1>13 DEF Await
  <2>2. call.at = "schedule" /\ call.key = x.key /\ t.subs = timer.subs
    BY <2>1, ToType DEF Places, CallType, TimerType
  <2>3. InSlot(call, t)
    BY <2>2 DEF InSlot
  <2>4. Step(c, "await", call, t) /\ Quietly
    BY <2>1
  <2> HIDE DEF x, time
  <2>5. /\ \A i \in Slots : t.subs[i].key = timer.subs[i].key
        /\ call.key = caller[c].key
        /\ "await" \in {"compare", "settime"} <=> call.at \in {"compare", "settime"}
    BY <2>2 DEF x
  <2> QED
    BY <2>3, <2>4, <2>5, QuietStep
<1>14. CASE Halt(c)
  <2>1. To(c, "stop").at = "stop" /\ To(c, "stop").key = x.key
    BY ToType DEF Places
  <2>2. [timer EXCEPT !.phase = "IDLE"].subs = timer.subs
    BY DEF TimerType
  <2> QED
    BY <1>14, <2>1, <2>2, QuietStep DEF Halt, InSlot
<1>15. CASE ForgetNext(c)
  <2>1. To(c, "still").at = "still" /\ To(c, "still").key = x.key
    BY ToType DEF Places
  <2>2. [timer EXCEPT !.next = Never].subs = timer.subs
    BY DEF TimerType
  <2> QED
    BY <1>15, <2>1, <2>2, QuietStep DEF ForgetNext, InSlot
<1>16. CASE ForgetTick(c)
  <2>1. To(c, "disable").at = "disable" /\ To(c, "disable").key = x.key
    BY ToType DEF Places
  <2>2. [timer EXCEPT !.tick = Period].subs = timer.subs
    BY DEF TimerType
  <2> QED
    BY <1>16, <2>1, <2>2, QuietStep DEF ForgetTick, InSlot
<1>17. CASE Disable(c)
  <2>1. To(c, "find").at = "find" /\ To(c, "find").key = x.key
    BY ToType DEF Places
  <2>2. [timer EXCEPT !.enabled = FALSE].subs = timer.subs
    BY DEF TimerType
  <2> QED
    BY <1>17, <2>1, <2>2, QuietStep DEF Disable, InSlot
<1> QED
  BY <1>1, <1>2, <1>3, <1>4, <1>5, <1>6, <1>7, <1>8, <1>9, <1>10, <1>11, <1>12, <1>13, <1>14,
     <1>15, <1>16, <1>17 DEF Advancing

LEMMA FreeSlotStep ==
  ASSUME IInv, TypeInv', NEW c \in Threads, FreeSlot(c)
  PROVE  IInv'
<1> SUFFICES ASSUME alone PROVE Structure'
  BY DEF IInv, FreeSlot, Step
<1> DEFINE x == caller[c]
<1>0. TypeInv /\ timer \in TimerType /\ x \in CallType /\ Placed(x)
  BY TypesOf DEF IInv
<1>1. PICK call, t : /\ Step(c, "free", call, t)
                     /\ call = [After(c, x.slot) EXCEPT !.told = NoKey]
                     /\ t = [timer EXCEPT !.subs[x.slot] = Free]
  BY DEF FreeSlot
<1>2. x.at = "free" /\ x.slot \in Slots
  BY <1>0, <1>1 DEF Step, Placed, HasSlot
<1>3. call.at \in {"look", "pick"}
  BY <1>0, <1>1, <1>2, AfterType DEF CallType
<1>4. /\ ~flag' /\ caller'[c] = call /\ timer' = t
      /\ \A b \in Threads : b # c => caller[b] = Idle /\ caller'[b] = Idle
      /\ Structure
  BY <1>1, OneCaller
<1>5. x.told \in Keys /\ timer.subs[x.slot].key = x.told
  BY <1>2, <1>4 DEF Structure, InSlot
<1>6. Unique(timer) /\ Agrees(timer, fate)
  BY <1>2, <1>4 DEF Structure, Agreement, Agrees, Half, Idle
<1>7. fate[x.told] = "pending"
  BY <1>2, <1>5, <1>6 DEF Agrees, Holds
<1>8. fate'[x.told] = "fired" /\ \A l \in Keys : l # x.told => fate'[l] = fate[l]
  BY <1>5, <1>7 DEF FreeSlot
<1>9. \A j \in Slots : t.subs[j].key = IF j = x.slot THEN NoKey ELSE timer.subs[j].key
  BY <1>0, <1>1, <1>2 DEF Free, TimerType
<1>10. Unique(t) /\ Agrees(t, fate')
  BY <1>2, <1>5, <1>6, <1>8, <1>9, OneFreedAgrees
<1>11. Unique(timer)' /\ Agreement'
  BY <1>4, <1>10 DEF Agreement, Agrees, Unique, Holds
<1>12. InSlot(caller'[c], timer')
  BY <1>3, <1>4 DEF InSlot
<1>13. AloneCall' /\ \A b \in Threads : InSlot(caller[b], timer)'
  BY <1>4, <1>12, NobodyElse
<1> QED
  BY <1>11, <1>13 DEF Structure

LEMMA ClaimStep ==
  ASSUME IInv, TypeInv', NEW c \in Threads, Claim(c)
  PROVE  IInv'
<1> SUFFICES ASSUME alone PROVE Structure'
  BY DEF IInv, Claim, Step
<1> DEFINE x == caller[c]
<1>0. TypeInv /\ timer \in TimerType /\ x \in CallType /\ Placed(x)
  BY TypesOf DEF IInv
<1>1. PICK call, t : /\ Step(c, "claim", call, t) /\ Quietly
                     /\ call = To(c, "compare")
                     /\ t = [timer EXCEPT !.subs[x.slot].key = x.key]
  BY DEF Claim
<1>2. x.at = "claim" /\ x.slot \in Slots /\ x.key \in Keys
  BY <1>0, <1>1 DEF Step, Placed, HasSlot
<1>3. call.at = "compare" /\ call.key = x.key /\ call.slot = x.slot
  BY <1>0, <1>1, ToType DEF Places
<1>4. /\ ~flag' /\ caller'[c] = call /\ timer' = t
      /\ \A b \in Threads : b # c => caller[b] = Idle /\ caller'[b] = Idle
      /\ Structure
  BY <1>1, OneCaller
<1>5. Takes(timer, x.slot, x.key)
  BY <1>2, <1>4 DEF Structure, InSlot
<1>6. \A j \in Slots : t.subs[j].key = IF j = x.slot THEN x.key ELSE timer.subs[j].key
  BY <1>0, <1>1, <1>2 DEF TimerType
<1>7. ASSUME NEW j \in Slots, j # x.slot
      PROVE  timer.subs[j].key # x.key
  <2>1. CASE timer.subs[x.slot].key = x.key
    BY <1>2, <1>4, <1>7, <2>1 DEF Structure, Unique
  <2>2. CASE ~Holds(timer, x.key)
    BY <2>2 DEF Holds
  <2> QED
    BY <1>5, <2>1, <2>2 DEF Takes
<1>8. Unique(timer)'
  BY <1>4, <1>6, <1>7 DEF Structure, Unique
<1>9. Agreement'
  <2> SUFFICES ASSUME NEW k \in Keys
               PROVE  /\ fate[k] # "spurious"
                      /\ ~Half(k)' => (fate[k] = "pending" <=> Holds(t, k))
    BY <1>1, <1>4 DEF Agreement, Quietly
  <2>1. fate[k] # "spurious" /\ (fate[k] = "pending" <=> Holds(timer, k))
    BY <1>2, <1>4 DEF Structure, Agreement, Half, Idle
  <2>2. k = x.key => Half(k)'
    BY <1>3, <1>4 DEF Half
  <2>3. k # x.key => (Holds(t, k) <=> Holds(timer, k))
    BY <1>5, <1>6, TimerAssumption DEF Holds, Takes
  <2> QED
    BY <2>1, <2>2, <2>3
<1>10. InSlot(caller'[c], timer')
  BY <1>2, <1>3, <1>4, <1>6 DEF InSlot
<1>11. AloneCall' /\ \A b \in Threads : InSlot(caller[b], timer)'
  BY <1>4, <1>10, NobodyElse
<1> QED
  BY <1>8, <1>9, <1>11 DEF Structure

LEMMA SetTimeStep ==
  ASSUME IInv, TypeInv', NEW c \in Threads, SetTime(c)
  PROVE  IInv'
<1> SUFFICES ASSUME alone PROVE Structure'
  BY DEF IInv, SetTime, Step
<1> DEFINE x == caller[c]
<1>0. TypeInv /\ timer \in TimerType /\ x \in CallType /\ Placed(x) /\ DOMAIN fate = Keys
  BY TypesOf DEF IInv
<1>1. PICK call, t : /\ Step(c, "settime", call, t)
                     /\ call = IF x.wasNext THEN To(c, "rank") ELSE Idle
                     /\ t = [timer EXCEPT !.subs[x.slot].time = x.time]
  BY DEF SetTime
<1>2. x.at = "settime" /\ x.slot \in Slots /\ x.key \in Keys
  BY <1>0, <1>1 DEF Step, Placed, HasSlot
<1>3. call.at \in {"rank", "idle"}
  BY <1>0, <1>1, ToType DEF Places, Idle
<1>4. /\ ~flag' /\ caller'[c] = call /\ timer' = t
      /\ \A b \in Threads : b # c => caller[b] = Idle /\ caller'[b] = Idle
      /\ Structure
  BY <1>1, OneCaller
<1>5. \A j \in Slots : t.subs[j].key = timer.subs[j].key
  BY <1>0, <1>1, <1>2 DEF TimerType
<1>6. Unique(timer)' /\ \A k \in Keys : Holds(t, k) <=> Holds(timer, k)
  BY <1>4, <1>5 DEF Structure, Unique, Holds
<1>7. \A k \in Keys : fate'[k] = IF k = x.key THEN "pending" ELSE fate[k]
  BY <1>0 DEF SetTime
<1>8. Holds(timer, x.key)
  BY <1>2, <1>4 DEF Structure, InSlot, Holds
<1>9. Agreement'
  <2> SUFFICES ASSUME NEW k \in Keys
               PROVE  fate'[k] # "spurious" /\ (fate'[k] = "pending" <=> Holds(t, k))
    BY <1>4 DEF Agreement
  <2>1. CASE k = x.key
    BY <1>6, <1>7, <1>8, <2>1
  <2>2. CASE k # x.key
    <3>1. ~Half(k)
      BY <1>4, <2>2 DEF Half, Idle
    <3> QED
      BY <1>4, <1>6, <1>7, <2>2, <3>1 DEF Structure, Agreement
  <2> QED
    BY <2>1, <2>2
<1>10. InSlot(caller'[c], timer')
  BY <1>3, <1>4 DEF InSlot
<1>11. AloneCall' /\ \A b \in Threads : InSlot(caller[b], timer)'
  BY <1>4, <1>10, NobodyElse
<1> QED
  BY <1>6, <1>9, <1>11 DEF Structure

LEMMA SubscribingStep ==
  ASSUME IInv, TypeInv', NEW c \in Threads, Subscribing(c), ~Claim(c), ~SetTime(c)
  PROVE  IInv'
<1> DEFINE x == caller[c]
<1>0. /\ TypeInv /\ timer \in TimerType /\ x \in CallType /\ Placed(x)
  BY TypesOf DEF IInv
<1> USE <1>0
<1>1. CASE FindSlot(c)
  <2> DEFINE i == Slot(timer, x.key)
             y == [To(c, "claim") EXCEPT !.slot = i]
  <2>1. Step(c, "find", IF i = 0 THEN Idle ELSE y, timer) /\ Quietly /\ x.at = "find"
    BY <1>1 DEF FindSlot, Step
  <2>2. x.key \in Keys
    BY <2>1 DEF Placed
  <2>3. i # 0 => Takes(timer, i, x.key)
    BY <2>2, SlotTakes
  <2> HIDE DEF i
  <2>4. y.at = "claim" /\ y.key = x.key /\ y.slot = i
    BY ToType DEF Places, CallType
  <2>5. CASE i = 0
    BY <2>1, <2>5, QuietStep DEF InSlot, Idle
  <2>6. CASE i # 0
    BY <2>1, <2>3, <2>4, <2>6, QuietStep DEF InSlot
  <2> QED
    BY <2>5, <2>6
<1>2. CASE Compare(c)
  <2>1. PICK call, time : /\ Step(c, "compare", call, timer) /\ Quietly
                          /\ call = [To(c, "settime") EXCEPT !.time = time,
                                        !.wasNext = WasNext(timer, x.slot),
                                        !.wasCloser = WasCloser(timer, x.slot, time)]
    BY <1>2 DEF Compare
  <2>2. call.at = "settime" /\ call.key = x.key /\ call.slot = x.slot
    BY <2>1, ToType DEF Places, CallType
  <2>3. x.at = "compare"
    BY <2>1 DEF Step
  <2>4. alone => InSlot(call, timer)
    BY <2>2, <2>3 DEF IInv, Structure, InSlot
  <2> QED
    BY <2>1, <2>2, <2>4, QuietStep
<1>3. CASE Rank(c)
  <2>1. PICK call : /\ Step(c, "rank", call, timer) /\ Quietly
                    /\ \/ call = To(c, "ask")
                       \/ call = [To(c, "ask") EXCEPT !.slot = NextSubscription(timer)]
    BY <1>3 DEF Rank
  <2>2. call.at = "ask" /\ call.key = x.key
    BY <2>1, ToType DEF Places, CallType
  <2>3. InSlot(call, timer)
    BY <2>2 DEF InSlot
  <2> QED
    BY <2>1, <2>2, <2>3, QuietStep
<1>4. CASE Ask(c)
  <2>1. PICK call : /\ Step(c, "ask", call, timer) /\ Quietly
                    /\ call = [To(c, "schedule") EXCEPT !.slot = 0, !.time = TimeAt(timer, x.slot)]
    BY <1>4 DEF Ask
  <2>2. call.at = "schedule" /\ call.key = x.key
    BY <2>1, ToType DEF Places, CallType
  <2>3. InSlot(call, timer)
    BY <2>2 DEF InSlot
  <2>4. Step(c, "ask", call, timer) /\ Quietly
    BY <2>1
  <2>5. /\ call.key = caller[c].key
        /\ "ask" \in {"compare", "settime"} <=> call.at \in {"compare", "settime"}
    BY <2>2
  <2> QED
    BY <2>3, <2>4, <2>5, QuietStep
<1> QED
  BY <1>1, <1>2, <1>3, <1>4 DEF Subscribing

LEMMA SchedulingStep ==
  ASSUME IInv, TypeInv', NEW c \in Threads, Scheduling(c)
  PROVE  IInv'
<1> DEFINE x == caller[c]
<1>0. TypeInv /\ timer \in TimerType /\ x \in CallType
  BY TypesOf DEF IInv
<1> USE <1>0
<1>1. Scheduled(c).at \in {"idle", "find"} /\ (Scheduled(c) = Idle \/ Scheduled(c).key = x.key)
  <2>1. [To(c, "find") EXCEPT !.time = 0].at = "find"
        /\ [To(c, "find") EXCEPT !.time = 0].key = x.key
    BY ToType DEF Places, CallType
  <2> QED
    BY <2>1 DEF Scheduled, Idle
<1>2. CASE ScheduleNext(c)
  <2>1. PICK n, t : Step(c, "schedule", To(c, "tick"), t) /\ Quietly
                    /\ t = [timer EXCEPT !.next = n]
    BY <1>2 DEF ScheduleNext, TimerType
  <2>2. To(c, "tick").at = "tick" /\ To(c, "tick").key = x.key /\ t.subs = timer.subs
    BY <2>1, ToType DEF Places, TimerType
  <2> QED
    BY <2>1, <2>2, QuietStep DEF InSlot
<1>3. CASE SetTick(c)
  <2>1. PICK n, t, call : /\ Step(c, "tick", call, t) /\ Quietly
                          /\ t = [timer EXCEPT !.tick = n]
                          /\ call = To(c, "counter") \/ call = Scheduled(c)
    BY <1>3 DEF SetTick
  <2>2. /\ call.at \in {"counter", "idle", "find"} /\ t.subs = timer.subs
        /\ call = Idle \/ call.key = x.key
    BY <1>1, <2>1, ToType DEF Places, TimerType
  <2> QED
    BY <2>1, <2>2, QuietStep DEF InSlot
<1>4. CASE SetCounter(c)
  <2>1. [timer EXCEPT !.counter = Period - timer.tick].subs = timer.subs
    BY DEF TimerType
  <2> QED
    BY <1>1, <1>4, <2>1, QuietStep DEF SetCounter, InSlot
<1> QED
  BY <1>2, <1>3, <1>4 DEF Scheduling

LEMMA TickStep ==
  ASSUME IInv, TypeInv', Tick
  PROVE  IInv'
<1> SUFFICES ASSUME alone' PROVE Structure'
  BY DEF IInv
<1>1. UNCHANGED <<caller, fate>>
  BY DEF Tick
<1>2. timer'.subs = timer.subs
  BY DEF Tick, IInv, TypeInv, TypeOK
<1>3. alone /\ (flag' = flag \/ \A c \in Threads : caller[c] = Idle)
  BY DEF Tick, Busy
<1>4. Structure
  BY <1>3 DEF IInv
<1>5. Unique(timer)' /\ Agreement'
  BY <1>1, <1>2, <1>4 DEF Structure, Unique, Agreement, Holds, Half
<1>6. AloneCall'
  BY <1>1, <1>3, <1>4 DEF Structure, AloneCall
<1>7. \A c \in Threads : InSlot(caller[c], timer)'
  BY <1>1, <1>2, <1>4 DEF Structure, InSlot, Takes, Holds
<1> QED
  BY <1>5, <1>6, <1>7 DEF Structure

LEMMA InitInv == Init => IInv
<1> SUFFICES ASSUME Init PROVE IInv
  OBVIOUS
<1>1. \A i \in Slots : timer.subs[i].key = NoKey
  BY DEF Init, Free
<1>2. Unique(timer) /\ Agreement
  BY <1>1, TimerAssumption DEF Init, Unique, Agreement, Holds
<1>3. AloneCall /\ \A c \in Threads : InSlot(caller[c], timer)
  BY DEF Init, AloneCall, InSlot, Idle
<1> QED
  BY <1>2, <1>3, TypeInit DEF IInv, Structure

LEMMA Inductive == Spec => []IInv
<1>1. IInv /\ TypeInv' /\ [Next]_vars => IInv'
  <2> SUFFICES ASSUME IInv, TypeInv', [Next]_vars PROVE IInv'
    OBVIOUS
  <2>1. CASE Interrupt
    BY <2>1, InterruptStep
  <2>2. CASE \E h \in Handlers : HandlerStep(h)
    BY <2>2, TimeoutStep, ClearStep DEF HandlerStep
  <2>3. CASE \E c \in Threads : ThreadStep(c)
    BY <2>3, AdvancingStep, FreeSlotStep, SubscribingStep, ClaimStep, SetTimeStep, SchedulingStep
       DEF ThreadStep
  <2>4. CASE \E c \in Threads, k \in ThreadKeys, d \in Timeouts : ReadCounter(c, k, d)
    BY <2>4, ReadCounterStep, TimerAssumption
  <2>5. CASE Tick
    BY <2>5, TickStep
  <2>6. CASE UNCHANGED vars
    <3>1. UNCHANGED <<timer, flag, caller, fate, alone>>
      BY <2>6 DEF vars
    <3> QED
      BY <3>1 DEF IInv, Structure, Unique, Agreement, Half, Holds, AloneCall, InSlot, Takes
  <2> QED
    BY <2>1, <2>2, <2>3, <2>4, <2>5, <2>6 DEF Next
<1> QED
  BY InitInv, <1>1, TypeAlways, PTL DEF Spec

\* As long as no call meets another one or a pending interrupt, a key is
\* signalled only for a timeout it asked for, has at most one slot of the
\* table, and has one exactly while its timeout is pending, but for the
\* moment in which a call has claimed a slot and not set its time: whatever
\* is replaced, cleared or due in between and whatever the times are.
THEOREM FiresOnce == Spec => []FiredOnce
<1>1. IInv => FiredOnce
  <2> SUFFICES ASSUME IInv, alone, NEW k \in Keys
               PROVE  /\ fate[k] # "spurious"
                      /\ Cardinality({i \in Slots : timer.subs[i].key = k}) <= 1
                      /\ ~Half(k) => (fate[k] = "pending" <=> Holds(timer, k))
    BY DEF FiredOnce
  <2> DEFINE own == {i \in Slots : timer.subs[i].key = k}
  <2>1. fate[k] # "spurious" /\ (~Half(k) => (fate[k] = "pending" <=> Holds(timer, k)))
    BY DEF IInv, Structure, Agreement
  <2>2. \A i, j \in own : i = j
    BY DEF IInv, Structure, Unique
  <2>3. own = {} \/ \E i : own = {i}
    BY <2>2
  <2> HIDE DEF own
  <2>4. Cardinality(own) = 0 \/ Cardinality(own) = 1
    BY <2>3, FS_EmptySet, FS_Singleton
  <2>5. Cardinality(own) <= 1
    BY <2>4
  <2> QED
    BY <2>1, <2>5 DEF own
<1> QED
  BY Inductive, <1>1, PTL

(***************************************************************************)
(* The times.  While calls do not overlap, and nobody asks for a time      *)
(* before the one the driver waits for, the time the driver keeps and the  *)
(* clocks it is yet to add to it are, at every place of a call, together   *)
(* no more than what has passed.                                           *)
(***************************************************************************)
\* The longest timeout that is told from a time that is past, with a period to spare
Far == Modulus \div 2 - 2 - Period

\* The clocks that a call would find the counter to have counted
Counter(t) == t.counter + t.tick - Period

Held(t) == {i \in Slots : t.subs[i].key # NoKey}

\* Signed differences of the times in slots H are exact
Near(t, H) == \A i \in H : t.subs[i].time < Never /\ t.subs[i].time - t.current <= Far

\* The driver waits for a time that is to come, and has set the counter ahead
\* for no less than the rest of the period
Ahead(t) == t.next > t.current /\ (t.next - t.current >= Period => t.tick = Period)

\* ... and none of the timeouts in slots H is to come before it
WaitsFor(t, H) == Ahead(t) /\ Near(t, H) /\ \A i \in H : t.next <= t.subs[i].time

Waits(t) == WaitsFor(t, Held(t))

\* The time has been advanced, by a period at most, and maybe past the one waited for
Overdue(t) ==
    t.current < t.next + Period /\ Near(t, Held(t)) /\ \A i \in Held(t) : t.next <= t.subs[i].time

Typed(t) == /\ t \in TimerType /\ t.current <= Horizon
            /\ \A i \in Slots : t.subs[i].key = NoKey => t.subs[i].time = 0

\* With m clocks yet to be added to the time, none is counted twice by clock n,
\* for the time and for each timeout in slots H
CountedOnce(m, H, t, d, n) ==
    /\ m >= 0 /\ t.current + m <= n
    /\ \A i \in H : d[t.subs[i].key] + t.current + m <= n + t.subs[i].time

(***************************************************************************)
(* A thread's call, at each of its places                                  *)
(***************************************************************************)
Entry == {"measure", "start", "run", "enable", "load", "add"}
Halting == {"halt", "stop", "still", "disable"}
Advanced == {"test", "look", "due", "read", "free", "pick", "await"} \cup Halting

\* The clocks that are yet to be added, when a call has come to its place: since
\* the counter was reset the tick says nothing of them until it is set
Pending(x, t) ==
    IF x.at \in {"reset", "counter"} THEN 0
    ELSE IF x.at \in Advanced \/ (x.at \in {"schedule", "tick"} /\ ~x.wasNext) THEN t.counter
    ELSE Counter(t)

\* The slots whose timeouts are counted: a slot that is being filled is not
Counting(x, t) == IF x.at \in {"compare", "settime"} THEN Held(t) \ {x.slot} ELSE Held(t)

\* The timeout asked for begins no earlier than the call
Begins(x, t, n) == x.asked + (IF x.at \in Entry THEN 0 ELSE Pending(x, t)) <= n

Enters(x, t) ==
    /\ Waits(t)
    /\ x.at = "measure" => x.elapsed + t.tick >= Period /\ x.elapsed <= t.counter
    /\ x.at # "measure" => x.elapsed <= Counter(t)
    /\ x.at = "add" => x.time = t.current

Looks(x, t) ==
    /\ Overdue(t)
    /\ \A i \in Held(t) : i < x.slot => t.subs[i].time > t.current
    /\ x.at \in {"read", "free"} => t.subs[x.slot].time <= t.current

Picks(x, t) ==
    /\ Overdue(t)
    /\ \A i \in Held(t) : t.subs[i].time > t.current
    /\ x.at = "await" =>
          x.slot \in Held(t) /\ \A i \in Held(t) : t.subs[x.slot].time <= t.subs[i].time

Halts(x, t) ==
    /\ Held(t) = {}
    /\ x.at \in {"still", "disable"} => t.next = Never
    /\ x.at = "disable" => t.tick = Period

Fills(x, t) ==
    /\ WaitsFor(t, Held(t) \ {x.slot})
    /\ x.at = "compare" => (t.subs[x.slot].time # 0 => t.next <= t.subs[x.slot].time)
    /\ x.at = "settime" => x.time = t.current + x.timeout /\ (x.wasCloser => t.next <= x.time)

\* One of the times in the table, or of two, is the first
Ranks(x, t) ==
    /\ x.wasNext /\ Ahead(t) /\ Near(t, Held(t))
    /\ x.slot \in Held(t) /\ t.subs[x.slot].time > t.current
    /\ \A i \in Held(t) :
          \/ t.next <= t.subs[i].time
          \/ x.at = "rank" /\ i = x.slot /\ ~x.wasCloser
          \/ x.at = "ask" /\ t.subs[x.slot].time <= t.subs[i].time

Schedules(x, t) ==
    /\ t.next > t.current /\ Near(t, Held(t))
    /\ x.wasNext => Ahead(t)
    /\ x.at = "schedule" => x.time > t.current
    /\ \A i \in Held(t) : \/ t.next <= t.subs[i].time
                          \/ x.at = "schedule" /\ x.time <= t.subs[i].time

SetsAhead(t) == Waits(t) /\ t.tick = t.next - t.current /\ t.tick < Period

Stage(x, t) ==
    /\ x.at \in Entry => Enters(x, t)
    /\ x.at \in {"reset", "test"} => Overdue(t)
    /\ x.at \in {"look", "due", "read", "free"} => Looks(x, t)
    /\ x.at \in {"pick", "await"} => Picks(x, t)
    /\ x.at \in Halting => Halts(x, t)
    /\ x.at \in {"find", "claim"} => Waits(t)
    /\ x.at \in {"compare", "settime"} => Fills(x, t)
    /\ x.at \in {"rank", "ask"} => Ranks(x, t)
    /\ x.at \in {"schedule", "tick"} => Schedules(x, t)
    /\ x.at = "counter" => SetsAhead(t)

CallTimed(x, t, d, n) ==
    /\ CountedOnce(Pending(x, t), Counting(x, t), t, d, n) /\ Begins(x, t, n)
    /\ Stage(x, t)

\* When nobody is in the driver
Rests(f, t, d, n) ==
    Waits(t) /\ CountedOnce(IF f THEN t.tick ELSE Counter(t), Held(t), t, d, n)

\* What holds of the times while calls do not overlap
Timed ==
    /\ Typed(timer) /\ clock <= Horizon
    /\ (\A c \in Threads : caller[c] = Idle) => Rests(flag, timer, due, clock)
    /\ \A c \in Threads : caller[c] # Idle => CallTimed(caller[c], timer, due, clock)

InTime == alone /\ inTurn => Timed

\* All times stay below the wrap, and signed differences of them are exact
InRange ==
    /\ Horizon < Never /\ Period < Modulus \div 2
    /\ \A d \in Timeouts : Horizon + d < Never /\ Period + d < Modulus \div 2 - 1

\* Signed differences that are exact
LEMMA SignedNear ==
  ASSUME NEW x \in Int, -(Modulus \div 2) =< x, x < Modulus \div 2
  PROVE  Signed(x) = x
<1>1. PICK h \in Nat : h = Modulus \div 2
  BY Ranges
<1>2. x + h \in Nat /\ x + h =< Never
  BY <1>1, Ranges
<1>3. (x + h) % Modulus = x + h
  BY <1>2, ModRange
<1> QED
  BY <1>1, <1>3 DEF Signed

LEMMA Fields ==
  ASSUME NEW t, Typed(t)
  PROVE  /\ t.current \in Nat /\ t.current =< Horizon
         /\ t.next \in Nat /\ t.next =< Never
         /\ t.tick \in Nat /\ t.tick =< Period /\ t.counter \in Nat /\ t.counter =< Period
         /\ Counter(t) \in Int /\ Counter(t) =< Period
         /\ Table(t)
         /\ \A i \in Slots : /\ t.subs[i].key \in Keys \cup {NoKey}
                             /\ t.subs[i].time \in Nat /\ t.subs[i].time =< Never
                             /\ t.subs[i].key = NoKey => t.subs[i].time = 0
<1>1. /\ t.current \in 0 .. Never /\ t.next \in 0 .. Never /\ t.tick \in 0 .. Period
      /\ t.counter \in 0 .. Period /\ t.current =< Horizon
      /\ t.subs \in [Slots -> [key : Keys \cup {NoKey}, time : 0 .. Never]]
      /\ \A i \in Slots : t.subs[i].key = NoKey => t.subs[i].time = 0
      /\ "subs" \in DOMAIN t
  BY DEF Typed, TimerType
<1>2. \A i \in Slots : t.subs[i].key \in Keys \cup {NoKey} /\ t.subs[i].time \in 0 .. Never
  BY <1>1
<1>3. Counter(t) \in Int /\ Counter(t) =< Period
  BY <1>1, Ranges DEF Counter
<1>4. Table(t)
  BY <1>1 DEF Table
<1> QED
  BY <1>1, <1>2, <1>3, <1>4, Ranges

(***************************************************************************)
(* The slot of the next timeout is found, when all are within half the     *)
(* range of the time the driver waits for                                  *)
(***************************************************************************)
LEMMA NearestIsNext ==
  ASSUME NEW t, t.next \in Nat,
         \A i \in Slots : t.subs[i].key # NoKey =>
            /\ t.subs[i].time \in Nat /\ t.next =< t.subs[i].time
            /\ t.subs[i].time - t.next < Modulus \div 2 - 1,
         NEW n, n = NextSubscription(t)
  PROVE  \/ n = 0 /\ \A i \in Slots : t.subs[i].key = NoKey
         \/ /\ n \in Slots /\ n # 0 /\ t.subs[n].key # NoKey
            /\ \A i \in Slots : t.subs[i].key # NoKey => t.subs[n].time =< t.subs[i].time
<1> DEFINE held == {i \in Slots : t.subs[i].key # NoKey}
           distance(i) == Signed(t.subs[i].time - t.next)
           used == {i \in Slots : t.subs[i].key # NoKey /\ distance(i) < Modulus \div 2 - 1}
           nearest == {i \in used : \A j \in used : distance(i) <= distance(j)}
<1>1. PICK h \in Nat : h = Modulus \div 2
  BY Ranges
<1>2. ASSUME NEW i \in held
      PROVE  /\ distance(i) = t.subs[i].time - t.next /\ distance(i) < h - 1
             /\ t.subs[i].time \in Nat
  <2>1. PICK x \in Int : x = t.subs[i].time - t.next
    OBVIOUS
  <2>2. 0 =< x /\ x < h - 1 /\ -h =< x /\ x < h
    BY <1>1, <2>1
  <2>3. Signed(x) = x
    BY <1>1, <2>2, SignedNear
  <2> QED
    BY <2>1, <2>2, <2>3
<1>3. used = held
  BY <1>1, <1>2
<1>4. n = IF used = {} THEN 0 ELSE Min(nearest)
  BY DEF NextSubscription
<1>5. \A i, j \in held : distance(i) =< distance(j) <=> t.subs[i].time =< t.subs[j].time
  BY <1>2
<1> HIDE DEF distance, used
<1>6. nearest = {i \in held : \A j \in held : t.subs[i].time =< t.subs[j].time}
  BY <1>3, <1>5
<1> HIDE DEF nearest
<1>7. CASE held = {}
  BY <1>3, <1>4, <1>7
<1>8. CASE held # {}
  <2> DEFINE times == {t.subs[i].time : i \in held}
  <2>1. times \subseteq Nat /\ times # {}
    BY <1>8
  <2>2. PICK x \in times : \A y \in times : ~ (<<y, x>> \in OpToRel(<, Nat))
    BY <2>1, NatLessThanWellFounded, WFMin
  <2> HIDE DEF times
  <2>3. \A y \in times : x =< y
    <3>1. \A y \in times : ~ (y < x)
      BY <2>1, <2>2 DEF OpToRel
    <3> QED
      BY <2>1, <3>1
  <2>4. PICK i \in held : x = t.subs[i].time
    BY DEF times
  <2>5. i \in nearest
    BY <1>6, <2>3, <2>4 DEF times
  <2>6. n \in nearest
    <3>1. nearest \in SUBSET Slots
      BY <1>6
    <3> QED
      BY <1>3, <1>4, <1>8, <2>5, <3>1, LeastSlot
  <2>7. n \in Slots /\ n # 0
    BY <1>6, <2>6, TimerAssumption DEF Slots
  <2> QED
    BY <1>6, <2>6, <2>7
<1> QED
  BY <1>7, <1>8

(***************************************************************************)
(* The functions of the driver                                             *)
(***************************************************************************)
\* What timer_schedule does when the time it comes to wait for is to come
LEMMA ScheduleTimes ==
  ASSUME NEW t, Typed(t), NEW time \in Nat, time =< Never, NEW n \in Nat,
         n = IF t.next > time THEN time ELSE t.next, n > t.current, n =< Never,
         NEW u, u = Schedule(t, time)
  PROVE  /\ Typed(u) /\ u.subs = t.subs /\ u.current = t.current /\ u.next = n
         /\ n - t.current >= Period => u.tick = Period
         /\ \/ Counter(u) = 0
            \/ n - t.current >= Period /\ u.tick = Period /\ u.counter = t.counter
<1>1. PICK d \in Nat : d = n - t.current
  BY Fields
<1>2. (n - t.current) % Modulus = d
  <2>1. n - t.current = d /\ d =< Never
    BY <1>1, Fields, Ranges
  <2> QED
    BY <2>1, ModRange
<1>3. u = IF d < Period
          THEN [t EXCEPT !.next = n, !.tick = d, !.counter = Period - d]
          ELSE [t EXCEPT !.next = n, !.tick = Period]
  BY <1>2 DEF Schedule
<1>4. /\ n \in 0 .. Never /\ Period \in 0 .. Period
      /\ d < Period => d \in 0 .. Period /\ Period - d \in 0 .. Period
  BY <1>1, Ranges
<1>5. CASE d < Period
  <2>1. u = [t EXCEPT !.next = n, !.tick = d, !.counter = Period - d]
    BY <1>3, <1>5
  <2>2. /\ Typed(u) /\ u.subs = t.subs /\ u.current = t.current /\ u.next = n
        /\ u.tick = d /\ u.counter = Period - d
    BY <1>4, <1>5, <2>1 DEF Typed, TimerType
  <2>3. Counter(u) = 0
    BY <1>1, <2>2, Ranges DEF Counter
  <2>4. ~ (n - t.current >= Period)
    BY <1>1, <1>5, Ranges
  <2> QED
    BY <2>2, <2>3, <2>4
<1>6. CASE ~ (d < Period)
  <2>1. u = [t EXCEPT !.next = n, !.tick = Period]
    BY <1>3, <1>6
  <2>2. /\ Typed(u) /\ u.subs = t.subs /\ u.current = t.current /\ u.next = n
        /\ u.tick = Period /\ u.counter = t.counter
    BY <1>4, <2>1 DEF Typed, TimerType
  <2>3. n - t.current >= Period
    BY <1>1, <1>6, Ranges
  <2> QED
    BY <2>2, <2>3
<1> QED
  BY <1>5, <1>6

\* The driver waits: what is left of Waits when the table is spelt out
LEMMA WaitsAgain ==
  ASSUME NEW t, NEW u, Typed(u), u.current = t.current, NEW n \in Nat, u.next = n,
         n > t.current, n =< Never, n - t.current >= Period => u.tick = Period,
         \A i \in Slots : u.subs[i].key # NoKey =>
            n =< u.subs[i].time /\ u.subs[i].time < Never /\ u.subs[i].time - u.current <= Far
  PROVE  Waits(u)
<1>1. n \in 0 .. Never
  BY Ranges
<1> QED
  BY <1>1 DEF Waits, WaitsFor, Ahead, Near, Held

LEMMA AdvanceTimes ==
  ASSUME InRange, NEW t, Typed(t), Waits(t),
         NEW e \in Nat, e =< Period, t.current + e =< Horizon,
         NEW u, u = Advance(t, e)
  PROVE  /\ Typed(u) /\ Waits(u) /\ u.current = t.current + e /\ Counter(u) = 0
         /\ \A i \in Slots : \/ u.subs[i] = t.subs[i]
                             \/ u.subs[i].key = NoKey /\ t.subs[i].time =< u.current
<1>1. PICK now \in Nat : now = t.current + e
  BY Fields
<1>2. now =< Horizon /\ now < Never /\ now % Modulus = now
  <2>1. now =< Horizon /\ Horizon < Never
    BY <1>1 DEF InRange
  <2>2. now < Never /\ now =< Never
    BY <2>1, Ranges
  <2> QED
    BY <2>1, <2>2, ModRange
<1> DEFINE moved == [Run(t) EXCEPT !.current = (@ + e) % Modulus, !.counter = 0]
           told == Notify(moved)
           j == NextSubscription(told)
           waiting == [told EXCEPT !.next = told.subs[j].time]
<1>3. /\ Typed(moved) /\ moved.subs = t.subs /\ moved.current = now /\ moved.next = t.next
      /\ moved.tick = t.tick /\ moved.counter = 0
  <2>1. now \in 0 .. Never /\ 0 \in 0 .. Period /\ now =< Horizon
    BY <1>2, Ranges
  <2>2. /\ Typed(Run(t)) /\ Run(t).subs = t.subs /\ Run(t).current = t.current
        /\ Run(t).next = t.next /\ Run(t).tick = t.tick
    BY DEF Run, Typed, TimerType
  <2>3. moved = [Run(t) EXCEPT !.current = now, !.counter = 0]
    BY <1>1, <1>2, <2>2 DEF Typed, TimerType
  <2> HIDE DEF moved
  <2> QED
    BY <2>1, <2>2, <2>3 DEF Typed, TimerType
<1>4. ASSUME NEW i \in Slots, t.subs[i].key # NoKey
      PROVE  /\ t.next =< t.subs[i].time /\ t.current < t.subs[i].time
             /\ t.subs[i].time < Never /\ t.subs[i].time - t.current =< Far
  BY <1>4, Fields DEF Waits, WaitsFor, Ahead, Near, Held
<1>5. u = IF moved.next > moved.current THEN Schedule(moved, moved.next)
          ELSE IF j = 0 THEN Stop(told)
          ELSE Schedule(waiting, told.subs[j].time)
  BY DEF Advance
<1> HIDE DEF moved
<1>6. CASE t.next > now
  <2>1. u = Schedule(moved, moved.next)
    BY <1>3, <1>5, <1>6
  <2>2. PICK n \in Nat : n = t.next /\ n =< Never
    BY Fields
  <2>3. n = IF moved.next > moved.next THEN moved.next ELSE moved.next
    BY <1>3, <2>2
  <2>4. /\ Typed(u) /\ u.subs = moved.subs /\ u.current = moved.current /\ u.next = n
        /\ n - moved.current >= Period => u.tick = Period
        /\ \/ Counter(u) = 0
           \/ n - moved.current >= Period /\ u.tick = Period /\ u.counter = moved.counter
    BY <1>3, <1>6, <2>1, <2>2, <2>3, ScheduleTimes
  <2>5. Counter(u) = 0
    BY <1>3, <2>4, Ranges DEF Counter
  <2>6. Waits(u)
    <3>1. \A i \in Slots : u.subs[i].key # NoKey =>
            n =< u.subs[i].time /\ u.subs[i].time < Never /\ u.subs[i].time - u.current <= Far
      <4> SUFFICES ASSUME NEW i \in Slots, t.subs[i].key # NoKey
                   PROVE  n =< t.subs[i].time /\ t.subs[i].time < Never
                          /\ t.subs[i].time - now <= Far
        BY <1>3, <2>4
      <4>1. PICK f \in Int : f = Far
        BY Ranges DEF Far
      <4> QED
        BY <1>1, <1>4, <2>2, <4>1, Fields
    <3> QED
      BY <1>3, <1>6, <2>2, <2>4, <3>1, WaitsAgain
  <2> QED
    BY <1>1, <1>3, <2>4, <2>5, <2>6
<1>7. CASE ~ (t.next > now)
  <2>1. \A i \in Slots : told.subs[i] = IF IsDue(moved, i) THEN Free ELSE t.subs[i]
    BY <1>3, Fields DEF Notify, Table
  <2>2. ASSUME NEW i \in Slots, t.subs[i].key # NoKey
        PROVE  IsDue(moved, i) <=> t.subs[i].time =< now
    <3>1. PICK x \in Int : x = t.subs[i].time - now
      BY Fields
    <3>2. PICK h \in Nat : h = Modulus \div 2 /\ 2 * h =< Modulus
      BY Ranges
    <3>3. -h =< x /\ x < h
      BY <1>1, <1>4, <2>2, <3>1, <3>2, Fields, Ranges DEF Far
    <3>4. Signed(x) = x
      BY <3>2, <3>3, SignedNear
    <3>5. IsDue(moved, i) <=> Signed(x) <= 0
      BY <1>3, <2>2, <3>1 DEF IsDue
    <3> QED
      BY <3>1, <3>4, <3>5, Fields
  <2>3. ASSUME NEW i \in Slots, t.subs[i].key = NoKey
        PROVE  ~IsDue(moved, i)
    BY <1>3, <2>3 DEF IsDue
  <2>4. /\ Typed(told) /\ told.current = now /\ told.next = t.next /\ told.tick = t.tick
        /\ told.counter = 0
    <3>1. Free \in [key : Keys \cup {NoKey}, time : 0 .. Never] /\ Free.key = NoKey
          /\ Free.time = 0
      BY Ranges DEF Free
    <3>2. told = [moved EXCEPT !.subs = [i \in Slots |-> told.subs[i]]]
      <4>1. told = [moved EXCEPT !.subs = [i \in Slots |-> IF IsDue(moved, i) THEN Free ELSE @[i]]]
        BY DEF Notify
      <4>2. told.subs = [i \in Slots |-> IF IsDue(moved, i) THEN Free ELSE moved.subs[i]]
        BY <1>3, <4>1 DEF Typed, TimerType
      <4> QED
        BY <1>3, <4>1, <4>2 DEF Typed, TimerType
    <3>3. \A i \in Slots : told.subs[i] \in [key : Keys \cup {NoKey}, time : 0 .. Never]
      BY <1>3, <2>1, <3>1 DEF Typed, TimerType
    <3>4. \A i \in Slots : told.subs[i].key = NoKey => told.subs[i].time = 0
      BY <2>1, <3>1, Fields
    <3> HIDE DEF told
    <3> QED
      BY <1>3, <3>2, <3>3, <3>4 DEF Typed, TimerType
  <2>5. ASSUME NEW i \in Slots, told.subs[i].key # NoKey
        PROVE  /\ told.subs[i] = t.subs[i] /\ t.subs[i].key # NoKey /\ now < t.subs[i].time
               /\ t.next =< t.subs[i].time /\ t.subs[i].time < Never
               /\ t.subs[i].time - t.current =< Far
    BY <1>4, <2>1, <2>2, <2>5, Fields DEF Free
  <2>6. \A i \in Slots : \/ told.subs[i] = t.subs[i]
                         \/ told.subs[i].key = NoKey /\ t.subs[i].time =< now
    BY <2>1, <2>2, <2>3 DEF Free
  <2> HIDE DEF told
  <2>7. ASSUME NEW i \in Slots, told.subs[i].key # NoKey
        PROVE  /\ told.subs[i].time \in Nat /\ told.next =< told.subs[i].time
               /\ told.subs[i].time - told.next < Modulus \div 2 - 1
    <3>1. t.next > t.current
      BY DEF Waits, WaitsFor, Ahead, Near, Held
    <3>2. PICK h \in Nat : h = Modulus \div 2
      BY Ranges
    <3> QED
      BY <2>4, <2>5, <2>7, <3>1, <3>2, Fields, Ranges DEF Far
  <2>8. \/ j = 0 /\ \A i \in Slots : told.subs[i].key = NoKey
        \/ /\ j \in Slots /\ j # 0 /\ told.subs[j].key # NoKey
           /\ \A i \in Slots : told.subs[i].key # NoKey => told.subs[j].time =< told.subs[i].time
    BY <2>4, <2>7, Fields, NearestIsNext
  <2>9. u = IF j = 0 THEN Stop(told) ELSE Schedule(waiting, told.subs[j].time)
    BY <1>3, <1>5, <1>7
  <2> HIDE DEF j
  <2>10. CASE j = 0
    <3>1. u = Stop(told) /\ \A i \in Slots : told.subs[i].key = NoKey
      BY <2>8, <2>9, <2>10
    <3>2. /\ Typed(u) /\ u.subs = told.subs /\ u.current = now /\ u.next = Never
          /\ u.tick = Period /\ u.counter = 0
      <4>1. Never \in 0 .. Never /\ Period \in 0 .. Period
        BY Ranges
      <4> QED
        BY <2>4, <3>1, <4>1 DEF Stop, Typed, TimerType
    <3>3. Counter(u) = 0
      BY <3>2, Ranges DEF Counter
    <3>4. Waits(u)
      BY <1>2, <3>1, <3>2, Ranges DEF Waits, WaitsFor, Ahead, Near, Held
    <3> QED
      BY <1>1, <2>6, <3>2, <3>3, <3>4
  <2>11. CASE j # 0
    <3>1. PICK n \in Nat : n = told.subs[j].time /\ n =< Never /\ now < n
      BY <2>4, <2>5, <2>8, <2>11, Fields
    <3>2. /\ Typed(waiting) /\ waiting.subs = told.subs /\ waiting.current = now
          /\ waiting.next = n /\ waiting.counter = 0
      BY <2>4, <3>1 DEF Typed, TimerType
    <3>3. u = Schedule(waiting, n)
      BY <2>9, <2>11, <3>1
    <3> HIDE DEF waiting
    <3>4. n = IF waiting.next > n THEN n ELSE waiting.next
      BY <3>2
    <3>5. /\ Typed(u) /\ u.subs = waiting.subs /\ u.current = waiting.current /\ u.next = n
          /\ n - waiting.current >= Period => u.tick = Period
          /\ \/ Counter(u) = 0
             \/ n - waiting.current >= Period /\ u.tick = Period /\ u.counter = waiting.counter
      BY <3>1, <3>2, <3>3, <3>4, ScheduleTimes
    <3>6. Counter(u) = 0
      BY <3>2, <3>5, Ranges DEF Counter
    <3>7. \A i \in Slots : u.subs[i].key # NoKey =>
            n =< u.subs[i].time /\ u.subs[i].time < Never /\ u.subs[i].time - u.current <= Far
      <4> SUFFICES ASSUME NEW i \in Slots, told.subs[i].key # NoKey
                   PROVE  n =< told.subs[i].time /\ told.subs[i].time < Never
                          /\ told.subs[i].time - now <= Far
        BY <3>2, <3>5
      <4>1. PICK f \in Int : f = Far
        BY Ranges DEF Far
      <4> QED
        BY <1>1, <2>5, <2>8, <2>11, <3>1, <4>1, Fields
    <3>8. Waits(u)
      BY <3>1, <3>2, <3>5, <3>7, WaitsAgain
    <3> QED
      BY <1>1, <2>6, <3>2, <3>5, <3>6, <3>8
  <2> QED
    BY <2>10, <2>11
<1> QED
  BY <1>6, <1>7


\* Nothing is due before the first time the driver waits for
LEMMA ScheduleWaits ==
  ASSUME NEW t, Typed(t), Waits(t), Counter(t) >= 0,
         NEW v, Typed(v), v.current = t.current, v.next = t.next, v.tick = t.tick,
         v.counter = t.counter,
         NEW x \in Nat, x =< Never, x > t.current,
         \A i \in Slots : v.subs[i].key # NoKey =>
            /\ v.subs[i].time < Never /\ v.subs[i].time - t.current =< Far
            /\ x =< v.subs[i].time \/ t.next =< v.subs[i].time,
         NEW u, u = Schedule(v, x)
  PROVE  /\ Typed(u) /\ Waits(u) /\ u.subs = v.subs /\ u.current = t.current
         /\ 0 =< Counter(u) /\ Counter(u) =< Counter(t)
<1>1. PICK n \in Nat : n = IF v.next > x THEN x ELSE v.next
  BY Fields
<1>2. n > t.current /\ n =< Never /\ n =< t.next /\ n =< x
  BY <1>1, Fields, Ranges DEF Waits, WaitsFor, Ahead, Near, Held
<1>3. /\ Typed(u) /\ u.subs = v.subs /\ u.current = v.current /\ u.next = n
      /\ n - v.current >= Period => u.tick = Period
      /\ \/ Counter(u) = 0
         \/ n - v.current >= Period /\ u.tick = Period /\ u.counter = v.counter
  BY <1>1, <1>2, ScheduleTimes
<1>4. \A i \in Slots : u.subs[i].key # NoKey =>
            n =< u.subs[i].time /\ u.subs[i].time < Never /\ u.subs[i].time - u.current <= Far
  <2> SUFFICES ASSUME NEW i \in Slots, v.subs[i].key # NoKey
               PROVE  n =< v.subs[i].time /\ v.subs[i].time < Never
                      /\ v.subs[i].time - t.current <= Far
    BY <1>3
  <2> QED
    BY <1>2, Fields
<1>5. Waits(u)
  BY <1>2, <1>3, <1>4, WaitsAgain
<1>6. Counter(u) = 0 \/ Counter(u) = Counter(t)
  <2> SUFFICES ASSUME n - t.current >= Period, u.tick = Period, u.counter = t.counter
               PROVE  Counter(u) = Counter(t)
    BY <1>3
  <2>1. t.next - t.current >= Period
    BY <1>2, Fields, Ranges
  <2>2. t.tick = Period
    BY <2>1 DEF Waits, WaitsFor, Ahead, Near, Held
  <2> QED
    BY <2>2 DEF Counter
<1>7. Counter(t) \in Int
  BY Fields
<1> QED
  BY <1>3, <1>5, <1>6, <1>7

\* module_timer_timeout puts a time into a slot, and waits for no later one
LEMMA SubscribeTimes ==
  ASSUME InRange, NEW t, Typed(t), Waits(t), Counter(t) >= 0,
         NEW k \in Keys, NEW i \in Slots, NEW d \in Timeouts, InTurn(t, i, d),
         NEW u, u = Subscribe(t, i, k, d)
  PROVE  /\ Typed(u) /\ Waits(u) /\ u.current = t.current
         /\ 0 =< Counter(u) /\ Counter(u) =< Counter(t)
         /\ \A j \in Slots : u.subs[j] = IF j = i THEN [key |-> k, time |-> t.current + d]
                                         ELSE t.subs[j]
<1>1. PICK T \in Nat : T = t.current + d
  BY Fields, TimerAssumption, Ranges
<1>2. T < Never /\ T > t.current /\ T - t.current =< Far /\ T =< Never /\ T % Modulus = T
  <2>1. d \in Nat /\ d > 0 /\ Horizon + d < Never /\ Period + d < Modulus \div 2 - 1
    BY TimerAssumption, Ranges DEF InRange
  <2>2. T < Never /\ T > t.current /\ T =< Never
    BY <1>1, <2>1, Fields, Ranges
  <2>3. T - t.current =< Far
    BY <1>1, <2>1, Fields, Ranges DEF Far
  <2> QED
    BY <2>2, <2>3, ModRange
<1> DEFINE old == t.subs[i].time
           updated == [t EXCEPT !.subs[i] = [key |-> k, time |-> T]]
           next == IF WasCloser(t, i, T) THEN NextSubscription(updated) ELSE i
<1>3. u = IF WasNext(t, i) THEN Schedule(updated, TimeAt(updated, next)) ELSE updated
  BY <1>1, <1>2 DEF Subscribe
<1>4. k # NoKey
  BY TimerAssumption
<1>5. /\ Typed(updated) /\ updated.current = t.current /\ updated.next = t.next
      /\ updated.tick = t.tick /\ updated.counter = t.counter
      /\ \A j \in Slots : updated.subs[j] = IF j = i THEN [key |-> k, time |-> T] ELSE t.subs[j]
  <2>1. T \in 0 .. Never
    BY <1>2, Ranges
  <2> QED
    BY <1>4, <2>1 DEF Typed, TimerType
<1> HIDE DEF updated, next
<1>6. ASSUME NEW j \in Slots, updated.subs[j].key # NoKey
      PROVE  /\ updated.subs[j].time < Never /\ updated.subs[j].time - t.current =< Far
             /\ updated.subs[j].time = T \/ t.next =< updated.subs[j].time
  <2>1. CASE j = i
    BY <1>2, <1>5, <2>1
  <2>2. CASE j # i
    BY <1>5, <1>6, <2>2 DEF Waits, WaitsFor, Ahead, Near, Held
  <2> QED
    BY <2>1, <2>2
<1>7. CASE ~WasNext(t, i)
  <2>1. u = updated /\ t.next =< T
    BY <1>1, <1>2, <1>3, <1>7 DEF InTurn
  <2>2. \A j \in Slots : u.subs[j].key # NoKey =>
          t.next =< u.subs[j].time /\ u.subs[j].time < Never /\ u.subs[j].time - u.current <= Far
    BY <1>5, <1>6, <2>1
  <2>3. Waits(u)
    BY <1>5, <2>1, <2>2, Fields, WaitsAgain DEF Waits, WaitsFor, Ahead, Near, Held
  <2>4. Counter(u) = Counter(t) /\ Counter(t) \in Int
    BY <1>5, <2>1, Fields DEF Counter
  <2> QED
    BY <1>1, <1>5, <2>1, <2>3, <2>4
<1>8. CASE WasNext(t, i)
  <2>1. PICK x : x = TimeAt(updated, next)
    OBVIOUS
  <2>2. u = Schedule(updated, x)
    BY <1>3, <1>8, <2>1
  <2>3. /\ x \in Nat /\ x =< Never /\ x > t.current
        /\ \A j \in Slots : updated.subs[j].key # NoKey =>
              x =< updated.subs[j].time \/ t.next =< updated.subs[j].time
    <3>1. CASE ~ (old # 0 /\ old <= T)
      <4>1. x = T
        BY <1>5, <2>1, <3>1, TimerAssumption DEF next, WasCloser, TimeAt, Slots
      <4> QED
        BY <1>2, <1>6, <4>1
    <3>2. CASE old # 0 /\ old <= T
      <4>1. t.subs[i].key # NoKey
        BY <3>2, Fields
      <4>2. t.next =< T /\ t.next > t.current
        BY <3>2, <4>1, Fields DEF Waits, WaitsFor, Ahead, Near, Held
      <4>3. ASSUME NEW j \in Slots, updated.subs[j].key # NoKey
            PROVE  /\ updated.subs[j].time \in Nat /\ updated.next =< updated.subs[j].time
                   /\ updated.subs[j].time - updated.next < Modulus \div 2 - 1
        <5>1. PICK h \in Nat : h = Modulus \div 2
          BY Ranges
        <5>2. updated.subs[j].time \in Nat /\ t.next =< updated.subs[j].time
          BY <1>5, <1>6, <4>2, <4>3, Fields
        <5>3. updated.subs[j].time - t.current =< h - 2 - Period
          BY <1>6, <4>3, <5>1 DEF Far
        <5> QED
          BY <1>5, <4>2, <5>1, <5>2, <5>3, Fields, Ranges
      <4>4. next = NextSubscription(updated) /\ updated.next \in Nat
        BY <1>5, <3>2, Fields DEF next, WasCloser
      <4>5. next \in Slots /\ updated.subs[next].key # NoKey
        <5>1. updated.subs[i].key # NoKey
          BY <1>4, <1>5
        <5> QED
          BY <4>3, <4>4, <5>1, NearestIsNext
      <4>6. x \in Nat /\ x =< Never /\ t.next =< x
        <5>1. x = updated.subs[next].time
          BY <2>1, <4>5, TimerAssumption DEF TimeAt, Slots
        <5> QED
          BY <1>5, <4>3, <4>5, <5>1, Fields
      <4> QED
        BY <1>5, <4>2, <4>3, <4>6, Fields
    <3> QED
      BY <3>1, <3>2
  <2>4. /\ Typed(u) /\ Waits(u) /\ u.subs = updated.subs /\ u.current = t.current
        /\ 0 =< Counter(u) /\ Counter(u) =< Counter(t)
    BY <1>5, <1>6, <2>2, <2>3, ScheduleWaits
  <2> QED
    BY <1>1, <1>5, <2>4
<1> QED
  BY <1>7, <1>8

\* module_timer_clear frees a slot
LEMMA UnsubscribeTimes ==
  ASSUME NEW t, Typed(t), Waits(t), Counter(t) >= 0, NEW i \in Slots,
         NEW u, u = Unsubscribe(t, i)
  PROVE  /\ Typed(u) /\ Waits(u) /\ u.current = t.current
         /\ 0 =< Counter(u) /\ Counter(u) =< Counter(t)
         /\ \A j \in Slots : u.subs[j] = IF j = i THEN Free ELSE t.subs[j]
<1> DEFINE cleared == [t EXCEPT !.subs[i] = Free]
           next == NextSubscription(cleared)
<1>1. \/ u = cleared
      \/ next # 0 /\ u = Schedule(cleared, cleared.subs[next].time)
  BY DEF Unsubscribe
<1>2. /\ Typed(cleared) /\ cleared.current = t.current /\ cleared.next = t.next
      /\ cleared.tick = t.tick /\ cleared.counter = t.counter
      /\ \A j \in Slots : cleared.subs[j] = IF j = i THEN Free ELSE t.subs[j]
  <2>1. 0 \in 0 .. Never
    BY Ranges
  <2> QED
    BY <2>1 DEF Typed, TimerType, Free
<1> HIDE DEF cleared
<1>3. ASSUME NEW j \in Slots, cleared.subs[j].key # NoKey
      PROVE  /\ t.next =< cleared.subs[j].time /\ cleared.subs[j].time < Never
             /\ cleared.subs[j].time - t.current =< Far
  <2>1. cleared.subs[j] = t.subs[j]
    BY <1>2, <1>3 DEF Free
  <2> QED
    BY <1>3, <2>1 DEF Waits, WaitsFor, Ahead, Near, Held
<1>4. CASE u = cleared
  <2>1. Waits(u)
    BY <1>2, <1>3, <1>4 DEF Waits, WaitsFor, Ahead, Near, Held
  <2>2. Counter(u) = Counter(t) /\ Counter(t) \in Int
    BY <1>2, <1>4, Fields DEF Counter
  <2> QED
    BY <1>2, <1>4, <2>1, <2>2
<1>5. CASE next # 0 /\ u = Schedule(cleared, cleared.subs[next].time)
  <2>1. t.next > t.current
    BY DEF Waits, WaitsFor, Ahead, Near, Held
  <2>2. ASSUME NEW j \in Slots, cleared.subs[j].key # NoKey
        PROVE  /\ cleared.subs[j].time \in Nat /\ cleared.next =< cleared.subs[j].time
               /\ cleared.subs[j].time - cleared.next < Modulus \div 2 - 1
    <3>1. PICK h \in Nat : h = Modulus \div 2
      BY Ranges
    <3>2. cleared.subs[j].time \in Nat /\ t.next =< cleared.subs[j].time
      BY <1>2, <1>3, <2>2, Fields
    <3>3. cleared.subs[j].time - t.current =< h - 2 - Period
      BY <1>3, <2>2, <3>1 DEF Far
    <3> QED
      BY <1>2, <2>1, <3>1, <3>2, <3>3, Fields, Ranges
  <2>3. next \in Slots /\ cleared.subs[next].key # NoKey
    BY <1>2, <1>5, <2>2, Fields, NearestIsNext
  <2>4. PICK x \in Nat : x = cleared.subs[next].time /\ x =< Never /\ t.next =< x
    BY <1>2, <2>2, <2>3, Fields
  <2>5. u = Schedule(cleared, x)
    BY <1>5, <2>4
  <2> HIDE DEF next
  <2>6. /\ Typed(u) /\ Waits(u) /\ u.subs = cleared.subs /\ u.current = t.current
        /\ 0 =< Counter(u) /\ Counter(u) =< Counter(t)
    <3>1. x > t.current
      BY <2>1, <2>4, Fields
    <3> QED
      BY <1>2, <1>3, <2>4, <2>5, <3>1, ScheduleWaits
  <2> QED
    BY <1>2, <2>6
<1> QED
  BY <1>1, <1>4, <1>5

(***************************************************************************)
(* The steps of a call that nobody meets                                   *)
(***************************************************************************)
\* A call under way, and what is known of it
Going(x, t, d, n) ==
    /\ x \in CallType /\ Placed(x) /\ Typed(t)
    /\ d \in [Keys -> Nat] /\ n \in Nat /\ n <= Horizon
    /\ CallTimed(x, t, d, n)

LEMMA CountedLess ==
  ASSUME NEW t, NEW u, Typed(t), Typed(u), NEW d \in [Keys -> Nat], NEW n \in Nat, NEW l \in Nat,
         NEW p \in Int, NEW q \in Int, NEW H \in SUBSET Held(t), NEW G \in SUBSET H,
         CountedOnce(p, H, t, d, n), q >= 0, u.current + q + n <= t.current + p + l,
         \A i \in G : u.subs[i] = t.subs[i]
  PROVE  CountedOnce(q, G, u, d, l)
<1>1. t.current \in Nat /\ u.current \in Nat
  BY Fields
<1>2. u.current + q <= l
  BY <1>1 DEF CountedOnce
<1>3. ASSUME NEW i \in G
      PROVE  d[u.subs[i].key] + u.current + q <= l + u.subs[i].time
  <2>1. i \in Slots /\ t.subs[i].key \in Keys /\ t.subs[i].time \in Nat
    BY Fields DEF Held
  <2>2. d[t.subs[i].key] \in Nat
    BY <2>1
  <2>3. d[t.subs[i].key] + t.current + p <= n + t.subs[i].time
    BY DEF CountedOnce
  <2> QED
    BY <1>1, <2>1, <2>2, <2>3
<1> QED
  BY <1>2, <1>3 DEF CountedOnce

\* What is yet to be counted is a number
LEMMA PendingType ==
  ASSUME NEW x, NEW t, Typed(t)
  PROVE  Pending(x, t) \in Int
BY Fields DEF Pending

LEMMA CountingHeld ==
  ASSUME NEW x, NEW t
  PROVE  Counting(x, t) \in SUBSET Held(t)
BY DEF Counting

LEMMA GoesOn ==
  ASSUME NEW x, NEW t, NEW d, NEW n, Going(x, t, d, n),
         NEW y, y.asked = x.asked, NEW u, Typed(u),
         Pending(y, u) >= 0, u.current + Pending(y, u) <= t.current + Pending(x, t),
         \/ y.at \in Entry
         \/ x.at \notin Entry /\ Pending(y, u) <= Pending(x, t)
         \/ Pending(y, u) = 0,
         Counting(y, u) \subseteq Counting(x, t), \A i \in Counting(y, u) : u.subs[i] = t.subs[i],
         Stage(y, u)
  PROVE  CallTimed(y, u, d, n)
<1>1. PICK p \in Int : p = Pending(x, t)
  BY PendingType DEF Going
<1>2. PICK q \in Int : q = Pending(y, u)
  BY PendingType
<1>3. t.current \in Nat /\ u.current \in Nat /\ n \in Nat /\ Typed(t) /\ d \in [Keys -> Nat]
  BY Fields DEF Going
<1>4. CountedOnce(p, Counting(x, t), t, d, n) /\ Begins(x, t, n) /\ x.asked \in Nat
  BY <1>1 DEF Going, CallTimed, CallType
<1>5. CountedOnce(q, Counting(y, u), u, d, n)
  <2>1. u.current + q + n <= t.current + p + n
    BY <1>1, <1>2, <1>3
  <2>2. Counting(x, t) \in SUBSET Held(t) /\ Counting(y, u) \in SUBSET Counting(x, t)
    BY CountingHeld
  <2> HIDE DEF Going
  <2> QED
    BY <1>2, <1>3, <1>4, <2>1, <2>2, CountedLess
<1>6. Begins(y, u, n)
  <2>1. p >= 0
    BY <1>4 DEF CountedOnce
  <2>2. x.asked <= n
    BY <1>1, <1>4, <2>1, <1>3 DEF Begins
  <2> QED
    BY <1>1, <1>2, <1>3, <1>4, <2>1, <2>2 DEF Begins
<1> QED
  BY <1>2, <1>5, <1>6 DEF CallTimed

LEMMA SameTable ==
  ASSUME NEW t, NEW u, u.subs = t.subs, u.current = t.current
  PROVE  Held(u) = Held(t) /\ \A H : Near(u, H) <=> Near(t, H)
BY DEF Held, Near

LEMMA SameWaits ==
  ASSUME NEW t, NEW u, u.subs = t.subs, u.current = t.current, u.next = t.next
  PROVE  /\ Held(u) = Held(t) /\ (Overdue(u) <=> Overdue(t))
         /\ u.tick = t.tick => /\ Ahead(u) <=> Ahead(t)
                               /\ \A H : WaitsFor(u, H) <=> WaitsFor(t, H)
                               /\ Waits(u) <=> Waits(t)
BY SameTable DEF Overdue, Ahead, WaitsFor, Waits

\* Typed, when the table and the time are kept
LEMMA TypedAgain ==
  ASSUME NEW t, Typed(t), NEW u \in TimerType, u.subs = t.subs, u.current = t.current
  PROVE  Typed(u)
BY DEF Typed

LEMMA EntryGoesOn ==
  ASSUME NEW x, NEW t, NEW d, NEW n, Going(x, t, d, n),
         x.at \in {"measure", "start", "run", "enable", "load"},
         NEW y \in CallType, y.asked = x.asked, y.at \in Entry, y.at # "measure",
         y.elapsed = IF x.at = "measure" THEN Elapsed(x.elapsed, t) ELSE x.elapsed,
         y.at = "add" => y.time = t.current,
         NEW u \in TimerType, u.subs = t.subs, u.current = t.current, u.next = t.next,
         u.tick = t.tick, u.counter = t.counter
  PROVE  Typed(u) /\ CallTimed(y, u, d, n)
<1>1. Typed(t) /\ Typed(u)
  BY TypedAgain DEF Going
<1>2. Enters(x, t)
  BY DEF Going, CallTimed, Stage, Entry
<1>3. Counter(u) = Counter(t) /\ Counter(t) \in Int
  BY <1>1, Fields DEF Counter
<1>4. Pending(x, t) = Counter(t) /\ Pending(y, u) = Counter(t)
  BY <1>3 DEF Pending, Advanced, Halting, Entry
<1>5. Counting(x, t) = Held(t) /\ Counting(y, u) = Held(t)
  BY SameWaits DEF Counting, Entry
<1>6. y.elapsed <= Counter(u)
  <2>1. CASE x.at = "measure"
    <3>1. x.elapsed \in Nat /\ x.elapsed <= Never
      BY Ranges DEF Going, CallType
    <3>2. PICK e \in Nat : e = x.elapsed - (Period - t.tick) /\ e <= Counter(t)
      BY <1>1, <1>2, <2>1, <3>1, Fields, Ranges DEF Enters, Counter
    <3>3. e <= Never
      BY <1>1, <3>2, Fields, Ranges
    <3>4. Elapsed(x.elapsed, t) = e
      BY <3>2, <3>3, ModRange DEF Elapsed
    <3> QED
      BY <1>3, <2>1, <3>2, <3>4
  <2>2. CASE x.at # "measure"
    BY <1>2, <1>3, <2>2 DEF Enters
  <2> QED
    BY <2>1, <2>2
<1>7. Waits(u)
  BY <1>2, SameWaits DEF Enters
<1>8. Enters(y, u)
  BY <1>6, <1>7 DEF Enters
<1>9. Stage(y, u)
  BY <1>8 DEF Stage, Entry, Halting
<1>10. Pending(x, t) >= 0
  BY DEF Going, CallTimed, CountedOnce
<1>11. t.current \in Nat
  BY <1>1, Fields
<1>12. \A i \in Counting(y, u) : u.subs[i] = t.subs[i]
  OBVIOUS
<1>13. /\ Pending(y, u) >= 0 /\ u.current + Pending(y, u) <= t.current + Pending(x, t)
       /\ Counting(y, u) \subseteq Counting(x, t)
  BY <1>3, <1>4, <1>5, <1>10, <1>11
<1> QED
  BY <1>1, <1>9, <1>12, <1>13, GoesOn

\* The time is advanced
LEMMA AddGoesOn ==
  ASSUME InRange, NEW x, NEW t, NEW d, NEW n, Going(x, t, d, n), x.at = "add",
         NEW y \in CallType, y.asked = x.asked, y.at = "reset",
         NEW u \in TimerType, u.subs = t.subs, u.current = (x.time + x.elapsed) % Modulus,
         u.next = t.next
  PROVE  Typed(u) /\ CallTimed(y, u, d, n)
<1>1. Typed(t) /\ n \in Nat /\ n <= Horizon
  BY DEF Going
<1>2. Waits(t) /\ x.elapsed <= Counter(t) /\ x.time = t.current
  BY DEF Going, CallTimed, Stage, Entry, Enters
<1>3. Pending(x, t) = Counter(t) /\ Pending(y, u) = 0
  BY DEF Pending, Advanced, Halting
<1>4. t.current + Counter(t) <= n
  BY <1>3 DEF Going, CallTimed, CountedOnce
<1>5. PICK e \in Nat : e = x.elapsed
  BY Ranges DEF Going, CallType
<1>6. PICK at \in Nat : at = t.current + e /\ at <= Horizon /\ at <= t.current + Counter(t)
  BY <1>1, <1>2, <1>4, <1>5, Fields, Ranges
<1>7. at <= Never /\ at % Modulus = at
  <2>1. at <= Never
    BY <1>6, Ranges DEF InRange
  <2> QED
    BY <2>1, ModRange
<1>8. u.current = at
  BY <1>2, <1>5, <1>6, <1>7
<1>9. Typed(u)
  BY <1>1, <1>6, <1>8 DEF Typed
<1>10. Held(u) = Held(t)
  BY DEF Held
<1>11. Overdue(u)
  <2>1. at < t.next + Period
    BY <1>1, <1>2, <1>5, <1>6, Fields, Ranges DEF Waits, WaitsFor, Ahead
  <2>2. ASSUME NEW i \in Held(t)
        PROVE  /\ t.next <= t.subs[i].time /\ t.subs[i].time < Never
               /\ t.subs[i].time - at <= Far
    <3>1. t.subs[i].time \in Nat /\ t.current \in Nat
      BY <1>1, Fields DEF Held
    <3>2. t.next <= t.subs[i].time /\ t.subs[i].time < Never
          /\ t.subs[i].time - t.current <= Far
      BY <1>2 DEF Waits, WaitsFor, Near
    <3>3. Far \in Int
      BY Ranges DEF Far
    <3> QED
      BY <1>6, <3>1, <3>2, <3>3
  <2> QED
    BY <1>8, <1>10, <2>1, <2>2 DEF Overdue, Near
<1>12. Stage(y, u)
  BY <1>11 DEF Stage, Entry, Halting
<1>13. Counting(x, t) = Held(t) /\ Counting(y, u) = Held(t)
  BY <1>10 DEF Counting
<1>14. /\ Pending(y, u) >= 0 /\ u.current + Pending(y, u) <= t.current + Pending(x, t)
       /\ Counting(y, u) \subseteq Counting(x, t) /\ \A i \in Counting(y, u) : u.subs[i] = t.subs[i]
  BY <1>3, <1>6, <1>8, <1>13
<1> QED
  BY <1>3, <1>9, <1>12, <1>14, GoesOn

\* The counter is reset
LEMMA ResetGoesOn ==
  ASSUME NEW x, NEW t, NEW d, NEW n, Going(x, t, d, n), x.at = "reset",
         NEW y \in CallType, y.asked = x.asked, y.at = "test",
         NEW u \in TimerType, u.subs = t.subs, u.current = t.current, u.next = t.next,
         u.counter = 0
  PROVE  Typed(u) /\ CallTimed(y, u, d, n)
<1>1. Typed(t) /\ Typed(u) /\ t.current \in Nat
  BY TypedAgain, Fields DEF Going
<1>2. Pending(x, t) = 0 /\ Pending(y, u) = 0
  BY DEF Pending, Advanced, Halting
<1>3. Overdue(u)
  BY SameWaits DEF Going, CallTimed, Stage
<1>4. Stage(y, u)
  BY <1>3 DEF Stage, Entry, Halting
<1>5. Counting(x, t) = Held(t) /\ Counting(y, u) = Held(t)
  BY SameWaits DEF Counting
<1>6. /\ Pending(y, u) >= 0 /\ u.current + Pending(y, u) <= t.current + Pending(x, t)
      /\ Counting(y, u) \subseteq Counting(x, t) /\ \A i \in Counting(y, u) : u.subs[i] = t.subs[i]
  BY <1>1, <1>2, <1>5
<1> QED
  BY <1>1, <1>2, <1>4, <1>6, GoesOn

\* A call that leaves the times as they are, while it counts by the counter
LEMMA KeepsGoing ==
  ASSUME NEW x, NEW t, NEW d, NEW n, Going(x, t, d, n),
         x.at \in Advanced,
         NEW y \in CallType, y.asked = x.asked,
         y.at \in Advanced \/ (y.at \in {"schedule", "tick"} /\ ~y.wasNext),
         NEW u, Typed(u), u.current = t.current, u.counter = t.counter,
         \A i \in Held(u) : u.subs[i] = t.subs[i], Stage(y, u)
  PROVE  CallTimed(y, u, d, n)
<1>1. Typed(t) /\ t.current \in Nat /\ t.counter \in Nat
  BY Fields DEF Going
<1>2. Pending(x, t) = t.counter /\ Pending(y, u) = t.counter
  BY DEF Pending, Advanced, Halting
<1>3. Counting(x, t) = Held(t) /\ Counting(y, u) = Held(u)
  BY DEF Counting, Advanced, Halting
<1>4. Held(u) \subseteq Held(t)
  BY DEF Held
<1>5. x.at \notin Entry
  BY DEF Entry, Advanced, Halting
<1>6. /\ Pending(y, u) >= 0 /\ u.current + Pending(y, u) <= t.current + Pending(x, t)
      /\ Counting(y, u) \subseteq Counting(x, t) /\ \A i \in Counting(y, u) : u.subs[i] = t.subs[i]
      /\ Pending(y, u) <= Pending(x, t)
  BY <1>1, <1>2, <1>3, <1>4
<1> QED
  BY <1>5, <1>6, GoesOn

LEMMA TestGoesOn ==
  ASSUME NEW x, NEW t, NEW d, NEW n, Going(x, t, d, n), x.at = "test",
         NEW y \in CallType, y.asked = x.asked, y.wasNext = x.wasNext,
         \/ t.next > t.current /\ y.at = "schedule" /\ y.time = t.next
         \/ y.at = "look" /\ y.slot = 1
  PROVE  CallTimed(y, t, d, n)
<1>1. Typed(t) /\ Overdue(t) /\ ~y.wasNext
  BY DEF Going, CallTimed, Stage, Placed, Decided
<1>2. CASE t.next > t.current /\ y.at = "schedule" /\ y.time = t.next
  <2>1. Schedules(y, t)
    BY <1>1, <1>2 DEF Schedules, Overdue
  <2>2. Stage(y, t)
    BY <1>2, <2>1 DEF Stage, Entry, Halting
  <2>3. x.at \in Advanced
    BY DEF Advanced
  <2> QED
    BY <1>1, <1>2, <2>2, <2>3, KeepsGoing
<1>3. CASE y.at = "look" /\ y.slot = 1
  <2>1. \A i \in Held(t) : ~ (i < y.slot)
    BY <1>3, TimerAssumption DEF Held, Slots
  <2>2. Looks(y, t)
    BY <1>1, <1>3, <2>1 DEF Looks
  <2>3. Stage(y, t)
    BY <1>3, <2>2 DEF Stage, Entry, Halting
  <2>4. x.at \in Advanced /\ y.at \in Advanced
    BY <1>3 DEF Advanced
  <2> QED
    BY <1>1, <2>3, <2>4, KeepsGoing
<1> QED
  BY <1>2, <1>3

\* What the signed difference tells
LEMMA DueByTime ==
  ASSUME InRange, NEW t, Typed(t), Overdue(t), NEW i \in Held(t)
  PROVE  Signed(t.subs[i].time - t.current) <= 0 <=> t.subs[i].time <= t.current
<1>1. PICK z \in Int : z = t.subs[i].time - t.current
  BY Fields DEF Held
<1>2. PICK h \in Nat : h = Modulus \div 2 /\ 2 * h =< Modulus
  BY Ranges
<1>3. t.subs[i].time \in Nat /\ t.current \in Nat /\ t.next \in Nat /\ Period \in Nat
  BY Fields, Ranges DEF Held
<1>4. /\ t.current < t.next + Period /\ t.next <= t.subs[i].time
      /\ t.subs[i].time - t.current <= Far
  BY DEF Overdue, Near
<1>5. z < h /\ z > -Period
  BY <1>1, <1>2, <1>3, <1>4 DEF Far
<1>6. Signed(z) = z
  BY <1>2, <1>3, <1>5, SignedNear DEF InRange
<1> QED
  BY <1>1, <1>3, <1>6

\* The loop of timer_notify: a slot is looked at ...
LEMMA ProbeGoesOn ==
  ASSUME NEW x, NEW t, NEW d, NEW n, Going(x, t, d, n), x.at \in {"look", "due", "read"},
         NEW y \in CallType, y.asked = x.asked, y.slot = x.slot, y.at \in {"due", "read", "free"},
         x.at \in {"look", "due"} => y.at = "due" \/ t.subs[x.slot].time <= t.current
  PROVE  CallTimed(y, t, d, n)
<1>1. Typed(t) /\ Looks(x, t)
  BY DEF Going, CallTimed, Stage
<1>2. Looks(y, t)
  BY <1>1 DEF Looks
<1>3. Stage(y, t)
  BY <1>2 DEF Stage, Entry, Halting
<1>4. x.at \in Advanced /\ y.at \in Advanced
  BY DEF Advanced
<1> QED
  BY <1>1, <1>3, <1>4, KeepsGoing

\* ... and the next one
LEMMA LoopGoesOn ==
  ASSUME NEW x, NEW t, NEW d, NEW n, Going(x, t, d, n), x.at \in {"look", "due", "free"},
         x.slot \in Slots, NEW y \in CallType, y.asked = x.asked,
         IF x.slot < SlotCount THEN y.at = "look" /\ y.slot = x.slot + 1 ELSE y.at = "pick",
         NEW u \in TimerType, u.current = t.current, u.next = t.next, u.counter = t.counter,
         \A i \in Slots : u.subs[i] = t.subs[i] \/ (i = x.slot /\ u.subs[i] = Free),
         x.slot \in Held(u) => u.subs[x.slot].time > u.current
  PROVE  Typed(u) /\ CallTimed(y, u, d, n)
<1>1. Typed(t) /\ Looks(x, t) /\ Overdue(t)
  BY DEF Going, CallTimed, Stage, Looks
<1>2. Typed(u)
  BY <1>1 DEF Typed, Free
<1>3. \A i \in Held(u) : u.subs[i] = t.subs[i] /\ i \in Held(t)
  BY DEF Held, Free
<1>4. Overdue(u)
  BY <1>1, <1>3 DEF Overdue, Near
<1>5. SlotCount \in Nat /\ Slots = 1 .. SlotCount
  BY TimerAssumption DEF Slots
<1>6. ASSUME NEW i \in Held(u), i <= x.slot
      PROVE  u.subs[i].time > u.current
  <2>1. CASE i = x.slot
    BY <2>1
  <2>2. CASE i # x.slot
    <3>1. i < x.slot
      BY <1>5, <1>6, <2>2 DEF Held
    <3> QED
      BY <1>1, <1>3, <3>1 DEF Looks
  <2> QED
    BY <2>1, <2>2
<1>7. Stage(y, u)
  <2>1. CASE x.slot < SlotCount
    <3>1. \A i \in Held(u) : i < y.slot => i <= x.slot
      BY <1>5, <2>1 DEF Held
    <3>2. Looks(y, u)
      BY <1>4, <1>6, <2>1, <3>1 DEF Looks
    <3> QED
      BY <2>1, <3>2 DEF Stage, Entry, Halting
  <2>2. CASE ~ (x.slot < SlotCount)
    <3>1. \A i \in Held(u) : i <= x.slot
      BY <1>5, <2>2 DEF Held
    <3>2. Picks(y, u)
      BY <1>4, <1>6, <2>2, <3>1 DEF Picks
    <3> QED
      BY <2>2, <3>2 DEF Stage, Entry, Halting
  <2> QED
    BY <2>1, <2>2
<1>8. x.at \in Advanced /\ y.at \in Advanced
  BY DEF Advanced
<1> QED
  BY <1>1, <1>2, <1>3, <1>7, <1>8, KeepsGoing

\* The slot of the first time, of those that are not before the one waited for
LEMMA NextIsFirst ==
  ASSUME InRange, NEW t, Typed(t), Near(t, Held(t)), t.current < t.next + Period,
         \A i \in Held(t) : t.next <= t.subs[i].time,
         NEW j, j = NextSubscription(t)
  PROVE  \/ j = 0 /\ Held(t) = {}
         \/ /\ j # 0 /\ j \in Held(t)
            /\ \A i \in Held(t) : t.subs[j].time <= t.subs[i].time
<1>1. ASSUME NEW i \in Slots, t.subs[i].key # NoKey
      PROVE  /\ t.subs[i].time \in Nat /\ t.next =< t.subs[i].time
             /\ t.subs[i].time - t.next < Modulus \div 2 - 1
  <2>1. i \in Held(t)
    BY <1>1 DEF Held
  <2>2. PICK h \in Nat : h = Modulus \div 2
    BY Ranges
  <2>3. t.subs[i].time \in Nat /\ t.current \in Nat /\ t.next \in Nat /\ Period \in Nat
    BY Fields, Ranges
  <2>4. t.subs[i].time - t.current <= h - 2 - Period
    BY <2>1, <2>2 DEF Near, Far
  <2>5. t.subs[i].time - t.next < h - 1
    BY <2>2, <2>3, <2>4
  <2> QED
    BY <2>1, <2>2, <2>3, <2>5
<1>2. t.next \in Nat
  BY Fields
<1>3. \/ j = 0 /\ \A i \in Slots : t.subs[i].key = NoKey
      \/ /\ j \in Slots /\ j # 0 /\ t.subs[j].key # NoKey
         /\ \A i \in Slots : t.subs[i].key # NoKey => t.subs[j].time =< t.subs[i].time
  BY <1>1, <1>2, NearestIsNext
<1> QED
  BY <1>3 DEF Held

LEMMA PickGoesOn ==
  ASSUME InRange, NEW x, NEW t, NEW d, NEW n, Going(x, t, d, n), x.at = "pick",
         NEW y \in CallType, y.asked = x.asked,
         IF NextSubscription(t) = 0 THEN y.at = "halt"
         ELSE y.at = "await" /\ y.slot = NextSubscription(t)
  PROVE  CallTimed(y, t, d, n)
<1>1. Typed(t) /\ Picks(x, t)
  BY DEF Going, CallTimed, Stage
<1>2. PICK j : j = NextSubscription(t)
  OBVIOUS
<1>3. \/ j = 0 /\ Held(t) = {}
      \/ /\ j # 0 /\ j \in Held(t)
         /\ \A i \in Held(t) : t.subs[j].time <= t.subs[i].time
  BY <1>1, <1>2, NextIsFirst DEF Picks, Overdue
<1>4. CASE j = 0
  <2>1. Halts(y, t) /\ y.at = "halt"
    BY <1>2, <1>3, <1>4 DEF Halts
  <2>2. Stage(y, t)
    BY <2>1 DEF Stage, Entry, Halting
  <2>3. x.at \in Advanced /\ y.at \in Advanced
    BY <2>1 DEF Advanced, Halting
  <2> QED
    BY <1>1, <2>2, <2>3, KeepsGoing
<1>5. CASE j # 0
  <2>1. Picks(y, t) /\ y.at = "await"
    BY <1>1, <1>2, <1>3, <1>5 DEF Picks
  <2>2. Stage(y, t)
    BY <2>1 DEF Stage, Entry, Halting
  <2>3. x.at \in Advanced /\ y.at \in Advanced
    BY <2>1 DEF Advanced
  <2> QED
    BY <1>1, <2>2, <2>3, KeepsGoing
<1> QED
  BY <1>4, <1>5

\* The first time is waited for
LEMMA AwaitGoesOn ==
  ASSUME NEW x, NEW t, NEW d, NEW n, Going(x, t, d, n), x.at = "await",
         NEW y \in CallType, y.asked = x.asked, y.at = "schedule", y.wasNext = x.wasNext,
         y.time = t.subs[x.slot].time,
         NEW u \in TimerType, u.subs = t.subs, u.current = t.current, u.counter = t.counter,
         u.next = t.subs[x.slot].time
  PROVE  Typed(u) /\ CallTimed(y, u, d, n)
<1>1. Typed(t) /\ Typed(u) /\ Picks(x, t) /\ ~y.wasNext
  BY TypedAgain DEF Going, CallTimed, Stage, Placed, Decided
<1>2. Held(u) = Held(t) /\ Near(u, Held(u))
  BY <1>1, SameTable DEF Picks, Overdue
<1>3. Schedules(y, u)
  BY <1>1, <1>2 DEF Picks, Schedules
<1>4. Stage(y, u)
  BY <1>3 DEF Stage, Entry, Halting
<1>5. x.at \in Advanced
  BY DEF Advanced
<1> QED
  BY <1>1, <1>4, <1>5, KeepsGoing

\* The timer stops
LEMMA HaltGoesOn ==
  ASSUME NEW x, NEW t, NEW d, NEW n, Going(x, t, d, n), x.at \in Halting,
         NEW y \in CallType, y.asked = x.asked, y.at \in Halting,
         NEW u \in TimerType, u.subs = t.subs, u.current = t.current, u.counter = t.counter,
         y.at \in {"still", "disable"} => u.next = Never,
         y.at = "disable" => u.tick = Period
  PROVE  Typed(u) /\ CallTimed(y, u, d, n)
<1>1. Typed(t) /\ Typed(u) /\ Held(t) = {}
  BY TypedAgain DEF Going, CallTimed, Stage, Halts
<1>2. Held(u) = {}
  BY <1>1, SameTable
<1>3. Halts(y, u)
  BY <1>2 DEF Halts
<1>4. Stage(y, u)
  BY <1>3 DEF Stage, Entry, Halting
<1>5. x.at \in Advanced /\ y.at \in Advanced
  BY DEF Advanced
<1> QED
  BY <1>1, <1>4, <1>5, KeepsGoing

\* The times are in order again: the call goes on to find a slot, or returns
LEMMA Returns ==
  ASSUME NEW x, NEW t, NEW d, NEW n, Going(x, t, d, n), x.at \notin Entry,
         NEW u, Typed(u), Waits(u), Counter(u) >= 0,
         Counter(u) <= Pending(x, t), u.current = t.current, u.subs = t.subs,
         Counting(x, t) = Held(t)
  PROVE  /\ Rests(FALSE, u, d, n)
         /\ \A y : y.asked = x.asked /\ y.at \in {"find", "claim"} => CallTimed(y, u, d, n)
<1>1. PICK p \in Int : p = Pending(x, t)
  BY PendingType DEF Going
<1>2. Typed(t) /\ d \in [Keys -> Nat] /\ n \in Nat /\ t.current \in Nat /\ Counter(u) \in Int
  BY Fields DEF Going
<1>3. Held(u) = Held(t)
  BY SameTable
<1>4. CountedOnce(p, Held(t), t, d, n)
  BY <1>1 DEF Going, CallTimed
<1>5. u.current + Counter(u) + n <= t.current + p + n
  BY <1>1, <1>2
<1>6. CountedOnce(Counter(u), Held(u), u, d, n)
  BY <1>2, <1>3, <1>4, <1>5, CountedLess
<1>7. ASSUME NEW y, y.asked = x.asked, y.at \in {"find", "claim"}
      PROVE  CallTimed(y, u, d, n)
  <2>1. Pending(y, u) = Counter(u) /\ Counting(y, u) = Held(u)
    BY <1>7 DEF Pending, Counting, Advanced, Halting
  <2>2. Stage(y, u)
    BY <1>7 DEF Stage, Entry, Halting
  <2>3. /\ Pending(y, u) >= 0 /\ u.current + Pending(y, u) <= t.current + Pending(x, t)
        /\ Pending(y, u) <= Pending(x, t)
        /\ Counting(y, u) \subseteq Counting(x, t) /\ \A i \in Counting(y, u) : u.subs[i] = t.subs[i]
    BY <1>1, <1>2, <1>3, <2>1
  <2> QED
    BY <1>7, <2>2, <2>3, GoesOn
<1> QED
  BY <1>6, <1>7 DEF Rests

LEMMA DisableGoesOn ==
  ASSUME InRange, NEW x, NEW t, NEW d, NEW n, Going(x, t, d, n), x.at = "disable",
         NEW y, y.asked = x.asked, y.at = "find",
         NEW u \in TimerType, u.subs = t.subs, u.current = t.current, u.next = t.next,
         u.tick = t.tick, u.counter = t.counter
  PROVE  Typed(u) /\ CallTimed(y, u, d, n)
<1>1. Typed(t) /\ Typed(u) /\ Halts(x, t)
  BY TypedAgain DEF Going, CallTimed, Stage, Halting
<1>2. u.next = Never /\ u.tick = Period /\ Held(t) = {} /\ Held(u) = {}
  BY <1>1, SameTable DEF Halts
<1>3. Never > u.current
  BY <1>1, Fields, Ranges DEF InRange
<1>4. Waits(u)
  BY <1>2, <1>3 DEF Waits, WaitsFor, Ahead, Near
<1>5. Pending(x, t) = t.counter /\ Counting(x, t) = Held(t)
  BY DEF Pending, Counting, Advanced, Halting
<1>6. Counter(u) = t.counter /\ t.counter \in Nat
  BY <1>1, <1>2, Fields, Ranges DEF Counter
<1>7. x.at \notin Entry /\ Counter(u) >= 0 /\ Counter(u) <= Pending(x, t)
  BY <1>5, <1>6 DEF Entry
<1> QED
  BY <1>1, <1>4, <1>5, <1>7, Returns

\* timer_schedule
LEMMA ScheduleNextGoesOn ==
  ASSUME NEW x, NEW t, NEW d, NEW n, Going(x, t, d, n), x.at = "schedule",
         NEW y \in CallType, y.asked = x.asked, y.at = "tick", y.wasNext = x.wasNext,
         NEW u \in TimerType, u.subs = t.subs, u.current = t.current, u.tick = t.tick,
         u.counter = t.counter, u.next = IF t.next > x.time THEN x.time ELSE t.next
  PROVE  Typed(u) /\ CallTimed(y, u, d, n)
<1>1. Typed(t) /\ Typed(u) /\ Schedules(x, t) /\ x.time \in Nat
  BY TypedAgain, Ranges DEF Going, CallTimed, Stage, CallType
<1>2. u.next \in Nat /\ u.next <= t.next /\ u.next <= x.time /\ u.next > u.current
  BY <1>1, Fields DEF Schedules
<1>3. Held(u) = Held(t) /\ Near(u, Held(u))
  BY <1>1, SameTable DEF Schedules
<1>4. ASSUME NEW i \in Held(u)
      PROVE  u.next <= u.subs[i].time
  <2>1. t.subs[i].time \in Nat /\ t.next \in Nat
    BY <1>1, <1>3, Fields DEF Held
  <2> QED
    BY <1>1, <1>2, <1>3, <2>1 DEF Schedules
<1>5. y.wasNext => Ahead(u)
  <2>1. u.next - u.current >= Period => t.next - t.current >= Period
    BY <1>1, <1>2, Fields, Ranges
  <2> QED
    BY <1>1, <1>2, <2>1 DEF Schedules, Ahead
<1>6. Schedules(y, u)
  BY <1>2, <1>3, <1>4, <1>5 DEF Schedules
<1>7. Stage(y, u)
  BY <1>6 DEF Stage, Entry, Halting
<1>8. Pending(y, u) = Pending(x, t)
  BY DEF Pending, Advanced, Halting, Counter
<1>9. Pending(x, t) >= 0 /\ Pending(x, t) \in Int /\ t.current \in Nat
  BY <1>1, Fields, PendingType DEF Going, CallTimed, CountedOnce
<1>10. Counting(x, t) = Held(t) /\ Counting(y, u) = Held(t) /\ x.at \notin Entry
  BY <1>3 DEF Counting, Entry
<1>11. /\ Pending(y, u) >= 0 /\ u.current + Pending(y, u) <= t.current + Pending(x, t)
       /\ Pending(y, u) <= Pending(x, t)
       /\ Counting(y, u) \subseteq Counting(x, t) /\ \A i \in Counting(y, u) : u.subs[i] = t.subs[i]
  BY <1>8, <1>9, <1>10
<1> QED
  BY <1>1, <1>7, <1>10, <1>11, GoesOn

LEMMA SetTickGoesOn ==
  ASSUME InRange, NEW x, NEW t, NEW d, NEW n, Going(x, t, d, n), x.at = "tick",
         NEW diff, diff = (t.next - t.current) % Modulus,
         NEW u \in TimerType, u.subs = t.subs, u.current = t.current, u.next = t.next,
         u.counter = t.counter, u.tick = IF diff < Period THEN diff ELSE Period
  PROVE  /\ Typed(u)
         /\ diff < Period => \A y \in CallType : y.asked = x.asked /\ y.at = "counter"
                               => CallTimed(y, u, d, n)
         /\ ~ (diff < Period) => /\ Rests(FALSE, u, d, n)
                                 /\ \A y : y.asked = x.asked /\ y.at \in {"find", "claim"}
                                           => CallTimed(y, u, d, n)
<1>1. Typed(t) /\ Typed(u) /\ Schedules(x, t)
  BY TypedAgain DEF Going, CallTimed, Stage
<1>2. diff = t.next - t.current /\ diff \in Nat
  <2>1. PICK e \in Nat : e = t.next - t.current /\ e <= Never
    BY <1>1, Fields, Ranges DEF Schedules
  <2> QED
    BY <2>1, ModRange
<1>3. Held(u) = Held(t) /\ Near(u, Held(u)) /\ u.next > u.current
  BY <1>1, SameTable DEF Schedules
<1>4. Ahead(u)
  <2>1. u.next - u.current >= Period => ~ (diff < Period)
    BY <1>2, Ranges
  <2> QED
    BY <1>3, <2>1 DEF Ahead
<1>5. Waits(u)
  BY <1>1, <1>3, <1>4 DEF Schedules, Waits, WaitsFor
<1>6. Counting(x, t) = Held(t) /\ x.at \notin Entry
  BY DEF Counting, Entry
<1>7. Pending(x, t) >= 0 /\ Pending(x, t) \in Int /\ t.current \in Nat
  BY <1>1, Fields, PendingType DEF Going, CallTimed, CountedOnce
<1>8. ASSUME diff < Period, NEW y \in CallType, y.asked = x.asked, y.at = "counter"
      PROVE  CallTimed(y, u, d, n)
  <2>1. SetsAhead(u)
    BY <1>2, <1>5, <1>8 DEF SetsAhead
  <2>2. Stage(y, u)
    BY <1>8, <2>1 DEF Stage, Entry, Halting
  <2>3. Pending(y, u) = 0 /\ Counting(y, u) = Held(t)
    BY <1>3, <1>8 DEF Pending, Counting
  <2>4. /\ Pending(y, u) >= 0 /\ u.current + Pending(y, u) <= t.current + Pending(x, t)
        /\ Counting(y, u) \subseteq Counting(x, t) /\ \A i \in Counting(y, u) : u.subs[i] = t.subs[i]
    BY <1>6, <1>7, <2>3
  <2> QED
    BY <1>1, <1>8, <2>2, <2>3, <2>4, GoesOn
<1>9. ASSUME ~ (diff < Period)
      PROVE  /\ Rests(FALSE, u, d, n)
             /\ \A y : y.asked = x.asked /\ y.at \in {"find", "claim"} => CallTimed(y, u, d, n)
  <2>1. Counter(u) = t.counter /\ t.counter \in Nat
    BY <1>1, <1>9, Fields, Ranges DEF Counter
  <2>2. Pending(x, t) = t.counter
    <3>1. CASE x.wasNext
      <4>1. t.tick = Period
        BY <1>1, <1>2, <1>9, <3>1, Ranges DEF Schedules, Ahead
      <4> QED
        BY <1>1, <3>1, <4>1, Fields, Ranges DEF Pending, Counter, Advanced, Halting
    <3>2. CASE ~x.wasNext
      BY <3>2 DEF Pending
    <3> QED
      BY <3>1, <3>2
  <2>3. Counter(u) >= 0 /\ Counter(u) <= Pending(x, t)
    BY <2>1, <2>2
  <2> QED
    BY <1>1, <1>5, <1>6, <2>3, Returns
<1> QED
  BY <1>1, <1>8, <1>9

LEMMA SetCounterGoesOn ==
  ASSUME NEW x, NEW t, NEW d, NEW n, Going(x, t, d, n), x.at = "counter",
         NEW u \in TimerType, u.subs = t.subs, u.current = t.current, u.next = t.next,
         u.tick = t.tick, u.counter = Period - t.tick
  PROVE  /\ Typed(u) /\ Rests(FALSE, u, d, n)
         /\ \A y : y.asked = x.asked /\ y.at \in {"find", "claim"} => CallTimed(y, u, d, n)
<1>1. Typed(t) /\ Typed(u) /\ SetsAhead(t)
  BY TypedAgain DEF Going, CallTimed, Stage
<1>2. Waits(u)
  BY <1>1, SameWaits DEF SetsAhead
<1>3. Counter(u) = 0 /\ Pending(x, t) = 0
  BY <1>1, Fields, Ranges DEF Counter, Pending
<1>4. Counting(x, t) = Held(t) /\ x.at \notin Entry
  BY DEF Counting, Entry
<1>5. Counter(u) >= 0 /\ Counter(u) <= Pending(x, t)
  BY <1>3
<1> QED
  BY <1>1, <1>2, <1>4, <1>5, Returns

LEMMA FindSlotGoesOn ==
  ASSUME NEW x, NEW t, NEW d, NEW n, Going(x, t, d, n), x.at = "find"
  PROVE  /\ Rests(FALSE, t, d, n)
         /\ \A y : y.asked = x.asked /\ y.at \in {"find", "claim"} => CallTimed(y, t, d, n)
<1>1. Typed(t) /\ Waits(t)
  BY DEF Going, CallTimed, Stage
<1>2. Pending(x, t) = Counter(t) /\ Counting(x, t) = Held(t) /\ x.at \notin Entry
  BY DEF Pending, Counting, Entry, Advanced, Halting
<1>3. Pending(x, t) >= 0 /\ Pending(x, t) \in Int
  BY <1>1, PendingType DEF Going, CallTimed, CountedOnce
<1>4. Counter(t) >= 0 /\ Counter(t) <= Pending(x, t)
  BY <1>2, <1>3
<1> QED
  BY <1>1, <1>2, <1>4, Returns

LEMMA TimeoutNat ==
  ASSUME NEW D \in Timeouts
  PROVE  D \in Nat /\ D > 0
BY TimerAssumption

\* A slot is claimed ...
LEMMA ClaimGoesOn ==
  ASSUME NEW x, NEW t, NEW d, NEW n, Going(x, t, d, n), x.at = "claim", x.slot \in Slots,
         NEW k \in Keys, NEW y \in CallType, y.asked = x.asked, y.at = "compare", y.slot = x.slot,
         NEW u \in TimerType, u.current = t.current, u.next = t.next, u.tick = t.tick,
         u.counter = t.counter,
         \A i \in Slots : IF i = x.slot THEN u.subs[i].key = k /\ u.subs[i].time = t.subs[i].time
                          ELSE u.subs[i] = t.subs[i]
  PROVE  Typed(u) /\ CallTimed(y, u, d, n)
<1> DEFINE H == Held(u) \ {y.slot}
<1>1. Typed(t) /\ Waits(t)
  BY DEF Going, CallTimed, Stage
<1>2. Typed(u)
  BY <1>1, TimerAssumption DEF Typed
<1>3. H \subseteq Held(t) /\ \A i \in H : u.subs[i] = t.subs[i]
  BY DEF Held
<1>4. WaitsFor(u, H)
  BY <1>1, <1>3 DEF Waits, WaitsFor, Ahead, Near
<1>5. u.subs[x.slot].time # 0 => u.next <= u.subs[x.slot].time
  BY <1>1, Fields DEF Waits, WaitsFor, Held
<1>6. Fills(y, u)
  BY <1>4, <1>5 DEF Fills
<1>7. Stage(y, u)
  BY <1>6 DEF Stage, Entry, Halting
<1>8. Counting(x, t) = Held(t) /\ Counting(y, u) = H /\ x.at \notin Entry
  BY DEF Counting, Entry
<1>9. Pending(x, t) = Pending(y, u)
  BY DEF Pending, Advanced, Halting, Counter
<1>10. Pending(x, t) >= 0 /\ Pending(x, t) \in Int /\ t.current \in Nat
  BY <1>1, Fields, PendingType DEF Going, CallTimed, CountedOnce
<1>11. /\ Pending(y, u) >= 0 /\ u.current + Pending(y, u) <= t.current + Pending(x, t)
       /\ Pending(y, u) <= Pending(x, t)
  BY <1>9, <1>10
<1>12. Counting(y, u) \subseteq Counting(x, t) /\ \A i \in Counting(y, u) : u.subs[i] = t.subs[i]
  BY <1>3, <1>8
<1> QED
  BY <1>2, <1>7, <1>8, <1>11, <1>12, GoesOn

\* ... its time is compared ...
LEMMA CompareGoesOn ==
  ASSUME InRange, NEW x, NEW t, NEW d, NEW n, Going(x, t, d, n), x.at = "compare",
         NEW y \in CallType, y.asked = x.asked, y.at = "settime", y.slot = x.slot,
         y.timeout = x.timeout, y.time = (t.current + x.timeout) % Modulus,
         y.wasCloser = WasCloser(t, x.slot, y.time)
  PROVE  CallTimed(y, t, d, n)
<1>1. Typed(t) /\ Fills(x, t) /\ x.timeout \in Timeouts
  BY DEF Going, CallTimed, Stage, Placed
<1>2. PICK e \in Nat : e = t.current + x.timeout /\ e <= Never
  BY <1>1, TimerAssumption, Fields, Ranges DEF InRange
<1>3. y.time = e
  BY <1>2, ModRange
<1>4. y.wasCloser => t.next <= y.time
  <2> SUFFICES ASSUME y.wasCloser PROVE t.next <= y.time
    OBVIOUS
  <2>1. t.subs[x.slot].time # 0 /\ t.subs[x.slot].time <= y.time
    BY DEF WasCloser
  <2>2. t.next <= t.subs[x.slot].time
    BY <1>1, <2>1 DEF Fills
  <2>3. x.slot \in Slots
    BY DEF Going, Placed, HasSlot
  <2>4. t.subs[x.slot].time \in Nat /\ t.next \in Nat
    BY <1>1, <2>3, Fields
  <2> QED
    BY <1>3, <2>1, <2>2, <2>4
<1>5. Fills(y, t)
  BY <1>1, <1>2, <1>3, <1>4 DEF Fills
<1>6. Stage(y, t)
  BY <1>5 DEF Stage, Entry, Halting
<1>7. Counting(x, t) = Counting(y, t) /\ x.at \notin Entry /\ Pending(x, t) = Pending(y, t)
  BY DEF Counting, Entry, Pending, Advanced, Halting
<1>8. Pending(x, t) >= 0 /\ Pending(x, t) \in Int /\ t.current \in Nat
  BY <1>1, Fields, PendingType DEF Going, CallTimed, CountedOnce
<1>9. /\ Pending(y, t) >= 0 /\ t.current + Pending(y, t) <= t.current + Pending(x, t)
      /\ Pending(y, t) <= Pending(x, t)
      /\ Counting(y, t) \subseteq Counting(x, t) /\ \A i \in Counting(y, t) : t.subs[i] = t.subs[i]
  BY <1>7, <1>8
<1> QED
  BY <1>1, <1>6, <1>7, <1>9, GoesOn

\* ... and the new one is set: it began no earlier than the call
LEMMA SetTimeGoesOn ==
  ASSUME InRange, NEW x, NEW t, NEW d, NEW n, Going(x, t, d, n), x.at = "settime",
         x.slot \in Slots, x.key \in Keys, Unique(t), t.subs[x.slot].key = x.key,
         NEW e, e = [d EXCEPT ![x.key] = x.asked + x.timeout],
         NEW u \in TimerType, u.current = t.current, u.next = t.next, u.tick = t.tick,
         u.counter = t.counter,
         \A i \in Slots : IF i = x.slot THEN u.subs[i].key = x.key /\ u.subs[i].time = x.time
                          ELSE u.subs[i] = t.subs[i]
  PROVE  /\ Typed(u)
         /\ x.wasNext => \A y \in CallType :
               y.at = "rank" /\ y.asked = x.asked /\ y.wasNext /\ y.slot = x.slot
               /\ y.wasCloser = x.wasCloser => CallTimed(y, u, e, n)
         /\ t.next <= x.time => Rests(FALSE, u, e, n)
<1> DEFINE i == x.slot
           H == Held(t) \ {i}
<1>1. /\ Typed(t) /\ Fills(x, t) /\ d \in [Keys -> Nat] /\ n \in Nat
      /\ CountedOnce(Pending(x, t), Counting(x, t), t, d, n) /\ Begins(x, t, n)
  BY DEF Going, CallTimed, Stage
<1>2. Typed(u)
  BY <1>1, TimerAssumption DEF Typed
<1>3. PICK m \in Int : m = Counter(t) /\ m = Counter(u) /\ m = Pending(x, t)
  BY <1>1, Fields DEF Counter, Pending, Advanced, Halting
<1>4. Counting(x, t) = H
  BY DEF Counting
<1>5. x.asked \in Nat /\ x.asked + m <= n /\ m >= 0 /\ t.current \in Nat /\ t.current + m <= n
  <2>1. x.asked \in Nat /\ x.at \notin Entry /\ t.current \in Nat
    BY <1>1, Fields DEF Going, CallType, Entry
  <2> QED
    BY <1>1, <1>3, <2>1 DEF Begins, CountedOnce
<1>6. PICK T \in Nat : T = x.timeout
  <2>1. x.timeout \in Timeouts
    BY DEF Going, Placed
  <2>2. PICK D \in Timeouts : D = x.timeout
    BY <2>1
  <2> QED
    BY <2>2, TimeoutNat
<1>7. x.time = t.current + T /\ T > 0 /\ T <= Far /\ x.time < Never
  <2>1. x.timeout \in Timeouts
    BY DEF Going, Placed
  <2>2. T > 0 /\ T <= Far /\ Horizon + T < Never
    BY <1>6, <2>1, TimerAssumption, Ranges DEF InRange, Far
  <2>3. x.time = t.current + T
    BY <1>1, <1>6 DEF Fills
  <2> QED
    BY <1>1, <2>2, <2>3, Fields, Ranges
<1>8. Held(u) = H \cup {i} /\ i \in Held(u) /\ \A j \in H : j \in Slots /\ u.subs[j] = t.subs[j]
  BY TimerAssumption DEF Held
<1>9. e[x.key] = x.asked + T /\ \A k \in Keys : k # x.key => e[k] = d[k]
  BY <1>1, <1>6
<1>10. CountedOnce(m, Held(u), u, e, n)
  <2>1. ASSUME NEW j \in H
        PROVE  e[u.subs[j].key] + u.current + m <= n + u.subs[j].time
    <3>1. t.subs[j].key \in Keys
      BY <1>1, Fields DEF Held
    <3>2. t.subs[j].key # x.key
      BY <3>1 DEF Held, Unique
    <3> QED
      BY <1>1, <1>3, <1>4, <1>8, <1>9, <3>1, <3>2 DEF CountedOnce
  <2>2. e[u.subs[i].key] + u.current + m <= n + u.subs[i].time
    <3>1. u.subs[i].key = x.key /\ u.subs[i].time = t.current + T
      BY <1>7
    <3> QED
      BY <1>1, <1>5, <1>9, <3>1
  <2> QED
    BY <1>5, <1>8, <2>1, <2>2 DEF CountedOnce
<1>11. Ahead(u) /\ Near(u, Held(u)) /\ \A j \in H : u.next <= u.subs[j].time
  <2>1. Ahead(t) /\ Near(t, H) /\ \A j \in H : t.next <= t.subs[j].time
    BY <1>1 DEF Fills, WaitsFor
  <2>2. u.subs[i].time < Never /\ u.subs[i].time - u.current <= Far
    <3>1. Far \in Int
      BY Ranges DEF Far
    <3> QED
      BY <1>5, <1>7, <3>1
  <2> QED
    BY <1>8, <2>1, <2>2 DEF Ahead, Near
<1>12. ASSUME t.next <= x.time
       PROVE  Rests(FALSE, u, e, n)
  BY <1>3, <1>8, <1>10, <1>11, <1>12 DEF Rests, Waits, WaitsFor
<1>13. ASSUME NEW y \in CallType, y.at = "rank", y.asked = x.asked, y.wasNext, y.slot = x.slot,
              y.wasCloser = x.wasCloser
       PROVE  CallTimed(y, u, e, n)
  <2>1. u.subs[y.slot].time > u.current
    BY <1>5, <1>7, <1>13
  <2>2. y.wasCloser => u.next <= u.subs[y.slot].time
    BY <1>1, <1>13 DEF Fills
  <2>3. Ranks(y, u)
    BY <1>8, <1>11, <1>13, <2>1, <2>2 DEF Ranks
  <2>4. Stage(y, u)
    BY <1>13, <2>3 DEF Stage, Entry, Halting
  <2>5. Pending(y, u) = m /\ Counting(y, u) = Held(u) /\ y.at \notin Entry
    BY <1>3, <1>13 DEF Pending, Counting, Advanced, Halting, Entry
  <2>6. Begins(y, u, n)
    BY <1>5, <1>13, <2>5 DEF Begins
  <2> QED
    BY <1>10, <2>4, <2>5, <2>6 DEF CallTimed
<1> QED
  BY <1>2, <1>12, <1>13

\* The time to be scheduled is looked up
LEMMA RankGoesOn ==
  ASSUME InRange, NEW x, NEW t, NEW d, NEW n, Going(x, t, d, n), x.at = "rank",
         NEW y \in CallType, y.asked = x.asked, y.at = "ask", y.wasNext = x.wasNext,
         y.slot = IF x.wasCloser THEN NextSubscription(t) ELSE x.slot
  PROVE  CallTimed(y, t, d, n)
<1>1. Typed(t) /\ Ranks(x, t)
  BY DEF Going, CallTimed, Stage
<1>2. Ranks(y, t)
  <2>1. CASE x.wasCloser
    <3>1. \A i \in Held(t) : t.next <= t.subs[i].time
      BY <1>1, <2>1 DEF Ranks
    <3>2. t.current < t.next + Period
      BY <1>1, Fields, Ranges DEF Ranks, Ahead
    <3>3. /\ y.slot \in Held(t)
          /\ \A i \in Held(t) : t.subs[y.slot].time <= t.subs[i].time
      <4>1. PICK j : j = NextSubscription(t)
        OBVIOUS
      <4>2. y.slot = j
        BY <2>1, <4>1
      <4> QED
        BY <1>1, <3>1, <3>2, <4>1, <4>2, NextIsFirst DEF Ranks
    <3>4. t.subs[y.slot].time > t.current
      <4>1. t.subs[y.slot].time \in Nat /\ t.next \in Nat /\ t.current \in Nat
        BY <1>1, <3>3, Fields DEF Held
      <4> QED
        BY <1>1, <3>1, <3>3, <4>1 DEF Ranks, Ahead
    <3> QED
      BY <1>1, <3>3, <3>4 DEF Ranks
  <2>2. CASE ~x.wasCloser
    <3>1. y.slot = x.slot
      BY <2>2
    <3>2. ASSUME NEW i \in Held(t)
          PROVE  t.next <= t.subs[i].time \/ t.subs[y.slot].time <= t.subs[i].time
      <4>1. t.subs[i].time \in Nat
        BY <1>1, Fields DEF Held
      <4> QED
        BY <1>1, <3>1, <4>1 DEF Ranks
    <3> QED
      BY <1>1, <3>1, <3>2 DEF Ranks
  <2> QED
    BY <2>1, <2>2
<1>3. Stage(y, t)
  BY <1>2 DEF Stage, Entry, Halting
<1>4. Counting(x, t) = Counting(y, t) /\ x.at \notin Entry /\ Pending(x, t) = Pending(y, t)
  BY DEF Counting, Entry, Pending, Advanced, Halting
<1>5. Pending(x, t) >= 0 /\ Pending(x, t) \in Int /\ t.current \in Nat
  BY <1>1, Fields, PendingType DEF Going, CallTimed, CountedOnce
<1>6. /\ Pending(y, t) >= 0 /\ t.current + Pending(y, t) <= t.current + Pending(x, t)
      /\ Pending(y, t) <= Pending(x, t)
      /\ Counting(y, t) \subseteq Counting(x, t) /\ \A i \in Counting(y, t) : t.subs[i] = t.subs[i]
  BY <1>4, <1>5
<1> QED
  BY <1>1, <1>3, <1>4, <1>6, GoesOn

LEMMA AskGoesOn ==
  ASSUME NEW x, NEW t, NEW d, NEW n, Going(x, t, d, n), x.at = "ask",
         NEW y \in CallType, y.asked = x.asked, y.at = "schedule", y.wasNext = x.wasNext,
         y.time = TimeAt(t, x.slot)
  PROVE  CallTimed(y, t, d, n)
<1>1. Typed(t) /\ Ranks(x, t)
  BY DEF Going, CallTimed, Stage
<1>2. y.time = t.subs[x.slot].time
  BY <1>1, TimerAssumption DEF Ranks, TimeAt, Held, Slots
<1>3. Schedules(y, t)
  BY <1>1, <1>2 DEF Ranks, Schedules, Ahead
<1>4. Stage(y, t)
  BY <1>3 DEF Stage, Entry, Halting
<1>5. Counting(x, t) = Counting(y, t) /\ x.at \notin Entry /\ Pending(x, t) = Pending(y, t)
  BY <1>1 DEF Counting, Entry, Pending, Advanced, Halting, Ranks
<1>6. Pending(x, t) >= 0 /\ Pending(x, t) \in Int /\ t.current \in Nat
  BY <1>1, Fields, PendingType DEF Going, CallTimed, CountedOnce
<1>7. /\ Pending(y, t) >= 0 /\ t.current + Pending(y, t) <= t.current + Pending(x, t)
      /\ Pending(y, t) <= Pending(x, t)
      /\ Counting(y, t) \subseteq Counting(x, t) /\ \A i \in Counting(y, t) : t.subs[i] = t.subs[i]
  BY <1>5, <1>6
<1> QED
  BY <1>1, <1>4, <1>5, <1>7, GoesOn

(***************************************************************************)
(* A thread's step                                                         *)
(***************************************************************************)
LEMMA GoingNow ==
  ASSUME IInv, InTime, alone, inTurn, NEW c \in Threads, caller[c].at # "idle"
  PROVE  /\ Going(caller[c], timer, due, clock) /\ Structure /\ ~flag
         /\ \A b \in Threads : b # c => caller[b] = Idle
<1>1. caller[c] # Idle
  BY DEF Idle
<1>2. Structure /\ Timed
  BY DEF IInv, InTime
<1>3. caller[c] \in CallType /\ Placed(caller[c]) /\ due \in [Keys -> Nat] /\ clock \in Nat
  BY TypesOf DEF IInv, TypeInv, TypeOK
<1>4. Typed(timer) /\ clock <= Horizon /\ CallTimed(caller[c], timer, due, clock)
  BY <1>1, <1>2 DEF Timed
<1> QED
  BY <1>1, <1>2, <1>3, <1>4 DEF Going, Structure, AloneCall

LEMMA StepTimed ==
  ASSUME IInv, InTime, alone, inTurn,
         NEW c \in Threads, NEW at, NEW y, NEW u, Step(c, at, y, u), at # "idle", Typed(u),
         y # Idle => CallTimed(y, u, due', clock),
         y = Idle => Rests(FALSE, u, due', clock)
  PROVE  Timed'
<1>1. /\ caller'[c] = y /\ timer' = u /\ clock' = clock /\ ~flag'
      /\ \A b \in Threads : b # c => caller'[b] = Idle
  BY OneCaller DEF Step
<1>2. clock <= Horizon
  BY DEF InTime, Timed
<1>3. Typed(timer')
  BY <1>1
<1>4. (\A b \in Threads : caller'[b] = Idle) => Rests(flag', timer', due', clock')
  <2> SUFFICES ASSUME y = Idle PROVE Rests(flag', timer', due', clock')
    BY <1>1
  <2>1. Rests(FALSE, timer', due', clock')
    BY <1>1
  <2> QED
    BY <1>1, <2>1 DEF Rests
<1>5. \A b \in Threads : caller'[b] # Idle => CallTimed(caller'[b], timer', due', clock')
  BY <1>1
<1> QED
  BY <1>1, <1>2, <1>3, <1>4, <1>5 DEF Timed

\* A step that sets no timeout and goes on
LEMMA QuietTimed ==
  ASSUME IInv, InTime, alone, inTurn,
         NEW c \in Threads, NEW at, NEW y, NEW u, Step(c, at, y, u), due' = due, at # "idle",
         Typed(u), y.at # "idle", CallTimed(y, u, due, clock)
  PROVE  Timed'
<1>1. y # Idle
  BY DEF Idle
<1> QED
  BY <1>1, StepTimed

\* What a step leaves has its type
LEMMA StepLeaves ==
  ASSUME TypeInv, TypeInv', NEW c \in Threads, NEW at, NEW y, NEW u, Step(c, at, y, u)
  PROVE  y \in CallType /\ Placed(y) /\ u \in TimerType
<1>1. caller'[c] = y /\ timer' = u
  BY DEF Step, TypeInv, TypeOK
<1>2. caller'[c] \in CallType /\ timer' \in TimerType /\ Placed(caller'[c])
  BY DEF TypeInv, TypeOK, CallType, TimerType
<1> QED
  BY <1>1, <1>2

LEMMA EntryTimed ==
  ASSUME IInv, TypeInv', InTime, alone, inTurn, NEW c \in Threads,
         Measure(c) \/ Start(c) \/ SetRunning(c) \/ Enable(c) \/ Load(c)
  PROVE  Timed'
<1> DEFINE x == caller[c]
<1>1. PICK at, y, u :
         /\ Step(c, at, y, u) /\ due' = due
         /\ at \in {"measure", "start", "run", "enable", "load"}
         /\ y.asked = x.asked /\ y.at \in Entry /\ y.at # "measure"
         /\ y.elapsed = IF at = "measure" THEN Elapsed(x.elapsed, timer) ELSE x.elapsed
         /\ y.at = "add" => y.time = timer.current
         /\ u.subs = timer.subs /\ u.current = timer.current /\ u.next = timer.next
         /\ u.tick = timer.tick /\ u.counter = timer.counter
  <2>0. TypeInv /\ timer \in TimerType /\ x \in CallType
    BY TypesOf DEF IInv
  <2>1. CASE Measure(c)
    <3> DEFINE y == [To(c, "start") EXCEPT !.elapsed = Elapsed(@, timer)]
    <3>1. Step(c, "measure", y, timer) /\ due' = due
      BY <2>1 DEF Measure, Quietly
    <3>2. y.asked = x.asked /\ y.at = "start" /\ y.elapsed = Elapsed(x.elapsed, timer)
      BY <2>0, ToType DEF Places, CallType
    <3> QED
      BY <3>1, <3>2 DEF Entry
  <2>2. CASE Start(c)
    <3>1. /\ To(c, "load").at = "load" /\ To(c, "run").at = "run"
          /\ To(c, "load").asked = x.asked /\ To(c, "run").asked = x.asked
          /\ To(c, "load").elapsed = x.elapsed /\ To(c, "run").elapsed = x.elapsed
      BY <2>0, ToType DEF Places
    <3>2. \/ Step(c, "start", To(c, "load"), timer) /\ due' = due
          \/ Step(c, "start", To(c, "run"), timer) /\ due' = due
      BY <2>2 DEF Start, Quietly
    <3> QED
      BY <3>1, <3>2 DEF Entry
  <2>3. CASE SetRunning(c)
    <3> DEFINE u == [timer EXCEPT !.phase = "RUNNING"]
    <3>1. Step(c, "run", To(c, "enable"), u) /\ due' = due
      BY <2>3 DEF SetRunning, Quietly
    <3>2. /\ To(c, "enable").at = "enable" /\ To(c, "enable").asked = x.asked
          /\ To(c, "enable").elapsed = x.elapsed
      BY <2>0, ToType DEF Places
    <3>3. /\ u.subs = timer.subs /\ u.current = timer.current /\ u.next = timer.next
          /\ u.tick = timer.tick /\ u.counter = timer.counter
      BY <2>0 DEF TimerType
    <3> QED
      BY <3>1, <3>2, <3>3 DEF Entry
  <2>4. CASE Enable(c)
    <3> DEFINE u == [timer EXCEPT !.enabled = TRUE]
    <3>1. Step(c, "enable", To(c, "load"), u) /\ due' = due
      BY <2>4 DEF Enable, Quietly
    <3>2. /\ To(c, "load").at = "load" /\ To(c, "load").asked = x.asked
          /\ To(c, "load").elapsed = x.elapsed
      BY <2>0, ToType DEF Places
    <3>3. /\ u.subs = timer.subs /\ u.current = timer.current /\ u.next = timer.next
          /\ u.tick = timer.tick /\ u.counter = timer.counter
      BY <2>0 DEF TimerType
    <3> QED
      BY <3>1, <3>2, <3>3 DEF Entry
  <2>5. CASE Load(c)
    <3> DEFINE y == [To(c, "add") EXCEPT !.time = timer.current]
    <3>1. Step(c, "load", y, timer) /\ due' = due
      BY <2>5 DEF Load, Quietly
    <3>2. /\ y.asked = x.asked /\ y.at = "add" /\ y.elapsed = x.elapsed
          /\ y.time = timer.current
      BY <2>0, ToType DEF Places, CallType
    <3> QED
      BY <3>1, <3>2 DEF Entry
  <2> QED
    BY <2>1, <2>2, <2>3, <2>4, <2>5
<1> HIDE DEF x
<1>2. y \in CallType /\ u \in TimerType /\ x.at = at
  BY <1>1, StepLeaves DEF IInv, Step, x
<1>3. Going(x, timer, due, clock)
  BY <1>1, <1>2, GoingNow DEF x
<1>4. Typed(u) /\ CallTimed(y, u, due, clock)
  BY <1>1, <1>2, <1>3, EntryGoesOn
<1>5. y.at # "idle" /\ at # "idle"
  BY <1>1 DEF Entry
<1> QED
  BY <1>1, <1>4, <1>5, QuietTimed

\* The driver advances its time
LEMMA AdvancingTimed ==
  ASSUME InRange, IInv, TypeInv', InTime, alone, inTurn, NEW c \in Threads,
         Add(c) \/ Reset(c) \/ Await(c) \/ Disable(c)
  PROVE  Timed'
<1> DEFINE x == caller[c]
<1>0. TypeInv /\ timer \in TimerType /\ x \in CallType /\ Placed(x)
  BY TypesOf DEF IInv
<1> USE <1>0

<1>1. CASE Add(c)
  <2> DEFINE y == [To(c, "reset") EXCEPT !.time = 0, !.elapsed = 0]
             u == [timer EXCEPT !.current = (caller[c].time + caller[c].elapsed) % Modulus]
  <2>1. Step(c, "add", y, u) /\ due' = due /\ x.at = "add"
    BY <1>1 DEF Add, Quietly, Step
  <2>2. y.asked = x.asked /\ y.at = "reset"
    BY ToType DEF Places, CallType
  <2>3. /\ u.subs = timer.subs /\ u.next = timer.next
        /\ u.current = (x.time + x.elapsed) % Modulus
    BY DEF TimerType
  <2>4. y \in CallType /\ u \in TimerType
    BY <2>1, StepLeaves
  <2> HIDE DEF x, y, u
  <2>5. Going(x, timer, due, clock)
    BY <2>1, GoingNow DEF x
  <2>6. Typed(u) /\ CallTimed(y, u, due, clock)
    BY <2>1, <2>2, <2>3, <2>4, <2>5, AddGoesOn
  <2> QED
    BY <2>1, <2>2, <2>6, QuietTimed
<1>2. CASE Reset(c)
  <2> DEFINE y == To(c, "test")
             u == [timer EXCEPT !.counter = 0]
  <2>1. Step(c, "reset", y, u) /\ due' = due /\ x.at = "reset"
    BY <1>2 DEF Reset, Quietly, Step
  <2>2. y.asked = x.asked /\ y.at = "test"
    BY ToType DEF Places, CallType
  <2>3. /\ u.subs = timer.subs /\ u.next = timer.next /\ u.current = timer.current
        /\ u.counter = 0
    BY DEF TimerType
  <2>4. y \in CallType /\ u \in TimerType
    BY <2>1, StepLeaves
  <2> HIDE DEF x, y, u
  <2>5. Going(x, timer, due, clock)
    BY <2>1, GoingNow DEF x
  <2>6. Typed(u) /\ CallTimed(y, u, due, clock)
    BY <2>1, <2>2, <2>3, <2>4, <2>5, ResetGoesOn
  <2> QED
    BY <2>1, <2>2, <2>6, QuietTimed
<1>3. CASE Await(c)
  <2> DEFINE y == [To(c, "schedule") EXCEPT !.slot = 0, !.time = timer.subs[x.slot].time]
             u == [timer EXCEPT !.next = timer.subs[x.slot].time]
  <2>1. Step(c, "await", y, u) /\ due' = due /\ x.at = "await"
    BY <1>3 DEF Await, Quietly, Step
  <2>2. /\ y.asked = x.asked /\ y.at = "schedule" /\ y.wasNext = x.wasNext
        /\ y.time = timer.subs[x.slot].time
    BY ToType DEF Places, CallType
  <2>3. /\ u.subs = timer.subs /\ u.current = timer.current /\ u.counter = timer.counter
        /\ u.next = timer.subs[x.slot].time
    BY DEF TimerType
  <2>4. y \in CallType /\ u \in TimerType
    BY <2>1, StepLeaves
  <2> HIDE DEF x, y, u
  <2>5. Going(x, timer, due, clock)
    BY <2>1, GoingNow DEF x
  <2>6. Typed(u) /\ CallTimed(y, u, due, clock)
    BY <2>1, <2>2, <2>3, <2>4, <2>5, AwaitGoesOn
  <2> QED
    BY <2>1, <2>2, <2>6, QuietTimed
<1>4. CASE Disable(c)
  <2> DEFINE y == To(c, "find")
             u == [timer EXCEPT !.enabled = FALSE]
  <2>1. Step(c, "disable", y, u) /\ due' = due /\ x.at = "disable"
    BY <1>4 DEF Disable, Quietly, Step
  <2>2. y.asked = x.asked /\ y.at = "find"
    BY ToType DEF Places, CallType
  <2>3. /\ u.subs = timer.subs /\ u.next = timer.next /\ u.current = timer.current
        /\ u.counter = timer.counter /\ u.tick = timer.tick
    BY DEF TimerType
  <2>4. y \in CallType /\ u \in TimerType
    BY <2>1, StepLeaves
  <2> HIDE DEF x, y, u
  <2>5. Going(x, timer, due, clock)
    BY <2>1, GoingNow DEF x
  <2>6. Typed(u) /\ CallTimed(y, u, due, clock)
    BY <2>1, <2>2, <2>3, <2>4, <2>5, DisableGoesOn
  <2> QED
    BY <2>1, <2>2, <2>6, QuietTimed
<1> QED
  BY <1>1, <1>2, <1>3, <1>4

\* The timer is halted
LEMMA HaltingTimed ==
  ASSUME InRange, IInv, TypeInv', InTime, alone, inTurn, NEW c \in Threads,
         Halt(c) \/ ForgetNext(c) \/ ForgetTick(c)
  PROVE  Timed'
<1> DEFINE x == caller[c]
<1>0. TypeInv /\ timer \in TimerType /\ x \in CallType /\ Placed(x)
  BY TypesOf DEF IInv
<1> USE <1>0

<1>1. CASE Halt(c)
  <2> DEFINE y == To(c, "stop")
             u == [timer EXCEPT !.phase = "IDLE"]
  <2>1. Step(c, "halt", y, u) /\ due' = due /\ x.at = "halt"
    BY <1>1 DEF Halt, Quietly, Step
  <2>2. y.asked = x.asked /\ y.at = "stop"
    BY ToType DEF Places, CallType
  <2>3. /\ u.subs = timer.subs /\ u.current = timer.current /\ u.counter = timer.counter
    BY DEF TimerType
  <2>4. y \in CallType /\ u \in TimerType
    BY <2>1, StepLeaves
  <2> HIDE DEF x, y, u
  <2>5. Going(x, timer, due, clock)
    BY <2>1, GoingNow DEF x
  <2>6. Typed(u) /\ CallTimed(y, u, due, clock)
    BY <2>1, <2>2, <2>3, <2>4, <2>5, HaltGoesOn DEF Halting
  <2> QED
    BY <2>1, <2>2, <2>6, QuietTimed
<1>2. CASE ForgetNext(c)
  <2> DEFINE y == To(c, "still")
             u == [timer EXCEPT !.next = Never]
  <2>1. Step(c, "stop", y, u) /\ due' = due /\ x.at = "stop"
    BY <1>2 DEF ForgetNext, Quietly, Step
  <2>2. y.asked = x.asked /\ y.at = "still"
    BY ToType DEF Places, CallType
  <2>3. /\ u.subs = timer.subs /\ u.current = timer.current /\ u.counter = timer.counter
        /\ u.next = Never
    BY DEF TimerType
  <2>4. y \in CallType /\ u \in TimerType
    BY <2>1, StepLeaves
  <2> HIDE DEF x, y, u
  <2>5. Going(x, timer, due, clock)
    BY <2>1, GoingNow DEF x
  <2>6. Typed(u) /\ CallTimed(y, u, due, clock)
    BY <2>1, <2>2, <2>3, <2>4, <2>5, HaltGoesOn DEF Halting
  <2> QED
    BY <2>1, <2>2, <2>6, QuietTimed
<1>3. CASE ForgetTick(c)
  <2> DEFINE y == To(c, "disable")
             u == [timer EXCEPT !.tick = Period]
  <2>1. Step(c, "still", y, u) /\ due' = due /\ x.at = "still"
    BY <1>3 DEF ForgetTick, Quietly, Step
  <2>2. y.asked = x.asked /\ y.at = "disable"
    BY ToType DEF Places, CallType
  <2>3. /\ u.subs = timer.subs /\ u.current = timer.current /\ u.counter = timer.counter
        /\ u.tick = Period /\ u.next = timer.next
    BY DEF TimerType
  <2>4. y \in CallType /\ u \in TimerType
    BY <2>1, StepLeaves
  <2>5. timer.next = Never
    BY <2>1, GoingNow DEF Going, CallTimed, Stage, Halts, Halting
  <2> HIDE DEF x, y, u
  <2>6. Going(x, timer, due, clock)
    BY <2>1, GoingNow DEF x
  <2>7. Typed(u) /\ CallTimed(y, u, due, clock)
    BY <2>1, <2>2, <2>3, <2>4, <2>5, <2>6, HaltGoesOn DEF Halting
  <2> QED
    BY <2>1, <2>2, <2>7, QuietTimed
<1> QED
  BY <1>1, <1>2, <1>3

\* The times that are past are looked for
LEMMA LoopTimed ==
  ASSUME InRange, IInv, TypeInv', InTime, alone, inTurn, NEW c \in Threads,
         Test(c) \/ Look(c) \/ Due(c) \/ Read(c) \/ Pick(c)
  PROVE  Timed'
<1> DEFINE x == caller[c]
<1>0. TypeInv /\ timer \in TimerType /\ x \in CallType /\ Placed(x)
  BY TypesOf DEF IInv
<1>a. x.at # "idle" => Going(x, timer, due, clock) /\ Typed(timer)
  BY GoingNow DEF Going
<1>b. ASSUME NEW at, at # "idle", NEW y, Step(c, at, y, timer), due' = due,
             y.at # "idle", CallTimed(y, timer, due, clock)
      PROVE  Timed'
  <2>1. x.at = at
    BY <1>b DEF Step
  <2> QED
    BY <1>a, <1>b, <2>1, QuietTimed
<1> USE <1>0
<1>1. CASE Test(c)
  <2>1. PICK y : /\ Step(c, "test", y, timer) /\ due' = due
                 /\ \/ /\ timer.next > timer.current
                       /\ y = [To(c, "schedule") EXCEPT !.time = timer.next]
                    \/ y = [To(c, "look") EXCEPT !.slot = 1]
    BY <1>1 DEF Test, Quietly
  <2>2. /\ y.asked = x.asked /\ y.wasNext = x.wasNext
        /\ \/ timer.next > timer.current /\ y.at = "schedule" /\ y.time = timer.next
           \/ y.at = "look" /\ y.slot = 1
    BY <2>1, ToType DEF Places, CallType
  <2>3. Step(c, "test", y, timer) /\ due' = due /\ x.at = "test"
    BY <2>1 DEF Step
  <2>4. y \in CallType
    BY <2>3, StepLeaves
  <2> HIDE DEF x
  <2>5. CallTimed(y, timer, due, clock) /\ y.at # "idle"
    BY <1>a, <2>2, <2>3, <2>4, TestGoesOn
  <2> QED
    BY <1>b, <2>3, <2>5
<1>2. CASE Look(c) \/ Due(c)
  <2>1. x.at \in {"look", "due"} /\ due' = due
    BY <1>2 DEF Look, Due, Step, Quietly
  <2>2. x.slot \in Slots
    BY <2>1 DEF Placed, HasSlot
  <2>3. Overdue(timer) /\ timer.current \in Nat /\ Typed(timer)
    BY <1>a, <2>1, Fields DEF Going, CallTimed, Stage, Looks
  <2>4. \/ /\ Step(c, x.at, After(c, x.slot), timer)
           /\ x.slot \in Held(timer) => timer.subs[x.slot].time > timer.current
        \/ /\ x.at = "look" /\ Step(c, x.at, To(c, "due"), timer)
        \/ /\ x.at = "due" /\ Step(c, x.at, To(c, "read"), timer)
           /\ timer.subs[x.slot].time <= timer.current
    <3>1. CASE Look(c)
      <4>1. x.at = "look"
        BY <3>1 DEF Look, Step
      <4>2. \/ timer.subs[x.slot].key = NoKey /\ Step(c, "look", After(c, x.slot), timer)
            \/ Step(c, "look", To(c, "due"), timer)
        BY <3>1 DEF Look
      <4> QED
        BY <4>1, <4>2 DEF Held
    <3>2. CASE Due(c)
      <4>1. x.at = "due"
        BY <3>2 DEF Due, Step
      <4>2. IF Signed(timer.subs[x.slot].time - timer.current) <= 0
            THEN Step(c, "due", To(c, "read"), timer)
            ELSE Step(c, "due", After(c, x.slot), timer)
        BY <3>2 DEF Due
      <4>3. x.slot \in Held(timer)
        <5>1. InSlot(x, timer)
          BY <4>1, GoingNow DEF Structure
        <5> QED
          BY <2>2, <4>1, <5>1, TimerAssumption DEF InSlot, Held
      <4>4. Signed(timer.subs[x.slot].time - timer.current) <= 0
              <=> timer.subs[x.slot].time <= timer.current
        BY <2>3, <4>3, DueByTime
      <4>5. timer.subs[x.slot].time \in Nat
        BY <2>2, <2>3, Fields
      <4> QED
        BY <2>3, <4>1, <4>2, <4>4, <4>5
    <3> QED
      BY <1>2, <3>1, <3>2
  <2>5. /\ To(c, "due").at = "due" /\ To(c, "due").asked = x.asked /\ To(c, "due").slot = x.slot
        /\ To(c, "read").at = "read" /\ To(c, "read").asked = x.asked
        /\ To(c, "read").slot = x.slot
    BY ToType DEF Places
  <2>6. After(c, x.slot).asked = x.asked
        /\ IF x.slot < SlotCount THEN After(c, x.slot).at = "look" /\ After(c, x.slot).slot = x.slot + 1
           ELSE After(c, x.slot).at = "pick"
    BY <2>1, <2>2, AfterType
  <2>7. CASE /\ Step(c, x.at, After(c, x.slot), timer)
             /\ x.slot \in Held(timer) => timer.subs[x.slot].time > timer.current
    <3>1. PICK y : y = After(c, x.slot)
      OBVIOUS
    <3>2. Step(c, x.at, y, timer) /\ y \in CallType
      BY <2>7, <3>1, StepLeaves
    <3>3. y.asked = x.asked
          /\ IF x.slot < SlotCount THEN y.at = "look" /\ y.slot = x.slot + 1 ELSE y.at = "pick"
      BY <2>6, <3>1
    <3> HIDE DEF x
    <3>4. CallTimed(y, timer, due, clock)
      BY <1>a, <2>1, <2>2, <2>7, <3>2, <3>3, LoopGoesOn
    <3>5. y.at # "idle" /\ x.at # "idle"
      BY <2>1, <3>3
    <3> QED
      BY <1>b, <2>1, <3>2, <3>4, <3>5
  <2>8. CASE x.at = "look" /\ Step(c, x.at, To(c, "due"), timer)
    <3>1. PICK y : y = To(c, "due")
      OBVIOUS
    <3>2. Step(c, x.at, y, timer) /\ y \in CallType
      BY <2>8, <3>1, StepLeaves
    <3>3. y.asked = x.asked /\ y.slot = x.slot /\ y.at = "due"
      BY <2>5, <3>1
    <3> HIDE DEF x
    <3>4. CallTimed(y, timer, due, clock)
      BY <1>a, <2>8, <3>2, <3>3, ProbeGoesOn
    <3> QED
      BY <1>b, <2>1, <2>8, <3>2, <3>3, <3>4
  <2>9. CASE x.at = "due" /\ Step(c, x.at, To(c, "read"), timer)
             /\ timer.subs[x.slot].time <= timer.current
    <3>1. PICK y : y = To(c, "read")
      OBVIOUS
    <3>2. Step(c, x.at, y, timer) /\ y \in CallType
      BY <2>9, <3>1, StepLeaves
    <3>3. y.asked = x.asked /\ y.slot = x.slot /\ y.at = "read"
      BY <2>5, <3>1
    <3> HIDE DEF x
    <3>4. CallTimed(y, timer, due, clock)
      BY <1>a, <2>9, <3>2, <3>3, ProbeGoesOn
    <3> QED
      BY <1>b, <2>1, <2>9, <3>2, <3>3, <3>4
  <2> QED
    BY <2>4, <2>7, <2>8, <2>9
<1>3. CASE Read(c)
  <2>1. PICK at \in {"free", "faulted"} :
           /\ Step(c, "read", [To(c, at) EXCEPT !.told = timer.subs[x.slot].key], timer)
           /\ at = "faulted" => timer.subs[x.slot].key = NoKey
           /\ due' = due
    BY <1>3 DEF Read, Quietly
  <2>2. x.at = "read"
    BY <2>1 DEF Step
  <2>3. timer.subs[x.slot].key \in Keys
    BY <2>2, GoingNow DEF Structure, InSlot
  <2>4. at = "free"
    BY <2>1, <2>3, TimerAssumption
  <2>5. PICK y : y = [To(c, at) EXCEPT !.told = timer.subs[x.slot].key]
    OBVIOUS
  <2>6. y.asked = x.asked /\ y.slot = x.slot /\ y.at = "free"
    BY <2>4, <2>5, ToType DEF Places, CallType
  <2>7. Step(c, "read", y, timer) /\ due' = due /\ y \in CallType
    BY <2>1, <2>5, StepLeaves
  <2> HIDE DEF x
  <2>8. CallTimed(y, timer, due, clock)
    BY <1>a, <2>2, <2>6, <2>7, ProbeGoesOn
  <2> QED
    BY <1>b, <2>6, <2>7, <2>8
<1>4. CASE Pick(c)
  <2>1. PICK y : /\ Step(c, "pick", y, timer) /\ due' = due
                 /\ y = IF NextSubscription(timer) = 0 THEN To(c, "halt")
                        ELSE [To(c, "await") EXCEPT !.slot = NextSubscription(timer)]
    BY <1>4 DEF Pick, Quietly
  <2>2. /\ y.asked = x.asked
        /\ IF NextSubscription(timer) = 0 THEN y.at = "halt"
           ELSE y.at = "await" /\ y.slot = NextSubscription(timer)
    BY <2>1, ToType DEF Places, CallType
  <2>3. Step(c, "pick", y, timer) /\ due' = due /\ x.at = "pick"
    BY <2>1 DEF Step
  <2>4. y \in CallType
    BY <2>3, StepLeaves
  <2> HIDE DEF x
  <2>5. CallTimed(y, timer, due, clock)
    BY <1>a, <2>2, <2>3, <2>4, PickGoesOn
  <2>6. y.at # "idle"
    BY <2>2
  <2> QED
    BY <1>b, <2>3, <2>5, <2>6
<1> QED
  BY <1>1, <1>2, <1>3, <1>4

\* A slot is freed: what is told is due
LEMMA FreeSlotTimed ==
  ASSUME InRange, IInv, TypeInv', InTime, alone, inTurn, NEW c \in Threads, FreeSlot(c)
  PROVE  Timed'
<1> DEFINE x == caller[c]
           y == [After(c, x.slot) EXCEPT !.told = NoKey]
           u == [timer EXCEPT !.subs[x.slot] = Free]
<1>0. TypeInv /\ timer \in TimerType /\ x \in CallType /\ Placed(x)
  BY TypesOf DEF IInv
<1>1. Step(c, "free", y, u) /\ due' = due /\ x.at = "free"
  BY DEF FreeSlot, Step
<1>2. x.slot \in Slots
  BY <1>0, <1>1 DEF Placed, HasSlot
<1>3. y.asked = x.asked
      /\ IF x.slot < SlotCount THEN y.at = "look" /\ y.slot = x.slot + 1 ELSE y.at = "pick"
  BY <1>0, <1>1, <1>2, AfterType DEF CallType
<1>4. /\ u.current = timer.current /\ u.next = timer.next /\ u.counter = timer.counter
      /\ \A i \in Slots : u.subs[i] = IF i = x.slot THEN Free ELSE timer.subs[i]
  BY <1>0, <1>2 DEF TimerType
<1>5. y \in CallType /\ u \in TimerType
  BY <1>0, <1>1, StepLeaves
<1> HIDE DEF x, y, u
<1>6. Going(x, timer, due, clock)
  BY <1>1, GoingNow DEF x
<1>7. x.slot \notin Held(u)
  BY <1>2, <1>4 DEF Held, Free
<1>8. Typed(u) /\ CallTimed(y, u, due, clock)
  BY <1>1, <1>2, <1>3, <1>4, <1>5, <1>6, <1>7, LoopGoesOn
<1>9. y.at # "idle"
  BY <1>3
<1> QED
  BY <1>1, <1>8, <1>9, QuietTimed

\* A slot is found and filled in
LEMMA SubscribingTimed ==
  ASSUME InRange, IInv, TypeInv', InTime, alone, inTurn, inTurn', NEW c \in Threads,
         Subscribing(c)
  PROVE  Timed'
<1> DEFINE x == caller[c]
<1>0. TypeInv /\ timer \in TimerType /\ x \in CallType /\ Placed(x)
  BY TypesOf DEF IInv
<1>a. x.at # "idle" => /\ Going(x, timer, due, clock) /\ Typed(timer)
                       /\ Structure /\ InSlot(x, timer)
  BY GoingNow DEF Going, Structure
<1>b. ASSUME NEW at, at # "idle", NEW y, Step(c, at, y, timer), due' = due,
             y.at # "idle", CallTimed(y, timer, due, clock)
      PROVE  Timed'
  <2>1. x.at = at
    BY <1>b DEF Step
  <2> QED
    BY <1>a, <1>b, <2>1, QuietTimed
<1> USE <1>0
<1>1. CASE FindSlot(c)
  <2>1. PICK y : /\ Step(c, "find", y, timer) /\ due' = due
                 /\ y = Idle \/ y = [To(c, "claim") EXCEPT !.slot = Slot(timer, x.key)]
    BY <1>1 DEF FindSlot, Quietly
  <2>2. y = Idle \/ (y.asked = x.asked /\ y.at = "claim")
    BY <2>1, ToType DEF Places, CallType
  <2>3. Step(c, "find", y, timer) /\ due' = due /\ x.at = "find"
    BY <2>1 DEF Step
  <2> HIDE DEF x
  <2>4. /\ Rests(FALSE, timer, due, clock)
        /\ y # Idle => CallTimed(y, timer, due, clock)
    BY <1>a, <2>2, <2>3, FindSlotGoesOn
  <2> QED
    BY <1>a, <2>3, <2>4, StepTimed
<1>2. CASE Claim(c)
  <2> DEFINE y == To(c, "compare")
             u == [timer EXCEPT !.subs[x.slot].key = x.key]
  <2>1. Step(c, "claim", y, u) /\ due' = due /\ x.at = "claim"
    BY <1>2 DEF Claim, Step, Quietly
  <2>2. x.slot \in Slots /\ x.key \in Keys
    BY <2>1 DEF Placed, HasSlot
  <2>3. y.asked = x.asked /\ y.at = "compare" /\ y.slot = x.slot
    BY ToType DEF Places
  <2>4. /\ u.current = timer.current /\ u.next = timer.next /\ u.tick = timer.tick
        /\ u.counter = timer.counter
        /\ \A i \in Slots :
              IF i = x.slot THEN u.subs[i].key = x.key /\ u.subs[i].time = timer.subs[i].time
              ELSE u.subs[i] = timer.subs[i]
    BY <2>2 DEF TimerType
  <2>5. y \in CallType /\ u \in TimerType
    BY <2>1, StepLeaves
  <2> HIDE DEF x, y, u
  <2>6. Typed(u) /\ CallTimed(y, u, due, clock)
    BY <1>a, <2>1, <2>2, <2>3, <2>4, <2>5, ClaimGoesOn
  <2> QED
    BY <2>1, <2>3, <2>6, QuietTimed
<1>3. CASE Compare(c)
  <2> DEFINE time == (timer.current + x.timeout) % Modulus
             y == [To(c, "settime") EXCEPT !.time = time,
                      !.wasNext = WasNext(timer, x.slot),
                      !.wasCloser = WasCloser(timer, x.slot, time)]
  <2>1. Step(c, "compare", y, timer) /\ due' = due /\ x.at = "compare"
    BY <1>3 DEF Compare, Step, Quietly
  <2>2. /\ y.asked = x.asked /\ y.at = "settime" /\ y.slot = x.slot /\ y.timeout = x.timeout
        /\ y.time = time /\ y.wasCloser = WasCloser(timer, x.slot, time)
    <3> HIDE DEF time
    <3> QED
      BY ToType DEF Places, CallType
  <2>3. y \in CallType
    BY <2>1, StepLeaves
  <2>4. y.time = (timer.current + x.timeout) % Modulus /\ y.wasCloser = WasCloser(timer, x.slot, y.time)
    BY <2>2
  <2> HIDE DEF x, y, time
  <2>5. CallTimed(y, timer, due, clock)
    BY <1>a, <2>1, <2>2, <2>3, <2>4, CompareGoesOn
  <2> QED
    BY <1>b, <2>1, <2>2, <2>5
<1>4. CASE SetTime(c)
  <2> DEFINE u == [timer EXCEPT !.subs[x.slot].time = x.time]
             y == IF x.wasNext THEN To(c, "rank") ELSE Idle
  <2>1. /\ Step(c, "settime", y, u) /\ x.at = "settime"
        /\ due' = [due EXCEPT ![x.key] = x.asked + x.timeout]
        /\ x.wasNext \/ timer.next <= x.time
    BY <1>4 DEF SetTime, Step
  <2>2. x.slot \in Slots /\ x.key \in Keys /\ Unique(timer) /\ timer.subs[x.slot].key = x.key
    BY <1>a, <2>1 DEF Placed, HasSlot, Structure, InSlot
  <2>3. x.wasNext => /\ y.at = "rank" /\ y.asked = x.asked /\ y.wasNext = x.wasNext
                     /\ y.slot = x.slot /\ y.wasCloser = x.wasCloser
    <3>1. x.wasNext => y = To(c, "rank")
      OBVIOUS
    <3>2. LET z == To(c, "rank") IN
          /\ z.at = "rank" /\ z.asked = x.asked /\ z.wasNext = x.wasNext
          /\ z.slot = x.slot /\ z.wasCloser = x.wasCloser
      BY ToType DEF Places
    <3> HIDE DEF y
    <3> QED
      BY <3>1, <3>2
  <2>4. ~x.wasNext => y = Idle
    OBVIOUS
  <2>5. /\ u.current = timer.current /\ u.next = timer.next /\ u.tick = timer.tick
        /\ u.counter = timer.counter
        /\ \A i \in Slots :
              IF i = x.slot THEN u.subs[i].key = x.key /\ u.subs[i].time = x.time
              ELSE u.subs[i] = timer.subs[i]
    BY <2>2 DEF TimerType
  <2>6. y \in CallType /\ u \in TimerType
    BY <2>1, StepLeaves
  <2> HIDE DEF x, y, u
  <2>7. /\ Typed(u)
        /\ x.wasNext => CallTimed(y, u, due', clock)
        /\ timer.next <= x.time => Rests(FALSE, u, due', clock)
    <3>1. PICK e : e = due' /\ e = [due EXCEPT ![x.key] = x.asked + x.timeout]
      BY <2>1
    <3>2. Going(x, timer, due, clock)
      BY <1>a, <2>1
    <3>3. /\ Typed(u)
          /\ x.wasNext => \A w \in CallType :
                w.at = "rank" /\ w.asked = x.asked /\ w.wasNext /\ w.slot = x.slot
                /\ w.wasCloser = x.wasCloser => CallTimed(w, u, e, clock)
          /\ timer.next <= x.time => Rests(FALSE, u, e, clock)
      BY <2>1, <2>2, <2>5, <2>6, <3>1, <3>2, SetTimeGoesOn
    <3> QED
      BY <2>3, <2>6, <3>1, <3>3
  <2>8. x.wasNext => y # Idle
    BY <2>3 DEF Idle
  <2> QED
    BY <2>1, <2>4, <2>7, <2>8, StepTimed
<1>5. CASE Rank(c)
  <2>1. PICK y : /\ Step(c, "rank", y, timer) /\ due' = due
                 /\ y = IF x.wasCloser THEN [To(c, "ask") EXCEPT !.slot = NextSubscription(timer)]
                        ELSE To(c, "ask")
    BY <1>5 DEF Rank, Quietly
  <2>2. /\ y.asked = x.asked /\ y.at = "ask" /\ y.wasNext = x.wasNext
        /\ y.slot = IF x.wasCloser THEN NextSubscription(timer) ELSE x.slot
    BY <2>1, ToType DEF Places, CallType
  <2>3. Step(c, "rank", y, timer) /\ due' = due /\ x.at = "rank"
    BY <2>1 DEF Step
  <2>4. y \in CallType
    BY <2>3, StepLeaves
  <2> HIDE DEF x
  <2>5. CallTimed(y, timer, due, clock)
    BY <1>a, <2>2, <2>3, <2>4, RankGoesOn
  <2> QED
    BY <1>b, <2>2, <2>3, <2>5
<1>6. CASE Ask(c)
  <2>1. PICK y : /\ Step(c, "ask", y, timer) /\ due' = due
                 /\ y = [To(c, "schedule") EXCEPT !.slot = 0, !.time = TimeAt(timer, x.slot)]
    BY <1>6 DEF Ask, Quietly
  <2>2. /\ y.asked = x.asked /\ y.at = "schedule" /\ y.wasNext = x.wasNext
        /\ y.time = TimeAt(timer, x.slot)
    BY <2>1, ToType DEF Places, CallType
  <2>3. Step(c, "ask", y, timer) /\ due' = due /\ x.at = "ask"
    BY <2>1 DEF Step
  <2>4. y \in CallType
    BY <2>3, StepLeaves
  <2> HIDE DEF x
  <2>5. CallTimed(y, timer, due, clock)
    BY <1>a, <2>2, <2>3, <2>4, AskGoesOn
  <2> QED
    BY <1>b, <2>2, <2>3, <2>5
<1> QED
  BY <1>1, <1>2, <1>3, <1>4, <1>5, <1>6 DEF Subscribing

\* The counter is set ahead
LEMMA SchedulingTimed ==
  ASSUME InRange, IInv, TypeInv', InTime, alone, inTurn, NEW c \in Threads, Scheduling(c)
  PROVE  Timed'
<1> DEFINE x == caller[c]
<1>0. TypeInv /\ timer \in TimerType /\ x \in CallType /\ Placed(x)
  BY TypesOf DEF IInv
<1>a. x.at # "idle" => Going(x, timer, due, clock) /\ Typed(timer)
  BY GoingNow DEF Going
<1> USE <1>0
<1>b. PICK z : z = Scheduled(c) /\ (z = Idle \/ (z.asked = x.asked /\ z.at = "find"))
  <2>1. [To(c, "find") EXCEPT !.time = 0].asked = x.asked
        /\ [To(c, "find") EXCEPT !.time = 0].at = "find"
    BY ToType DEF Places, CallType
  <2> QED
    BY <2>1 DEF Scheduled
<1>1. CASE ScheduleNext(c)
  <2> DEFINE y == To(c, "tick")
             u == [timer EXCEPT !.next = IF @ > x.time THEN x.time ELSE @]
  <2>1. Step(c, "schedule", y, u) /\ due' = due /\ x.at = "schedule"
    BY <1>1 DEF ScheduleNext, Step, Quietly
  <2>2. y.asked = x.asked /\ y.at = "tick" /\ y.wasNext = x.wasNext
    BY ToType DEF Places
  <2>3. /\ u.subs = timer.subs /\ u.current = timer.current /\ u.tick = timer.tick
        /\ u.counter = timer.counter
        /\ u.next = IF timer.next > x.time THEN x.time ELSE timer.next
    BY DEF TimerType
  <2>4. y \in CallType /\ u \in TimerType
    BY <2>1, StepLeaves
  <2> HIDE DEF x, y, u
  <2>5. Typed(u) /\ CallTimed(y, u, due, clock)
    BY <1>a, <2>1, <2>2, <2>3, <2>4, ScheduleNextGoesOn
  <2> QED
    BY <2>1, <2>2, <2>5, QuietTimed
<1>2. CASE SetTick(c)
  <2>1. PICK diff, u, y :
           /\ Step(c, "tick", y, u) /\ due' = due
           /\ diff = (timer.next - timer.current) % Modulus
           /\ y = IF diff < Period THEN To(c, "counter") ELSE z
           /\ u = [timer EXCEPT !.tick = IF diff < Period THEN diff ELSE Period]
    BY <1>2, <1>b DEF SetTick, Quietly
  <2>2. /\ u.subs = timer.subs /\ u.current = timer.current /\ u.next = timer.next
        /\ u.counter = timer.counter /\ u.tick = IF diff < Period THEN diff ELSE Period
    BY <2>1 DEF TimerType
  <2>3. diff < Period => y.asked = x.asked /\ y.at = "counter"
    BY <2>1, ToType DEF Places
  <2>4. ~ (diff < Period) => y = Idle \/ (y.asked = x.asked /\ y.at = "find")
    BY <1>b, <2>1
  <2>5. Step(c, "tick", y, u) /\ due' = due /\ x.at = "tick"
        /\ diff = (timer.next - timer.current) % Modulus
    BY <2>1 DEF Step
  <2>6. y \in CallType /\ u \in TimerType
    BY <2>5, StepLeaves
  <2> HIDE DEF x
  <2>7. /\ Typed(u)
        /\ diff < Period => CallTimed(y, u, due, clock)
        /\ ~ (diff < Period) => /\ Rests(FALSE, u, due, clock)
                                /\ y # Idle => CallTimed(y, u, due, clock)
    BY <1>a, <2>2, <2>3, <2>4, <2>5, <2>6, SetTickGoesOn
  <2>8. diff < Period => y # Idle
    BY <2>3 DEF Idle
  <2> QED
    BY <2>5, <2>7, <2>8, StepTimed
<1>3. CASE SetCounter(c)
  <2> DEFINE u == [timer EXCEPT !.counter = Period - timer.tick]
  <2>1. Step(c, "counter", z, u) /\ due' = due /\ x.at = "counter"
    BY <1>3, <1>b DEF SetCounter, Step, Quietly
  <2>2. /\ u.subs = timer.subs /\ u.current = timer.current /\ u.next = timer.next
        /\ u.tick = timer.tick /\ u.counter = Period - timer.tick
    BY DEF TimerType
  <2>3. u \in TimerType
    BY <2>1, StepLeaves
  <2> HIDE DEF x, u
  <2>4. /\ Typed(u) /\ Rests(FALSE, u, due, clock)
        /\ z # Idle => CallTimed(z, u, due, clock)
    BY <1>a, <1>b, <2>1, <2>2, <2>3, SetCounterGoesOn
  <2> QED
    BY <2>1, <2>4, StepTimed
<1> QED
  BY <1>1, <1>2, <1>3 DEF Scheduling

(***************************************************************************)
(* The steps of handlers, and clocks, while nobody is in the driver        *)
(***************************************************************************)
\* The clocks that a caller, or the interrupt that is pending, has yet to add
Passed == IF flag THEN timer.tick ELSE Counter(timer)

LEMMA Counted ==
  ASSUME IInv, InTime, alone, inTurn, \A c \in Threads : caller[c] = Idle
  PROVE  /\ Typed(timer) /\ Waits(timer) /\ timer.current \in Nat
         /\ clock \in Nat /\ clock =< Horizon /\ due \in [Keys -> Nat]
         /\ Passed \in Nat /\ Passed =< Period /\ timer.current + Passed =< clock
         /\ flag => Passed = timer.tick
         /\ ~flag => Passed = Counter(timer)
         /\ \A i \in Slots : timer.subs[i].key # NoKey =>
               /\ timer.subs[i].key \in Keys /\ due[timer.subs[i].key] \in Nat
               /\ timer.subs[i].time \in Nat
               /\ due[timer.subs[i].key] + timer.current + Passed =< clock + timer.subs[i].time
<1>1. Typed(timer) /\ clock <= Horizon /\ Rests(flag, timer, due, clock)
  BY DEF InTime, Timed
<1>2. clock \in Nat /\ due \in [Keys -> Nat]
  BY DEF IInv, TypeInv, TypeOK
<1>3. Waits(timer) /\ CountedOnce(Passed, Held(timer), timer, due, clock)
  BY <1>1 DEF Rests, Passed
<1>4. timer.current \in Nat /\ timer.tick \in Nat /\ timer.tick =< Period
      /\ Counter(timer) \in Int /\ Counter(timer) =< Period
  BY <1>1, Fields
<1>5. Passed \in Nat /\ Passed =< Period
  BY <1>3, <1>4 DEF Passed, CountedOnce
<1>6. ASSUME NEW i \in Slots, timer.subs[i].key # NoKey
      PROVE  /\ timer.subs[i].key \in Keys /\ due[timer.subs[i].key] \in Nat
             /\ timer.subs[i].time \in Nat
             /\ due[timer.subs[i].key] + timer.current + Passed =< clock + timer.subs[i].time
  <2>1. timer.subs[i].key \in Keys /\ timer.subs[i].time \in Nat
    BY <1>1, <1>6, Fields
  <2>2. due[timer.subs[i].key] + timer.current + Passed =< clock + timer.subs[i].time
    BY <1>3, <1>6 DEF CountedOnce, Held
  <2> QED
    BY <1>2, <2>1, <2>2
<1>7. timer.current + Passed =< clock
  BY <1>3 DEF CountedOnce
<1> QED
  BY <1>1, <1>2, <1>3, <1>4, <1>5, <1>6, <1>7 DEF Passed

\* The time advances by clocks that have passed: what is signalled is due
LEMMA AdvancesInTime ==
  ASSUME InRange, IInv, InTime, alone, inTurn, \A c \in Threads : caller[c] = Idle,
         NEW e \in Nat, e =< Passed, NEW u, u = Advance(timer, e)
  PROVE  /\ Typed(u) /\ Waits(u) /\ u.current = timer.current + e /\ Counter(u) = 0
         /\ u.current \in Nat /\ u.current =< clock
         /\ \A i \in Slots : u.subs[i].key # NoKey =>
               /\ u.subs[i] = timer.subs[i]
               /\ due[u.subs[i].key] + u.current =< clock + u.subs[i].time
         /\ \A k \in Fired(u) : due[k] =< clock
<1>1. Typed(timer) /\ Waits(timer) /\ timer.current \in Nat
  BY Counted
<1>2. e =< Period /\ timer.current + e =< clock /\ timer.current + e =< Horizon
  BY <1>1, Counted, Ranges
<1>3. /\ Typed(u) /\ Waits(u) /\ u.current = timer.current + e /\ Counter(u) = 0
      /\ \A i \in Slots : \/ u.subs[i] = timer.subs[i]
                          \/ u.subs[i].key = NoKey /\ timer.subs[i].time =< u.current
  BY <1>1, <1>2, AdvanceTimes
<1>4. ASSUME NEW i \in Slots, u.subs[i].key # NoKey
      PROVE  /\ u.subs[i] = timer.subs[i]
             /\ due[u.subs[i].key] + u.current =< clock + u.subs[i].time
  <2>1. u.subs[i] = timer.subs[i] /\ timer.subs[i].key # NoKey
    BY <1>3, <1>4
  <2> QED
    BY <1>1, <1>3, <2>1, Counted
<1>5. ASSUME NEW k \in Fired(u)
      PROVE  due[k] =< clock
  <2>1. PICK i \in Slots : timer.subs[i].key = k
    BY DEF Fired, Holds
  <2>2. u.subs[i].key # k /\ k \in Keys /\ k # NoKey
    BY TimerAssumption DEF Fired, Holds
  <2>3. timer.subs[i].time =< timer.current + e
    BY <1>3, <2>1, <2>2
  <2>4. /\ due[k] \in Nat /\ timer.subs[i].time \in Nat
        /\ due[k] + timer.current + Passed =< clock + timer.subs[i].time
    BY <2>1, <2>2, Counted
  <2> QED
    BY <1>1, <2>3, <2>4, Counted
<1> QED
  BY <1>1, <1>2, <1>3, <1>4, <1>5, Counted

LEMMA ElapsedIsPassed ==
  ASSUME NEW t, Typed(t), Counter(t) >= 0, NEW e, e = Elapsed(t.counter, t)
  PROVE  e = Counter(t) /\ e \in Nat
<1>1. PICK n \in Nat : n = t.counter - (Period - t.tick) /\ n = Counter(t)
  BY Fields, Ranges DEF Counter
<1>2. n =< Never
  BY <1>1, Fields, Ranges
<1> QED
  BY <1>1, <1>2, ModRange DEF Elapsed

\* When nobody is in the driver, the times are what matters
LEMMA RestsAgain ==
  ASSUME \A c \in Threads : caller[c] = Idle, UNCHANGED caller,
         Typed(timer'), Waits(timer'), clock' =< Horizon,
         NEW m, m = IF flag' THEN timer'.tick ELSE Counter(timer'),
         m >= 0, timer'.current + m =< clock',
         \A i \in Slots : timer'.subs[i].key # NoKey =>
            due'[timer'.subs[i].key] + timer'.current + m =< clock' + timer'.subs[i].time
  PROVE  Timed'
<1>1. CountedOnce(m, Held(timer'), timer', due', clock')
  BY DEF CountedOnce, Held
<1>2. Rests(flag', timer', due', clock')
  BY <1>1 DEF Rests
<1> QED
  BY <1>2 DEF Timed

LEMMA InterruptTimed ==
  ASSUME InRange, IInv, InTime, alone, inTurn, Interrupt
  PROVE  Timed'
<1>1. flag /\ ~flag' /\ timer' = Advance(timer, timer.tick) /\ UNCHANGED <<caller, due, clock>>
  BY DEF Interrupt
<1>2. \A c \in Threads : caller[c] = Idle
  BY <1>1 DEF IInv, Structure, AloneCall
<1>3. timer.tick \in Nat /\ timer.tick =< Passed
  BY <1>1, <1>2, Counted, Fields
<1>4. /\ Typed(timer') /\ Waits(timer') /\ Counter(timer') = 0
      /\ timer'.current \in Nat /\ timer'.current =< clock
      /\ \A i \in Slots : timer'.subs[i].key # NoKey =>
            due[timer'.subs[i].key] + timer'.current =< clock + timer'.subs[i].time
  BY <1>1, <1>2, <1>3, AdvancesInTime
<1>5. ASSUME NEW i \in Slots, timer'.subs[i].key # NoKey
      PROVE  due'[timer'.subs[i].key] + timer'.current + 0 =< clock' + timer'.subs[i].time
  <2>1. due[timer'.subs[i].key] \in Nat /\ due' = due /\ clock' = clock
    BY <1>1, <1>2, <1>4, <1>5, Fields, Counted
  <2> QED
    BY <1>4, <1>5, <2>1
<1>6. timer'.current + 0 =< clock' /\ clock' =< Horizon /\ UNCHANGED caller
  BY <1>1, <1>2, <1>4, Counted
<1>7. 0 = IF flag' THEN timer'.tick ELSE Counter(timer')
  BY <1>1, <1>4
<1> QED
  BY <1>2, <1>4, <1>5, <1>6, <1>7, RestsAgain

LEMMA TimeoutTimed ==
  ASSUME InRange, IInv, InTime, alone, inTurn, NEW k \in Keys, NEW d \in Timeouts,
         Timeout(k, d), alone', inTurn'
  PROVE  Timed'
<1> DEFINE e == Elapsed(timer.counter, timer)
           u == Advance(timer, e)
           i == Slot(u, k)
<1>1. ~flag /\ \A c \in Threads : caller[c] = Idle
  BY CallAlone DEF Timeout
<1>2. e \in Nat /\ e =< Passed
  <2> HIDE DEF e
  <2>1. e = Elapsed(timer.counter, timer)
    BY DEF e
  <2>2. Typed(timer) /\ Counter(timer) = Passed /\ Passed \in Nat
    BY <1>1, Counted
  <2>3. Counter(timer) >= 0
    BY <2>2
  <2>4. e = Counter(timer) /\ e \in Nat
    BY <2>1, <2>2, <2>3, ElapsedIsPassed
  <2> QED
    BY <2>2, <2>4
<1>3. /\ Typed(u) /\ Waits(u) /\ Counter(u) = 0 /\ u.current \in Nat /\ u.current =< clock
      /\ \A j \in Slots : u.subs[j].key # NoKey =>
            due[u.subs[j].key] + u.current =< clock + u.subs[j].time
  BY <1>1, <1>2, AdvancesInTime
<1>4. \/ i = 0 /\ timer' = u /\ due' = due
      \/ /\ i # 0 /\ timer' = Subscribe(u, i, k, d)
         /\ due' = [due EXCEPT ![k] = clock + d] /\ InTurn(u, i, d)
  BY DEF Timeout
<1>5. UNCHANGED <<flag, caller, clock>>
  BY DEF Timeout
<1>6. i # 0 => i \in Slots /\ Takes(u, i, k)
  BY SlotTakes DEF Takes
<1>7. Unique(u)
  <2>1. Freed(timer, u) /\ Unique(timer) /\ Agrees(timer, fate)
    BY <1>1, AdvanceFrees, TableOf, AllIdle DEF IInv, TypeInv, TypeOK, TimerType
  <2> QED
    BY <2>1, FreedAgrees
<1>8. clock \in Nat /\ clock =< Horizon /\ d \in Nat /\ due \in [Keys -> Nat]
  BY <1>1, TimeoutNat, Counted
<1> HIDE DEF u, i, e
<1>9. CASE i = 0
  <2>1. timer' = u /\ due' = due
    BY <1>4, <1>9
  <2>2. ASSUME NEW j \in Slots, timer'.subs[j].key # NoKey
        PROVE  due'[timer'.subs[j].key] + timer'.current + 0 =< clock' + timer'.subs[j].time
    <3>1. due[u.subs[j].key] \in Nat
      BY <1>3, <1>8, <2>1, <2>2, Fields
    <3> QED
      BY <1>3, <1>5, <2>1, <2>2, <3>1
  <2>3. /\ timer'.current + 0 =< clock' /\ clock' =< Horizon /\ UNCHANGED caller
        /\ Typed(timer') /\ Waits(timer')
        /\ 0 = IF flag' THEN timer'.tick ELSE Counter(timer')
    BY <1>1, <1>3, <1>5, <1>8, <2>1
  <2> QED
    BY <1>1, <2>2, <2>3, RestsAgain
<1>10. CASE i # 0
  <2>1. /\ timer' = Subscribe(u, i, k, d) /\ due' = [due EXCEPT ![k] = clock + d]
        /\ InTurn(u, i, d) /\ i \in Slots /\ Takes(u, i, k)
    BY <1>4, <1>6, <1>10
  <2>2. /\ Typed(timer') /\ Waits(timer') /\ timer'.current = u.current
        /\ 0 =< Counter(timer') /\ Counter(timer') =< Counter(u)
        /\ \A j \in Slots : timer'.subs[j] = IF j = i THEN [key |-> k, time |-> u.current + d]
                                             ELSE u.subs[j]
    BY <1>3, <2>1, SubscribeTimes
  <2>3. 0 = IF flag' THEN timer'.tick ELSE Counter(timer')
    <3>1. Counter(timer') \in Int
      BY <2>2, Fields
    <3> QED
      BY <1>1, <1>3, <1>5, <2>2, <3>1
  <2>4. ASSUME NEW j \in Slots, timer'.subs[j].key # NoKey
        PROVE  due'[timer'.subs[j].key] + u.current + 0 =< clock + timer'.subs[j].time
    <3>1. CASE j = i
      <4>1. /\ timer'.subs[j].key = k /\ timer'.subs[j].time = u.current + d
            /\ due'[k] = clock + d
        BY <1>8, <2>1, <2>2, <3>1
      <4> QED
        BY <1>3, <1>8, <4>1
    <3>2. CASE j # i
      <4>1. timer'.subs[j] = u.subs[j] /\ u.subs[j].key \in Keys /\ u.subs[j].time \in Nat
        BY <1>3, <2>2, <2>4, <3>2, Fields
      <4>2. u.subs[j].key # k
        BY <1>7, <2>1, <3>2, <4>1 DEF Takes, Unique, Holds
      <4>3. due'[u.subs[j].key] = due[u.subs[j].key] /\ due[u.subs[j].key] \in Nat
        BY <1>8, <2>1, <4>1, <4>2
      <4>4. due[u.subs[j].key] + u.current =< clock + u.subs[j].time
        BY <1>3, <2>4, <4>1
      <4> QED
        BY <1>3, <1>8, <4>1, <4>3, <4>4
    <3> QED
      BY <3>1, <3>2
  <2>5. timer'.current + 0 =< clock' /\ clock' =< Horizon /\ UNCHANGED caller /\ clock' = clock
    BY <1>3, <1>5, <1>8, <2>2
  <2> QED
    BY <1>1, <2>2, <2>3, <2>4, <2>5, RestsAgain
<1> QED
  BY <1>9, <1>10

LEMMA ClearTimed ==
  ASSUME IInv, InTime, alone, inTurn, NEW k \in Keys, Clear(k), alone'
  PROVE  Timed'
<1> DEFINE i == Slot(timer, k)
<1>1. ~flag /\ \A c \in Threads : caller[c] = Idle
  BY CallAlone DEF Clear
<1>2. \/ timer' = timer
      \/ i \in Slots /\ timer' = Unsubscribe(timer, i)
  BY SlotTakes DEF Clear, Takes
<1>3. UNCHANGED <<flag, caller, clock, due>>
  BY DEF Clear
<1>4. Typed(timer) /\ Waits(timer) /\ Counter(timer) \in Nat /\ Passed = Counter(timer)
  BY <1>1, Counted
<1> HIDE DEF i
<1>5. /\ Typed(timer') /\ Waits(timer') /\ timer'.current = timer.current
      /\ Counter(timer') \in Nat /\ Counter(timer') =< Counter(timer)
      /\ \A j \in Slots : timer'.subs[j] = timer.subs[j] \/ timer'.subs[j].key = NoKey
  <2>1. CASE timer' = timer
    BY <1>4, <2>1
  <2>2. CASE i \in Slots /\ timer' = Unsubscribe(timer, i)
    <3>1. Counter(timer) >= 0
      BY <1>4
    <3>2. /\ Typed(timer') /\ Waits(timer') /\ timer'.current = timer.current
          /\ 0 =< Counter(timer') /\ Counter(timer') =< Counter(timer)
          /\ \A j \in Slots : timer'.subs[j] = IF j = i THEN Free ELSE timer.subs[j]
      BY <1>4, <2>2, <3>1, UnsubscribeTimes
    <3> QED
      BY <3>2, Fields DEF Free
  <2> QED
    BY <1>2, <2>1, <2>2
<1>6. PICK m \in Nat : m = Counter(timer') /\ m =< Passed
  BY <1>4, <1>5
<1>7. timer'.current + m =< clock
  BY <1>1, <1>4, <1>5, <1>6, Counted
<1>8. ASSUME NEW j \in Slots, timer'.subs[j].key # NoKey
      PROVE  due[timer'.subs[j].key] + timer'.current + m =< clock + timer'.subs[j].time
  <2>1. timer'.subs[j] = timer.subs[j] /\ timer.subs[j].key # NoKey
    BY <1>5, <1>8
  <2> QED
    BY <1>1, <1>4, <1>5, <1>6, <2>1, Counted
<1>9. /\ clock' = clock /\ due' = due /\ clock' =< Horizon /\ UNCHANGED caller /\ m >= 0
      /\ m = IF flag' THEN timer'.tick ELSE Counter(timer')
  BY <1>1, <1>3, <1>6, Counted
<1> QED
  BY <1>1, <1>5, <1>7, <1>8, <1>9, RestsAgain

\* A thread's call begins
LEMMA ReadCounterTimed ==
  ASSUME IInv, InTime, alone, inTurn, NEW c \in Threads, NEW k \in Keys, NEW d \in Timeouts,
         ReadCounter(c, k, d), alone'
  PROVE  Timed'
<1>1. ~flag /\ \A b \in Threads : caller[b] = Idle
  BY CallAlone DEF ReadCounter
<1>2. UNCHANGED <<timer, flag, clock, due>>
  BY DEF ReadCounter
<1>3. PICK y : /\ y.at = "measure" /\ y.asked = clock /\ y.elapsed = timer.counter
               /\ caller'[c] = y /\ \A b \in Threads : b # c => caller'[b] = Idle
  <2> DEFINE y == [Idle EXCEPT !.at = "measure", !.key = k, !.timeout = d, !.asked = clock,
                               !.elapsed = timer.counter]
  <2>1. y.at = "measure" /\ y.asked = clock /\ y.elapsed = timer.counter
    BY DEF Idle
  <2>2. caller' = [caller EXCEPT ![c] = y] /\ DOMAIN caller = Threads
    BY DEF ReadCounter, IInv, TypeInv, TypeOK
  <2> HIDE DEF y
  <2> QED
    BY <1>1, <2>1, <2>2
<1>4. /\ Typed(timer) /\ Waits(timer) /\ clock =< Horizon /\ clock \in Nat
      /\ Passed = Counter(timer) /\ Passed \in Nat
  BY <1>1, Counted
<1>5. Enters(y, timer)
  <2>1. timer.counter + timer.tick >= Period
    BY <1>4, Fields, Ranges DEF Counter
  <2> QED
    BY <1>3, <1>4, <2>1, Fields DEF Enters
<1>6. Stage(y, timer)
  BY <1>3, <1>5 DEF Stage, Entry, Halting
<1>7. CallTimed(y, timer, due, clock)
  <2>1. Pending(y, timer) = Counter(timer) /\ Counting(y, timer) = Held(timer)
    BY <1>3 DEF Pending, Counting, Advanced, Halting
  <2>2. CountedOnce(Counter(timer), Held(timer), timer, due, clock)
    BY <1>1 DEF InTime, Timed, Rests
  <2>3. Begins(y, timer, clock)
    BY <1>3, <1>4 DEF Begins, Entry
  <2> QED
    BY <1>6, <2>1, <2>2, <2>3 DEF CallTimed
<1>8. ~ (\A b \in Threads : caller'[b] = Idle)
  BY <1>3 DEF Idle
<1> QED
  BY <1>2, <1>3, <1>4, <1>7, <1>8 DEF Timed

\* A clock passes while a thread's call is under way
LEMMA TickGoesOn ==
  ASSUME NEW x, NEW t, NEW d, NEW n, Going(x, t, d, n), n + 1 <= Horizon,
         NEW u \in TimerType, u.subs = t.subs, u.current = t.current, u.next = t.next,
         u.tick = t.tick, u.counter = t.counter \/ u.counter = t.counter + 1
  PROVE  Typed(u) /\ CallTimed(x, u, d, n + 1)
<1>1. Typed(t) /\ Typed(u) /\ d \in [Keys -> Nat] /\ n \in Nat /\ x.asked \in Nat
  BY TypedAgain DEF Going, CallType
<1>2. /\ t.counter \in Nat /\ t.tick \in Nat /\ t.current \in Nat /\ Period \in Nat
      /\ Counter(t) \in Int
  BY <1>1, Fields, Ranges
<1>3. Counter(u) = Counter(t) \/ Counter(u) = Counter(t) + 1
  BY <1>2 DEF Counter
<1>4. PICK p \in Int : p = Pending(x, t)
  BY <1>1, PendingType
<1>5. PICK q \in Int : q = Pending(x, u)
  BY <1>1, PendingType
<1>6. q = p \/ q = p + 1
  BY <1>2, <1>3, <1>4, <1>5 DEF Pending
<1>7. Held(u) = Held(t) /\ Counting(x, u) = Counting(x, t)
  BY SameTable DEF Counting
<1>8. CountedOnce(p, Counting(x, t), t, d, n) /\ Begins(x, t, n) /\ Stage(x, t)
  BY <1>4 DEF Going, CallTimed
<1>9. CountedOnce(q, Counting(x, u), u, d, n + 1)
  <2>1. p >= 0
    BY <1>8 DEF CountedOnce
  <2>2. q >= 0 /\ u.current + q + n <= t.current + p + (n + 1)
    BY <1>1, <1>2, <1>6, <2>1
  <2>3. Counting(x, t) \in SUBSET Held(t) /\ n + 1 \in Nat
    BY <1>1, CountingHeld
  <2> QED
    BY <1>1, <1>7, <1>8, <2>2, <2>3, CountedLess
<1>10. Begins(x, u, n + 1)
  BY <1>1, <1>4, <1>5, <1>6, <1>8 DEF Begins
<1>11. Stage(x, u)
  <2>1. Waits(u) <=> Waits(t)
    BY SameWaits
  <2>2. x.at \in Entry => Enters(x, u)
    <3> SUFFICES ASSUME x.at \in Entry PROVE Enters(x, u)
      OBVIOUS
    <3>1. Enters(x, t)
      BY <1>8 DEF Stage
    <3>2. x.elapsed \in Nat
      BY Ranges DEF Going, CallType
    <3>3. x.elapsed <= t.counter => x.elapsed <= u.counter
      BY <1>2, <3>2
    <3>4. x.elapsed <= Counter(t) => x.elapsed <= Counter(u)
      BY <1>2, <1>3, <3>2
    <3> QED
      BY <2>1, <3>1, <3>3, <3>4 DEF Enters
  <2>3. (x.at \in {"reset", "test"} => Overdue(u)) /\ (Overdue(u) <=> Overdue(t))
    BY <1>8, SameWaits DEF Stage
  <2>4. x.at \in {"look", "due", "read", "free"} => Looks(x, u)
    BY <1>7, <1>8, <2>3 DEF Stage, Looks
  <2>5. x.at \in {"pick", "await"} => Picks(x, u)
    BY <1>7, <1>8, <2>3 DEF Stage, Picks
  <2>6. x.at \in Halting => Halts(x, u)
    BY <1>7, <1>8 DEF Stage, Halts
  <2>7. x.at \in {"find", "claim"} => Waits(u)
    BY <1>8, <2>1 DEF Stage
  <2>8. (Ahead(u) <=> Ahead(t)) /\ (Near(u, Held(u)) <=> Near(t, Held(t)))
    BY <1>7, SameWaits, SameTable
  <2>9. x.at \in {"compare", "settime"} => Fills(x, u)
    <3>1. WaitsFor(u, Held(u) \ {x.slot}) <=> WaitsFor(t, Held(t) \ {x.slot})
      BY <1>7, SameWaits
    <3> QED
      BY <1>8, <3>1 DEF Stage, Fills
  <2>10. x.at \in {"rank", "ask"} => Ranks(x, u)
    BY <1>7, <1>8, <2>8 DEF Stage, Ranks
  <2>11. x.at \in {"schedule", "tick"} => Schedules(x, u)
    BY <1>7, <1>8, <2>8 DEF Stage, Schedules
  <2>12. x.at = "counter" => SetsAhead(u)
    BY <1>8, <2>1 DEF Stage, SetsAhead
  <2> QED
    BY <2>2, <2>3, <2>4, <2>5, <2>6, <2>7, <2>9, <2>10, <2>11, <2>12 DEF Stage
<1> QED
  BY <1>1, <1>5, <1>9, <1>10, <1>11 DEF CallTimed

LEMMA TickTimed ==
  ASSUME IInv, TypeInv', InTime, inTurn, Tick, alone'
  PROVE  Timed'
<1>1. UNCHANGED <<caller, due>> /\ clock' = clock + 1 /\ clock < Horizon /\ alone
  BY DEF Tick
<1>2. Typed(timer) /\ timer \in TimerType /\ timer' \in TimerType /\ clock \in Nat
      /\ due \in [Keys -> Nat]
  BY <1>1 DEF InTime, Timed, IInv, TypeInv, TypeOK, TimerType
<1>3. clock' \in Nat /\ clock' =< Horizon
  BY <1>1, <1>2, Ranges
<1>4. /\ timer'.subs = timer.subs /\ timer'.current = timer.current
      /\ timer'.next = timer.next /\ timer'.tick = timer.tick
  BY <1>2 DEF Tick, TimerType
<1>5. \/ /\ flag' = flag
         /\ timer'.counter = timer.counter \/ timer'.counter = timer.counter + 1
      \/ /\ timer.counter = Period /\ timer'.counter = 0 /\ flag' /\ ~flag
         /\ \A c \in Threads : caller[c] = Idle
  <2>1. CASE timer.enabled /\ timer.counter = Period
    BY <1>2, <2>1 DEF Tick, Busy, TimerType
  <2>2. CASE ~ (timer.enabled /\ timer.counter = Period)
    BY <1>2, <2>2 DEF Tick, TimerType
  <2> QED
    BY <2>1, <2>2
<1>6. Typed(timer')
  BY <1>2, <1>4, TypedAgain
<1>7. CASE \A c \in Threads : caller[c] = Idle
  <2>1. PICK p \in Nat : p = Passed /\ timer.current \in Nat /\ timer.current + p =< clock
    BY <1>1, <1>7, Counted
  <2>2. PICK m \in Nat : /\ m = IF flag' THEN timer'.tick ELSE Counter(timer')
                         /\ m = p \/ m = p + 1
    <3>1. timer.counter \in Nat /\ timer.tick \in Nat /\ Period \in Nat
      BY <1>2, Fields, Ranges
    <3>2. flag => p = timer.tick
      BY <1>1, <1>7, <2>1, Counted
    <3>3. ~flag => p = timer.counter + timer.tick - Period
      BY <1>1, <1>7, <2>1, Counted DEF Counter
    <3>4. flag \in BOOLEAN /\ flag' \in BOOLEAN
      BY DEF IInv, TypeInv, TypeOK
    <3> QED
      BY <1>4, <1>5, <2>1, <3>1, <3>2, <3>3, <3>4 DEF Counter
  <2>3. Waits(timer')
    BY <1>1, <1>4, <1>7, SameWaits, Counted
  <2>4. timer'.current + m =< clock' /\ m >= 0
    BY <1>1, <1>2, <1>4, <2>1, <2>2
  <2>5. ASSUME NEW i \in Slots, timer'.subs[i].key # NoKey
        PROVE  due'[timer'.subs[i].key] + timer'.current + m =< clock' + timer'.subs[i].time
    <3>1. /\ due[timer.subs[i].key] \in Nat /\ timer.subs[i].time \in Nat
          /\ due[timer.subs[i].key] + timer.current + p =< clock + timer.subs[i].time
      BY <1>1, <1>4, <1>7, <2>1, <2>5, Counted
    <3>2. timer'.subs[i] = timer.subs[i] /\ timer'.current = timer.current /\ due' = due
      BY <1>1, <1>4
    <3> QED
      BY <1>1, <1>2, <2>1, <2>2, <3>1, <3>2
  <2>6. m = IF flag' THEN timer'.tick ELSE Counter(timer')
    BY <2>2
  <2> QED
    BY <1>1, <1>3, <1>6, <1>7, <2>3, <2>4, <2>5, <2>6, RestsAgain
<1>8. CASE ~ \A c \in Threads : caller[c] = Idle
  <2>1. timer'.counter = timer.counter \/ timer'.counter = timer.counter + 1
    BY <1>5, <1>8
  <2>2. ASSUME NEW c \in Threads, caller[c] # Idle
        PROVE  CallTimed(caller[c], timer', due, clock + 1)
    <3>1. Going(caller[c], timer, due, clock)
      <4>1. caller[c].at # "idle"
        BY <2>2, TypesOf DEF IInv, Placed
      <4> QED
        BY <1>1, <4>1, GoingNow
    <3>2. clock + 1 <= Horizon
      BY <1>1, <1>3
    <3> QED
      BY <1>2, <1>4, <2>1, <3>1, <3>2, TickGoesOn
  <2>3. \A c \in Threads : caller'[c] # Idle => CallTimed(caller'[c], timer', due', clock')
    BY <1>1, <2>2
  <2> QED
    BY <1>1, <1>3, <1>6, <1>8, <2>3 DEF Timed
<1> QED
  BY <1>7, <1>8

LEMMA TimedInit == InRange /\ Init => InTime
<1> SUFFICES ASSUME InRange, Init PROVE Timed
  BY DEF InTime
<1>1. timer \in TimerType
  BY TypeInit DEF TypeInv, TypeOK, TimerType
<1>2. /\ timer.current = 0 /\ timer.next = Never /\ timer.tick = Period /\ timer.counter = 0
      /\ \A i \in Slots : timer.subs[i].key = NoKey /\ timer.subs[i].time = 0
  BY DEF Init, Free
<1>3. Typed(timer) /\ clock = 0 /\ clock <= Horizon
  BY <1>1, <1>2, Ranges DEF Typed, Init
<1>4. Held(timer) = {}
  BY <1>2 DEF Held
<1>5. Waits(timer)
  BY <1>2, <1>4, Ranges DEF Waits, WaitsFor, Ahead, Near
<1>6. Counter(timer) = 0 /\ ~flag
  BY <1>2, Ranges DEF Counter, Init
<1>7. Rests(flag, timer, due, clock)
  BY <1>2, <1>3, <1>4, <1>5, <1>6 DEF Rests, CountedOnce
<1> QED
  BY <1>3, <1>7 DEF Timed, Init

LEMMA ThreadStepTimed ==
  ASSUME InRange, IInv, TypeInv', InTime, alone, inTurn, inTurn', NEW c \in Threads,
         ThreadStep(c)
  PROVE  Timed'
BY EntryTimed, AdvancingTimed, HaltingTimed, LoopTimed, FreeSlotTimed, SubscribingTimed,
   SchedulingTimed DEF ThreadStep, Advancing

LEMMA TimedNext ==
  ASSUME InRange, IInv, TypeInv', InTime, [Next]_vars
  PROVE  InTime'
<1> SUFFICES ASSUME alone', inTurn' PROVE Timed'
  BY DEF InTime
<1>1. alone /\ inTurn
  <2>1. ASSUME NEW c \in Threads, ThreadStep(c)
        PROVE  alone /\ inTurn
    BY <2>1 DEF ThreadStep, Advancing, Subscribing, Scheduling, Measure, Start, SetRunning, Enable,
                Load, Add, Reset, Test, Look, Due, Read, FreeSlot, Pick, Await, Halt, ForgetNext,
                ForgetTick, Disable, FindSlot, Claim, Compare, SetTime, Rank, Ask, ScheduleNext,
                SetTick, SetCounter, Step, Quietly
  <2>2. ASSUME NEW k \in Keys, NEW d \in Timeouts, Timeout(k, d)
        PROVE  alone /\ inTurn
    BY <2>2 DEF Timeout, Call
  <2>3. ASSUME NEW k \in Keys, Clear(k)
        PROVE  alone /\ inTurn
    BY <2>3 DEF Clear, Call
  <2>4. ASSUME NEW c \in Threads, NEW k \in ThreadKeys, NEW d \in Timeouts, ReadCounter(c, k, d)
        PROVE  alone /\ inTurn
    BY <2>4 DEF ReadCounter, Call
  <2>5. Interrupt \/ Tick \/ UNCHANGED vars => alone /\ inTurn
    BY DEF Interrupt, Tick, vars
  <2> QED
    BY <2>1, <2>2, <2>3, <2>4, <2>5 DEF Next, HandlerStep
<1>2. CASE Interrupt
  BY <1>1, <1>2, InterruptTimed
<1>3. CASE \E h \in Handlers : HandlerStep(h)
  BY <1>1, <1>3, TimeoutTimed, ClearTimed DEF HandlerStep
<1>4. CASE \E c \in Threads : ThreadStep(c)
  BY <1>1, <1>4, ThreadStepTimed
<1>5. CASE \E c \in Threads, k \in ThreadKeys, d \in Timeouts : ReadCounter(c, k, d)
  <2>1. ThreadKeys \subseteq Keys
    BY TimerAssumption
  <2> QED
    BY <1>1, <1>5, <2>1, ReadCounterTimed
<1>6. CASE Tick
  BY <1>1, <1>6, TickTimed
<1>7. CASE UNCHANGED vars
  <2>1. UNCHANGED <<timer, caller, flag, due, clock>>
    BY <1>7 DEF vars
  <2>2. Timed
    BY <1>1 DEF InTime
  <2> QED
    BY <2>1, <2>2 DEF Timed
<1> QED
  BY <1>2, <1>3, <1>4, <1>5, <1>6, <1>7 DEF Next

LEMMA InTimeAlways == ASSUME InRange PROVE Spec => [](IInv /\ InTime)
<1>1. Init => InTime
  BY TimedInit
<1>2. IInv /\ TypeInv' /\ InTime /\ [Next]_vars => InTime'
  BY TimedNext
<1> QED
  BY <1>1, <1>2, Inductive, TypeAlways, PTL DEF Spec

\* What is told is due
LEMMA EarlyStep ==
  ASSUME InRange, IInv, InTime, [Next]_vars, alone', inTurn, NEW k \in Keys,
         fate[k] = "pending", fate'[k] = "fired"
  PROVE  clock >= due[k]
<1>1. fate \in [Keys -> {"none", "pending", "fired", "spurious"}] /\ clock \in Nat
      /\ due \in [Keys -> Nat]
  BY DEF IInv, TypeInv, TypeOK
<1>2. ASSUME NEW t, fate'[k] = Signalled(t)[k]
      PROVE  k \in Fired(t)
  BY <1>2 DEF Signalled
<1>3. ASSUME NEW e \in Nat, e =< Passed, NEW u, u = Advance(timer, e), k \in Fired(u),
             alone, \A c \in Threads : caller[c] = Idle
      PROVE  clock >= due[k]
  <2>1. due[k] =< clock
    BY <1>3, AdvancesInTime
  <2> QED
    BY <1>1, <2>1
<1>4. CASE Interrupt
  <2>1. alone /\ flag /\ timer' = Advance(timer, timer.tick) /\ fate' = Signalled(timer')
    BY <1>4 DEF Interrupt
  <2>2. \A c \in Threads : caller[c] = Idle
    BY <2>1 DEF IInv, Structure, AloneCall
  <2>3. timer.tick \in Nat /\ timer.tick =< Passed
    BY <2>1, <2>2, Counted, Fields
  <2>4. k \in Fired(timer')
    BY <1>2, <2>1
  <2> QED
    BY <1>3, <2>1, <2>2, <2>3, <2>4
<1>5. CASE \E l \in Keys, d \in Timeouts : Timeout(l, d)
  <2>1. PICK l \in Keys, d \in Timeouts : Timeout(l, d)
    BY <1>5
  <2>2. alone /\ ~flag /\ \A c \in Threads : caller[c] = Idle
    BY <2>1, CallAlone DEF Timeout
  <2>3. PICK e, u : /\ e = Elapsed(timer.counter, timer) /\ u = Advance(timer, e)
                    /\ \/ fate' = Signalled(u)
                       \/ fate' = [Signalled(u) EXCEPT ![l] = "pending"]
    BY <2>1 DEF Timeout
  <2>4. fate'[k] = Signalled(u)[k]
    <3>1. DOMAIN Signalled(u) = Keys
      BY DEF Signalled
    <3> QED
      BY <2>3, <3>1
  <2>5. k \in Fired(u)
    BY <1>2, <2>4
  <2>6. Typed(timer) /\ Counter(timer) = Passed /\ Passed \in Nat
    BY <2>2, Counted
  <2>7. Counter(timer) >= 0
    BY <2>6
  <2>8. e \in Nat /\ e =< Passed
    <3>1. e = Counter(timer) /\ e \in Nat
      BY <2>3, <2>6, <2>7, ElapsedIsPassed
    <3> QED
      BY <2>6, <3>1
  <2> QED
    BY <1>3, <2>2, <2>3, <2>5, <2>8
<1>6. CASE \E c \in Threads : FreeSlot(c)
  <2>1. PICK c \in Threads : FreeSlot(c)
    BY <1>6
  <2>2. caller[c].at = "free" /\ alone
    BY <2>1 DEF FreeSlot, Step
  <2>3. PICK x : x = caller[c] /\ x.at = "free"
    BY <2>2
  <2>4. k = x.told
    BY <1>1, <2>1, <2>3 DEF FreeSlot
  <2>5. Going(x, timer, due, clock) /\ Structure
    BY <2>2, <2>3, GoingNow
  <2>6. timer.subs[x.slot].key = x.told /\ x.slot \in Slots
    BY <2>3, <2>5 DEF Structure, InSlot, Going, Placed, HasSlot
  <2>7. Typed(timer) /\ Looks(x, timer) /\ x.slot \in Held(timer)
    BY <2>3, <2>4, <2>5, <2>6, TimerAssumption DEF Going, CallTimed, Stage, Held
  <2>8. timer.subs[x.slot].time <= timer.current
    BY <2>3, <2>7 DEF Looks
  <2>9. Pending(x, timer) = timer.counter /\ Counting(x, timer) = Held(timer)
    BY <2>3 DEF Pending, Counting, Advanced, Halting
  <2>10. due[k] + timer.current + timer.counter <= clock + timer.subs[x.slot].time
    BY <2>4, <2>5, <2>6, <2>7, <2>9 DEF Going, CallTimed, CountedOnce
  <2>11. timer.current \in Nat /\ timer.counter \in Nat /\ timer.subs[x.slot].time \in Nat
    BY <2>6, <2>7, Fields
  <2> QED
    BY <1>1, <2>8, <2>10, <2>11
<1>7. CASE \E c \in Threads : SetTime(c)
  BY <1>1, <1>7 DEF SetTime
<1>8. CASE \E l \in Keys : Clear(l)
  BY <1>1, <1>8 DEF Clear
<1>9. CASE UNCHANGED fate
  BY <1>9
<1>10. \/ Interrupt \/ \E c \in Threads : FreeSlot(c) \/ SetTime(c)
       \/ \E l \in Keys : Clear(l) \/ \E d \in Timeouts : Timeout(l, d)
       \/ UNCHANGED fate
  <2>1. ASSUME NEW c \in Threads, ThreadStep(c)
        PROVE  FreeSlot(c) \/ SetTime(c) \/ UNCHANGED fate
    BY <2>1 DEF ThreadStep, Advancing, Subscribing, Scheduling, Measure, Start, SetRunning, Enable,
                Load, Add, Reset, Test, Look, Due, Read, Pick, Await, Halt, ForgetNext,
                ForgetTick, Disable, FindSlot, Claim, Compare, Rank, Ask, ScheduleNext,
                SetTick, SetCounter, Quietly
  <2> QED
    BY <2>1 DEF Next, HandlerStep, ReadCounter, Tick, vars
<1> QED
  BY <1>4, <1>5, <1>6, <1>7, <1>8, <1>9, <1>10

\* Below the wrap, and while no call meets another one or a pending interrupt
\* or asks for a time before the one the driver waits for, no timeout fires
\* before its time, whatever is asked for, replaced and cleared: no clock is
\* counted twice, although clocks pass between any two accesses of a thread's
\* call, every call adds up what the counter has counted and timer_schedule
\* sets the counter ahead.
THEOREM NeverFiresEarly == ASSUME InRange PROVE Spec => NeverEarly
<1>1. IInv /\ InTime /\ [Next]_vars =>
        [alone' /\ inTurn => \A k \in Keys :
            fate[k] = "pending" /\ fate'[k] = "fired" => clock >= due[k]]_vars
  BY EarlyStep
<1> QED
  BY <1>1, InTimeAlways, PTL DEF Spec, NeverEarly
=============================================================================
