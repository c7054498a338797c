---------------------------- MODULE ModuleTimer ----------------------------
(***************************************************************************)
(* src/src/module/timer.c: one hardware counter that serves the timeouts   *)
(* of many actors.  The driver keeps a table of subscriptions, one per     *)
(* pair of actor and argument, the time of the one it waits for, and the   *)
(* time at which the counter was last set.  The counter runs up to the     *)
(* period, overflows, and the update interrupt advances the time.          *)
(*                                                                         *)
(* Interrupt handlers do not preempt each other (all have the reset        *)
(* priority), so that a call made by one is a single step, which may come  *)
(* before a timer interrupt that is pending.  A thread that calls the      *)
(* driver can be preempted between any two of its accesses to the driver's *)
(* state; its call is a step for each of them.  A loop that looks for one  *)
(* slot of the table is one step, and so are the store of an actor with    *)
(* its argument and the stores that clear a slot: whoever comes in the     *)
(* middle of one is taken to come before it, and makes whole FALSE (see    *)
(* OnSlot).  Signalling an actor changes nothing here: no on_signal of the *)
(* firmware sets a timeout when it is told of one.                         *)
(***************************************************************************)
EXTENDS Integers, FiniteSets, FiniteSetsExt

CONSTANTS
    Keys,           \* pairs of an actor and an argument
    SlotCount,      \* initial_subscriptions_count
    Period,         \* overflow value of the counter
    Modulus,        \* 2^32: times are unsigned and wrap around
    Timeouts,       \* the timeouts callers ask for
    Handlers,       \* interrupt handlers that call the driver
    Threads,        \* threads that call the driver
    ThreadKeys,     \* the keys that threads set timeouts for
    MaxCalls,       \* bound: calls in a behaviour
    MaxLag,         \* bound: clocks that pass before work that is due
    LastCall,       \* bound: no call begins after this clock
    Horizon,        \* bound: clocks in a behaviour
    NoKey,
    NullTime        \* what subscription->time reads through a NULL pointer

Slots == 1 .. SlotCount

ASSUME TimerAssumption ==
    /\ SlotCount \in Nat \ {0} /\ Period \in Nat \ {0}
    /\ Modulus \in Nat /\ Modulus > Period + 1
    /\ Timeouts \subseteq 1 .. (Modulus - 1)
    /\ ThreadKeys \subseteq Keys /\ NoKey \notin Keys /\ NullTime \in 0 .. (Modulus - 1)
    /\ MaxCalls \in Nat /\ MaxLag \in Nat /\ LastCall \in Nat /\ Horizon \in Nat

VARIABLES
    timer,          \* module_timer_t, with the registers CNT and CEN
    flag,           \* UIF: the update interrupt is pending
    caller,         \* where a thread's call stands
    calls,          \* calls made so far
    clock,          \* the counter's clocks since boot
    lag,            \* clocks that passed while work was due
    due,            \* the clock before which a key should not fire
    fate,           \* what has become of a key's latest timeout
    alone,          \* history: no call met another one or a pending interrupt
    inTurn,         \* history: no time was asked for before the one waited for
    whole           \* history: nobody got between a thread's accesses to a slot, or
                    \* into its looking for one

vars == <<timer, flag, caller, calls, clock, lag, due, fate, alone, inTurn, whole>>

Never == Modulus - 1                    \* (uint32_t)-1
Free == [key |-> NoKey, time |-> 0]     \* (module_timer_subscription_t){}
Idle == [at |-> "idle", key |-> NoKey, timeout |-> 0, asked |-> 0, elapsed |-> 0, time |-> 0,
         slot |-> 0, told |-> NoKey, wasNext |-> FALSE, wasCloser |-> FALSE]

\* The difference of two times as a signed integer
Signed(x) == ((x + Modulus \div 2) % Modulus) - Modulus \div 2

(***************************************************************************)
(* The functions of the driver, as functions of its state                  *)
(***************************************************************************)
\* timer_get_next_subscription, 0 when there is none
NextSubscription(t) ==
    LET distance(i) == Signed(t.subs[i].time - t.next)
        used == {i \in Slots : t.subs[i].key # NoKey /\ distance(i) < Modulus \div 2 - 1}
        nearest == {i \in used : \A j \in used : distance(i) <= distance(j)}
    IN IF used = {} THEN 0 ELSE Min(nearest)

\* Mutant of Schedule: the interval is not cut to the period
ScheduleUncut(t, time) ==
    LET next == IF t.next > time THEN time ELSE t.next
        diff == (next - t.current) % Modulus
    IN [t EXCEPT !.next = next, !.tick = diff, !.counter = IF diff < Period THEN Period - diff ELSE 0]

\* timer_schedule
Schedule(t, time) ==
    LET next == IF t.next > time THEN time ELSE t.next
        diff == (next - t.current) % Modulus
    IN IF diff < Period
       THEN [t EXCEPT !.next = next, !.tick = diff, !.counter = Period - diff]
       ELSE [t EXCEPT !.next = next, !.tick = Period]

\* Mutant of IsDue: a time that has been passed is not due any more
IsDueExactly(t, i) == t.subs[i].key # NoKey /\ t.subs[i].time = t.current

IsDue(t, i) == t.subs[i].key # NoKey /\ Signed(t.subs[i].time - t.current) <= 0

\* timer_notify
Notify(t) == [t EXCEPT !.subs = [i \in Slots |-> IF IsDue(t, i) THEN Free ELSE @[i]]]

\* The phases RUNNING and IDLE, entered through timer_on_phase
Run(t) == IF t.phase = "RUNNING" THEN t
          ELSE [t EXCEPT !.phase = "RUNNING", !.enabled = TRUE]
Stop(t) == [t EXCEPT !.phase = "IDLE", !.enabled = FALSE, !.next = Never, !.tick = Period]

\* timer_advance
Advance(t, elapsed) ==
    LET moved == [Run(t) EXCEPT !.current = (@ + elapsed) % Modulus, !.counter = 0]
        told == Notify(moved)
        next == NextSubscription(told)
    IN IF moved.next > moved.current THEN Schedule(moved, moved.next)
       ELSE IF next = 0 THEN Stop(told)
       ELSE Schedule([told EXCEPT !.next = told.subs[next].time], told.subs[next].time)

\* Mutant of Elapsed: forgets that the counter was set ahead
ElapsedSinceOverflow(count, t) == count

\* The clocks since the counter was last set, as a caller computes them
Elapsed(count, t) == (count - (Period - t.tick)) % Modulus

\* Mutant of Slot: a free slot is taken before the key's own
FreeSlotFirst(t, k) ==
    LET own == {i \in Slots : t.subs[i].key = k}
        free == {i \in Slots : t.subs[i].key = NoKey}
    IN IF free # {} THEN Min(free) ELSE IF own # {} THEN Min(own) ELSE 0

\* timer_get_subscription: the key's own slot, or a free one; 0 when full
Slot(t, k) ==
    LET own == {i \in Slots : t.subs[i].key = k}
        free == {i \in Slots : t.subs[i].key = NoKey}
    IN IF own # {} THEN Min(own) ELSE IF free # {} THEN Min(free) ELSE 0

\* The time of a subscription that was found, or of none
TimeAt(t, i) == IF i = 0 THEN NullTime ELSE t.subs[i].time

WasNext(t, i) == t.next = Never \/ t.next = t.subs[i].time

WasCloser(t, i, time) == t.subs[i].time # 0 /\ t.subs[i].time <= time

\* module_timer_timeout from line 354 on: the subscription is updated
Subscribe(t, i, k, timeout) ==
    LET time == (t.current + timeout) % Modulus
        updated == [t EXCEPT !.subs[i] = [key |-> k, time |-> time]]
        next == IF WasCloser(t, i, time) THEN NextSubscription(updated) ELSE i
    IN IF WasNext(t, i) THEN Schedule(updated, TimeAt(updated, next)) ELSE updated

\* module_timer_clear
Unsubscribe(t, i) ==
    LET cleared == [t EXCEPT !.subs[i] = Free]
        next == NextSubscription(cleared)
    IN IF t.next = t.subs[i].time /\ next # 0
       THEN Schedule(cleared, cleared.subs[next].time) ELSE cleared

(***************************************************************************)
(* Bookkeeping of the timeouts                                             *)
(***************************************************************************)
Holds(t, k) == \E i \in Slots : t.subs[i].key = k

\* The keys that were signalled when the driver's state became t
Fired(t) == {k \in Keys : Holds(timer, k) /\ ~Holds(t, k)}

\* The driver waits for no later time than the one that is put into slot i
InTurn(t, i, timeout) == WasNext(t, i) \/ t.next <= (t.current + timeout) % Modulus

Signalled(t) ==
    [k \in Keys |-> IF k \notin Fired(t) THEN fate[k]
                    ELSE IF fate[k] = "pending" THEN "fired" ELSE "spurious"]

(***************************************************************************)
(* Interrupt handlers                                                      *)
(***************************************************************************)
\* Nothing runs after a fault
Runs == \A c \in Threads : caller[c].at # "faulted"

\* Somebody is in the driver, or about to be
Busy == flag \/ \E c \in Threads : caller[c] # Idle

\* In a loop that looks for a slot, or between the tests of a slot and the last
\* write to it
OnSlot == {"due", "read", "free", "pick", "find", "claim", "compare", "settime", "rank"}

\* Whether a step of somebody else than c leaves every thread's slot alone
Spared(c) == \A d \in Threads \ {c} : caller[d].at \notin OnSlot

HandlerSpares == whole' = (whole /\ \A d \in Threads : caller[d].at \notin OnSlot)

\* timer_interrupt
Interrupt ==
    /\ flag /\ Runs
    /\ flag' = FALSE
    /\ timer' = Advance(timer, timer.tick)
    /\ fate' = Signalled(timer')
    /\ HandlerSpares
    /\ UNCHANGED <<caller, calls, clock, lag, due, alone, inTurn>>

Call == /\ Runs
        /\ calls < MaxCalls /\ clock <= LastCall
        /\ calls' = calls + 1
        /\ alone' = (alone /\ ~Busy)

\* A handler calls module_timer_timeout
Timeout(k, timeout) ==
    /\ Call
    /\ LET advanced == Advance(timer, Elapsed(timer.counter, timer))
           slot == Slot(advanced, k)
       IN IF slot = 0
          THEN /\ timer' = advanced
               /\ fate' = Signalled(advanced)
               /\ UNCHANGED <<due, inTurn>>
          ELSE /\ timer' = Subscribe(advanced, slot, k, timeout)
               /\ fate' = [Signalled(advanced) EXCEPT ![k] = "pending"]
               /\ due' = [due EXCEPT ![k] = clock + timeout]
               /\ inTurn' = (inTurn /\ InTurn(advanced, slot, timeout))
    /\ HandlerSpares
    /\ UNCHANGED <<flag, caller, clock, lag>>

\* A handler calls module_timer_clear
Clear(k) ==
    /\ Call
    /\ LET slot == Slot(timer, k) IN
       timer' = IF slot = 0 THEN timer ELSE Unsubscribe(timer, slot)
    /\ fate' = [fate EXCEPT ![k] = "none"]
    /\ HandlerSpares
    /\ UNCHANGED <<flag, caller, clock, lag, due, inTurn>>

(***************************************************************************)
(* A thread's call of module_timer_timeout, access by access               *)
(***************************************************************************)
\* A thread that is not preempted goes on from one place to another
Step(c, at, call, t) ==
    /\ caller[c].at = at /\ ~flag /\ Runs
    /\ caller' = [caller EXCEPT ![c] = call]
    /\ timer' = t
    /\ whole' = (whole /\ Spared(c))
    /\ UNCHANGED <<flag, calls, clock, lag, alone>>

\* Most steps set no timeout and tell nobody of one
Quietly == UNCHANGED <<due, fate, inTurn>>

To(c, at) == [caller[c] EXCEPT !.at = at]

\* The call reads the counter ...
ReadCounter(c, k, timeout) ==
    /\ Call /\ ~flag
    /\ caller[c] = Idle
    /\ caller' = [caller EXCEPT ![c] =
          [Idle EXCEPT !.at = "measure", !.key = k, !.timeout = timeout, !.asked = clock,
                       !.elapsed = timer.counter]]
    /\ whole' = (whole /\ Spared(c))
    /\ UNCHANGED <<timer, flag, clock, lag, due, fate, inTurn>>

\* ... and then the tick it is compared with
Measure(c) ==
    /\ Step(c, "measure", [To(c, "start") EXCEPT !.elapsed = Elapsed(@, timer)], timer)
    /\ Quietly

\* timer_advance: the timer is started, if it was not ticking ...
Start(c) ==
    /\ Step(c, "start", To(c, IF timer.phase = "RUNNING" THEN "load" ELSE "run"), timer)
    /\ Quietly

SetRunning(c) ==
    /\ Step(c, "run", To(c, "enable"), [timer EXCEPT !.phase = "RUNNING"])
    /\ Quietly

Enable(c) ==
    /\ Step(c, "enable", To(c, "load"), [timer EXCEPT !.enabled = TRUE])
    /\ Quietly

\* ... the time is loaded, added to and stored, the counter set ...
Load(c) ==
    /\ Step(c, "load", [To(c, "add") EXCEPT !.time = timer.current], timer)
    /\ Quietly

Add(c) ==
    /\ Step(c, "add", [To(c, "reset") EXCEPT !.time = 0, !.elapsed = 0],
            [timer EXCEPT !.current = (caller[c].time + caller[c].elapsed) % Modulus])
    /\ Quietly

Reset(c) ==
    /\ Step(c, "reset", To(c, "test"), [timer EXCEPT !.counter = 0])
    /\ Quietly

\* ... and it is tested whether the time waited for has come
Test(c) ==
    /\ Step(c, "test", IF timer.next > timer.current
                       THEN [To(c, "schedule") EXCEPT !.time = timer.next]
                       ELSE [To(c, "look") EXCEPT !.slot = 1], timer)
    /\ Quietly

\* The place after slot i in the loop of timer_notify
After(c, i) ==
    IF i < SlotCount THEN [To(c, "look") EXCEPT !.slot = i + 1]
    ELSE [To(c, "pick") EXCEPT !.slot = 0]

\* timer_notify: a slot that is free is skipped ...
Look(c) ==
    LET i == caller[c].slot IN
    /\ Step(c, "look", IF timer.subs[i].key = NoKey THEN After(c, i) ELSE To(c, "due"), timer)
    /\ Quietly

\* ... and so is one whose time has not come ...
Due(c) ==
    LET i == caller[c].slot IN
    /\ Step(c, "due", IF Signed(timer.subs[i].time - timer.current) <= 0
                      THEN To(c, "read") ELSE After(c, i), timer)
    /\ Quietly

\* ... the actor is read, and its class through it, which may fault when the
\* slot was freed ...
Read(c) ==
    LET told == timer.subs[caller[c].slot].key IN
    \E at \in {"free", "faulted"} :
        /\ Step(c, "read", [To(c, at) EXCEPT !.told = told], timer)
        /\ at = "faulted" => told = NoKey
        /\ Quietly

\* ... and the slot is freed and the actor signalled
FreeSlot(c) ==
    LET call == caller[c] IN
    /\ Step(c, "free", [After(c, call.slot) EXCEPT !.told = NoKey],
            [timer EXCEPT !.subs[call.slot] = Free])
    /\ fate' = [k \in Keys |-> IF k # call.told THEN fate[k]
                               ELSE IF fate[k] = "pending" THEN "fired" ELSE "spurious"]
    /\ UNCHANGED <<due, inTurn>>

\* The next subscription is looked for: there is none ...
Pick(c) ==
    LET next == NextSubscription(timer) IN
    /\ Step(c, "pick", IF next = 0 THEN To(c, "halt") ELSE [To(c, "await") EXCEPT !.slot = next],
            timer)
    /\ Quietly

\* ... and the timer stops, its phase first and then its counting ...
Halt(c) ==
    /\ Step(c, "halt", To(c, "stop"), [timer EXCEPT !.phase = "IDLE"])
    /\ Quietly

ForgetNext(c) ==
    /\ Step(c, "stop", To(c, "still"), [timer EXCEPT !.next = Never])
    /\ Quietly

ForgetTick(c) ==
    /\ Step(c, "still", To(c, "disable"), [timer EXCEPT !.tick = Period])
    /\ Quietly

Disable(c) ==
    /\ Step(c, "disable", To(c, "find"), [timer EXCEPT !.enabled = FALSE])
    /\ Quietly

\* ... or its time is waited for
Await(c) ==
    LET time == timer.subs[caller[c].slot].time IN
    /\ Step(c, "await", [To(c, "schedule") EXCEPT !.slot = 0, !.time = time],
            [timer EXCEPT !.next = time])
    /\ Quietly

\* timer_schedule returns to the middle of the call, or to its end
Scheduled(c) == IF caller[c].wasNext THEN Idle ELSE [To(c, "find") EXCEPT !.time = 0]

\* timer_schedule: an earlier time is waited for ...
ScheduleNext(c) ==
    /\ Step(c, "schedule", To(c, "tick"),
            [timer EXCEPT !.next = IF @ > caller[c].time THEN caller[c].time ELSE @])
    /\ Quietly

\* ... the interval is cut to the period ...
SetTick(c) ==
    LET diff == (timer.next - timer.current) % Modulus IN
    /\ Step(c, "tick", IF diff < Period THEN To(c, "counter") ELSE Scheduled(c),
            [timer EXCEPT !.tick = IF diff < Period THEN diff ELSE Period])
    /\ Quietly

\* ... and the counter set ahead for a shorter one
SetCounter(c) ==
    /\ Step(c, "counter", Scheduled(c), [timer EXCEPT !.counter = Period - timer.tick])
    /\ Quietly

\* Back in module_timer_timeout: a slot is looked for ...
FindSlot(c) ==
    LET slot == Slot(timer, caller[c].key) IN
    /\ Step(c, "find", IF slot = 0 THEN Idle ELSE [To(c, "claim") EXCEPT !.slot = slot], timer)
    /\ Quietly

\* ... the actor is put into it ...
Claim(c) ==
    /\ Step(c, "claim", To(c, "compare"), [timer EXCEPT !.subs[caller[c].slot].key = caller[c].key])
    /\ Quietly

\* ... its time is compared with the one waited for and the new one ...
Compare(c) ==
    LET time == (timer.current + caller[c].timeout) % Modulus
        i == caller[c].slot
    IN /\ Step(c, "compare", [To(c, "settime") EXCEPT !.time = time,
                                 !.wasNext = WasNext(timer, i),
                                 !.wasCloser = WasCloser(timer, i, time)], timer)
       /\ Quietly

\* ... the new time is set ...
SetTime(c) ==
    LET call == caller[c] IN
    /\ Step(c, "settime", IF call.wasNext THEN To(c, "rank") ELSE Idle,
            [timer EXCEPT !.subs[call.slot].time = call.time])
    /\ fate' = [fate EXCEPT ![call.key] = "pending"]
    /\ due' = [due EXCEPT ![call.key] = call.asked + call.timeout]
    /\ inTurn' = (inTurn /\ (call.wasNext \/ timer.next <= call.time))

\* ... and scheduled, or the time of another subscription that is closer
Rank(c) ==
    /\ Step(c, "rank", IF caller[c].wasCloser THEN [To(c, "ask") EXCEPT !.slot = NextSubscription(timer)]
                       ELSE To(c, "ask"), timer)
    /\ Quietly

Ask(c) ==
    /\ Step(c, "ask", [To(c, "schedule") EXCEPT !.slot = 0, !.time = TimeAt(timer, caller[c].slot)],
            timer)
    /\ Quietly

\* A clock of the counter
Tick ==
    /\ clock < Horizon
    /\ clock' = clock + 1
    /\ IF Busy THEN lag < MaxLag /\ lag' = lag + 1 ELSE UNCHANGED lag
    /\ IF timer.enabled /\ timer.counter = Period
       THEN /\ flag' = TRUE /\ alone' = (alone /\ ~Busy)
            /\ timer' = [timer EXCEPT !.counter = 0]
       ELSE /\ timer' = IF timer.enabled THEN [timer EXCEPT !.counter = @ + 1] ELSE timer
            /\ UNCHANGED <<flag, alone>>
    /\ UNCHANGED <<caller, calls, due, fate, inTurn, whole>>

(***************************************************************************)
(* After boot the timer is running: actor_on_phase_change takes it from    *)
(* STARTING to RUNNING before on_phase could send it to IDLE.              *)
(***************************************************************************)
Init ==
    /\ timer = [subs |-> [i \in Slots |-> Free], current |-> 0, next |-> Never,
                tick |-> Period, counter |-> 0, enabled |-> TRUE, phase |-> "RUNNING"]
    /\ flag = FALSE
    /\ caller = [c \in Threads |-> Idle]
    /\ calls = 0
    /\ clock = 0
    /\ lag = 0
    /\ due = [k \in Keys |-> 0]
    /\ fate = [k \in Keys |-> "none"]
    /\ alone = TRUE /\ inTurn = TRUE /\ whole = TRUE

HandlerStep(h) == \E k \in Keys : Clear(k) \/ \E d \in Timeouts : Timeout(k, d)

Advancing(c) ==
    \/ Start(c) \/ SetRunning(c) \/ Enable(c) \/ Load(c) \/ Add(c) \/ Reset(c) \/ Test(c)
    \/ Look(c) \/ Due(c) \/ Read(c) \/ FreeSlot(c)
    \/ Pick(c) \/ Await(c) \/ Halt(c) \/ ForgetNext(c) \/ ForgetTick(c) \/ Disable(c)

Subscribing(c) ==
    \/ FindSlot(c) \/ Claim(c) \/ Compare(c) \/ SetTime(c) \/ Rank(c) \/ Ask(c)

Scheduling(c) == ScheduleNext(c) \/ SetTick(c) \/ SetCounter(c)

ThreadStep(c) == Measure(c) \/ Advancing(c) \/ Subscribing(c) \/ Scheduling(c)

Next ==
    \/ Interrupt
    \/ \E h \in Handlers : HandlerStep(h)
    \/ \E c \in Threads : ThreadStep(c) \/ \E k \in ThreadKeys, d \in Timeouts : ReadCounter(c, k, d)
    \/ Tick

Spec == Init /\ [][Next]_vars

(***************************************************************************)
(* A pending interrupt is taken, a call is finished, the clock runs        *)
(***************************************************************************)
FairSpec ==
    /\ Spec
    /\ WF_vars(Interrupt) /\ WF_vars(Tick)
    /\ \A c \in Threads : WF_vars(ThreadStep(c))

(***************************************************************************)
(* Properties                                                              *)
(***************************************************************************)
Places ==
    {"idle", "faulted", "measure", "start", "run", "enable", "load", "add", "reset", "test",
     "look", "due", "read", "free", "pick", "await", "halt", "stop", "still", "disable",
     "find", "claim", "compare", "settime", "rank", "ask", "schedule", "tick", "counter"}

TypeOK ==
    /\ timer \in [subs : [Slots -> [key : Keys \cup {NoKey}, time : 0 .. Never]],
                  current : 0 .. Never, next : 0 .. Never, tick : 0 .. Period,
                  counter : 0 .. Period, enabled : BOOLEAN, phase : {"RUNNING", "IDLE"}]
    /\ flag \in BOOLEAN
    /\ caller \in [Threads -> [at : Places, key : Keys \cup {NoKey}, timeout : Timeouts \cup {0},
                               asked : Nat, elapsed : 0 .. Never, time : 0 .. Never,
                               slot : 0 .. SlotCount, told : Keys \cup {NoKey},
                               wasNext : BOOLEAN, wasCloser : BOOLEAN]]
    /\ calls \in Nat /\ clock \in Nat /\ lag \in Nat
    /\ due \in [Keys -> Nat]
    /\ fate \in [Keys -> {"none", "pending", "fired", "spurious"}]
    /\ alone \in BOOLEAN /\ inTurn \in BOOLEAN /\ whole \in BOOLEAN

\* A thread has claimed a slot for a key and not set its time yet
Half(k) == \E c \in Threads : caller[c].key = k /\ caller[c].at \in {"compare", "settime"}

\* timer.h:58: "set/update alarm timeout in microseconds from now".  A timeout
\* does not fire before its time, as long as no call met another one or a
\* pending interrupt, nor asked for a time before the one the driver waits for
\* (which it schedules when it is past, and then counts clocks twice).  The
\* driver adds up elapsed clocks at interrupts and calls; none of them may be
\* counted twice.
NeverEarly ==
    [][alone' /\ inTurn => \A k \in Keys :
          fate[k] = "pending" /\ fate'[k] = "fired" => clock >= due[k]]_vars

\* A key is signalled only for a timeout it has asked for, and has one slot,
\* under the same condition
FiredOnce ==
    alone => \A k \in Keys :
        /\ fate[k] # "spurious"
        /\ Cardinality({i \in Slots : timer.subs[i].key = k}) <= 1
        /\ ~Half(k) => (fate[k] = "pending" <=> Holds(timer, k))

\* While a timeout is pending the counter runs and the driver waits for a
\* time: nothing is left to a timer that was stopped, even if no call ever
\* met another.
PendingMeansRunning ==
    alone /\ ~Busy /\ (\E k \in Keys : Holds(timer, k)) =>
        timer.enabled /\ timer.phase = "RUNNING" /\ timer.next # Never

\* A timeout that is pending while the counter runs fires in the end, unless
\* it is cleared or a call stops the timer, however calls and interrupts meet
\* elsewhere than in a slot, or in the search for one.  There they lose
\* timeouts, so that the property ends with whole: while a thread has set the
\* actor of a slot and not yet its time (lines 354 to 360), an interrupt finds
\* the slot past its time, signals and frees it, and the thread sets the time
\* of a slot that is free; a slot that a thread is freeing (lines 271 to 276)
\* may be cleared and filled again by a handler, and is then freed with its new
\* timeout; and a free slot that a thread has found (lines 323 to 335) may be
\* filled by a handler before the thread claims it.
FiresInTheEnd ==
    \A k \in Keys :
        fate[k] = "pending" /\ timer.enabled ~>
            fate[k] # "pending" \/ ~timer.enabled \/ ~whole
=============================================================================
