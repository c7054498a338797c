------------------------------- MODULE Kernel -------------------------------
(***************************************************************************)
(* The part of FreeRTOS (src/lib/FreeRTOS/tasks.c, port.c) on which the    *)
(* threads stand: notifications, sleeping with a timeout, the tick, the    *)
(* suspended scheduler and the choice of the task that runs.               *)
(*                                                                         *)
(* A critical section masks the interrupts that may use the kernel, and is *)
(* one step; so is an interrupt.  PendSV and the tick have the lowest      *)
(* priority.  An interrupt that is not masked may come between the check   *)
(* of ulTaskNotifyTake and its block; that it may come in the middle of a  *)
(* list operation too (tasks.c:5280-5327) is left out, so that without     *)
(* Masked the module has some of the behaviours of the code and not all.   *)
(* Lists whose order decides nothing are sets.  The threads of the program *)
(* wait for nothing but their notification, and for less than              *)
(* portMAX_DELAY.                                                          *)
(***************************************************************************)
EXTENDS Integers, FiniteSets

CONSTANTS
    Tasks, Idle,    \* the threads, and the kernel's own task
    Priority,       \* [Tasks -> Nat \ {0}], that of Idle is 0
    Values,         \* what is sent as a notification
    None,           \* the notification value 0
    Modulus,        \* 2^32: the tick count wraps
    Waits,          \* the timeouts, in ticks
    Masked,         \* do critical sections mask the program's interrupts?
    MaxPended       \* bound: ticks that pass while the scheduler is suspended

ASSUME KernelAssumption ==
    /\ Idle \notin Tasks /\ IsFiniteSet(Tasks)
    /\ Priority \in [Tasks -> Nat \ {0}]
    /\ None \notin Values
    /\ Modulus \in Nat \ {0, 1} /\ Waits \subseteq 0 .. Modulus - 2
    /\ Masked \in BOOLEAN /\ MaxPended \in Nat

VARIABLES
    tick,           \* xTickCount
    list,           \* the list that holds the xStateListItem of a task
    wake,           \* the value of that item
    next,           \* xNextTaskUnblockTime
    pending,        \* xPendingReadyList
    suspended,      \* uxSchedulerSuspended > 0
    pended,         \* xPendedTicks
    yield,          \* xYieldPending
    pendSV,         \* the PendSV interrupt is pending
    woken,          \* thread.c's static xHigherPriorityTaskWoken
    current,        \* pxCurrentTCB
    state, value,   \* ucNotifyState, ulNotifiedValue
    at, wait,       \* where a task is in ulTaskNotifyTake, its timeout
    left            \* history: ticks until the timeout of a sleeping task

listVars == <<tick, list, wake, next>>
switchVars == <<yield, pendSV, woken, current>>
noteVars == <<state, value>>
taskVars == <<at, wait>>
vars == <<listVars, pending, suspended, pended, switchVars, noteVars, taskVars, left>>

\* Mutant of Ticks: times are counted in a wider type than the tick count
TicksWide(n) == n

\* TickType_t
Ticks(n) == n % Modulus
MaxDelay == Modulus - 1
PriorityOf(t) == IF t = Idle THEN 0 ELSE Priority[t]
Above(S, p) == \E t \in S : Priority[t] > p
Ready == {t \in Tasks : list[t] = "ready"}

\* Between taskENTER_CRITICAL and taskEXIT_CRITICAL
Critical == \E t \in Tasks : at[t] \in {"block", "resume"}
\* PendSV is taken before the task goes on
Runs(t, place) == current = t /\ ~pendSV /\ at[t] = place

(***************************************************************************)
(* ulTaskGenericNotifyTake, its first critical section in two halves       *)
(***************************************************************************)
Check(t) ==
    /\ Runs(t, "run") /\ ~suspended
    /\ \E d \in Waits : wait' = [wait EXCEPT ![t] = d]
    /\ at' = [at EXCEPT ![t] = IF value[t] = None THEN "block" ELSE "take"]
    /\ UNCHANGED <<listVars, pending, suspended, pended, switchVars, noteVars, left>>

\* Mutant of Delayed: a time that wraps is put into the current list
DelayedHere(time) == "delayed"

\* prvAddCurrentTaskToDelayedList
Delayed(time) == IF time < tick THEN "overflow" ELSE "delayed"

Block(t) ==
    LET time == Ticks(tick + wait[t]) IN
    /\ current = t /\ at[t] = "block"
    /\ state' = [state EXCEPT ![t] = "WAITING"]
    /\ IF wait[t] > 0
       THEN /\ wake' = [wake EXCEPT ![t] = time]
            /\ list' = [list EXCEPT ![t] = Delayed(time)]
            /\ next' = IF list'[t] = "delayed" /\ time < next THEN time ELSE next
            /\ pendSV' = TRUE
       ELSE UNCHANGED <<list, wake, next, pendSV>>
    /\ left' = [left EXCEPT ![t] = wait[t]]
    /\ at' = [at EXCEPT ![t] = "take"] /\ wait' = [wait EXCEPT ![t] = 0]
    /\ UNCHANGED <<tick, pending, suspended, pended, yield, woken, current, value>>

Take(t) ==
    /\ Runs(t, "take")
    /\ value' = [value EXCEPT ![t] = None]
    /\ state' = [state EXCEPT ![t] = "NOT_WAITING"]
    /\ at' = [at EXCEPT ![t] = "run"] /\ wait' = [wait EXCEPT ![t] = 0]
    /\ left' = [left EXCEPT ![t] = 0]
    /\ UNCHANGED <<listVars, pending, suspended, pended, switchVars>>

(***************************************************************************)
(* xTaskGenericNotify and xTaskGenericNotifyFromISR                        *)
(***************************************************************************)
\* eSetValueWithOverwrite, eSetValueWithoutOverwrite
Mark(u, v, overwrite) ==
    /\ state' = [state EXCEPT ![u] = "RECEIVED"]
    /\ value' = [value EXCEPT ![u] = IF overwrite \/ state[u] # "RECEIVED" THEN v ELSE @]

\* Mutant of MakeReady: only a task in the current list is taken from it
MakeReadyCurrent(u) ==
    list' = [list EXCEPT ![u] = IF @ = "delayed" THEN "ready" ELSE @]

MakeReady(u) == list' = [list EXCEPT ![u] = "ready"]

\* Mutant of Preempts: low numbers are urgent, as those of interrupts are
PreemptsLow(u, p) == Priority[u] < p

Preempts(u, p) == Priority[u] > p

Notify(t, u, v, overwrite) ==
    /\ Runs(t, "run") /\ ~suspended
    /\ Mark(u, v, overwrite)
    /\ IF state[u] = "WAITING"
       THEN MakeReady(u) /\ pendSV' = Preempts(u, Priority[t])
       ELSE UNCHANGED <<list, pendSV>>
    /\ UNCHANGED <<tick, wake, next, pending, suspended, pended, yield, woken, current,
                   taskVars, left>>

\* app_thread_notify_generic asks for a switch with a flag it never resets
NotifyFromISR(u, v, overwrite) ==
    /\ Critical => ~Masked
    /\ Mark(u, v, overwrite)
    /\ LET higher == state[u] = "WAITING" /\ Preempts(u, PriorityOf(current)) IN
       /\ yield' = (yield \/ higher) /\ woken' = (woken \/ higher)
       /\ pendSV' = (pendSV \/ woken')
    /\ IF state[u] # "WAITING" THEN UNCHANGED <<list, pending>>
       ELSE IF suspended THEN pending' = pending \cup {u} /\ UNCHANGED list
       ELSE MakeReady(u) /\ UNCHANGED pending
    /\ UNCHANGED <<tick, wake, next, suspended, pended, current, taskVars, left>>

(***************************************************************************)
(* The tick                                                                *)
(***************************************************************************)
DelayedIn(l) == {t \in Tasks : l[t] = "delayed"}

\* prvResetNextTaskUnblockTime
Earliest(l) ==
    IF DelayedIn(l) = {} THEN MaxDelay
    ELSE CHOOSE w \in {wake[t] : t \in DelayedIn(l)} : \A t \in DelayedIn(l) : w <= wake[t]

\* Mutant of Due: a task wakes in the tick after its time
DueAfter(time, now) == time < now

Due(time, now) == time <= now

\* taskSWITCH_DELAYED_LISTS
Switched(k) ==
    LET l == [t \in Tasks |-> IF k.list[t] = "overflow" THEN "delayed"
                              ELSE IF k.list[t] = "delayed" THEN "overflow" ELSE "ready"]
    IN  [k EXCEPT !.list = l, !.next = Earliest(l)]

\* xTaskIncrementTick while the scheduler is not suspended; switch is whether
\* it asks for another task
Incremented(k0) ==
    LET now == Ticks(k0.tick + 1)
        k == IF now = 0 THEN Switched(k0) ELSE k0
        due == IF now >= k.next THEN {t \in DelayedIn(k.list) : Due(wake[t], now)} ELSE {}
        l == [t \in Tasks |-> IF t \in due THEN "ready" ELSE k.list[t]]
    IN  [tick |-> now, list |-> l,
         next |-> IF now >= k.next THEN Earliest(l) ELSE k.next,
         switch |-> \/ k0.switch
                    \/ Above(due, PriorityOf(current) - 1)
                    \/ \E t \in Tasks \ {current} :
                           l[t] = "ready" /\ Priority[t] = PriorityOf(current)]

Kept(switch) == [tick |-> tick, list |-> list, next |-> next, switch |-> switch]
Becomes(k) == tick' = k.tick /\ list' = k.list /\ next' = k.next

\* xPortSysTickHandler
SysTick ==
    /\ ~Critical
    /\ left' = [t \in Tasks |-> IF left[t] > 0 THEN left[t] - 1 ELSE 0]
    /\ IF suspended
       THEN /\ pended < MaxPended /\ pended' = pended + 1
            /\ UNCHANGED <<tick, list, next, pendSV>>
       ELSE \E k \in {Incremented(Kept(yield))} :
            Becomes(k) /\ pendSV' = (pendSV \/ k.switch) /\ UNCHANGED pended
    /\ UNCHANGED <<wake, pending, suspended, yield, woken, current, noteVars, taskVars>>

(***************************************************************************)
(* The suspended scheduler: pvPortMalloc and vPortFree                     *)
(***************************************************************************)
SuspendAll(t) ==
    /\ Runs(t, "run") /\ ~suspended /\ suspended' = TRUE
    /\ UNCHANGED <<listVars, pending, pended, switchVars, noteVars, taskVars, left>>

\* xTaskResumeAll: the pending tasks
ResumeAll(t) ==
    /\ Runs(t, "run") /\ suspended /\ suspended' = FALSE
    /\ list' = [u \in Tasks |-> IF u \in pending THEN "ready" ELSE list[u]]
    /\ next' = IF pending = {} THEN next ELSE Earliest(list')
    /\ yield' = (yield \/ Above(pending, Priority[t] - 1)) /\ pending' = {}
    /\ IF pended > 0
       THEN at' = [at EXCEPT ![t] = "resume"] /\ UNCHANGED pendSV
       ELSE pendSV' = yield' /\ UNCHANGED at
    /\ UNCHANGED <<tick, wake, pended, woken, current, noteVars, wait, left>>

\* and then, in the same critical section, the ticks that passed
Unwind(t) ==
    LET k == Incremented(Kept(yield)) IN
    /\ current = t /\ at[t] = "resume"
    /\ Becomes(k) /\ yield' = k.switch /\ pended' = pended - 1
    /\ IF pended > 1 THEN UNCHANGED <<at, pendSV>>
       ELSE at' = [at EXCEPT ![t] = "run"] /\ pendSV' = k.switch
    /\ UNCHANGED <<wake, pending, suspended, woken, current, noteVars, wait, left>>

\* xPortPendSVHandler, vTaskSwitchContext: one of the ready tasks of the
\* highest priority
SwitchContext ==
    /\ pendSV /\ pendSV' = FALSE /\ ~Critical
    /\ yield' = suspended
    /\ IF suspended THEN UNCHANGED current
       ELSE current' \in IF Ready = {} THEN {Idle}
                         ELSE {t \in Ready : ~Above(Ready, Priority[t])}
    /\ UNCHANGED <<listVars, pending, suspended, pended, woken, noteVars, taskVars, left>>

Init ==
    /\ tick = 0 /\ list = [t \in Tasks |-> "ready"] /\ wake = [t \in Tasks |-> 0]
    /\ next = MaxDelay /\ pending = {} /\ suspended = FALSE /\ pended = 0
    /\ yield = FALSE /\ pendSV = FALSE /\ woken = FALSE
    /\ current \in {t \in Tasks : ~Above(Tasks, Priority[t])}
    /\ state = [t \in Tasks |-> "NOT_WAITING"] /\ value = [t \in Tasks |-> None]
    /\ at = [t \in Tasks |-> "run"] /\ wait = [t \in Tasks |-> 0]
    /\ left = [t \in Tasks |-> 0]

Next ==
    \/ \E t \in Tasks :
        \/ Check(t) \/ Block(t) \/ Take(t)
        \/ SuspendAll(t) \/ ResumeAll(t) \/ Unwind(t)
        \/ \E u \in Tasks, v \in Values, overwrite \in BOOLEAN : Notify(t, u, v, overwrite)
    \/ \E u \in Tasks, v \in Values, overwrite \in BOOLEAN : NotifyFromISR(u, v, overwrite)
    \/ SysTick \/ SwitchContext

Spec == Init /\ [][Next]_vars

\* A critical section ends.  The tick and PendSV stay pending in the hardware
\* while they are masked, and interrupts leave the task that has suspended the
\* scheduler some time to resume it.
FairSpec ==
    /\ Spec /\ SF_vars(SysTick) /\ WF_vars(SwitchContext)
    /\ WF_vars(\E t \in Tasks : Block(t) \/ Unwind(t))
    /\ SF_vars(\E t \in Tasks : ResumeAll(t))

(***************************************************************************)
(* Properties                                                              *)
(***************************************************************************)
TypeOK ==
    /\ tick \in 0 .. Modulus - 1
    /\ list \in [Tasks -> {"ready", "delayed", "overflow"}]
    /\ wake \in [Tasks -> 0 .. Modulus - 1] /\ next \in 0 .. Modulus - 1
    /\ pending \subseteq Tasks /\ suspended \in BOOLEAN /\ pended \in 0 .. MaxPended
    /\ yield \in BOOLEAN /\ pendSV \in BOOLEAN /\ woken \in BOOLEAN
    /\ current \in Tasks \cup {Idle}
    /\ state \in [Tasks -> {"NOT_WAITING", "WAITING", "RECEIVED"}]
    /\ value \in [Tasks -> Values \cup {None}]
    /\ at \in [Tasks -> {"run", "block", "take", "resume"}]
    /\ wait \in [Tasks -> Waits \cup {0}] /\ left \in [Tasks -> Waits \cup 0 .. MaxDelay]

\* A task that was notified is ready, or will be when the scheduler resumes
NoLostWakeUp ==
    \A t \in Tasks : value[t] # None => list[t] = "ready" \/ t \in pending

\* The task of the highest priority runs, unless a switch is about to be made
HighestRuns ==
    ~suspended /\ ~pendSV /\ ~Critical =>
        /\ current # Idle => list[current] = "ready"
        /\ ~Above(Ready, PriorityOf(current))

\* tasks.c:203, "The delayed tasks list should be empty when the lists are
\* switched": the lists agree with the time that is left, across the wrap of
\* the tick count, and the next unblocking is not after any of them.
ListsMatchTime ==
    \A t \in Tasks : list[t] # "ready" =>
        /\ wake[t] = Ticks(tick + pended + left[t]) \/ (left[t] = 0 /\ pended > 0)
        /\ list[t] = "delayed" => wake[t] > tick /\ next <= wake[t]
        /\ list[t] = "overflow" => wake[t] <= tick

\* A sleep ends
EverySleepEnds == \A t \in Tasks : list[t] # "ready" ~> list[t] = "ready"

\* What app_thread_event_await relies on: a task sleeps until it is notified
\* or its time is up, no longer and no shorter.  A task whose time passes
\* while the scheduler is suspended is as good as awake: nobody else runs.
Asleep == [t \in Tasks |-> list[t] # "ready" /\ t \notin pending
                            /\ ~(pended > 0 /\ left[t] = 0)]
Waking == INSTANCE Wakeups WITH
    asleep <- Asleep, note <- value,
    left <- [t \in Tasks |-> IF Asleep[t] THEN left[t] ELSE 0]
WakesInTime == Waking!Spec
=============================================================================
