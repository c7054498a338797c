----------------------------- MODULE AppThread -----------------------------
(***************************************************************************)
(* The thread loop of src/src/core/thread.c: FreeRTOS tasks that dispatch  *)
(* events to the ticks of their actors, requeue deferred events, and sleep *)
(* until a notification or a software alarm.  Callers (other tasks and     *)
(* interrupt handlers) publish events, schedule ticks and report that a    *)
(* busy actor is ready again.                                              *)
(*                                                                         *)
(* Every line at which another task or an interrupt can get in between is  *)
(* a step of its own.  The kernel's calls are atomic, as FreeRTOS makes    *)
(* them with critical sections.  A C local that goes out of scope is reset *)
(* to its initial value.                                                   *)
(***************************************************************************)
EXTENDS Integers, Sequences, FiniteSets

CONSTANTS
    Threads,        \* app_threads_t: the tasks running app_thread_execute
    Actors,         \* app->actor[]
    TickIndexes,    \* members of actor_ticks_t
    Callers,        \* tasks and interrupt handlers that use the thread API
    Events,         \* the events callers publish, each of them once
    QueueSize,      \* [Threads -> Nat], 0 for a thread without a queue
    TickIndex,      \* [Threads -> TickIndexes], app_thread_get_tick_index
    CatchupThread,  \* [Threads -> Threads], app_thread_get_catchup_thread
    Listeners,      \* [Threads -> Seq(Actors)], app_thread_filter_actors
    Target,         \* [Events -> Threads], the thread an event is published to
    Consumer,       \* [Events -> Actors \cup {NoActor}], event->consumer
    Subscribed,     \* [Events -> SUBSET Actors], actor_event_is_subscribed
    Answers,        \* [Actors -> SUBSET Answer], what a tick callback may do
    OwnDelays,      \* [Actors -> SUBSET Nat], alarms a callback sets itself
    CallerDelays,   \* SUBSET Nat, alarms set by callers
    MaxSleep,       \* MAX_THREAD_SLEEP_TIME
    Horizon,        \* bound: the clock stops here
    MaxLag,         \* bound: clock ticks that pass while somebody is running
    MaxCalls,       \* bound: calls made by one caller
    LastCall,       \* bound: no call begins after this time
    MaxDeferred,    \* bound: the deferred_count that is followed
    NoActor, NoEvent, Start, Alarm, Wild, Reschedule, Catchup, NoThread

(***************************************************************************)
(* Status of an event (enum app_event_status); "OTHER" is a byte that is   *)
(* none of the enumerators, which only a stack word can hold.  A callback  *)
(* leaves the event alone, claims it, or is busy and answers with the      *)
(* busy_status of actor_event_accept_and_process_generic.                  *)
(***************************************************************************)
Status == {"WAITING", "RECEIVED", "ADDRESSED", "HANDLED", "DEFERRED"}
WildStatus == Status \cup {"OTHER"}
BusyStatus == {"ADDRESSED", "DEFERRED"}
Answer == {"leave", "HANDLED"} \cup BusyStatus

Ticks == Actors \X TickIndexes
Item == [ev : Events \cup {Start, Alarm, Wild}, status : WildStatus]
Fresh(e) == [ev |-> e, status |-> "WAITING"]
Never == Horizon + MaxSleep + 1     \* (uint32_t)-1: later than any time

\* The actors that have a tick for the thread
Listening(t) == {Listeners[t][i] : i \in DOMAIN Listeners[t]}

ASSUME ThreadsAssumption ==
    /\ QueueSize \in [Threads -> Nat]
    /\ TickIndex \in [Threads -> TickIndexes]
    /\ CatchupThread \in [Threads -> Threads]
    /\ Listeners \in [Threads -> Seq(Actors) \ {<<>>}]
    /\ NoThread \notin Threads

ASSUME ActorsAssumption ==
    /\ Consumer \in [Events -> Actors \cup {NoActor}]
    /\ NoActor \notin Actors
    /\ Target \in [Events -> Threads]
    /\ \A e \in Events : Consumer[e] \in Listening(Target[e]) \cup {NoActor}
    /\ Subscribed \in [Events -> SUBSET Actors]
    /\ Answers \in [Actors -> SUBSET Answer]
    \* The consumer that a claim writes into the event would only matter in a
    \* thread without a queue, which may be shown the event it holds again
    /\ \A t \in Threads : QueueSize[t] = 0 => \A a \in Listening(t) : "HANDLED" \notin Answers[a]

ASSUME EventsAssumption ==
    /\ Events \cap {NoEvent, Start, Alarm, Wild, Reschedule, Catchup} = {}
    /\ NoEvent # Reschedule /\ NoEvent # Catchup /\ Reschedule # Catchup
    /\ Start # Alarm /\ Start # Wild /\ Alarm # Wild

ASSUME TimeAssumption ==
    /\ MaxSleep \in Nat \ {0} /\ Horizon \in Nat
    /\ MaxLag \in Nat /\ MaxCalls \in Nat /\ LastCall \in Nat /\ MaxDeferred \in Nat
    /\ OwnDelays \in [Actors -> SUBSET Nat]
    /\ CallerDelays \subseteq Nat

VARIABLES
    queue,          \* thread->queue: the events waiting in it
    note,           \* the task's notification value, NoEvent when it is 0
    pc,             \* where the thread's loop stands
    hand,           \* the event being routed
    prev,           \* previous_event_status
    todo,           \* actors the event still has to be shown to
    deferred,       \* deferred_count, taken as signed: only > 0 and = matter
    got,            \* what ulTaskNotifyTake returned
    timeout,        \* timeout of the coming sleep
    deadline,       \* kernel tick at which the sleeping task is made ready
    current_time, next_time,
    tickTime,       \* tick->next_time
    tickCatchup,    \* tick->catchup
    caller,         \* what a caller still has to do in the call it is in
    calls,          \* number of calls a caller has made
    fate,           \* what has become of each event
    now,            \* xTaskGetTickCount()
    lag             \* clock ticks that passed while somebody was running

threadVars == <<pc, hand, prev, todo, deferred, got, timeout, deadline>>
timeVars == <<current_time, next_time>>
tickVars == <<tickTime, tickCatchup>>
callerVars == <<caller, calls>>
clockVars == <<now, lag>>
vars == <<queue, note, threadVars, timeVars, tickVars, callerVars, fate, clockVars>>

CallerState ==
    [at : {"idle", "poke", "notify"}, thread : Threads \cup {NoThread},
     value : Events \cup {NoEvent, Reschedule, Catchup}]
Idle == [at |-> "idle", thread |-> NoThread, value |-> NoEvent]

Larger(x, y) == IF x > y THEN x ELSE y
Smaller(x, y) == IF x < y THEN x ELSE y

(***************************************************************************)
(* Kernel primitives                                                       *)
(***************************************************************************)
\* Mutant of Notify: publishers do not overwrite a pending signal either
NotifyNeverOverwrites(t, value, overwrite) ==
    note' = [note EXCEPT ![t] = IF @ = NoEvent THEN value ELSE @]

\* xTaskNotify: without overwrite a pending value is kept
Notify(t, value, overwrite) ==
    note' = [note EXCEPT ![t] = IF overwrite \/ @ = NoEvent THEN value ELSE @]

\* eTaskGetState(thread->task) == eBlocked
IsBlocked(t) == pc[t] = "blocked" /\ note[t] = NoEvent /\ now < deadline[t]

\* Mutants: a queue takes one item too many; an item is sent to the front
HasRoomForOneMore(t) == Len(queue[t]) <= QueueSize[t]
SendToFront(t, item) == queue' = [queue EXCEPT ![t] = <<item>> \o @]

HasRoom(t) == Len(queue[t]) < QueueSize[t]
Send(t, item) == queue' = [queue EXCEPT ![t] = Append(@, item)]

(***************************************************************************)
(* Routing                                                                 *)
(***************************************************************************)
Route(t, e) ==
    IF e \in Events /\ Consumer[e] # NoActor THEN <<Consumer[e]>> ELSE Listeners[t]

\* The top of the loop: item is routed from its first actor on
Begin(t, item) ==
    /\ pc' = [pc EXCEPT ![t] = "dispatch"]
    /\ hand' = [hand EXCEPT ![t] = item]
    /\ prev' = [prev EXCEPT ![t] = item.status]
    /\ todo' = [todo EXCEPT ![t] = Route(t, item.ev)]

\* Mutant of MayNotify: an alarm whose time has passed is not recognised
MayNotifyOnTheDot(t, a) ==
    LET e == hand[t].ev IN
    CASE e = Start -> {TRUE}
      [] e = Alarm -> {tickTime[<<a, TickIndex[t]>>] = current_time[t]}
      [] e = Wild -> BOOLEAN
      [] OTHER -> {Consumer[e] = a \/ a \in Subscribed[e]}

\* app_thread_should_notify_actor.  The type of a wild event is an address:
\* any subscription mask may or may not match it.
MayNotify(t, a) ==
    LET e == hand[t].ev IN
    CASE e = Start -> {TRUE}
      [] e = Alarm -> {tickTime[<<a, TickIndex[t]>>] <= current_time[t]}
      [] e = Wild -> BOOLEAN
      [] OTHER -> {Consumer[e] = a \/ a \in Subscribed[e]}

\* Callbacks claim or defer published events, never the synthetic ones
MayAnswer(t, a) == IF hand[t].ev \in {Start, Alarm} THEN {"leave"} ELSE Answers[a]

Answered(status, answer) ==
    IF answer # "leave" THEN answer
    ELSE IF status = "WAITING" THEN "RECEIVED" ELSE status

\* app_thread_tick_schedule and app_thread_schedule up to the state check.
\* The alarm has to lie within the bound on time.
ScheduleTick(t, a, d) ==
    LET time == current_time[t] + d IN
    /\ time <= Horizon
    /\ tickTime' = [tickTime EXCEPT ![<<a, TickIndex[t]>>] = time]
    /\ next_time' = [next_time EXCEPT ![t] = Smaller(@, time)]

\* app_thread_event_dispatch after one actor: broadcast stops at a claimed
\* or addressed event
Continue(t, status) ==
    /\ hand' = [hand EXCEPT ![t].status = status]
    /\ todo' = [todo EXCEPT ![t] =
          IF \/ status \in {"HANDLED", "DEFERRED", "OTHER"}
             \/ hand[t].ev \in Events /\ Consumer[hand[t].ev] # NoActor
          THEN <<>> ELSE Tail(@)]

MarkBusy(t, a, busy) ==
    tickCatchup' = IF busy THEN [tickCatchup EXCEPT ![<<a, TickIndex[t]>>] = t]
                   ELSE tickCatchup

(***************************************************************************)
(* Steps of a thread                                                       *)
(***************************************************************************)
\* One tick callback is run, and may set an alarm for its own tick
Deliver(t) ==
    /\ pc[t] = "dispatch" /\ todo[t] # <<>>
    /\ LET a == Head(todo[t]) IN
       /\ TRUE \in MayNotify(t, a)
       /\ \E answer \in MayAnswer(t, a) :
             /\ Continue(t, Answered(hand[t].status, answer))
             /\ MarkBusy(t, a, answer \in BusyStatus)
       /\ \/ \E d \in OwnDelays[a] : ScheduleTick(t, a, d)
          \/ /\ tickTime' = IF hand[t].ev = Alarm
                            THEN [tickTime EXCEPT ![<<a, TickIndex[t]>>] = Never]
                            ELSE tickTime
             /\ UNCHANGED next_time
    /\ UNCHANGED <<queue, note, pc, prev, deferred, got, timeout, deadline,
                   current_time, callerVars, fate, clockVars>>

\* The actor is not notified.  The signal returned for it is uninitialized
\* memory, and may read as APP_SIGNAL_BUSY.
Skip(t) ==
    /\ pc[t] = "dispatch" /\ todo[t] # <<>>
    /\ FALSE \in MayNotify(t, Head(todo[t]))
    /\ Continue(t, hand[t].status)
    /\ \E busy \in BOOLEAN : MarkBusy(t, Head(todo[t]), busy)
    /\ UNCHANGED <<queue, note, pc, prev, deferred, got, timeout, deadline, timeVars,
                   tickTime, callerVars, fate, clockVars>>

\* The consumer of a wild event is a stack word: following it faults, and
\* the fault handler stops the program
Fault(t) ==
    /\ pc[t] = "dispatch" /\ hand[t].ev = Wild /\ todo[t] = Listeners[t]
    /\ pc' = [u \in Threads |-> "faulted"]
    /\ UNCHANGED <<queue, note, hand, prev, todo, deferred, got, timeout, deadline,
                   timeVars, tickVars, callerVars, fate, clockVars>>

Settle(t, outcome) ==
    fate' = IF hand[t].ev \in Events THEN [fate EXCEPT ![hand[t].ev] = outcome] ELSE fate

\* Mutant of CatchupQueue: a thread keeps its own deferred events
OwnQueue(t) == t

\* app_thread_get_catchup_queue, as the thread whose queue it is
CatchupQueue(t) == CatchupThread[t]

\* app_thread_event_requeue of an event some busy actor wants.  xQueueSend is
\* given the address of the parameter that points to the event, so that what
\* enters the queue is the stack around that pointer.
RequeueDeferred(t) ==
    LET target == CatchupQueue(t)
        status == IF target = t THEN "DEFERRED" ELSE "WAITING"
    IN
    /\ pc[t] = "dispatch" /\ todo[t] = <<>> /\ hand[t].status \in BusyStatus
    /\ deferred[t] < MaxDeferred
    /\ pc' = [pc EXCEPT ![t] = "shift"]
    /\ IF QueueSize[target] = 0
       THEN UNCHANGED <<queue, hand, deferred, fate>>
       ELSE /\ hand' = [hand EXCEPT ![t].status = status]
            /\ IF HasRoom(target)
               THEN /\ \E s \in WildStatus : Send(target, [ev |-> Wild, status |-> s])
                    /\ deferred' = [deferred EXCEPT ![t] =
                          IF status = "DEFERRED" /\ prev[t] # "DEFERRED" THEN @ + 1 ELSE @]
                    /\ UNCHANGED fate
               ELSE Settle(t, "dropped") /\ UNCHANGED <<queue, deferred>>
    /\ prev' = [prev EXCEPT ![t] = "WAITING"]
    /\ UNCHANGED <<note, todo, got, timeout, deadline, timeVars, tickVars,
                   callerVars, clockVars>>

\* app_thread_event_requeue of any other event
Finish(t) ==
    /\ pc[t] = "dispatch" /\ todo[t] = <<>> /\ hand[t].status \notin BusyStatus
    /\ deferred[t] > -MaxDeferred
    /\ pc' = [pc EXCEPT ![t] = "shift"]
    /\ deferred' = [deferred EXCEPT ![t] =
          IF hand[t].status = "HANDLED" /\ prev[t] = "DEFERRED" /\ QueueSize[t] > 0
          THEN @ - 1 ELSE @]
    /\ Settle(t, "settled")
    /\ prev' = [prev EXCEPT ![t] = "WAITING"]
    /\ UNCHANGED <<queue, note, hand, todo, got, timeout, deadline, timeVars, tickVars,
                   callerVars, clockVars>>

OnlyDeferredLeft(t) == deferred[t] > 0 /\ deferred[t] = Len(queue[t])

\* app_thread_event_queue_shift finds an event
Shift(t) ==
    /\ pc[t] = "shift" /\ ~OnlyDeferredLeft(t) /\ queue[t] # <<>>
    /\ Begin(t, Head(queue[t]))
    /\ queue' = [queue EXCEPT ![t] = Tail(@)]
    /\ UNCHANGED <<note, deferred, got, timeout, deadline, timeVars, tickVars,
                   callerVars, fate, clockVars>>

\* app_thread_event_queue_shift returns false: the thread will wait
NothingToShift(t) ==
    /\ pc[t] = "shift" /\ (OnlyDeferredLeft(t) \/ queue[t] = <<>>)
    /\ pc' = [pc EXCEPT ![t] = "await"]
    /\ UNCHANGED <<queue, note, hand, prev, todo, deferred, got, timeout, deadline,
                   timeVars, tickVars, callerVars, fate, clockVars>>

\* app_thread_event_await computes how long to sleep ...
Await(t) ==
    /\ pc[t] = "await"
    /\ pc' = [pc EXCEPT ![t] = "take"]
    /\ timeout' = [timeout EXCEPT ![t] = Larger(0, next_time[t] - current_time[t])]
    /\ UNCHANGED <<queue, note, hand, prev, todo, deferred, got, deadline, timeVars,
                   tickVars, callerVars, fate, clockVars>>

\* ... and blocks in ulTaskNotifyTake when nothing is pending
Block(t) ==
    /\ pc[t] = "take" /\ note[t] = NoEvent /\ timeout[t] > 0
    /\ pc' = [pc EXCEPT ![t] = "blocked"]
    /\ deadline' = [deadline EXCEPT ![t] = now + timeout[t]]
    /\ timeout' = [timeout EXCEPT ![t] = 0]
    /\ UNCHANGED <<queue, note, hand, prev, todo, deferred, got, timeVars, tickVars,
                   callerVars, fate, clockVars>>

\* ulTaskNotifyTake returns: at once, when notified, or when time is up
Take(t) ==
    /\ \/ pc[t] = "take" /\ (note[t] # NoEvent \/ timeout[t] = 0)
       \/ pc[t] = "blocked" /\ (note[t] # NoEvent \/ now >= deadline[t])
    /\ pc' = [pc EXCEPT ![t] = "woken"]
    /\ got' = [got EXCEPT ![t] = note[t]]
    /\ note' = [note EXCEPT ![t] = NoEvent]
    /\ timeout' = [timeout EXCEPT ![t] = 0]
    /\ deadline' = [deadline EXCEPT ![t] = 0]
    /\ UNCHANGED <<queue, hand, prev, todo, deferred, timeVars, tickVars, callerVars,
                   fate, clockVars>>

\* The notification that woke the thread has been dealt with
Forget(t) == got' = [got EXCEPT ![t] = NoEvent]

\* Mutant of ReadClock: every wake-up pushes the next one back
ReadClockAndPush(t) ==
    /\ Forget(t)
    /\ current_time' = [current_time EXCEPT ![t] = now]
    /\ next_time' = [next_time EXCEPT ![t] = @ + MaxSleep]

\* The end of app_thread_event_await
ReadClock(t) ==
    /\ Forget(t)
    /\ current_time' = [current_time EXCEPT ![t] = now]
    /\ next_time' = [next_time EXCEPT ![t] = IF @ <= now THEN now + MaxSleep ELSE @]

\* No notification: the thread was woken by its alarm
WakeByAlarm(t) ==
    /\ pc[t] = "woken" /\ got[t] = NoEvent
    /\ Begin(t, Fresh(Alarm)) /\ ReadClock(t)
    /\ UNCHANGED <<queue, note, deferred, timeout, deadline, tickVars, callerVars,
                   fate, clockVars>>

\* A notification without an event in the queue, or APP_SIGNAL_RESCHEDULE
SleepAgain(t) ==
    /\ pc[t] = "woken"
    /\ \/ got[t] = Reschedule
       \/ got[t] \in Events \cup {Catchup} /\ QueueSize[t] > 0 /\ queue[t] = <<>>
    /\ pc' = [pc EXCEPT ![t] = "await"]
    /\ Forget(t)
    /\ UNCHANGED <<queue, note, hand, prev, todo, deferred, timeout, deadline, timeVars,
                   tickVars, callerVars, fate, clockVars>>

\* Mutant of WakeByQueue: the loop shifts the queue again after waking up
WakeAndShiftAgain(t) ==
    /\ pc[t] = "woken" /\ got[t] \in Events \cup {Catchup} /\ queue[t] # <<>>
    /\ pc' = [pc EXCEPT ![t] = "shift"]
    /\ hand' = [hand EXCEPT ![t] = Head(queue[t])]
    /\ queue' = [queue EXCEPT ![t] = Tail(@)]
    /\ ReadClock(t)
    /\ UNCHANGED <<note, prev, todo, deferred, timeout, deadline, tickVars,
                   callerVars, fate, clockVars>>

\* A publisher's or a catching-up actor's notification: the head of the queue
WakeByQueue(t) ==
    /\ pc[t] = "woken" /\ got[t] \in Events \cup {Catchup} /\ queue[t] # <<>>
    /\ Begin(t, Head(queue[t])) /\ ReadClock(t)
    /\ queue' = [queue EXCEPT ![t] = Tail(@)]
    /\ UNCHANGED <<note, deferred, timeout, deadline, tickVars, callerVars, fate,
                   clockVars>>

\* A thread without a queue copies the event the notification points to; a
\* signal leaves it with the event it already holds
WakeBySlot(t) ==
    /\ pc[t] = "woken" /\ got[t] \in Events \cup {Catchup} /\ QueueSize[t] = 0
    /\ Begin(t, IF got[t] = Catchup THEN hand[t] ELSE Fresh(got[t])) /\ ReadClock(t)
    /\ UNCHANGED <<queue, note, deferred, timeout, deadline, tickVars, callerVars,
                   fate, clockVars>>

ThreadStep(t) ==
    \/ Deliver(t) \/ Skip(t) \/ Fault(t) \/ RequeueDeferred(t) \/ Finish(t)
    \/ Shift(t) \/ NothingToShift(t) \/ Await(t) \/ Block(t) \/ Take(t)
    \/ WakeByAlarm(t) \/ SleepAgain(t) \/ WakeByQueue(t) \/ WakeBySlot(t)

(***************************************************************************)
(* Steps of a caller                                                       *)
(***************************************************************************)
\* A fault stops everything
Running == \A t \in Threads : pc[t] # "faulted"

\* A call begins; its remaining part is done in later steps
Enter(c, rest) ==
    /\ Running /\ caller[c] = Idle /\ calls[c] < MaxCalls /\ now <= LastCall
    /\ caller' = [caller EXCEPT ![c] = rest]
    /\ calls' = [calls EXCEPT ![c] = @ + 1]

Pending(t, value) == [at |-> "notify", thread |-> t, value |-> value]

\* app_thread_publish_generic up to the notification
Publish(c, e) ==
    LET t == Target[e] IN
    /\ fate[e] = "unpublished"
    /\ IF QueueSize[t] = 0 \/ HasRoom(t)
       THEN /\ Enter(c, Pending(t, e))
            /\ IF QueueSize[t] = 0 THEN UNCHANGED queue ELSE Send(t, Fresh(e))
            /\ fate' = [fate EXCEPT ![e] = "accepted"]
       ELSE /\ Enter(c, Idle)
            /\ fate' = [fate EXCEPT ![e] = "refused"]
            /\ UNCHANGED queue
    /\ UNCHANGED <<note, threadVars, timeVars, tickVars, clockVars>>

\* app_thread_tick_schedule up to the check of the thread's state
Schedule(c, t, a, d) ==
    /\ a \in Listening(t)
    /\ Enter(c, [at |-> "poke", thread |-> t, value |-> Reschedule])
    /\ ScheduleTick(t, a, d)
    /\ UNCHANGED <<queue, note, threadVars, current_time, tickCatchup, fate, clockVars>>

\* app_thread_schedule: only a sleeping thread is told to reschedule
Poke(c) ==
    /\ Running /\ caller[c].at = "poke"
    /\ caller' = [caller EXCEPT ![c] =
          IF IsBlocked(@.thread) THEN Pending(@.thread, Reschedule) ELSE Idle]
    /\ UNCHANGED <<queue, note, threadVars, timeVars, tickVars, calls, fate, clockVars>>

\* actor_tick_catchup: a busy actor is done
TickCatchup(c, tick) ==
    /\ tickCatchup[tick] # NoThread
    /\ Enter(c, Pending(CatchupThread[tickCatchup[tick]], Catchup))
    /\ tickCatchup' = [tickCatchup EXCEPT ![tick] = NoThread]
    /\ UNCHANGED <<queue, note, threadVars, timeVars, tickTime, fate, clockVars>>

\* The notification that ends a call: publishers overwrite, signals do not
SendNote(c) ==
    /\ Running /\ caller[c].at = "notify"
    /\ Notify(caller[c].thread, caller[c].value, caller[c].value \in Events)
    /\ caller' = [caller EXCEPT ![c] = Idle]
    /\ UNCHANGED <<queue, threadVars, timeVars, tickVars, calls, fate, clockVars>>

CallerStep(c) ==
    \/ \E e \in Events : Publish(c, e)
    \/ \E t \in Threads, d \in CallerDelays, a \in Actors : Schedule(c, t, a, d)
    \/ Poke(c)
    \/ \E tick \in Ticks : TickCatchup(c, tick)
    \/ SendNote(c)

(***************************************************************************)
(* Time: the kernel tick.  Nobody is held up while everybody sleeps; while *)
(* somebody runs, at most MaxLag ticks pass in a behaviour.                *)
(***************************************************************************)
Quiet == /\ \A t \in Threads : IsBlocked(t)
         /\ \A c \in Callers : caller[c] = Idle

Elapse ==
    /\ Running /\ now < Horizon
    /\ now' = now + 1
    /\ \/ Quiet /\ UNCHANGED lag
       \/ ~Quiet /\ lag < MaxLag /\ lag' = lag + 1
    /\ UNCHANGED <<queue, note, threadVars, timeVars, tickVars, callerVars, fate>>

(***************************************************************************)
(* app_thread_execute starts with a synthetic event of its own             *)
(***************************************************************************)
Init ==
    /\ queue = [t \in Threads |-> <<>>]
    /\ note = [t \in Threads |-> NoEvent]
    /\ pc = [t \in Threads |-> "dispatch"]
    /\ hand = [t \in Threads |-> Fresh(Start)]
    /\ prev = [t \in Threads |-> "WAITING"]
    /\ todo = Listeners
    /\ deferred = [t \in Threads |-> 0]
    /\ got = [t \in Threads |-> NoEvent]
    /\ timeout = [t \in Threads |-> 0]
    /\ deadline = [t \in Threads |-> 0]
    /\ current_time = [t \in Threads |-> 0]
    /\ next_time = [t \in Threads |-> MaxSleep]
    /\ tickTime = [tick \in Ticks |-> Never]
    /\ tickCatchup = [tick \in Ticks |-> NoThread]
    /\ caller = [c \in Callers |-> Idle]
    /\ calls = [c \in Callers |-> 0]
    /\ fate = [e \in Events |-> "unpublished"]
    /\ now = 0
    /\ lag = 0

Next ==
    \/ \E t \in Threads : ThreadStep(t)
    \/ \E c \in Callers : CallerStep(c)
    \/ Elapse

Spec == Init /\ [][Next]_vars

(***************************************************************************)
(* A thread that can run is run: the threads that share a priority are     *)
(* time-sliced, and the others get the processor once those above them     *)
(* sleep.  A caller ends the call it is in.  The clock ticks.              *)
(***************************************************************************)
Fairness ==
    /\ \A t \in Threads : WF_vars(ThreadStep(t))
    /\ \A c \in Callers : WF_vars(Poke(c) \/ SendNote(c))
    /\ WF_vars(Elapse)

FairSpec == Spec /\ Fairness

(***************************************************************************)
(* Properties                                                              *)
(***************************************************************************)
TypeOK ==
    /\ queue \in [Threads -> Seq(Item)]
    /\ note \in [Threads -> Events \cup {NoEvent, Reschedule, Catchup}]
    /\ pc \in [Threads -> {"dispatch", "shift", "await", "take", "blocked", "woken", "faulted"}]
    /\ hand \in [Threads -> Item]
    /\ prev \in [Threads -> WildStatus]
    /\ todo \in [Threads -> Seq(Actors)]
    /\ deferred \in [Threads -> Int]
    /\ got \in [Threads -> Events \cup {NoEvent, Reschedule, Catchup}]
    /\ timeout \in [Threads -> Nat] /\ deadline \in [Threads -> Nat]
    /\ current_time \in [Threads -> Nat] /\ next_time \in [Threads -> Nat]
    /\ tickTime \in [Ticks -> Nat]
    /\ tickCatchup \in [Ticks -> Threads \cup {NoThread}]
    /\ caller \in [Callers -> CallerState] /\ calls \in [Callers -> Nat]
    /\ fate \in [Events -> {"unpublished", "accepted", "refused", "settled", "dropped"}]
    /\ now \in Nat /\ lag \in Nat
    /\ \A t \in Threads : Len(queue[t]) <= QueueSize[t]

Deferring == \E a \in Actors : Answers[a] \cap BusyStatus # {}

\* No deferred event is ever put into the queue of t: it is the input thread,
\* which hands its own to the catchup thread, or no actor defers
Clean(t) == QueueSize[t] > 0 /\ (Deferring => \A u \in Threads : CatchupThread[u] # t)

\* Some caller has queued an event for t and is about to notify t
Announcing(t) ==
    \E c \in Callers : caller[c] \in {Pending(t, e) : e \in Events}

\* A thread never sleeps over a published event: while events wait in its
\* queue and it is blocked, it has a notification pending or a publisher is
\* about to send one.  The publisher's two calls, the kernel's overwriting
\* and the drain loop of the thread all have to agree for this.
NoStrandedEvent ==
    \A t \in Threads :
        Clean(t) /\ pc[t] = "blocked" /\ queue[t] # <<>> => note[t] # NoEvent \/ Announcing(t)

\* Sleeping is bounded: whatever is scheduled, by whom, and however late the
\* thread's idea of the current time, the thread wakes up within
\* MAX_THREAD_SLEEP_TIME of now.  Alarms that the thread has lost track of
\* are found again by this wake-up only.
SleepBounded ==
    \A t \in Threads : pc[t] = "blocked" => deadline[t] <= now + MaxSleep

(***************************************************************************)
(* What makes the two properties above inductive                           *)
(***************************************************************************)
Asleep(t) ==
    \/ pc[t] \in {"await", "take", "blocked"}
    \/ pc[t] = "woken" /\ got[t] = Reschedule

\* Only an actor that defers makes an event deferred
DeferInv ==
    \A t \in Threads :
        /\ hand[t].status \in BusyStatus => Deferring
        /\ \A i \in DOMAIN queue[t] : queue[t][i].status \in BusyStatus => Deferring

\* A clean thread never counts a deferred event, and from the moment its
\* queue was found empty an event in it comes with a publisher's
\* notification, or with a publisher that has yet to send it
NothingDeferred(t) ==
    /\ deferred[t] = 0 /\ prev[t] = "WAITING"
    /\ \A i \in DOMAIN queue[t] : queue[t][i].status = "WAITING"

Told(t) == Asleep(t) /\ queue[t] # <<>> => note[t] \in Events \/ Announcing(t)

CleanInv == \A t \in Threads : Clean(t) => NothingDeferred(t) /\ Told(t)

\* A thread's next alarm is at most MAX_THREAD_SLEEP_TIME away from the time
\* the thread last read the clock
TimeInv ==
    /\ \A t \in Threads :
        /\ current_time[t] <= now
        /\ next_time[t] <= current_time[t] + MaxSleep
        /\ timeout[t] <= MaxSleep
    /\ SleepBounded

IInv == TypeOK /\ DeferInv /\ CleanInv /\ TimeInv

Queued(e) == \E t \in Threads : \E i \in DOMAIN queue[t] : queue[t][i].ev = e
InHand(e) == \E t \in Threads : pc[t] = "dispatch" /\ hand[t].ev = e

\* An event that a publisher was told is accepted is not lost: until it is
\* settled it waits in a queue or is being routed.
NoEventLost ==
    \A e \in Events :
        fate[e] = "accepted" /\ QueueSize[Target[e]] > 0 => Queued(e) \/ InHand(e)

(***************************************************************************)
(* What the threads promise to publishers                                  *)
(***************************************************************************)
Names(q) == [i \in DOMAIN q |-> q[i].ev]

Buffered == [t \in Threads |-> Names(queue[t])]
Serving ==
    [t \in Threads |->
        IF pc[t] = "dispatch" /\ hand[t].ev \in Events THEN hand[t].ev ELSE NoEvent]

Bus == INSTANCE EventBus WITH
    Capacity <- QueueSize, buffer <- Buffered, serving <- Serving, outcome <- fate

\* The threads implement bounded first-in first-out channels: a publisher is
\* refused only when the queue is full, and the events of a thread are served
\* in the order in which they were accepted, one at a time.
ImplementsBus == Bus!Spec

\* Every accepted event is settled in the end, whatever other notifications
\* its publisher's meets on the way to the thread
SettledInTheEnd == \A e \in Events : fate[e] = "accepted" ~> fate[e] = "settled"

\* An alarm that has been set goes off, once callers have nothing to say
AlarmGoesOff ==
    \A tick \in Ticks : tickTime[tick] # Never ~> tickTime[tick] = Never
=============================================================================
