-------------------------- MODULE AppThread_proofs --------------------------
(***************************************************************************)
(* Proofs about the thread loop, for any threads, queue sizes, actors,     *)
(* callers and bounds: the type invariant, that a thread never sleeps over *)
(* a published event, that no sleep exceeds MAX_THREAD_SLEEP_TIME, that no *)
(* event is lost, and that the threads implement EventBus.                 *)
(***************************************************************************)
EXTENDS AppThread, SequenceTheorems, TLAPS

LEMMA InitType == Init => TypeOK
  BY ThreadsAssumption, ActorsAssumption, TimeAssumption
  DEF Init, TypeOK, Item, Fresh, Ticks, CallerState, Idle, WildStatus, Status, Never

\* The first actor of a route is an actor, and what is left is a route
LEMMA RouteType ==
  ASSUME NEW t \in Threads, NEW e
  PROVE  Route(t, e) \in Seq(Actors)
  BY ThreadsAssumption, ActorsAssumption DEF Route, Listening

LEMMA BeginType ==
  ASSUME TypeOK, NEW t \in Threads, NEW item \in Item, Begin(t, item)
  PROVE  /\ pc' \in [Threads ->
                      {"dispatch", "shift", "await", "take", "blocked", "woken", "faulted"}]
         /\ hand' \in [Threads -> Item]
         /\ prev' \in [Threads -> WildStatus]
         /\ todo' \in [Threads -> Seq(Actors)]
  BY RouteType DEF TypeOK, Begin, Item

LEMMA FreshType ==
  ASSUME NEW e \in Events \cup {Start, Alarm, Wild}
  PROVE  Fresh(e) \in Item
  BY DEF Fresh, Item, WildStatus, Status

LEMMA ContinueType ==
  ASSUME TypeOK, NEW t \in Threads, NEW s \in WildStatus, Continue(t, s), todo[t] # <<>>
  PROVE  hand' \in [Threads -> Item] /\ todo' \in [Threads -> Seq(Actors)]
<1>1. hand[t] \in Item /\ todo[t] \in Seq(Actors)
  BY DEF TypeOK
<1>2. [hand[t] EXCEPT !.status = s] \in Item
  BY <1>1 DEF Item
<1>3. hand' = [hand EXCEPT ![t] = [hand[t] EXCEPT !.status = s]]
  BY DEF Continue
<1>4. hand' \in [Threads -> Item]
  BY <1>2, <1>3 DEF TypeOK
<1>5. <<>> \in Seq(Actors) /\ Tail(todo[t]) \in Seq(Actors)
  BY <1>1
<1>6. todo' \in [Threads -> Seq(Actors)]
  BY <1>5 DEF TypeOK, Continue
<1> QED
  BY <1>4, <1>6

LEMMA AnswerType ==
  ASSUME NEW t \in Threads, NEW a \in Actors, NEW answer \in MayAnswer(t, a),
         NEW s \in WildStatus
  PROVE  answer \in Answer /\ Answered(s, answer) \in WildStatus
  BY ActorsAssumption DEF MayAnswer, Answer, Answered, WildStatus, Status, BusyStatus

LEMMA ScheduleTickType ==
  ASSUME TypeOK, NEW t \in Threads, NEW a, NEW d \in Nat, ScheduleTick(t, a, d)
  PROVE  tickTime' \in [Ticks -> Nat] /\ next_time' \in [Threads -> Nat]
<1> DEFINE time == current_time[t] + d
<1>1. time \in Nat /\ next_time[t] \in Nat
  BY DEF TypeOK
<1>2. Smaller(next_time[t], time) \in Nat
  BY <1>1 DEF Smaller
<1>3. next_time' = [next_time EXCEPT ![t] = Smaller(next_time[t], time)]
  BY DEF ScheduleTick
<1>4. tickTime' = [tickTime EXCEPT ![<<a, TickIndex[t]>>] = time]
  BY DEF ScheduleTick
<1> QED
  BY <1>1, <1>2, <1>3, <1>4 DEF TypeOK

LEMMA DeliverType ==
  ASSUME TypeOK, NEW t \in Threads, Deliver(t)
  PROVE  TypeOK'
<1> DEFINE a == Head(todo[t])
<1>1. todo[t] \in Seq(Actors) /\ todo[t] # <<>> /\ a \in Actors
  BY DEF TypeOK, Deliver
<1>2. hand[t].status \in WildStatus
  BY DEF TypeOK, Item
<1>3. PICK answer \in MayAnswer(t, a) :
        /\ Continue(t, Answered(hand[t].status, answer))
        /\ MarkBusy(t, a, answer \in BusyStatus)
  BY DEF Deliver
<1>4. hand' \in [Threads -> Item] /\ todo' \in [Threads -> Seq(Actors)]
  BY <1>1, <1>2, <1>3, AnswerType, ContinueType
<1>5. tickCatchup' \in [Ticks -> Threads \cup {NoThread}]
  BY <1>3 DEF TypeOK, MarkBusy
<1>6. tickTime' \in [Ticks -> Nat] /\ next_time' \in [Threads -> Nat]
  <2>1. CASE \E d \in OwnDelays[a] : ScheduleTick(t, a, d)
    BY <2>1, <1>1, ScheduleTickType, TimeAssumption
  <2>2. CASE /\ tickTime' = IF hand[t].ev = Alarm
                            THEN [tickTime EXCEPT ![<<a, TickIndex[t]>>] = Never]
                            ELSE tickTime
             /\ UNCHANGED next_time
    <3>1. Never \in Nat
      BY TimeAssumption DEF Never
    <3> QED
      BY <3>1, <2>2 DEF TypeOK
  <2> QED
    BY <2>1, <2>2 DEF Deliver
<1>7. UNCHANGED <<queue, note, pc, prev, deferred, got, timeout, deadline,
                  current_time, caller, calls, fate, now, lag>>
  BY DEF Deliver, callerVars, clockVars
<1> QED
  BY <1>4, <1>5, <1>6, <1>7 DEF TypeOK

LEMMA SkipType ==
  ASSUME TypeOK, NEW t \in Threads, Skip(t)
  PROVE  TypeOK'
<1>1. hand' \in [Threads -> Item] /\ todo' \in [Threads -> Seq(Actors)]
  BY ContinueType DEF TypeOK, Skip, Item
<1>2. tickCatchup' \in [Ticks -> Threads \cup {NoThread}]
  BY DEF TypeOK, MarkBusy, Skip
<1>3. UNCHANGED <<queue, note, pc, prev, deferred, got, timeout, deadline, current_time,
                  next_time, tickTime, caller, calls, fate, now, lag>>
  BY DEF Skip, timeVars, callerVars, clockVars
<1> QED
  BY <1>1, <1>2, <1>3 DEF TypeOK

\* Sending to a queue with room keeps the bound on its length
LEMMA SendType ==
  ASSUME TypeOK, NEW t \in Threads, NEW item \in Item, HasRoom(t), Send(t, item)
  PROVE  /\ queue' \in [Threads -> Seq(Item)]
         /\ \A u \in Threads : Len(queue'[u]) <= QueueSize[u]
<1>1. queue[t] \in Seq(Item) /\ QueueSize[t] \in Nat
  BY ThreadsAssumption DEF TypeOK
<1>2. Append(queue[t], item) \in Seq(Item)
  BY <1>1
<1>3. Len(Append(queue[t], item)) = Len(queue[t]) + 1 /\ Len(queue[t]) < QueueSize[t]
  BY <1>1 DEF HasRoom
<1>4. Len(Append(queue[t], item)) <= QueueSize[t]
  BY <1>1, <1>3
<1>5. queue' = [queue EXCEPT ![t] = Append(queue[t], item)]
  BY DEF Send
<1> QED
  BY <1>2, <1>4, <1>5 DEF TypeOK

\* So does taking the head
LEMMA ReceiveType ==
  ASSUME TypeOK, NEW t \in Threads, queue[t] # <<>>,
         queue' = [queue EXCEPT ![t] = Tail(@)]
  PROVE  /\ Head(queue[t]) \in Item
         /\ queue' \in [Threads -> Seq(Item)]
         /\ \A u \in Threads : Len(queue'[u]) <= QueueSize[u]
<1>1. queue[t] \in Seq(Item) /\ QueueSize[t] \in Nat /\ Len(queue[t]) <= QueueSize[t]
  BY ThreadsAssumption DEF TypeOK
<1>2. Head(queue[t]) \in Item /\ Tail(queue[t]) \in Seq(Item)
  BY <1>1
<1>3. Len(Tail(queue[t])) = Len(queue[t]) - 1 /\ Len(queue[t]) \in Nat
  BY <1>1
<1>4. Len(Tail(queue[t])) <= QueueSize[t]
  BY <1>1, <1>3
<1> QED
  BY <1>2, <1>4 DEF TypeOK

LEMMA SettleType ==
  ASSUME TypeOK, NEW t \in Threads, NEW outcome \in {"settled", "dropped"},
         Settle(t, outcome)
  PROVE  fate' \in [Events -> {"unpublished", "accepted", "refused", "settled", "dropped"}]
  BY DEF TypeOK, Settle

LEMMA RequeueDeferredType ==
  ASSUME TypeOK, NEW t \in Threads, RequeueDeferred(t)
  PROVE  TypeOK'
<1> DEFINE target == CatchupThread[t]
           status == IF target = t THEN "DEFERRED" ELSE "WAITING"
<1>1. target \in Threads /\ status \in WildStatus /\ "WAITING" \in WildStatus
  BY ThreadsAssumption DEF WildStatus, Status
<1>2. /\ pc' = [pc EXCEPT ![t] = "shift"]
      /\ prev' = [prev EXCEPT ![t] = "WAITING"]
      /\ UNCHANGED <<note, todo, got, timeout, deadline, current_time, next_time,
                     tickTime, tickCatchup, caller, calls, now, lag>>
  BY DEF RequeueDeferred, CatchupQueue, timeVars, tickVars, callerVars, clockVars
<1>3. CASE QueueSize[target] = 0
  <2>1. UNCHANGED <<queue, hand, deferred, fate>>
    BY <1>3 DEF RequeueDeferred, CatchupQueue
  <2> QED
    BY <1>1, <1>2, <2>1 DEF TypeOK
<1>4. CASE QueueSize[target] # 0
  <2>1. hand' = [hand EXCEPT ![t] = [hand[t] EXCEPT !.status = status]]
    BY <1>4 DEF RequeueDeferred, CatchupQueue
  <2>2. hand' \in [Threads -> Item]
    <3>1. [hand[t] EXCEPT !.status = status] \in Item
      BY <1>1 DEF TypeOK, Item
    <3> QED
      BY <3>1, <2>1 DEF TypeOK
  <2>3. CASE HasRoom(target)
    <3>1. PICK s \in WildStatus : Send(target, [ev |-> Wild, status |-> s])
      BY <1>4, <2>3 DEF RequeueDeferred, CatchupQueue
    <3>2. [ev |-> Wild, status |-> s] \in Item
      BY DEF Item
    <3>3. /\ queue' \in [Threads -> Seq(Item)]
          /\ \A u \in Threads : Len(queue'[u]) <= QueueSize[u]
      BY <1>1, <2>3, <3>1, <3>2, SendType
    <3>4. UNCHANGED fate
      BY <1>4, <2>3 DEF RequeueDeferred, CatchupQueue
    <3>5. deferred' \in [Threads -> Int]
      BY <1>4, <2>3 DEF RequeueDeferred, CatchupQueue, TypeOK
    <3> QED
      BY <1>1, <1>2, <2>2, <3>3, <3>4, <3>5 DEF TypeOK
  <2>4. CASE ~HasRoom(target)
    <3>1. Settle(t, "dropped") /\ UNCHANGED <<queue, deferred>>
      BY <1>4, <2>4 DEF RequeueDeferred, CatchupQueue
    <3> QED
      BY <1>1, <1>2, <2>2, <3>1, SettleType DEF TypeOK
  <2> QED
    BY <2>3, <2>4
<1> QED
  BY <1>3, <1>4

LEMMA FinishType ==
  ASSUME TypeOK, NEW t \in Threads, Finish(t)
  PROVE  TypeOK'
<1>1. /\ pc' = [pc EXCEPT ![t] = "shift"]
      /\ prev' = [prev EXCEPT ![t] = "WAITING"]
      /\ UNCHANGED <<queue, note, hand, todo, got, timeout, deadline, current_time,
                     next_time, tickTime, tickCatchup, caller, calls, now, lag>>
  BY DEF Finish, timeVars, tickVars, callerVars, clockVars
<1>2. deferred' \in [Threads -> Int]
  BY DEF Finish, TypeOK
<1>3. fate' \in [Events -> {"unpublished", "accepted", "refused", "settled", "dropped"}]
  BY SettleType DEF Finish
<1> QED
  BY <1>1, <1>2, <1>3 DEF TypeOK, WildStatus, Status

LEMMA ReadClockType ==
  ASSUME TypeOK, NEW t \in Threads, ReadClock(t)
  PROVE  /\ got' \in [Threads -> Events \cup {NoEvent, Reschedule, Catchup}]
         /\ current_time' \in [Threads -> Nat] /\ next_time' \in [Threads -> Nat]
  BY TimeAssumption DEF TypeOK, ReadClock, Forget

\* Steps that only move the thread along: no new event comes into hand
LEMMA MoveType ==
  ASSUME TypeOK, NEW t \in Threads,
         Fault(t) \/ NothingToShift(t) \/ Await(t) \/ Block(t) \/ Take(t) \/ SleepAgain(t)
  PROVE  TypeOK'
<1>1. CASE Fault(t)
  BY <1>1 DEF TypeOK, Fault, timeVars, tickVars, callerVars, clockVars
<1>2. CASE NothingToShift(t)
  BY <1>2 DEF TypeOK, NothingToShift, timeVars, tickVars, callerVars, clockVars
<1>3. CASE Await(t)
  <2>1. Larger(0, next_time[t] - current_time[t]) \in Nat
    BY DEF TypeOK, Larger
  <2>2. timeout' \in [Threads -> Nat]
    BY <1>3, <2>1 DEF TypeOK, Await
  <2> QED
    BY <1>3, <2>2 DEF TypeOK, Await, timeVars, tickVars, callerVars, clockVars
<1>4. CASE Block(t)
  BY <1>4 DEF TypeOK, Block, timeVars, tickVars, callerVars, clockVars
<1>5. CASE Take(t)
  BY <1>5 DEF TypeOK, Take, timeVars, tickVars, callerVars, clockVars
<1>6. CASE SleepAgain(t)
  BY <1>6 DEF TypeOK, SleepAgain, Forget, timeVars, tickVars, callerVars, clockVars
<1> QED
  BY <1>1, <1>2, <1>3, <1>4, <1>5, <1>6

\* Steps that bring an event into hand
LEMMA FetchType ==
  ASSUME TypeOK, NEW t \in Threads,
         Shift(t) \/ WakeByAlarm(t) \/ WakeByQueue(t) \/ WakeBySlot(t)
  PROVE  TypeOK'
<1>1. CASE Shift(t)
  <2>1. /\ Head(queue[t]) \in Item /\ queue' \in [Threads -> Seq(Item)]
        /\ \A u \in Threads : Len(queue'[u]) <= QueueSize[u]
    BY <1>1, ReceiveType DEF Shift
  <2>2. UNCHANGED <<note, deferred, got, timeout, deadline, current_time, next_time,
                    tickTime, tickCatchup, caller, calls, fate, now, lag>>
    BY <1>1 DEF Shift, timeVars, tickVars, callerVars, clockVars
  <2>3. Begin(t, Head(queue[t]))
    BY <1>1 DEF Shift
  <2> QED
    BY <2>1, <2>2, <2>3, BeginType DEF TypeOK
<1>2. CASE WakeByAlarm(t)
  <2>1. Begin(t, Fresh(Alarm)) /\ ReadClock(t)
    BY <1>2 DEF WakeByAlarm
  <2>2. UNCHANGED <<queue, note, deferred, timeout, deadline, tickTime, tickCatchup,
                    caller, calls, fate, now, lag>>
    BY <1>2 DEF WakeByAlarm, tickVars, callerVars, clockVars
  <2> QED
    BY <2>1, <2>2, FreshType, BeginType, ReadClockType DEF TypeOK
<1>3. CASE WakeByQueue(t)
  <2>1. /\ Head(queue[t]) \in Item /\ queue' \in [Threads -> Seq(Item)]
        /\ \A u \in Threads : Len(queue'[u]) <= QueueSize[u]
    BY <1>3, ReceiveType DEF WakeByQueue
  <2>2. Begin(t, Head(queue[t])) /\ ReadClock(t)
    BY <1>3 DEF WakeByQueue
  <2>3. UNCHANGED <<note, deferred, timeout, deadline, tickTime, tickCatchup, caller,
                    calls, fate, now, lag>>
    BY <1>3 DEF WakeByQueue, tickVars, callerVars, clockVars
  <2> QED
    BY <2>1, <2>2, <2>3, BeginType, ReadClockType DEF TypeOK
<1>4. CASE WakeBySlot(t)
  <2> DEFINE item == IF got[t] = Catchup THEN hand[t] ELSE Fresh(got[t])
  <2>1. Begin(t, item) /\ ReadClock(t)
    BY <1>4 DEF WakeBySlot
  <2>2. item \in Item
    BY <1>4, FreshType DEF TypeOK, WakeBySlot
  <2>3. UNCHANGED <<queue, note, deferred, timeout, deadline, tickTime, tickCatchup,
                    caller, calls, fate, now, lag>>
    BY <1>4 DEF WakeBySlot, tickVars, callerVars, clockVars
  <2> QED
    BY <2>1, <2>2, <2>3, BeginType, ReadClockType DEF TypeOK
<1> QED
  BY <1>1, <1>2, <1>3, <1>4

LEMMA EnterType ==
  ASSUME TypeOK, NEW c \in Callers, NEW rest \in CallerState, Enter(c, rest)
  PROVE  caller' \in [Callers -> CallerState] /\ calls' \in [Callers -> Nat]
  BY DEF TypeOK, Enter

LEMMA CallerType ==
  ASSUME TypeOK, NEW c \in Callers, CallerStep(c)
  PROVE  TypeOK'
<1>1. ASSUME NEW e \in Events, Publish(c, e)
      PROVE  TypeOK'
  <2> DEFINE t == Target[e]
  <2>1. t \in Threads /\ QueueSize[t] \in Nat
    BY ThreadsAssumption, ActorsAssumption
  <2>2. Pending(t, e) \in CallerState /\ Idle \in CallerState
    BY <2>1 DEF Pending, Idle, CallerState
  <2>3. caller' \in [Callers -> CallerState] /\ calls' \in [Callers -> Nat]
    BY <1>1, <2>2, EnterType DEF Publish
  <2>4. fate' \in [Events -> {"unpublished", "accepted", "refused", "settled", "dropped"}]
    BY <1>1 DEF Publish, TypeOK
  <2>5. /\ queue' \in [Threads -> Seq(Item)]
        /\ \A u \in Threads : Len(queue'[u]) <= QueueSize[u]
    <3>1. CASE UNCHANGED queue
      BY <3>1 DEF TypeOK
    <3>2. CASE HasRoom(t) /\ Send(t, Fresh(e))
      BY <3>2, <2>1, FreshType, SendType
    <3> QED
      BY <1>1, <3>1, <3>2, <2>1 DEF Publish
  <2> QED
    BY <1>1, <2>3, <2>4, <2>5
    DEF TypeOK, Publish, threadVars, timeVars, tickVars, clockVars
<1>2. ASSUME NEW t \in Threads, NEW d \in CallerDelays, NEW a \in Actors, Schedule(c, t, a, d)
      PROVE  TypeOK'
  <2>1. [at |-> "poke", thread |-> t, value |-> Reschedule] \in CallerState
    BY DEF CallerState
  <2>2. caller' \in [Callers -> CallerState] /\ calls' \in [Callers -> Nat]
    BY <1>2, <2>1, EnterType DEF Schedule
  <2>3. tickTime' \in [Ticks -> Nat] /\ next_time' \in [Threads -> Nat]
    BY <1>2, ScheduleTickType, TimeAssumption DEF Schedule
  <2> QED
    BY <1>2, <2>2, <2>3 DEF TypeOK, Schedule, threadVars, clockVars
<1>3. CASE Poke(c)
  <2>1. caller[c] \in CallerState
    BY DEF TypeOK
  <2>2. Pending(caller[c].thread, Reschedule) \in CallerState /\ Idle \in CallerState
    BY <2>1 DEF CallerState, Pending, Idle
  <2>3. caller' \in [Callers -> CallerState]
    BY <1>3, <2>2 DEF TypeOK, Poke
  <2> QED
    BY <1>3, <2>3 DEF TypeOK, Poke, threadVars, timeVars, tickVars, clockVars
<1>4. ASSUME NEW tick \in Ticks, TickCatchup(c, tick)
      PROVE  TypeOK'
  <2>1. tickCatchup[tick] \in Threads
    BY <1>4 DEF TypeOK, TickCatchup
  <2>2. Pending(CatchupThread[tickCatchup[tick]], Catchup) \in CallerState
    BY <2>1, ThreadsAssumption DEF Pending, CallerState
  <2>3. caller' \in [Callers -> CallerState] /\ calls' \in [Callers -> Nat]
    BY <1>4, <2>2, EnterType DEF TickCatchup
  <2> QED
    BY <1>4, <2>3 DEF TypeOK, TickCatchup, threadVars, timeVars, clockVars
<1>5. CASE SendNote(c)
  <2>1. caller[c] \in CallerState /\ Idle \in CallerState
    BY DEF TypeOK, CallerState, Idle
  <2>2. caller[c].value \in Events \cup {NoEvent, Reschedule, Catchup}
    BY <2>1 DEF CallerState
  <2>3. note' \in [Threads -> Events \cup {NoEvent, Reschedule, Catchup}]
    BY <1>5, <2>2 DEF TypeOK, SendNote, Notify
  <2> QED
    BY <1>5, <2>1, <2>3 DEF TypeOK, SendNote, threadVars, timeVars, tickVars, clockVars
<1> QED
  BY <1>1, <1>2, <1>3, <1>4, <1>5 DEF CallerStep

LEMMA ElapseType == TypeOK /\ Elapse => TypeOK'
  BY DEF TypeOK, Elapse, threadVars, timeVars, tickVars, callerVars

LEMMA StutterType == TypeOK /\ UNCHANGED vars => TypeOK'
  BY DEF TypeOK, vars, threadVars, timeVars, tickVars, callerVars, clockVars

LEMMA NextType == TypeOK /\ [Next]_vars => TypeOK'
<1> SUFFICES ASSUME TypeOK, [Next]_vars
             PROVE  TypeOK'
  OBVIOUS
<1>1. ASSUME NEW t \in Threads, ThreadStep(t)
      PROVE  TypeOK'
  BY <1>1, DeliverType, SkipType, RequeueDeferredType, FinishType, MoveType, FetchType
  DEF ThreadStep
<1> QED
  BY <1>1, CallerType, ElapseType, StutterType DEF Next

\* Every variable keeps its type, and no queue grows beyond its capacity
THEOREM TypeCorrect == Spec => []TypeOK
  BY InitType, NextType, PTL DEF Spec

-----------------------------------------------------------------------------

LEMMA InitTime == Init => TimeInv
  BY TimeAssumption DEF Init, TimeInv, SleepBounded

\* Setting an alarm only brings a thread's next alarm forward
LEMMA ScheduleTickTime ==
  ASSUME TypeOK, NEW t \in Threads, NEW a, NEW d \in Nat, ScheduleTick(t, a, d)
  PROVE  \A u \in Threads : next_time'[u] <= next_time[u]
<1>1. \A u \in Threads : next_time[u] \in Nat /\ current_time[u] \in Nat
  BY DEF TypeOK
<1>2. next_time' = [next_time EXCEPT ![t] = Smaller(next_time[t], current_time[t] + d)]
  BY DEF ScheduleTick
<1>3. Smaller(next_time[t], current_time[t] + d) <= next_time[t]
  BY <1>1 DEF Smaller
<1> QED
  BY <1>1, <1>2, <1>3 DEF TypeOK

\* TimeInv survives a step that brings alarms forward, lets time pass, and
\* puts no thread to sleep
LEMMA TimeKept ==
  ASSUME TypeOK, TypeOK', TimeInv, UNCHANGED <<current_time, deadline>>,
         \A u \in Threads : next_time'[u] <= next_time[u],
         now <= now', \A u \in Threads : timeout'[u] <= timeout[u],
         \A u \in Threads : pc'[u] = "blocked" => pc[u] = "blocked"
  PROVE  TimeInv'
<1> SUFFICES ASSUME NEW u \in Threads
             PROVE  /\ current_time'[u] <= now'
                    /\ next_time'[u] <= current_time'[u] + MaxSleep
                    /\ timeout'[u] <= MaxSleep
                    /\ pc'[u] = "blocked" => deadline'[u] <= now' + MaxSleep
  BY DEF TimeInv, SleepBounded
<1>1. /\ MaxSleep \in Nat /\ now \in Nat /\ now' \in Nat
      /\ current_time[u] \in Nat /\ next_time[u] \in Nat /\ next_time'[u] \in Nat
      /\ timeout[u] \in Nat /\ timeout'[u] \in Nat /\ deadline[u] \in Nat
  BY TimeAssumption DEF TypeOK
<1>2. /\ current_time[u] <= now /\ next_time[u] <= current_time[u] + MaxSleep
      /\ timeout[u] <= MaxSleep
      /\ pc[u] = "blocked" => deadline[u] <= now + MaxSleep
  BY DEF TimeInv, SleepBounded
<1> QED
  BY <1>1, <1>2

LEMMA ReadClockTime ==
  ASSUME TypeOK, TypeOK', TimeInv, NEW t \in Threads, ReadClock(t),
         pc' = [pc EXCEPT ![t] = "dispatch"], UNCHANGED <<timeout, deadline, now>>
  PROVE  TimeInv'
<1>1. /\ current_time' = [current_time EXCEPT ![t] = now]
      /\ next_time' = [next_time EXCEPT ![t] =
            IF next_time[t] <= now THEN now + MaxSleep ELSE next_time[t]]
  BY DEF ReadClock
<1> SUFFICES ASSUME NEW u \in Threads
             PROVE  /\ current_time'[u] <= now'
                    /\ next_time'[u] <= current_time'[u] + MaxSleep
                    /\ timeout'[u] <= MaxSleep
                    /\ pc'[u] = "blocked" => deadline'[u] <= now' + MaxSleep
  BY DEF TimeInv, SleepBounded
<1>2. /\ now \in Nat /\ MaxSleep \in Nat /\ next_time[u] \in Nat /\ current_time[u] \in Nat
      /\ current_time[u] <= now /\ next_time[u] <= current_time[u] + MaxSleep
  BY TimeAssumption DEF TypeOK, TimeInv
<1>3. current_time'[u] <= now' /\ next_time'[u] <= current_time'[u] + MaxSleep
  BY <1>1, <1>2 DEF TypeOK
<1> QED
  BY <1>3 DEF TimeInv, SleepBounded, TypeOK

LEMMA NextTime == TypeOK /\ TypeOK' /\ TimeInv /\ [Next]_vars => TimeInv'
<1> SUFFICES ASSUME TypeOK, TypeOK', TimeInv, [Next]_vars
             PROVE  TimeInv'
  OBVIOUS
<1>0. /\ now \in Nat /\ next_time \in [Threads -> Nat] /\ timeout \in [Threads -> Nat]
      /\ pc \in [Threads -> {"dispatch", "shift", "await", "take", "blocked", "woken", "faulted"}]
  BY DEF TypeOK
<1>1. ASSUME NEW t \in Threads, Deliver(t)
      PROVE  TimeInv'
  <2>1. Head(todo[t]) \in Actors
    BY <1>1 DEF TypeOK, Deliver
  <2>2. \A u \in Threads : next_time'[u] <= next_time[u]
    <3>1. CASE \E d \in OwnDelays[Head(todo[t])] : ScheduleTick(t, Head(todo[t]), d)
      BY <2>1, <3>1, ScheduleTickTime, TimeAssumption
    <3>2. CASE UNCHANGED next_time
      BY <3>2, <1>0
    <3> QED
      BY <1>1, <3>1, <3>2 DEF Deliver
  <2> QED
    BY <1>0, <1>1, <2>2, TimeKept DEF Deliver, clockVars
<1>2. ASSUME NEW t \in Threads, 
             Skip(t) \/ Fault(t) \/ RequeueDeferred(t) \/ Finish(t) \/ NothingToShift(t)
               \/ SleepAgain(t)
      PROVE  TimeInv'
  <2>1. /\ UNCHANGED <<current_time, next_time, timeout, deadline, now>>
        /\ \A u \in Threads : pc'[u] = "blocked" => pc[u] = "blocked"
    BY <1>0, <1>2 DEF Skip, Fault, RequeueDeferred, CatchupQueue, Finish, NothingToShift,
                      SleepAgain,
                      timeVars, clockVars
  <2> QED
    BY <1>0, <2>1, TimeKept
<1>3. ASSUME NEW t \in Threads, Shift(t)
      PROVE  TimeInv'
  <2>1. /\ UNCHANGED <<current_time, next_time, timeout, deadline, now>>
        /\ \A u \in Threads : pc'[u] = "blocked" => pc[u] = "blocked"
    BY <1>0, <1>3 DEF Shift, Begin, timeVars, clockVars
  <2> QED
    BY <1>0, <2>1, TimeKept
<1>4. ASSUME NEW t \in Threads, Await(t)
      PROVE  TimeInv'
  <2>1. Larger(0, next_time[t] - current_time[t]) <= MaxSleep
    BY TimeAssumption DEF TypeOK, TimeInv, Larger
  <2>2. \A u \in Threads : timeout'[u] <= MaxSleep
    BY <1>4, <2>1 DEF Await, TypeOK, TimeInv
  <2> QED
    BY <1>4, <2>2 DEF Await, TypeOK, TimeInv, SleepBounded, timeVars, clockVars
<1>5. ASSUME NEW t \in Threads, Block(t)
      PROVE  TimeInv'
  <2>1. now + timeout[t] <= now + MaxSleep /\ 0 <= MaxSleep
    BY TimeAssumption DEF TypeOK, TimeInv
  <2> QED
    BY <1>5, <2>1 DEF Block, TypeOK, TimeInv, SleepBounded, timeVars, clockVars
<1>6. ASSUME NEW t \in Threads, Take(t)
      PROVE  TimeInv'
  <2>1. 0 <= MaxSleep
    BY TimeAssumption
  <2> QED
    BY <1>6, <2>1 DEF Take, TypeOK, TimeInv, SleepBounded, timeVars, clockVars
<1>7. ASSUME NEW t \in Threads, WakeByAlarm(t) \/ WakeByQueue(t) \/ WakeBySlot(t)
      PROVE  TimeInv'
  <2>1. /\ ReadClock(t) /\ pc' = [pc EXCEPT ![t] = "dispatch"]
        /\ UNCHANGED <<timeout, deadline, now>>
    BY <1>7 DEF WakeByAlarm, WakeByQueue, WakeBySlot, Begin, clockVars
  <2> QED
    BY <2>1, ReadClockTime
<1>8. ASSUME NEW c \in Callers, CallerStep(c)
      PROVE  TimeInv'
  <2>1. /\ UNCHANGED <<current_time, timeout, deadline, now, pc>>
        /\ \A u \in Threads : next_time'[u] <= next_time[u]
    <3>1. CASE \E e \in Events : Publish(c, e)
      BY <1>0, <3>1 DEF Publish, threadVars, timeVars, clockVars
    <3>2. CASE \E t \in Threads, d \in CallerDelays, a \in Actors : Schedule(c, t, a, d)
      BY <3>2, ScheduleTickTime, TimeAssumption DEF Schedule, threadVars, clockVars
    <3>3. CASE Poke(c)
      BY <1>0, <3>3 DEF Poke, threadVars, timeVars, clockVars
    <3>4. CASE \E tick \in Ticks : TickCatchup(c, tick)
      BY <1>0, <3>4 DEF TickCatchup, threadVars, timeVars, clockVars
    <3>5. CASE SendNote(c)
      BY <1>0, <3>5 DEF SendNote, threadVars, timeVars, clockVars
    <3> QED
      BY <1>8, <3>1, <3>2, <3>3, <3>4, <3>5 DEF CallerStep
  <2> QED
    BY <1>0, <2>1, TimeKept
<1>9. CASE Elapse
  BY <1>0, <1>9, TimeKept DEF Elapse, threadVars, timeVars
<1>10. CASE UNCHANGED vars
  BY <1>0, <1>10, TimeKept DEF vars, threadVars, timeVars, clockVars
<1> QED
  BY <1>1, <1>2, <1>3, <1>4, <1>5, <1>6, <1>7, <1>8, <1>9, <1>10 DEF Next, ThreadStep

\* No thread ever sleeps for more than MAX_THREAD_SLEEP_TIME (thread.c:42 and
\* 335): whatever alarm a thread has lost track of, it is looked at by then
THEOREM SleepIsBounded == Spec => []SleepBounded
<1>1. Init => TypeOK /\ TimeInv
  BY InitType, InitTime
<1>2. (TypeOK /\ TimeInv) /\ [Next]_vars => (TypeOK /\ TimeInv)'
  BY NextType, NextTime
<1>3. TypeOK /\ TimeInv => SleepBounded
  BY DEF TimeInv
<1> QED
  BY <1>1, <1>2, <1>3, PTL DEF Spec

-----------------------------------------------------------------------------

LEMMA InitClean == Init => DeferInv /\ CleanInv
  BY DEF Init, DeferInv, CleanInv, NothingDeferred, Told, Asleep, Fresh, BusyStatus

\* What a queue holds after a send and after a receive
LEMMA SentItems ==
  ASSUME TypeOK, NEW t \in Threads, NEW item \in Item, Send(t, item), NEW u \in Threads,
         NEW i \in DOMAIN queue'[u]
  PROVE  \/ queue'[u][i] = item /\ u = t
         \/ i \in DOMAIN queue[u] /\ queue'[u][i] = queue[u][i]
<1>1. queue' = [queue EXCEPT ![t] = Append(queue[t], item)] /\ queue \in [Threads -> Seq(Item)]
  BY DEF Send, TypeOK
<1>2. CASE u = t
  <2> DEFINE q == queue[t]
  <2>1. queue'[u] = Append(q, item) /\ q \in Seq(Item) /\ queue[u] = q
    BY <1>1, <1>2
  <2> HIDE DEF q
  <2>2. /\ DOMAIN Append(q, item) = 1 .. Len(q) + 1 /\ DOMAIN q = 1 .. Len(q) /\ Len(q) \in Nat
        /\ Append(q, item)[Len(q) + 1] = item
        /\ \A j \in 1 .. Len(q) : Append(q, item)[j] = q[j]
    BY <2>1
  <2>3. i \in 1 .. Len(q) + 1
    BY <2>1, <2>2
  <2>4. CASE i = Len(q) + 1
    BY <2>1, <2>2, <2>4, <1>2
  <2>5. CASE i \in 1 .. Len(q)
    BY <2>1, <2>2, <2>5
  <2> QED
    BY <2>2, <2>3, <2>4, <2>5
<1>3. CASE u # t
  BY <1>1, <1>3
<1> QED
  BY <1>2, <1>3

LEMMA ReceivedItems ==
  ASSUME TypeOK, NEW t \in Threads, queue[t] # <<>>,
         queue' = [queue EXCEPT ![t] = Tail(@)], NEW u \in Threads, NEW i \in DOMAIN queue'[u]
  PROVE  \E j \in DOMAIN queue[u] : queue'[u][i] = queue[u][j]
<1>1. queue \in [Threads -> Seq(Item)]
  BY DEF TypeOK
<1>2. CASE u = t
  <2> DEFINE q == queue[t]
  <2>1. queue'[u] = Tail(q) /\ q \in Seq(Item) /\ queue[u] = q /\ q # <<>>
    BY <1>1, <1>2
  <2> HIDE DEF q
  <2>2. /\ DOMAIN Tail(q) = 1 .. Len(q) - 1 /\ DOMAIN q = 1 .. Len(q) /\ Len(q) \in Nat
        /\ \A j \in 1 .. Len(q) - 1 : Tail(q)[j] = q[j + 1]
    BY <2>1
  <2>3. i \in 1 .. Len(q) - 1
    BY <2>1, <2>2
  <2>4. i + 1 \in DOMAIN q /\ queue'[u][i] = q[i + 1]
    BY <2>1, <2>2, <2>3
  <2> QED
    BY <2>1, <2>4
<1>3. CASE u # t
  BY <1>1, <1>3
<1> QED
  BY <1>2, <1>3

\* A callback's answer is busy only if the actor is one that defers
LEMMA AnsweredBusy ==
  ASSUME NEW t \in Threads, NEW a \in Actors, NEW answer \in MayAnswer(t, a), NEW s,
         Answered(s, answer) \in BusyStatus
  PROVE  Deferring \/ s \in BusyStatus
  BY ActorsAssumption DEF MayAnswer, Answered, BusyStatus, Deferring

LEMMA NextDefer == TypeOK /\ TypeOK' /\ DeferInv /\ [Next]_vars => DeferInv'
<1> SUFFICES ASSUME TypeOK, TypeOK', DeferInv, [Next]_vars, ~Deferring
             PROVE  \A u \in Threads :
                      /\ hand'[u].status \notin BusyStatus
                      /\ \A i \in DOMAIN queue'[u] : queue'[u][i].status \notin BusyStatus
  BY DEF DeferInv, Deferring
<1> DEFINE Calm(f) == \A u \in Threads : f[u].status \notin BusyStatus
           Clear(f) == \A u \in Threads : \A i \in DOMAIN f[u] : f[u][i].status \notin BusyStatus
<1>0. Calm(hand) /\ Clear(queue)
  BY DEF DeferInv
<1>a. \A t \in Threads : queue[t] # <<>> =>
         Head(queue[t]) = queue[t][1] /\ 1 \in DOMAIN queue[t]
  BY DEF TypeOK
<1>1. ASSUME NEW t \in Threads, Deliver(t)
      PROVE  Calm(hand') /\ Clear(queue')
  <2>1. PICK answer \in MayAnswer(t, Head(todo[t])) :
          Continue(t, Answered(hand[t].status, answer))
    BY <1>1 DEF Deliver
  <2>2. Head(todo[t]) \in Actors
    BY <1>1 DEF TypeOK, Deliver
  <2>3. Answered(hand[t].status, answer) \notin BusyStatus
    BY <1>0, <2>2, AnsweredBusy
  <2>4. hand' = [hand EXCEPT ![t] = [hand[t] EXCEPT !.status = Answered(hand[t].status, answer)]]
    BY <2>1 DEF Continue
  <2>5. Calm(hand')
    BY <1>0, <2>3, <2>4 DEF TypeOK, Item
  <2> QED
    BY <1>0, <1>1, <2>5 DEF Deliver
<1>2. ASSUME NEW t \in Threads, Skip(t)
      PROVE  Calm(hand') /\ Clear(queue')
  <2>1. hand' = [hand EXCEPT ![t] = [hand[t] EXCEPT !.status = hand[t].status]]
    BY <1>2 DEF Skip, Continue
  <2> QED
    BY <1>0, <1>2, <2>1 DEF Skip, TypeOK, Item
<1>3. ASSUME NEW t \in Threads, RequeueDeferred(t)
      PROVE  Calm(hand') /\ Clear(queue')
  BY <1>0, <1>3 DEF RequeueDeferred, CatchupQueue
<1>4. ASSUME NEW t \in Threads,
             Fault(t) \/ Finish(t) \/ NothingToShift(t) \/ Await(t) \/ Block(t) \/ Take(t)
               \/ SleepAgain(t)
      PROVE  Calm(hand') /\ Clear(queue')
  BY <1>0, <1>4 DEF Fault, Finish, NothingToShift, Await, Block, Take, SleepAgain
<1>5. ASSUME NEW t \in Threads, Shift(t) \/ WakeByQueue(t)
      PROVE  Calm(hand') /\ Clear(queue')
  <2>1. queue[t] # <<>> /\ queue' = [queue EXCEPT ![t] = Tail(@)]
    BY <1>5 DEF Shift, WakeByQueue
  <2>2. hand' = [hand EXCEPT ![t] = Head(queue[t])]
    BY <1>5 DEF Shift, WakeByQueue, Begin
  <2>3. Calm(hand')
    BY <1>0, <1>a, <2>1, <2>2 DEF TypeOK
  <2>4. Clear(queue')
    BY <1>0, <2>1, ReceivedItems
  <2> QED
    BY <2>3, <2>4
<1>6. ASSUME NEW t \in Threads, WakeByAlarm(t) \/ WakeBySlot(t)
      PROVE  Calm(hand') /\ Clear(queue')
  <2>1. PICK item : /\ hand' = [hand EXCEPT ![t] = item]
                    /\ item = hand[t] \/ item.status = "WAITING"
    BY <1>6 DEF WakeByAlarm, WakeBySlot, Begin, Fresh
  <2>2. item.status \notin BusyStatus
    BY <1>0, <2>1 DEF BusyStatus
  <2> QED
    BY <1>0, <1>6, <2>1, <2>2 DEF WakeByAlarm, WakeBySlot, TypeOK
<1>7. ASSUME NEW c \in Callers, CallerStep(c)
      PROVE  Calm(hand') /\ Clear(queue')
  <2>1. UNCHANGED hand
    BY <1>7 DEF CallerStep, Publish, Schedule, Poke, TickCatchup, SendNote, threadVars
  <2>2. CASE UNCHANGED queue
    BY <1>0, <2>1, <2>2
  <2>3. CASE \E e \in Events : Send(Target[e], Fresh(e))
    <3>1. PICK e \in Events : Send(Target[e], Fresh(e))
      BY <2>3
    <3>2. Fresh(e) \in Item /\ Target[e] \in Threads /\ Fresh(e).status \notin BusyStatus
      BY FreshType, ActorsAssumption DEF Fresh, BusyStatus
    <3>3. Clear(queue')
      BY <1>0, <3>1, <3>2, SentItems
    <3> QED
      BY <1>0, <2>1, <3>3
  <2> QED
    BY <1>7, <2>2, <2>3 DEF CallerStep, Publish, Schedule, Poke, TickCatchup, SendNote
<1>8. CASE Elapse \/ UNCHANGED vars
  BY <1>0, <1>8 DEF Elapse, vars, threadVars
<1>9. Calm(hand') /\ Clear(queue')
  BY <1>1, <1>2, <1>3, <1>4, <1>5, <1>6, <1>7, <1>8 DEF Next, ThreadStep
<1> QED
  BY <1>9

\* Nothing but a step of thread u or a requeue of another thread touches what
\* NothingDeferred(u) and Told(u) are about, and no requeue reaches a clean u
LEMMA RequeueElsewhere ==
  ASSUME TypeOK, DeferInv, NEW t \in Threads, RequeueDeferred(t), NEW u \in Threads, Clean(u)
  PROVE  CatchupThread[t] # u /\ queue'[u] = queue[u]
<1>1. Deferring
  BY DEF DeferInv, RequeueDeferred, CatchupQueue
<1>2. CatchupThread[t] # u
  BY <1>1 DEF Clean
<1>3. queue'[u] = queue[u]
  BY <1>2 DEF RequeueDeferred, CatchupQueue, Send, TypeOK
<1> QED
  BY <1>2, <1>3

LEMMA CleanThreadStep ==
  ASSUME TypeOK, DeferInv, CleanInv, NEW t \in Threads, ThreadStep(t),
         NEW u \in Threads, Clean(u)
  PROVE  NothingDeferred(u)' /\ Told(u)'
<1>0. /\ NothingDeferred(u) /\ Told(u)
      /\ deferred \in [Threads -> Int] /\ prev \in [Threads -> WildStatus]
      /\ pc \in [Threads -> {"dispatch", "shift", "await", "take", "blocked", "woken", "faulted"}]
      /\ queue \in [Threads -> Seq(Item)]
      /\ got \in [Threads -> Events \cup {NoEvent, Reschedule, Catchup}]
      /\ note \in [Threads -> Events \cup {NoEvent, Reschedule, Catchup}]
      /\ QueueSize[u] > 0
  BY DEF CleanInv, TypeOK, Clean
<1>1. UNCHANGED caller /\ (Announcing(u) <=> Announcing(u)')
  BY DEF ThreadStep, Deliver, Skip, Fault, RequeueDeferred, CatchupQueue, Finish, Shift,
         NothingToShift,
         Await, Block, Take, WakeByAlarm, SleepAgain, WakeByQueue, WakeBySlot, callerVars,
         Announcing
<1>2. CASE Deliver(t) \/ Skip(t)
  BY <1>0, <1>1, <1>2 DEF Deliver, Skip, NothingDeferred, Told, Asleep
<1>3. CASE Fault(t)
  BY <1>0, <1>3 DEF Fault, NothingDeferred, Told, Asleep
<1>4. CASE RequeueDeferred(t)
  <2>1. CatchupThread[t] # u /\ queue'[u] = queue[u]
    BY <1>4, RequeueElsewhere
  <2>2. deferred'[u] = deferred[u] /\ prev'[u] = "WAITING"
    BY <1>0, <1>4, <2>1 DEF RequeueDeferred, CatchupQueue, NothingDeferred
  <2>3. pc' = [pc EXCEPT ![t] = "shift"] /\ UNCHANGED <<note, got>>
    BY <1>4 DEF RequeueDeferred, CatchupQueue
  <2> QED
    BY <1>0, <1>1, <2>1, <2>2, <2>3 DEF NothingDeferred, Told, Asleep
<1>5. CASE Finish(t)
  <2>1. deferred'[u] = deferred[u] /\ prev'[u] = "WAITING"
    BY <1>0, <1>5 DEF Finish, NothingDeferred
  <2>2. pc' = [pc EXCEPT ![t] = "shift"] /\ UNCHANGED <<note, got, queue>>
    BY <1>5 DEF Finish
  <2> QED
    BY <1>0, <1>1, <2>1, <2>2 DEF NothingDeferred, Told, Asleep
<1>6. CASE Shift(t) \/ WakeByQueue(t)
  <2>1. /\ queue[t] # <<>> /\ queue' = [queue EXCEPT ![t] = Tail(@)]
        /\ Begin(t, Head(queue[t])) /\ UNCHANGED <<note, deferred>>
        /\ got' = got \/ got' = [got EXCEPT ![t] = NoEvent]
    BY <1>6 DEF Shift, WakeByQueue, ReadClock, Forget
  <2>2. \A i \in DOMAIN queue'[u] : queue'[u][i].status = "WAITING"
    BY <1>0, <2>1, ReceivedItems DEF NothingDeferred
  <2>3. prev'[u] = "WAITING"
    <3>1. queue[t] \in Seq(Item) /\ 1 \in DOMAIN queue[t] /\ Head(queue[t]) = queue[t][1]
      BY <1>0, <2>1
    <3> QED
      BY <1>0, <2>1, <3>1 DEF NothingDeferred, Begin
  <2>4. CASE u = t
    BY <1>0, <2>1, <2>2, <2>3, <2>4 DEF NothingDeferred, Told, Asleep, Begin
  <2>5. CASE u # t
    <3>1. /\ pc'[u] = pc[u] /\ got'[u] = got[u] /\ note'[u] = note[u] /\ queue'[u] = queue[u]
      BY <1>0, <2>1, <2>5 DEF Begin
    <3> QED
      BY <1>0, <1>1, <2>1, <2>2, <2>3, <3>1 DEF NothingDeferred, Told, Asleep
  <2> QED
    BY <2>4, <2>5
<1>7. CASE NothingToShift(t)
  <2>1. u = t => queue[u] = <<>>
    BY <1>0, <1>7 DEF NothingToShift, OnlyDeferredLeft, NothingDeferred
  <2> QED
    BY <1>0, <1>1, <1>7, <2>1 DEF NothingToShift, NothingDeferred, Told, Asleep
<1>8. CASE Await(t)
  BY <1>0, <1>1, <1>8 DEF Await, NothingDeferred, Told, Asleep
<1>9. CASE Block(t)
  BY <1>0, <1>1, <1>9 DEF Block, NothingDeferred, Told, Asleep
<1>10. CASE Take(t)
  <2>1. NothingDeferred(u)'
    BY <1>0, <1>10 DEF Take, NothingDeferred
  <2>2. CASE u = t
    <3>1. Asleep(u) /\ (Asleep(u)' => note[u] = Reschedule) /\ Reschedule \notin Events
      BY <1>0, <1>10, <2>2, EventsAssumption DEF Take, Asleep
    <3> QED
      BY <1>0, <1>1, <1>10, <2>1, <3>1 DEF Take, Told
  <2>3. CASE u # t
    BY <1>0, <1>1, <1>10, <2>1, <2>3 DEF Take, Told, Asleep
  <2> QED
    BY <2>2, <2>3
<1>11. CASE WakeByAlarm(t) \/ WakeBySlot(t)
  <2>1. u = t => WakeByAlarm(t)
    BY <1>0, <1>11 DEF WakeBySlot
  <2>2. prev'[u] = "WAITING"
    BY <1>0, <1>11, <2>1 DEF WakeByAlarm, WakeBySlot, Begin, Fresh, NothingDeferred
  <2>3. /\ pc' = [pc EXCEPT ![t] = "dispatch"] /\ got' = [got EXCEPT ![t] = NoEvent]
        /\ UNCHANGED <<queue, note, deferred>>
    BY <1>11 DEF WakeByAlarm, WakeBySlot, Begin, ReadClock, Forget
  <2> QED
    BY <1>0, <1>1, <2>2, <2>3 DEF NothingDeferred, Told, Asleep
<1>12. CASE SleepAgain(t)
  <2>1. u = t => Asleep(u) \/ queue[u] = <<>>
    BY <1>0, <1>12 DEF SleepAgain, Asleep
  <2>2. /\ pc' = [pc EXCEPT ![t] = "await"] /\ got' = [got EXCEPT ![t] = NoEvent]
        /\ UNCHANGED <<queue, note, deferred, prev>>
    BY <1>12 DEF SleepAgain, Forget
  <2> QED
    BY <1>0, <1>1, <2>1, <2>2 DEF NothingDeferred, Told, Asleep
<1> QED
  BY <1>2, <1>3, <1>4, <1>5, <1>6, <1>7, <1>8, <1>9, <1>10, <1>11, <1>12 DEF ThreadStep

\* A caller that is not about to notify u of an event may do anything else
LEMMA AnnouncingKept ==
  ASSUME TypeOK, NEW c \in Callers, NEW rest, caller' = [caller EXCEPT ![c] = rest],
         NEW u, caller[c] \notin {Pending(u, e) : e \in Events}, Announcing(u)
  PROVE  Announcing(u)'
<1>1. PICK d \in Callers : caller[d] \in {Pending(u, e) : e \in Events}
  BY DEF Announcing
<1>2. caller'[d] = caller[d]
  BY <1>1 DEF TypeOK
<1> QED
  BY <1>1, <1>2 DEF Announcing, Pending

LEMMA CleanCallerStep ==
  ASSUME TypeOK, CleanInv, NEW c \in Callers, CallerStep(c), NEW u \in Threads, Clean(u)
  PROVE  NothingDeferred(u)' /\ Told(u)'
<1>0. /\ NothingDeferred(u) /\ Told(u) /\ caller \in [Callers -> CallerState]
      /\ note \in [Threads -> Events \cup {NoEvent, Reschedule, Catchup}]
      /\ queue \in [Threads -> Seq(Item)] /\ QueueSize[u] > 0
  BY DEF CleanInv, TypeOK, Clean
<1>1. UNCHANGED <<pc, got, deferred, prev>>
  BY DEF CallerStep, Publish, Schedule, Poke, TickCatchup, SendNote, threadVars
<1>2. ASSUME caller[c].at # "notify", NEW rest, caller' = [caller EXCEPT ![c] = rest],
             UNCHANGED note, UNCHANGED queue
      PROVE  NothingDeferred(u)' /\ Told(u)'
  <2>0. caller[c] \notin {Pending(u, e) : e \in Events}
    BY <1>2 DEF Pending
  <2>1. Announcing(u) => Announcing(u)'
    BY <1>2, <2>0, AnnouncingKept
  <2> QED
    BY <1>0, <1>1, <1>2, <2>1 DEF NothingDeferred, Told, Asleep
<1>3. ASSUME NEW e \in Events, Publish(c, e)
      PROVE  NothingDeferred(u)' /\ Told(u)'
  <2>1. caller[c] = Idle /\ caller[c].at # "notify" /\ UNCHANGED note
    BY <1>3 DEF Publish, Enter, Idle
  <2>2. CASE UNCHANGED queue
    BY <1>2, <1>3, <2>1, <2>2 DEF Publish, Enter
  <2>3. CASE Send(Target[e], Fresh(e)) /\ caller' = [caller EXCEPT ![c] = Pending(Target[e], e)]
    <3>1. Target[e] \in Threads /\ Fresh(e) \in Item /\ Fresh(e).status = "WAITING"
      BY ActorsAssumption, FreshType DEF Fresh
    <3>2. \A i \in DOMAIN queue'[u] : queue'[u][i].status = "WAITING"
      BY <1>0, <2>3, <3>1, SentItems DEF NothingDeferred
    <3>3. CASE Target[e] = u
      <4>1. caller'[c] = Pending(u, e)
        BY <1>0, <2>3, <3>3
      <4>2. Announcing(u)'
        BY <4>1 DEF Announcing, Pending
      <4> QED
        BY <1>0, <1>1, <3>2, <4>2 DEF NothingDeferred, Told
    <3>4. CASE Target[e] # u
      <4>1. queue'[u] = queue[u]
        BY <1>0, <2>3, <3>4 DEF Send
      <4>0. caller[c] \notin {Pending(u, f) : f \in Events}
        BY <2>1 DEF Pending
      <4>2. Announcing(u) => Announcing(u)'
        BY <2>3, <4>0, AnnouncingKept
      <4> QED
        BY <1>0, <1>1, <2>1, <3>2, <4>1, <4>2 DEF NothingDeferred, Told, Asleep
    <3> QED
      BY <3>3, <3>4
  <2> QED
    BY <1>3, <2>2, <2>3 DEF Publish, Enter
<1>4. CASE \E t \in Threads, d \in CallerDelays, a \in Actors : Schedule(c, t, a, d)
  <2>1. PICK t \in Threads, d \in CallerDelays, a \in Actors : Schedule(c, t, a, d)
    BY <1>4
  <2>2. /\ caller[c].at # "notify" /\ UNCHANGED note /\ UNCHANGED queue
        /\ caller' = [caller EXCEPT
              ![c] = [at |-> "poke", thread |-> t, value |-> Reschedule]]
    BY <2>1 DEF Schedule, Enter, Idle
  <2> QED
    BY <1>2, <2>2
<1>5. CASE Poke(c)
  <2>1. /\ caller[c].at # "notify" /\ UNCHANGED note /\ UNCHANGED queue
        /\ caller' = [caller EXCEPT ![c] =
              IF IsBlocked(caller[c].thread) THEN Pending(caller[c].thread, Reschedule)
              ELSE Idle]
    BY <1>5 DEF Poke
  <2> QED
    BY <1>2, <2>1
<1>6. CASE \E tick \in Ticks : TickCatchup(c, tick)
  <2>1. PICK tick \in Ticks : TickCatchup(c, tick)
    BY <1>6
  <2>2. /\ caller[c].at # "notify" /\ UNCHANGED note /\ UNCHANGED queue
        /\ caller' = [caller EXCEPT
              ![c] = Pending(CatchupThread[tickCatchup[tick]], Catchup)]
    BY <2>1 DEF TickCatchup, Enter, Idle
  <2> QED
    BY <1>2, <2>2
<1>7. CASE SendNote(c)
  <2>1. /\ caller' = [caller EXCEPT ![c] = Idle] /\ UNCHANGED queue
        /\ Notify(caller[c].thread, caller[c].value, caller[c].value \in Events)
    BY <1>7 DEF SendNote
  <2>2. note[u] \in Events => note'[u] \in Events
    BY <1>0, <2>1, EventsAssumption DEF Notify
  <2>3. Announcing(u) => note'[u] \in Events \/ Announcing(u)'
    <3>1. CASE caller[c] \in {Pending(u, e) : e \in Events}
      BY <1>0, <2>1, <3>1 DEF Notify, Pending
    <3>2. CASE caller[c] \notin {Pending(u, e) : e \in Events}
      BY <2>1, <3>2, AnnouncingKept
    <3> QED
      BY <3>1, <3>2
  <2> QED
    BY <1>0, <1>1, <2>1, <2>2, <2>3 DEF NothingDeferred, Told, Asleep
<1> QED
  BY <1>3, <1>4, <1>5, <1>6, <1>7 DEF CallerStep

LEMMA NextClean == TypeOK /\ DeferInv /\ CleanInv /\ [Next]_vars => CleanInv'
<1> SUFFICES ASSUME TypeOK, DeferInv, CleanInv, [Next]_vars, NEW u \in Threads, Clean(u)
             PROVE  NothingDeferred(u)' /\ Told(u)'
  BY DEF CleanInv, Clean, Deferring
<1>1. CASE Elapse \/ UNCHANGED vars
  <2>1. UNCHANGED <<queue, note, pc, got, deferred, prev, caller>>
    BY <1>1 DEF Elapse, vars, threadVars, callerVars
  <2> QED
    BY <2>1 DEF CleanInv, NothingDeferred, Told, Asleep, Announcing, Pending
<1> QED
  BY <1>1, CleanThreadStep, CleanCallerStep DEF Next

\* While events wait in the queue of a blocked thread that is sent no deferred
\* events, its notification is pending or a publisher is about to send it.
\* The input thread is such a thread whatever its actors do, because it hands
\* what they defer to the catchup thread.
THEOREM NoEventIsStranded == Spec => []NoStrandedEvent
<1>1. Init => IInv
  BY InitType, InitTime, InitClean DEF IInv
<1>2. IInv /\ [Next]_vars => IInv'
  BY NextType, NextTime, NextDefer, NextClean DEF IInv
<1>3. IInv => NoStrandedEvent
  BY EventsAssumption DEF IInv, CleanInv, Told, Asleep, NoStrandedEvent
<1> QED
  BY <1>1, <1>2, <1>3, PTL DEF Spec

-----------------------------------------------------------------------------

(***************************************************************************)
(* While no actor defers, as in the firmware, queues hold published events *)
(* only: nothing else is ever sent to one.                                 *)
(***************************************************************************)
Genuine ==
    \A t \in Threads :
        /\ hand[t].ev # Wild /\ pc[t] # "faulted"
        /\ \A i \in DOMAIN queue[t] : queue[t][i].ev \in Events

\* What a queue keeps, and gets, when an item is sent
LEMMA KeptItems ==
  ASSUME TypeOK, NEW t \in Threads, NEW item \in Item, Send(t, item)
  PROVE  /\ \A u \in Threads : \A i \in DOMAIN queue[u] :
               i \in DOMAIN queue'[u] /\ queue'[u][i] = queue[u][i]
         /\ \E i \in DOMAIN queue'[t] : queue'[t][i] = item
<1>1. queue \in [Threads -> Seq(Item)] /\ queue' = [queue EXCEPT ![t] = Append(queue[t], item)]
  BY DEF TypeOK, Send
<1> DEFINE q == queue[t]
<1>2. q \in Seq(Item) /\ queue'[t] = Append(q, item)
  BY <1>1
<1> HIDE DEF q
<1>3. /\ DOMAIN q = 1 .. Len(q) /\ DOMAIN Append(q, item) = 1 .. Len(q) + 1 /\ Len(q) \in Nat
      /\ Append(q, item)[Len(q) + 1] = item /\ \A i \in 1 .. Len(q) : Append(q, item)[i] = q[i]
  BY <1>2
<1>4. /\ 1 .. Len(q) \subseteq 1 .. Len(q) + 1 /\ Len(q) + 1 \in 1 .. Len(q) + 1
  BY <1>3
<1>5. \A i \in DOMAIN q : i \in DOMAIN queue'[t] /\ queue'[t][i] = q[i]
  BY <1>2, <1>3, <1>4
<1>6. \E i \in DOMAIN queue'[t] : queue'[t][i] = item
  BY <1>2, <1>3, <1>4
<1> QED
  BY <1>1, <1>5, <1>6 DEF q

\* What a thread takes from its queue and what it leaves there
LEMMA Taken ==
  ASSUME TypeOK, NEW t \in Threads, queue[t] # <<>>, queue' = [queue EXCEPT ![t] = Tail(@)]
  PROVE  /\ 1 \in DOMAIN queue[t] /\ Head(queue[t]) = queue[t][1]
         /\ \A i \in DOMAIN queue[t] : i # 1 =>
               i - 1 \in DOMAIN queue'[t] /\ queue'[t][i - 1] = queue[t][i]
         /\ \A u \in Threads : u # t => queue'[u] = queue[u]
<1>1. queue \in [Threads -> Seq(Item)]
  BY DEF TypeOK
<1> DEFINE q == queue[t]
<1>2. q \in Seq(Item) /\ q # <<>> /\ queue'[t] = Tail(q)
  BY <1>1
<1> HIDE DEF q
<1>3. /\ DOMAIN q = 1 .. Len(q) /\ DOMAIN Tail(q) = 1 .. Len(q) - 1 /\ Len(q) \in Nat \ {0}
      /\ Head(q) = q[1] /\ \A i \in 1 .. Len(q) - 1 : Tail(q)[i] = q[i + 1]
  BY <1>2
<1>4. \A i \in 1 .. Len(q) : i # 1 => i - 1 \in 1 .. Len(q) - 1 /\ Tail(q)[i - 1] = q[i]
  BY <1>3
<1> QED
  BY <1>1, <1>2, <1>3, <1>4 DEF q

\* No event is deferred, and no thread follows an address that is none
LEMMA NoDetour ==
  ASSUME ~Deferring, DeferInv, Genuine, NEW t \in Threads
  PROVE  ~RequeueDeferred(t) /\ ~Fault(t)
  BY DEF RequeueDeferred, Fault, DeferInv, Genuine

\* A step either leaves the queues alone, or takes the head of one, or sends
\* an event to the queue of its thread
LEMMA QueueSteps ==
  ASSUME ~Deferring, TypeOK, DeferInv, Genuine, [Next]_vars
  PROVE  \/ UNCHANGED queue
         \/ \E t \in Threads :
               /\ queue[t] # <<>> /\ queue' = [queue EXCEPT ![t] = Tail(@)]
               /\ Shift(t) \/ WakeByQueue(t)
         \/ \E e \in Events, c \in Callers :
               HasRoom(Target[e]) /\ Send(Target[e], Fresh(e)) /\ Publish(c, e)
<1>1. ASSUME NEW t \in Threads, ThreadStep(t), ~ (Shift(t) \/ WakeByQueue(t))
      PROVE  UNCHANGED queue
  BY <1>1, NoDetour
  DEF ThreadStep, Deliver, Skip, Finish, NothingToShift, Await, Block, Take, WakeByAlarm,
      SleepAgain, WakeBySlot
<1>2. ASSUME NEW t \in Threads, Shift(t) \/ WakeByQueue(t)
      PROVE  queue[t] # <<>> /\ queue' = [queue EXCEPT ![t] = Tail(@)]
  BY <1>2 DEF Shift, WakeByQueue
<1>3. ASSUME NEW c \in Callers, CallerStep(c)
      PROVE  \/ UNCHANGED queue
             \/ \E e \in Events : HasRoom(Target[e]) /\ Send(Target[e], Fresh(e)) /\ Publish(c, e)
  <2>1. ASSUME NEW e \in Events, Publish(c, e)
        PROVE  \/ UNCHANGED queue
               \/ HasRoom(Target[e]) /\ Send(Target[e], Fresh(e)) /\ Publish(c, e)
    BY <2>1 DEF Publish
  <2> QED
    BY <1>3, <2>1 DEF CallerStep, Schedule, Poke, TickCatchup, SendNote
<1>4. CASE Elapse \/ UNCHANGED vars
  BY <1>4 DEF Elapse, vars
<1> QED
  BY <1>1, <1>2, <1>3, <1>4 DEF Next

LEMMA InitGenuine == Init => Genuine
  BY EventsAssumption DEF Init, Genuine, Fresh

LEMMA NextGenuine ==
  ASSUME ~Deferring, TypeOK, DeferInv, Genuine, [Next]_vars
  PROVE  Genuine'
<1>0. /\ pc \in [Threads -> {"dispatch", "shift", "await", "take", "blocked", "woken", "faulted"}]
      /\ hand \in [Threads -> Item]
  BY DEF TypeOK
<1>1. ASSUME NEW t \in Threads
      PROVE  \A i \in DOMAIN queue'[t] : queue'[t][i].ev \in Events
  <2>1. CASE UNCHANGED queue
    BY <2>1 DEF Genuine
  <2>2. ASSUME NEW u \in Threads, queue[u] # <<>>, queue' = [queue EXCEPT ![u] = Tail(@)]
        PROVE  \A i \in DOMAIN queue'[t] : queue'[t][i].ev \in Events
    BY <2>2, ReceivedItems DEF Genuine
  <2>3. ASSUME NEW e \in Events, Send(Target[e], Fresh(e))
        PROVE  \A i \in DOMAIN queue'[t] : queue'[t][i].ev \in Events
    <3>1. Fresh(e) \in Item /\ Target[e] \in Threads /\ Fresh(e).ev = e
      BY FreshType, ActorsAssumption DEF Fresh
    <3> QED
      BY <2>3, <3>1, SentItems DEF Genuine
  <2> QED
    BY <2>1, <2>2, <2>3, QueueSteps
<1>2. \A t \in Threads : pc'[t] # "faulted"
  <2>1. ASSUME NEW u \in Threads, ThreadStep(u), NEW t \in Threads
        PROVE  pc'[t] # "faulted"
    BY <1>0, <2>1, NoDetour
    DEF Genuine, ThreadStep, Deliver, Skip, Finish, Shift, NothingToShift, Await, Block, Take,
        WakeByAlarm, SleepAgain, WakeByQueue, WakeBySlot, Begin
  <2>2. (\E c \in Callers : CallerStep(c)) \/ Elapse \/ UNCHANGED vars => UNCHANGED pc
    BY DEF CallerStep, Publish, Schedule, Poke, TickCatchup, SendNote, Elapse, vars, threadVars
  <2> QED
    BY <2>1, <2>2 DEF Next, Genuine
<1>3. \A t \in Threads : hand'[t].ev # Wild
  <2>1. ASSUME NEW u \in Threads, Deliver(u) \/ Skip(u), NEW t \in Threads
        PROVE  hand'[t].ev # Wild
    <3>1. PICK s : hand' = [hand EXCEPT ![u].status = s]
      BY <2>1 DEF Deliver, Skip, Continue
    <3>2. hand'[t].ev = hand[t].ev
      BY <1>0, <3>1 DEF Item
    <3> QED
      BY <3>2 DEF Genuine
  <2>2. ASSUME NEW u \in Threads, Shift(u) \/ WakeByQueue(u), NEW t \in Threads
        PROVE  hand'[t].ev # Wild
    <3>1. hand' = [hand EXCEPT ![u] = Head(queue[u])] /\ queue[u] # <<>>
      BY <2>2 DEF Shift, WakeByQueue, Begin
    <3>2. Head(queue[u]) = queue[u][1] /\ 1 \in DOMAIN queue[u]
      BY <2>2, Taken DEF Shift, WakeByQueue
    <3>3. Head(queue[u]).ev # Wild
      BY <3>2, EventsAssumption DEF Genuine
    <3> QED
      BY <1>0, <3>1, <3>3 DEF Genuine
  <2>3. ASSUME NEW u \in Threads, WakeByAlarm(u) \/ WakeBySlot(u), NEW t \in Threads
        PROVE  hand'[t].ev # Wild
    <3>1. PICK item : hand' = [hand EXCEPT ![u] = item] /\ item.ev # Wild
      <4>1. CASE WakeByAlarm(u)
        <5>1. hand' = [hand EXCEPT ![u] = Fresh(Alarm)]
          BY <4>1 DEF WakeByAlarm, Begin
        <5>2. Fresh(Alarm).ev # Wild
          BY EventsAssumption DEF Fresh
        <5> QED
          BY <5>1, <5>2
      <4>2. CASE WakeBySlot(u)
        <5> DEFINE item == IF got[u] = Catchup THEN hand[u] ELSE Fresh(got[u])
        <5>1. hand' = [hand EXCEPT ![u] = item] /\ got[u] \in Events \cup {Catchup}
          BY <4>2 DEF WakeBySlot, Begin
        <5>2. item.ev # Wild
          BY <5>1, EventsAssumption DEF Genuine, Fresh
        <5> QED
          BY <5>1, <5>2
      <4> QED
        BY <2>3, <4>1, <4>2
    <3> QED
      BY <1>0, <3>1 DEF Genuine
  <2>4. ASSUME NEW u \in Threads,
               Finish(u) \/ NothingToShift(u) \/ Await(u) \/ Block(u) \/ Take(u) \/ SleepAgain(u)
        PROVE  UNCHANGED hand
    BY <2>4 DEF Finish, NothingToShift, Await, Block, Take, SleepAgain
  <2>5. (\E c \in Callers : CallerStep(c)) \/ Elapse \/ UNCHANGED vars => UNCHANGED hand
    BY DEF CallerStep, Publish, Schedule, Poke, TickCatchup, SendNote, Elapse, vars, threadVars
  <2> QED
    BY <2>1, <2>2, <2>3, <2>4, <2>5, NoDetour DEF Next, ThreadStep, Genuine
<1> QED
  BY <1>1, <1>2, <1>3 DEF Genuine

LEMMA GenuineAlways == ASSUME ~Deferring PROVE Spec => [](TypeOK /\ DeferInv /\ Genuine)
<1>1. Init => TypeOK /\ DeferInv /\ Genuine
  BY InitType, InitClean, InitGenuine
<1>2. TypeOK /\ DeferInv /\ Genuine /\ [Next]_vars => (TypeOK /\ DeferInv /\ Genuine)'
  BY NextType, NextDefer, NextGenuine
<1> QED
  BY <1>1, <1>2, PTL DEF Spec

LEMMA NotLostInit == Init => NoEventLost
  BY DEF Init, NoEventLost

LEMMA NotLostNext ==
  ASSUME ~Deferring, TypeOK, DeferInv, Genuine, NoEventLost, [Next]_vars
  PROVE  NoEventLost'
<1> SUFFICES ASSUME NEW e \in Events, fate'[e] = "accepted", QueueSize[Target[e]] > 0
             PROVE  \/ \E t \in Threads : \E i \in DOMAIN queue'[t] : queue'[t][i].ev = e
                    \/ \E t \in Threads : pc'[t] = "dispatch" /\ hand'[t].ev = e
  BY DEF NoEventLost, Queued, InHand
<1>0. /\ pc \in [Threads -> {"dispatch", "shift", "await", "take", "blocked", "woken", "faulted"}]
      /\ hand \in [Threads -> Item]
      /\ fate \in [Events -> {"unpublished", "accepted", "refused", "settled", "dropped"}]
  BY DEF TypeOK
\* Who has the event in hand keeps it there until it is settled
<1>1. ASSUME NEW t \in Threads, pc[t] = "dispatch", hand[t].ev = e
      PROVE  pc'[t] = "dispatch" /\ hand'[t].ev = e
  <2>1. ASSUME NEW u \in Threads, Deliver(u) \/ Skip(u)
        PROVE  pc'[t] = "dispatch" /\ hand'[t].ev = e
    <3>1. PICK s : hand' = [hand EXCEPT ![u].status = s]
      BY <2>1 DEF Deliver, Skip, Continue
    <3>2. hand'[t].ev = hand[t].ev
      BY <1>0, <3>1 DEF Item
    <3> QED
      BY <1>1, <2>1, <3>2 DEF Deliver, Skip
  <2>2. ASSUME NEW u \in Threads, Finish(u)
        PROVE  pc'[t] = "dispatch" /\ hand'[t].ev = e
    <3>1. u # t
      <4> SUFFICES ASSUME u = t PROVE FALSE
        OBVIOUS
      <4>1. fate' = [fate EXCEPT ![e] = "settled"]
        BY <1>1, <2>2 DEF Finish, Settle
      <4> QED
        BY <1>0, <4>1
    <3> QED
      BY <1>0, <1>1, <2>2, <3>1 DEF Finish
  <2>3. ASSUME NEW u \in Threads,
               \/ Shift(u) \/ NothingToShift(u) \/ Await(u) \/ Block(u) \/ Take(u)
               \/ WakeByAlarm(u) \/ SleepAgain(u) \/ WakeByQueue(u) \/ WakeBySlot(u)
        PROVE  pc'[t] = "dispatch" /\ hand'[t].ev = e
    <3>1. u # t
      BY <1>1, <2>3 DEF Shift, NothingToShift, Await, Block, Take, WakeByAlarm, SleepAgain,
                        WakeByQueue, WakeBySlot
    <3>2. \E p, h : /\ pc' = pc \/ pc' = [pc EXCEPT ![u] = p]
                    /\ hand' = hand \/ hand' = [hand EXCEPT ![u] = h]
      BY <2>3 DEF Shift, NothingToShift, Await, Block, Take, WakeByAlarm, SleepAgain,
                  WakeByQueue, WakeBySlot, Begin
    <3> QED
      BY <1>0, <1>1, <3>1, <3>2
  <2>4. (\E c \in Callers : CallerStep(c)) \/ Elapse \/ UNCHANGED vars => UNCHANGED <<pc, hand>>
    BY DEF CallerStep, Publish, Schedule, Poke, TickCatchup, SendNote, Elapse, vars, threadVars
  <2> QED
    BY <1>1, <2>1, <2>2, <2>3, <2>4, NoDetour DEF Next, ThreadStep
\* What waits in a queue stays there, or is taken into hand
<1>2. ASSUME NEW t \in Threads, NEW i \in DOMAIN queue[t], queue[t][i].ev = e
      PROVE  \/ \E u \in Threads : \E j \in DOMAIN queue'[u] : queue'[u][j].ev = e
             \/ \E u \in Threads : pc'[u] = "dispatch" /\ hand'[u].ev = e
  <2>1. CASE UNCHANGED queue
    BY <1>2, <2>1
  <2>2. ASSUME NEW u \in Threads, queue[u] # <<>>, queue' = [queue EXCEPT ![u] = Tail(@)],
               Shift(u) \/ WakeByQueue(u)
        PROVE  \/ \E v \in Threads : \E j \in DOMAIN queue'[v] : queue'[v][j].ev = e
               \/ \E v \in Threads : pc'[v] = "dispatch" /\ hand'[v].ev = e
    <3>1. CASE u = t /\ i = 1
      <4>1. pc' = [pc EXCEPT ![u] = "dispatch"] /\ hand' = [hand EXCEPT ![u] = Head(queue[u])]
        BY <2>2 DEF Shift, WakeByQueue, Begin
      <4>2. Head(queue[u]).ev = e
        BY <1>2, <2>2, <3>1, Taken
      <4> QED
        BY <1>0, <4>1, <4>2
    <3>2. CASE u = t /\ i # 1
      BY <1>2, <2>2, <3>2, Taken
    <3>3. CASE u # t
      BY <1>2, <2>2, <3>3, Taken
    <3> QED
      BY <3>1, <3>2, <3>3
  <2>3. ASSUME NEW f \in Events, Send(Target[f], Fresh(f))
        PROVE  \E u \in Threads : \E j \in DOMAIN queue'[u] : queue'[u][j].ev = e
    <3>1. Fresh(f) \in Item /\ Target[f] \in Threads
      BY FreshType, ActorsAssumption
    <3>2. i \in DOMAIN queue'[t] /\ queue'[t][i] = queue[t][i]
      BY <2>3, <3>1, KeptItems
    <3> QED
      BY <1>2, <3>2
  <2> QED
    BY <2>1, <2>2, <2>3, QueueSteps
\* A publisher that was told that its event is accepted has queued it
<1>3. CASE fate[e] # "accepted"
  <2>1. PICK c \in Callers : Publish(c, e)
    <3>1. ASSUME NEW u \in Threads, ThreadStep(u)
          PROVE  fate'[e] # "accepted"
      BY <1>0, <1>3, <3>1, NoDetour
      DEF ThreadStep, Deliver, Skip, Finish, Settle, Shift, NothingToShift, Await, Block, Take,
          WakeByAlarm, SleepAgain, WakeByQueue, WakeBySlot
    <3>2. ASSUME NEW c \in Callers, CallerStep(c), \A f \in Events : Publish(c, f) => f # e
          PROVE  fate'[e] # "accepted"
      BY <1>0, <1>3, <3>2 DEF CallerStep, Publish, Schedule, Poke, TickCatchup, SendNote
    <3>3. Elapse \/ UNCHANGED vars => UNCHANGED fate
      BY DEF Elapse, vars
    <3> QED
      BY <1>3, <3>1, <3>2, <3>3 DEF Next
  <2>2. Send(Target[e], Fresh(e))
    BY <1>0, <2>1 DEF Publish
  <2>3. Fresh(e) \in Item /\ Target[e] \in Threads /\ Fresh(e).ev = e
    BY FreshType, ActorsAssumption DEF Fresh
  <2> QED
    BY <2>2, <2>3, KeptItems
<1>4. CASE fate[e] = "accepted"
  BY <1>1, <1>2, <1>4 DEF NoEventLost, Queued, InHand
<1> QED
  BY <1>3, <1>4

\* While no actor defers, an event whose publisher was told that it is
\* accepted waits in the queue of its thread or is being routed until it is
\* settled, whatever the sizes of the queues and however publishers, alarms
\* and signals wake the thread: taking the head of the queue in two places of
\* the loop loses nothing.
THEOREM NothingIsLost == ASSUME ~Deferring PROVE Spec => []NoEventLost
<1>1. TypeOK /\ DeferInv /\ Genuine /\ NoEventLost /\ [Next]_vars => NoEventLost'
  BY NotLostNext
<1> QED
  BY <1>1, NotLostInit, GenuineAlways, PTL DEF Spec

(***************************************************************************)
(* The threads implement the channels of EventBus, when events are         *)
(* published to threads that have a queue.                                 *)
(***************************************************************************)
EventsQueued == \A e \in Events : QueueSize[Target[e]] > 0

\* A thread without a queue is not told of events
Addressed ==
    /\ \A c \in Callers : caller[c].value \in Events =>
          caller[c].thread \in Threads /\ QueueSize[caller[c].thread] > 0
    /\ \A t \in Threads :
          /\ note[t] \in Events \/ got[t] \in Events => QueueSize[t] > 0
          /\ hand[t].ev \in Events => QueueSize[t] > 0

LEMMA InitAddressed == Init => Addressed
  BY EventsAssumption DEF Init, Addressed, Idle, Fresh

LEMMA NextAddressed ==
  ASSUME EventsQueued, ~Deferring, TypeOK, DeferInv, Genuine, Addressed, [Next]_vars
  PROVE  Addressed'
<1>0. /\ hand \in [Threads -> Item] /\ caller \in [Callers -> CallerState]
      /\ note \in [Threads -> Events \cup {NoEvent, Reschedule, Catchup}]
      /\ got \in [Threads -> Events \cup {NoEvent, Reschedule, Catchup}]
  BY DEF TypeOK
<1>1. ASSUME NEW c \in Callers, caller'[c].value \in Events
      PROVE  caller'[c].thread \in Threads /\ QueueSize[caller'[c].thread] > 0
  <2>1. ASSUME NEW b \in Callers, CallerStep(b)
        PROVE  caller'[c].thread \in Threads /\ QueueSize[caller'[c].thread] > 0
    <3>1. PICK rest : caller' = [caller EXCEPT ![b] = rest]
      BY <2>1 DEF CallerStep, Publish, Enter, Schedule, Poke, TickCatchup, SendNote
    <3>2. CASE c # b
      BY <1>0, <1>1, <3>1, <3>2 DEF Addressed
    <3>3. CASE c = b
      <4>1. ASSUME NEW e \in Events, Publish(b, e)
            PROVE  caller'[c].thread \in Threads /\ QueueSize[caller'[c].thread] > 0
        BY <1>0, <1>1, <3>3, <4>1, ActorsAssumption, EventsAssumption
        DEF Publish, Enter, Pending, Idle, EventsQueued
      <4>2. ASSUME ~ \E e \in Events : Publish(b, e)
            PROVE  FALSE
        BY <1>0, <1>1, <2>1, <3>3, <4>2, EventsAssumption
        DEF CallerStep, Enter, Schedule, Poke, TickCatchup, SendNote, Pending, Idle
      <4> QED
        BY <4>1, <4>2
    <3> QED
      BY <3>2, <3>3
  <2>2. (\E t \in Threads : ThreadStep(t)) \/ Elapse \/ UNCHANGED vars => UNCHANGED caller
    BY DEF ThreadStep, Deliver, Skip, Fault, RequeueDeferred, Finish, Shift, NothingToShift,
           Await, Block, Take, WakeByAlarm, SleepAgain, WakeByQueue, WakeBySlot, callerVars,
           Elapse, vars
  <2> QED
    BY <1>1, <2>1, <2>2 DEF Next, Addressed
<1>2. ASSUME NEW t \in Threads, note'[t] \in Events \/ got'[t] \in Events
      PROVE  QueueSize[t] > 0
  <2>1. ASSUME NEW u \in Threads, ThreadStep(u)
        PROVE  QueueSize[t] > 0
    <3>1. CASE Take(u)
      BY <1>0, <1>2, <3>1, EventsAssumption DEF Take, Addressed
    <3>2. CASE ~Take(u)
      <4>1. UNCHANGED note
        BY <2>1, <3>2 DEF ThreadStep, Deliver, Skip, Fault, RequeueDeferred, Finish, Shift,
                          NothingToShift, Await, Block, WakeByAlarm, SleepAgain, WakeByQueue,
                          WakeBySlot
      <4>2. UNCHANGED got \/ got' = [got EXCEPT ![u] = NoEvent]
        BY <2>1, <3>2 DEF ThreadStep, Deliver, Skip, Fault, RequeueDeferred, Finish, Shift,
                          NothingToShift, Await, Block, WakeByAlarm, SleepAgain, WakeByQueue,
                          WakeBySlot, ReadClock, Forget
      <4> QED
        BY <1>0, <1>2, <4>1, <4>2, EventsAssumption DEF Addressed
    <3> QED
      BY <3>1, <3>2
  <2>2. ASSUME NEW c \in Callers, SendNote(c)
        PROVE  QueueSize[t] > 0
    BY <1>0, <1>2, <2>2 DEF SendNote, Notify, threadVars, Addressed
  <2>3. ASSUME NEW c \in Callers, CallerStep(c), ~SendNote(c)
        PROVE  UNCHANGED <<note, got>>
    BY <2>3 DEF CallerStep, Publish, Schedule, Poke, TickCatchup, threadVars
  <2>4. Elapse \/ UNCHANGED vars => UNCHANGED <<note, got>>
    BY DEF Elapse, vars, threadVars
  <2> QED
    BY <1>2, <2>1, <2>2, <2>3, <2>4 DEF Next, Addressed
<1>3. ASSUME NEW t \in Threads, hand'[t].ev \in Events
      PROVE  QueueSize[t] > 0
  <2>1. ASSUME NEW u \in Threads, Deliver(u) \/ Skip(u)
        PROVE  hand'[t].ev = hand[t].ev
    <3>1. PICK s : hand' = [hand EXCEPT ![u].status = s]
      BY <2>1 DEF Deliver, Skip, Continue
    <3> QED
      BY <1>0, <3>1 DEF Item
  <2>2. ASSUME NEW u \in Threads, Shift(u) \/ WakeByQueue(u)
        PROVE  QueueSize[t] > 0
    <3>1. CASE u = t
      <4>1. queue[t] \in Seq(Item) /\ queue[t] # <<>> /\ Len(queue[t]) <= QueueSize[t]
        BY <2>2, <3>1 DEF Shift, WakeByQueue, TypeOK
      <4>2. Len(queue[t]) \in Nat \ {0} /\ QueueSize[t] \in Nat
        BY <4>1, ThreadsAssumption
      <4> QED
        BY <4>1, <4>2
    <3>2. CASE u # t
      <4>1. hand'[t] = hand[t]
        BY <1>0, <2>2, <3>2 DEF Shift, WakeByQueue, Begin
      <4> QED
        BY <1>3, <4>1 DEF Addressed
    <3> QED
      BY <3>1, <3>2
  <2>3. ASSUME NEW u \in Threads, WakeByAlarm(u)
        PROVE  hand'[t].ev \in Events => hand'[t] = hand[t]
    <3>1. hand' = [hand EXCEPT ![u] = Fresh(Alarm)] /\ Fresh(Alarm).ev \notin Events
      BY <2>3, EventsAssumption DEF WakeByAlarm, Begin, Fresh
    <3> QED
      BY <1>0, <3>1
  <2>4. ASSUME NEW u \in Threads, WakeBySlot(u)
        PROVE  hand'[t] = hand[t]
    <3>1. got[u] = Catchup
      BY <2>4 DEF WakeBySlot, Addressed
    <3>2. hand' = [hand EXCEPT ![u] = hand[u]]
      BY <2>4, <3>1 DEF WakeBySlot, Begin
    <3> QED
      BY <1>0, <3>2
  <2>5. ASSUME NEW u \in Threads,
               Finish(u) \/ NothingToShift(u) \/ Await(u) \/ Block(u) \/ Take(u) \/ SleepAgain(u)
        PROVE  UNCHANGED hand
    BY <2>5 DEF Finish, NothingToShift, Await, Block, Take, SleepAgain
  <2>6. (\E c \in Callers : CallerStep(c)) \/ Elapse \/ UNCHANGED vars => UNCHANGED hand
    BY DEF CallerStep, Publish, Schedule, Poke, TickCatchup, SendNote, Elapse, vars, threadVars
  <2>7. hand'[t].ev = hand[t].ev => QueueSize[t] > 0
    BY <1>3 DEF Addressed
  <2> QED
    BY <1>3, <2>1, <2>2, <2>3, <2>4, <2>5, <2>6, <2>7, NoDetour DEF Next, ThreadStep
<1> QED
  BY <1>1, <1>2, <1>3 DEF Addressed

\* The names of a queue's events, after one was sent and after one was taken
LEMMA NamesOf ==
  ASSUME NEW q \in Seq(Item)
  PROVE  /\ Len(Names(q)) = Len(q) /\ Names(q) \in Seq(Events \cup {Start, Alarm, Wild})
         /\ DOMAIN Names(q) = 1 .. Len(q) /\ Len(q) \in Nat
         /\ \A i \in 1 .. Len(q) : Names(q)[i] = q[i].ev
<1>1. PICK n \in Nat : n = Len(q) /\ DOMAIN q = 1 .. n
  OBVIOUS
<1>2. Names(q) = [i \in 1 .. n |-> q[i].ev]
  BY <1>1 DEF Names
<1>3. \A i \in 1 .. n : q[i].ev \in Events \cup {Start, Alarm, Wild}
  <2>1. \A i \in 1 .. n : q[i] \in Item
    BY <1>1
  <2> QED
    BY <2>1 DEF Item
<1>4. Names(q) \in [1 .. n -> Events \cup {Start, Alarm, Wild}]
  BY <1>2, <1>3
<1>5. Names(q) \in Seq(Events \cup {Start, Alarm, Wild})
  BY <1>4, SeqDef
<1>6. Len(Names(q)) = n
  BY <1>1, <1>4, <1>5
<1> QED
  BY <1>1, <1>2, <1>5, <1>6

LEMMA NamesAppend ==
  ASSUME NEW q \in Seq(Item), NEW x \in Item
  PROVE  Names(Append(q, x)) = Append(Names(q), x.ev)
<1> DEFINE E == Events \cup {Start, Alarm, Wild}
<1>1. Append(q, x) \in Seq(Item) /\ x.ev \in E
  BY DEF Item
<1>2. /\ Names(Append(q, x)) \in Seq(E) /\ Names(q) \in Seq(E)
      /\ Len(Names(Append(q, x))) = Len(Append(q, x)) /\ Len(Names(q)) = Len(q)
      /\ \A i \in 1 .. Len(Append(q, x)) : Names(Append(q, x))[i] = Append(q, x)[i].ev
      /\ \A i \in 1 .. Len(q) : Names(q)[i] = q[i].ev
  BY <1>1, NamesOf
<1>3. /\ Len(Append(q, x)) = Len(q) + 1 /\ Append(q, x)[Len(q) + 1] = x /\ Len(q) \in Nat
      /\ \A i \in 1 .. Len(q) : Append(q, x)[i] = q[i]
  BY AppendProperties
<1> HIDE DEF E
<1>4. /\ Append(Names(q), x.ev) \in Seq(E) /\ Len(Append(Names(q), x.ev)) = Len(q) + 1
      /\ Append(Names(q), x.ev)[Len(q) + 1] = x.ev
      /\ \A i \in 1 .. Len(q) : Append(Names(q), x.ev)[i] = Names(q)[i]
  BY <1>1, <1>2, AppendProperties
<1>5. ASSUME NEW i \in 1 .. Len(q) + 1
      PROVE  Names(Append(q, x))[i] = Append(Names(q), x.ev)[i]
  <2>1. CASE i = Len(q) + 1
    BY <1>2, <1>3, <1>4, <2>1
  <2>2. CASE i \in 1 .. Len(q)
    BY <1>2, <1>3, <1>4, <2>2
  <2>3. i = Len(q) + 1 \/ i \in 1 .. Len(q)
    <3>1. PICK n \in Nat : n = Len(q)
      OBVIOUS
    <3>2. i \in 1 .. n + 1
      BY <3>1
    <3> QED
      BY <3>1, <3>2
  <2> QED
    BY <2>1, <2>2, <2>3
<1> QED
  BY <1>2, <1>3, <1>4, <1>5, SeqEqual

LEMMA NamesTail ==
  ASSUME NEW q \in Seq(Item), q # <<>>
  PROVE  /\ Names(q) # <<>> /\ Head(Names(q)) = Head(q).ev
         /\ Names(Tail(q)) = Tail(Names(q))
<1> DEFINE E == Events \cup {Start, Alarm, Wild}
<1>1. /\ Tail(q) \in Seq(Item) /\ Len(Tail(q)) = Len(q) - 1 /\ Len(q) \in Nat \ {0}
      /\ \A i \in 1 .. Len(q) - 1 : Tail(q)[i] = q[i + 1]
      /\ Head(q) = q[1]
  BY HeadTailProperties
<1>2. /\ Names(Tail(q)) \in Seq(E) /\ Names(q) \in Seq(E)
      /\ Len(Names(Tail(q))) = Len(q) - 1 /\ Len(Names(q)) = Len(q)
      /\ \A i \in 1 .. Len(q) - 1 : Names(Tail(q))[i] = Tail(q)[i].ev
      /\ \A i \in 1 .. Len(q) : Names(q)[i] = q[i].ev
  BY <1>1, NamesOf
<1> HIDE DEF E
<1>3. Names(q) # <<>>
  BY <1>1, <1>2
<1>4. Head(Names(q)) = Names(q)[1] /\ 1 \in 1 .. Len(q)
  BY <1>1, <1>2, <1>3
<1>5. /\ Tail(Names(q)) \in Seq(E) /\ Len(Tail(Names(q))) = Len(q) - 1
      /\ \A i \in 1 .. Len(q) - 1 : Tail(Names(q))[i] = Names(q)[i + 1]
  BY <1>2, <1>3, HeadTailProperties
<1>6. ASSUME NEW i \in 1 .. Len(q) - 1
      PROVE  Names(Tail(q))[i] = Tail(Names(q))[i]
  <2>1. i + 1 \in 1 .. Len(q)
    BY <1>1
  <2> QED
    BY <1>1, <1>2, <1>5, <2>1
<1>7. Names(Tail(q)) = Tail(Names(q))
  BY <1>2, <1>5, <1>6, SeqEqual
<1> QED
  BY <1>1, <1>2, <1>3, <1>4, <1>7

LEMMA BusInit == Init => Bus!Init
<1> SUFFICES ASSUME Init PROVE Bus!Init
  OBVIOUS
<1>1. \A t \in Threads : Names(queue[t]) = <<>>
  BY DEF Init, Names
<1>2. Buffered = [t \in Threads |-> <<>>]
  BY <1>1 DEF Buffered
<1>3. Serving = [t \in Threads |-> NoEvent]
  BY EventsAssumption DEF Init, Serving, Fresh
<1> QED
  BY <1>2, <1>3 DEF Init, Bus!Init

\* A publisher is answered
LEMMA BusPublish ==
  ASSUME EventsQueued, TypeOK, NEW c \in Callers, NEW e \in Events, Publish(c, e)
  PROVE  Bus!Accept(e) \/ Bus!Refuse(e)
<1> DEFINE t == Target[e]
<1>1. /\ t \in Threads /\ QueueSize[t] \in Nat /\ QueueSize[t] > 0
      /\ queue \in [Threads -> Seq(Item)] /\ queue[t] \in Seq(Item)
      /\ fate[e] = "unpublished" /\ UNCHANGED <<pc, hand>>
  BY ThreadsAssumption, ActorsAssumption DEF TypeOK, Publish, threadVars, EventsQueued
<1>2. Buffered[t] = Names(queue[t]) /\ Len(Buffered[t]) = Len(queue[t]) /\ Len(queue[t]) \in Nat
  BY <1>1, NamesOf DEF Buffered
<1>3. UNCHANGED Serving
  BY <1>1 DEF Serving
<1>4. CASE HasRoom(t)
  <2>1. /\ queue' = [queue EXCEPT ![t] = Append(queue[t], Fresh(e))]
        /\ fate' = [fate EXCEPT ![e] = "accepted"] /\ Len(queue[t]) < QueueSize[t]
    BY <1>1, <1>4 DEF Publish, Send, HasRoom
  <2>2. Names(Append(queue[t], Fresh(e))) = Append(Names(queue[t]), e)
    <3>1. Fresh(e) \in Item /\ Fresh(e).ev = e
      BY FreshType DEF Fresh
    <3> QED
      BY <1>1, <3>1, NamesAppend
  <2>3. Buffered' = [Buffered EXCEPT ![t] = Append(@, e)]
    BY <1>1, <2>1, <2>2 DEF Buffered
  <2> QED
    BY <1>1, <1>2, <1>3, <2>1, <2>3 DEF Bus!Accept
<1>5. CASE ~HasRoom(t)
  <2>1. UNCHANGED queue /\ fate' = [fate EXCEPT ![e] = "refused"]
    BY <1>1, <1>5 DEF Publish
  <2>2. Len(queue[t]) >= QueueSize[t]
    BY <1>1, <1>2, <1>5 DEF HasRoom
  <2>3. UNCHANGED Buffered
    BY <2>1 DEF Buffered
  <2> QED
    BY <1>1, <1>2, <1>3, <2>1, <2>2, <2>3 DEF Bus!Refuse
<1> QED
  BY <1>4, <1>5

\* A thread takes the event at the head of its queue
LEMMA BusServe ==
  ASSUME TypeOK, Genuine, NEW t \in Threads, Shift(t) \/ WakeByQueue(t)
  PROVE  Bus!Serve(t)
<1>1. /\ queue[t] # <<>> /\ queue' = [queue EXCEPT ![t] = Tail(queue[t])]
      /\ pc[t] # "dispatch" /\ pc' = [pc EXCEPT ![t] = "dispatch"]
      /\ hand' = [hand EXCEPT ![t] = Head(queue[t])] /\ UNCHANGED fate
  BY DEF Shift, WakeByQueue, Begin
<1>2. /\ queue \in [Threads -> Seq(Item)] /\ queue[t] \in Seq(Item)
      /\ hand \in [Threads -> Item]
      /\ pc \in [Threads -> {"dispatch", "shift", "await", "take", "blocked", "woken", "faulted"}]
  BY DEF TypeOK
<1>3. Head(queue[t]).ev \in Events
  <2>1. Head(queue[t]) = queue[t][1] /\ 1 \in DOMAIN queue[t]
    BY <1>1, Taken
  <2> QED
    BY <2>1 DEF Genuine
<1>4. /\ Buffered[t] = Names(queue[t]) /\ Buffered[t] # <<>>
      /\ Head(Buffered[t]) = Head(queue[t]).ev
      /\ Names(Tail(queue[t])) = Tail(Buffered[t])
  BY <1>1, <1>2, NamesTail DEF Buffered
<1>5. Buffered' = [Buffered EXCEPT ![t] = Tail(@)]
  BY <1>1, <1>2, <1>4 DEF Buffered
<1>6. Serving[t] = NoEvent /\ Serving' = [Serving EXCEPT ![t] = Head(Buffered[t])]
  BY <1>1, <1>2, <1>3, <1>4 DEF Serving
<1> QED
  BY <1>1, <1>4, <1>5, <1>6 DEF Bus!Serve

\* A thread is done with its event
LEMMA BusSettle ==
  ASSUME TypeOK, NEW t \in Threads, Finish(t)
  PROVE  Bus!Settle(t) \/ UNCHANGED <<Buffered, Serving, fate>>
<1>1. /\ pc[t] = "dispatch" /\ pc' = [pc EXCEPT ![t] = "shift"] /\ UNCHANGED <<queue, hand>>
      /\ fate' = IF hand[t].ev \in Events THEN [fate EXCEPT ![hand[t].ev] = "settled"] ELSE fate
  BY DEF Finish, Settle
<1>2. pc \in [Threads -> {"dispatch", "shift", "await", "take", "blocked", "woken", "faulted"}]
  BY DEF TypeOK
<1>3. UNCHANGED Buffered
  BY <1>1 DEF Buffered
<1>4. Serving' = [Serving EXCEPT ![t] = NoEvent]
  BY <1>1, <1>2 DEF Serving
<1>5. CASE hand[t].ev \in Events
  <2>1. Serving[t] = hand[t].ev /\ Serving[t] # NoEvent
    BY <1>1, <1>5, EventsAssumption DEF Serving
  <2> QED
    BY <1>1, <1>3, <1>4, <1>5, <2>1 DEF Bus!Settle
<1>6. CASE hand[t].ev \notin Events
  <2>1. UNCHANGED Serving
    BY <1>4, <1>6 DEF Serving
  <2> QED
    BY <1>1, <1>3, <1>6, <2>1
<1> QED
  BY <1>5, <1>6

\* The other steps of a thread are nothing that a publisher could tell
LEMMA BusStutter ==
  ASSUME TypeOK, Genuine, Addressed, NEW t \in Threads,
         \/ Deliver(t) \/ Skip(t) \/ NothingToShift(t) \/ Await(t) \/ Block(t) \/ Take(t)
         \/ WakeByAlarm(t) \/ SleepAgain(t) \/ WakeBySlot(t)
  PROVE  UNCHANGED <<Buffered, Serving, fate>>
<1>0. /\ hand \in [Threads -> Item]
      /\ pc \in [Threads -> {"dispatch", "shift", "await", "take", "blocked", "woken", "faulted"}]
  BY DEF TypeOK
<1>1. UNCHANGED <<queue, fate>>
  BY DEF Deliver, Skip, NothingToShift, Await, Block, Take, WakeByAlarm, SleepAgain, WakeBySlot
<1>2. UNCHANGED Buffered
  BY <1>1 DEF Buffered
<1>3. CASE Deliver(t) \/ Skip(t)
  <2>1. PICK s : hand' = [hand EXCEPT ![t].status = s]
    BY <1>3 DEF Deliver, Skip, Continue
  <2>2. UNCHANGED pc /\ \A u \in Threads : hand'[u].ev = hand[u].ev
    BY <1>0, <1>3, <2>1 DEF Deliver, Skip, Item
  <2> QED
    BY <1>1, <1>2, <2>2 DEF Serving
<1>4. CASE NothingToShift(t) \/ Await(t) \/ Block(t) \/ Take(t) \/ SleepAgain(t)
  <2>1. PICK p : p # "dispatch" /\ pc' = [pc EXCEPT ![t] = p] /\ pc[t] # "dispatch"
    BY <1>4 DEF NothingToShift, Await, Block, Take, SleepAgain
  <2>2. UNCHANGED hand
    BY <1>4 DEF NothingToShift, Await, Block, Take, SleepAgain
  <2> QED
    BY <1>0, <1>1, <1>2, <2>1, <2>2 DEF Serving
<1>5. CASE WakeByAlarm(t) \/ WakeBySlot(t)
  <2>1. PICK item : item.ev \notin Events /\ hand' = [hand EXCEPT ![t] = item]
    <3>1. CASE WakeByAlarm(t)
      <4>1. hand' = [hand EXCEPT ![t] = Fresh(Alarm)] /\ Fresh(Alarm).ev \notin Events
        BY <3>1, EventsAssumption DEF WakeByAlarm, Begin, Fresh
      <4> QED
        BY <4>1
    <3>2. CASE WakeBySlot(t)
      <4>1. got[t] = Catchup /\ hand[t].ev \notin Events
        BY <3>2 DEF WakeBySlot, Addressed
      <4>2. hand' = [hand EXCEPT ![t] = hand[t]]
        BY <3>2, <4>1 DEF WakeBySlot, Begin
      <4> QED
        BY <4>1, <4>2
    <3> QED
      BY <1>5, <3>1, <3>2
  <2>2. pc[t] # "dispatch" /\ pc' = [pc EXCEPT ![t] = "dispatch"]
    BY <1>5 DEF WakeByAlarm, WakeBySlot, Begin
  <2>3. UNCHANGED Serving
    BY <1>0, <2>1, <2>2 DEF Serving
  <2> QED
    BY <1>1, <1>2, <2>3
<1> QED
  BY <1>3, <1>4, <1>5

LEMMA BusNext ==
  ASSUME EventsQueued, ~Deferring, TypeOK, DeferInv, Genuine, Addressed, [Next]_vars
  PROVE  [Bus!Next]_(Bus!vars)
<1>1. UNCHANGED <<Buffered, Serving, fate>> => UNCHANGED Bus!vars
  BY DEF Bus!vars
<1>2. ASSUME NEW t \in Threads, ThreadStep(t)
      PROVE  Bus!Serve(t) \/ Bus!Settle(t) \/ UNCHANGED <<Buffered, Serving, fate>>
  BY <1>2, NoDetour, BusServe, BusSettle, BusStutter DEF ThreadStep
<1>3. ASSUME NEW c \in Callers, CallerStep(c), ~ \E e \in Events : Publish(c, e)
      PROVE  UNCHANGED <<Buffered, Serving, fate>>
  <2>1. UNCHANGED <<queue, pc, hand, fate>>
    BY <1>3 DEF CallerStep, Schedule, Poke, TickCatchup, SendNote, threadVars
  <2> QED
    BY <2>1 DEF Buffered, Serving
<1>4. Elapse \/ UNCHANGED vars => UNCHANGED <<Buffered, Serving, fate>>
  <2>1. Elapse \/ UNCHANGED vars => UNCHANGED <<queue, pc, hand, fate>>
    BY DEF Elapse, vars, threadVars
  <2> QED
    BY <2>1 DEF Buffered, Serving
<1>5. ASSUME NEW c \in Callers, NEW e \in Events, Publish(c, e)
      PROVE  Bus!Accept(e) \/ Bus!Refuse(e)
  BY <1>5, BusPublish
<1> QED
  BY <1>1, <1>2, <1>3, <1>4, <1>5 DEF Next, Bus!Next

\* While no actor defers and events are published to threads with a queue, the
\* threads implement bounded first-in first-out channels: a publisher is
\* refused only when the queue is full, and the events of a thread are served
\* one at a time in the order in which they were accepted.
THEOREM ThreadsImplementBus ==
  ASSUME EventsQueued, ~Deferring PROVE Spec => ImplementsBus
<1>1. Init => Bus!Init
  BY BusInit
<1>2. EventsQueued /\ ~Deferring
  OBVIOUS
<1>3. TypeOK /\ DeferInv /\ Genuine /\ Addressed /\ [Next]_vars => Addressed'
  BY NextAddressed
<1>4. TypeOK /\ DeferInv /\ Genuine /\ Addressed /\ [Next]_vars => [Bus!Next]_(Bus!vars)
  BY BusNext
<1> QED
  BY <1>1, <1>3, <1>4, InitAddressed, GenuineAlways, PTL DEF Spec, ImplementsBus, Bus!Spec
=============================================================================
