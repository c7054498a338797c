----------------------------- MODULE FlashTask -----------------------------
(***************************************************************************)
(* The task of the flash storage, src/src/storage/w25.c, run by            *)
(* src/src/core/task.c.  A request comes to the input thread, which stores *)
(* it and sets up the task; the task is a table of phases and steps, and   *)
(* the high-priority thread takes a step at each alarm of the actor.  A    *)
(* step asks the SPI transport for a write or a read; the interrupt that   *)
(* ends a write reports it to w25_on_event, which sets the next alarm.     *)
(*                                                                         *)
(* The input thread preempts the high-priority thread and interrupts come  *)
(* at any time.  The transport is known by what SpiTransport shows of it.  *)
(* A response is never stored for the task: tick_input compares its        *)
(* producer, an actor, with the SPI object.                                *)
(***************************************************************************)
EXTENDS Integers, Sequences

CONSTANTS
    Producers,      \* the actors that send requests to the storage
    Nobody,         \* the producer of ENABLE, and of an empty slot
    MaxStarts, MaxLost      \* bounds: requests, and messages the queue refuses

ASSUME FlashAssumption ==
    Nobody \notin Producers /\ MaxStarts \in Nat /\ MaxLost \in Nat

VARIABLES
    slot,       \* task.inciting_event
    task,       \* handler, phase_index, step_index
    alarm,      \* the tick of the high-priority thread has a next_time
    high,       \* where app_task_execute stands, and the signal it has
    writes, reads,      \* requests to the transport that it has yet to report
    crashed,    \* a NULL tick was used
    command,    \* history: a write was reported since the task was set up
    owed,       \* history: a request came that has yet to be reported
    alone,      \* history: no request came before the last one was reported
    used        \* calls counted against the bounds

taskVars == <<slot, task>>
wireVars == <<writes, reads>>
historyVars == <<command, owed, alone>>
vars == <<taskVars, alarm, high, wireVars, crashed, historyVars, used>>

Kinds == {"INTROSPECTION", "WRITE", "READ", "LOCK", "UNLOCK"}
Request == [type : Kinds, from : Producers]
NoRequest == [type |-> "IDLE", from |-> Nobody]
Enable == [type |-> "ENABLE", from |-> Nobody]
Waiting == [at |-> "idle", signal |-> "OK"]

(***************************************************************************)
(* The handlers: what is done at each step of each phase.  The last step   *)
(* of a phase, and the last phase, are the "default" of their switch.      *)
(***************************************************************************)
Poll == <<"write", "read", "test">>         \* step_wait_until_ready
Fetch == <<"write", "read", "complete">>    \* step_fetch
Send == <<"write", "complete">>             \* step_send, step_set_lock
Pages == <<"write", "page", "write", "page">>
End == <<"end">>

Phases(kind) ==
    IF kind = "INTROSPECTION" THEN <<Poll, Fetch, End>>
    ELSE IF kind = "WRITE" THEN <<End, Poll, Pages, End>>
    ELSE IF kind = "READ" THEN <<End>>
    ELSE <<Poll, Send, End>>

At(s, i) == s[IF i < Len(s) THEN i + 1 ELSE Len(s)]
Act == At(At(Phases(task.handler), task.phase), task.step)

(***************************************************************************)
(* The input thread: actor_event_handle_and_start_task.  The slot is taken *)
(* whatever it holds.                                                      *)
(***************************************************************************)
Start(q) ==
    /\ ~crashed /\ used.starts < MaxStarts
    /\ used' = [used EXCEPT !.starts = @ + 1]
    /\ slot' = q
    /\ task' = [handler |-> q.type, phase |-> 0, step |-> 0]
    /\ alarm' = TRUE /\ command' = FALSE /\ owed' = TRUE /\ alone' = (alone /\ ~owed)
    /\ UNCHANGED <<high, wireVars, crashed>>

(***************************************************************************)
(* The high-priority thread                                                *)
(***************************************************************************)
\* Mutant of Alarm: the tick keeps its time
AlarmKept ==
    /\ ~crashed /\ high.at = "idle" /\ alarm
    /\ high' = [at |-> "handler", signal |-> "OK"]
    /\ UNCHANGED <<taskVars, alarm, wireVars, crashed, historyVars, used>>

\* app_thread_event_actor_dispatch: the time is reset before the callback,
\* w25_tick_high_priority
Alarm ==
    /\ ~crashed /\ high.at = "idle" /\ alarm
    /\ alarm' = FALSE
    /\ high' = [at |-> "handler", signal |-> "OK"]
    /\ UNCHANGED <<taskVars, wireVars, crashed, historyVars, used>>

\* A message is refused if the queue of the input thread is full
Lose ==
    /\ used.lost < MaxLost /\ used' = [used EXCEPT !.lost = @ + 1]
    /\ UNCHANGED wireVars

\* step_write_spi: a write that overtakes another may end it
SendWrite ==
    /\ ~crashed /\ high.at = "handler" /\ Act = "write"
    /\ high' = [at |-> "advance", signal |-> "STEP_WAIT"]
    /\ \/ /\ writes' \in (IF writes = 0 THEN {1} ELSE {writes, writes + 1})
          /\ UNCHANGED <<reads, used>>
       \/ Lose
    /\ UNCHANGED <<taskVars, alarm, crashed, historyVars>>

\* step_read_spi
SendRead ==
    /\ ~crashed /\ high.at = "handler" /\ Act = "read"
    /\ high' = [at |-> "advance", signal |-> "STEP_WAIT"]
    /\ \/ reads' = 1 /\ UNCHANGED <<writes, used>>
       \/ Lose
    /\ UNCHANGED <<taskVars, alarm, crashed, historyVars>>

\* The steps that send nothing.  The byte that is tested is read through the
\* NULL data of an empty event, and may have any value.
Signals(act) ==
    IF act \in {"test", "page"} THEN {"STEP_RETRY", "STEP_COMPLETE"}
    ELSE IF act = "complete" THEN {"STEP_COMPLETE"}
    ELSE IF act = "end" THEN {"COMPLETE"} ELSE {}

Decide ==
    /\ ~crashed /\ high.at = "handler"
    /\ \E signal \in Signals(Act) :
          high' = [at |-> "advance", signal |-> signal]
    /\ UNCHANGED <<taskVars, alarm, wireVars, crashed, historyVars, used>>

Advanced(signal) ==
    IF signal = "COMPLETE" THEN [task EXCEPT !.phase = @ + 1]
    ELSE [task EXCEPT !.step = IF signal = "STEP_RETRY" THEN 0 ELSE @ + 1]

\* Mutant of Then: the task is finalized after every step
ThenAlways(signal) == [high EXCEPT !.at = "finalize"]

\* What app_task_execute does next
Then(signal) == IF signal = "COMPLETE" THEN [high EXCEPT !.at = "finalize"] ELSE Waiting

\* Mutant of Advance: the time of the tick is reset after the callback
AdvanceThenReset ==
    /\ ~crashed /\ high.at = "advance"
    /\ task' = Advanced(high.signal) /\ high' = Then(high.signal)
    /\ alarm' = FALSE
    /\ UNCHANGED <<slot, wireVars, crashed, historyVars, used>>

\* app_task_advance, for the signals the handlers give
Advance ==
    /\ ~crashed /\ high.at = "advance"
    /\ task' = Advanced(high.signal) /\ high' = Then(high.signal)
    /\ UNCHANGED <<slot, alarm, wireVars, crashed, historyVars, used>>

\* app_task_finalize: the producer is told of whatever request the slot holds
\* by now.  It may send the next one before it returns.
Report ==
    /\ ~crashed /\ high.at = "finalize" /\ slot # NoRequest
    /\ high' = [at |-> "erase", signal |-> "OK"] /\ owed' = FALSE
    /\ UNCHANGED <<taskVars, alarm, wireVars, crashed, command, alone, used>>

\* The slot is emptied, whatever it holds by now; there is nothing to report
\* or to empty if it was empty.  Then actor_tick_catchup of a NULL tick.
Finish ==
    /\ ~crashed /\ high' = Waiting
    /\ high.at = "erase" \/ (high.at = "finalize" /\ slot = NoRequest)
    /\ slot' = NoRequest /\ crashed' \in BOOLEAN
    /\ UNCHANGED <<task, alarm, wireVars, historyVars, used>>

(***************************************************************************)
(* The transport reports: w25_on_event                                     *)
(***************************************************************************)
\* Mutant of SetsAlarm: whatever is reported
SetsAlarmAlways(type) == TRUE

SetsAlarm(type) == type = "WRITE"

\* Mutant of WriteReported: an interrupt that has no write is taken for one
WriteReportedAlways ==
    /\ ~crashed /\ writes' = writes - 1
    /\ alarm' = (alarm \/ SetsAlarm("WRITE")) /\ command' = TRUE
    /\ UNCHANGED <<taskVars, high, reads, crashed, owed, alone, used>>

WriteReported ==
    /\ ~crashed /\ writes > 0 /\ writes' = writes - 1
    /\ alarm' = (alarm \/ SetsAlarm("WRITE")) /\ command' = TRUE
    /\ UNCHANGED <<taskVars, high, reads, crashed, owed, alone, used>>

ReadReported ==
    /\ ~crashed /\ reads > 0 /\ reads' = 0
    /\ alarm' = (alarm \/ SetsAlarm("READ"))
    /\ UNCHANGED <<taskVars, high, writes, crashed, historyVars, used>>

Init ==
    /\ slot = Enable        \* w25_start; no alarm: there is no background tick
    /\ task = [handler |-> "ENABLE", phase |-> 0, step |-> 0]
    /\ alarm = FALSE /\ high = Waiting /\ writes = 0 /\ reads = 0
    /\ crashed = FALSE /\ command = FALSE /\ owed = FALSE /\ alone = TRUE
    /\ used = [starts |-> 0, lost |-> 0]

Execute == SendWrite \/ SendRead \/ Decide \/ Advance \/ Report \/ Finish

Next == (\E q \in Request : Start(q)) \/ Alarm \/ Execute \/ WriteReported \/ ReadReported

Spec == Init /\ [][Next]_vars

\* The high-priority thread runs
FairSpec == Spec /\ WF_vars(Alarm \/ Execute)

(***************************************************************************)
(* Properties                                                              *)
(***************************************************************************)
TypeOK ==
    /\ slot \in Request \cup {NoRequest, Enable}
    /\ task \in [handler : Kinds \cup {"ENABLE"}, phase : Nat, step : Nat]
    /\ alarm \in BOOLEAN /\ crashed \in BOOLEAN
    /\ command \in BOOLEAN /\ owed \in BOOLEAN /\ alone \in BOOLEAN
    /\ high \in [at : {"idle", "handler", "advance", "finalize", "erase"},
                 signal : {"OK", "COMPLETE", "STEP_RETRY", "STEP_WAIT", "STEP_COMPLETE"}]
    /\ writes \in Nat /\ reads \in {0, 1}
    /\ used \in [starts : 0 .. MaxStarts, lost : 0 .. MaxLost]

\* While requests come one at a time, the flash is asked for a reply only
\* when the command it replies to has been sent: the read follows the report
\* of the task's own write.
ReadFollowsCommand ==
    [][alone /\ high.at = "handler" /\ Act = "read" /\ high' # high => command]_vars

\* While requests come one at a time, no step looks at a status byte that was
\* never stored (task.awaited_event.data is NULL).
NoStatusWithoutResponse == alone /\ high.at = "handler" => Act # "test"

\* A write that was reported is followed by the next step, wherever in the
\* execution of the last step its interrupt came.
AckContinues == command ~> task.step >= 2 \/ ~alone \/ crashed

\* actor.c:79: "Check if destination can store the incoming event, otherwise
\* actor will be considered busy": a request is not replaced by the next one.
OccupiedSlotKept == [][slot.from # Nobody => slot' \in {slot, NoRequest}]_slot

\* A client that waits for the report of its request sees a handshake: the
\* task is run for it, and it is reported once, and not before the task is
\* complete.  A request that does not wait may fail; so does one that is sent
\* from within the report of the last, if it is stored before the slot is
\* emptied: it is never reported.
RequestState ==
    IF ~alone THEN "failed" ELSE IF ~owed THEN "idle"
    ELSE IF slot = NoRequest THEN "failed"
    ELSE IF high.signal = "COMPLETE" THEN "served" ELSE "asked"

Client == INSTANCE Handshake WITH state <- RequestState
RequestsShakeHands == Client!Spec
=============================================================================
