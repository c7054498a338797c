-------------------------- MODULE FlashTask_proofs --------------------------
(***************************************************************************)
(* Proofs about the task of the flash storage while requests come one at a *)
(* time: for any number of clients, requests and refused messages.         *)
(***************************************************************************)
EXTENDS FlashTask, TLAPS

\* The requests whose task polls the flash first, and those whose task ends
\* in its first phase
Polling == {"INTROSPECTION", "LOCK", "UNLOCK"}
Ending == {"WRITE", "READ"}

\* Nothing is under way
Calm == ~alarm /\ writes = 0 /\ reads = 0

\* No request; a request that was reported, and is about to be erased; one that
\* came before that and was erased in its place, when its task has ended
Erasing == [at |-> "erase", signal |-> "OK"]
Resting == ~owed /\ slot.from = Nobody /\ high = Waiting /\ Calm
Reported == ~owed /\ high = Erasing /\ Calm
Lost == owed /\ slot = NoRequest /\ high = Waiting /\ Calm

\* A task is set up, maybe before the slot of the last was emptied
SetUp == high \in {Waiting, Erasing} /\ alarm /\ writes = 0 /\ reads = 0

\* A handler is about to be called
Handling == high.at = "handler" /\ high.signal = "OK" /\ Calm

\* The task of a request that ends in its first phase
Direct ==
    /\ task.handler \in Ending /\ writes = 0 /\ reads = 0
    /\ \/ task.phase = 0 /\ task.step = 0 /\ SetUp
       \/ task.phase = 0 /\ task.step = 0 /\ Handling
       \/ high.at \in {"advance", "finalize"} /\ high.signal = "COMPLETE" /\ ~alarm

\* The write of a step is under way, or was refused, or has been reported
Sent == (writes = 1 /\ ~alarm) \/ (writes = 0 /\ (alarm => command))

Sending == high.at = "advance" /\ high.signal = "STEP_WAIT"

\* The three steps of polling.  Nothing sets the alarm that the third needs.
Commanding ==
    /\ task.step = 0
    /\ \/ SetUp
       \/ Handling
       \/ Sending /\ Sent /\ reads = 0

Asking ==
    /\ task.step = 1
    /\ \/ high = Waiting /\ Sent /\ reads = 0
       \/ Handling /\ command
       \/ Sending /\ ~alarm /\ writes = 0

Stuck == task.step = 2 /\ high = Waiting /\ ~alarm /\ writes = 0

\* The slot holds the request that is worked on, or it was erased
Held == slot.from \in Producers \/ slot = NoRequest

AloneInv ==
    alone =>
        \/ Resting \/ Reported \/ Lost
        \/ owed /\ Held /\ Direct
        \/ /\ owed /\ Held /\ task.handler \in Polling /\ task.phase = 0
           /\ Commanding \/ Asking \/ Stuck

IInv == TypeOK /\ AloneInv

(***************************************************************************)
(* The table of phases and steps                                           *)
(***************************************************************************)
LEMMA PollingActs ==
  ASSUME task.handler \in Polling, task.phase = 0
  PROVE  /\ task.step = 0 => Act = "write"
         /\ task.step = 1 => Act = "read"
<1>1. Phases(task.handler) = <<Poll, Fetch, End>> \/ Phases(task.handler) = <<Poll, Send, End>>
  BY DEF Phases, Polling
<1>2. At(<<Poll, Fetch, End>>, 0) = Poll
  BY DEF At
<1>3. At(<<Poll, Send, End>>, 0) = Poll
  BY DEF At
<1>4. At(Phases(task.handler), 0) = Poll
  BY <1>1, <1>2, <1>3, Zenon
<1>5. At(Poll, 0) = "write" /\ At(Poll, 1) = "read"
  BY DEF At, Poll
<1> QED
  BY <1>4, <1>5 DEF Act

LEMMA EndingActs ==
  ASSUME task.handler \in Ending, task.phase = 0, task.step = 0
  PROVE  Act = "end"
<1>1. At(End, 0) = "end" /\ At(<<End>>, 0) = End
  BY DEF At, End
<1>2. At(<<End, Poll, Pages, End>>, 0) = End
  BY DEF At
<1>3. Phases(task.handler) = <<End, Poll, Pages, End>> \/ Phases(task.handler) = <<End>>
  BY DEF Phases, Ending
<1>4. At(Phases(task.handler), 0) = End
  BY <1>1, <1>2, <1>3, Zenon
<1> QED
  BY <1>1, <1>4 DEF Act

(***************************************************************************)
(* Types                                                                   *)
(***************************************************************************)
TaskType == [handler : Kinds \cup {"ENABLE"}, phase : Nat, step : Nat]
HighType ==
    [at : {"idle", "handler", "advance", "finalize", "erase"},
     signal : {"OK", "COMPLETE", "STEP_RETRY", "STEP_WAIT", "STEP_COMPLETE"}]

LEMMA InitInv == Init => IInv
<1> SUFFICES ASSUME Init PROVE IInv
  OBVIOUS
<1>1. TypeOK
  <2>1. 0 \in 0 .. MaxStarts /\ 0 \in 0 .. MaxLost
    BY FlashAssumption
  <2> QED
    BY <2>1 DEF Init, TypeOK, Enable, Waiting
<1>2. Resting
  BY DEF Init, Resting, Calm, Enable
<1> QED
  BY <1>1, <1>2 DEF IInv, AloneInv

LEMMA LoseType ==
  ASSUME TypeOK, Lose
  PROVE  UNCHANGED wireVars /\ used' \in [starts : 0 .. MaxStarts, lost : 0 .. MaxLost]
  BY FlashAssumption DEF TypeOK, Lose

LEMMA TypeStep ==
  ASSUME TypeOK, [Next]_vars
  PROVE  TypeOK'
<1>1. ASSUME NEW q \in Request, Start(q)
      PROVE  TypeOK'
  <2>1. used' \in [starts : 0 .. MaxStarts, lost : 0 .. MaxLost]
    BY <1>1, FlashAssumption DEF TypeOK, Start
  <2>2. task' \in TaskType
    BY <1>1 DEF Start, TaskType, Request
  <2> QED
    BY <1>1, <2>1, <2>2 DEF TypeOK, Start, TaskType, wireVars
<1>2. CASE Alarm
  BY <1>2 DEF TypeOK, Alarm, taskVars, wireVars, historyVars
<1>3. CASE SendWrite
  <2>1. UNCHANGED <<taskVars, alarm, crashed, historyVars>> /\ high' \in HighType
    BY <1>3 DEF SendWrite, HighType
  <2>2. writes' \in Nat /\ reads' \in {0, 1}
        /\ used' \in [starts : 0 .. MaxStarts, lost : 0 .. MaxLost]
    BY <1>3, LoseType DEF TypeOK, SendWrite, wireVars
  <2> QED
    BY <2>1, <2>2 DEF TypeOK, taskVars, historyVars, HighType
<1>4. CASE SendRead
  <2>1. UNCHANGED <<taskVars, alarm, crashed, historyVars>> /\ high' \in HighType
    BY <1>4 DEF SendRead, HighType
  <2>2. writes' \in Nat /\ reads' \in {0, 1}
        /\ used' \in [starts : 0 .. MaxStarts, lost : 0 .. MaxLost]
    BY <1>4, LoseType DEF TypeOK, SendRead, wireVars
  <2> QED
    BY <2>1, <2>2 DEF TypeOK, taskVars, historyVars, HighType
<1>5. CASE Decide
  <2>1. high' \in HighType
    BY <1>5 DEF Decide, Signals, HighType
  <2> QED
    BY <1>5, <2>1 DEF TypeOK, Decide, HighType, taskVars, wireVars, historyVars
<1>6. CASE Advance
  <2>1. high' \in HighType
    BY <1>6 DEF TypeOK, Advance, Then, Waiting, HighType
  <2>2. task' \in TaskType
    BY <1>6 DEF TypeOK, Advance, Advanced, TaskType
  <2> QED
    BY <1>6, <2>1, <2>2 DEF TypeOK, Advance, HighType, TaskType, wireVars, historyVars
<1>7. CASE Finish
  BY <1>7 DEF TypeOK, Finish, Waiting, wireVars, historyVars
<1>11. CASE Report
  BY <1>11 DEF TypeOK, Report, taskVars, wireVars
<1>8. CASE WriteReported
  BY <1>8 DEF TypeOK, WriteReported, SetsAlarm, taskVars
<1>9. CASE ReadReported
  BY <1>9 DEF TypeOK, ReadReported, SetsAlarm, taskVars, historyVars
<1>10. CASE UNCHANGED vars
  BY <1>10 DEF TypeOK, vars, taskVars, wireVars, historyVars
<1> QED
  BY <1>1, <1>2, <1>3, <1>4, <1>5, <1>6, <1>7, <1>8, <1>9, <1>10, <1>11 DEF Next, Execute

(***************************************************************************)
(* While requests come one at a time                                       *)
(***************************************************************************)
\* The two ways the task of a single request can be
Served == owed /\ Held /\ Direct
Polled ==
    /\ owed /\ Held /\ task.handler \in Polling /\ task.phase = 0
    /\ Commanding \/ Asking \/ Stuck

\* A request that comes alone finds the task at rest, or about to be, and sets
\* it up.
LEMMA StartAlone ==
  ASSUME IInv, NEW q \in Request, Start(q), alone'
  PROVE  Served' \/ Polled'
<1>1. Resting \/ Reported
  BY DEF IInv, AloneInv, Start, Lost
<1>2. slot'.from \in Producers /\ task'.handler = q.type /\ task'.phase = 0 /\ task'.step = 0
  BY DEF Start, Request
<1>3. owed' /\ SetUp' /\ writes' = 0 /\ reads' = 0
  BY <1>1 DEF Resting, Reported, Calm, SetUp, Start, wireVars
<1>4. q.type \in Ending \/ q.type \in Polling
  BY DEF Request, Kinds, Ending, Polling
<1>5. CASE q.type \in Ending
  BY <1>2, <1>3, <1>5 DEF Served, Held, Direct
<1>6. CASE q.type \in Polling
  BY <1>2, <1>3, <1>6 DEF Polled, Held, Commanding
<1> QED
  BY <1>4, <1>5, <1>6

\* A task at rest stays so until a request comes.
LEMMA RestingStep ==
  ASSUME high = Waiting, Calm, TypeOK, Alarm \/ Execute \/ WriteReported \/ ReadReported
  PROVE  FALSE
<1>1. ~Alarm /\ ~WriteReported /\ ~ReadReported
  BY DEF Calm, Alarm, WriteReported, ReadReported
<1>2. ~Execute
  BY DEF Waiting, Execute, SendWrite, SendRead, Decide, Advance, Report, Finish
<1> QED
  BY <1>1, <1>2

\* A request that was reported is erased.
LEMMA ReportedStep ==
  ASSUME Reported, TypeOK, Alarm \/ Execute \/ WriteReported \/ ReadReported
  PROVE  Finish /\ Resting'
<1>1. Finish
  BY DEF Reported, Calm, Erasing, Alarm, WriteReported, ReadReported, Execute, SendWrite,
         SendRead, Decide, Advance, Report
<1> QED
  BY <1>1 DEF Reported, Calm, Finish, Resting, NoRequest, wireVars, historyVars

\* A handler that is called at a step of the table can only do that step.
LEMMA EndOnly ==
  ASSUME Act = "end", Execute, high.at = "handler"
  PROVE  Decide /\ high' = [at |-> "advance", signal |-> "COMPLETE"]
<1>1. Decide
  BY DEF Execute, SendWrite, SendRead, Advance, Report, Finish
<1> QED
  BY <1>1 DEF Decide, Signals

LEMMA WriteOnly ==
  ASSUME Act = "write", Execute, high.at = "handler"
  PROVE  SendWrite
  BY DEF Execute, SendRead, Decide, Signals, Advance, Report, Finish

LEMMA ReadOnly ==
  ASSUME Act = "read", Execute, high.at = "handler"
  PROVE  SendRead
  BY DEF Execute, SendWrite, Decide, Signals, Advance, Report, Finish

Step == Alarm \/ Execute \/ WriteReported \/ ReadReported

\* A task that ends in its first phase: it is called once, and reported; or,
\* if its request was erased, it ends without a word.
LEMMA ServedStep ==
  ASSUME TypeOK, Served, Step
  PROVE  Served' \/ Reported' \/ Lost'
<1> USE DEF Served, Held
<1>1. ~WriteReported /\ ~ReadReported
  BY DEF Direct, WriteReported, ReadReported
<1>2. CASE Alarm
  BY <1>2 DEF Direct, SetUp, Erasing, Handling, Calm, Waiting, Alarm, taskVars, wireVars,
              historyVars
<1>3. CASE Execute /\ high.at = "handler"
  <2>1. task.phase = 0 /\ task.step = 0 /\ Handling
    BY <1>3 DEF Direct, SetUp, Waiting, Erasing
  <2>2. Act = "end"
    BY <2>1, EndingActs DEF Direct
  <2> QED
    BY <1>3, <2>1, <2>2, EndOnly DEF Direct, Handling, Calm, Decide, taskVars, wireVars,
                                     historyVars
<1>4. CASE Advance
  <2>1. high.signal = "COMPLETE" /\ ~alarm
    BY <1>4 DEF Direct, SetUp, Erasing, Handling, Waiting, Advance
  <2>2. high'.at = "finalize" /\ high'.signal = "COMPLETE"
    BY <1>4, <2>1 DEF Advance, Then, TypeOK
  <2>3. task'.handler = task.handler
    BY <1>4 DEF Advance, Advanced, TypeOK
  <2> QED
    BY <1>4, <2>1, <2>2, <2>3 DEF Direct, Advance, wireVars, historyVars
<1>5. CASE Report
  <2>1. ~alarm
    BY <1>5 DEF Report, Direct, SetUp, Erasing, Handling, Waiting
  <2> QED
    BY <1>5, <2>1 DEF Report, Direct, Reported, Erasing, Calm, wireVars
<1>6. CASE Finish /\ high.at = "finalize"
  <2>1. ~alarm
    BY <1>6 DEF Direct, SetUp, Erasing, Handling, Waiting
  <2> QED
    BY <1>6, <2>1 DEF Finish, Direct, Lost, Calm, wireVars, historyVars
<1>7. CASE Finish /\ high.at = "erase"
  <2>1. task.phase = 0 /\ task.step = 0 /\ SetUp
    BY <1>7 DEF Direct, Handling
  <2> QED
    BY <1>7, <2>1 DEF Finish, Direct, SetUp, wireVars, historyVars
<1> QED
  BY <1>1, <1>2, <1>3, <1>4, <1>5, <1>6, <1>7
     DEF Step, Execute, SendWrite, SendRead, Decide, Finish

\* The write of a task that polls: it is sent, reported or refused, and the
\* next step waits for the report.
LEMMA CommandingStep ==
  ASSUME TypeOK, Polled, Commanding, Step
  PROVE  Polled'
<1> USE DEF Polled, Held
<1>1. CASE Alarm
  BY <1>1 DEF Commanding, SetUp, Erasing, Handling, Calm, Sending, Waiting, Alarm, taskVars,
              wireVars, historyVars
<1>2. CASE Execute /\ high.at = "handler"
  <2>1. Handling
    BY <1>2 DEF Commanding, SetUp, Erasing, Sending, Waiting
  <2>2. SendWrite
    BY <1>2, PollingActs, WriteOnly DEF Commanding
  <2>3. writes' \in {0, 1} /\ reads' = 0
    BY <2>1, <2>2 DEF Handling, Calm, SendWrite, Lose, wireVars
  <2> QED
    BY <2>1, <2>2, <2>3 DEF Handling, Calm, SendWrite, Commanding, Sending, Sent, taskVars, historyVars
<1>3. CASE Advance
  <2>1. Sending /\ Sent /\ reads = 0
    BY <1>3 DEF Advance, Commanding, SetUp, Erasing, Handling, Waiting
  <2>2. high' = Waiting /\ task' = [task EXCEPT !.step = @ + 1]
    BY <1>3, <2>1 DEF Advance, Sending, Then, Advanced
  <2>3. task'.handler = task.handler /\ task'.phase = 0 /\ task'.step = 1
    BY <2>2 DEF TypeOK, Commanding
  <2>4. Sent' /\ reads' = 0 /\ slot' = slot /\ owed' = owed
    BY <1>3, <2>1 DEF Advance, Sent, wireVars, historyVars
  <2> QED
    BY <2>2, <2>3, <2>4 DEF Asking
<1>4. CASE WriteReported
  <2>1. Sending /\ ~alarm /\ writes = 1 /\ reads = 0
    BY <1>4 DEF WriteReported, Commanding, SetUp, Handling, Calm, Sent
  <2>2. writes' = 0 /\ command' /\ UNCHANGED <<taskVars, high, reads, owed>>
    BY <1>4, <2>1 DEF WriteReported
  <2> QED
    BY <2>1, <2>2 DEF Commanding, Sending, Sent, taskVars
<1>5. ~ReadReported
  BY DEF ReadReported, Commanding, SetUp, Handling, Calm
<1>6. ~Report
  BY DEF Report, Commanding, SetUp, Erasing, Handling, Sending, Waiting
<1>7. CASE Finish
  <2>1. SetUp
    BY <1>7 DEF Finish, Commanding, Handling, Sending
  <2> QED
    BY <1>7, <2>1 DEF Finish, Commanding, SetUp, wireVars, historyVars
<1> QED
  BY <1>1, <1>2, <1>3, <1>4, <1>5, <1>6, <1>7
     DEF Step, Execute, SendWrite, SendRead, Decide

\* The read that follows it.
LEMMA AskingStep ==
  ASSUME TypeOK, Polled, Asking, Step
  PROVE  Polled'
<1> USE DEF Polled, Held
<1>1. CASE Alarm
  <2>1. Sent /\ alarm /\ reads = 0
    BY <1>1 DEF Asking, Alarm, Handling, Sending, Waiting
  <2>2. writes = 0 /\ command
    BY <2>1 DEF Sent
  <2> QED
    BY <1>1, <2>1, <2>2 DEF Asking, Handling, Calm, Alarm, taskVars, wireVars, historyVars
<1>2. CASE Execute /\ high.at = "handler"
  <2>1. Handling
    BY <1>2 DEF Asking, Sending, Waiting
  <2>2. SendRead
    BY <1>2, PollingActs, ReadOnly DEF Asking
  <2> QED
    BY <2>1, <2>2 DEF Handling, Calm, SendRead, Lose, wireVars, Asking, Sending, taskVars, historyVars
<1>3. CASE Advance
  <2>1. Sending /\ ~alarm /\ writes = 0
    BY <1>3 DEF Advance, Asking, Handling, Waiting
  <2>2. high' = Waiting /\ task' = [task EXCEPT !.step = @ + 1]
    BY <1>3, <2>1 DEF Advance, Sending, Then, Advanced
  <2>3. task'.handler = task.handler /\ task'.phase = 0 /\ task'.step = 2
    BY <2>2 DEF TypeOK, Asking
  <2> QED
    BY <1>3, <2>1, <2>2, <2>3 DEF Advance, Stuck, wireVars, historyVars
<1>4. CASE WriteReported
  <2>1. high = Waiting /\ ~alarm /\ writes = 1 /\ reads = 0
    BY <1>4 DEF WriteReported, Asking, Handling, Calm, Sent
  <2>2. writes' = 0 /\ command' /\ UNCHANGED <<taskVars, high, reads, owed>>
    BY <1>4, <2>1 DEF WriteReported
  <2> QED
    BY <2>1, <2>2 DEF Asking, Sent, taskVars
<1>5. CASE ReadReported
  <2>1. Sending /\ ~alarm /\ writes = 0
    BY <1>5 DEF ReadReported, Asking, Handling, Calm
  <2>2. ~alarm' /\ UNCHANGED <<taskVars, high, writes, owed>>
    BY <1>5, <2>1 DEF ReadReported, SetsAlarm, historyVars
  <2> QED
    BY <2>1, <2>2 DEF Asking, Sending, taskVars
<1>6. ~Report /\ ~Finish
  BY DEF Report, Finish, Asking, Handling, Sending, Waiting
<1> QED
  BY <1>1, <1>2, <1>3, <1>4, <1>5, <1>6
     DEF Step, Execute, SendWrite, SendRead, Decide

\* No alarm takes the task to the third step.
LEMMA StuckStep ==
  ASSUME TypeOK, Polled, Stuck, Step
  PROVE  Polled'
<1>1. ReadReported
  BY DEF Step, Stuck, Waiting, Alarm, WriteReported,
         Execute, SendWrite, SendRead, Decide, Advance, Report, Finish
<1> QED
  BY <1>1 DEF ReadReported, SetsAlarm, Polled, Held, Stuck, taskVars, historyVars

LEMMA AloneStep ==
  ASSUME IInv, [Next]_vars
  PROVE  AloneInv'
<1> SUFFICES ASSUME alone' PROVE Resting' \/ Reported' \/ Lost' \/ Served' \/ Polled'
  BY DEF AloneInv, Served, Polled
<1>1. ASSUME NEW q \in Request, Start(q)
      PROVE  Served' \/ Polled'
  BY <1>1, StartAlone
<1>2. CASE Step
  <2>1. alone
    BY <1>2 DEF Step, Alarm, Execute, SendWrite, SendRead, Decide, Advance, Report, Finish,
                WriteReported, ReadReported, historyVars
  <2>2. Resting \/ Reported \/ Lost \/ Served \/ Polled
    BY <2>1 DEF IInv, AloneInv, Served, Polled
  <2>3. ~Resting /\ ~Lost
    BY <1>2, RestingStep DEF IInv, Step, Resting, Lost
  <2>4. CASE Served
    BY <1>2, <2>4, ServedStep DEF IInv
  <2>5. CASE Polled
    BY <1>2, <2>5, CommandingStep, AskingStep, StuckStep DEF IInv, Polled
  <2>6. CASE Reported
    BY <1>2, <2>6, ReportedStep DEF IInv, Step
  <2> QED
    BY <2>2, <2>3, <2>4, <2>5, <2>6
<1>3. CASE UNCHANGED vars
  <2>1. Resting' = Resting /\ Reported' = Reported /\ Lost' = Lost /\ Served' = Served
        /\ Polled' = Polled /\ alone' = alone
    BY <1>3 DEF vars, taskVars, wireVars, historyVars, Resting, Reported, Lost, Served, Polled,
                Held, Direct, SetUp, Calm, Handling, Commanding, Asking, Stuck, Sending, Sent
  <2> QED
    BY <2>1 DEF IInv, AloneInv, Served, Polled
<1> QED
  BY <1>1, <1>2, <1>3 DEF Next, Step

LEMMA Inductive == Spec => []IInv
<1>1. IInv /\ [Next]_vars => IInv'
  BY TypeStep, AloneStep DEF IInv
<1> QED
  BY InitInv, <1>1, PTL DEF Spec

(***************************************************************************)
(* The theorems                                                            *)
(***************************************************************************)
\* The types of the model's state, for any number of clients and requests.
THEOREM TypeCorrect == Spec => []TypeOK
<1>1. IInv => TypeOK
  BY DEF IInv
<1> QED
  BY Inductive, <1>1, PTL

\* While requests come one at a time, the status byte that step_wait_until_ready
\* tests is never looked at without a response: between the read and the test
\* nothing sets the alarm of the task.
THEOREM NoStatusIsTested == Spec => []NoStatusWithoutResponse
<1>1. IInv => NoStatusWithoutResponse
  <2> SUFFICES ASSUME IInv, alone, high.at = "handler" PROVE Act # "test"
    BY DEF NoStatusWithoutResponse
  <2>1. Served \/ Polled
    BY DEF IInv, AloneInv, Served, Polled, Resting, Reported, Lost, Waiting, Erasing
  <2>2. CASE Served
    BY <2>2, EndingActs DEF Served, Direct, SetUp, Waiting, Erasing
  <2>3. CASE Polled
    BY <2>3, PollingActs DEF Polled, Commanding, SetUp, Erasing, Asking, Stuck, Waiting
  <2> QED
    BY <2>1, <2>2, <2>3
<1> QED
  BY Inductive, <1>1, PTL

\* While requests come one at a time, w25_on_event has seen the report of the
\* task's write before a step asks for the reply.
THEOREM ReadsFollowCommands == Spec => ReadFollowsCommand
<1>1. IInv /\ [Next]_vars => [alone /\ high.at = "handler" /\ Act = "read" /\ high' # high => command]_vars
  <2> SUFFICES ASSUME IInv, alone, high.at = "handler", Act = "read" PROVE command
    OBVIOUS
  <2>1. Served \/ Polled
    BY DEF IInv, AloneInv, Served, Polled, Resting, Reported, Lost, Waiting, Erasing
  <2>2. ~Served
    BY EndingActs DEF Served, Direct, SetUp, Waiting, Erasing
  <2> QED
    BY <2>1, <2>2, PollingActs
       DEF Polled, Commanding, SetUp, Erasing, Asking, Stuck, Handling, Sending, Waiting
<1> QED
  BY Inductive, <1>1, PTL DEF Spec, ReadFollowsCommand

(***************************************************************************)
(* The handshake of a client                                               *)
(***************************************************************************)
LEMMA OthersFailed ==
  ASSUME ~alone
  PROVE  RequestState = "failed"
  BY DEF RequestState

LEMMA OwesNothing ==
  ASSUME alone, ~owed
  PROVE  RequestState = "idle"
  BY DEF RequestState

\* A request that was erased, before or after its task has ended
LEMMA ErasedState ==
  ASSUME owed, slot = NoRequest
  PROVE  RequestState = "failed"
  BY DEF RequestState

LEMMA HeldState ==
  ASSUME alone, owed, slot.from \in Producers
  PROVE  RequestState = IF high.signal = "COMPLETE" THEN "served" ELSE "asked"
  BY FlashAssumption DEF RequestState, NoRequest

LEMMA PolledSignal ==
  ASSUME Polled
  PROVE  high.signal # "COMPLETE"
  BY DEF Polled, Commanding, SetUp, Erasing, Asking, Stuck, Handling, Sending, Waiting

\* The second request of a client that did not wait.
LEMMA StartState ==
  ASSUME IInv, NEW q \in Request, Start(q)
  PROVE  [Client!Next]_RequestState
<1>1. CASE alone'
  <2>1. alone /\ ~owed /\ (Resting \/ Reported)
    BY <1>1 DEF IInv, AloneInv, Start, Lost
  <2>2. high'.signal # "COMPLETE"
    BY <2>1 DEF Resting, Reported, Erasing, Waiting, Start
  <2>3. slot'.from \in Producers /\ owed'
    BY DEF Start, Request
  <2>4. RequestState' = "asked"
    BY <1>1, <2>2, <2>3, FlashAssumption DEF RequestState, NoRequest
  <2> QED
    BY <2>1, <2>4, OwesNothing DEF Client!Next, Client!Ask
<1>2. CASE ~alone'
  <2>1. RequestState' = "failed"
    BY <1>2 DEF RequestState
  <2>2. CASE ~alone
    BY <2>1, <2>2, OthersFailed
  <2>3. CASE alone
    <3>1. owed
      BY <1>2, <2>3 DEF Start
    <3>2. RequestState \in {"asked", "served", "failed"}
      BY <2>3, <3>1 DEF RequestState
    <3> QED
      BY <2>1, <3>2 DEF Client!Next, Client!Fail
  <2> QED
    BY <2>2, <2>3
<1> QED
  BY <1>1, <1>2

\* The task of a request that the slot still holds: it is reported once, after
\* it was served, or it is erased.
LEMMA HeldStates ==
  ASSUME TypeOK, alone, alone', Served \/ Polled, slot.from \in Producers, Step
  PROVE  [Client!Next]_RequestState
<1>1. owed /\ RequestState = IF high.signal = "COMPLETE" THEN "served" ELSE "asked"
  BY HeldState DEF Served, Polled
<1>2. CASE Report
  <2>1. ~owed' /\ high.at = "finalize"
    BY <1>2 DEF Report
  <2>2. high.signal = "COMPLETE"
    BY <2>1 DEF Served, Direct, SetUp, Handling, Erasing, Waiting, Polled, Commanding, Asking,
                Stuck, Sending
  <2>3. RequestState' = "idle"
    BY <2>1 DEF RequestState
  <2> QED
    BY <1>1, <2>2, <2>3 DEF Client!Next, Client!Acknowledge
<1>3. CASE Finish
  <2>1. slot' = NoRequest /\ owed'
    BY <1>1, <1>3 DEF Finish, historyVars
  <2>2. RequestState' = "failed"
    BY <2>1 DEF RequestState
  <2> QED
    BY <1>1, <2>2 DEF Client!Next, Client!Fail
<1>4. CASE ~Report /\ ~Finish
  <2>1. slot' = slot /\ owed'
    BY <1>1, <1>4 DEF Step, Alarm, Execute, SendWrite, SendRead, Decide, Advance, WriteReported,
                      ReadReported, taskVars, historyVars
  <2>2. RequestState' = IF high'.signal = "COMPLETE" THEN "served" ELSE "asked"
    BY <2>1, FlashAssumption DEF RequestState, NoRequest
  <2>3. high.signal = "COMPLETE" => high'.signal = "COMPLETE"
    <3> SUFFICES ASSUME high.signal = "COMPLETE" PROVE high'.signal = "COMPLETE"
      OBVIOUS
    <3>1. Served
      BY PolledSignal
    <3>2. high.at \in {"advance", "finalize"} /\ ~alarm /\ writes = 0 /\ reads = 0
      BY <3>1 DEF Served, Direct, SetUp, Erasing, Handling, Waiting
    <3>3. Advance
      BY <1>4, <3>2 DEF Step, Alarm, Execute, SendWrite, SendRead, Decide, WriteReported,
                        ReadReported
    <3> QED
      BY <3>3 DEF Advance, Then, TypeOK
  <2> QED
    BY <1>1, <2>2, <2>3 DEF Client!Next, Client!Serve
<1> QED
  BY <1>2, <1>3, <1>4

LEMMA StepState ==
  ASSUME IInv, Step
  PROVE  [Client!Next]_RequestState
<1>1. alone' = alone
  BY DEF Step, Alarm, Execute, SendWrite, SendRead, Decide, Advance, Report, Finish,
         WriteReported, ReadReported, historyVars
<1>2. CASE ~alone
  BY <1>1, <1>2 DEF RequestState
<1>3. CASE alone
  <2>1. Reported \/ Served \/ Polled
    BY <1>3, RestingStep DEF IInv, AloneInv, Served, Polled, Step, Resting, Lost
  <2>2. CASE Reported
    <3>1. ~owed /\ ~owed'
      BY <2>2, ReportedStep DEF IInv, Step, Resting, Reported
    <3> QED
      BY <1>1, <1>3, <3>1 DEF RequestState
  <2>3. CASE slot.from \in Producers /\ ~Reported
    BY <1>1, <1>3, <2>1, <2>3, HeldStates DEF IInv
  <2>4. CASE slot = NoRequest /\ ~Reported
    <3>1. owed /\ ~Report
      BY <2>1, <2>4 DEF Served, Polled, Report
    <3>2. owed' /\ slot' = NoRequest
      BY <2>4, <3>1 DEF Step, Alarm, Execute, SendWrite, SendRead, Decide, Advance, Finish,
                        WriteReported, ReadReported, taskVars, historyVars
    <3> QED
      BY <2>4, <3>1, <3>2 DEF RequestState
  <2> QED
    BY <2>1, <2>2, <2>3, <2>4 DEF Served, Polled, Held
<1> QED
  BY <1>2, <1>3

\* A client that waits for the report of its request sees a handshake with the
\* storage: asked, served, acknowledged, or never acknowledged if the transport
\* refuses a message, or if the client sent the request from within the report
\* of the last one and it was erased in its place.
THEOREM ClientsShakeHands == Spec => RequestsShakeHands
<1>1. Init => Client!Init
  BY DEF Init, RequestState, Client!Init
<1>2. IInv /\ [Next]_vars => [Client!Next]_RequestState
  <2> SUFFICES ASSUME IInv, [Next]_vars PROVE [Client!Next]_RequestState
    OBVIOUS
  <2>1. CASE UNCHANGED vars
    BY <2>1 DEF vars, taskVars, historyVars, RequestState
  <2> QED
    BY <2>1, StartState, StepState DEF Next, Step
<1> QED
  BY Inductive, <1>1, <1>2, PTL DEF Spec, RequestsShakeHands, Client!Spec
=============================================================================
