# stm32.app in TLA+

TLA+ models of the firmware framework in `src/src`: an actor runtime for STM32
microcontrollers on top of FreeRTOS, with actors (device drivers and
application logic) that live in a CANopen object dictionary and talk through
events.  This directory holds the models, the TLC configurations that check
them on small instances, and proofs that TLAPS checks for every instance.
Paths below are relative to the repository; the program's own code is in
`src/src`, the vendored kernel in `src/lib/FreeRTOS`.

## 1. The system

### Components

**Event threads** (`core/thread.c`).  Six FreeRTOS tasks, all of which run
`app_thread_execute`: input (queue of 20, priority 5), catchup (100, 5), high,
medium and low (queue of 1, priorities 4, 3, 2) and background (no queue,
priority 1).  Each one keeps a queue, its idea of the current time and of the
next alarm, and the event in hand; FreeRTOS keeps a notification value for it.
An actor takes part in a thread by having a *tick* for it: a callback, an alarm
time and a mark that it has to catch up.  The loop routes an event to its
consumer or to all ticks, requeues it when a busy actor wants it later, takes
the next event, and sleeps when there is none.  Other tasks and interrupt
handlers publish events, set alarms and send signals.  *Correct when*: no event
is slept over, lost, or served out of order; alarms go off; sleep is bounded;
deferred events come back.  *Hard*: two-call publishing against the sleep
of the loop, one notification slot for events and signals, alarms set while the
timeout is being computed, full queues.

**Actor event protocol and tasks** (`core/actor.c`, `core/actor.h`,
`core/task.c`).  An actor accepts an event into a slot of its own, or is busy
and has it deferred or offered to others; a task is a resumable procedure of
phases and steps that waits for events.  State: the slot, the task's phase and
step indexes, the inciting and the awaited event.  *Correct when*: an occupied
slot is not overwritten, every accepted event is reported to its producer
exactly once, a task ends and can be started again.

**Actor phases and boot** (`core/actor.c`, `core/app.c`, `main.c`).  Each actor
has a phase in its object dictionary entry (constructing, linking, starting,
running, ...), changed by a write that calls the observers, who may change it
again.  *Correct when*: an actor goes through the phases in order, its
observers see each one, and a disabled actor is not started.

**Hardware timer** (`module/timer.c`).  One counter serves many timeouts, one
per pair of actor and argument.  State: the subscriptions, the time of the next
one, the time at the start of the counter's period, the counter.  Callers set
and clear timeouts; the update interrupt and callers advance the time.
*Correct when*: a timeout fires once, not early, and in the end; the counter
runs while there are subscriptions.

**CAN driver** (`CO_driver.c`, `system/canopen.c`).  A message that finds no
mailbox free waits in its buffer; the transmit interrupt sends the waiting
ones.  State: the buffers' full flags, the count of waiting messages, the
mailboxes, flags that keep synchronous PDOs out of their window.  *Correct
when*: every accepted message is sent once, the count agrees with the flags,
nothing waits for ever.

**SPI transport and flash storage** (`transport/spi.c`, `storage/w25.c`).
Transfers by DMA, one at a time, driven by tasks; the storage is a client of the
transport by events.  *Correct when*: a response belongs to the request that
waits for it, buffers are not reused too early, commands are not started while
the flash is busy.

**Serial transports** (`transport/usart.c`, `transport/modbus.c`), **DMA and
buffer pool** (`lib/dma.c`, `lib/vpool.c`).  Reception into a circular DMA
buffer, from where bytes are copied into a pool of pages; requests with a
timeout and a response.  *Correct when*: bytes come out once and in order, a
late response is not taken for the next one.

**Power circuits** (`device/circuit.c`).  A relay may be fed by a supply that
is itself a circuit: switching one on counts as a consumer of the other.
State: the duty cycle, the consumers and the relay of each.  *Correct when*: a
supply is on exactly while somebody needs it, and is not cut off under a
circuit that is on.

**Kernel** (`src/lib/FreeRTOS`).  Vendored, but everything above stands on a
small part of it: task notifications, sleeping with a timeout across the wrap of
the tick count, the suspended scheduler, the choice of the task that runs.
*Correct when*: a task that takes its notification gets it or sleeps, and
wakes when it is notified or its time is up.

**Analog inputs** (`module/adc.c`, `input/sensor.c`), **screen**
(`screen/epaper.c`), **LED, CAN and I2C units**, **microcontroller set-up**,
**diagnostics**, **generated object dictionary**: see `PROJECT.json`.

### How they interact

- **Events.**  An actor publishes an event from a tick or from an interrupt
  (`app_thread_publish_generic`): two kernel calls put it into the queue of a
  thread and notify the thread's task.  The thread shows it to its consumer, or
  to every actor that has a tick for the thread.  An answer goes back the same
  way, as an event whose consumer is the producer of the first.
- **Signals.**  `actor_signal` calls an actor's `on_signal` at once, on the stack
  of the caller: the timer, DMA and bus interrupts use it.
- **Time.**  A tick has a software alarm in milliseconds, which its thread looks
  after.  Timeouts in microseconds belong to the hardware timer, which signals.
- **Phases and properties.**  A write to the object dictionary calls the actor's
  `property_write`, and a write to its phase the phase machine.
- **Shared state without locks.**  Ticks (`next_time`, `catchup`), a thread's
  `next_time`, the timer's subscriptions and counter, the CAN driver's flags and
  count, an actor's event slot and buffers are read and written by threads and
  interrupt handlers alike.  Only kernel objects (queues, notifications) are
  atomic, and they only as far as the interrupts that use them are masked
  (see `wakeup_lost`).

What is hard, then, is never a computation: it is which step of whom comes
between which two steps of whom else.  `PROJECT.json` lists these places as
hazards, each with the line where it bites and the properties that watch it.

## 2. The modules

| module | models | extends / uses |
|---|---|---|
| `AppThread` | the loop of `core/thread.c`, its publishers, alarms and catching up, with the kernel calls it makes | instantiates `EventBus` |
| `EventBus` | what publishers may rely on: bounded first-in first-out channels | |
| `Kernel` | notifications, the tick and the scheduler of FreeRTOS | instantiates `Wakeups` |
| `Wakeups` | what `core/thread.c` expects of the kernel | |
| `ModuleTimer` | `module/timer.c` and its counter | |
| `CanTx` | the transmit side of `CO_driver.c` and the CAN mailboxes | |
| `SpiTransport` | `transport/spi.c` with `lib/dma.c` and `lib/vpool.c` | instantiates `Handshake` |
| `FlashTask` | the task of `storage/w25.c`, run by `core/task.c` | instantiates `Handshake` |
| `Handshake` | what a client of a transport or of the storage may rely on | |
| `Circuits` | `device/circuit.c` and the property writes it is made of | |
| `AppThread_proofs`, `CanTx_proofs`, `Circuits_proofs`, `FlashTask_proofs`, `Kernel_proofs`, `ModuleTimer_proofs`, `SpiTransport_proofs` | theorems | the modules, `TLAPS` |
| `MCBus`, `MCDefer`, `MCAlarm` | small instances of `AppThread` | `AppThread` |
| `MCTimer`, `MCCan`, `MCSpi`, `MCFlash`, `MCCircuits`, `MCKernel` | small instances of the others | |

They stack: `AppThread` takes the kernel's calls to be atomic and wake-ups to
be kept, which is what `Kernel` shows of the kernel (`WakesInTime`) as long as
its critical sections mask the interrupts that notify.  With the priorities that
this firmware sets they do not (`wakeup_lost`): what is shown of the threads is
what they would do on a kernel that is configured as its documentation demands;
the input
thread of `SpiTransport` and the two threads of `FlashTask` serve their queues
in order, which is what `EventBus` shows of the threads; and `FlashTask` knows
its transport as one that reports a write once it is done, which is what
`SpiTransport` shows (`WritesShakeHands`).

### AppThread

A thread is a program counter and the locals of `app_thread_execute`.

| state | code |
|---|---|
| `queue`, `note` | the FreeRTOS queue, the task's notification value |
| `pc`, `hand`, `prev`, `todo` | where the loop stands, `event`, its status before it was routed, the actors still to be shown it |
| `deferred` | `deferred_count` |
| `got`, `timeout`, `deadline` | what `ulTaskNotifyTake` returned, its timeout, the kernel's wake-up time |
| `current_time`, `next_time`, `tickTime`, `tickCatchup` | fields of threads and ticks |
| `caller`, `calls` | where another task or an interrupt stands in a call, and how many it made |
| `fate`, `now`, `lag` | bookkeeping: what became of an event, the kernel's tick count, ticks that passed while somebody ran |

`Deliver` and `Skip` are one pass of `app_thread_event_actor_dispatch`;
`RequeueDeferred` and `Finish` are the end of a dispatch, where
`app_thread_event_requeue` decides what becomes of an event that a busy actor
wants later and of any other; `Shift` and `NothingToShift` are
`app_thread_event_queue_shift`; `Await`, `Block`, `Take`, `WakeByAlarm`,
`SleepAgain`, `WakeByQueue` and `WakeBySlot` are `app_thread_event_await` cut
at the two places where the task may be preempted with an effect: between
computing the timeout and blocking, and between waking up and reading the
queue.  `Publish` and `SendNote` are the two halves of publishing, `Schedule`
and `Poke` those of setting an alarm, `TickCatchup` and `SendNote` those of
catching up.  `Elapse` is the kernel's tick interrupt.

Data is abstract: an event is a model value and a status, a tick's callback
answers with a member of `Answers`, a set that is a parameter.  The requeueing
of a deferred event sends the words around a pointer to it
(`core/thread.c:205`): what comes out of the queue is `Wild`, an event of any
status with any consumer, following which may end in `Fault`.

`Bus` is `EventBus` with what is in the threads' queues (`Buffered`) and what a
thread has in hand (`Serving`) in place of its channels: `ImplementsBus` says
that every step of the loop, its publishers and the clock is a step of a channel
or none.  That the accepted events are also settled needs the fairness of the
threads, and is a property of its own (`SettledInTheEnd`).

### ModuleTimer

`timer` is the record of `module_timer_t` with two registers of the peripheral;
the functions of the driver are functions from such a record to the next, and so
keep the names and the order of calls of the code.  A handler's call is one step
(`Timeout`, `Clear`), as handlers do not preempt each other.  A thread's call is
a step for each of its accesses to what others share, and `caller` holds where
it stands with its locals: it reads the counter and the tick (`ReadCounter`,
`Measure`); starts the counter if it was stopped (`Start`, `SetRunning`,
`Enable`); loads the time, stores the sum, and resets the counter (`Load`,
`Add`, `Reset`); looks for timeouts that are due, slot by slot (`Test`, `Look`,
`Due`, `Read`, `FreeSlot`); picks the next or stops (`Pick`, `Await`, `Halt`,
`ForgetNext`, `ForgetTick`, `Disable`); schedules (`ScheduleNext`, `SetTick`,
`SetCounter`); then takes a slot, sets its actor, compares, sets its time, and
schedules again (`FindSlot`, `Claim`, `Compare`, `SetTime`, `Rank`, `Ask`).  Two
things are merged.  A loop that looks for one slot of the table is one step
(`Pick`, `FindSlot`, `Rank`); and so are the stores of a slot's actor and
argument, and those that clear a slot.  Whoever comes in the middle of such a
step has met a call (`alone`) and come between a thread's accesses to a slot
(`whole`, below), and the properties end there, so that it makes no difference
to them which half of the step came first.  Only threads' calls for `ThreadKeys`
are modelled: the firmware's thread (`app/mothership.c`) sets timeouts for
itself, the DMA handlers for the SPI.  `Read` may fault when the slot was freed
meanwhile: the code follows the actor it finds there.

`Tick` is a clock of the counter, with its overflow; `due` and `fate` are
bookkeeping, and so is `alone`: no call has met another one or a pending
interrupt so far.  A call that has may count elapsed clocks twice or lose them
(section 5), and the properties that this breaks are stated for behaviours in
which it did not happen.  `FiresInTheEnd` is not: it survives calls that meet
interrupts anywhere but in a slot.  There a timeout may be lost, and `whole`
records that nobody came between a thread's accesses to a slot.  `inTurn` is
bookkeeping, too: no time has been asked for so far that is before the one the
driver waits for.  Such a time is scheduled only if the call replaces the
timeout waited for (`was_next`, `module/timer.c:357`), otherwise it is reached
overdue, and what follows fires early (section 5); `NeverEarly` is stated for
behaviours in turn.  Differences of times are signed where the code casts and
unsigned where it does not, modulo `Modulus`.

The driver's table comes from `malloc` and is not cleared
(`module/timer.c:21`); the model starts from an empty one, which is what RAM
that is zero after reset gives.

### CanTx

A sender is a thread in `CO_CANsend` or `CO_CANclearPendingSyncPDOs`, cut at
every access to what others share; the increment of `CANtxCount` is a load and a
store.  A thread steps when no interrupt is pending and no thread of a higher
priority is in the driver, since `CO_LOCK_CAN_SEND` is empty.  `Interrupt` is
`CO_CANTxInterrupt`, all of it, and runs to its end as nothing preempts it but
the peripheral, which is allowed to finish mailboxes just before or after.
`mail` and `irqOn` are the peripheral (external); `owed` is bookkeeping: the
buffers whose latest value has not reached a mailbox.  Payloads and identifiers
are left out; the remote flag that the interrupt drops (`CO_driver.c:382`) is
therefore not seen.  Here `alone` says that no two calls of threads overlapped
and none deleted messages: `CANtxCount++` of one thread against that of
another may leave messages that nobody counts (section 5).

### SpiTransport

| state | code |
|---|---|
| `inbox`, `input` | events for the SPI in the input thread's queue, and where the thread is in `spi_tick_input` |
| `writing`, `reading` | the two slots of `transport_spi_t` |
| `tx`, `rx` | the two DMA streams: what they send, or the transfer count, its flags, errors and interrupt enable (external) |
| `cells`, `cursor`, `pool` | `rx_buffer`, `rx_buffer_cursor`, the contents of `rx_pool` |
| `armed` | whether the timer has a subscription of the SPI |
| `handling` | what a handler has yet to do: it has copied and has to clear the stream's flags, or it has found the stream idle and has to stop it |
| `setup` | `dma_rx_unit` and the limit of the pool, which nobody initialises |
| `asked`, `stream`, `heard`, `spoiled`, `answer` | bookkeeping |

`Accept` is `spi_tick_input` with `actor_event_accept_and_process_generic`;
`StartWrite`, `StartRead`, `OutOfMemory` and `ArmTimeout` are `spi_on_write` and
`spi_on_read`, cut where an interrupt has an effect.  `TxInterrupt`,
`RxInterrupt` and `RxClear` are `actors_dma_notify` with `spi_signal`;
`Timeout` is `spi_signal` of the timer with `spi_read_is_idle`, and
`ReadComplete` what follows when it is: bytes may come until it stops the stream,
and `heard` are those that had come when it was found idle.  `TxDone`, `TxError`,
`RxByte` and `RxError` are the peripherals.  An error of the receiving stream is
`silent` or `raised`: of its errors only that of the direct mode interrupts
(`lib/dma.c:185-190`), but whichever it is, `actors_dma_notify` sees it first
and does nothing, so that `RxInterrupt` does not happen any more, and with an
interrupt pending no thread runs (`RxStorm`).
`Ingested` is `actor_dma_ingest`, around the end of the buffer.  The response is
published by the address of a pointer, so that the input thread finds `Wild` in
its queue, the consumer of which may be no actor (`"faulted"`).

`spoiled` says when a read cannot be faithful by its set-up: when it is shorter
than the buffer, starts in its middle, is overrun, or its pool is full.

### FlashTask

The task is what `app_task_t` holds: a request, a handler, a phase and a step.
`Phases` is the table that the switches of `w25_task_introspection`, `_write`,
`_read`, `_lock` and `_unlock` make; `Alarm` is the thread's dispatch that
resets the tick's time and calls `app_task_execute`, `SendWrite`, `SendRead` and
`Decide` are a step of a handler, and `Advance`, `Report` and `Finish` are
`app_task_advance` and `app_task_finalize`: the input thread may come between any
two of them and bring another request.  `Report` calls the producer of the
request, and `Finish` empties the slot (`core/actor.c:215-216`), with whatever
request it holds by then: a producer that publishes its next one from the report
may have it stored in between and erased.  `Start` is the input thread
(`actor_event_handle_and_start_task`), `WriteReported` and `ReadReported` are
`w25_on_event`, called by the transport's interrupt.  `owed` is bookkeeping: a
request came that has not been reported; `alone` says that none came while one
was owed; what happens otherwise is `task_overwritten`.  For the client a
request that was erased has failed (`RequestState`): its task still runs, and it
is never reported.

### Circuits

A write to a property is a record in `call`, and goes through
`circuit_property_write` (`Begin`, `Store`, `Keep`, `Switch`) and, if the circuit
changes and has a supply, `device_circuit_set_consumers` (`Count`,
`SetConsumers`), which is a write again, of the supply.  `Write` is a duty cycle
that the CANopen node or an actor writes, `Measure` is `circuit_on_value` of the
current sensor.  `WriteConsumers` is the node's write of a count: the entry is
readable and writable, and what was counted there is lost, which `meddled`
records.  The properties leave such a supply out, and say that it spoils none
beyond it.  A thread comes between any two steps of one of lower priority, as
`CO_LOCK_OD` is empty; `alone` says that no write began while another was under
way.

### Kernel

The kernel's lists of tasks are the function `list`, with `pending` beside it as
a pending task is still in the list it slept in; `wake`, `next`, `pended`,
`yield`, `state` and `value` are the variables of `tasks.c` named in the module,
`woken` is the static flag of `core/thread.c` that is never reset, so that each
later notification asks for a switch.  `Check`, `Block` and `Take` are
`ulTaskGenericNotifyTake`, whose first critical section is in two halves so that
an interrupt that it does not mask can come between.  That is all that the module
has of interrupts that are not masked: one that comes in the middle of a list
operation (`tasks.c:5280-5327`) may leave the lists in no order at all, which is
left out.  `Notify` and
`NotifyFromISR` are `xTaskGenericNotify` and its twin, `SysTick` is
`xPortSysTickHandler` with `xTaskIncrementTick`, `SuspendAll`, `ResumeAll` and
`Unwind` are what `pvPortMalloc` does around its work, `SwitchContext` is
PendSV.

## 3. What is checked

| run | question | result |
|---|---|---|
| `bus` | does a thread ever sleep over an event or lose one; is it a bounded FIFO channel, and is all it accepts settled? | no; yes, with actors as in the firmware |
| `deferral` | and with busy actors, off-loading and garbage in queues? | the input thread does not sleep over an event |
| `alarms` | is sleep bounded, do alarms go off? | yes |
| `timer_calls` | does a timeout fire once, never early, and in the end? | once, if calls do not overlap; never early, if moreover no time is asked for before the one waited for; in the end, unless a call stops the counter or somebody comes between a thread's accesses to a slot |
| `timer_stopped` | does the counter run while a timeout is pending? | **no** |
| `can` | with two threads that send and delete, is a message ever lost, or left waiting? | never lost; not left waiting if calls do not overlap |
| `spi` | do clients see handshakes, do acknowledgements match what was sent, do bytes come out once and in order? | yes, for a client that waits for its report, and for bytes that came before the read was found idle |
| `flash` | does the task take one step for each report, read only after its command, and end for its client? | yes, while requests come one at a time; one sent from within the report of the last may fail |
| `task_overwritten` | is a task's request kept until it is reported? | **no** |
| `circuits` | is a supply on exactly while it is needed, and never cut off under a circuit? | yes, if writes do not overlap and the node does not write over its count |
| `kernel` | does the kernel wake the right task in time, across the wrap and a suspended scheduler? | yes, if critical sections mask the interrupts that notify |
| `wakeup_lost` | ... and with the priorities that the program sets? | **no** |

A bold answer is a finding: the run is expected to end in a counterexample, and
`PROJECT.json` quotes the line of the repository it disagrees with.

Every property of a passing run has a mutant: an operator, defined before the
one it stands for, that has a plausible bug of that code.  With it TLC finds the
property violated, so that the property does depend on the code.

### Bounds, and why they are enough

- *AppThread.*  One thread (two with off-loading) because threads share nothing
  but the catchup queue and their ticks.  Queues of two and one with three and
  two events fill up and overflow.  Two callers, of two calls each, give one
  call in the middle of another, of the same and of different kinds; more
  callers repeat these pairs, as a call is two steps that touch one
  notification value.  `MaxSleep` is one or two clock ticks and `Horizon` a few
  sleeps more.  `MaxLag` bounds the ticks that may pass while somebody is
  running: none in the runs about events, where time does not matter (in `bus`
  the clock stands still, so that only a notification wakes a thread), one in
  `alarms`.  `LastCall` ends the calls early enough for the alarms they set to go
  off within the horizon; in the other runs it is larger than the horizon.
  `MaxDeferred` cuts the count that only grows.
- *ModuleTimer.*  A period of three clocks and timeouts of one and four (five in
  `timer_stopped`): within a period, and over more than one.  Three clients and two
  slots: a full table.  Three calls are a first one, one that replaces, clears or
  competes with it, and one that comes while the second is due.  A lag of one clock
  is a late interrupt.  Calls begin up to clock 2 (5 in `timer_stopped`), and the
  horizon of 12 (24) lets all they set fire.  One thread: two would be two calls
  that overlap, as one and a handler's are.  The modulus is far from the clock:
  wrapping is not covered.  `NullTime` is what the driver reads as the time of no
  subscription, a time far off.
- *CanTx.*  Two mailboxes and three buffers, one of them of a synchronous PDO:
  with both mailboxes busy, one message waits and the next round of the
  interrupt finds more to send than one mailbox.  Five sends and one deletion
  from two threads come after more than one round of the interrupt, and send a
  buffer again that is still full.  The count's modulus is 16 instead of 2^16,
  larger than any number of sends.
- *SpiTransport.*  A circular buffer of four bytes has a half, an end and an
  inside; six bytes go around its end, and with three reads a later read starts
  where the last one left the cursor.  Reads of the whole buffer and of half of
  it, both DMA units, a pool that takes nothing and one that takes all.  Two
  clients of which one writes while the other reads; one write, as writes share
  nothing but the slot with the next (and `OneAtATime` keeps that one out).  One
  error: a transfer that fails, an error of the receiving stream, or memory that
  is not there.  This is the largest of the runs, with close to two million
  states.
- *FlashTask.*  Two clients and three requests: one that interrupts another or
  comes from within its report, and one after that.  One message that the queue
  of the input thread refuses.
- *Circuits.*  Two circuits on a supply that is on a supply: counting up to two,
  and a write that goes three levels deep.  Two threads of different priorities,
  four writes, and counts of none and of two where the node writes over one,
  which are less and more than what was counted.  The modulus is 5 instead of
  2^8, above the number of circuits as in the firmware.
- *Kernel.*  Two tasks of different priorities and the idle task.  The tick
  count wraps after five ticks, and a sleep of three goes across it from most
  places; two ticks may pass while the scheduler is suspended.  Nothing else is
  bounded: the state space is finite, and deadlock is checked.
- In the other runs deadlock is not checked: all behaviours stop at their bounds.

### Fairness

- *AppThread*: `WF` of each thread's step, as FreeRTOS runs every task that is
  ready once those above it sleep and shares time between equals; `WF` of the
  second half of a caller's call, as no call waits; `WF` of the clock tick.
  Starting a call is not fair: callers may stop calling.
- *ModuleTimer*: an interrupt that is pending is taken, a thread's call goes on,
  the counter's clock ticks.
- *CanTx*: a mailbox that holds a message gets it out in the end (the bus is
  not off), an interrupt is taken, a call goes on.
- *SpiTransport*: the input thread goes on, a transfer that was started ends or
  fails, interrupts are taken and handlers end.  Bytes and the idle timeout are
  not fair: what sends to the SPI may be silent, and the timer's fairness is
  `ModuleTimer`'s.
- *FlashTask*: the high-priority thread runs.  Reports are not fair, as a write
  may fail: `AckContinues` begins with one.
- *Circuits*: `WF` of each thread's step.  A thread that is kept out by one of
  higher priority is not enabled, and that one's writes are bounded.
- *Kernel*: a critical section ends (`WF`).  The tick is taken again and again
  (`SF`: it is not enabled within critical sections, but stays pending in the
  hardware while they last); PendSV is taken (`WF`); and the task that has
  suspended the scheduler resumes it (`SF`: interrupts may take the processor
  from it for a while, but `pvPortMalloc` does not wait).

## 4. What is proved

TLAPS checks, for all values of the constants that meet the modules' named
assumptions:

- `AppThread_proofs!TypeCorrect`: the types, and that no queue holds more than
  its capacity.
- `AppThread_proofs!SleepIsBounded`: no sleep is longer than
  `MAX_THREAD_SLEEP_TIME`, whoever sets alarms.  The strengthening, `TimeInv`,
  follows the thread's stale idea of time: `current_time <= now`, `next_time` is
  at most `MaxSleep` after `current_time`, and the timeout is the difference of
  the two, cut at `MaxSleep`.
- `AppThread_proofs!NoEventIsStranded`: a thread that gets no deferred events
  does not sleep over an event, for any number of publishers, events and
  actors.  The invariant of the statement is not inductive: it says nothing of a
  thread that is about to block.  `CleanInv` says that from the moment the loop
  found the queue empty (`Asleep`) an event in the queue comes with a
  notification that holds an *event*, or with a publisher between its two calls
  (`Told`).  This needs that a signal never overwrites an event's notification,
  that the thread takes its notification only on the way to reading the queue,
  and (`NothingDeferred`) that `deferred_count` is zero, without which the loop
  goes to sleep with events in its queue by design.  `DeferInv` supplies that a
  deferred status comes only from an actor that defers.  The whole is `IInv`.
- `AppThread_proofs!NothingIsLost` and `ThreadsImplementBus`: an event that was
  accepted is in a queue, in a notification or in hand until its thread is done
  with it; and the threads implement the channels of `EventBus`, step by step.
  Both assume that no actor defers (`~Deferring`), as none in the firmware does:
  what a deferral puts back is not the event (`core/thread.c:205`), and `Genuine`
  says that without one the queues hold published events only.  The refinement
  also assumes that events go to threads that have a queue (`EventsQueued`),
  since a notification slot may be overwritten, which no channel does;
  `Addressed` carries that from the callers to the notifications.
- `CanTx_proofs!MessagesAreKept`: no message is lost between `CO_CANsend`, the
  interrupt and the deletion of late PDOs, for any number of buffers, mailboxes
  and threads of any priorities.  The property is inductive together with the
  types of what it reads (`CallsOK`); the proof uses no priority and no count,
  which says that the flags alone keep the messages.
- `CanTx_proofs!TypeCorrect` and `AloneIsServed`: the types; and that, while
  calls do not overlap, a message that waits is counted and the interrupt is
  enabled.  The type of `mail` rests on `RankExists`, a counting argument: what
  the interrupt fills into the free mailboxes is as many messages as there are
  ranks.  `AloneInv` says that the count is at least the number of full buffers
  except in the middle of an increment, when it is one short or, if the
  interrupt has sent the message in between, just below zero.  The count is not
  exact: a buffer that is sent again while full is counted again, and so it
  drifts up. It is at most the number of messages sent (`Counted`), and the
  theorem ends where that exceeds the width of `CANtxCount` (`sends <
  CountModulus`): beyond, the drift may wrap to a count that is too small.
- `ModuleTimer_proofs!TypeCorrect`: the types, whoever interrupts whom.  `Placed`
  says that a call that is to use a slot has one of the table, so that no step
  reads or writes outside of it, and `Schedule` cuts every interval to the
  period.
- `ModuleTimer_proofs!FiresOnce`: while calls do not overlap, a key has one slot
  of the table, exactly while its timeout is pending, and is signalled only for
  that.  The strengthening follows the thread's call between its steps: it is the
  only one (`AloneCall`), and the slot it looks at, frees or fills is what it was
  when it was found (`InSlot`): used by the same key, or its own or free, with no
  other slot that holds the key.  This proof uses no arithmetic, only that advancing
  frees slots: the table is right whatever the times are, before and after the
  wrap.
- `ModuleTimer_proofs!NeverFiresEarly`: while calls do not overlap and times are
  asked for in turn, no timeout fires before its time.  The invariant is `InTime`.
  `Waits` says that the driver waits for the nearest timeout, which is to come,
  and that the counter is set ahead for no less than the rest of the period;
  `CountedOnce` that the time kept and the clocks that are yet to be added to it
  are together no more than the clocks that passed, so that each timeout has at
  least its rest to wait.  Both hold between calls (`Rests`).  Within a thread's
  call clocks pass at every place, and `CallTimed` says for each of them how many
  are yet to be added (`Pending`: all that the counter stands ahead by, what it
  has counted since it was reset, or none), and how far the table and the time
  waited for have come (`Stage`): overdue before the slots are looked at, nobody
  due after it, the nearest picked, the slot that is filled left out.  `InRange`
  keeps the times below the wrap and a timeout and a period together below half
  the range: with a clock of a microsecond, the first 71 minutes and timeouts of
  35.
- `FlashTask_proofs!TypeCorrect`, `NoStatusIsTested`, `ReadsFollowCommands` and
  `ClientsShakeHands`: the types; that a status byte is not tested without a
  response and a reply is not asked for before its command was reported; and
  that `FlashTask` implements `Handshake` for a client that waits, for any
  number of clients, requests and refused messages.  The strengthening,
  `AloneInv`, lists where the task of a single request can be: at rest; reported
  and about to be erased (`Reported`), when the next one may come, be erased in
  its place and end unreported (`Lost`); served at its first phase (`Direct`);
  or polling, where the write is under way, refused or reported (`Sent`), then
  the read, and then `Stuck`, because only the report of a write sets the alarm.
- `Circuits_proofs!TypeCorrect`, `ConsumersAreCounted` and `NeverCutsOff`: the
  types; that a supply counts the circuits it feeds that are on; and that its
  relay does not open under one of them: each supply of `Kept`, which are those
  whose count the node has not written over.  They hold for any circuits, fed by
  each other along chains of any length (a circle of supplies is not excluded),
  and any number of threads, the last two while writes do not overlap.  The
  statement speaks of the times between writes; `Within` says what holds in the
  middle of one: which circuit has been stored and not switched, switched and
  not counted, counted and not stored.  Only the number of circuits being less
  than 2^8 (`CircuitsAssumption`) keeps the count from wrapping.
- `Kernel_proofs!TypeCorrect` and `TheListsMatchTime`: the types and widths of
  the kernel's times; and that a sleeping task's wake-up time agrees with the
  time that is left to it, on the list it is in, across the wrap of the tick
  count and with ticks put off.  `TimeInv` measures the distance from the tick
  count to a wake-up time around the wrap (`DistTo`): it is the rest of the
  timeout and the ticks put off together, and less than the whole range, for
  which a timeout must be (`KernelAssumption`).  They do not need `Masked`, which
  says little about interrupts that are not masked, as the module has these at
  one place only (section 2).
- `Kernel_proofs!NoWakeUpIsLost` and `HighestAlwaysRuns`: that no task sleeps over a
  notification; that the task that runs is ready and none that is ready is more
  urgent, unless a switch is due or held back.  They hold for any number of
  tasks, any priorities, timeouts and length of the tick count, and assume
  `Masked`: the run `wakeup_lost` shows that they need it.  `NoLostWakeUp` is not
  inductive: `BlockInv` says that a task that is about to block is the current
  one and found no notification, which a critical section keeps true up to the
  block, `SleepInv` that only a task that waits for a notification sleeps, and
  `RunInv`, `TopInv`, `SuspendInv` and `ResumeInv` follow the current task through
  a suspended scheduler and the ticks that are made up for.
- `Kernel_proofs!KernelWakesInTime`: under `Masked` the kernel implements
  `Wakeups`, on which `AppThread` is built.  Each step of the kernel is a step of
  the abstract one: a tick takes one off what is left to every sleeper, or
  nothing happens to them while ticks are put off, and a task leaves its sleep
  with a notification or with nothing left.  It joins both invariants above with
  `ReceivedInv`, that a task's state says so only if it has a notification.
- `SpiTransport_proofs!TypeCorrect`, `AcksMatchTheWire`, `WritesAreHandshakes` and
  `ReadsAreHandshakes`: the types, however requests overlap; and, while a request
  is sent only after the last one of its kind was reported, that a write is
  reported after its own data was sent and to its own producer, and that the
  transport implements `Handshake` for writes and for reads.  They hold for any
  number of clients, requests, bytes and errors and any size of buffer and pool.
  `WriteInv` and `ReadInv` say where the one request of a kind is: in the queue,
  taken, or started.  For reads this needs that no timeout ends a read that was
  not started, though timeouts of the last read may still be armed; the reason
  is in `StreamOK` and `AtRest`: a stopped stream has no bytes left and so seems
  to stand at the end of the buffer, where the cursor never is.
- `SpiTransport_proofs!IngestIsFaithful` and `NothingIsLeftBehind`: what was
  copied out of the circular buffer is what came, byte by byte, and the answer
  to a read is all of it that had come when the read was found idle (`HeardInv`:
  what comes then, before the stream is stopped, does not get into the pool);
  for a buffer of any size and streams of any length, also when requests
  overlap.  `DataOK` says what each cell holds: what came and was not copied
  lies behind the cursor, around the end of the buffer, and the stream's
  position is behind the last of it, never so far that it laps the cursor.

Every invariant and every action property of a passing run, and every refinement,
is stated by one of these theorems.  Most hold under what the runs assume, for
all constants; two hold under more:

| property | in the run | in the theorem |
|---|---|---|
| `ModuleTimer!NeverEarly` | within the run's bounds | with `InRange` |
| `CanTx!ServedIfAlone` | within the run's bounds | until `CountModulus` messages were sent |

Left to TLC is liveness, which is out of this prover's reach: `AlarmGoesOff`,
`SettledInTheEnd`, `FiresInTheEnd`, `SentInTheEnd`, `WriteReported`,
`AckContinues`, `PowerFollows` and `EverySleepEnds`.  The runs that expect a
counterexample have nothing to prove.

## 5. What is not modelled

The map covers a few per cent of the tree's lines, and cannot cover much more.
Most of them are the vendored kernel, of which the program uses notifications,
queues and sleeping; the peripheral library's headers; the generated object
dictionary and the tables of configurations (`src/src/definitions`,
`src/src/configs`, `src/src/OD*`); register set-up; and drafts that are not
enumerated (`app/mothership.c:70`) or do not compile.  Components with status
`not_modelled` in `PROJECT.json` carry the reason.

Of those that are modelled: the creation and deletion of threads and ticks;
publishing to the front of a queue (nothing does); the wrap of 32-bit times in
threads and the timer; memory, so that an event which is overwritten while it is
in a notification slot is seen as the event that was published, and the bytes of
a command that live on a stack that is gone are not seen to change; the receive
side, set-up and error counters of the CAN driver; the compare interrupts of the
timer; the contents of the flash.  The boot is a straight line before the
scheduler starts; the phases that change later are those of the timer, which
`ModuleTimer` has, and of the LED, which nothing reads.

Found while reading or modelling, and described here only:

*Threads.*  A deferred event does not come back: what is put back into the queue
is the address of a pointer's words (`core/thread.c:205`).  An alarm may go off
late: one that is set after the timeout was computed and before the thread
blocks is not announced (`core/thread.c:283`).  The firmware has no actor
that defers.

*Timer.*  When a thread's call meets the update interrupt between reading the
counter and advancing, elapsed clocks are counted twice and a timeout fires early
(`module/timer.c:347`).  So they are when a handler's call meets a thread's
between adding to the time and resetting the counter (`:289-290`); between the
load and the store of `current_time` what it has added is lost, and a call between
setting the tick and the counter (`:257-258`) takes the one for the other, and
time goes back.  A timeout may be lost: the thread's own, if the update interrupt
comes after its slot has got its actor and before it has got its time
(`:354-360`), as the slot is then due and is freed; a handler's, if it fills a slot
that the thread is about to free (`:271-276`) or has found free (`:323-354`).  An
interrupt between the phase `IDLE` and the stop of the counting (`:299`,
`:388-391`) may set a timeout for which the counter is then stopped.
`timer_notify` follows the actor of a slot that was freed since it was tested
(`:273-275`), which is `NULL`.  A slot whose time is `0x7FFFFFFF` after the one
waited for is none for `timer_get_next_subscription` (`:233`), which returns
`NULL` if there is no other, and `:366` follows it.

The driver may wait for another than the earliest
timeout: a new one that ends before the one it waits for is not scheduled
(`was_next`, `:357`), and is reached only when that one's update interrupt comes,
overdue.  If it is the next one to wait for then, its time is past, and
`timer_schedule` takes the unsigned difference (`:254`) for more than a period
and waits for a whole one, although the counter was set ahead before: clocks
that never passed are counted, and other timeouts fire early.  No two
calls need to overlap for that; it came to light when the proof of `NeverEarly`
did not go through, and the run had missed it by its bounds.  The
same proof found the timeout that a handler's call in the middle of a thread's
fires early in that very step, for which `NeverEarly` asks that no call has met
another one after the step, too.  Times are
compared as unsigned numbers in one place (`:250`) and as signed differences in
others, so that around the wrap of `current_time` a timeout may fire early.
`tim1_isr` handles the update interrupt while the vector that is enabled is the
compare one; `module_timer_clear` does not stop the timer, against `timer.h:61`,
and has no caller; the period takes one clock more than the driver counts.

*CAN.*  `CANtxCount++` of two threads (`CO_driver.c:215`), or of a thread that
deletes late PDOs against the interrupt, may leave a count of zero with a
message marked: it waits until something else is sent.
`CO_CANclearPendingSyncPDOs` counts a late PDO in a mailbox as deleted but
requests no abort of it (`CO_driver.c:230-236`).

*SPI and DMA.*  The pool is never initialised, so that its limit is what the
memory holds.  `vpool_insert` allocates within the interrupt (`lib/dma.c:149`),
where `pvPortMalloc` suspends and resumes the scheduler in the middle of whatever
was interrupted; the memory of a response is handed over (`core/event.c:4`) and
freed by nobody.  The first read, if its size is not the buffer's, does not find
itself idle and never ends, as its interrupt is not enabled either.  Error flags
of a stream are tested first and never cleared (`lib/dma.c:120-124`, since
`spi_signal` answers 0), so that its interrupt comes again and again and no thread
runs any more; an error that does not interrupt by itself keeps the bytes after it
from being seen.  A byte that comes after the stream was found idle
(`transport/spi.c:209`) and before it is stopped (`lib/dma.c:242`, with a log in
between) is lost.  Stream numbers of a receiving unit are taken to be those of
DMA1 (`lib/dma.c:192`).  The response is published by the address of a pointer
(`transport/spi.c:196`), as a deferred event is.

*Flash.*  Responses are never stored for the task, since the producer, an actor,
is compared with the SPI object (`storage/w25.c:194`): the phases after polling
are never reached.  Writes and reads end at their first phase, and are reported
complete without being done.  The producer of a request is told before the slot is
emptied (`core/actor.c:215-216`): a request that it publishes from there may be
stored in between, by the input thread, and erased; its task runs and nobody is
told.

*Circuits.*  `consumers` can be written by the CANopen node
(`definitions/Base_F4.c:1489-1494`): a count of 0 written to a supply cuts off the
circuits that it feeds, and the first of these that is switched off counts it down
to 255.

*Boot and phases.*  `app_set_phase` tests a field that nobody writes
(`core/app.c:82`, `core/actor.h:93`), so that an actor that was disabled because
a link failed is started all the same, with `NULL` where the link would be.
`indicator/led.c:50` waits for a phase that it never sees, because
`core/actor.c:155` returns before.  `system/canopen.c:254` passes the address of a
thread pointer where the callback expects the thread.  Subscription masks are
tested with `&` against event types that are numbered in sequence
(`core/actor.c:193`); no actor subscribes.

## 6. Plan

What the runs check of safety is proved.  What proofs can still add is to hold
under weaker assumptions, in this order:

1. `AppThread`: what is left of `NoEventLost` for the events that no actor defers,
   when others are: their queue may be full of `Wild` items, but what it holds of
   them stays.
2. `ModuleTimer`: times that go across the wrap, with distances around it as in
   `Kernel_proofs!TimeInv`, where the comparison at `module/timer.c:250` is right.
3. `CanTx`: a bound on how far the count can drift while some buffer is empty, in
   place of the number of messages sent.

Models that would follow if the code grows to use them: the serial transports
once `modbus.c` compiles, the analog inputs once a sensor is enumerated, and the
queueing of deferred events once they come back.
