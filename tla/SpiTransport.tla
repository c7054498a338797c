---------------------------- MODULE SpiTransport ----------------------------
(***************************************************************************)
(* The SPI transport, src/src/transport/spi.c, with the DMA helpers and    *)
(* the pool of src/src/lib it is made of.  Requests come as events to the  *)
(* input thread, which stores each in a slot and starts a DMA stream.      *)
(* Interrupt handlers do the rest: of the transmitting stream (the write   *)
(* is done), of the receiving one (bytes are copied from the circular      *)
(* buffer into the pool), and of the timer (nothing came any more).        *)
(*                                                                         *)
(* A handler runs between any two steps of a thread and is not interrupted *)
(* by another; the peripherals go on while it runs.                        *)
(***************************************************************************)
EXTENDS Integers, Sequences, FiniteSets

CONSTANTS
    Producers,      \* the actors that send requests
    BufferSize,     \* rx_buffer_size
    Units,          \* the values dma_rx_unit may have
    Limits,         \* what may stand in rx_pool.v_limit, see setup
    Sizes,          \* the sizes of read requests, 0 for a whole buffer
    InboxSize,      \* the length of the input thread's queue
    OneAtATime,     \* is a request sent only after the last one was reported?
    MaxReads, MaxWrites, MaxBytes, MaxErrors,   \* bounds
    Nobody          \* the producer of an empty slot (type APP_EVENT_IDLE)

ASSUME SpiAssumption ==
    /\ BufferSize \in Nat \ {0} /\ Sizes \subseteq 0 .. BufferSize
    /\ Units \subseteq {1, 2} /\ Limits \subseteq Nat /\ InboxSize \in Nat
    /\ OneAtATime \in BOOLEAN /\ Nobody \notin Producers
    /\ {MaxReads, MaxWrites, MaxBytes, MaxErrors} \subseteq Nat

VARIABLES
    setup,      \* dma_rx_unit, and the pool's limit: nobody calls vpool_init
    inbox,      \* events for the SPI in the input thread's queue
    input,      \* where the input thread stands
    writing, reading,   \* the slots
    tx,         \* the transmitting stream, and whose data it sends
    rx,         \* the receiving stream: size, NDTR, HTIF or TCIF, error flags,
                \* NVIC enable
    cells,      \* rx_buffer, <<>> before it is allocated
    cursor,     \* rx_buffer_cursor
    pool,       \* the contents of rx_pool
    armed,      \* the timer subscription of the SPI
    handling,   \* what a handler has yet to do: to clear the flags of the bytes
                \* it received, or to end the read it found idle
    asked,      \* the requests that were sent and not reported back
    stream,     \* history: the bytes received since the read was started
    heard,      \* history: those received when the read was found idle
    spoiled,    \* history: the read cannot be expected to be faithful
    answer,     \* history: the contents of the last response
    used        \* the calls, bytes and errors counted against the bounds

requestVars == <<inbox, input, writing, reading, asked>>
receiveVars == <<rx, cells, cursor, pool, handling>>
historyVars == <<stream, heard, spoiled, answer>>
vars == <<setup, requestVars, tx, receiveVars, armed, historyVars, used>>

Request == [type : {"READ"}, from : Producers, size : Sizes]
           \cup [type : {"WRITE"}, from : Producers, size : {0}]
Wild == [type |-> "WILD", from |-> Nobody, size |-> 0]
NoRequest == [type |-> "IDLE", from |-> Nobody, size |-> 0]

\* Mutant of Room: the queue takes one event too many
RoomForOneMore == Len(inbox) <= InboxSize

Room == Len(inbox) < InboxSize
Kind(q) == <<q.type, q.from>>

(***************************************************************************)
(* Interrupts.  A stream keeps its error flags: spi_signal answers 0 to    *)
(* APP_SIGNAL_DMA_ERROR, and actors_dma_notify, which looks at them before *)
(* anything else, clears them for any other answer only.  The handler is   *)
(* entered again and again.  Of the errors of the receiving stream only    *)
(* one raises an interrupt; the others lie in wait for the next byte that  *)
(* does.                                                                   *)
(***************************************************************************)
TxPending == tx.state \in {"done", "error"}
RxPending == rx.irq /\ (rx.flag \/ rx.error = "raised")
ThreadRuns == input # "faulted" /\ handling = "none" /\ ~TxPending /\ ~RxPending

(***************************************************************************)
(* Requests.  app_publish puts them into the input thread's queue          *)
(***************************************************************************)
Ask(q) ==
    /\ ThreadRuns /\ Room /\ Kind(q) \notin asked
    /\ OneAtATime => \A p \in Producers : <<q.type, p>> \notin asked
    /\ used[q.type] < (IF q.type = "READ" THEN MaxReads ELSE MaxWrites)
    /\ used' = [used EXCEPT ![q.type] = @ + 1]
    /\ inbox' = Append(inbox, q)
    /\ asked' = asked \cup {Kind(q)}
    /\ UNCHANGED <<setup, input, writing, reading, tx, receiveVars, armed, historyVars>>

\* spi_tick_input, actor_event_accept_and_process_generic: the slot is taken
\* whatever it holds (destination != NULL || ... is true of every slot)
Accept ==
    /\ ThreadRuns /\ input = "free" /\ inbox # <<>> /\ Head(inbox) # Wild
    /\ inbox' = Tail(inbox)
    /\ IF Head(inbox).type = "WRITE"
       THEN writing' = Head(inbox) /\ input' = "write" /\ UNCHANGED reading
       ELSE reading' = Head(inbox) /\ input' = "read" /\ UNCHANGED writing
    /\ UNCHANGED <<setup, asked, tx, receiveVars, armed, historyVars, used>>

\* An event made of stack words: its type is none of the SPI's, and its
\* consumer may be no actor at all
AcceptWild ==
    /\ ThreadRuns /\ input = "free" /\ inbox # <<>> /\ Head(inbox) = Wild
    /\ inbox' = Tail(inbox)
    /\ input' \in {"free", "faulted"}
    /\ UNCHANGED <<setup, writing, reading, asked, tx, receiveVars, armed, historyVars, used>>

\* Mutant of StartWrite: the stream is configured and not enabled
StartWriteMute ==
    /\ ThreadRuns /\ input = "write" /\ input' = "free"
    /\ tx' = [of |-> writing.from, state |-> "off"]
    /\ UNCHANGED <<setup, inbox, writing, reading, asked, receiveVars, armed, historyVars, used>>

\* spi_on_write, actor_dma_tx_start: the slot's data, if it still has any
StartWrite ==
    /\ ThreadRuns /\ input = "write" /\ input' = "free"
    /\ tx' = [of |-> writing.from, state |-> IF writing = NoRequest THEN "off" ELSE "busy"]
    /\ UNCHANGED <<setup, inbox, writing, reading, asked, receiveVars, armed, historyVars, used>>

\* spi_on_read, actor_dma_rx_start: stream numbers are taken to be DMA1's when
\* the stream is enabled, and its interrupt is not enabled here
StartRead ==
    LET size == IF reading.size = 0 THEN BufferSize ELSE reading.size IN
    /\ ThreadRuns /\ input = "read" /\ input' = "arm"
    /\ rx' = [rx EXCEPT !.on = (setup.unit = 1), !.size = size, !.left = size, !.flag = FALSE,
                        !.error = "none"]
    /\ cells' = IF cells = <<>> THEN [i \in 1 .. BufferSize |-> 0] ELSE cells
    /\ stream' = <<>>
    /\ spoiled' = (size # BufferSize \/ cursor # 0 \/ pool # <<>>)
    /\ UNCHANGED <<setup, inbox, writing, reading, asked, tx, cursor, pool, handling, armed,
                   heard, answer, used>>

\* spi_allocate_rx_buffer fails: the slot stays taken and no read is started
OutOfMemory ==
    /\ ThreadRuns /\ input = "read" /\ input' = "free"
    /\ cells = <<>> /\ used.errors < MaxErrors
    /\ used' = [used EXCEPT !.errors = @ + 1]
    /\ UNCHANGED <<setup, inbox, writing, reading, asked, tx, receiveVars, armed, historyVars>>

\* spi_schedule_rx_timeout at the end of spi_on_read
ArmTimeout ==
    /\ ThreadRuns /\ input = "arm" /\ input' = "free"
    /\ armed' = TRUE
    /\ UNCHANGED <<setup, inbox, writing, reading, asked, tx, receiveVars, historyVars, used>>

(***************************************************************************)
(* The peripherals                                                         *)
(***************************************************************************)
TxDone ==
    /\ tx.state = "busy" /\ tx' = [tx EXCEPT !.state = "done"]
    /\ UNCHANGED <<setup, requestVars, receiveVars, armed, historyVars, used>>

TxError ==
    /\ tx.state = "busy" /\ tx' = [tx EXCEPT !.state = "error"]
    /\ used.errors < MaxErrors /\ used' = [used EXCEPT !.errors = @ + 1]
    /\ UNCHANGED <<setup, requestVars, receiveVars, armed, historyVars>>

\* A byte enters the circular buffer.  Half of the transfer, and the whole of
\* it, raise a flag.  A buffer of bytes that nobody has looked at looks as if
\* nothing had come.
RxByte ==
    LET left == IF rx.left = 1 THEN rx.size ELSE rx.left - 1 IN
    /\ rx.on /\ used.bytes < MaxBytes
    /\ used' = [used EXCEPT !.bytes = @ + 1]
    /\ cells' = [cells EXCEPT ![rx.size - rx.left + 1] = used'.bytes]
    /\ rx' = [rx EXCEPT !.left = left, !.flag = @ \/ left \in {rx.size, rx.size \div 2}]
    /\ stream' = Append(stream, used'.bytes)
    /\ spoiled' = (spoiled \/ Len(stream') - Len(pool) >= BufferSize)
    /\ UNCHANGED <<setup, requestVars, tx, cursor, pool, handling, armed, heard, answer>>

\* A transfer error stops the stream, an error of its FIFO does not, and
\* neither interrupt is enabled; the one of the direct mode's error is
RxError ==
    /\ rx.on /\ used.errors < MaxErrors /\ used' = [used EXCEPT !.errors = @ + 1]
    /\ \E error \in {"silent", "raised"}, on \in BOOLEAN :
          /\ error = "raised" => on
          /\ rx' = [rx EXCEPT !.error = error, !.on = on]
    /\ UNCHANGED <<setup, requestVars, tx, cells, cursor, pool, handling, armed, historyVars>>

(***************************************************************************)
(* Interrupt handlers                                                      *)
(***************************************************************************)
\* Mutant of Finalize: both slots are reported
FinalizeBoth(slot) == asked' = asked \ {Kind(writing), Kind(reading)}

\* actor_event_finalize: the producer's on_event, and an empty slot
Finalize(slot) == asked' = asked \ {Kind(slot)}

\* spi_write_complete, called by actors_dma_notify for the stream of tx
TxInterrupt ==
    /\ tx.state = "done" /\ handling = "none"
    /\ tx' = [of |-> Nobody, state |-> "off"]
    /\ Finalize(writing) /\ writing' = NoRequest
    /\ UNCHANGED <<setup, inbox, input, reading, receiveVars, armed, historyVars, used>>

\* actor_dma_get_buffer_position; a stream that was reset has none left
Position == BufferSize - rx.left

Copied(from, to) == SubSeq(cells, from + 1, to)

\* vpool_insert at the end: nothing is inserted beyond the limit
Insert(data, into) == IF Len(into) + Len(data) > setup.limit THEN into ELSE into \o data

\* Mutant of Ingested: what lies before the end of the buffer is forgotten
IngestedAfterWrap ==
    IF Position >= cursor THEN Insert(Copied(cursor, Position), pool)
    ELSE Insert(Copied(0, Position), pool)

\* actor_dma_ingest: from the cursor to the position, around the end
Ingested ==
    IF Position >= cursor THEN Insert(Copied(cursor, Position), pool)
    ELSE Insert(Copied(0, Position), Insert(Copied(cursor, BufferSize), pool))

\* Mutant of RxInterrupt: the two streams are not told apart
RxInterruptAsTx ==
    /\ RxPending /\ rx.error = "none" /\ handling = "none" /\ handling' = "received"
    /\ tx' = [of |-> Nobody, state |-> "off"]
    /\ Finalize(writing) /\ writing' = NoRequest
    /\ UNCHANGED <<setup, inbox, input, reading, rx, cells, cursor, pool, armed, historyVars, used>>

\* APP_SIGNAL_DMA_TRANSFERRING of the receiving stream ...
RxInterrupt ==
    /\ RxPending /\ rx.error = "none" /\ handling = "none" /\ handling' = "received"
    /\ pool' = Ingested
    /\ cursor' = Position
    /\ spoiled' = (spoiled \/ Len(pool) + ((Position - cursor) % BufferSize) > setup.limit)
    /\ armed' = TRUE
    /\ UNCHANGED <<setup, requestVars, tx, rx, cells, stream, heard, answer, used>>

\* ... and the end of its handler, which clears what was raised meanwhile too
RxClear ==
    /\ handling = "received" /\ handling' = "none"
    /\ rx' = [rx EXCEPT !.flag = FALSE]
    /\ UNCHANGED <<setup, requestVars, tx, cells, cursor, pool, armed, historyVars, used>>

\* Mutant of ReadIsIdle: the timeout alone ends the read
TimeIsUp == TRUE

\* spi_read_is_idle
ReadIsIdle == Position = cursor

\* APP_SIGNAL_TIMEOUT: "if it's not idle still, then we expect for idle
\* interrupt", which nobody raises ...
Timeout ==
    /\ armed /\ armed' = FALSE /\ handling = "none"
    /\ IF ReadIsIdle THEN handling' = "idle" /\ heard' = stream ELSE UNCHANGED <<handling, heard>>
    /\ UNCHANGED <<setup, requestVars, tx, rx, cells, cursor, pool, stream, spoiled, answer, used>>

\* ... and spi_read_complete, of a read that was idle: the stream, on until
\* now, is stopped by actor_dma_tx_stop, which enables its interrupt; the
\* response is made of the pool, but what is published is the pointer to it
ReadComplete ==
    /\ handling = "idle" /\ handling' = "none"
    /\ rx' = [on |-> FALSE, size |-> rx.size, left |-> 0, flag |-> FALSE, error |-> "none",
              irq |-> TRUE]
    /\ answer' = pool /\ pool' = <<>>
    /\ Finalize(reading) /\ reading' = NoRequest
    /\ inbox' = IF Room THEN Append(inbox, Wild) ELSE inbox
    /\ UNCHANGED <<setup, input, writing, tx, cells, cursor, armed, stream, heard, spoiled, used>>

Init ==
    /\ setup \in [unit : Units, limit : Limits]
    /\ inbox = <<>> /\ input = "free" /\ asked = {}
    /\ writing = NoRequest /\ reading = NoRequest
    /\ tx = [of |-> Nobody, state |-> "off"]
    /\ rx = [on |-> FALSE, size |-> 0, left |-> 0, flag |-> FALSE, error |-> "none",
             irq |-> FALSE]
    /\ cells = <<>> /\ cursor = 0 /\ pool = <<>> /\ handling = "none" /\ armed = FALSE
    /\ stream = <<>> /\ heard = <<>> /\ spoiled = FALSE /\ answer = <<>>
    /\ used = [READ |-> 0, WRITE |-> 0, bytes |-> 0, errors |-> 0]

InputStep == Accept \/ AcceptWild \/ StartWrite \/ StartRead \/ OutOfMemory \/ ArmTimeout
Handler == TxInterrupt \/ RxInterrupt \/ RxClear \/ Timeout \/ ReadComplete

Next ==
    \/ \E q \in Request : Ask(q)
    \/ InputStep \/ TxDone \/ TxError \/ RxByte \/ RxError \/ Handler

Spec == Init /\ [][Next]_vars

\* The input thread runs and ends its handlers, interrupts are taken, and what
\* was started on the wire comes to an end
FairSpec == Spec /\ WF_vars(InputStep) /\ WF_vars(TxDone \/ TxError) /\ WF_vars(TxInterrupt)
            /\ WF_vars(RxInterrupt) /\ WF_vars(RxClear) /\ WF_vars(ReadComplete)

(***************************************************************************)
(* Properties                                                              *)
(***************************************************************************)
TypeOK ==
    /\ setup \in [unit : Units, limit : Limits]
    /\ inbox \in Seq(Request \cup {Wild}) /\ Len(inbox) <= InboxSize
    /\ input \in {"free", "write", "read", "arm", "faulted"}
    /\ writing \in Request \cup {NoRequest} /\ reading \in Request \cup {NoRequest}
    /\ asked \subseteq {"READ", "WRITE"} \X Producers
    /\ tx \in [of : Producers \cup {Nobody}, state : {"off", "busy", "done", "error"}]
    /\ rx \in [on : BOOLEAN, size : 0 .. BufferSize, left : 0 .. BufferSize,
               flag : BOOLEAN, error : {"none", "silent", "raised"}, irq : BOOLEAN]
    /\ cells \in {<<>>} \cup [1 .. BufferSize -> Nat]
    /\ cursor \in 0 .. BufferSize
    /\ pool \in Seq(Nat) /\ stream \in Seq(Nat) /\ heard \in Seq(Nat) /\ answer \in Seq(Nat)
    /\ handling \in {"none", "received", "idle"} /\ armed \in BOOLEAN /\ spoiled \in BOOLEAN
    /\ used \in [{"READ", "WRITE", "bytes", "errors"} -> Nat]

\* A write is reported to the producer whose data was on the wire, and only
\* when all of it has been sent: not for a transfer that failed, nor because
\* of an interrupt of the receiving stream or of the timer.
AckMatchesWire ==
    [][writing # NoRequest /\ writing' = NoRequest
       => tx.state = "done" /\ tx.of = writing.from]_vars

\* What has been copied into the pool is what was received, in order and
\* without a gap, wherever the end of the circular buffer lies, and the cursor
\* stands where the copied bytes end: if the read started at the beginning of
\* the buffer and was as long as the buffer, no byte was overwritten in it,
\* and the pool had room for them all.
IngestFaithful ==
    ~spoiled /\ rx.on => /\ pool = SubSeq(stream, 1, Len(pool))
                         /\ cursor = Len(pool) % BufferSize

\* A read that ends hands over every byte that had come when it was found
\* idle: none of them is still in the circular buffer, not copied.  (A byte
\* that comes then, before the stream is stopped, is lost.)
NothingLeftBehind ==
    [][reading # NoRequest /\ reading' = NoRequest /\ ~spoiled => answer' = heard]_vars

Outstanding(type) == \E p \in Producers : <<type, p>> \in asked

\* The handler of the receiving stream is entered without end: it does nothing
\* about the error it finds
RxStorm == RxPending /\ rx.error # "none"

\* A write is reported in the end, unless its transfer fails, an error of the
\* receiving stream keeps the threads from running, or an event made of stack
\* words stops the program.
WriteReported ==
    Outstanding("WRITE")
        ~> ~Outstanding("WRITE") \/ tx.state = "error" \/ RxStorm \/ input = "faulted"

(***************************************************************************)
(* Seen by a client that waits for the report of a request before it sends *)
(* the next, writes and reads are handshakes.  A read is served from the   *)
(* start of its stream on.                                                 *)
(***************************************************************************)
WriteState ==
    IF ~Outstanding("WRITE") THEN "idle"
    ELSE IF tx.state = "error" THEN "failed"
    ELSE IF tx.state = "off" THEN "asked" ELSE "served"

ReadState ==
    IF ~Outstanding("READ") THEN "idle"
    ELSE IF reading = NoRequest \/ input = "read" THEN "asked"
    ELSE IF cells = <<>> THEN "failed" ELSE "served"

Write == INSTANCE Handshake WITH state <- WriteState
Read == INSTANCE Handshake WITH state <- ReadState
WritesShakeHands == Write!Spec
ReadsShakeHands == Read!Spec
=============================================================================
