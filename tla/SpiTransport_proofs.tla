------------------------ MODULE SpiTransport_proofs ------------------------
(***************************************************************************)
(* Proofs about the SPI transport, for any number of clients, requests,    *)
(* bytes and errors, and any buffer and pool: its types; the bytes that    *)
(* are copied around the end of the circular buffer; and the requests of   *)
(* clients that wait for the report of one before they send the next.      *)
(***************************************************************************)
EXTENDS SpiTransport, SequenceTheorems, TLAPS

(***************************************************************************)
(* Types                                                                   *)
(***************************************************************************)
\* A stream that is on, or has a flag, has a buffer, and bytes left in it: the
\* cursor never stands behind the end of the buffer
StreamOK ==
    /\ rx.on => rx.left >= 1 /\ rx.left <= rx.size /\ cells # <<>>
    /\ rx.flag => rx.left >= 1 /\ cells # <<>>
    /\ handling = "idle" => rx.left >= 1
    /\ cursor < BufferSize

SlotsOK == writing.type \in {"WRITE", "IDLE"} /\ reading.type \in {"READ", "IDLE"}

Types == TypeOK /\ StreamOK /\ SlotsOK

TxType == [of : Producers \cup {Nobody}, state : {"off", "busy", "done", "error"}]
RxType == [on : BOOLEAN, size : 0 .. BufferSize, left : 0 .. BufferSize,
           flag : BOOLEAN, error : {"none", "silent", "raised"}, irq : BOOLEAN]
Message == Request \cup {Wild}

LEMMA Sizing == BufferSize \in Nat /\ 1 <= BufferSize /\ InboxSize \in Nat
  BY SpiAssumption

LEMMA RxTyped ==
  ASSUME TypeOK
  PROVE  /\ rx \in RxType /\ rx.on \in BOOLEAN /\ rx.flag \in BOOLEAN /\ rx.irq \in BOOLEAN
         /\ rx.size \in 0 .. BufferSize /\ rx.left \in 0 .. BufferSize
<1>1. rx \in RxType
  BY DEF TypeOK, RxType
<1> QED
  BY <1>1 DEF RxType

LEMMA PositionTyped ==
  ASSUME TypeOK
  PROVE  Position \in 0 .. BufferSize
<1>1. rx.left \in 0 .. BufferSize
  BY RxTyped
<1> QED
  BY <1>1, Sizing DEF Position

LEMMA UsedTyped ==
  ASSUME TypeOK
  PROVE  /\ used \in [{"READ", "WRITE", "bytes", "errors"} -> Nat]
         /\ used.READ \in Nat /\ used.WRITE \in Nat /\ used.bytes \in Nat /\ used.errors \in Nat
  BY DEF TypeOK

LEMMA SlotTyped ==
  ASSUME NEW slot \in Request \cup {NoRequest}
  PROVE  slot.size \in 0 .. BufferSize /\ slot.from \in Producers \cup {Nobody}
<1>1. CASE slot \in Request
  <2>1. slot.size \in Sizes \cup {0} /\ slot.from \in Producers
    BY <1>1 DEF Request
  <2>2. Sizes \subseteq 0 .. BufferSize /\ 0 \in 0 .. BufferSize
    BY SpiAssumption
  <2> QED
    BY <2>1, <2>2
<1>2. CASE slot = NoRequest
  BY <1>2, Sizing DEF NoRequest
<1> QED
  BY <1>1, <1>2

LEMMA BufferIsNotEmpty ==
  ASSUME NEW f \in [1 .. BufferSize -> Nat]
  PROVE  f # <<>>
<1>1. DOMAIN f = 1 .. BufferSize /\ 1 \in 1 .. BufferSize
  BY Sizing
<1>2. DOMAIN <<>> = {}
  OBVIOUS
<1> QED
  BY <1>1, <1>2

LEMMA CountTyped ==
  ASSUME TypeOK, NEW k \in {"READ", "WRITE", "bytes", "errors"},
         used' = [used EXCEPT ![k] = @ + 1]
  PROVE  used' \in [{"READ", "WRITE", "bytes", "errors"} -> Nat] /\ used'[k] \in Nat
<1> DEFINE K == {"READ", "WRITE", "bytes", "errors"}
<1>1. used \in [K -> Nat]
  BY UsedTyped
<1>2. used[k] + 1 \in Nat
  BY <1>1
<1> HIDE DEF K
<1>3. used' \in [K -> Nat]
  BY <1>1, <1>2
<1> QED
  BY <1>3 DEF K

LEMMA CopiedType ==
  ASSUME TypeOK, cells # <<>>, NEW from \in 0 .. BufferSize, NEW to \in from .. BufferSize
  PROVE  Copied(from, to) \in Seq(Nat)
<1>1. cells \in [1 .. BufferSize -> Nat]
  BY DEF TypeOK
<1>2. cells \in Seq(Nat) /\ Len(cells) = BufferSize
  BY <1>1, Sizing
<1>3. from \in Nat /\ to \in Nat /\ from <= to /\ to <= BufferSize
  BY Sizing
<1>4. \A i \in from + 1 .. to : cells[i] \in Nat
  BY <1>1, <1>3, Sizing
<1>5. SubSeq(cells, from + 1, to) \in Seq(Nat)
  BY <1>2, <1>3, <1>4
<1> QED
  BY <1>5 DEF Copied

LEMMA InsertType ==
  ASSUME NEW data \in Seq(Nat), NEW into \in Seq(Nat)
  PROVE  Insert(data, into) \in Seq(Nat)
  BY DEF Insert

LEMMA IngestedType ==
  ASSUME TypeOK, cells # <<>>
  PROVE  Ingested \in Seq(Nat)
<1>1. Position \in 0 .. BufferSize /\ cursor \in 0 .. BufferSize /\ pool \in Seq(Nat)
  BY PositionTyped DEF TypeOK
<1>2. CASE Position >= cursor
  <2>1. Copied(cursor, Position) \in Seq(Nat)
    BY <1>1, <1>2, CopiedType, Sizing
  <2> QED
    BY <1>1, <1>2, <2>1, InsertType DEF Ingested
<1>3. CASE ~(Position >= cursor)
  <2>1. Copied(cursor, BufferSize) \in Seq(Nat) /\ Copied(0, Position) \in Seq(Nat)
    BY <1>1, CopiedType, Sizing
  <2>2. Insert(Copied(cursor, BufferSize), pool) \in Seq(Nat)
    BY <1>1, <2>1, InsertType
  <2> QED
    BY <1>3, <2>1, <2>2, InsertType DEF Ingested
<1> QED
  BY <1>2, <1>3

LEMMA InitTypes == Init => Types
<1> SUFFICES ASSUME Init PROVE Types
  OBVIOUS
<1>1. used \in [{"READ", "WRITE", "bytes", "errors"} -> Nat]
  BY DEF Init
<1>2. rx \in RxType
  <2>1. 0 \in 0 .. BufferSize
    BY Sizing
  <2> QED
    BY <2>1 DEF Init, RxType
<1>3. tx \in TxType
  BY DEF Init, TxType
<1>4. cursor \in 0 .. BufferSize /\ Len(inbox) <= InboxSize
  BY Sizing DEF Init
<1>5. /\ inbox \in Seq(Request \cup {Wild}) /\ pool \in Seq(Nat) /\ stream \in Seq(Nat)
      /\ answer \in Seq(Nat)
  BY DEF Init
<1>6. TypeOK
  BY <1>1, <1>2, <1>3, <1>4, <1>5 DEF Init, TypeOK, RxType, TxType
<1> QED
  BY <1>6, Sizing DEF Types, Init, StreamOK, SlotsOK, NoRequest

LEMMA AskTypes ==
  ASSUME Types, NEW q \in Request, Ask(q)
  PROVE  Types'
<1>1. inbox' \in Seq(Message) /\ Len(inbox') <= InboxSize
  BY SpiAssumption DEF Ask, Room, Types, TypeOK, Message
<1>2. q.type \in {"READ", "WRITE"} /\ q.from \in Producers
  BY DEF Request
<1>3. used' \in [{"READ", "WRITE", "bytes", "errors"} -> Nat]
  BY <1>2 DEF Ask, Types, TypeOK
<1>4. asked' \subseteq {"READ", "WRITE"} \X Producers
  BY <1>2 DEF Ask, Types, TypeOK, Kind
<1> QED
  BY <1>1, <1>3, <1>4 DEF Ask, Types, TypeOK, StreamOK, SlotsOK, receiveVars, historyVars, Message

LEMMA AcceptTypes ==
  ASSUME Types, Accept \/ AcceptWild
  PROVE  Types'
<1>1. inbox \in Seq(Message) /\ inbox # <<>> /\ inbox' = Tail(inbox)
  BY DEF Accept, AcceptWild, Types, TypeOK, Message
<1>2. inbox' \in Seq(Message) /\ Len(inbox') <= InboxSize /\ Head(inbox) \in Message
  BY <1>1, SpiAssumption DEF Types, TypeOK
<1>3. CASE Accept
  <2>1. Head(inbox) \in Request /\ Head(inbox).type \in {"READ", "WRITE"}
    BY <1>2, <1>3 DEF Accept, Message, Request
  <2>2. /\ writing' \in Request \cup {NoRequest} /\ reading' \in Request \cup {NoRequest}
        /\ input' \in {"free", "write", "read", "arm", "faulted"} /\ SlotsOK'
    BY <1>3, <2>1 DEF Accept, Types, TypeOK, SlotsOK
  <2>3. UNCHANGED <<setup, asked, tx, rx, cells, cursor, pool, handling, armed, stream, heard,
                    spoiled, answer, used>>
    BY <1>3 DEF Accept, receiveVars, historyVars
  <2>4. TypeOK'
    BY <1>2, <2>2, <2>3 DEF Types, TypeOK, Message
  <2> QED
    BY <2>2, <2>3, <2>4 DEF Types, StreamOK
<1>4. CASE AcceptWild
  <2>1. UNCHANGED <<setup, asked, tx, rx, cells, cursor, pool, handling, armed, stream, heard,
                    spoiled, answer, used, writing, reading>>
    BY <1>4 DEF AcceptWild, receiveVars, historyVars
  <2>2. input' \in {"free", "write", "read", "arm", "faulted"}
    BY <1>4 DEF AcceptWild
  <2>3. TypeOK'
    BY <1>2, <2>1, <2>2 DEF Types, TypeOK, Message
  <2> QED
    BY <2>1, <2>3 DEF Types, StreamOK, SlotsOK
<1> QED
  BY <1>3, <1>4

LEMMA StartTypes ==
  ASSUME Types, StartWrite \/ StartRead \/ OutOfMemory \/ ArmTimeout
  PROVE  Types'
<1>1. CASE StartWrite
  <2>1. writing.from \in Producers \cup {Nobody}
    BY DEF Types, TypeOK, Request, NoRequest
  <2>2. tx' \in TxType
    BY <1>1, <2>1 DEF StartWrite, TxType
  <2> QED
    BY <1>1, <2>2 DEF StartWrite, Types, TypeOK, StreamOK, SlotsOK, receiveVars, historyVars, TxType
<1>2. CASE StartRead
  <2> DEFINE size == IF reading.size = 0 THEN BufferSize ELSE reading.size
  <2>1. size \in 1 .. BufferSize
    <3>1. reading \in Request \cup {NoRequest}
      BY DEF Types, TypeOK
    <3>2. reading.size \in 0 .. BufferSize
      BY <3>1, SlotTyped
    <3> QED
      BY <3>2, Sizing
  <2>2. rx' = [rx EXCEPT !.on = (setup.unit = 1), !.size = size, !.left = size, !.flag = FALSE,
                         !.error = "none"]
    BY <1>2 DEF StartRead
  <2>3. (setup.unit = 1) \in BOOLEAN
    OBVIOUS
  <2> HIDE DEF size
  <2>4. rx' \in RxType /\ rx'.left = size /\ rx'.size = size /\ rx'.flag = FALSE
    <3>1. rx \in RxType /\ size \in 0 .. BufferSize
      BY <2>1, Sizing, RxTyped DEF Types
    <3> QED
      BY <2>2, <2>3, <3>1 DEF RxType
  <2>5. cells' \in [1 .. BufferSize -> Nat] /\ cells' # <<>>
    <3>1. cells' \in [1 .. BufferSize -> Nat]
      BY <1>2 DEF StartRead, Types, TypeOK
    <3> QED
      BY <3>1, BufferIsNotEmpty
  <2>6. StreamOK'
    BY <1>2, <2>1, <2>4, <2>5, Sizing DEF StreamOK, StartRead, Types
  <2>7. spoiled' \in BOOLEAN /\ stream' \in Seq(Nat)
    BY <1>2 DEF StartRead
  <2> QED
    BY <1>2, <2>4, <2>5, <2>6, <2>7 DEF StartRead, Types, TypeOK, SlotsOK, RxType
<1>3. CASE OutOfMemory
  <2>1. used' \in [{"READ", "WRITE", "bytes", "errors"} -> Nat]
    BY <1>3, CountTyped DEF OutOfMemory, Types
  <2> QED
    BY <1>3, <2>1 DEF OutOfMemory, Types, TypeOK, StreamOK, SlotsOK, receiveVars, historyVars
<1>4. CASE ArmTimeout
  BY <1>4 DEF ArmTimeout, Types, TypeOK, StreamOK, SlotsOK, receiveVars, historyVars
<1> QED
  BY <1>1, <1>2, <1>3, <1>4

LEMMA RxErrorIs ==
  ASSUME rx \in RxType, RxError
  PROVE  rx' \in RxType /\ rx'.left = rx.left /\ rx'.size = rx.size /\ rx'.flag = rx.flag
<1>1. PICK error \in {"silent", "raised"}, on \in BOOLEAN :
             rx' = [rx EXCEPT !.error = error, !.on = on]
  BY DEF RxError
<1> QED
  BY <1>1 DEF RxType

LEMMA WireTypes ==
  ASSUME Types, TxDone \/ TxError \/ RxByte \/ RxError
  PROVE  Types'
<1>1. CASE TxDone
  <2>1. tx' \in TxType
    BY <1>1 DEF TxDone, Types, TypeOK, TxType
  <2> QED
    BY <1>1, <2>1 DEF TxDone, TxType, Types, TypeOK, StreamOK, SlotsOK, requestVars, receiveVars,
                      historyVars
<1>2. CASE TxError
  <2>1. used' \in [{"READ", "WRITE", "bytes", "errors"} -> Nat]
    BY <1>2, CountTyped DEF TxError, Types
  <2>2. tx' \in TxType
    BY <1>2 DEF TxError, Types, TypeOK, TxType
  <2> QED
    BY <1>2, <2>1, <2>2 DEF TxError, TxType, Types, TypeOK, StreamOK, SlotsOK, requestVars,
                            receiveVars, historyVars
<1>3. CASE RxByte
  <2> DEFINE left == IF rx.left = 1 THEN rx.size ELSE rx.left - 1
             flag == rx.flag \/ left \in {rx.size, rx.size \div 2}
  <2>1. rx.left \in 1 .. rx.size /\ rx.size \in 0 .. BufferSize /\ cells # <<>> /\ rx \in RxType
    BY <1>3, SpiAssumption DEF RxByte, Types, StreamOK, TypeOK, RxType
  <2>2. left \in 1 .. rx.size /\ left \in 0 .. BufferSize
    BY <2>1, SpiAssumption
  <2>3. rx' = [rx EXCEPT !.left = left, !.flag = flag]
    BY <1>3 DEF RxByte
  <2>4. flag \in BOOLEAN
    BY <2>1 DEF RxType
  <2> HIDE DEF left, flag
  <2>5. rx' \in RxType /\ rx'.on = rx.on /\ rx'.left = left /\ rx'.size = rx.size
    BY <2>1, <2>2, <2>3, <2>4 DEF RxType
  <2>6. used' \in [{"READ", "WRITE", "bytes", "errors"} -> Nat] /\ used'.bytes \in Nat
    BY <1>3, CountTyped DEF RxByte, Types
  <2>7. cells' \in [1 .. BufferSize -> Nat] /\ cells' # <<>>
    <3>1. cells \in [1 .. BufferSize -> Nat]
      BY <2>1 DEF Types, TypeOK
    <3>2. cells' = [cells EXCEPT ![rx.size - rx.left + 1] = used'.bytes]
      BY <1>3 DEF RxByte
    <3>3. cells' \in [1 .. BufferSize -> Nat]
      BY <2>6, <3>1, <3>2
    <3> QED
      BY <3>3, BufferIsNotEmpty
  <2>8. StreamOK'
    <3>1. cursor' = cursor /\ cursor < BufferSize /\ rx'.left >= 1
      BY <1>3, <2>2, <2>5 DEF RxByte, Types, StreamOK
    <3> QED
      BY <2>1, <2>2, <2>5, <2>7, <3>1 DEF StreamOK
  <2>9. stream' \in Seq(Nat) /\ spoiled' \in BOOLEAN
    BY <1>3, <2>6 DEF RxByte, Types, TypeOK
  <2>10. /\ setup' = setup /\ inbox' = inbox /\ input' = input /\ writing' = writing
         /\ reading' = reading /\ asked' = asked /\ tx' = tx /\ cursor' = cursor /\ pool' = pool
         /\ handling' = handling /\ armed' = armed /\ heard' = heard /\ answer' = answer
    BY <1>3 DEF RxByte, requestVars
  <2>11. SlotsOK'
    BY <2>10 DEF Types, SlotsOK
  <2>12. TypeOK'
    BY <2>5, <2>6, <2>7, <2>9, <2>10 DEF Types, TypeOK, RxType
  <2> QED
    BY <2>8, <2>11, <2>12 DEF Types
<1>4. CASE RxError
  <2>1. used' \in [{"READ", "WRITE", "bytes", "errors"} -> Nat]
    BY <1>4, CountTyped DEF RxError, Types
  <2>2. rx' \in RxType /\ rx'.left = rx.left /\ rx'.size = rx.size /\ rx'.flag = rx.flag
    BY <1>4, RxTyped, RxErrorIs DEF Types
  <2>3. rx.on /\ UNCHANGED <<setup, requestVars, tx, cells, cursor, pool, handling, armed, historyVars>>
    BY <1>4 DEF RxError
  <2>4. StreamOK' /\ SlotsOK'
    BY <2>2, <2>3 DEF Types, StreamOK, SlotsOK, requestVars
  <2>5. TypeOK'
    BY <2>1, <2>2, <2>3 DEF Types, TypeOK, RxType, requestVars, historyVars
  <2> QED
    BY <2>4, <2>5 DEF Types
<1> QED
  BY <1>1, <1>2, <1>3, <1>4

LEMMA TimeoutLeaves ==
  ASSUME TypeOK, Timeout,
         handling' \in {"none", "received", "idle"}, heard' \in Seq(Nat), armed' \in BOOLEAN
  PROVE  TypeOK'
<1>1. UNCHANGED <<setup, inbox, input, writing, reading, asked, tx, rx, cells, cursor, pool, stream,
                  spoiled, answer, used>>
  BY DEF Timeout, requestVars
<1> QED
  BY <1>1 DEF TypeOK

LEMMA HandlerTypes ==
  ASSUME Types, Handler
  PROVE  Types'
<1>1. CASE TxInterrupt
  <2>1. asked' \subseteq {"READ", "WRITE"} \X Producers /\ tx' \in TxType
    BY <1>1 DEF TxInterrupt, Finalize, Types, TypeOK, TxType
  <2> QED
    BY <1>1, <2>1 DEF TxInterrupt, Types, TypeOK, StreamOK, SlotsOK, receiveVars, historyVars,
                      TxType, NoRequest
<1>2. CASE RxInterrupt
  <2>1. cells # <<>>
    BY <1>2 DEF RxInterrupt, RxPending, Types, StreamOK
  <2>2. pool' \in Seq(Nat)
    BY <1>2, <2>1, IngestedType DEF RxInterrupt, Types
  <2>3. cursor' \in 0 .. BufferSize /\ cursor' < BufferSize
    <3>1. rx.left \in 0 .. BufferSize /\ rx.left >= 1
      BY <1>2, RxTyped DEF RxInterrupt, RxPending, Types, StreamOK
    <3>2. cursor' = BufferSize - rx.left
      BY <1>2 DEF RxInterrupt, Position
    <3> QED
      BY <3>1, <3>2, Sizing
  <2>4. spoiled' \in BOOLEAN
    BY <1>2 DEF RxInterrupt, Types, TypeOK
  <2> QED
    BY <1>2, <2>2, <2>3, <2>4 DEF RxInterrupt, Types, TypeOK, StreamOK, SlotsOK, requestVars
<1>3. CASE RxClear
  <2>1. /\ rx' \in RxType /\ rx'.flag = FALSE
        /\ rx'.on = rx.on /\ rx'.left = rx.left /\ rx'.size = rx.size
    BY <1>3 DEF RxClear, Types, TypeOK, RxType
  <2>2. StreamOK' /\ SlotsOK'
    BY <1>3, <2>1 DEF RxClear, Types, StreamOK, SlotsOK, requestVars
  <2>3. TypeOK'
    BY <1>3, <2>1 DEF RxClear, Types, TypeOK, requestVars, historyVars, RxType
  <2> QED
    BY <2>2, <2>3 DEF Types
<1>4. CASE Timeout
  <2>1. CASE ReadIsIdle
    <3>1. cursor = BufferSize - rx.left /\ rx.left \in 0 .. BufferSize /\ cursor < BufferSize
      BY <2>1, RxTyped DEF ReadIsIdle, Position, Types, StreamOK
    <3>2. rx.left >= 1
      BY <3>1, Sizing
    <3>3. StreamOK' /\ SlotsOK'
      BY <1>4, <3>2 DEF Timeout, Types, StreamOK, SlotsOK, requestVars
    <3>4. handling' \in {"none", "received", "idle"} /\ heard' \in Seq(Nat) /\ armed' \in BOOLEAN
      BY <1>4, <2>1 DEF Timeout, Types, TypeOK
    <3>5. TypeOK'
      BY <1>4, <3>4, TimeoutLeaves DEF Types
    <3> QED
      BY <3>3, <3>5 DEF Types
  <2>2. CASE ~ReadIsIdle
    <3>1. StreamOK' /\ SlotsOK'
      BY <1>4, <2>2 DEF Timeout, Types, StreamOK, SlotsOK, requestVars
    <3>2. handling' \in {"none", "received", "idle"} /\ heard' \in Seq(Nat) /\ armed' \in BOOLEAN
      BY <1>4, <2>2 DEF Timeout, Types, TypeOK
    <3>3. TypeOK'
      BY <1>4, <3>2, TimeoutLeaves DEF Types
    <3> QED
      BY <3>1, <3>3 DEF Types
  <2> QED
    BY <2>1, <2>2
<1>5. CASE ReadComplete
  <2>1. rx' \in RxType /\ rx'.on = FALSE /\ rx'.flag = FALSE
    <3>1. rx' = [on |-> FALSE, size |-> rx.size, left |-> 0, flag |-> FALSE, error |-> "none",
                 irq |-> TRUE]
      BY <1>5 DEF ReadComplete
    <3>2. rx.size \in 0 .. BufferSize /\ 0 \in 0 .. BufferSize
      BY SpiAssumption DEF Types, TypeOK
    <3> QED
      BY <3>1, <3>2 DEF RxType
  <2>2. inbox' \in Seq(Message) /\ Len(inbox') <= InboxSize
    <3>1. inbox' = IF Room THEN Append(inbox, Wild) ELSE inbox
      BY <1>5 DEF ReadComplete
    <3>2. inbox \in Seq(Message) /\ Len(inbox) <= InboxSize
      BY DEF Types, TypeOK, Message
    <3>3. Wild \in Message
      BY DEF Message
    <3> HIDE DEF Message, Wild
    <3> QED
      BY <3>1, <3>2, <3>3, SpiAssumption DEF Room
  <2>3. asked' \subseteq {"READ", "WRITE"} \X Producers
    BY <1>5 DEF ReadComplete, Finalize, Types, TypeOK
  <2>4. pool' \in Seq(Nat) /\ answer' \in Seq(Nat) /\ reading' = NoRequest /\ handling' = "none"
    BY <1>5 DEF ReadComplete, Types, TypeOK
  <2> QED
    BY <1>5, <2>1, <2>2, <2>3, <2>4
       DEF ReadComplete, Types, TypeOK, StreamOK, SlotsOK, RxType, Message, NoRequest
<1> QED
  BY <1>1, <1>2, <1>3, <1>4, <1>5 DEF Handler

LEMMA StutterTypes ==
  ASSUME Types, UNCHANGED vars
  PROVE  Types'
  BY DEF vars, requestVars, receiveVars, historyVars, Types, TypeOK, StreamOK, SlotsOK

LEMMA NextTypes ==
  ASSUME Types, [Next]_vars
  PROVE  Types'
BY AskTypes, AcceptTypes, StartTypes, WireTypes, HandlerTypes, StutterTypes DEF Next, InputStep

(***************************************************************************)
(* Where a request is.  While one is outstanding, at most, it is in the    *)
(* queue, or has been taken and its handler runs, or it is on the wire.    *)
(***************************************************************************)
Asks(k, p) == <<k, p>> \in asked
NoneAsks(k) == \A p \in Producers : ~Asks(k, p)
OnlyAsks(k, p) == Asks(k, p) /\ \A r \in Producers : Asks(k, r) => r = p

NoneQueued(k) == \A i \in 1 .. Len(inbox) : inbox[i].type # k
OnlyQueued(k, p) ==
    \E i \in 1 .. Len(inbox) :
        /\ inbox[i].type = k /\ inbox[i].from = p
        /\ \A j \in 1 .. Len(inbox) : inbox[j].type = k => j = i

WriteIdle == NoneQueued("WRITE") /\ writing = NoRequest /\ input # "write" /\ tx.state = "off"
WriteQueued(p) ==
    OnlyQueued("WRITE", p) /\ writing = NoRequest /\ input # "write" /\ tx.state = "off"
WriteTaken(p) ==
    /\ NoneQueued("WRITE") /\ writing.type = "WRITE" /\ writing.from = p
    /\ input = "write" /\ tx.state = "off"
WriteSent(p) ==
    /\ NoneQueued("WRITE") /\ writing.type = "WRITE" /\ writing.from = p
    /\ input # "write" /\ tx.state # "off" /\ tx.of = p

WriteInv ==
    \/ NoneAsks("WRITE") /\ WriteIdle
    \/ \E p \in Producers :
          OnlyAsks("WRITE", p) /\ (WriteQueued(p) \/ WriteTaken(p) \/ WriteSent(p))

\* A stream that is stopped looks as if it stood at the end of the buffer, where
\* the cursor never is: a timeout that comes late ends no read
AtRest == ~rx.on /\ ~rx.flag /\ rx.left = 0

ReadIdle == NoneQueued("READ") /\ reading = NoRequest /\ input # "read" /\ AtRest
ReadQueued(p) == OnlyQueued("READ", p) /\ reading = NoRequest /\ input # "read" /\ AtRest
ReadTaken(p) ==
    /\ NoneQueued("READ") /\ reading.type = "READ" /\ reading.from = p
    /\ input = "read" /\ AtRest
ReadStarted(p) ==
    /\ NoneQueued("READ") /\ reading.type = "READ" /\ reading.from = p
    /\ input # "read" /\ (cells = <<>> => AtRest)

ReadInv ==
    \/ NoneAsks("READ") /\ ReadIdle
    \/ \E p \in Producers :
          OnlyAsks("READ", p) /\ (ReadQueued(p) \/ ReadTaken(p) \/ ReadStarted(p))

IInv == Types /\ WriteInv /\ ReadInv

(***************************************************************************)
(* The queue                                                               *)
(***************************************************************************)
QueueKept(k) ==
    /\ NoneQueued(k) => NoneQueued(k)'
    /\ \A p \in Producers : OnlyQueued(k, p) => OnlyQueued(k, p)'

AsksKept(k) == \A p \in Producers : Asks(k, p)' <=> Asks(k, p)

LEMMA SameQueue ==
  ASSUME inbox' = inbox, NEW k
  PROVE  QueueKept(k)
BY DEF QueueKept, NoneQueued, OnlyQueued

LEMMA OtherIsAppended ==
  ASSUME inbox \in Seq(Message), NEW m \in Message, inbox' = Append(inbox, m),
         NEW k, m.type # k
  PROVE  QueueKept(k)
<1> HIDE DEF Message
<1>1. /\ Len(inbox) \in Nat /\ Len(inbox') = Len(inbox) + 1
      /\ \A i \in 1 .. Len(inbox) : inbox'[i] = inbox[i]
      /\ inbox'[Len(inbox) + 1] = m
  OBVIOUS
<1>2. \A i \in 1 .. Len(inbox') : inbox'[i].type = k => i \in 1 .. Len(inbox)
  BY <1>1
<1>3. NoneQueued(k) => NoneQueued(k)'
  BY <1>1, <1>2 DEF NoneQueued
<1>4. ASSUME NEW p \in Producers, OnlyQueued(k, p)
      PROVE  OnlyQueued(k, p)'
  <2>1. PICK i \in 1 .. Len(inbox) :
               /\ inbox[i].type = k /\ inbox[i].from = p
               /\ \A j \in 1 .. Len(inbox) : inbox[j].type = k => j = i
    BY <1>4 DEF OnlyQueued
  <2>2. i \in 1 .. Len(inbox') /\ inbox'[i].type = k /\ inbox'[i].from = p
    BY <1>1, <2>1
  <2>3. \A j \in 1 .. Len(inbox') : inbox'[j].type = k => j = i
    BY <1>1, <1>2, <2>1
  <2> QED
    BY <2>2, <2>3 DEF OnlyQueued
<1> QED
  BY <1>3, <1>4 DEF QueueKept

LEMMA FirstIsAppended ==
  ASSUME inbox \in Seq(Message), NEW m \in Message, inbox' = Append(inbox, m),
         NEW k, m.type = k, NoneQueued(k), NEW p, m.from = p
  PROVE  OnlyQueued(k, p)'
<1> HIDE DEF Message
<1>1. /\ Len(inbox) \in Nat /\ Len(inbox') = Len(inbox) + 1
      /\ \A i \in 1 .. Len(inbox) : inbox'[i] = inbox[i]
      /\ inbox'[Len(inbox) + 1] = m
  OBVIOUS
<1>2. \A j \in 1 .. Len(inbox') : inbox'[j].type = k => j = Len(inbox) + 1
  BY <1>1 DEF NoneQueued
<1>3. Len(inbox) + 1 \in 1 .. Len(inbox')
  BY <1>1
<1> QED
  BY <1>1, <1>2, <1>3 DEF OnlyQueued

LEMMA TailProperties ==
  ASSUME inbox \in Seq(Message), inbox # <<>>, inbox' = Tail(inbox)
  PROVE  /\ Len(inbox) \in Nat /\ Len(inbox) >= 1 /\ Len(inbox') = Len(inbox) - 1
         /\ \A i \in 1 .. Len(inbox') : inbox'[i] = inbox[i + 1]
         /\ Head(inbox) = inbox[1]
<1> HIDE DEF Message
<1> QED
  OBVIOUS

LEMMA OtherIsTaken ==
  ASSUME inbox \in Seq(Message), inbox # <<>>, inbox' = Tail(inbox),
         NEW k, Head(inbox).type # k
  PROVE  QueueKept(k)
<1>1. /\ Len(inbox) \in Nat /\ Len(inbox) >= 1 /\ Len(inbox') = Len(inbox) - 1
      /\ \A i \in 1 .. Len(inbox') : inbox'[i] = inbox[i + 1]
      /\ inbox[1].type # k
  BY TailProperties
<1>2. NoneQueued(k) => NoneQueued(k)'
  BY <1>1 DEF NoneQueued
<1>3. ASSUME NEW p \in Producers, OnlyQueued(k, p)
      PROVE  OnlyQueued(k, p)'
  <2>1. PICK i \in 1 .. Len(inbox) :
               /\ inbox[i].type = k /\ inbox[i].from = p
               /\ \A j \in 1 .. Len(inbox) : inbox[j].type = k => j = i
    BY <1>3 DEF OnlyQueued
  <2>2. i - 1 \in 1 .. Len(inbox') /\ inbox'[i - 1] = inbox[i]
    <3>1. i # 1
      BY <1>1, <2>1
    <3>2. i - 1 \in 1 .. Len(inbox') /\ (i - 1) + 1 = i
      BY <1>1, <3>1
    <3> QED
      BY <1>1, <3>2
  <2>3. ASSUME NEW j \in 1 .. Len(inbox'), inbox'[j].type = k
        PROVE  j = i - 1
    <3>1. j + 1 \in 1 .. Len(inbox) /\ inbox[j + 1].type = k
      BY <1>1, <2>3
    <3> QED
      BY <2>1, <3>1
  <2> QED
    BY <2>1, <2>2, <2>3 DEF OnlyQueued
<1> QED
  BY <1>2, <1>3 DEF QueueKept

LEMMA OnlyOneIsTaken ==
  ASSUME inbox \in Seq(Message), inbox # <<>>, inbox' = Tail(inbox),
         NEW k, Head(inbox).type = k, NEW p, OnlyQueued(k, p)
  PROVE  Head(inbox).from = p /\ NoneQueued(k)'
<1>1. /\ Len(inbox) \in Nat /\ Len(inbox) >= 1 /\ Len(inbox') = Len(inbox) - 1
      /\ \A i \in 1 .. Len(inbox') : inbox'[i] = inbox[i + 1]
      /\ inbox[1].type = k /\ Head(inbox) = inbox[1]
  BY TailProperties
<1>2. PICK i \in 1 .. Len(inbox) :
             /\ inbox[i].type = k /\ inbox[i].from = p
             /\ \A j \in 1 .. Len(inbox) : inbox[j].type = k => j = i
  BY DEF OnlyQueued
<1>3. i = 1
  BY <1>1, <1>2
<1>4. ASSUME NEW j \in 1 .. Len(inbox'), inbox'[j].type = k
      PROVE  FALSE
  <2>1. j + 1 \in 1 .. Len(inbox) /\ inbox[j + 1].type = k
    BY <1>1, <1>4
  <2> QED
    BY <1>2, <1>3, <2>1
<1> QED
  BY <1>1, <1>2, <1>3, <1>4 DEF NoneQueued

(***************************************************************************)
(* What a step leaves as it was                                            *)
(***************************************************************************)
LEMMA InitInv == Init => IInv
<1> SUFFICES ASSUME Init PROVE IInv
  OBVIOUS
<1>1. NoneAsks("WRITE") /\ NoneAsks("READ")
  BY DEF Init, NoneAsks, Asks
<1>2. NoneQueued("WRITE") /\ NoneQueued("READ")
  BY DEF Init, NoneQueued
<1>3. WriteInv
  BY <1>1, <1>2 DEF Init, WriteInv, WriteIdle
<1>4. ReadInv
  BY <1>1, <1>2 DEF Init, ReadInv, ReadIdle, AtRest
<1> QED
  BY <1>3, <1>4, InitTypes DEF IInv

LEMMA WriteKept ==
  ASSUME WriteInv, QueueKept("WRITE"), AsksKept("WRITE"), writing' = writing, tx' = tx,
         input' = "write" <=> input = "write"
  PROVE  WriteInv'
<1>1. CASE NoneAsks("WRITE") /\ WriteIdle
  <2>1. NoneAsks("WRITE")' /\ WriteIdle'
    BY <1>1 DEF QueueKept, AsksKept, NoneAsks, WriteIdle
  <2> QED
    BY <2>1 DEF WriteInv
<1>2. ASSUME NEW p \in Producers, OnlyAsks("WRITE", p),
             WriteQueued(p) \/ WriteTaken(p) \/ WriteSent(p)
      PROVE  WriteInv'
  <2>1. OnlyAsks("WRITE", p)'
    BY <1>2 DEF AsksKept, OnlyAsks
  <2>2. (WriteQueued(p) \/ WriteTaken(p) \/ WriteSent(p))'
    BY <1>2 DEF QueueKept, WriteQueued, WriteTaken, WriteSent
  <2> QED
    BY <2>1, <2>2 DEF WriteInv
<1> QED
  BY <1>1, <1>2 DEF WriteInv

LEMMA ReadKept ==
  ASSUME ReadInv, QueueKept("READ"), AsksKept("READ"), reading' = reading,
         input' = "read" <=> input = "read", AtRest => AtRest', cells = <<>> => cells' = <<>>,
         cells' = <<>> => cells = <<>>
  PROVE  ReadInv'
<1>1. CASE NoneAsks("READ") /\ ReadIdle
  <2>1. NoneAsks("READ")' /\ ReadIdle'
    BY <1>1 DEF QueueKept, AsksKept, NoneAsks, ReadIdle
  <2> QED
    BY <2>1 DEF ReadInv
<1>2. ASSUME NEW p \in Producers, OnlyAsks("READ", p),
             ReadQueued(p) \/ ReadTaken(p) \/ ReadStarted(p)
      PROVE  ReadInv'
  <2>1. OnlyAsks("READ", p)'
    BY <1>2 DEF AsksKept, OnlyAsks
  <2>2. (ReadQueued(p) \/ ReadTaken(p) \/ ReadStarted(p))'
    BY <1>2 DEF QueueKept, ReadQueued, ReadTaken, ReadStarted
  <2> QED
    BY <2>1, <2>2 DEF ReadInv
<1> QED
  BY <1>1, <1>2 DEF ReadInv

LEMMA SameAsked ==
  ASSUME asked' = asked, NEW k
  PROVE  AsksKept(k)
BY DEF AsksKept, Asks

(***************************************************************************)
(* The steps of the clients and of the input thread                        *)
(***************************************************************************)
LEMMA AskInv ==
  ASSUME OneAtATime, IInv, NEW q \in Request, Ask(q)
  PROVE  WriteInv' /\ ReadInv'
<1>1. /\ inbox \in Seq(Message) /\ inbox' = Append(inbox, q) /\ q \in Message
      /\ asked' = asked \cup {<<q.type, q.from>>}
      /\ writing' = writing /\ reading' = reading /\ tx' = tx /\ input' = input
      /\ rx' = rx /\ cells' = cells
  BY DEF Ask, IInv, Types, TypeOK, Message, Kind, receiveVars
<1>2. q.type \in {"READ", "WRITE"} /\ q.from \in Producers
  BY DEF Request
<1>3. NoneAsks(q.type)
  BY DEF Ask, NoneAsks, Asks
<1>4. AtRest => AtRest'
  BY <1>1 DEF AtRest
<1>5. \A k : k # q.type => AsksKept(k)
  BY <1>1 DEF AsksKept, Asks
<1>6. OnlyAsks(q.type, q.from)'
  BY <1>1, <1>3 DEF OnlyAsks, NoneAsks, Asks
<1>7. CASE q.type = "WRITE"
  <2>1. WriteIdle
    BY <1>3, <1>7 DEF IInv, WriteInv, OnlyAsks, NoneAsks
  <2>2. OnlyQueued("WRITE", q.from)'
    BY <1>1, <1>7, <2>1, FirstIsAppended DEF WriteIdle
  <2>3. WriteQueued(q.from)'
    BY <1>1, <2>1, <2>2 DEF WriteIdle, WriteQueued
  <2>4. WriteInv'
    BY <1>2, <1>6, <1>7, <2>3 DEF WriteInv
  <2>5. QueueKept("READ") /\ AsksKept("READ")
    BY <1>1, <1>5, <1>7, OtherIsAppended
  <2> QED
    BY <1>1, <1>4, <2>4, <2>5, ReadKept DEF IInv
<1>8. CASE q.type = "READ"
  <2>1. ReadIdle
    BY <1>3, <1>8 DEF IInv, ReadInv, OnlyAsks, NoneAsks
  <2>2. OnlyQueued("READ", q.from)'
    BY <1>1, <1>8, <2>1, FirstIsAppended DEF ReadIdle
  <2>3. ReadQueued(q.from)'
    BY <1>1, <1>4, <2>1, <2>2 DEF ReadIdle, ReadQueued
  <2>4. ReadInv'
    BY <1>2, <1>6, <1>8, <2>3 DEF ReadInv
  <2>5. QueueKept("WRITE") /\ AsksKept("WRITE")
    BY <1>1, <1>5, <1>8, OtherIsAppended
  <2> QED
    BY <1>1, <2>4, <2>5, WriteKept DEF IInv
<1> QED
  BY <1>2, <1>7, <1>8

LEMMA AcceptInv ==
  ASSUME IInv, Accept
  PROVE  WriteInv' /\ ReadInv'
<1> DEFINE q == Head(inbox)
<1>1. /\ inbox \in Seq(Message) /\ inbox # <<>> /\ inbox' = Tail(inbox) /\ q # Wild
      /\ asked' = asked /\ tx' = tx /\ rx' = rx /\ cells' = cells /\ input = "free"
  BY DEF Accept, IInv, Types, TypeOK, Message, receiveVars
<1>2. q \in Request
  <2> HIDE DEF Message
  <2>1. q \in Message
    BY <1>1
  <2> QED
    BY <1>1, <2>1 DEF Message
<1>3. q.type \in {"READ", "WRITE"}
  BY <1>2 DEF Request
<1>4. AsksKept("WRITE") /\ AsksKept("READ") /\ (AtRest => AtRest')
  BY <1>1, SameAsked DEF AtRest
<1>5. CASE q.type = "WRITE"
  <2>1. writing' = q /\ reading' = reading /\ input' = "write"
    BY <1>5 DEF Accept
  <2>2. ~NoneQueued("WRITE")
    BY <1>1, <1>5, TailProperties DEF NoneQueued
  <2>3. PICK p \in Producers : OnlyAsks("WRITE", p) /\ WriteQueued(p)
    BY <2>2 DEF IInv, WriteInv, WriteIdle, WriteTaken, WriteSent
  <2>4. q.from = p /\ NoneQueued("WRITE")'
    BY <1>1, <1>5, <2>3, OnlyOneIsTaken DEF WriteQueued
  <2>5. WriteTaken(p)'
    BY <1>1, <1>5, <2>1, <2>3, <2>4 DEF WriteQueued, WriteTaken
  <2>6. OnlyAsks("WRITE", p)'
    BY <1>4, <2>3 DEF AsksKept, OnlyAsks
  <2>7. WriteInv'
    BY <2>5, <2>6 DEF WriteInv
  <2>8. QueueKept("READ")
    BY <1>1, <1>5, OtherIsTaken
  <2> QED
    BY <1>1, <1>4, <2>1, <2>7, <2>8, ReadKept DEF IInv
<1>6. CASE q.type = "READ"
  <2>1. reading' = q /\ writing' = writing /\ input' = "read"
    BY <1>6 DEF Accept
  <2>2. ~NoneQueued("READ")
    BY <1>1, <1>6, TailProperties DEF NoneQueued
  <2>3. PICK p \in Producers : OnlyAsks("READ", p) /\ ReadQueued(p)
    BY <2>2 DEF IInv, ReadInv, ReadIdle, ReadTaken, ReadStarted
  <2>4. q.from = p /\ NoneQueued("READ")'
    BY <1>1, <1>6, <2>3, OnlyOneIsTaken DEF ReadQueued
  <2>5. ReadTaken(p)'
    BY <1>4, <1>6, <2>1, <2>3, <2>4 DEF ReadQueued, ReadTaken
  <2>6. OnlyAsks("READ", p)'
    BY <1>4, <2>3 DEF AsksKept, OnlyAsks
  <2>7. ReadInv'
    BY <2>5, <2>6 DEF ReadInv
  <2>8. QueueKept("WRITE")
    BY <1>1, <1>6, OtherIsTaken
  <2> QED
    BY <1>1, <1>4, <2>1, <2>7, <2>8, WriteKept DEF IInv
<1> QED
  BY <1>3, <1>5, <1>6

LEMMA StartWriteInv ==
  ASSUME IInv, StartWrite
  PROVE  WriteInv' /\ ReadInv'
<1>1. /\ input = "write" /\ input' = "free" /\ inbox' = inbox /\ asked' = asked
      /\ writing' = writing /\ reading' = reading /\ rx' = rx /\ cells' = cells
      /\ tx' = [of |-> writing.from, state |-> IF writing = NoRequest THEN "off" ELSE "busy"]
  BY DEF StartWrite, receiveVars
<1>2. QueueKept("WRITE") /\ QueueKept("READ") /\ AsksKept("WRITE") /\ AsksKept("READ")
  BY <1>1, SameQueue, SameAsked
<1>3. PICK p \in Producers : OnlyAsks("WRITE", p) /\ WriteTaken(p)
  BY <1>1 DEF IInv, WriteInv, WriteIdle, WriteQueued, WriteSent
<1>4. tx'.state = "busy" /\ tx'.of = p
  BY <1>1, <1>3 DEF WriteTaken, NoRequest
<1>5. WriteSent(p)' /\ OnlyAsks("WRITE", p)'
  BY <1>1, <1>2, <1>3, <1>4 DEF WriteTaken, WriteSent, QueueKept, AsksKept, OnlyAsks
<1>6. WriteInv'
  BY <1>5 DEF WriteInv
<1>7. AtRest => AtRest'
  BY <1>1 DEF AtRest
<1> QED
  BY <1>1, <1>2, <1>6, <1>7, ReadKept DEF IInv

LEMMA StartReadInv ==
  ASSUME IInv, StartRead \/ OutOfMemory
  PROVE  /\ WriteInv' /\ ReadInv'
         /\ \E p \in Producers : OnlyAsks("READ", p) /\ ReadTaken(p)
<1>1. /\ input = "read" /\ input' \in {"arm", "free"} /\ inbox' = inbox /\ asked' = asked
      /\ writing' = writing /\ reading' = reading /\ tx' = tx
  BY DEF StartRead, OutOfMemory
<1>2. QueueKept("WRITE") /\ QueueKept("READ") /\ AsksKept("WRITE") /\ AsksKept("READ")
  BY <1>1, SameQueue, SameAsked
<1>3. PICK p \in Producers : OnlyAsks("READ", p) /\ ReadTaken(p)
  BY <1>1 DEF IInv, ReadInv, ReadIdle, ReadQueued, ReadStarted
<1>4. cells' = <<>> => AtRest'
  <2>1. CASE StartRead
    <3>1. cells' \in [1 .. BufferSize -> Nat]
      BY <2>1 DEF StartRead, IInv, Types, TypeOK
    <3> QED
      BY <3>1, BufferIsNotEmpty
  <2>2. CASE OutOfMemory
    BY <1>3, <2>2 DEF OutOfMemory, receiveVars, ReadTaken, AtRest
  <2> QED
    BY <2>1, <2>2
<1>5. ReadStarted(p)' /\ OnlyAsks("READ", p)'
  BY <1>1, <1>2, <1>3, <1>4 DEF ReadTaken, ReadStarted, QueueKept, AsksKept, OnlyAsks
<1>6. ReadInv'
  BY <1>5 DEF ReadInv
<1> QED
  BY <1>1, <1>2, <1>3, <1>6, WriteKept DEF IInv

LEMMA QuietInputInv ==
  ASSUME IInv, AcceptWild \/ ArmTimeout
  PROVE  /\ WriteInv' /\ ReadInv'
         /\ QueueKept("WRITE") /\ QueueKept("READ") /\ AsksKept("WRITE") /\ AsksKept("READ")
<1>1. /\ asked' = asked /\ writing' = writing /\ reading' = reading /\ tx' = tx
      /\ rx' = rx /\ cells' = cells
      /\ input \in {"free", "arm"} /\ input' \in {"free", "faulted"}
  BY DEF AcceptWild, ArmTimeout, receiveVars
<1>2. QueueKept("WRITE") /\ QueueKept("READ")
  <2>1. CASE AcceptWild
    <3>1. /\ inbox \in Seq(Message) /\ inbox # <<>> /\ inbox' = Tail(inbox)
          /\ Head(inbox).type = "WILD"
      BY <2>1 DEF AcceptWild, IInv, Types, TypeOK, Message, Wild
    <3> QED
      BY <3>1, OtherIsTaken
  <2>2. CASE ArmTimeout
    BY <2>2, SameQueue DEF ArmTimeout
  <2> QED
    BY <2>1, <2>2
<1>3. AsksKept("WRITE") /\ AsksKept("READ") /\ (AtRest => AtRest')
  BY <1>1, SameAsked DEF AtRest
<1> QED
  BY <1>1, <1>2, <1>3, WriteKept, ReadKept DEF IInv

(***************************************************************************)
(* The steps of the peripherals and of the interrupt handlers              *)
(***************************************************************************)
LEMMA WireInv ==
  ASSUME IInv, TxDone \/ TxError \/ RxByte \/ RxError
  PROVE  WriteInv' /\ ReadInv'
<1>1. /\ inbox' = inbox /\ asked' = asked /\ input' = input
      /\ writing' = writing /\ reading' = reading
  BY DEF TxDone, TxError, RxByte, RxError, requestVars
<1>2. QueueKept("WRITE") /\ QueueKept("READ") /\ AsksKept("WRITE") /\ AsksKept("READ")
  BY <1>1, SameQueue, SameAsked
<1>3. CASE TxDone \/ TxError
  <2>1. tx.state = "busy" /\ rx' = rx /\ cells' = cells
    BY <1>3 DEF TxDone, TxError, receiveVars
  <2>2. tx'.state # "off" /\ tx'.of = tx.of
    BY <1>3 DEF TxDone, TxError, IInv, Types, TypeOK
  <2>3. PICK p \in Producers : OnlyAsks("WRITE", p) /\ WriteSent(p)
    BY <2>1 DEF IInv, WriteInv, WriteIdle, WriteQueued, WriteTaken
  <2>4. WriteSent(p)' /\ OnlyAsks("WRITE", p)'
    BY <1>1, <1>2, <2>2, <2>3 DEF WriteSent, QueueKept, AsksKept, OnlyAsks
  <2>5. WriteInv'
    BY <2>4 DEF WriteInv
  <2>6. AtRest => AtRest'
    BY <2>1 DEF AtRest
  <2> QED
    BY <1>1, <1>2, <2>1, <2>5, <2>6, ReadKept DEF IInv
<1>4. CASE RxByte
  <2>1. rx.on /\ tx' = tx
    BY <1>4 DEF RxByte
  <2>2. cells # <<>> /\ cells' # <<>>
    <3>1. rx'.on = rx.on
      BY <1>4 DEF RxByte, IInv, Types, TypeOK
    <3> QED
      BY <1>4, <2>1, <3>1, WireTypes DEF IInv, Types, StreamOK
  <2>3. AtRest => AtRest'
    BY <2>1 DEF AtRest
  <2> QED
    BY <1>1, <1>2, <2>1, <2>2, <2>3, WriteKept, ReadKept DEF IInv
<1>5. CASE RxError
  <2>1. rx.on /\ tx' = tx /\ cells' = cells
    BY <1>5 DEF RxError
  <2>2. AtRest => AtRest'
    BY <2>1 DEF AtRest
  <2> QED
    BY <1>1, <1>2, <2>1, <2>2, WriteKept, ReadKept DEF IInv
<1> QED
  BY <1>3, <1>4, <1>5

\* The write on the wire is the one that is reported
LEMMA TxInterruptInv ==
  ASSUME IInv, TxInterrupt
  PROVE  /\ WriteInv' /\ ReadInv' /\ AsksKept("READ") /\ NoneAsks("WRITE")'
         /\ \E p \in Producers : OnlyAsks("WRITE", p) /\ WriteSent(p)
<1>1. /\ tx.state = "done" /\ tx' = [of |-> Nobody, state |-> "off"] /\ writing' = NoRequest
      /\ asked' = asked \ {<<writing.type, writing.from>>}
      /\ inbox' = inbox /\ input' = input /\ reading' = reading /\ rx' = rx /\ cells' = cells
  BY DEF TxInterrupt, Finalize, Kind, receiveVars
<1>2. PICK p \in Producers : OnlyAsks("WRITE", p) /\ WriteSent(p)
  BY <1>1 DEF IInv, WriteInv, WriteIdle, WriteQueued, WriteTaken
<1>3. asked' = asked \ {<<"WRITE", p>>}
  BY <1>1, <1>2 DEF WriteSent
<1>4. NoneAsks("WRITE")' /\ AsksKept("READ")
  BY <1>2, <1>3 DEF OnlyAsks, NoneAsks, AsksKept, Asks
<1>5. QueueKept("WRITE") /\ QueueKept("READ")
  BY <1>1, SameQueue
<1>6. WriteIdle'
  BY <1>1, <1>2, <1>5 DEF WriteSent, WriteIdle, QueueKept
<1>7. WriteInv'
  BY <1>4, <1>6 DEF WriteInv
<1>8. AtRest => AtRest'
  BY <1>1 DEF AtRest
<1> QED
  BY <1>1, <1>2, <1>4, <1>5, <1>7, <1>8, ReadKept DEF IInv

LEMMA RxInterruptInv ==
  ASSUME IInv, RxInterrupt \/ RxClear
  PROVE  WriteInv' /\ ReadInv'
<1>1. /\ inbox' = inbox /\ asked' = asked /\ input' = input
      /\ writing' = writing /\ reading' = reading /\ tx' = tx /\ cells' = cells
      /\ rx' \in {rx, [rx EXCEPT !.flag = FALSE]}
  BY DEF RxInterrupt, RxClear, requestVars
<1>2. QueueKept("WRITE") /\ QueueKept("READ") /\ AsksKept("WRITE") /\ AsksKept("READ")
  BY <1>1, SameQueue, SameAsked
<1>3. AtRest => AtRest'
  <2>1. rx \in RxType
    BY RxTyped DEF IInv, Types
  <2>2. rx'.on = rx.on /\ rx'.left = rx.left /\ (rx'.flag => rx.flag)
    BY <1>1, <2>1 DEF RxType
  <2> QED
    BY <2>2 DEF AtRest
<1> QED
  BY <1>1, <1>2, <1>3, WriteKept, ReadKept DEF IInv

\* A read that ends was started: the timeout finds no stopped stream idle, and
\* none is stopped before its handler is done
LEMMA ReadCompleteInv ==
  ASSUME IInv, ReadComplete
  PROVE  /\ WriteInv' /\ ReadInv' /\ AsksKept("WRITE") /\ NoneAsks("READ")'
         /\ \E p \in Producers : OnlyAsks("READ", p) /\ ReadStarted(p) /\ cells # <<>>
<1>1. /\ rx'.on = FALSE /\ rx'.flag = FALSE /\ rx'.left = 0
      /\ asked' = asked \ {<<reading.type, reading.from>>} /\ reading' = NoRequest
      /\ inbox' \in {inbox, Append(inbox, Wild)}
      /\ input' = input /\ writing' = writing /\ tx' = tx /\ cells' = cells
  BY DEF ReadComplete, Finalize, Kind
<1>2. ~AtRest
  BY DEF ReadComplete, IInv, Types, StreamOK, AtRest
<1>3. PICK p \in Producers : OnlyAsks("READ", p) /\ ReadStarted(p)
  BY <1>2 DEF IInv, ReadInv, ReadIdle, ReadQueued, ReadTaken
<1>4. asked' = asked \ {<<"READ", p>>} /\ cells # <<>>
  BY <1>1, <1>2, <1>3 DEF ReadStarted
<1>5. NoneAsks("READ")' /\ AsksKept("WRITE")
  BY <1>3, <1>4 DEF OnlyAsks, NoneAsks, AsksKept, Asks
<1>6. QueueKept("WRITE") /\ QueueKept("READ")
  <2>1. CASE inbox' = inbox
    BY <2>1, SameQueue
  <2>2. CASE inbox' = Append(inbox, Wild)
    <3>1. inbox \in Seq(Message) /\ Wild \in Message /\ Wild.type = "WILD"
      BY DEF IInv, Types, TypeOK, Message, Wild
    <3> QED
      BY <2>2, <3>1, OtherIsAppended
  <2> QED
    BY <1>1, <2>1, <2>2
<1>7. AtRest'
  BY <1>1 DEF AtRest
<1>8. ReadIdle'
  BY <1>1, <1>3, <1>6, <1>7 DEF ReadStarted, ReadIdle, QueueKept
<1>9. ReadInv'
  BY <1>5, <1>8 DEF ReadInv
<1> QED
  BY <1>1, <1>3, <1>4, <1>5, <1>6, <1>9, WriteKept DEF IInv

LEMMA TimeoutInv ==
  ASSUME IInv, Timeout
  PROVE  WriteInv' /\ ReadInv'
<1>1. /\ inbox' = inbox /\ asked' = asked /\ input' = input
      /\ writing' = writing /\ reading' = reading /\ tx' = tx /\ cells' = cells /\ rx' = rx
  BY DEF Timeout, requestVars
<1>2. QueueKept("WRITE") /\ QueueKept("READ") /\ AsksKept("WRITE") /\ AsksKept("READ")
  BY <1>1, SameQueue, SameAsked
<1>3. AtRest => AtRest'
  BY <1>1 DEF AtRest
<1> QED
  BY <1>1, <1>2, <1>3, WriteKept, ReadKept DEF IInv

LEMMA StutterInv ==
  ASSUME IInv, UNCHANGED vars
  PROVE  WriteInv' /\ ReadInv'
<1>1. /\ inbox' = inbox /\ asked' = asked /\ input' = input
      /\ writing' = writing /\ reading' = reading /\ tx' = tx /\ cells' = cells /\ rx' = rx
  BY DEF vars, requestVars, receiveVars
<1>2. QueueKept("WRITE") /\ QueueKept("READ") /\ AsksKept("WRITE") /\ AsksKept("READ")
  BY <1>1, SameQueue, SameAsked
<1>3. AtRest => AtRest'
  BY <1>1 DEF AtRest
<1> QED
  BY <1>1, <1>2, <1>3, WriteKept, ReadKept DEF IInv

LEMMA NextInv ==
  ASSUME OneAtATime, IInv, [Next]_vars
  PROVE  IInv'
<1>1. Types'
  BY NextTypes DEF IInv
<1>2. WriteInv' /\ ReadInv'
  BY AskInv, AcceptInv, StartWriteInv, StartReadInv, QuietInputInv, WireInv, TxInterruptInv,
     RxInterruptInv, ReadCompleteInv, TimeoutInv, StutterInv
     DEF Next, InputStep, Handler
<1> QED
  BY <1>1, <1>2 DEF IInv

LEMMA Inductive ==
  ASSUME OneAtATime
  PROVE  Spec => []IInv
<1>1. IInv /\ [Next]_vars => IInv'
  BY NextInv
<1> QED
  BY <1>1, InitInv, PTL DEF Spec

(***************************************************************************)
(* Handshakes                                                              *)
(***************************************************************************)
LEMMA OutstandingAsks ==
  ASSUME NEW k
  PROVE  (Outstanding(k) <=> ~NoneAsks(k)) /\ (Outstanding(k)' <=> ~NoneAsks(k)')
BY DEF Outstanding, NoneAsks, Asks

LEMMA SameWriteState ==
  ASSUME AsksKept("WRITE"), tx' = tx
  PROVE  WriteState' = WriteState
<1>1. Outstanding("WRITE")' <=> Outstanding("WRITE")
  BY OutstandingAsks DEF AsksKept, NoneAsks
<1> QED
  BY <1>1 DEF WriteState

LEMMA WriteStep ==
  ASSUME OneAtATime, IInv, [Next]_vars
  PROVE  [Write!Next]_WriteState
<1>1. ASSUME NEW q \in Request, Ask(q)
      PROVE  [Write!Next]_WriteState
  <2>1. tx' = tx /\ asked' = asked \cup {<<q.type, q.from>>} /\ NoneAsks(q.type)
        /\ q.from \in Producers
    BY <1>1 DEF Ask, NoneAsks, Asks, Kind, Request
  <2>2. CASE q.type = "WRITE"
    <3>1. WriteState = "idle" /\ tx.state = "off"
      BY <2>1, <2>2, OutstandingAsks DEF WriteState, IInv, WriteInv, WriteIdle, OnlyAsks, NoneAsks
    <3>2. Outstanding("WRITE")'
      BY <2>1, <2>2 DEF Outstanding
    <3>3. WriteState' = "asked"
      BY <2>1, <3>1, <3>2 DEF WriteState
    <3> QED
      BY <3>1, <3>3 DEF Write!Next, Write!Ask
  <2>3. CASE q.type # "WRITE"
    <3>1. AsksKept("WRITE")
      BY <2>1, <2>3 DEF AsksKept, Asks
    <3> QED
      BY <2>1, <3>1, SameWriteState
  <2> QED
    BY <2>2, <2>3
<1>2. CASE StartWrite
  <2>1. asked' = asked /\ input = "write"
        /\ tx' = [of |-> writing.from, state |-> IF writing = NoRequest THEN "off" ELSE "busy"]
    BY <1>2 DEF StartWrite
  <2>2. PICK p \in Producers : OnlyAsks("WRITE", p) /\ WriteTaken(p)
    BY <2>1 DEF IInv, WriteInv, WriteIdle, WriteQueued, WriteSent
  <2>3. tx.state = "off" /\ tx'.state = "busy"
    BY <2>1, <2>2 DEF WriteTaken, NoRequest
  <2>4. Outstanding("WRITE") /\ Outstanding("WRITE")'
    BY <2>1, <2>2 DEF OnlyAsks, Asks, Outstanding
  <2>5. WriteState = "asked" /\ WriteState' = "served"
    BY <2>3, <2>4 DEF WriteState
  <2> QED
    BY <2>5 DEF Write!Next, Write!Serve
<1>3. CASE TxDone \/ TxError
  <2>1. asked' = asked /\ tx.state = "busy" /\ tx'.state \in {"done", "error"}
    BY <1>3 DEF TxDone, TxError, requestVars, IInv, Types, TypeOK
  <2>2. Outstanding("WRITE") <=> Outstanding("WRITE")'
    BY <2>1 DEF Outstanding
  <2>3. Outstanding("WRITE")
    BY <2>1, OutstandingAsks DEF IInv, WriteInv, WriteIdle, OnlyAsks, NoneAsks
  <2>4. WriteState = "served" /\ WriteState' \in {"served", "failed"}
    BY <2>1, <2>2, <2>3 DEF WriteState
  <2> QED
    BY <2>4 DEF Write!Next, Write!Fail
<1>4. CASE TxInterrupt
  <2>1. tx.state = "done"
    BY <1>4 DEF TxInterrupt
  <2>2. NoneAsks("WRITE")' /\ ~NoneAsks("WRITE")
    BY <1>4, TxInterruptInv DEF OnlyAsks, NoneAsks
  <2>3. WriteState = "served" /\ WriteState' = "idle"
    BY <2>1, <2>2, OutstandingAsks DEF WriteState
  <2> QED
    BY <2>3 DEF Write!Next, Write!Acknowledge
<1>5. CASE \/ Accept \/ AcceptWild \/ StartRead \/ OutOfMemory \/ ArmTimeout \/ RxByte
           \/ RxError \/ RxInterrupt \/ RxClear \/ Timeout \/ UNCHANGED vars
  <2>1. asked' = asked /\ tx' = tx
    BY <1>5 DEF Accept, AcceptWild, StartRead, OutOfMemory, ArmTimeout, RxByte, RxError,
                RxInterrupt, RxClear, Timeout, vars, requestVars
  <2> QED
    BY <2>1, SameAsked, SameWriteState
<1>6. CASE ReadComplete
  <2>1. tx' = tx
    BY <1>6 DEF ReadComplete
  <2>2. AsksKept("WRITE")
    BY <1>6, ReadCompleteInv
  <2> QED
    BY <2>1, <2>2, SameWriteState
<1> QED
  BY <1>1, <1>2, <1>3, <1>4, <1>5, <1>6 DEF Next, InputStep, Handler

LEMMA SameReadState ==
  ASSUME AsksKept("READ"), reading' = reading, input' = "read" <=> input = "read",
         cells' = <<>> <=> cells = <<>>
  PROVE  ReadState' = ReadState
<1>1. Outstanding("READ")' <=> Outstanding("READ")
  BY OutstandingAsks DEF AsksKept, NoneAsks
<1> QED
  BY <1>1 DEF ReadState

LEMMA ReadStep ==
  ASSUME OneAtATime, IInv, [Next]_vars
  PROVE  [Read!Next]_ReadState
<1>1. ASSUME NEW q \in Request, Ask(q)
      PROVE  [Read!Next]_ReadState
  <2>1. /\ reading' = reading /\ input' = input /\ cells' = cells
        /\ asked' = asked \cup {<<q.type, q.from>>} /\ NoneAsks(q.type) /\ q.from \in Producers
    BY <1>1 DEF Ask, NoneAsks, Asks, Kind, Request, receiveVars
  <2>2. CASE q.type = "READ"
    <3>1. ReadState = "idle" /\ reading = NoRequest
      BY <2>1, <2>2, OutstandingAsks DEF ReadState, IInv, ReadInv, ReadIdle, OnlyAsks, NoneAsks
    <3>2. Outstanding("READ")'
      BY <2>1, <2>2 DEF Outstanding
    <3>3. ReadState' = "asked"
      BY <2>1, <3>1, <3>2 DEF ReadState
    <3> QED
      BY <3>1, <3>3 DEF Read!Next, Read!Ask
  <2>3. CASE q.type # "READ"
    <3>1. AsksKept("READ")
      BY <2>1, <2>3 DEF AsksKept, Asks
    <3> QED
      BY <2>1, <3>1, SameReadState
  <2> QED
    BY <2>2, <2>3
<1>2. CASE Accept
  <2>1. asked' = asked /\ cells' = cells /\ input = "free"
    BY <1>2 DEF Accept, receiveVars
  <2>2. CASE reading' = reading /\ input' # "read"
    BY <2>1, <2>2, SameAsked, SameReadState
  <2>3. CASE ~(reading' = reading /\ input' # "read")
    <3>1. Head(inbox).type # "WRITE" /\ input' = "read"
      BY <1>2, <2>3 DEF Accept
    <3>2. ReadInv'
      BY <1>2, AcceptInv
    <3>3. PICK p \in Producers : OnlyAsks("READ", p)'
      BY <3>1, <3>2 DEF ReadInv, ReadIdle
    <3>4. Outstanding("READ")' /\ Outstanding("READ")
      BY <2>1, <3>3 DEF OnlyAsks, Asks, Outstanding
    <3>5. reading = NoRequest
      <4>1. /\ inbox \in Seq(Message) /\ inbox # <<>> /\ inbox' = Tail(inbox)
            /\ Head(inbox).type = "READ"
        <5>1. inbox \in Seq(Message) /\ inbox # <<>> /\ inbox' = Tail(inbox) /\ Head(inbox) # Wild
          BY <1>2 DEF Accept, IInv, Types, TypeOK, Message
        <5>2. Head(inbox) \in Message
          BY <5>1
        <5> QED
          BY <3>1, <5>1, <5>2 DEF Message, Request
      <4>2. ~NoneQueued("READ")
        BY <4>1, TailProperties DEF NoneQueued
      <4> QED
        BY <4>2 DEF IInv, ReadInv, ReadIdle, ReadQueued, ReadTaken, ReadStarted
    <3>6. ReadState = "asked" /\ ReadState' = "asked"
      BY <3>1, <3>4, <3>5 DEF ReadState
    <3> QED
      BY <3>6
  <2> QED
    BY <2>2, <2>3
<1>3. CASE StartRead \/ OutOfMemory
  <2>1. asked' = asked /\ reading' = reading /\ input = "read" /\ input' # "read"
    BY <1>3 DEF StartRead, OutOfMemory
  <2>2. PICK p \in Producers : OnlyAsks("READ", p) /\ ReadTaken(p)
    BY <1>3, StartReadInv
  <2>3. Outstanding("READ") /\ Outstanding("READ")' /\ reading # NoRequest
    BY <2>1, <2>2 DEF OnlyAsks, Asks, Outstanding, ReadTaken, NoRequest
  <2>4. ReadState = "asked" /\ ReadState' \in {"served", "failed"}
    BY <2>1, <2>3 DEF ReadState
  <2> QED
    BY <2>4 DEF Read!Next, Read!Serve, Read!Fail
<1>4. CASE ReadComplete
  <2>1. PICK p \in Producers : OnlyAsks("READ", p) /\ ReadStarted(p) /\ cells # <<>>
    BY <1>4, ReadCompleteInv
  <2>2. NoneAsks("READ")'
    BY <1>4, ReadCompleteInv
  <2>3. Outstanding("READ") /\ ~Outstanding("READ")'
    BY <2>1, <2>2, OutstandingAsks DEF OnlyAsks, NoneAsks
  <2>4. ReadState = "served" /\ ReadState' = "idle"
    BY <2>1, <2>3 DEF ReadStarted, NoRequest, ReadState
  <2> QED
    BY <2>4 DEF Read!Next, Read!Acknowledge
<1>5. CASE RxByte
  <2>1. asked' = asked /\ reading' = reading /\ input' = input /\ rx.on
    BY <1>5 DEF RxByte, requestVars
  <2>2. rx'.on = rx.on
    BY <1>5 DEF RxByte, IInv, Types, TypeOK
  <2>3. cells # <<>> /\ cells' # <<>>
    BY <1>5, <2>1, <2>2, WireTypes DEF IInv, Types, StreamOK
  <2> QED
    BY <2>1, <2>3, SameAsked, SameReadState
<1>6. CASE TxInterrupt
  <2>1. reading' = reading /\ input' = input /\ cells' = cells
    BY <1>6 DEF TxInterrupt, receiveVars
  <2> QED
    BY <1>6, <2>1, TxInterruptInv, SameReadState
<1>7. CASE AcceptWild \/ StartWrite \/ ArmTimeout
  <2>1. /\ asked' = asked /\ reading' = reading /\ cells' = cells
        /\ input # "read" /\ input' # "read"
    BY <1>7 DEF AcceptWild, StartWrite, ArmTimeout, receiveVars
  <2> QED
    BY <2>1, SameAsked, SameReadState
<1>8. CASE TxDone \/ TxError \/ RxError \/ RxInterrupt \/ RxClear \/ Timeout \/ UNCHANGED vars
  <2>1. asked' = asked /\ reading' = reading /\ input' = input /\ cells' = cells
    BY <1>8 DEF TxDone, TxError, RxError, RxInterrupt, RxClear, Timeout, vars, requestVars,
                receiveVars
  <2> QED
    BY <2>1, SameAsked, SameReadState
<1> QED
  BY <1>1, <1>2, <1>3, <1>4, <1>5, <1>6, <1>7, <1>8 DEF Next, InputStep, Handler

(***************************************************************************)
(* The data.  A read that is not spoiled fills the whole buffer, over and  *)
(* over.  What has come and was not copied lies in the cells behind the    *)
(* cursor, around the end, and the position is behind the last of them.    *)
(***************************************************************************)
Behind == Len(stream) - Len(pool)
Slot(i) == IF i <= BufferSize THEN i ELSE i - BufferSize

DataOK ==
    /\ cells # <<>> /\ rx.size = BufferSize
    /\ Behind \in 0 .. BufferSize - 1
    /\ cursor = Len(pool) % BufferSize
    /\ Position = cursor + Behind \/ Position = cursor + Behind - BufferSize
    /\ \A i \in 1 .. Len(pool) : pool[i] = stream[i]
    /\ \A j \in 1 .. Behind : cells[Slot(cursor + j)] = stream[Len(pool) + j]

DataInv == ~spoiled /\ rx.left # 0 => DataOK

\* When a read is found idle, all that has come was copied
HeardInv == handling = "idle" /\ ~spoiled => pool = heard

LEMMA Remainder ==
  ASSUME NEW M \in Nat \ {0}, NEW k \in Int, NEW r \in 0 .. M - 1, NEW x, x = M * k + r
  PROVE  x % M = r
OBVIOUS

LEMMA Division ==
  ASSUME NEW M \in Nat \ {0}, NEW x \in Int
  PROVE  \E k \in Int, r \in 0 .. M - 1 : r = x % M /\ x = M * k + r
<1>1. x \div M \in Int /\ x % M \in 0 .. M - 1 /\ x = M * (x \div M) + (x % M)
  OBVIOUS
<1> QED
  BY <1>1

\* The next place on a circle, counted from the place or from its number
LEMMA Around ==
  ASSUME NEW M \in Nat \ {0}, NEW x \in Int, NEW n \in Int, NEW p \in 0 .. M - 1,
         p = (x % M) + n \/ p = (x % M) + n - M
  PROVE  (x + n) % M = p
<1>1. PICK k \in Int, r \in 0 .. M - 1 : r = x % M /\ x = M * k + r
  BY Division
<1>2. PICK y \in Int : y = x + n
  OBVIOUS
<1>3. p = r + n \/ p = r + n - M
  BY <1>1
<1>4. CASE p = r + n
  <2>1. y = M * k + p
    BY <1>1, <1>2, <1>4
  <2>2. y % M = p
    BY <2>1, Remainder
  <2> QED
    BY <1>2, <2>2
<1>5. CASE p = r + n - M
  <2>1. k + 1 \in Int /\ M * (k + 1) = M * k + M
    BY <1>1
  <2>2. y = M * (k + 1) + p
    BY <1>1, <1>2, <1>5, <2>1
  <2>3. y % M = p
    BY <2>1, <2>2, Remainder
  <2> QED
    BY <1>2, <2>3
<1> QED
  BY <1>3, <1>4, <1>5

LEMMA DataTyped ==
  ASSUME Types
  PROVE  /\ BufferSize \in Nat \ {0} /\ setup.limit \in Nat
         /\ Len(pool) \in Nat /\ Len(stream) \in Nat /\ Behind \in Int
         /\ cursor \in 0 .. BufferSize - 1
         /\ rx.left \in 0 .. BufferSize /\ Position \in 0 .. BufferSize
         /\ Position = BufferSize - rx.left
         /\ cells # <<>> => cells \in [1 .. BufferSize -> Nat]
<1>1. pool \in Seq(Nat) /\ stream \in Seq(Nat)
  BY DEF Types, TypeOK
<1>2. cursor \in 0 .. BufferSize /\ cursor < BufferSize
  BY DEF Types, TypeOK, StreamOK
<1>3. setup.limit \in Nat
  BY SpiAssumption DEF Types, TypeOK
<1>4. cells # <<>> => cells \in [1 .. BufferSize -> Nat]
  BY DEF Types, TypeOK
<1>5. Len(pool) \in Nat /\ Len(stream) \in Nat
  BY <1>1
<1>6. rx.left \in 0 .. BufferSize /\ Position \in 0 .. BufferSize
  BY RxTyped, PositionTyped DEF Types
<1> QED
  BY <1>2, <1>3, <1>4, <1>5, <1>6, Sizing DEF Behind, Position

LEMMA Places ==
  ASSUME Types, DataOK
  PROVE  /\ BufferSize \in Nat \ {0} /\ cursor \in 0 .. BufferSize - 1
         /\ Behind \in 0 .. BufferSize - 1 /\ Position \in 0 .. BufferSize
         /\ Position = cursor + Behind \/ Position = cursor + Behind - BufferSize
<1>1. /\ BufferSize \in Nat \ {0} /\ cursor \in 0 .. BufferSize - 1
      /\ Position \in 0 .. BufferSize
  BY DataTyped
<1>2. /\ Behind \in 0 .. BufferSize - 1
      /\ Position = cursor + Behind \/ Position = cursor + Behind - BufferSize
  BY DEF DataOK
<1> QED
  BY <1>1, <1>2

LEMMA SameData ==
  ASSUME DataInv, UNCHANGED <<cells, cursor, pool, stream>>,
         ~spoiled' => ~spoiled,
         rx'.left # 0 => rx'.left = rx.left /\ rx'.size = rx.size
  PROVE  DataInv'
<1> SUFFICES ASSUME ~spoiled', rx'.left # 0 PROVE DataOK'
  BY DEF DataInv
<1>1. DataOK
  BY DEF DataInv
<1>2. Behind' = Behind /\ Position' = Position
  BY DEF Behind, Position
<1> QED
  BY <1>1, <1>2 DEF DataOK, Slot

LEMMA StartReadData ==
  ASSUME Types, StartRead
  PROVE  DataInv'
<1> DEFINE size == IF reading.size = 0 THEN BufferSize ELSE reading.size
<1> SUFFICES ASSUME ~spoiled' PROVE DataOK'
  BY DEF DataInv
<1>1. /\ rx' = [rx EXCEPT !.on = (setup.unit = 1), !.size = size, !.left = size, !.flag = FALSE,
                          !.error = "none"]
      /\ stream' = <<>> /\ cursor' = cursor /\ pool' = pool
      /\ size = BufferSize /\ cursor = 0 /\ pool = <<>>
  BY DEF StartRead
<1>2. rx'.left = BufferSize /\ rx'.size = BufferSize
  <2>1. rx \in RxType
    BY RxTyped DEF Types
  <2> HIDE DEF size
  <2> QED
    BY <1>1, <2>1 DEF RxType
<1>3. cells' # <<>>
  <2>1. cells' = IF cells = <<>> THEN [i \in 1 .. BufferSize |-> 0] ELSE cells
    BY DEF StartRead
  <2>2. [i \in 1 .. BufferSize |-> 0] \in [1 .. BufferSize -> Nat]
    OBVIOUS
  <2> QED
    BY <2>1, <2>2, BufferIsNotEmpty
<1>4. Behind' = 0 /\ Position' = 0 /\ Len(pool') = 0 /\ Len(stream') = 0
  BY <1>1, <1>2, Sizing DEF Behind, Position
<1>5. 0 % BufferSize = 0
  BY Sizing, SpiAssumption
<1> QED
  BY <1>1, <1>2, <1>3, <1>4, <1>5, Sizing DEF DataOK

\* A byte goes behind the last, into a cell that holds none of the others
LEMMA RxByteData ==
  ASSUME Types, DataInv, RxByte
  PROVE  DataInv'
<1> SUFFICES ASSUME ~spoiled' PROVE DataOK'
  BY DEF DataInv
<1> DEFINE left == IF rx.left = 1 THEN rx.size ELSE rx.left - 1
           b == used'.bytes
           n == Behind + 1
<1>1. /\ stream' = Append(stream, b) /\ pool' = pool /\ cursor' = cursor
      /\ cells' = [cells EXCEPT ![rx.size - rx.left + 1] = b]
      /\ ~spoiled /\ ~(Len(stream') - Len(pool) >= BufferSize) /\ rx.on
  BY DEF RxByte
<1>2. rx'.left = left /\ rx'.size = rx.size
  <2>1. rx \in RxType
    BY RxTyped DEF Types
  <2>2. rx' = [rx EXCEPT !.left = left, !.flag = @ \/ left \in {rx.size, rx.size \div 2}]
    BY DEF RxByte
  <2> HIDE DEF left
  <2> QED
    BY <2>1, <2>2 DEF RxType
<1>3. rx.left >= 1
  BY <1>1 DEF Types, StreamOK
<1>4. DataOK /\ rx.size = BufferSize
  <2>1. rx.left # 0
    BY <1>3
  <2>2. DataOK
    BY <1>1, <2>1 DEF DataInv
  <2> QED
    BY <2>2 DEF DataOK
<1>5. /\ BufferSize \in Nat \ {0} /\ cursor \in 0 .. BufferSize - 1
      /\ Behind \in 0 .. BufferSize - 1 /\ Position \in 0 .. BufferSize - 1
      /\ Position = cursor + Behind \/ Position = cursor + Behind - BufferSize
  <2>1. Position # BufferSize
    BY <1>3, DataTyped
  <2> QED
    BY <1>4, <2>1, Places
<1>6. /\ Len(stream') = Len(stream) + 1 /\ stream'[Len(stream) + 1] = b
      /\ \A i \in 1 .. Len(stream) : stream'[i] = stream[i]
  BY <1>1 DEF Types, TypeOK
<1>7. Behind' = n /\ n \in 1 .. BufferSize - 1
  <2>1. Behind' = n
    BY <1>1, <1>6, DataTyped DEF Behind
  <2> QED
    BY <1>1, <1>4, <2>1, DataTyped DEF DataOK, Behind
<1> HIDE DEF b, n
<1>8. Position' = IF Position = BufferSize - 1 THEN 0 ELSE Position + 1
  BY <1>2, <1>3, <1>4, DataTyped DEF Position
<1>9. Position' = cursor + n \/ Position' = cursor + n - BufferSize
  BY <1>5, <1>8 DEF n
<1>10. Slot(cursor + n) = Position + 1
  BY <1>5 DEF n, Slot
<1>11. cells \in [1 .. BufferSize -> Nat] /\ cells' = [cells EXCEPT ![Position + 1] = b]
  <2>1. cells # <<>>
    BY <1>4 DEF DataOK
  <2>2. rx.size - rx.left + 1 = Position + 1
    BY <1>4 DEF Position
  <2> QED
    BY <1>1, <2>1, <2>2, DataTyped
<1>12. cells'[Slot(cursor + n)] = b
  BY <1>5, <1>10, <1>11
<1>13. ASSUME NEW j \in 1 .. Behind
       PROVE  cells'[Slot(cursor + j)] = cells[Slot(cursor + j)]
  <2>1. Slot(cursor + j) \in 1 .. BufferSize /\ Slot(cursor + j) # Slot(cursor + n)
    BY <1>5 DEF n, Slot
  <2> QED
    BY <1>5, <1>10, <1>11, <2>1
<1>14. \A j \in 1 .. n : cells'[Slot(cursor + j)] = stream'[Len(pool) + j]
  <2> SUFFICES ASSUME NEW j \in 1 .. n
               PROVE  cells'[Slot(cursor + j)] = stream'[Len(pool) + j]
    OBVIOUS
  <2>1. CASE j = n
    <3>1. Len(pool) + n = Len(stream) + 1
      BY DataTyped DEF n, Behind
    <3> QED
      BY <1>6, <1>12, <2>1, <3>1
  <2>2. CASE j # n
    <3>1. j \in 1 .. Behind
      BY <1>7, <2>2, DataTyped DEF n
    <3>2. Len(pool) + j \in 1 .. Len(stream)
      BY <3>1, DataTyped DEF Behind
    <3> QED
      BY <1>4, <1>6, <1>13, <3>1, <3>2 DEF DataOK
  <2> QED
    BY <2>1, <2>2
<1>15. \A i \in 1 .. Len(pool) : pool[i] = stream'[i]
  <2>1. \A i \in 1 .. Len(pool) : i \in 1 .. Len(stream)
    BY <1>4, DataTyped DEF DataOK, Behind
  <2> QED
    BY <1>4, <1>6, <2>1 DEF DataOK
<1>16. cells' # <<>>
  BY <1>3, WireTypes DEF Types, StreamOK, RxByte
<1>17. rx'.size = BufferSize /\ Behind' \in 0 .. BufferSize - 1
  BY <1>2, <1>4, <1>7
<1>18. cursor' = Len(pool') % BufferSize
  BY <1>1, <1>4 DEF DataOK
<1>19. Position' = cursor' + Behind' \/ Position' = cursor' + Behind' - BufferSize
  BY <1>1, <1>7, <1>9
<1>20. \A j \in 1 .. Behind' : cells'[Slot(cursor' + j)] = stream'[Len(pool') + j]
  BY <1>1, <1>7, <1>14
<1>21. \A i \in 1 .. Len(pool') : pool'[i] = stream'[i]
  BY <1>1, <1>15
<1> QED
  BY <1>16, <1>17, <1>18, <1>19, <1>20, <1>21 DEF DataOK, Slot

LEMMA CopiedIs ==
  ASSUME Types, cells # <<>>, NEW from \in 0 .. BufferSize, NEW to \in from .. BufferSize
  PROVE  /\ Copied(from, to) \in Seq(Nat) /\ Len(Copied(from, to)) = to - from
         /\ \A i \in 1 .. to - from : Copied(from, to)[i] = cells[from + i]
<1>1. cells \in [1 .. BufferSize -> Nat]
  BY DataTyped
<1>2. cells \in Seq(Nat) /\ Len(cells) = BufferSize
  BY <1>1, Sizing
<1>3. from \in Nat /\ to \in Nat /\ from <= to /\ to <= BufferSize
  BY Sizing
<1>4. Copied(from, to) \in Seq(Nat)
  BY CopiedType DEF Types
<1>5. Len(Copied(from, to)) = to - from
  BY <1>2, <1>3 DEF Copied
<1>6. \A i \in 1 .. to - from : Copied(from, to)[i] = cells[from + i]
  BY <1>2, <1>3 DEF Copied
<1> QED
  BY <1>4, <1>5, <1>6

LEMMA InsertIs ==
  ASSUME Types, NEW data \in Seq(Nat), NEW into \in Seq(Nat),
         Len(into) + Len(data) <= setup.limit
  PROVE  /\ Insert(data, into) \in Seq(Nat)
         /\ Len(Insert(data, into)) = Len(into) + Len(data)
         /\ \A i \in 1 .. Len(into) : Insert(data, into)[i] = into[i]
         /\ \A i \in 1 .. Len(data) : Insert(data, into)[Len(into) + i] = data[i]
<1>1. Insert(data, into) = into \o data
  BY DataTyped DEF Insert
<1> QED
  BY <1>1

\* The handler copies all that has come, in order
LEMMA IngestedIs ==
  ASSUME Types, DataOK, Position < BufferSize, Len(stream) <= setup.limit
  PROVE  Ingested \in Seq(Nat) /\ Len(Ingested) = Len(stream)
         /\ \A i \in 1 .. Len(stream) : Ingested[i] = stream[i]
<1>1. cells # <<>> /\ pool \in Seq(Nat) /\ Len(stream) = Len(pool) + Behind
  BY DataTyped DEF DataOK, Types, TypeOK, Behind
<1>2. /\ BufferSize \in Nat \ {0} /\ cursor \in 0 .. BufferSize - 1
      /\ Behind \in 0 .. BufferSize - 1 /\ Position \in 0 .. BufferSize - 1
      /\ Position = cursor + Behind \/ Position = cursor + Behind - BufferSize
  BY Places
<1>3. Len(pool) \in Nat /\ Len(stream) \in Nat /\ setup.limit \in Nat
  BY DataTyped
<1>4. \A i \in 1 .. Len(stream) : i \in 1 .. Len(pool) \/ i - Len(pool) \in 1 .. Behind
  BY <1>1, <1>2, <1>3
<1>5. ASSUME Ingested \in Seq(Nat), Len(Ingested) = Len(stream),
             \A i \in 1 .. Len(pool) : Ingested[i] = pool[i],
             \A j \in 1 .. Behind : Ingested[Len(pool) + j] = cells[Slot(cursor + j)]
      PROVE  \A i \in 1 .. Len(stream) : Ingested[i] = stream[i]
  <2> SUFFICES ASSUME NEW i \in 1 .. Len(stream) PROVE Ingested[i] = stream[i]
    OBVIOUS
  <2>1. CASE i \in 1 .. Len(pool)
    BY <1>5, <2>1 DEF DataOK
  <2>2. CASE i - Len(pool) \in 1 .. Behind
    <3>1. PICK j \in 1 .. Behind : i = Len(pool) + j
      BY <1>3, <2>2
    <3> QED
      BY <1>5, <3>1 DEF DataOK
  <2> QED
    BY <1>4, <2>1, <2>2
<1>6. CASE Position >= cursor
  <2>1. Behind = Position - cursor
    BY <1>6, <1>2
  <2>2. /\ Copied(cursor, Position) \in Seq(Nat) /\ Len(Copied(cursor, Position)) = Behind
        /\ \A i \in 1 .. Behind : Copied(cursor, Position)[i] = cells[cursor + i]
    <3>1. cursor \in 0 .. BufferSize /\ Position \in cursor .. BufferSize
      BY <1>6, <1>2
    <3> QED
      BY <1>1, <2>1, <3>1, CopiedIs
  <2>3. Ingested = Insert(Copied(cursor, Position), pool)
    BY <1>6 DEF Ingested
  <2>4. \A j \in 1 .. Behind : Slot(cursor + j) = cursor + j
    BY <1>2, <2>1 DEF Slot
  <2>5. /\ Ingested \in Seq(Nat) /\ Len(Ingested) = Len(pool) + Behind
        /\ \A i \in 1 .. Len(pool) : Ingested[i] = pool[i]
        /\ \A i \in 1 .. Behind : Ingested[Len(pool) + i] = Copied(cursor, Position)[i]
    BY <1>1, <2>2, <2>3, InsertIs
  <2> QED
    BY <1>1, <1>5, <2>2, <2>4, <2>5
<1>7. CASE ~(Position >= cursor)
  <2> DEFINE k == BufferSize - cursor
             first == Insert(Copied(cursor, BufferSize), pool)
  <2>1. k \in Nat /\ Behind = k + Position /\ Position \in Nat
    BY <1>7, <1>2
  <2>2. /\ Copied(cursor, BufferSize) \in Seq(Nat) /\ Len(Copied(cursor, BufferSize)) = k
        /\ \A i \in 1 .. k : Copied(cursor, BufferSize)[i] = cells[cursor + i]
    <3>1. cursor \in 0 .. BufferSize /\ BufferSize \in cursor .. BufferSize
      BY <1>2
    <3> QED
      BY <1>1, <3>1, CopiedIs
  <2>3. /\ Copied(0, Position) \in Seq(Nat) /\ Len(Copied(0, Position)) = Position
        /\ \A i \in 1 .. Position : Copied(0, Position)[i] = cells[i]
    <3>1. 0 \in 0 .. BufferSize /\ Position \in 0 .. BufferSize /\ Position - 0 = Position
      BY <1>2
    <3>2. \A i \in 1 .. Position : 0 + i = i
      BY <1>2
    <3> QED
      BY <1>1, <3>1, <3>2, CopiedIs
  <2>4. /\ first \in Seq(Nat) /\ Len(first) = Len(pool) + k
        /\ \A i \in 1 .. Len(pool) : first[i] = pool[i]
        /\ \A i \in 1 .. k : first[Len(pool) + i] = Copied(cursor, BufferSize)[i]
    <3>1. Len(pool) + k <= setup.limit
      BY <1>1, <1>3, <2>1
    <3> DEFINE data == Copied(cursor, BufferSize)
    <3>2. data \in Seq(Nat) /\ Len(data) = k /\ Len(pool) + Len(data) <= setup.limit
          /\ first = Insert(data, pool)
      BY <2>2, <3>1
    <3> HIDE DEF data, first, k
    <3>3. /\ first \in Seq(Nat) /\ Len(first) = Len(pool) + Len(data)
          /\ \A i \in 1 .. Len(pool) : first[i] = pool[i]
          /\ \A i \in 1 .. Len(data) : first[Len(pool) + i] = data[i]
      BY <1>1, <3>2, InsertIs
    <3> QED
      BY <3>2, <3>3 DEF data
  <2>5. Ingested = Insert(Copied(0, Position), first)
    BY <1>7 DEF Ingested
  <2> HIDE DEF first, k
  <2>6. /\ Ingested \in Seq(Nat) /\ Len(Ingested) = Len(first) + Position
        /\ \A i \in 1 .. Len(first) : Ingested[i] = first[i]
        /\ \A i \in 1 .. Position : Ingested[Len(first) + i] = Copied(0, Position)[i]
    <3>1. Len(first) + Len(Copied(0, Position)) <= setup.limit
      BY <1>1, <1>3, <2>1, <2>3, <2>4
    <3> DEFINE second == Copied(0, Position)
    <3>2. second \in Seq(Nat) /\ Len(second) = Position /\ first \in Seq(Nat)
          /\ Len(first) + Len(second) <= setup.limit /\ Ingested = Insert(second, first)
      BY <2>3, <2>4, <2>5, <3>1
    <3> HIDE DEF second
    <3>3. /\ Ingested \in Seq(Nat) /\ Len(Ingested) = Len(first) + Len(second)
          /\ \A i \in 1 .. Len(first) : Ingested[i] = first[i]
          /\ \A i \in 1 .. Len(second) : Ingested[Len(first) + i] = second[i]
      BY <3>2, InsertIs
    <3> QED
      BY <3>2, <3>3 DEF second
  <2>7. Len(Ingested) = Len(stream)
    BY <1>1, <1>3, <2>1, <2>4, <2>6
  <2>8. \A i \in 1 .. Len(pool) : Ingested[i] = pool[i]
    BY <1>3, <2>1, <2>4, <2>6
  <2>9. ASSUME NEW j \in 1 .. Behind
        PROVE  Ingested[Len(pool) + j] = cells[Slot(cursor + j)]
    <3>1. CASE j <= k
      <4>1. j \in 1 .. k /\ Len(pool) + j \in 1 .. Len(first) /\ Slot(cursor + j) = cursor + j
        BY <1>2, <1>3, <2>1, <2>4, <3>1 DEF Slot, k
      <4> QED
        BY <2>2, <2>4, <2>6, <4>1
    <3>2. CASE j > k
      <4>1. PICK i \in 1 .. Position : j = k + i
        BY <2>1, <3>2
      <4>2. Len(pool) + j = Len(first) + i
        BY <1>3, <2>1, <2>4, <4>1
      <4>3. Slot(cursor + j) = i
        BY <1>2, <4>1 DEF Slot, k
      <4> QED
        BY <2>3, <2>6, <4>2, <4>3
    <3> QED
      BY <2>1, <3>1, <3>2
  <2> QED
    BY <1>5, <2>6, <2>7, <2>8, <2>9
<1> QED
  BY <1>6, <1>7

LEMMA RxInterruptData ==
  ASSUME Types, DataInv, RxInterrupt
  PROVE  DataInv'
<1> SUFFICES ASSUME ~spoiled' PROVE DataOK'
  BY DEF DataInv
<1>1. /\ pool' = Ingested /\ cursor' = Position
      /\ ~spoiled /\ ~(Len(pool) + ((Position - cursor) % BufferSize) > setup.limit)
      /\ rx' = rx /\ cells' = cells /\ stream' = stream
  BY DEF RxInterrupt
<1>2. rx.left >= 1 /\ DataOK
  <2>1. rx.left >= 1 /\ rx.left # 0
    BY DataTyped DEF RxInterrupt, RxPending, Types, StreamOK
  <2> QED
    BY <1>1, <2>1 DEF DataInv
<1>3. Position \in 0 .. BufferSize - 1 /\ Position' = Position
  BY <1>1, <1>2, DataTyped DEF Position
<1>4. Behind \in 0 .. BufferSize - 1 /\ Len(stream) = Len(pool) + Behind
  BY <1>2, DataTyped DEF DataOK, Behind
<1>5. (Position - cursor) % BufferSize = Behind
  <2>1. /\ BufferSize \in Nat \ {0} /\ cursor \in 0 .. BufferSize - 1
        /\ Behind \in 0 .. BufferSize - 1 /\ Position \in 0 .. BufferSize
        /\ Position = cursor + Behind \/ Position = cursor + Behind - BufferSize
    BY <1>2, Places
  <2>2. PICK d \in Int : d = Position - cursor
    BY <2>1
  <2>3. CASE d = Behind
    <3>1. d = BufferSize * 0 + Behind
      BY <2>1, <2>3
    <3>2. d % BufferSize = Behind
      BY <2>1, <3>1, Remainder
    <3> QED
      BY <2>2, <3>2
  <2>4. CASE d = Behind - BufferSize
    <3>1. d = BufferSize * (0 - 1) + Behind
      BY <2>1, <2>4
    <3>2. d % BufferSize = Behind
      BY <2>1, <3>1, Remainder
    <3> QED
      BY <2>2, <3>2
  <2> QED
    BY <2>1, <2>2, <2>3, <2>4
<1>6. Len(stream) <= setup.limit
  BY <1>1, <1>4, <1>5, DataTyped
<1>7. /\ Ingested \in Seq(Nat) /\ Len(Ingested) = Len(stream)
      /\ \A i \in 1 .. Len(stream) : Ingested[i] = stream[i]
  BY <1>2, <1>3, <1>6, IngestedIs, DataTyped
<1>8. Behind' = 0
  BY <1>1, <1>7, DataTyped DEF Behind
<1>9. cursor' = Len(pool') % BufferSize
  <2>1. PICK l \in Int : l = Len(pool)
    BY DataTyped
  <2>2. cursor = l % BufferSize
    BY <1>2, <2>1 DEF DataOK
  <2>3. Position = (l % BufferSize) + Behind \/ Position = (l % BufferSize) + Behind - BufferSize
    BY <1>2, <2>2 DEF DataOK
  <2>4. (l + Behind) % BufferSize = Position
    BY <1>3, <1>4, <2>3, DataTyped, Around
  <2> QED
    BY <1>1, <1>4, <1>7, <2>1, <2>4
<1>10. cells' # <<>> /\ rx'.size = BufferSize
  BY <1>1, <1>2 DEF DataOK
<1>11. Behind' \in 0 .. BufferSize - 1 /\ Position' = cursor' + Behind'
  <2>1. BufferSize \in Nat \ {0}
    BY DataTyped
  <2>2. Position' = Position /\ cursor' = Position /\ Position \in Nat
    BY <1>1, <1>3, <2>1
  <2> QED
    BY <1>8, <2>1, <2>2
<1>12. /\ \A i \in 1 .. Len(pool') : pool'[i] = stream'[i]
       /\ \A j \in 1 .. Behind' : cells'[Slot(cursor' + j)] = stream'[Len(pool') + j]
  BY <1>1, <1>7, <1>8
<1> QED
  BY <1>9, <1>10, <1>11, <1>12 DEF DataOK, Slot

LEMMA NextData ==
  ASSUME Types, DataInv, [Next]_vars
  PROVE  DataInv'
<1>1. CASE StartRead \/ RxByte \/ RxInterrupt
  BY <1>1, StartReadData, RxByteData, RxInterruptData
<1>2. CASE \/ \E q \in Request : Ask(q)
           \/ Accept \/ AcceptWild \/ StartWrite \/ OutOfMemory \/ ArmTimeout
           \/ TxDone \/ TxError \/ TxInterrupt \/ Timeout \/ UNCHANGED vars
  <2>1. UNCHANGED <<rx, cells, cursor, pool, stream, spoiled>>
    BY <1>2 DEF Ask, Accept, AcceptWild, StartWrite, OutOfMemory, ArmTimeout, TxDone, TxError,
       TxInterrupt, Timeout, vars, receiveVars, historyVars
  <2> QED
    BY <2>1, SameData
<1>3. CASE RxClear
  <2>1. rx \in RxType /\ rx' = [rx EXCEPT !.flag = FALSE]
        /\ UNCHANGED <<cells, cursor, pool, stream, spoiled>>
    BY <1>3, RxTyped DEF RxClear, Types, historyVars
  <2>2. rx'.left = rx.left /\ rx'.size = rx.size
    BY <2>1 DEF RxType
  <2> QED
    BY <2>1, <2>2, SameData
<1>4. CASE RxError
  <2>1. rx'.left = rx.left /\ rx'.size = rx.size
    BY <1>4, RxTyped, RxErrorIs DEF Types
  <2>2. UNCHANGED <<cells, cursor, pool, stream, spoiled>>
    BY <1>4 DEF RxError, historyVars
  <2> QED
    BY <2>1, <2>2, SameData
<1>5. CASE ReadComplete
  <2>1. rx'.left = 0
    BY <1>5 DEF ReadComplete
  <2> QED
    BY <2>1 DEF DataInv
<1> QED
  BY <1>1, <1>2, <1>3, <1>4, <1>5 DEF Next, InputStep, Handler

LEMMA NextHeard ==
  ASSUME Types, DataInv, HeardInv, [Next]_vars
  PROVE  HeardInv'
<1> SUFFICES ASSUME handling' = "idle", ~spoiled' PROVE pool' = heard'
  BY DEF HeardInv
<1>1. CASE Timeout /\ handling # "idle"
  <2>1. ReadIsIdle /\ heard' = stream /\ pool' = pool /\ ~spoiled
    BY <1>1 DEF Timeout
  <2>2. rx.left # 0 /\ Position = cursor
    BY <2>1, DataTyped DEF ReadIsIdle
  <2>3. DataOK
    BY <2>1, <2>2 DEF DataInv
  <2>4. Behind = 0
    BY <2>2, <2>3, DataTyped DEF DataOK
  <2>5. pool \in Seq(Nat) /\ stream \in Seq(Nat) /\ Len(pool) = Len(stream)
    BY <2>4, DataTyped DEF Types, TypeOK, Behind
  <2>6. pool = stream
    BY <2>3, <2>5, SeqEqual DEF DataOK
  <2> QED
    BY <2>1, <2>6
<1>2. CASE TxDone \/ TxError \/ RxByte \/ RxError \/ UNCHANGED vars
  <2>1. UNCHANGED <<handling, pool, heard>>
    BY <1>2 DEF TxDone, TxError, RxByte, RxError, vars, receiveVars, historyVars
  <2>2. CASE RxByte
    BY <2>1, <2>2 DEF RxByte, HeardInv
  <2>3. CASE ~RxByte
    <3>1. spoiled' = spoiled
      BY <1>2, <2>3 DEF TxDone, TxError, RxError, vars, historyVars
    <3> QED
      BY <2>1, <3>1 DEF HeardInv
  <2> QED
    BY <2>2, <2>3
<1>3. ASSUME handling' = handling, handling = "none"
      PROVE  FALSE
  BY <1>3
<1> QED
  BY <1>1, <1>2, <1>3 DEF Next, InputStep, Handler, Ask, Accept, AcceptWild, StartWrite, StartRead,
     OutOfMemory, ArmTimeout, TxInterrupt, RxInterrupt, RxClear, Timeout, ReadComplete, ThreadRuns,
     receiveVars

LEMMA DataInvariant == Spec => [](Types /\ DataInv /\ HeardInv)
<1>1. Init => Types /\ DataInv /\ HeardInv
  BY InitTypes DEF Init, DataInv, HeardInv
<1>2. Types /\ DataInv /\ HeardInv /\ [Next]_vars => (Types /\ DataInv /\ HeardInv)'
  BY NextTypes, NextData, NextHeard
<1> QED
  BY <1>1, <1>2, PTL DEF Spec

(***************************************************************************)
(* Theorems                                                                *)
(***************************************************************************)
\* Every variable of the transport keeps its type, whatever its clients do: the
\* cursor and the position stay within the circular buffer, copies are made of
\* bytes that lie in it, and the queue does not exceed its length.
THEOREM TypeCorrect == Spec => []TypeOK
<1>1. Types /\ [Next]_vars => Types'
  BY NextTypes
<1>2. Types => TypeOK
  BY DEF Types
<1> QED
  BY <1>1, <1>2, InitTypes, PTL DEF Spec

\* What has been copied into the pool is what came, in order and without a gap,
\* however often the stream has gone around the circular buffer: for any size of
\* buffer and pool, and whenever the interrupts of the stream are taken, unless
\* the read was spoiled.
THEOREM IngestIsFaithful == Spec => []IngestFaithful
<1>1. Types /\ DataInv => IngestFaithful
  <2> SUFFICES ASSUME Types, DataInv, ~spoiled, rx.on
               PROVE  pool = SubSeq(stream, 1, Len(pool)) /\ cursor = Len(pool) % BufferSize
    BY DEF IngestFaithful
  <2>1. rx.left # 0
    BY DataTyped DEF Types, StreamOK
  <2>2. DataOK
    BY <2>1 DEF DataInv
  <2>3. pool \in Seq(Nat) /\ stream \in Seq(Nat) /\ Len(pool) <= Len(stream)
    BY <2>2, DataTyped DEF Types, TypeOK, DataOK, Behind
  <2> DEFINE s == SubSeq(stream, 1, Len(pool))
  <2>4. s \in Seq(Nat) /\ Len(s) = Len(pool) /\ \A i \in 1 .. Len(pool) : s[i] = stream[i]
    BY <2>3
  <2>5. \A i \in 1 .. Len(pool) : pool[i] = s[i]
    BY <2>2, <2>4 DEF DataOK
  <2>6. pool = s
    <3> HIDE DEF s
    <3> QED
      BY <2>3, <2>4, <2>5, SeqEqual
  <2> QED
    BY <2>2, <2>6 DEF DataOK
<1> QED
  BY <1>1, DataInvariant, PTL

\* A read that ends hands over every byte that had come when the timeout found
\* the stream where the cursor is: nothing of it is left in the buffer, because a
\* buffer of bytes that nobody has copied spoils the read.  What comes between
\* that look and the stop of the stream does not change it.  Requests may overlap.
THEOREM NothingIsLeftBehind == Spec => NothingLeftBehind
<1>1. Types /\ HeardInv /\ [Next]_vars
      => [reading # NoRequest /\ reading' = NoRequest /\ ~spoiled => answer' = heard]_vars
  <2> SUFFICES ASSUME Types, HeardInv, [Next]_vars,
                      reading # NoRequest, reading' = NoRequest, ~spoiled
               PROVE  answer' = heard
    OBVIOUS
  <2>1. CASE ReadComplete
    BY <2>1 DEF ReadComplete, HeardInv
  <2>3. CASE Accept
    <3>1. reading' = reading \/ (reading' = Head(inbox) /\ Head(inbox) # Wild)
      BY <2>3 DEF Accept
    <3>2. Head(inbox) \in Message
      BY <2>3, TailProperties DEF Accept, Types, TypeOK, Message
    <3> QED
      BY <3>1, <3>2 DEF Message, Request, NoRequest
  <2>4. ASSUME reading' = reading
        PROVE  FALSE
    BY <2>4
  <2> QED
    BY <2>1, <2>3, <2>4 DEF Next, InputStep, Handler, Ask, AcceptWild, StartWrite, StartRead,
       OutOfMemory, ArmTimeout, TxDone, TxError, RxByte, RxError, RxInterrupt, RxClear, Timeout,
       TxInterrupt, vars, requestVars
<1> QED
  BY <1>1, DataInvariant, PTL DEF Spec, NothingLeftBehind

\* If a request is sent only after the last one of its kind was reported, a
\* write is reported to the producer whose data was on the wire, after all of
\* it was sent.
THEOREM AcksMatchTheWire ==
  ASSUME OneAtATime
  PROVE  Spec => AckMatchesWire
<1>1. IInv /\ [Next]_vars
      => [writing # NoRequest /\ writing' = NoRequest
          => tx.state = "done" /\ tx.of = writing.from]_vars
  <2> SUFFICES ASSUME IInv, [Next]_vars, writing # NoRequest, writing' = NoRequest
               PROVE  tx.state = "done" /\ tx.of = writing.from
    OBVIOUS
  <2>1. CASE TxInterrupt
    <3>1. PICK p \in Producers : OnlyAsks("WRITE", p) /\ WriteSent(p)
      BY <2>1, TxInterruptInv
    <3> QED
      BY <2>1, <3>1 DEF TxInterrupt, WriteSent
  <2>2. CASE Accept
    BY <2>2 DEF Accept, NoRequest
  <2>3. ASSUME writing' = writing
        PROVE  FALSE
    BY <2>3
  <2> QED
    BY <2>1, <2>2, <2>3 DEF Next, InputStep, Handler, Ask, AcceptWild, StartWrite, StartRead,
       OutOfMemory, ArmTimeout, TxDone, TxError, RxByte, RxError, RxInterrupt, RxClear, Timeout,
       ReadComplete, vars,
       requestVars
<1> QED
  BY <1>1, Inductive, PTL DEF Spec, AckMatchesWire

\* To clients that wait for the report of a request before they send the next,
\* a write is a handshake: it is taken, sent and reported, or its transfer
\* fails and it is never reported.
THEOREM WritesAreHandshakes ==
  ASSUME OneAtATime
  PROVE  Spec => WritesShakeHands
<1>1. Init => Write!Init
  BY DEF Init, Write!Init, WriteState, Outstanding
<1>2. IInv /\ [Next]_vars => [Write!Next]_WriteState
  BY WriteStep
<1> QED
  BY Inductive, <1>1, <1>2, PTL DEF Spec, WritesShakeHands, Write!Spec

\* To the same clients a read is a handshake: no timeout, however late, ends a
\* read that was not started.
THEOREM ReadsAreHandshakes ==
  ASSUME OneAtATime
  PROVE  Spec => ReadsShakeHands
<1>1. Init => Read!Init
  BY DEF Init, Read!Init, ReadState, Outstanding
<1>2. IInv /\ [Next]_vars => [Read!Next]_ReadState
  BY ReadStep
<1> QED
  BY Inductive, <1>1, <1>2, PTL DEF Spec, ReadsShakeHands, Read!Spec
=============================================================================
