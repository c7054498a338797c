------------------------------- MODULE CanTx -------------------------------
(***************************************************************************)
(* The transmit side of src/src/CO_driver.c.  A message is copied into a   *)
(* mailbox of the CAN peripheral, or waits in its buffer, is counted, and  *)
(* is sent by the transmit interrupt.  Each object of the CANopen stack    *)
(* has a buffer of its own, and writes a new value over the old one before *)
(* it sends.                                                               *)
(*                                                                         *)
(* CO_LOCK_CAN_SEND is empty in CO_driver_target.h: the interrupt comes    *)
(* between any two steps of a thread, and so does a thread of a higher     *)
(* priority.  CANtxCount++ is a load and a store.                          *)
(***************************************************************************)
EXTENDS Integers, FiniteSets, FiniteSetsExt

CONSTANTS
    Size,           \* txSize
    Sync,           \* the buffers with syncFlag: synchronous TPDOs
    Senders,        \* the threads that run the CANopen stack
    Priority,       \* [Senders -> Nat]
    Owner,          \* [Buffers -> Senders]
    MailboxCount,
    CountModulus,   \* 2^16: CANtxCount is unsigned
    MaxSends,       \* bound: messages sent in a behaviour
    MaxClears,      \* bound: calls of CO_CANclearPendingSyncPDOs
    Empty, Done     \* a mailbox never used, a mailbox whose RQCP bit is set

Buffers == 1 .. Size
Mailboxes == 1 .. MailboxCount

ASSUME CanAssumption ==
    /\ Size \in Nat /\ MailboxCount \in Nat \ {0}
    /\ Sync \subseteq Buffers /\ Owner \in [Buffers -> Senders]
    /\ Priority \in [Senders -> Nat]
    /\ CountModulus \in Nat \ {0, 1}
    /\ MaxSends \in Nat /\ MaxClears \in Nat
    /\ Empty \notin Buffers /\ Done \notin Buffers /\ Empty # Done

VARIABLES
    full,           \* the buffers with bufferFull
    count,          \* CANtxCount
    inhibit,        \* bufferInhibitFlag
    first,          \* firstCANtxMessage
    errors,         \* CANerrorStatus, the two flags this side sets
    mail,           \* the mailboxes
    irqOn,          \* TMEIE
    sender,         \* where a thread's call stands
    owed,           \* buffers whose latest value has not reached a mailbox
    sends, clears,  \* the number of calls made
    alone           \* history: no two calls overlapped, and none deleted messages

driverVars == <<full, count, inhibit, first, errors>>
callVars == <<sends, clears, alone>>
vars == <<driverVars, mail, irqOn, sender, owed, callVars>>

SenderState ==
    [at : {"idle", "transmit", "mark", "load", "store", "enable",
           "scan", "drop", "unload", "unstore"},
     buffer : 0 .. Size, loaded : 0 .. CountModulus - 1, deleted : BOOLEAN]
Idle == [at |-> "idle", buffer |-> 0, loaded |-> 0, deleted |-> FALSE]

(***************************************************************************)
(* The peripheral                                                          *)
(***************************************************************************)
FreeMailboxes == {m \in Mailboxes : mail[m] \notin Buffers}

\* can_transmit of the buffers of a set, in the order of their indexes, into
\* the free mailboxes, in theirs
Rank(x, set) == Cardinality({y \in set : y <= x})
Transmit(set) ==
    mail' = [m \in Mailboxes |->
        IF m \in FreeMailboxes /\ Rank(m, FreeMailboxes) <= Cardinality(set)
        THEN CHOOSE b \in set : Rank(b, set) = Rank(m, FreeMailboxes)
        ELSE mail[m]]

\* The message of a mailbox has been sent
Complete(m) ==
    /\ mail[m] \in Buffers
    /\ mail' = [mail EXCEPT ![m] = Done]
    /\ UNCHANGED <<driverVars, irqOn, sender, owed, callVars>>

IrqPending == irqOn /\ \E m \in Mailboxes : mail[m] = Done

\* Mutant of Lowered: CANtxCount is a signed number
LoweredSigned(n, by) == n - by

Lowered(n, by) == (n - by) % CountModulus

\* The messages the interrupt looks at, and those it finds a mailbox for
Waiting == IF count = 0 THEN {} ELSE full
Sent == {b \in Waiting : Rank(b, Waiting) <= Cardinality(FreeMailboxes)}

\* Mutants: the result of can_transmit is not looked at; the loop is left
\* with a break, so that the interrupt is always disabled
UnmarkAll == full' = full \ Waiting
DisableIrq == irqOn' = FALSE

Unmark == full' = full \ Sent
KeepIrq == irqOn' = (Sent # Waiting)

\* CO_CANTxInterrupt
Interrupt ==
    /\ IrqPending
    /\ first' = FALSE
    /\ Transmit(Sent) /\ Unmark /\ KeepIrq
    /\ owed' = owed \ Sent
    /\ count' = Lowered(count, Cardinality(Sent))
    /\ inhibit' = (Sent # {} /\ Max(Sent) \in Sync)
    /\ UNCHANGED <<errors, sender, callVars>>

(***************************************************************************)
(* Threads run when no interrupt is pending and no thread of a higher      *)
(* priority is in the driver                                               *)
(***************************************************************************)
MayRun(c) ==
    /\ ~IrqPending
    /\ \A d \in Senders : Priority[d] > Priority[c] => sender[d] = Idle

At(c, place) == sender[c].at = place /\ MayRun(c)
Goto(c, place) == sender' = [sender EXCEPT ![c].at = place]
Return(c) == sender' = [sender EXCEPT ![c] = Idle]

\* A call that will not, or will, delete messages begins
Begun(deletes) == alone' = (alone /\ ~deletes /\ \A d \in Senders : sender[d] = Idle)

\* CO_CANsend: an overflow is noted and the message is sent all the same
Send(c, b) ==
    /\ At(c, "idle") /\ Owner[b] = c
    /\ sends < MaxSends /\ sends' = sends + 1 /\ Begun(FALSE)
    /\ errors' = IF b \in full /\ ~first THEN errors \cup {"overflow"} ELSE errors
    /\ owed' = owed \cup {b}
    /\ sender' = [sender EXCEPT ![c] = [Idle EXCEPT !.at = "transmit", !.buffer = b]]
    /\ UNCHANGED <<full, count, inhibit, first, mail, irqOn, clears>>

TryMailbox(c) ==
    LET b == sender[c].buffer IN
    /\ At(c, "transmit")
    /\ IF FreeMailboxes # {}
       THEN /\ Transmit({b})
            /\ inhibit' = (b \in Sync)
            /\ owed' = owed \ {b}
            /\ Return(c)
       ELSE Goto(c, "mark") /\ UNCHANGED <<mail, inhibit, owed>>
    /\ UNCHANGED <<full, count, first, errors, irqOn, callVars>>

MarkFull(c) ==
    /\ At(c, "mark") /\ Goto(c, "load")
    /\ full' = full \cup {sender[c].buffer}
    /\ UNCHANGED <<count, inhibit, first, errors, mail, irqOn, owed, callVars>>

\* The load and the store of CANtxCount++
LoadCount(c) ==
    /\ At(c, "load")
    /\ sender' = [sender EXCEPT ![c].at = "store", ![c].loaded = count]
    /\ UNCHANGED <<driverVars, mail, irqOn, owed, callVars>>

StoreCount(c) ==
    /\ At(c, "store") /\ Goto(c, "enable")
    /\ count' = (sender[c].loaded + 1) % CountModulus
    /\ UNCHANGED <<full, inhibit, first, errors, mail, irqOn, owed, callVars>>

\* Mutant of EnableIrq: only for the first message that waits
EnableForFirst(c) ==
    /\ At(c, "enable") /\ Return(c)
    /\ irqOn' = (irqOn \/ count = 1)
    /\ UNCHANGED <<driverVars, mail, owed, callVars>>

EnableIrq(c) ==
    /\ At(c, "enable") /\ Return(c)
    /\ irqOn' = TRUE
    /\ UNCHANGED <<driverVars, mail, owed, callVars>>

\* CO_CANclearPendingSyncPDOs: the flag is cleared, the mailbox is not
Clear(c) ==
    /\ At(c, "idle")
    /\ clears < MaxClears /\ clears' = clears + 1 /\ Begun(full \cap Sync # {})
    /\ inhibit' = FALSE
    /\ sender' = [sender EXCEPT ![c] =
          [Idle EXCEPT !.at = "scan", !.buffer = IF count = 0 THEN Size ELSE 0,
                       !.deleted = inhibit]]
    /\ UNCHANGED <<full, count, first, errors, mail, irqOn, owed, sends>>

\* The buffers that the loop of CO_CANclearPendingSyncPDOs has yet to find
LateSync(c) == {b \in full \cap Sync : b > sender[c].buffer}

FindSync(c) ==
    /\ At(c, "scan") /\ LateSync(c) # {}
    /\ sender' = [sender EXCEPT ![c].at = "drop", ![c].buffer = Min(LateSync(c))]
    /\ UNCHANGED <<driverVars, mail, irqOn, owed, callVars>>

DropSync(c) ==
    /\ At(c, "drop")
    /\ full' = full \ {sender[c].buffer}
    /\ owed' = owed \ {sender[c].buffer}
    /\ sender' = [sender EXCEPT ![c].at = "unload", ![c].deleted = TRUE]
    /\ UNCHANGED <<count, inhibit, first, errors, mail, irqOn, callVars>>

\* The load and the store of CANtxCount--
LoadForDrop(c) ==
    /\ At(c, "unload")
    /\ sender' = [sender EXCEPT ![c].at = "unstore", ![c].loaded = count]
    /\ UNCHANGED <<driverVars, mail, irqOn, owed, callVars>>

StoreForDrop(c) ==
    /\ At(c, "unstore") /\ Goto(c, "scan")
    /\ count' = Lowered(sender[c].loaded, 1)
    /\ UNCHANGED <<full, inhibit, first, errors, mail, irqOn, owed, callVars>>

EndClear(c) ==
    /\ At(c, "scan") /\ LateSync(c) = {}
    /\ errors' = IF sender[c].deleted THEN errors \cup {"late"} ELSE errors
    /\ Return(c)
    /\ UNCHANGED <<full, count, inhibit, first, mail, irqOn, owed, callVars>>

SenderStep(c) ==
    \/ TryMailbox(c) \/ MarkFull(c) \/ LoadCount(c) \/ StoreCount(c) \/ EnableIrq(c)
    \/ FindSync(c) \/ DropSync(c) \/ LoadForDrop(c) \/ StoreForDrop(c) \/ EndClear(c)

Init ==
    /\ full = {} /\ count = 0 /\ inhibit = FALSE /\ first = TRUE /\ errors = {}
    /\ mail = [m \in Mailboxes |-> Empty]
    /\ irqOn = FALSE
    /\ sender = [c \in Senders |-> Idle]
    /\ owed = {}
    /\ sends = 0 /\ clears = 0 /\ alone = TRUE

Next ==
    \/ \E m \in Mailboxes : Complete(m)
    \/ Interrupt
    \/ \E c \in Senders :
          \/ SenderStep(c)
          \/ \E b \in Buffers : Send(c, b)
          \/ Clear(c)

Spec == Init /\ [][Next]_vars

\* The bus sends, the interrupt is taken, and a call is finished
FairSpec ==
    /\ Spec
    /\ WF_vars(Interrupt)
    /\ \A m \in Mailboxes : WF_vars(Complete(m))
    /\ \A c \in Senders : WF_vars(SenderStep(c))

(***************************************************************************)
(* Properties                                                              *)
(***************************************************************************)
TypeOK ==
    /\ full \subseteq Buffers /\ count \in 0 .. CountModulus - 1
    /\ inhibit \in BOOLEAN /\ first \in BOOLEAN /\ errors \subseteq {"overflow", "late"}
    /\ mail \in [Mailboxes -> Buffers \cup {Empty, Done}] /\ irqOn \in BOOLEAN
    /\ sender \in [Senders -> SenderState]
    /\ owed \subseteq Buffers
    /\ sends \in Nat /\ clears \in Nat /\ alone \in BOOLEAN

Sending(b) ==
    \E c \in Senders : sender[c].buffer = b /\ sender[c].at \in {"transmit", "mark"}

\* No message is lost: a value that was handed to CO_CANsend and has neither
\* reached a mailbox nor been deleted is marked in its buffer, or its sender
\* is about to do so, wherever the interrupt and other senders get in between.
NoMessageLost == \A b \in owed : b \in full \/ Sending(b)

\* CO_driver.c:212: "if no buffer is free, message will be sent by
\* interrupt".  When no call is under way, messages that wait in buffers are
\* counted, the interrupt is enabled, and a mailbox is busy or just done: the
\* interrupt will come, and will look for them.
WaitingIsServed ==
    (full # {} /\ \A c \in Senders : sender[c] = Idle) =>
        /\ irqOn /\ count # 0
        /\ \E m \in Mailboxes : mail[m] # Empty

\* The same, as long as threads have not called the driver at the same time
\* nor deleted messages: the interrupt alone, between any two steps of a call
\* of CO_CANsend, leaves no message behind.
ServedIfAlone == alone => WaitingIsServed

\* Every message reaches a mailbox in the end, under the same condition
SentInTheEnd == \A b \in Buffers : b \in owed ~> b \notin owed \/ ~alone
=============================================================================
