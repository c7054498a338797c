---------------------------- MODULE CanTx_proofs ----------------------------
(***************************************************************************)
(* Proofs for any number of buffers, mailboxes and senders, any priorities *)
(* and any buffers with syncFlag.  That no message is lost needs only the  *)
(* flags of the buffers: the count of the waiting messages may be wrong.   *)
(* That what waits is served needs the count, and what the interrupt may   *)
(* do to it between the steps of one call.                                 *)
(***************************************************************************)
EXTENDS CanTx, FiniteSetTheorems, WellFoundedInduction, TLAPS

\* The types of the variables the proof depends on
CallsOK ==
    /\ full \subseteq 0 .. Size
    /\ count \in 0 .. CountModulus - 1 /\ inhibit \in BOOLEAN
    /\ sender \in [Senders -> SenderState]

(***************************************************************************)
(* The smallest element of a set of buffers, and the size of one           *)
(***************************************************************************)
LEMMA MinOfBuffers ==
  ASSUME NEW B, B \subseteq 0 .. Size, B # {}
  PROVE  Min(B) \in B
<1>1. B \subseteq Nat
  BY CanAssumption
<1>2. PICK x \in B : \A y \in B : ~ (<<y, x>> \in OpToRel(<, Nat))
  BY <1>1, NatLessThanWellFounded, WFMin
<1>3. \A y \in B : ~ (y < x)
  BY <1>1, <1>2 DEF OpToRel
<1>4. \A y \in B : x =< y
  BY <1>1, <1>3
<1> QED
  BY <1>4 DEF Min

LEMMA SizeOfBuffers ==
  ASSUME NEW B, B \subseteq 0 .. Size
  PROVE  Cardinality(B) \in Nat
<1>1. IsFiniteSet(0 .. Size)
  BY CanAssumption, FS_Interval
<1>2. IsFiniteSet(B)
  BY <1>1, FS_Subset
<1> QED
  BY <1>2, FS_CardinalityType

LEMMA CountStaysInRange ==
  ASSUME NEW n \in Int
  PROVE  n % CountModulus \in 0 .. CountModulus - 1
  BY CanAssumption

LEMMA InterruptSends ==
  ASSUME CallsOK, Interrupt
  PROVE  \E sent \in SUBSET (0 .. Size) :
            /\ full' = full \ sent /\ owed' = owed \ sent
            /\ count' \in 0 .. CountModulus - 1
            /\ inhibit' \in BOOLEAN /\ sender' = sender
<1>1. Sent \subseteq 0 .. Size
  BY DEF CallsOK, Sent, Waiting
<1>2. /\ full' = full \ Sent /\ owed' = owed \ Sent /\ sender' = sender
      /\ count' = (count - Cardinality(Sent)) % CountModulus
      /\ inhibit' \in BOOLEAN
  BY DEF Interrupt, Unmark, Lowered
<1>3. count - Cardinality(Sent) \in Int
  <2>1. Cardinality(Sent) \in Nat
    BY <1>1, SizeOfBuffers, Zenon
  <2> QED
    BY <2>1, CanAssumption DEF CallsOK
<1> QED
  BY <1>1, <1>2, <1>3, CountStaysInRange

(***************************************************************************)
(* The types                                                               *)
(***************************************************************************)

\* A call that moves on, and one that moves to another buffer or value
LEMMA GotoType ==
  ASSUME CallsOK, NEW c \in Senders,
         NEW place \in {"idle", "transmit", "mark", "load", "store", "enable",
                        "scan", "drop", "unload", "unstore"}
  PROVE  /\ [sender EXCEPT ![c].at = place] \in [Senders -> SenderState]
         /\ \A b \in 0 .. Size :
               [sender EXCEPT ![c].at = place, ![c].buffer = b] \in [Senders -> SenderState]
         /\ \A n \in 0 .. CountModulus - 1 :
               [sender EXCEPT ![c].at = place, ![c].loaded = n] \in [Senders -> SenderState]
         /\ \A d \in BOOLEAN :
               [sender EXCEPT ![c].at = place, ![c].deleted = d] \in [Senders -> SenderState]
<1>1. sender[c] \in SenderState /\ sender \in [Senders -> SenderState]
  BY DEF CallsOK
<1> QED
  BY <1>1 DEF SenderState

LEMMA CallType ==
  ASSUME CallsOK, NEW c \in Senders, NEW s \in SenderState
  PROVE  [sender EXCEPT ![c] = s] \in [Senders -> SenderState]
  BY DEF CallsOK

LEMMA IdleType ==
  /\ Idle \in SenderState
  /\ \A b \in Buffers : [Idle EXCEPT !.at = "transmit", !.buffer = b] \in SenderState
  /\ \A n \in 0 .. Size, d \in BOOLEAN :
        [Idle EXCEPT !.at = "scan", !.buffer = n, !.deleted = d] \in SenderState
<1>1. 0 \in 0 .. Size /\ 0 \in 0 .. CountModulus - 1
  BY CanAssumption
<1>2. Buffers \subseteq 0 .. Size
  BY CanAssumption DEF Buffers
<1> QED
  BY <1>1, <1>2 DEF Idle, SenderState

LEMMA CallsOKInit == Init => CallsOK
<1> SUFFICES ASSUME Init PROVE CallsOK
  OBVIOUS
<1>1. full = {} /\ count = 0 /\ inhibit = FALSE /\ sender = [c \in Senders |-> Idle]
  BY DEF Init
<1>2. 0 \in 0 .. CountModulus - 1
  BY CanAssumption
<1>3. sender \in [Senders -> SenderState]
  BY <1>1, IdleType
<1> QED
  BY <1>1, <1>2, <1>3 DEF CallsOK

LEMMA SenderStepOK ==
  ASSUME CallsOK, NEW c \in Senders, SenderStep(c)
  PROVE  CallsOK'
<1>1. CASE TryMailbox(c)
  <2>1. CASE FreeMailboxes # {}
    <3>1. inhibit' = (sender[c].buffer \in Sync) /\ Return(c)
      BY <1>1, <2>1 DEF TryMailbox
    <3>2. inhibit' \in BOOLEAN
      <4>1. CASE sender[c].buffer \in Sync
        BY <1>1, <2>1, <4>1 DEF TryMailbox
      <4>2. CASE sender[c].buffer \notin Sync
        BY <1>1, <2>1, <4>2 DEF TryMailbox
      <4> QED
        BY <4>1, <4>2
    <3>3. sender' \in [Senders -> SenderState]
      BY <3>1, CallType, IdleType DEF Return
    <3> QED
      BY <1>1, <3>2, <3>3 DEF TryMailbox, CallsOK
  <2>2. CASE ~ (FreeMailboxes # {})
    <3>1. inhibit' = inhibit /\ sender' = [sender EXCEPT ![c].at = "mark"]
      BY <1>1, <2>2 DEF TryMailbox, Goto
    <3>2. sender' \in [Senders -> SenderState]
      BY <3>1, GotoType
    <3> QED
      BY <1>1, <3>1, <3>2 DEF TryMailbox, CallsOK
  <2> QED
    BY <2>1, <2>2
<1>2. CASE MarkFull(c)
  <2>1. sender[c].buffer \in 0 .. Size
    BY DEF CallsOK, SenderState
  <2> QED
    BY <1>2, <2>1, GotoType DEF MarkFull, Goto, CallsOK
<1>3. CASE LoadCount(c)
  BY <1>3, GotoType DEF LoadCount, driverVars, CallsOK
<1>4. CASE StoreCount(c)
  <2>1. sender[c].loaded + 1 \in Int
    BY CanAssumption DEF CallsOK, SenderState
  <2> QED
    BY <1>4, <2>1, CountStaysInRange, GotoType DEF StoreCount, Goto, CallsOK
<1>5. CASE EnableIrq(c)
  BY <1>5, CallType, IdleType DEF EnableIrq, Return, driverVars, CallsOK
<1>6. CASE FindSync(c)
  <2>1. Min(LateSync(c)) \in 0 .. Size
    BY <1>6, MinOfBuffers DEF FindSync, LateSync, CallsOK
  <2> QED
    BY <1>6, <2>1, GotoType DEF FindSync, driverVars, CallsOK
<1>7. CASE DropSync(c)
  BY <1>7, GotoType DEF DropSync, CallsOK
<1>8. CASE LoadForDrop(c)
  BY <1>8, GotoType DEF LoadForDrop, driverVars, CallsOK
<1>9. CASE StoreForDrop(c)
  <2>1. sender[c].loaded - 1 \in Int
    BY CanAssumption DEF CallsOK, SenderState
  <2> QED
    BY <1>9, <2>1, CountStaysInRange, GotoType DEF StoreForDrop, Lowered, Goto, CallsOK
<1>10. CASE EndClear(c)
  BY <1>10, CallType, IdleType DEF EndClear, Return, CallsOK
<1> QED
  BY <1>1, <1>2, <1>3, <1>4, <1>5, <1>6, <1>7, <1>8, <1>9, <1>10 DEF SenderStep

LEMMA CallsOKStep == CallsOK /\ [Next]_vars => CallsOK'
<1> SUFFICES ASSUME CallsOK, [Next]_vars PROVE CallsOK'
  OBVIOUS
<1>1. ASSUME NEW m \in Mailboxes, Complete(m) PROVE CallsOK'
  BY <1>1 DEF Complete, driverVars, CallsOK
<1>2. CASE Interrupt
  BY <1>2, InterruptSends DEF CallsOK
<1>3. ASSUME NEW c \in Senders, NEW b \in Buffers, Send(c, b) PROVE CallsOK'
  BY <1>3, CallType, IdleType DEF Send, CallsOK
<1>4. ASSUME NEW c \in Senders, Clear(c) PROVE CallsOK'
  <2>1. (IF count = 0 THEN Size ELSE 0) \in 0 .. Size
    BY CanAssumption
  <2> QED
    BY <1>4, <2>1, CallType, IdleType DEF Clear, CallsOK
<1>5. ASSUME NEW c \in Senders, SenderStep(c) PROVE CallsOK'
  BY <1>5, SenderStepOK
<1>6. CASE UNCHANGED vars
  BY <1>6 DEF vars, driverVars, callVars, CallsOK
<1> QED
  BY <1>1, <1>2, <1>3, <1>4, <1>5, <1>6 DEF Next

(***************************************************************************)
(* The mailboxes: as many messages as there is room for get one each       *)
(***************************************************************************)
LEMMA RankExists ==
  ASSUME NEW S, S \subseteq Nat, IsFiniteSet(S), NEW r \in 1 .. Cardinality(S)
  PROVE  \E b \in S : Rank(b, S) = r
<1> DEFINE n == Cardinality(S)
           Below(b) == {y \in S : y =< b}
<1>1. n \in Nat
  BY FS_CardinalityType
<1>2. \A b \in S : /\ IsFiniteSet(Below(b)) /\ Cardinality(Below(b)) \in Nat
                   /\ Cardinality(Below(b)) =< n /\ Rank(b, S) = Cardinality(Below(b))
  <2> SUFFICES ASSUME NEW b \in S
               PROVE  /\ IsFiniteSet(Below(b)) /\ Cardinality(Below(b)) \in Nat
                      /\ Cardinality(Below(b)) =< n /\ Rank(b, S) = Cardinality(Below(b))
    OBVIOUS
  <2>1. Below(b) \in SUBSET S
    OBVIOUS
  <2>2. IsFiniteSet(Below(b)) /\ Cardinality(Below(b)) =< n
    BY <2>1, FS_Subset
  <2>3. Cardinality(Below(b)) \in Nat
    BY <2>2, FS_CardinalityType
  <2> QED
    BY <2>2, <2>3 DEF Rank
<1>3. \A b \in S : Rank(b, S) \in 1 .. n
  <2> SUFFICES ASSUME NEW b \in S PROVE Rank(b, S) \in 1 .. n
    OBVIOUS
  <2>1. Below(b) # {}
    OBVIOUS
  <2>2. Cardinality(Below(b)) # 0
    BY <1>2, <2>1, FS_EmptySet
  <2> HIDE DEF Below, n
  <2> QED
    BY <1>1, <1>2, <2>2
<1>4. ASSUME NEW b \in S, NEW c \in S, b < c
      PROVE  Rank(b, S) # Rank(c, S)
  <2>1. Below(b) \in SUBSET Below(c)
    <3> SUFFICES ASSUME NEW y \in S, y =< b PROVE y =< c
      OBVIOUS
    <3>1. y \in Nat /\ b \in Nat /\ c \in Nat
      OBVIOUS
    <3> QED
      BY <1>4, <3>1
  <2>2. c \in Below(c) /\ c \notin Below(b)
    BY <1>4
  <2>3. Below(b) # Below(c)
    BY <2>2
  <2> HIDE DEF Below
  <2>4. Cardinality(Below(c)) # Cardinality(Below(b))
    BY <1>2, <2>1, <2>3, FS_Subset
  <2> QED
    BY <1>2, <2>4
<1> SUFFICES ASSUME \A b \in S : Rank(b, S) # r PROVE FALSE
  OBVIOUS
<1> DEFINE T == (1 .. n) \ {r}
           f == [b \in S |-> Rank(b, S)]
<1>5. IsFiniteSet(T) /\ Cardinality(T) < n
  <2>1. IsFiniteSet(1 .. n) /\ Cardinality(1 .. n) = n
    BY <1>1, FS_Interval
  <2>2. r \in 1 .. n
    OBVIOUS
  <2> HIDE DEF n
  <2>3. IsFiniteSet(T) /\ Cardinality(T) = n - 1
    BY <2>1, <2>2, FS_RemoveElement
  <2> QED
    BY <1>1, <2>3
<1>6. f \in [S -> T]
  BY <1>3
<1>7. PICK x \in S, y \in S : x # y /\ f[x] = f[y]
  <2> HIDE DEF T, f
  <2> QED
    BY <1>5, <1>6, FS_PigeonHole
<1>8. Rank(x, S) = Rank(y, S) /\ (x < y \/ y < x)
  BY <1>7
<1> QED
  BY <1>4, <1>8

MailType == [Mailboxes -> Buffers \cup {Empty, Done}]

LEMMA TransmitFacts ==
  ASSUME mail \in MailType, NEW set \in SUBSET Buffers, Transmit(set)
  PROVE  mail' \in MailType /\ \A m \in Mailboxes : mail[m] # Empty => mail'[m] # Empty
<1>1. Buffers \subseteq Nat /\ Mailboxes \subseteq Nat
      /\ IsFiniteSet(Buffers) /\ IsFiniteSet(Mailboxes)
  BY CanAssumption, FS_Interval DEF Buffers, Mailboxes
<1>2. set \subseteq Nat /\ IsFiniteSet(set) /\ IsFiniteSet(FreeMailboxes)
  BY <1>1, FS_Subset DEF FreeMailboxes
<1>3. ASSUME NEW m \in FreeMailboxes, Rank(m, FreeMailboxes) =< Cardinality(set)
      PROVE  (CHOOSE b \in set : Rank(b, set) = Rank(m, FreeMailboxes)) \in set
  <2> DEFINE U == {y \in FreeMailboxes : y =< m}
  <2>1. U \in SUBSET FreeMailboxes /\ m \in U
    BY <1>1 DEF FreeMailboxes
  <2>2. IsFiniteSet(U) /\ U # {}
    BY <1>2, <2>1, FS_Subset
  <2>3. Cardinality(U) \in Nat /\ Cardinality(U) # 0
    BY <2>2, FS_CardinalityType, FS_EmptySet
  <2>4. Rank(m, FreeMailboxes) = Cardinality(U)
    BY DEF Rank
  <2>5. Cardinality(set) \in Nat
    BY <1>2, FS_CardinalityType
  <2>6. Rank(m, FreeMailboxes) \in 1 .. Cardinality(set)
    <3> HIDE DEF U
    <3> QED
      BY <1>3, <2>3, <2>4, <2>5
  <2>7. \E b \in set : Rank(b, set) = Rank(m, FreeMailboxes)
    BY <1>2, <2>6, RankExists
  <2> QED
    BY <2>7
<1>4. \A m \in Mailboxes : mail'[m] \in set \/ mail'[m] = mail[m]
  BY <1>3 DEF Transmit
<1>5. DOMAIN mail' = Mailboxes /\ mail' = [m \in Mailboxes |-> mail'[m]]
  BY DEF Transmit
<1>6. \A m \in Mailboxes : mail'[m] \in Buffers \cup {Empty, Done}
  BY <1>4 DEF MailType
<1>7. Empty \notin Buffers
  BY CanAssumption
<1> QED
  BY <1>4, <1>5, <1>6, <1>7 DEF MailType

LEMMA SentIsWaiting ==
  ASSUME full \subseteq Buffers
  PROVE  Sent \in SUBSET Waiting /\ Waiting \in SUBSET full /\ Sent \in SUBSET Buffers
BY DEF Sent, Waiting

(***************************************************************************)
(* The types.  A call that is idle keeps nothing, and every other has a    *)
(* buffer, but one that still looks for synchronous messages.              *)
(***************************************************************************)
SlotsOK ==
    \A c \in Senders :
        /\ sender[c].at = "idle" => sender[c] = Idle
        /\ sender[c].at \notin {"idle", "scan"} => sender[c].buffer \in Buffers

\* A message waits only because all mailboxes were busy once
BusyInv ==
    full # {} \/ (\E c \in Senders : sender[c].at = "mark")
        => \E m \in Mailboxes : mail[m] # Empty

Types == TypeOK /\ SlotsOK

LEMMA TypesCalls ==
  ASSUME TypeOK
  PROVE  CallsOK
BY CanAssumption DEF TypeOK, CallsOK, Buffers

LEMMA InitTypes == Init => Types /\ BusyInv
<1> SUFFICES ASSUME Init PROVE Types /\ BusyInv
  OBVIOUS
<1>1. CallsOK
  BY CallsOKInit
<1>2. TypeOK
  BY <1>1 DEF Init, TypeOK, CallsOK
<1>3. SlotsOK /\ BusyInv
  BY DEF Init, SlotsOK, BusyInv, Idle
<1> QED
  BY <1>2, <1>3 DEF Types

LEMMA SlotsStep ==
  ASSUME Types, NEW c \in Senders, SenderStep(c)
  PROVE  SlotsOK'
<1>1. sender \in [Senders -> SenderState] /\ sender[c] \in SenderState /\ SlotsOK
  BY DEF Types, TypeOK
<1>2. ASSUME NEW s, sender' = [sender EXCEPT ![c] = s],
             s.at = "idle" => s = Idle, s.at \notin {"idle", "scan"} => s.buffer \in Buffers
      PROVE  SlotsOK'
  BY <1>1, <1>2 DEF SlotsOK
<1>3. ASSUME NEW place \in {"mark", "load", "store", "enable", "scan", "drop", "unload", "unstore"},
             sender[c].at \notin {"idle", "scan"},
             \/ sender' = [sender EXCEPT ![c].at = place]
             \/ \E n : sender' = [sender EXCEPT ![c].at = place, ![c].loaded = n]
             \/ \E d : sender' = [sender EXCEPT ![c].at = place, ![c].deleted = d]
      PROVE  SlotsOK'
  <2>1. sender[c].buffer \in Buffers
    BY <1>1, <1>3 DEF SlotsOK
  <2>2. PICK s : sender' = [sender EXCEPT ![c] = s] /\ s.at = place /\ s.buffer = sender[c].buffer
    BY <1>1, <1>3 DEF SenderState
  <2> QED
    BY <1>2, <1>3, <2>1, <2>2
<1>4. Idle.at = "idle"
  BY DEF Idle
<1>5. CASE TryMailbox(c)
  BY <1>2, <1>3, <1>4, <1>5 DEF TryMailbox, Goto, Return, At
<1>6. CASE MarkFull(c) \/ LoadCount(c) \/ StoreCount(c)
  BY <1>3, <1>6 DEF MarkFull, LoadCount, StoreCount, Goto, At
<1>7. CASE DropSync(c) \/ LoadForDrop(c) \/ StoreForDrop(c)
  BY <1>3, <1>7 DEF DropSync, LoadForDrop, StoreForDrop, Goto, At
<1>8. CASE EnableIrq(c) \/ EndClear(c)
  BY <1>2, <1>4, <1>8 DEF EnableIrq, EndClear, Return
<1>9. CASE FindSync(c)
  <2>1. LateSync(c) \subseteq Buffers /\ LateSync(c) \subseteq 0 .. Size
    BY TypesCalls DEF LateSync, Types, TypeOK, CallsOK
  <2>2. Min(LateSync(c)) \in Buffers
    BY <1>9, <2>1, MinOfBuffers DEF FindSync
  <2>3. PICK b \in Buffers : b = Min(LateSync(c))
    BY <2>2
  <2> DEFINE s == [sender[c] EXCEPT !.at = "drop", !.buffer = b]
  <2>4. sender' = [sender EXCEPT ![c] = s]
    BY <1>9, <2>3 DEF FindSync
  <2>5. s.at = "drop" /\ s.buffer = b
    BY <1>1 DEF SenderState
  <2> HIDE DEF s
  <2> QED
    BY <1>2, <2>4, <2>5
<1> QED
  BY <1>5, <1>6, <1>7, <1>8, <1>9 DEF SenderStep

LEMMA SlotsNext ==
  ASSUME Types, [Next]_vars
  PROVE  SlotsOK'
<1>1. sender \in [Senders -> SenderState] /\ SlotsOK
  BY DEF Types, TypeOK
<1>2. ASSUME NEW c \in Senders, NEW b \in Buffers, Send(c, b)
      PROVE  SlotsOK'
  <2>1. sender' = [sender EXCEPT ![c] = [Idle EXCEPT !.at = "transmit", !.buffer = b]]
    BY <1>2 DEF Send
  <2> QED
    BY <1>1, <2>1 DEF SlotsOK, Idle
<1>3. ASSUME NEW c \in Senders, Clear(c)
      PROVE  SlotsOK'
  <2>1. sender' = [sender EXCEPT ![c] =
          [Idle EXCEPT !.at = "scan", !.buffer = IF count = 0 THEN Size ELSE 0,
                       !.deleted = inhibit]]
    BY <1>3 DEF Clear
  <2> QED
    BY <1>1, <2>1 DEF SlotsOK, Idle
<1>4. ASSUME sender' = sender PROVE SlotsOK'
  BY <1>1, <1>4 DEF SlotsOK
<1>5. CASE Interrupt \/ (\E m \in Mailboxes : Complete(m)) \/ UNCHANGED vars
  BY <1>4, <1>5 DEF Interrupt, Complete, vars
<1> QED
  BY <1>2, <1>3, <1>5, SlotsStep DEF Next

LEMMA NextTypes ==
  ASSUME Types, BusyInv, [Next]_vars
  PROVE  Types' /\ BusyInv'
<1>1. CallsOK' /\ SlotsOK'
  BY TypesCalls, CallsOKStep, SlotsNext DEF Types
<1>2. /\ TypeOK /\ mail \in MailType
      /\ \A c \in Senders : sender[c].at = "mark" => sender[c].buffer \in Buffers
  BY DEF Types, TypeOK, SlotsOK, MailType
<1> DEFINE MailKept == \A m \in Mailboxes : mail[m] # Empty => mail'[m] # Empty
           Rest == /\ full' \subseteq Buffers /\ first' \in BOOLEAN /\ owed' \subseteq Buffers
                   /\ errors' \subseteq {"overflow", "late"} /\ mail' \in MailType
                   /\ irqOn' \in BOOLEAN /\ sends' \in Nat /\ clears' \in Nat
                   /\ alone' \in BOOLEAN
<1>3. ASSUME Rest PROVE Types'
  BY <1>1, <1>3 DEF Types, TypeOK, CallsOK, MailType
<1>4. ASSUME MailKept, full' \subseteq full,
             \A c \in Senders : sender'[c].at = "mark" => sender[c].at = "mark"
      PROVE  BusyInv'
  BY <1>4 DEF BusyInv
<1>5. ASSUME NEW m \in Mailboxes, Complete(m)
      PROVE  Rest /\ BusyInv'
  <2>1. MailKept /\ mail' \in MailType
    BY <1>2, <1>5, CanAssumption DEF Complete, MailType
  <2> QED
    BY <1>2, <1>4, <1>5, <2>1 DEF Complete, TypeOK, driverVars, callVars
<1>6. CASE Interrupt
  <2>1. Sent \in SUBSET Buffers
    BY <1>2, SentIsWaiting DEF TypeOK
  <2>2. MailKept /\ mail' \in MailType
    BY <1>2, <1>6, <2>1, TransmitFacts DEF Interrupt
  <2>3. irqOn' \in BOOLEAN
    BY <1>6, Zenon DEF Interrupt, KeepIrq
  <2>4. full' \subseteq full /\ owed' \subseteq owed /\ sender' = sender
    BY <1>6 DEF Interrupt, Unmark
  <2>5. BusyInv'
    BY <1>4, <2>2, <2>4
  <2>6. first' = FALSE /\ errors' = errors /\ UNCHANGED callVars
    BY <1>6 DEF Interrupt
  <2>7. Rest
    BY <1>2, <2>2, <2>3, <2>4, <2>6 DEF TypeOK, callVars
  <2> QED
    BY <1>3, <2>5, <2>7
<1>7. ASSUME NEW c \in Senders, NEW b \in Buffers, Send(c, b)
      PROVE  Rest /\ BusyInv'
  <2>1. alone' \in BOOLEAN
    BY <1>7, Zenon DEF Send, Begun
  <2>2. sender'[c].at = "transmit" /\ \A d \in Senders \ {c} : sender'[d] = sender[d]
    BY <1>2, <1>7 DEF Send, TypeOK, Idle
  <2>3. BusyInv'
    BY <1>4, <1>7, <2>2 DEF Send
  <2> QED
    BY <1>2, <1>7, <2>1, <2>3 DEF Send, TypeOK
<1>8. ASSUME NEW c \in Senders, Clear(c)
      PROVE  Rest /\ BusyInv'
  <2>1. alone' \in BOOLEAN
    BY <1>8, Zenon DEF Clear, Begun
  <2>2. sender'[c].at = "scan" /\ \A d \in Senders \ {c} : sender'[d] = sender[d]
    BY <1>2, <1>8 DEF Clear, TypeOK, Idle
  <2>3. BusyInv'
    BY <1>4, <1>8, <2>2 DEF Clear
  <2> QED
    BY <1>2, <1>8, <2>1, <2>3 DEF Clear, TypeOK
<1>9. ASSUME NEW c \in Senders, TryMailbox(c)
      PROVE  Rest /\ BusyInv'
  <2>1. sender[c].buffer \in Buffers /\ sender[c].at = "transmit"
    BY <1>9 DEF TryMailbox, At, Types, SlotsOK
  <2>2. CASE FreeMailboxes # {}
    <3>1. /\ Transmit({sender[c].buffer}) /\ owed' \subseteq owed
          /\ sender' = [sender EXCEPT ![c] = Idle]
      BY <1>9, <2>2 DEF TryMailbox, Return
    <3>2. MailKept /\ mail' \in MailType
      BY <1>2, <2>1, <3>1, TransmitFacts
    <3>3. BusyInv'
      BY <1>2, <1>4, <1>9, <3>1, <3>2 DEF TryMailbox, TypeOK, Idle
    <3> QED
      BY <1>2, <1>9, <3>1, <3>2, <3>3 DEF TryMailbox, TypeOK, callVars
  <2>3. CASE FreeMailboxes = {}
    <3>1. mail' = mail /\ owed' = owed
      BY <1>9, <2>3 DEF TryMailbox
    <3>2. 1 \in Mailboxes
      BY CanAssumption DEF Mailboxes
    <3>3. mail[1] \in Buffers /\ mail[1] # Empty
      BY <2>3, <3>2, CanAssumption DEF FreeMailboxes
    <3>4. BusyInv'
      BY <3>1, <3>2, <3>3 DEF BusyInv
    <3> QED
      BY <1>2, <1>9, <3>1, <3>4 DEF TryMailbox, TypeOK, callVars
  <2> QED
    BY <2>2, <2>3
<1>10. ASSUME NEW c \in Senders, MarkFull(c)
       PROVE  Rest /\ BusyInv'
  <2>1. sender[c].buffer \in Buffers /\ sender[c].at = "mark"
    BY <1>2, <1>10 DEF MarkFull, At
  <2>2. BusyInv'
    BY <1>10, <2>1 DEF MarkFull, BusyInv
  <2> QED
    BY <1>2, <1>10, <2>1, <2>2 DEF MarkFull, TypeOK, callVars
<1>11. ASSUME NEW c \in Senders,
              \/ LoadCount(c) \/ StoreCount(c) \/ EnableIrq(c) \/ FindSync(c)
              \/ DropSync(c) \/ LoadForDrop(c) \/ StoreForDrop(c) \/ EndClear(c)
       PROVE  Rest /\ BusyInv'
  <2>1. /\ mail' = mail /\ full' \subseteq full /\ owed' \subseteq owed /\ first' = first
        /\ errors' \subseteq errors \cup {"late"} /\ irqOn' \in {irqOn, TRUE}
        /\ UNCHANGED callVars
    BY <1>11 DEF LoadCount, StoreCount, EnableIrq, FindSync, DropSync, LoadForDrop, StoreForDrop,
       EndClear, driverVars
  <2>2. \A d \in Senders : sender'[d].at = "mark" => sender[d].at = "mark"
    BY <1>2, <1>11 DEF LoadCount, StoreCount, EnableIrq, FindSync, DropSync, LoadForDrop,
       StoreForDrop, EndClear, Goto, Return, TypeOK, SenderState, Idle
  <2> QED
    BY <1>2, <1>4, <2>1, <2>2 DEF TypeOK, callVars
<1>12. CASE UNCHANGED vars
  <2>1. Rest
    BY <1>2, <1>12 DEF vars, driverVars, callVars, TypeOK
  <2>2. MailKept /\ full' = full /\ sender' = sender
    BY <1>12 DEF vars, driverVars
  <2>3. BusyInv'
    BY <1>4, <2>2
  <2> QED
    BY <1>3, <2>1, <2>3
<1> QED
  BY <1>3, <1>5, <1>6, <1>7, <1>8, <1>9, <1>10, <1>11, <1>12 DEF Next, SenderStep

(***************************************************************************)
(* No message is lost                                                      *)
(***************************************************************************)

\* A step that changes no call but that of c, which does not send, and
\* takes no buffer's mark away
LEMMA NothingIsDropped ==
  ASSUME CallsOK, NoMessageLost, NEW c \in Senders, NEW s,
         sender' = [sender EXCEPT ![c] = s],
         sender[c].at \notin {"transmit", "mark"},
         full \subseteq full', owed' \subseteq owed
  PROVE  NoMessageLost'
<1> SUFFICES ASSUME NEW b \in owed', b \notin full' PROVE Sending(b)'
  BY DEF NoMessageLost
<1>1. PICK d \in Senders : sender[d].buffer = b /\ sender[d].at \in {"transmit", "mark"}
  BY DEF NoMessageLost, Sending
<1>2. sender'[d] = sender[d]
  BY <1>1 DEF CallsOK
<1> QED
  BY <1>1, <1>2 DEF Sending

LEMMA SenderStepLosesNothing ==
  ASSUME CallsOK, NoMessageLost, NEW c \in Senders, SenderStep(c)
  PROVE  NoMessageLost'
<1> DEFINE b == sender[c].buffer
<1>0. sender \in [Senders -> SenderState] /\ sender[c] \in SenderState
  BY DEF CallsOK
<1>1. ASSUME NEW s, sender' = [sender EXCEPT ![c] = s],
             \A x \in owed : (x \in full \/ x = b) => (x \notin owed' \/ x \in full' \/
                (s.buffer = x /\ s.at \in {"transmit", "mark"})),
             owed' \subseteq owed, full \subseteq full' \cup (owed \ owed')
      PROVE  NoMessageLost'
  <2> SUFFICES ASSUME NEW x \in owed', x \notin full' PROVE Sending(x)'
    BY DEF NoMessageLost
  <2>1. x \in owed /\ x \notin full
    BY <1>1
  <2>2. PICK d \in Senders : sender[d].buffer = x /\ sender[d].at \in {"transmit", "mark"}
    BY <2>1 DEF NoMessageLost, Sending
  <2>3. CASE d = c
    BY <1>0, <1>1, <2>1, <2>2, <2>3 DEF Sending
  <2>4. CASE d # c
    <3>1. sender'[d] = sender[d]
      BY <1>0, <1>1, <2>4
    <3> QED
      BY <2>2, <3>1 DEF Sending
  <2> QED
    BY <2>3, <2>4
<1>2. CASE TryMailbox(c)
  <2>1. CASE FreeMailboxes # {}
    <3>1. sender' = [sender EXCEPT ![c] = Idle] /\ owed' = owed \ {b} /\ full' = full
      BY <1>2, <2>1 DEF TryMailbox, Return
    <3> QED
      BY <1>1, <3>1
  <2>2. CASE ~ (FreeMailboxes # {})
    <3>1. sender' = [sender EXCEPT ![c] = [sender[c] EXCEPT !.at = "mark"]]
          /\ owed' = owed /\ full' = full
      BY <1>2, <2>2 DEF TryMailbox, Goto
    <3>2. /\ [sender[c] EXCEPT !.at = "mark"].buffer = b
          /\ [sender[c] EXCEPT !.at = "mark"].at = "mark"
      BY <1>0 DEF SenderState
    <3> QED
      BY <1>1, <3>1, <3>2
  <2> QED
    BY <2>1, <2>2
<1>3. CASE MarkFull(c)
  <2>1. sender' = [sender EXCEPT ![c] = [sender[c] EXCEPT !.at = "load"]]
        /\ owed' = owed /\ full' = full \cup {b}
    BY <1>3 DEF MarkFull, Goto
  <2> QED
    BY <1>1, <2>1
<1>4. CASE DropSync(c)
  <2>1. PICK s : sender' = [sender EXCEPT ![c] = s]
    BY <1>4 DEF DropSync
  <2>2. owed' = owed \ {b} /\ full' = full \ {b}
    BY <1>4 DEF DropSync
  <2>3. sender[c].at = "drop"
    BY <1>4 DEF DropSync, At
  <2> SUFFICES ASSUME NEW x \in owed', x \notin full' PROVE Sending(x)'
    BY DEF NoMessageLost
  <2>4. PICK d \in Senders : sender[d].buffer = x /\ sender[d].at \in {"transmit", "mark"}
    BY <2>2 DEF NoMessageLost, Sending
  <2>5. sender'[d] = sender[d]
    BY <1>0, <2>1, <2>3, <2>4
  <2> QED
    BY <2>4, <2>5 DEF Sending
<1>5. CASE LoadCount(c) \/ LoadForDrop(c) \/ FindSync(c)
  <2>1. PICK s : sender' = [sender EXCEPT ![c] = s]
    BY <1>5 DEF LoadCount, LoadForDrop, FindSync
  <2>2. owed' = owed /\ full' = full /\ sender[c].at \in {"load", "unload", "scan"}
    BY <1>5 DEF LoadCount, LoadForDrop, FindSync, At, driverVars
  <2> QED
    BY <2>1, <2>2, NothingIsDropped
<1>6. CASE StoreCount(c) \/ StoreForDrop(c)
  <2>1. PICK s : sender' = [sender EXCEPT ![c] = s]
    BY <1>6 DEF StoreCount, StoreForDrop, Goto
  <2>2. owed' = owed /\ full' = full /\ sender[c].at \in {"store", "unstore"}
    BY <1>6 DEF StoreCount, StoreForDrop, At
  <2> QED
    BY <2>1, <2>2, NothingIsDropped
<1>7. CASE EnableIrq(c) \/ EndClear(c)
  <2>1. sender' = [sender EXCEPT ![c] = Idle]
    BY <1>7 DEF EnableIrq, EndClear, Return
  <2>2. owed' = owed /\ full' = full /\ sender[c].at \in {"enable", "scan"}
    BY <1>7 DEF EnableIrq, EndClear, At, driverVars
  <2> QED
    BY <2>1, <2>2, NothingIsDropped
<1> QED
  BY <1>2, <1>3, <1>4, <1>5, <1>6, <1>7 DEF SenderStep

LEMMA NoMessageLostStep == CallsOK /\ NoMessageLost /\ [Next]_vars => NoMessageLost'
<1> SUFFICES ASSUME CallsOK, NoMessageLost, [Next]_vars PROVE NoMessageLost'
  OBVIOUS
<1>1. ASSUME NEW m \in Mailboxes, Complete(m) PROVE NoMessageLost'
  BY <1>1 DEF Complete, driverVars, NoMessageLost, Sending
<1>2. CASE Interrupt
  BY <1>2, InterruptSends DEF NoMessageLost, Sending
<1>3. ASSUME NEW c \in Senders, NEW b \in Buffers, Send(c, b) PROVE NoMessageLost'
  <2> DEFINE call == [Idle EXCEPT !.at = "transmit", !.buffer = b]
  <2>1. sender' = [sender EXCEPT ![c] = call] /\ owed' = owed \cup {b} /\ full' = full
    BY <1>3 DEF Send
  <2>2. call.at = "transmit" /\ call.buffer = b
    BY DEF Idle
  <2>3. sender[c].at = "idle"
    BY <1>3 DEF Send, At
  <2> HIDE DEF call
  <2> SUFFICES ASSUME NEW x \in owed', x \notin full' PROVE Sending(x)'
    BY DEF NoMessageLost
  <2>4. CASE x = b
    BY <2>1, <2>2, <2>4 DEF CallsOK, Sending
  <2>5. CASE x # b
    <3>1. PICK d \in Senders : sender[d].buffer = x /\ sender[d].at \in {"transmit", "mark"}
      BY <2>1, <2>5 DEF NoMessageLost, Sending
    <3>2. sender'[d] = sender[d]
      BY <2>1, <2>3, <3>1 DEF CallsOK
    <3> QED
      BY <3>1, <3>2 DEF Sending
  <2> QED
    BY <2>4, <2>5
<1>4. ASSUME NEW c \in Senders, Clear(c) PROVE NoMessageLost'
  <2>1. PICK s : sender' = [sender EXCEPT ![c] = s]
    BY <1>4 DEF Clear
  <2>2. owed' = owed /\ full' = full /\ sender[c].at = "idle"
    BY <1>4 DEF Clear, At
  <2> QED
    BY <2>1, <2>2, NothingIsDropped
<1>5. ASSUME NEW c \in Senders, SenderStep(c) PROVE NoMessageLost'
  BY <1>5, SenderStepLosesNothing
<1>6. CASE UNCHANGED vars
  BY <1>6 DEF vars, driverVars, callVars, NoMessageLost, Sending
<1> QED
  BY <1>1, <1>2, <1>3, <1>4, <1>5, <1>6 DEF Next

(***************************************************************************)
(* Calls that do not overlap, and the interrupt between their steps.  The  *)
(* count is no less than what waits: it counts a message again that is     *)
(* sent while it waits, so it drifts upwards, but never beyond the number  *)
(* of messages sent.                                                       *)
(***************************************************************************)

\* No call is in one of these places
NoneAt(places) == \A c \in Senders : sender[c].at \notin places

Counted == Cardinality(full) =< count /\ count =< sends

\* The same of a count that does not have the message of the call that has
\* marked it: one too few, or below 0 when the interrupt sent that message, too
CountedBut(n) ==
    \/ n < sends /\ Cardinality(full) =< n + 1
    \/ n = CountModulus - 1 /\ full = {}

AloneInv ==
    /\ \A c, d \in Senders : sender[c] # Idle /\ sender[d] # Idle => c = d
    /\ NoneAt({"drop", "unload", "unstore"})
    /\ \A c \in Senders :
          /\ sender[c].at = "scan" => full \cap Sync = {}
          /\ sender[c].at \in {"transmit", "mark"} => count < sends
          /\ sender[c].at = "load" => CountedBut(count)
          /\ sender[c].at = "store" => CountedBut(sender[c].loaded)
    /\ NoneAt({"load", "store"}) => Counted
    /\ NoneAt({"load", "store", "enable"}) => full = {} \/ irqOn

\* As long as the count can hold the number of messages sent
AloneCounts == alone /\ sends < CountModulus => AloneInv

LEMMA SetOfBuffers ==
  ASSUME NEW B \in SUBSET Buffers
  PROVE  /\ IsFiniteSet(B) /\ Cardinality(B) \in Nat
         /\ Cardinality(B) = 0 <=> B = {}
<1>1. IsFiniteSet(Buffers)
  BY CanAssumption, FS_Interval DEF Buffers
<1>2. IsFiniteSet(B)
  BY <1>1, FS_Subset
<1> QED
  BY <1>2, FS_CardinalityType, FS_EmptySet

LEMMA SmallMod ==
  ASSUME NEW n \in Nat, n < CountModulus
  PROVE  n % CountModulus = n
BY CanAssumption

LEMMA WrapMod == (-1) % CountModulus = CountModulus - 1 /\ CountModulus % CountModulus = 0
<1>1. CountModulus \in Nat /\ CountModulus > 0
  BY CanAssumption
<1> QED
  BY <1>1

\* The types of the numbers
LEMMA Numbers ==
  ASSUME Types
  PROVE  /\ count \in Nat /\ count < CountModulus /\ sends \in Nat
         /\ CountModulus \in Nat /\ CountModulus > 1
         /\ full \in SUBSET Buffers /\ Cardinality(full) \in Nat
         /\ Cardinality(full) = 0 <=> full = {}
         /\ sender \in [Senders -> SenderState]
         /\ \A c \in Senders : sender[c].loaded \in Nat /\ sender[c].loaded < CountModulus
<1>1. /\ count \in 0 .. CountModulus - 1 /\ sends \in Nat /\ full \in SUBSET Buffers
      /\ sender \in [Senders -> SenderState]
  BY DEF Types, TypeOK
<1>2. CountModulus \in Nat /\ CountModulus > 1
  BY CanAssumption
<1>3. \A c \in Senders : sender[c].loaded \in 0 .. CountModulus - 1
  BY <1>1 DEF SenderState
<1> QED
  BY <1>1, <1>2, <1>3, SetOfBuffers

LEMMA IdleIsIdle == Idle.at = "idle"
BY DEF Idle

(***************************************************************************)
(* A step of the one call that is under way, or the start of one           *)
(***************************************************************************)
LEMMA AfterCall ==
  ASSUME Types, NEW c \in Senders, NEW s,
         \A d \in Senders : d # c => sender[d] = Idle,
         sender' = [sender EXCEPT ![c] = s],
         s.at \notin {"drop", "unload", "unstore"},
         s.at = "scan" => full' \cap Sync = {},
         s.at \in {"transmit", "mark"} => count' < sends',
         s.at = "load" => \/ count' < sends' /\ Cardinality(full') =< count' + 1
                          \/ count' = CountModulus - 1 /\ full' = {},
         s.at = "store" => \/ s.loaded < sends' /\ Cardinality(full') =< s.loaded + 1
                           \/ s.loaded = CountModulus - 1 /\ full' = {},
         s.at \notin {"load", "store"} => Cardinality(full') =< count' /\ count' =< sends',
         s.at \notin {"load", "store", "enable"} => full' = {} \/ irqOn'
  PROVE  AloneInv'
<1>1. sender'[c] = s /\ \A d \in Senders : d # c => sender'[d] = Idle
  BY Numbers
<1>2. \A d \in Senders : d # c => sender'[d].at = "idle"
  BY <1>1, IdleIsIdle
<1>3. \A d, e \in Senders : sender'[d] # Idle /\ sender'[e] # Idle => d = e
  BY <1>1
<1>4. \A d \in Senders : sender'[d].at \notin {"drop", "unload", "unstore"}
  BY <1>1, <1>2
<1>5. \A d \in Senders :
          /\ sender'[d].at = "scan" => full' \cap Sync = {}
          /\ sender'[d].at \in {"transmit", "mark"} => count' < sends'
  BY <1>1, <1>2
<1>6. \A d \in Senders : sender'[d].at = "load" => CountedBut(count)'
  BY <1>1, <1>2 DEF CountedBut
<1>7. \A d \in Senders : sender'[d].at = "store" => CountedBut(sender[d].loaded)'
  BY <1>1, <1>2 DEF CountedBut
<1>8. NoneAt({"load", "store"})' => Counted'
  BY <1>1 DEF NoneAt, Counted
<1>9. NoneAt({"load", "store", "enable"})' => full' = {} \/ irqOn'
  BY <1>1 DEF NoneAt
<1> QED
  BY <1>3, <1>4, <1>5, <1>6, <1>7, <1>8, <1>9 DEF AloneInv, NoneAt

\* What holds of the one call, and of the others
LEMMA BeforeCall ==
  ASSUME Types, AloneInv, NEW c \in Senders, sender[c].at # "idle"
  PROVE  /\ \A d \in Senders : d # c => sender[d] = Idle
         /\ sender[c].at \notin {"drop", "unload", "unstore"}
         /\ sender[c].at = "scan" => full \cap Sync = {}
         /\ sender[c].at \in {"transmit", "mark"} => count < sends
         /\ sender[c].at = "load" => CountedBut(count)
         /\ sender[c].at = "store" => CountedBut(sender[c].loaded)
         /\ sender[c].at \notin {"load", "store"} =>
               Cardinality(full) =< count /\ count =< sends
         /\ sender[c].at \notin {"load", "store", "enable"} => full = {} \/ irqOn
<1>1. \A d \in Senders : d # c => sender[d] = Idle
  BY IdleIsIdle DEF AloneInv
<1>2. \A d \in Senders : d # c => sender[d].at = "idle"
  BY <1>1, IdleIsIdle
<1>3. sender[c].at \notin {"load", "store"} => NoneAt({"load", "store"})
  BY <1>2 DEF NoneAt
<1>4. sender[c].at \notin {"load", "store", "enable"} => NoneAt({"load", "store", "enable"})
  BY <1>2 DEF NoneAt
<1> QED
  BY <1>1, <1>3, <1>4 DEF AloneInv, Counted, NoneAt

LEMMA AloneStep ==
  ASSUME Types, AloneInv, sends < CountModulus, NEW c \in Senders, SenderStep(c)
  PROVE  AloneInv'
<1>1. sender[c].at # "idle" /\ sender[c] \in SenderState
  BY Numbers DEF SenderStep, TryMailbox, MarkFull, LoadCount, StoreCount, EnableIrq, FindSync,
     DropSync, LoadForDrop, StoreForDrop, EndClear, At
<1>2. CASE TryMailbox(c)
  <2>1. sender[c].at = "transmit" /\ full' = full /\ count' = count /\ irqOn' = irqOn
        /\ sends' = sends
    BY <1>2 DEF TryMailbox, At, callVars
  <2>2. \E s : sender' = [sender EXCEPT ![c] = s] /\ s.at \in {"idle", "mark"}
    <3>1. CASE FreeMailboxes # {}
      BY <1>2, <3>1, IdleIsIdle DEF TryMailbox, Return
    <3>2. CASE ~ (FreeMailboxes # {})
      <4>1. sender' = [sender EXCEPT ![c] = [sender[c] EXCEPT !.at = "mark"]]
        BY <1>2, <3>2 DEF TryMailbox, Goto
      <4>2. [sender[c] EXCEPT !.at = "mark"].at = "mark"
        BY <1>1 DEF SenderState
      <4> QED
        BY <4>1, <4>2
    <3> QED
      BY <3>1, <3>2
  <2>3. PICK s : sender' = [sender EXCEPT ![c] = s] /\ s.at \in {"idle", "mark"}
    BY <2>2
  <2> QED
    BY <1>1, <2>1, <2>3, BeforeCall, AfterCall
<1>3. CASE MarkFull(c)
  <2>1. /\ sender[c].at = "mark" /\ full' = full \cup {sender[c].buffer} /\ count' = count
        /\ sends' = sends
    BY <1>3 DEF MarkFull, At, callVars
  <2>2. PICK s : s = [sender[c] EXCEPT !.at = "load"]
    OBVIOUS
  <2>3. sender' = [sender EXCEPT ![c] = s] /\ s.at = "load"
    BY <1>1, <1>3, <2>2 DEF MarkFull, Goto, SenderState
  <2>4. count < sends /\ Cardinality(full) =< count
    BY <1>1, <2>1, BeforeCall
  <2>5. Cardinality(full') =< Cardinality(full) + 1 /\ Cardinality(full') \in Nat
    <3>1. IsFiniteSet(full) /\ Cardinality(full) \in Nat
      BY Numbers, SetOfBuffers
    <3>2. \/ Cardinality(full') = Cardinality(full)
          \/ Cardinality(full') = Cardinality(full) + 1
      BY <2>1, <3>1, FS_AddElement
    <3> QED
      BY <3>1, <3>2
  <2>6. count' < sends' /\ Cardinality(full') =< count' + 1
    BY <2>1, <2>4, <2>5, Numbers
  <2> QED
    BY <1>1, <2>1, <2>3, <2>6, BeforeCall, AfterCall
<1>4. CASE LoadCount(c)
  <2>1. sender[c].at = "load" /\ full' = full /\ sends' = sends
    BY <1>4 DEF LoadCount, At, driverVars, callVars
  <2>2. PICK s : s = [sender[c] EXCEPT !.at = "store", !.loaded = count]
    OBVIOUS
  <2>3. sender' = [sender EXCEPT ![c] = s] /\ s.at = "store" /\ s.loaded = count
    BY <1>1, <1>4, <2>2 DEF LoadCount, SenderState
  <2>4. \/ count < sends /\ Cardinality(full) =< count + 1
        \/ count = CountModulus - 1 /\ full = {}
    BY <1>1, <2>1, BeforeCall DEF CountedBut
  <2>5. \/ s.loaded < sends' /\ Cardinality(full') =< s.loaded + 1
        \/ s.loaded = CountModulus - 1 /\ full' = {}
    BY <2>1, <2>3, <2>4
  <2> QED
    BY <1>1, <2>1, <2>3, <2>5, BeforeCall, AfterCall
<1>5. CASE StoreCount(c)
  <2>1. /\ sender[c].at = "store" /\ full' = full /\ sends' = sends
        /\ count' = (sender[c].loaded + 1) % CountModulus
    BY <1>5 DEF StoreCount, At, callVars
  <2>2. PICK s : s = [sender[c] EXCEPT !.at = "enable"]
    OBVIOUS
  <2>3. sender' = [sender EXCEPT ![c] = s] /\ s.at = "enable"
    BY <1>1, <1>5, <2>2 DEF StoreCount, Goto, SenderState
  <2>4. PICK n \in Nat : n = sender[c].loaded
    BY Numbers
  <2>5. \/ n < sends /\ Cardinality(full) =< n + 1
        \/ n = CountModulus - 1 /\ full = {}
    BY <1>1, <2>1, <2>4, BeforeCall DEF CountedBut
  <2>6. Cardinality(full') =< count' /\ count' =< sends'
    <3>1. CASE n < sends /\ Cardinality(full) =< n + 1
      <4>1. n + 1 \in Nat /\ n + 1 < CountModulus
        BY <3>1, Numbers
      <4>2. count' = n + 1
        BY <2>1, <2>4, <4>1, SmallMod
      <4> QED
        BY <2>1, <3>1, <4>2, Numbers
    <3>2. CASE n = CountModulus - 1 /\ full = {}
      <4>1. n + 1 = CountModulus
        BY <3>2, Numbers
      <4>2. count' = 0
        BY <2>1, <2>4, <4>1, WrapMod
      <4> QED
        BY <2>1, <3>2, <4>2, Numbers
    <3> QED
      BY <2>5, <3>1, <3>2
  <2> QED
    BY <1>1, <2>1, <2>3, <2>6, BeforeCall, AfterCall
<1>6. CASE EnableIrq(c)
  <2>1. /\ sender[c].at = "enable" /\ full' = full /\ sends' = sends /\ count' = count
        /\ sender' = [sender EXCEPT ![c] = Idle] /\ irqOn'
    BY <1>6 DEF EnableIrq, At, Return, driverVars, callVars
  <2> QED
    BY <1>1, <2>1, BeforeCall, AfterCall, IdleIsIdle
<1>7. CASE EndClear(c)
  <2>1. /\ sender[c].at = "scan" /\ full' = full /\ sends' = sends /\ count' = count
        /\ sender' = [sender EXCEPT ![c] = Idle] /\ irqOn' = irqOn
    BY <1>7 DEF EndClear, At, Return, callVars
  <2> QED
    BY <1>1, <2>1, BeforeCall, AfterCall, IdleIsIdle
<1>8. CASE FindSync(c)
  <2>1. sender[c].at = "scan" /\ LateSync(c) # {}
    BY <1>8 DEF FindSync, At
  <2> QED
    BY <1>1, <2>1, BeforeCall DEF LateSync
<1>9. CASE DropSync(c) \/ LoadForDrop(c) \/ StoreForDrop(c)
  <2>1. sender[c].at \in {"drop", "unload", "unstore"}
    BY <1>9 DEF DropSync, LoadForDrop, StoreForDrop, At
  <2> QED
    BY <1>1, <2>1, BeforeCall
<1> QED
  BY <1>2, <1>3, <1>4, <1>5, <1>6, <1>7, <1>8, <1>9 DEF SenderStep

LEMMA AloneBegins ==
  ASSUME Types, AloneInv, sends < CountModulus, alone', NEW c \in Senders,
         Clear(c) \/ \E b \in Buffers : Send(c, b)
  PROVE  AloneInv'
<1>1. \A d \in Senders : sender[d] = Idle
  BY DEF Clear, Send, Begun
<1>2. Cardinality(full) =< count /\ count =< sends /\ (full = {} \/ irqOn)
  BY <1>1, IdleIsIdle DEF AloneInv, NoneAt, Counted
<1>3. CASE Clear(c)
  <2>1. /\ full' = full /\ count' = count /\ sends' = sends /\ irqOn' = irqOn
        /\ full \cap Sync = {}
    BY <1>3 DEF Clear, Begun
  <2>2. PICK s : s = [Idle EXCEPT !.at = "scan", !.buffer = IF count = 0 THEN Size ELSE 0,
                                  !.deleted = inhibit]
    OBVIOUS
  <2>3. sender' = [sender EXCEPT ![c] = s] /\ s.at = "scan"
    BY <1>3, <2>2 DEF Clear, Idle
  <2> QED
    BY <1>1, <1>2, <2>1, <2>3, AfterCall
<1>4. ASSUME NEW b \in Buffers, Send(c, b) PROVE AloneInv'
  <2>1. full' = full /\ count' = count /\ sends' = sends + 1 /\ irqOn' = irqOn
    BY <1>4 DEF Send
  <2>2. PICK s : s = [Idle EXCEPT !.at = "transmit", !.buffer = b]
    OBVIOUS
  <2>3. sender' = [sender EXCEPT ![c] = s] /\ s.at = "transmit"
    BY <1>4, <2>2 DEF Send, Idle
  <2>4. Cardinality(full') =< count' /\ count' < sends' /\ count' =< sends'
    BY <1>2, <2>1, Numbers
  <2> QED
    BY <1>1, <1>2, <2>1, <2>3, <2>4, AfterCall
<1> QED
  BY <1>3, <1>4

(***************************************************************************)
(* The interrupt takes what it sends out of the buffers and off the count  *)
(***************************************************************************)
LEMMA InterruptCounts ==
  ASSUME Types, Interrupt
  PROVE  \E k \in Nat :
            /\ full' \subseteq full /\ Cardinality(full') \in Nat
            /\ k =< Cardinality(full) /\ Cardinality(full') = Cardinality(full) - k
            /\ full' = {} <=> Cardinality(full') = 0
            /\ count = 0 => k = 0
            /\ count' = (count - k) % CountModulus
            /\ sender' = sender /\ sends' = sends /\ alone' = alone
            /\ full' = {} \/ irqOn' \/ count = 0
<1>1. /\ full' = full \ Sent /\ irqOn' = (Sent # Waiting) /\ sender' = sender
      /\ count' = (count - Cardinality(Sent)) % CountModulus
      /\ sends' = sends /\ alone' = alone
  BY DEF Interrupt, Unmark, KeepIrq, Lowered, callVars
<1>2. full \in SUBSET Buffers /\ full' \in SUBSET Buffers /\ full' \subseteq full
      /\ Sent \in SUBSET full /\ Sent \in SUBSET Buffers
  BY <1>1, Numbers, SentIsWaiting
<1>3. IsFiniteSet(full) /\ IsFiniteSet(Sent) /\ Cardinality(Sent) \in Nat
      /\ Cardinality(full) \in Nat /\ Cardinality(full') \in Nat
      /\ (full' = {} <=> Cardinality(full') = 0)
  BY <1>2, SetOfBuffers
<1>4. Cardinality(full') = Cardinality(full) - Cardinality(Sent)
  <2>1. Cardinality(full \ Sent) = Cardinality(full) - Cardinality(full \cap Sent)
    BY <1>3, FS_Difference
  <2>2. full \cap Sent = Sent
    BY <1>2
  <2> QED
    BY <1>1, <2>1, <2>2
<1>5. Cardinality(Sent) =< Cardinality(full)
  BY <1>2, <1>3, FS_Subset
<1>6. count = 0 => Cardinality(Sent) = 0
  BY <1>2, SetOfBuffers DEF Sent, Waiting
<1>7. full' = {} \/ irqOn' \/ count = 0
  BY <1>1 DEF Waiting
<1> QED
  BY <1>1, <1>2, <1>3, <1>4, <1>5, <1>6, <1>7

LEMMA AloneInterrupt ==
  ASSUME Types, AloneInv, sends < CountModulus, Interrupt
  PROVE  AloneInv'
<1>1. PICK k \in Nat :
            /\ full' \subseteq full /\ Cardinality(full') \in Nat
            /\ k =< Cardinality(full) /\ Cardinality(full') = Cardinality(full) - k
            /\ full' = {} <=> Cardinality(full') = 0
            /\ count = 0 => k = 0
            /\ count' = (count - k) % CountModulus
            /\ sender' = sender /\ sends' = sends /\ alone' = alone
            /\ full' = {} \/ irqOn' \/ count = 0
  BY InterruptCounts
<1>2. k =< count => count' = count - k
  BY <1>1, Numbers, SmallMod
<1>3. Counted => Counted' /\ count' =< count
  BY <1>1, <1>2, Numbers DEF Counted
<1>4. CountedBut(count) => CountedBut(count)'
  <2>1. CASE count < sends /\ Cardinality(full) =< count + 1
    <3>1. CASE k =< count
      BY <1>1, <1>2, <2>1, <3>1, Numbers DEF CountedBut
    <3>2. CASE k > count
      <4>1. count - k = -1 /\ Cardinality(full') = 0
        BY <1>1, <2>1, <3>2, Numbers
      <4>2. count' = CountModulus - 1
        BY <1>1, <4>1, WrapMod
      <4> QED
        BY <1>1, <4>1, <4>2 DEF CountedBut
    <3> QED
      BY <3>1, <3>2, Numbers
  <2>2. CASE count = CountModulus - 1 /\ full = {}
    <3>1. k = 0 /\ full' = {}
      BY <1>1, <2>2, Numbers
    <3>2. count' = count
      BY <1>2, <3>1, Numbers
    <3> QED
      BY <2>2, <3>1, <3>2 DEF CountedBut
  <2> QED
    BY <2>1, <2>2 DEF CountedBut
<1>5. \A c \in Senders : CountedBut(sender[c].loaded) => CountedBut(sender[c].loaded)'
  <2> SUFFICES ASSUME NEW c \in Senders, CountedBut(sender[c].loaded)
               PROVE  CountedBut(sender[c].loaded)'
    OBVIOUS
  <2>1. PICK n \in Nat : n = sender[c].loaded
    BY Numbers
  <2>2. \/ n < sends /\ Cardinality(full) =< n + 1
        \/ n = CountModulus - 1 /\ full = {}
    BY <2>1 DEF CountedBut
  <2>3. \/ n < sends' /\ Cardinality(full') =< n + 1
        \/ n = CountModulus - 1 /\ full' = {}
    BY <1>1, <2>2, Numbers
  <2> QED
    BY <1>1, <2>1, <2>3 DEF CountedBut
<1>6. ASSUME NEW c \in Senders, sender[c].at \in {"transmit", "mark"} PROVE count' < sends'
  <2>1. count < sends /\ Counted
    BY <1>6, BeforeCall DEF Counted
  <2>2. count' =< count /\ sends' = sends /\ Counted'
    BY <1>1, <1>3, <2>1
  <2>3. count' \in Nat
    BY <1>1, <1>2, <2>1, Numbers DEF Counted
  <2> QED
    BY <2>1, <2>2, <2>3, Numbers
<1>7. NoneAt({"load", "store", "enable"}) => full' = {} \/ irqOn'
  <2> SUFFICES ASSUME NoneAt({"load", "store", "enable"}), count = 0 PROVE full' = {}
    BY <1>1
  <2>1. Counted
    BY DEF AloneInv, NoneAt
  <2>2. Cardinality(full) = 0
    BY <2>1, Numbers DEF Counted
  <2> QED
    BY <1>1, <2>2, Numbers
<1>8. \A P : NoneAt(P)' <=> NoneAt(P)
  BY <1>1 DEF NoneAt
<1>9. \A c \in Senders :
          /\ sender'[c].at = "scan" => full' \cap Sync = {}
          /\ sender'[c].at \in {"transmit", "mark"} => count' < sends'
          /\ sender'[c].at = "load" => CountedBut(count)'
          /\ sender'[c].at = "store" => CountedBut(sender[c].loaded)'
  BY <1>1, <1>4, <1>5, <1>6 DEF AloneInv
<1> QED
  BY <1>1, <1>3, <1>7, <1>8, <1>9 DEF AloneInv

LEMMA AloneNext ==
  ASSUME Types, AloneCounts, [Next]_vars
  PROVE  AloneCounts'
<1> SUFFICES ASSUME alone', sends' < CountModulus PROVE AloneInv'
  BY DEF AloneCounts
<1>1. ASSUME alone, sends < CountModulus PROVE AloneInv
  BY <1>1 DEF AloneCounts
<1>2. ASSUME UNCHANGED <<full, count, irqOn, sender, sends, alone>> PROVE AloneInv'
  BY <1>1, <1>2 DEF AloneInv, NoneAt, Counted, CountedBut
<1>3. CASE UNCHANGED vars \/ \E m \in Mailboxes : Complete(m)
  BY <1>2, <1>3 DEF Complete, vars, driverVars, callVars
<1>4. CASE Interrupt
  BY <1>1, <1>4, AloneInterrupt DEF Interrupt, callVars
<1>5. ASSUME NEW c \in Senders, SenderStep(c) PROVE AloneInv'
  <2>1. alone' = alone /\ sends' = sends
    BY <1>5 DEF SenderStep, TryMailbox, MarkFull, LoadCount, StoreCount, EnableIrq, FindSync,
       DropSync, LoadForDrop, StoreForDrop, EndClear, callVars
  <2> QED
    BY <1>1, <1>5, <2>1, AloneStep
<1>6. ASSUME NEW c \in Senders, Clear(c) \/ \E b \in Buffers : Send(c, b) PROVE AloneInv'
  <2>1. alone /\ sends' \in {sends, sends + 1}
    BY <1>6 DEF Clear, Send, Begun
  <2>2. sends < CountModulus
    BY <2>1, Numbers
  <2> QED
    BY <1>1, <1>6, <2>1, <2>2, AloneBegins
<1> QED
  BY <1>3, <1>4, <1>5, <1>6 DEF Next

LEMMA AloneInit == Init => AloneCounts
<1> SUFFICES ASSUME Init PROVE AloneInv
  BY DEF AloneCounts
<1>1. /\ full = {} /\ count = 0 /\ sends = 0
      /\ \A c \in Senders : sender[c] = Idle /\ sender[c].at = "idle"
  BY IdleIsIdle DEF Init
<1>2. Cardinality(full) = 0
  BY <1>1, FS_EmptySet
<1> QED
  BY <1>1, <1>2 DEF AloneInv, NoneAt, Counted

LEMMA AloneServes ==
  ASSUME Types, BusyInv, AloneCounts, sends < CountModulus
  PROVE  ServedIfAlone
<1> SUFFICES ASSUME AloneInv, full # {}, \A c \in Senders : sender[c] = Idle
             PROVE  irqOn /\ count # 0 /\ \E m \in Mailboxes : mail[m] # Empty
  BY DEF ServedIfAlone, WaitingIsServed, AloneCounts
<1>1. Counted /\ irqOn
  BY IdleIsIdle DEF AloneInv, NoneAt
<1>2. count # 0
  BY <1>1, Numbers DEF Counted
<1> QED
  BY <1>1, <1>2 DEF BusyInv

\* Every variable of the driver keeps its type, whatever interrupts what: what is
\* written into a mailbox is a message, as many mailboxes are written as there are
\* messages and room, and the count keeps its width.
THEOREM TypeCorrect == Spec => []TypeOK
<1>1. Types /\ BusyInv /\ [Next]_vars => (Types /\ BusyInv)'
  BY NextTypes
<1>2. Types => TypeOK
  BY DEF Types
<1> QED
  BY <1>1, <1>2, InitTypes, PTL DEF Spec

\* No message is lost: a value handed to CO_CANsend that has neither reached
\* a mailbox nor been deleted as a late PDO is marked in its buffer, or the
\* call that sends it is about to put it into a mailbox or to mark it.  This
\* is what CO_driver.c:206-219, 238-248 and 366-391 keep true together,
\* without a lock, whatever interrupts what.
THEOREM MessagesAreKept == Spec => []NoMessageLost
<1>1. Init => NoMessageLost
  BY DEF Init, NoMessageLost
<1> QED
  BY <1>1, CallsOKInit, CallsOKStep, NoMessageLostStep, PTL DEF Spec

\* Until more messages were sent than CANtxCount can hold, and as long as no
\* two calls overlapped and none deleted messages, what waits in a buffer is
\* served: the interrupt is enabled, its loop does not return at once for a
\* count of 0, and a mailbox is busy or done, wherever the interrupt came
\* between the steps of CO_driver.c:206-219.
THEOREM AloneIsServed == Spec => [](sends < CountModulus => ServedIfAlone)
<1>1. Types /\ BusyInv /\ [Next]_vars => (Types /\ BusyInv)'
  BY NextTypes
<1>2. Types /\ AloneCounts /\ [Next]_vars => AloneCounts'
  BY AloneNext
<1>3. Types /\ BusyInv /\ AloneCounts => (sends < CountModulus => ServedIfAlone)
  BY AloneServes
<1> QED
  BY <1>1, <1>2, <1>3, InitTypes, AloneInit, PTL DEF Spec
=============================================================================
