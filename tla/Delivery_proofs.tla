-------------------------- MODULE Delivery_proofs ---------------------------
(***************************************************************************)
(* Safety of Delivery for any number of rows, any channels, configs and    *)
(* retries.  What is inductive relates the list the loop works through to  *)
(* the table, what the user has seen to the outcome that is on its way to  *)
(* the table, and the timer to the rows that wait.                         *)
(***************************************************************************)
EXTENDS Delivery, TLAPS

\* Rows are used in the order of their ids; an unused one has no past.
Fresh ==
  /\ \A id \in Ids : id > lastId => rows[id].status = "free" /\ shown[id] = 0
  /\ banner <= lastId

\* The copy of n is of a pending row that was not attempted since, and is due but
\* for what the clock was set back.
Current(n) ==
  /\ rows[n.id].status = "pending"
  /\ rows[n.id].attempts = n.attempts
  /\ rows[n.id].wait <= setBack

\* The row being recorded, if its notification was shown.
JustShown(id) ==
  /\ pc = "record" /\ outcome = "ok"
  /\ \E n \in due : IsFirst(n) /\ n.id = id

\* What was shown of a pending row is excused, or about to be recorded.
Seen ==
  /\ pc = "record" => outcome # "none"
  /\ pc = "record" /\ outcome = "ok" => \A n \in due : IsFirst(n) => shown[n.id] >= 1
  /\ \A id \in Pending : shown[id] >= 1 => id \in excused \/ JustShown(id)

\* A row may be attempted out of order: an outcome was lost, or the clock set back.
MayBeLate(id) == id \in excused \cup heldBack

\* Rows not attempted yet that are older than one in the list are in the list too,
\* and none is older than the notification on display; they are all due.
InOrder ==
  /\ \A n \in due, id \in Pending :
       id < n.id /\ rows[id].attempts = 0 => MayBeLate(id) \/ \E m \in due : m.id = id
  /\ \A id \in Pending : id < banner => rows[id].attempts > 0 \/ MayBeLate(id)
  /\ \A id \in Pending : rows[id].attempts = 0 => rows[id].wait = 0 \/ MayBeLate(id)

\* The timer, from the moment it is set.
Armed ==
  pc \in {"armed", "wait"} /\ ~blind =>
    /\ kick \/ owed \/ \A id \in Pending : TimerIsFor(id)
    /\ Pending = {} => timer = None

IInv ==
  /\ TypeOK /\ DueIsCurrent /\ GivenUpAfterEveryRetry /\ ShownOnceUnlessExcused
  /\ Fresh /\ Seen /\ InOrder /\ Armed

-----------------------------------------------------------------------------
(* Operators *)

LEMMA DownType == ASSUME NEW n \in Nat PROVE Down(n) \in Nat /\ Down(n) <= n
BY DEF Down

LEMMA DelayType == ASSUME NEW row \in Row, row.attempts <= Len(retryBackoff) PROVE Delay(row) \in Nat
BY BackoffAssumption DEF Delay, Row

\* A row after an attempt: sent, given up after the last retry, or to be tried
\* again after the delay of the retry that comes next.
LEMMA AttemptedIs ==
  ASSUME NEW row \in Row, row.status = "pending", NEW a \in 1 .. Len(retryBackoff) + 1,
         NEW result \in {"ok", "error"}
  PROVE  LET next == Attempted(row, a, result)
         IN  /\ next \in Row /\ next.attempts = a
             /\ result = "ok" => next.status = "sent"
             /\ result # "ok" /\ a = Len(retryBackoff) + 1 => next.status = "failed"
             /\ result # "ok" /\ a <= Len(retryBackoff)
                  => next.status = "pending" /\ next.wait = retryBackoff[a]
<1> Len(retryBackoff) \in Nat /\ \A i \in 1 .. Len(retryBackoff) : retryBackoff[i] \in Nat
  BY BackoffAssumption
<1> a \in 0 .. Len(retryBackoff) + 1
  OBVIOUS
<1>1. CASE result = "ok"
  <2>1. Attempted(row, a, result) =
         [status |-> "sent", channel |-> row.channel, attempts |-> a, wait |-> 0]
    BY <1>1 DEF Attempted, Row
  <2> QED
    BY <1>1, <2>1 DEF Row, Statuses
<1>2. CASE result # "ok" /\ a = Len(retryBackoff) + 1
  <2>0. a > Len(retryBackoff)
    BY <1>2
  <2>1. Attempted(row, a, result) =
         [status |-> "failed", channel |-> row.channel, attempts |-> a, wait |-> 0]
    BY <1>2, <2>0 DEF Attempted, Row
  <2> QED
    BY <1>2, <2>1 DEF Row, Statuses
<1>3. CASE result # "ok" /\ a <= Len(retryBackoff)
  <2>1. ~(a > Len(retryBackoff))
    BY <1>3
  <2>2. Attempted(row, a, result) =
         [status |-> "pending", channel |-> row.channel, attempts |-> a, wait |-> retryBackoff[a]]
    BY <1>3, <2>1 DEF Attempted, Row
  <2> QED
    BY <1>3, <2>2 DEF Row, Statuses
<1> QED
  BY <1>1, <1>2, <1>3

\* What is read is what DueIsCurrent says, and complete.
LEMMA DueIs ==
  ASSUME NEW n \in DueNotifications
  PROVE  n.id \in Pending /\ n.attempts = rows[n.id].attempts /\ rows[n.id].wait = 0
         /\ n = [id |-> n.id, attempts |-> n.attempts]
BY DEF DueNotifications, Pending

LEMMA FirstIsOne ==
  ASSUME TypeOK, DueIsCurrent, NEW n \in due, NEW m \in due, m.id = n.id
  PROVE  m = n
<1>1. m \in Entries /\ n \in Entries
  BY DEF TypeOK
<1>2. m.attempts = n.attempts
  BY DEF DueIsCurrent
<1> QED
  BY <1>1, <1>2 DEF Entries

-----------------------------------------------------------------------------
(* Types *)

LEMMA TypeInit == Init => TypeOK
<1> SUFFICES ASSUME Init PROVE TypeOK
  OBVIOUS
<1>1. FreeRow \in Row
  BY ChannelsAssumption, BackoffAssumption DEF FreeRow, Row, Statuses
<1>2. rows \in [Ids -> Row] /\ shown \in [Ids -> 0 .. 2]
  BY <1>1 DEF Init
<1>3. lastId \in 0 .. MaxRows /\ sendLeft \in Nat /\ excused \subseteq Ids /\ due \subseteq Entries
  BY RowsAssumption DEF Init
<1>4. setBack \in 0 .. MaxSetBack /\ heldBack \subseteq Ids
  BY SetBackAssumption DEF Init
<1> QED
  BY <1>2, <1>3, <1>4 DEF Init, TypeOK

LEMMA QueueType == TypeOK /\ Queue => TypeOK'
<1> SUFFICES ASSUME TypeOK, Queue PROVE TypeOK'
  OBVIOUS
<1>1. enabled \in Seq(Channels) /\ lastId \in Nat /\ MaxRows \in Nat /\ Len(retryBackoff) \in Nat
  BY ConfigAssumption, RowsAssumption, BackoffAssumption DEF TypeOK
<1>2. rows' \in [Ids -> Row]
  <2> SUFFICES ASSUME NEW id \in Ids PROVE rows'[id] \in Row
    BY DEF Queue
  <2>1. CASE id > lastId /\ id <= lastId + Len(enabled)
    <3>1. id - lastId \in 1 .. Len(enabled)
      BY <1>1, <2>1 DEF Ids
    <3>2. enabled[id - lastId] \in Channels
      BY <1>1, <3>1
    <3> QED
      BY <1>1, <2>1, <3>2 DEF Queue, Row, Statuses
  <2>2. CASE ~(id > lastId /\ id <= lastId + Len(enabled))
    BY <2>2 DEF Queue, TypeOK
  <2> QED
    BY <2>1, <2>2
<1>3. lastId' \in 0 .. MaxRows
  BY <1>1 DEF Queue
<1> QED
  BY <1>2, <1>3 DEF Queue, TypeOK, loopVars, clockVars, userVars

\* Only pending rows are read: the loop's entries have a retry left.
LEMMA FetchType == TypeOK /\ GivenUpAfterEveryRetry /\ Fetch => TypeOK'
<1> SUFFICES ASSUME TypeOK, GivenUpAfterEveryRetry, Fetch PROVE TypeOK'
  OBVIOUS
<1>1. ASSUME NEW n \in DueNotifications PROVE n \in Entries
  <2>1. n.id \in Ids /\ rows[n.id].status = "pending"
    BY <1>1, DueIs DEF Pending
  <2>2. n.attempts \in 0 .. Len(retryBackoff)
    BY <1>1, <2>1, DueIs, BackoffAssumption DEF GivenUpAfterEveryRetry, TypeOK, Row
  <2> QED
    BY <1>1, <2>1, <2>2, DueIs DEF Entries
<1> QED
  BY <1>1 DEF Fetch, TypeOK, queueVars, clockVars, userVars

LEMMA ShowType ==
  ASSUME TypeOK, NEW n \in due, Show(n)
  PROVE  shown' \in [Ids -> 0 .. 2] /\ banner' \in {0} \cup Ids
BY DEF TypeOK, Entries, Show

LEMMA RecordType ==
  ASSUME TypeOK, DueIsCurrent, pc = "record" => outcome # "none", NEW n \in due, Record(n)
  PROVE  TypeOK'
<1>1. n.id \in Ids /\ n.attempts + 1 \in 1 .. Len(retryBackoff) + 1 /\ outcome \in {"ok", "error"}
  BY BackoffAssumption DEF TypeOK, Entries, Record, TakeNext
<1>2. rows[n.id] \in Row /\ rows[n.id].status = "pending"
  BY <1>1 DEF TypeOK, DueIsCurrent
<1>3. Attempted(rows[n.id], n.attempts + 1, outcome) \in Row
  BY <1>1, <1>2, AttemptedIs
<1>4. rows' \in [Ids -> Row]
  BY <1>1, <1>2, <1>3 DEF TypeOK, Record
<1>5. excused' \subseteq Ids /\ heldBack' \subseteq Ids
  BY DEF TypeOK, Record, TakeNext
<1> QED
  BY <1>4, <1>5 DEF TypeOK, Record, TakeNext

\* The timer is set to what is left until the first pending row is due.
LEMMA ArmSets ==
  ASSUME TypeOK, GivenUpAfterEveryRetry, Arm
  PROVE  /\ timer' \in Nat \cup {None}
         /\ \A id \in Pending : /\ timer' # None /\ timer' <= rows[id].wait
                               /\ timer' <= Delay(rows[id]) + setBack
         /\ Pending = {} => timer' = None
         /\ lagging' = FALSE /\ UNCHANGED <<setBack, heldBack>>
<1>1. CASE Pending = {}
  BY <1>1 DEF Arm, TimerIs
<1>2. ASSUME NEW first \in Pending, \A id \in Pending : rows[first].wait <= rows[id].wait,
             TimerIs(rows[first].wait)
      PROVE  /\ timer' \in Nat
             /\ \A id \in Pending : timer' <= rows[id].wait /\ timer' <= Delay(rows[id]) + setBack
  <2>1. timer' \in Nat /\ \A id \in Pending : timer' <= rows[id].wait
    BY <1>2 DEF TimerIs, Pending, TypeOK, Row
  <2>2. ASSUME NEW id \in Pending PROVE timer' <= Delay(rows[id]) + setBack
    <3>1. rows[id] \in Row /\ rows[id].attempts <= Len(retryBackoff)
          /\ rows[id].wait <= Delay(rows[id]) + setBack /\ setBack \in Nat
      BY <2>2 DEF Pending, TypeOK, GivenUpAfterEveryRetry
    <3>2. Delay(rows[id]) \in Nat /\ rows[id].wait \in Nat
      BY <3>1, DelayType DEF Row
    <3> QED
      BY <2>1, <2>2, <3>1, <3>2
  <2> QED
    BY <2>1, <2>2
<1>3. \/ Pending = {}
      \/ /\ timer' \in Nat /\ Pending # {}
         /\ \A id \in Pending : timer' <= rows[id].wait /\ timer' <= Delay(rows[id]) + setBack
  BY <1>2 DEF Arm
<1>4. None \notin Nat
  BY DEF None
<1>5. lagging' = FALSE /\ UNCHANGED <<setBack, heldBack>>
  BY DEF Arm, TimerIs
<1> QED
  BY <1>1, <1>3, <1>4, <1>5

LEMMA LoopType ==
  TypeOK /\ DueIsCurrent /\ GivenUpAfterEveryRetry /\ Seen /\ Loop => TypeOK'
<1> SUFFICES ASSUME TypeOK, DueIsCurrent, GivenUpAfterEveryRetry, Seen, Loop PROVE TypeOK'
  OBVIOUS
<1>1. CASE Fetch
  BY <1>1, FetchType
<1>2. CASE Arm
  BY <1>2, ArmSets DEF Arm, TypeOK, queueVars, userVars
<1>3. CASE FetchFails \/ DeliverDone \/ ArmFails \/ Wait \/ Wake \/ Stop
  BY <1>3, TimeoutAssumption
     DEF FetchFails, DeliverDone, ArmFails, Wait, Wake, Stop, TimerIs, TypeOK,
         queueVars, clockVars, userVars
<1>4. ASSUME NEW n \in due, Deliver(n) PROVE TypeOK'
  BY <1>4, TimeoutAssumption DEF Deliver, TypeOK, queueVars, clockVars, userVars
<1>5. ASSUME NEW n \in due, NEW result \in {"ok", "error"}, Return(n, result),
             UNCHANGED userVars \/ (Show(n) /\ excused' \in {excused, excused \cup {n.id}})
      PROVE  TypeOK'
  <2>1. shown' \in [Ids -> 0 .. 2] /\ banner' \in {0} \cup Ids /\ excused' \subseteq Ids
    BY <1>5, ShowType DEF userVars, TypeOK, Entries
  <2> QED
    BY <1>5, <2>1 DEF Return, TypeOK, queueVars, clockVars
<1>6. ASSUME NEW n \in due, SendSucceeds(n) \/ SendFails(n) \/ SendTimesOut(n) PROVE TypeOK'
  BY <1>5, <1>6 DEF SendSucceeds, SendFails, SendTimesOut
<1>7. ASSUME NEW n \in due, Record(n) PROVE TypeOK'
  BY <1>7, RecordType DEF Seen
<1>8. ASSUME NEW n \in due, RecordFails(n) PROVE TypeOK'
  BY <1>8 DEF RecordFails, TakeNext, TypeOK, Entries
<1> QED
  BY <1>1, <1>2, <1>3, <1>4, <1>6, <1>7, <1>8 DEF Loop

\* What the clocks do to a row.
LEMMA MovedRow ==
  ASSUME TypeOK, WallClock, NEW id \in Ids
  PROVE  /\ rows'[id] = [rows[id] EXCEPT !.wait = rows'[id].wait]
         /\ rows'[id].wait \in Nat /\ setBack' \in 0 .. MaxSetBack /\ heldBack' \subseteq Ids
         /\ rows'[id].wait + setBack <= rows[id].wait + setBack'
         /\ SetClockBack => rows[id].wait <= rows'[id].wait
         /\ ~SetClockBack => rows'[id].wait = Down(rows[id].wait)
<1>0. rows[id] \in Row /\ rows[id].wait \in Nat /\ setBack \in Nat
  BY DEF TypeOK, Row
<1>1. CASE Tick \/ WallClockRunsAhead
  <2>1. rows'[id] = [rows[id] EXCEPT !.wait = Down(rows[id].wait)]
    BY <1>1 DEF Tick, WallClockRunsAhead, WallClockGoesOn
  <2>2. UNCHANGED <<setBack, heldBack>>
    BY <1>1 DEF Tick, WallClockRunsAhead, clockVars
  <2>3. rows'[id].wait = Down(rows[id].wait)
    BY <1>0, <2>1 DEF Row
  <2>4. ~SetClockBack
    BY <1>0, <2>2 DEF SetClockBack
  <2> QED
    BY <1>0, <2>1, <2>2, <2>3, <2>4, DownType DEF TypeOK
<1>2. CASE SetClockBack
  <2>1. PICK stillPast \in SUBSET {i \in Pending : rows[i].wait = 0} :
          rows' = [i \in Ids |-> IF i \in Pending \ stillPast
                                 THEN [rows[i] EXCEPT !.wait = @ + 1] ELSE rows[i]]
    BY <1>2 DEF SetClockBack
  <2>2. setBack' = setBack + 1 /\ setBack' \in 0 .. MaxSetBack
    BY <1>0, <1>2, SetBackAssumption DEF SetClockBack, TypeOK
  <2>3. heldBack' \subseteq Ids
    BY <1>2 DEF SetClockBack, TypeOK, Pending
  <2>4. CASE id \in Pending \ stillPast
    <3>1. rows'[id] = [rows[id] EXCEPT !.wait = @ + 1]
      BY <2>1, <2>4
    <3>2. rows'[id].wait = rows[id].wait + 1
      BY <1>0, <3>1 DEF Row
    <3>3. rows'[id] = [rows[id] EXCEPT !.wait = rows'[id].wait]
      BY <1>0, <3>1, <3>2 DEF Row
    <3> QED
      BY <1>0, <1>2, <2>2, <2>3, <3>2, <3>3
  <2>5. CASE id \notin Pending \ stillPast
    <3>1. rows'[id] = rows[id]
      BY <2>1, <2>5
    <3>2. rows'[id] = [rows[id] EXCEPT !.wait = rows'[id].wait]
      BY <1>0, <3>1 DEF Row
    <3> QED
      BY <1>0, <1>2, <2>2, <2>3, <3>1, <3>2
  <2> QED
    BY <2>4, <2>5
<1> QED
  BY <1>1, <1>2 DEF WallClock

LEMMA MovedWait ==
  ASSUME TypeOK, WallClock, NEW id \in Ids
  PROVE  /\ rows'[id].wait \in Nat /\ setBack' \in Nat
         /\ rows'[id].wait + setBack <= rows[id].wait + setBack'
         /\ SetClockBack => rows[id].wait <= rows'[id].wait
         /\ ~SetClockBack => rows'[id].wait = Down(rows[id].wait)
<1> DEFINE n == rows[id].wait  m == rows'[id].wait
<1>1. m \in Nat /\ setBack' \in 0 .. MaxSetBack /\ m + setBack <= n + setBack'
      /\ (SetClockBack => n <= m) /\ (~SetClockBack => m = Down(n))
  BY MovedRow, Zenon
<1> HIDE DEF n, m
<1>2. m \in Nat /\ setBack' \in Nat /\ m + setBack <= n + setBack'
      /\ (SetClockBack => n <= m) /\ (~SetClockBack => m = Down(n))
  BY <1>1, SetBackAssumption
<1> QED
  BY <1>2 DEF n, m

LEMMA MovedFields ==
  ASSUME TypeOK, WallClock, NEW id \in Ids
  PROVE  /\ rows'[id] \in Row
         /\ rows'[id].status = rows[id].status /\ rows'[id].attempts = rows[id].attempts
<1>1. rows[id] \in Row
  BY DEF TypeOK
<1> QED
  BY <1>1, MovedRow DEF Row

LEMMA WallClockType == TypeOK /\ WallClock => TypeOK'
<1> SUFFICES ASSUME TypeOK, WallClock PROVE TypeOK'
  OBVIOUS
<1>1. rows' \in [Ids -> Row]
  <2>1. DOMAIN rows' = Ids /\ rows' = [id \in Ids |-> rows'[id]]
    BY DEF WallClock, Tick, WallClockRunsAhead, WallClockGoesOn, SetClockBack
  <2> QED
    BY <2>1, MovedFields
<1>2. setBack' \in 0 .. MaxSetBack /\ heldBack' \subseteq Ids
  <2>1. CASE Tick \/ WallClockRunsAhead
    BY <2>1 DEF Tick, WallClockRunsAhead, clockVars, TypeOK
  <2>2. CASE SetClockBack
    BY <2>2, SetBackAssumption DEF SetClockBack, TypeOK, Pending
  <2> QED
    BY <2>1, <2>2 DEF WallClock
<1>3. timer' \in Nat \cup {None} /\ sendLeft' \in Nat
  BY DownType DEF WallClock, Tick, WallClockRunsAhead, SetClockBack, loopVars, TypeOK, Down, None
<1>4. lagging' \in BOOLEAN
  BY DEF WallClock, Tick, WallClockRunsAhead, SetClockBack, clockVars, TypeOK
<1> QED
  BY <1>1, <1>2, <1>3, <1>4
     DEF WallClock, Tick, WallClockRunsAhead, SetClockBack, loopVars, userVars, TypeOK

LEMMA TypeStep ==
  TypeOK /\ DueIsCurrent /\ GivenUpAfterEveryRetry /\ Seen /\ [Next]_vars => TypeOK'
<1> SUFFICES ASSUME TypeOK, DueIsCurrent, GivenUpAfterEveryRetry, Seen, [Next]_vars PROVE TypeOK'
  OBVIOUS
<1>1. CASE Kick \/ Cancel \/ UNCHANGED vars
  BY <1>1 DEF Kick, Cancel, TypeOK, vars, queueVars, loopVars, clockVars, userVars
<1>2. CASE Prune
  <2>1. PrunedRow \in Row
    <3>1. FreeRow \in Row
      BY ChannelsAssumption, BackoffAssumption DEF FreeRow, Row, Statuses
    <3>2. PrunedRow = [FreeRow EXCEPT !.status = "pruned"] /\ "pruned" \in Statuses
      BY DEF PrunedRow, Statuses
    <3> QED
      BY <3>1, <3>2 DEF Row
  <2>2. rows' \in [Ids -> Row]
    BY <1>2, <2>1 DEF Prune, TypeOK
  <2> QED
    BY <1>2, <2>2 DEF Prune, TypeOK, loopVars, clockVars, userVars
<1>3. CASE Restart
  <2>1. shown' \in [Ids -> 0 .. 2] /\ banner' \in {0} \cup Ids
    BY <1>3, ShowType DEF Restart, TypeOK
  <2>2. excused' \subseteq Ids
    BY <1>3 DEF Restart, TypeOK, Entries
  <2> QED
    BY <1>3, <2>1, <2>2 DEF Restart, TimerIs, TypeOK, queueVars
<1> QED
  BY <1>1, <1>2, <1>3, QueueType, LoopType, WallClockType DEF Next

-----------------------------------------------------------------------------
(* What a step may do to the table, to the list and to what the user sees *)

LEMMA RowsChange ==
  [Next]_vars => Queue \/ Prune \/ WallClock \/ (\E n \in due : Record(n)) \/ UNCHANGED rows
BY DEF Next, Loop, Fetch, FetchFails, DeliverDone, Deliver, SendSucceeds, SendFails, SendTimesOut,
   Return, RecordFails, Arm, ArmFails, Wait, Wake, Stop, Kick, Cancel, Restart, vars, queueVars

LEMMA IdsChange == [Next]_vars => Queue \/ UNCHANGED lastId
BY DEF Next, Loop, Fetch, FetchFails, DeliverDone, Deliver, SendSucceeds, SendFails, SendTimesOut,
   Return, Record, RecordFails, TakeNext, Arm, ArmFails, Wait, Wake, Stop, Kick, Prune, Cancel,
   Restart, WallClock, Tick, WallClockRunsAhead, SetClockBack, vars, queueVars

LEMMA DueChange ==
  [Next]_vars => \/ Fetch \/ UNCHANGED due \/ due' = {}
                 \/ \E n \in due : TakeNext(n) /\ (Record(n) \/ RecordFails(n))
BY DEF Next, Loop, FetchFails, DeliverDone, Deliver, SendSucceeds, SendFails, SendTimesOut,
   Return, Record, RecordFails, Arm, ArmFails, Wait, Wake, Stop, Queue, Kick, Prune, Cancel,
   Restart, WallClock, Tick, WallClockRunsAhead, SetClockBack, vars, loopVars

LEMMA SetBackChange == [Next]_vars => WallClock \/ UNCHANGED setBack
BY DEF Next, Loop, Fetch, FetchFails, DeliverDone, Deliver, SendSucceeds, SendFails, SendTimesOut,
   Return, Record, RecordFails, TakeNext, Arm, ArmFails, Wait, Wake, Stop, Queue, Kick, Prune,
   Cancel, Restart, TimerIs, vars, clockVars

\* Something is shown by a send that succeeds or of a row that is then excused.
LEMMA ShownChange ==
  [Next]_vars =>
    \/ UNCHANGED <<shown, banner>>
    \/ \E n \in due : /\ IsFirst(n) /\ Show(n) /\ UNCHANGED queueVars
                      /\ pc = "sending"
                      /\ SendSucceeds(n) \/ n.id \in excused'
BY DEF Next, Loop, Fetch, FetchFails, DeliverDone, Deliver, SendSucceeds, SendFails, SendTimesOut,
   Return, Record, RecordFails, TakeNext, Arm, ArmFails, Wait, Wake, Stop, Queue, Kick, Prune, Cancel,
   Restart, WallClock, Tick, WallClockRunsAhead, SetClockBack, vars, loopVars, userVars

\* An excuse is not taken back while the row is pending.
LEMMA ExcusesStay ==
  ASSUME [Next]_vars, NEW id, rows'[id].status = "pending", id \in excused
  PROVE  id \in excused'
<1>1. ASSUME NEW n \in due, Record(n) PROVE id \in excused'
  BY <1>1 DEF Record
<1>2. (\E n \in due : Record(n)) \/ excused \subseteq excused'
  BY DEF Next, Loop, Fetch, FetchFails, DeliverDone, Deliver, SendSucceeds, SendFails, SendTimesOut,
     Return, RecordFails, TakeNext, Arm, ArmFails, Wait, Wake, Stop, Queue, Kick, Prune, Cancel,
     Restart, WallClock, Tick, WallClockRunsAhead, SetClockBack, vars, userVars
<1> QED
  BY <1>1, <1>2

\* A row that was held back is so until it has been attempted.
LEMMA HeldBackChange ==
  [Next]_vars => \/ heldBack \subseteq heldBack'
                 \/ \E n \in due : /\ TakeNext(n) /\ (Record(n) \/ RecordFails(n))
                                   /\ heldBack \subseteq heldBack' \cup {n.id}
BY DEF Next, Loop, Fetch, FetchFails, DeliverDone, Deliver, SendSucceeds, SendFails, SendTimesOut,
   Return, Record, RecordFails, TakeNext, Arm, ArmFails, Wait, Wake, Stop, Queue, Kick, Prune, Cancel,
   Restart, WallClock, Tick, WallClockRunsAhead, SetClockBack, TimerIs, vars, clockVars

\* What the steps that change the table make of a row.
LEMMA QueuedRow ==
  ASSUME TypeOK, Queue, NEW id \in Ids
  PROVE  \/ /\ id > lastId /\ id <= lastId'
            /\ rows'[id].status = "pending" /\ rows'[id].attempts = 0 /\ rows'[id].wait = 0
         \/ rows'[id] = rows[id] /\ (id > lastId => id > lastId')
<1>1. CASE id > lastId /\ id <= lastId + Len(enabled)
  <2>1. rows'[id] = [status |-> "pending", channel |-> enabled[id - lastId],
                     attempts |-> 0, wait |-> 0]
    BY <1>1 DEF Queue
  <2> QED
    BY <1>1, <2>1 DEF Queue
<1>2. CASE ~(id > lastId /\ id <= lastId + Len(enabled))
  <2>1. lastId + Len(enabled) \in Nat
    BY ConfigAssumption, RowsAssumption DEF TypeOK
  <2> QED
    BY <1>2, <2>1, RowsAssumption DEF Queue, TypeOK, Ids
<1> QED
  BY <1>1, <1>2

LEMMA RowPruned ==
  ASSUME TypeOK, Prune, NEW id \in Ids
  PROVE  \/ rows'[id] = rows[id]
         \/ rows[id].status \in {"sent", "failed"} /\ rows'[id].status = "pruned"
BY DEF Prune, TypeOK, Finished, PrunedRow, FreeRow

\* The row that is recorded has an attempt more and may still be pending.
LEMMA RecordedRow ==
  ASSUME TypeOK, DueIsCurrent, Seen, NEW n \in due, Record(n), NEW id \in Ids
  PROVE  \/ id # n.id /\ rows'[id] = rows[id]
         \/ /\ id = n.id /\ rows'[id].attempts = n.attempts + 1
            /\ \/ outcome = "ok" /\ rows'[id].status = "sent"
               \/ /\ outcome # "ok" /\ n.attempts = Len(retryBackoff)
                  /\ rows'[id].status = "failed"
               \/ /\ outcome # "ok" /\ n.attempts < Len(retryBackoff)
                  /\ rows'[id].status = "pending"
                  /\ rows'[id].wait = retryBackoff[n.attempts + 1]
<1>1. n.id \in Ids /\ n.attempts \in 0 .. Len(retryBackoff) /\ Len(retryBackoff) \in Nat
      /\ n.attempts + 1 \in 1 .. Len(retryBackoff) + 1 /\ outcome \in {"ok", "error"}
  BY BackoffAssumption DEF TypeOK, Entries, Record, TakeNext, Seen
<1>2. rows[n.id] \in Row /\ rows[n.id].status = "pending"
  BY <1>1 DEF TypeOK, DueIsCurrent
<1>3. CASE id # n.id
  BY <1>3 DEF Record, TypeOK
<1>4. CASE id = n.id
  <2>1. rows'[id] = Attempted(rows[n.id], n.attempts + 1, outcome)
    BY <1>1, <1>2, <1>4 DEF Record, TypeOK
  <2> QED
    BY <1>1, <1>2, <1>4, <2>1, AttemptedIs
<1> QED
  BY <1>3, <1>4

-----------------------------------------------------------------------------
(* Retries and the list *)

LEMMA GivenUpStep ==
  TypeOK /\ DueIsCurrent /\ Seen /\ GivenUpAfterEveryRetry /\ [Next]_vars => GivenUpAfterEveryRetry'
<1> SUFFICES ASSUME TypeOK, DueIsCurrent, Seen, GivenUpAfterEveryRetry, [Next]_vars, NEW id \in Ids
             PROVE  /\ rows'[id].status = "failed" => rows'[id].attempts = Len(retryBackoff) + 1
                    /\ rows'[id].status = "pending" =>
                         /\ rows'[id].attempts <= Len(retryBackoff)
                         /\ rows'[id].wait <= Delay(rows'[id]) + setBack'
  BY DEF GivenUpAfterEveryRetry
<1>0. /\ Len(retryBackoff) \in Nat /\ rows[id] \in Row /\ rows[id].wait \in Nat /\ setBack \in Nat
      /\ \A i \in 1 .. Len(retryBackoff) : retryBackoff[i] \in Nat
  BY BackoffAssumption DEF TypeOK, Row
<1>1. CASE rows'[id] = rows[id] /\ UNCHANGED setBack
  BY <1>1 DEF GivenUpAfterEveryRetry
<1>2. CASE WallClock
  <2>1. /\ rows'[id].status = rows[id].status /\ rows'[id].attempts = rows[id].attempts
        /\ rows'[id].wait \in Nat /\ setBack' \in Nat
        /\ rows'[id].wait + setBack <= rows[id].wait + setBack'
    BY <1>2, MovedWait, MovedFields
  <2>2. ASSUME rows[id].status = "pending" PROVE rows'[id].wait <= Delay(rows'[id]) + setBack'
    <3>1. rows[id].wait <= Delay(rows[id]) + setBack /\ rows[id].attempts <= Len(retryBackoff)
      BY <2>2 DEF GivenUpAfterEveryRetry
    <3>2. Delay(rows[id]) \in Nat /\ Delay(rows'[id]) = Delay(rows[id])
      BY <1>0, <2>1, <3>1, DelayType DEF Delay
    <3> QED
      BY <1>0, <2>1, <3>1, <3>2
  <2> QED
    BY <2>1, <2>2 DEF GivenUpAfterEveryRetry
<1>3. CASE ~WallClock /\ Queue
  <2>1. \/ rows'[id].status = "pending" /\ rows'[id].attempts = 0 /\ rows'[id].wait = 0
        \/ rows'[id] = rows[id]
    BY <1>3, QueuedRow
  <2> QED
    BY <1>0, <1>1, <1>3, <2>1, SetBackChange DEF Delay
<1>4. CASE ~WallClock /\ Prune
  BY <1>1, <1>4, RowPruned, SetBackChange
<1>5. ASSUME ~WallClock, NEW n \in due, Record(n)
      PROVE  /\ rows'[id].status = "failed" => rows'[id].attempts = Len(retryBackoff) + 1
             /\ rows'[id].status = "pending" =>
                  /\ rows'[id].attempts <= Len(retryBackoff)
                  /\ rows'[id].wait <= Delay(rows'[id]) + setBack'
  <2>1. n.attempts \in 0 .. Len(retryBackoff)
    BY DEF TypeOK, Entries
  <2>2. UNCHANGED setBack
    BY <1>5, SetBackChange
  <2>3. CASE rows'[id] = rows[id]
    BY <1>1, <2>2, <2>3
  <2>4. CASE rows'[id].attempts = n.attempts + 1 /\ rows'[id].status = "pending"
             /\ n.attempts < Len(retryBackoff) /\ rows'[id].wait = retryBackoff[n.attempts + 1]
    <3>1. retryBackoff[n.attempts + 1] \in Nat /\ Delay(rows'[id]) = retryBackoff[n.attempts + 1]
      BY <1>0, <2>1, <2>4 DEF Delay
    <3> QED
      BY <1>0, <2>1, <2>2, <2>4, <3>1
  <2> QED
    BY <1>5, <2>1, <2>3, <2>4, RecordedRow
<1> QED
  BY <1>1, <1>2, <1>3, <1>4, <1>5, RowsChange, SetBackChange

LEMMA CurrentStep ==
  TypeOK /\ Fresh /\ Seen /\ DueIsCurrent /\ [Next]_vars => DueIsCurrent'
<1> SUFFICES ASSUME TypeOK, Fresh, Seen, DueIsCurrent, [Next]_vars, NEW n \in due'
             PROVE  Current(n)'
  BY DEF DueIsCurrent, Current
<1>1. CASE Fetch
  <2>1. n \in DueNotifications /\ UNCHANGED <<rows, setBack>> /\ setBack \in Nat
    BY <1>1 DEF Fetch, queueVars, clockVars, TypeOK
  <2> QED
    BY <2>1, DueIs DEF Current, Pending
<1>2. CASE n \in due
  <2>0. n.id \in Ids /\ n.attempts \in Nat /\ Current(n)
    BY <1>2, BackoffAssumption DEF TypeOK, Entries, DueIsCurrent, Current
  <2>1. CASE rows'[n.id] = rows[n.id] /\ ~WallClock
    BY <2>0, <2>1, SetBackChange DEF Current
  <2>2. CASE Queue
    <3>1. ~(n.id > lastId)
      BY <2>0 DEF Fresh, Current
    <3>2. ~WallClock
      BY <2>2 DEF Queue, WallClock, Tick, WallClockRunsAhead, SetClockBack
    <3> QED
      BY <2>0, <2>1, <2>2, <3>1, <3>2, QueuedRow
  <2>3. CASE Prune /\ ~WallClock
    BY <2>0, <2>1, <2>3, RowPruned DEF Current
  <2>4. CASE WallClock
    <3>1. rows[n.id].wait \in Nat /\ setBack \in Nat
      BY <2>0 DEF TypeOK, Row
    <3>2. /\ rows'[n.id].wait \in Nat /\ setBack' \in Nat
          /\ rows'[n.id].wait + setBack <= rows[n.id].wait + setBack'
      BY <2>0, <2>4, MovedWait
    <3>3. rows'[n.id].wait <= setBack'
      BY <2>0, <3>1, <3>2 DEF Current
    <3> QED
      BY <2>0, <2>4, <3>3, MovedFields DEF Current
  <2>5. ASSUME ~WallClock, NEW m \in due, Record(m) PROVE Current(n)'
    <3>1. n # m
      BY <2>5 DEF Record, TakeNext
    <3>2. n.id # m.id
      BY <1>2, <3>1, FirstIsOne
    <3> QED
      BY <2>0, <2>1, <2>5, <3>2, RecordedRow
  <2> QED
    BY <2>0, <2>1, <2>2, <2>3, <2>4, <2>5, RowsChange
<1> QED
  BY <1>1, <1>2, DueChange DEF TakeNext

LEMMA FreshStep == TypeOK /\ DueIsCurrent /\ Seen /\ Fresh /\ [Next]_vars => Fresh'
<1> SUFFICES ASSUME TypeOK, DueIsCurrent, Seen, Fresh, [Next]_vars PROVE Fresh'
  OBVIOUS
<1>0. lastId \in Nat /\ lastId' \in Nat /\ lastId <= lastId'
  <2>1. Len(enabled) \in Nat /\ lastId \in Nat
    BY ConfigAssumption, RowsAssumption DEF TypeOK
  <2> QED
    BY <2>1, IdsChange DEF Queue
<1>1. ASSUME NEW id \in Ids, id > lastId' PROVE rows'[id].status = "free"
  <2>1. id > lastId /\ rows[id].status = "free"
    BY <1>0, <1>1 DEF Fresh, Ids
  <2>2. CASE Queue
    BY <1>0, <1>1, <2>1, <2>2, QueuedRow DEF Ids
  <2>3. CASE Prune
    BY <2>1, <2>3, RowPruned
  <2>4. CASE WallClock
    BY <2>1, <2>4, MovedFields
  <2>5. ASSUME NEW m \in due, Record(m) PROVE rows'[id].status = "free"
    <3>1. m.id \in Ids /\ rows[m.id].status = "pending"
      BY DEF TypeOK, Entries, DueIsCurrent
    <3> QED
      BY <2>1, <2>5, <3>1, RecordedRow
  <2> QED
    BY <2>1, <2>2, <2>3, <2>4, <2>5, RowsChange
<1>2. CASE UNCHANGED <<shown, banner>>
  <2>1. \A id \in Ids : id > lastId' => id > lastId
    BY <1>0 DEF Ids
  <2>2. banner' <= lastId'
    BY <1>0, <1>2, RowsAssumption DEF Fresh, TypeOK, Ids
  <2> QED
    BY <1>1, <1>2, <2>1, <2>2 DEF Fresh
<1>3. ASSUME NEW n \in due, Show(n), UNCHANGED queueVars PROVE Fresh'
  <2>1. n.id \in Ids /\ rows[n.id].status = "pending"
    BY DEF TypeOK, Entries, DueIsCurrent
  <2>2. ~(n.id > lastId) /\ n.id <= lastId
    BY <1>0, <2>1 DEF Fresh, Ids
  <2>3. \A id \in Ids : id > lastId' => shown'[id] = 0
    BY <1>3, <2>1, <2>2 DEF Fresh, Show, TypeOK, queueVars
  <2>4. banner' <= lastId'
    BY <1>3, <2>2 DEF Show, Fresh, queueVars
  <2> QED
    BY <1>1, <2>3, <2>4 DEF Fresh
<1> QED
  BY <1>2, <1>3, ShownChange

-----------------------------------------------------------------------------
(* What the user sees *)

\* Steps beside the loop: the outcome on its way to the table stays there.
Beside == Queue \/ Kick \/ Prune \/ Cancel \/ WallClock \/ UNCHANGED vars

LEMMA FirstIsUnique ==
  ASSUME TypeOK, DueIsCurrent, NEW n \in due, NEW m \in due, IsFirst(n), IsFirst(m)
  PROVE  m = n
<1>1. n.id \in Int /\ m.id \in Int
  BY DEF TypeOK, Entries, Ids
<1>2. n.id = m.id
  BY <1>1 DEF IsFirst
<1> QED
  BY <1>2, FirstIsOne

LEMMA BesideKeeps ==
  Beside => /\ UNCHANGED <<pc, due, outcome, shown, excused, banner>>
            /\ \A id : JustShown(id) => JustShown(id)'
BY DEF Beside, Queue, Kick, Prune, Cancel, WallClock, Tick, WallClockRunsAhead, SetClockBack,
       vars, loopVars, userVars, JustShown, IsFirst

LEMMA ShowIs ==
  ASSUME TypeOK, NEW n \in due, Show(n)
  PROVE  /\ n.id \in Ids /\ shown'[n.id] >= 1
         /\ shown'[n.id] = 2 => shown[n.id] >= 1 /\ n.id \notin excused'
         /\ \A id \in Ids : id # n.id => shown'[id] = shown[id]
BY DEF TypeOK, Entries, Show

\* A row that is pending after a step beside the loop was so before or is new.
LEMMA BesidePending ==
  ASSUME TypeOK, Fresh, Beside, NEW id \in Ids, rows'[id].status = "pending"
  PROVE  \/ rows[id].status = "pending" /\ rows'[id].attempts = rows[id].attempts
         \/ id > lastId /\ shown[id] = 0
<1>1. CASE Queue
  BY <1>1, QueuedRow DEF Fresh
<1>2. CASE Prune
  BY <1>2, RowPruned
<1>3. CASE WallClock
  BY <1>3, MovedFields
<1>4. CASE Kick \/ Cancel \/ UNCHANGED vars
  BY <1>4 DEF Kick, Cancel, vars, queueVars
<1> QED
  BY <1>1, <1>2, <1>3, <1>4 DEF Beside

\* What is recorded has an outcome, and what is recorded as sent was shown.
LEMMA RecordStep ==
  ASSUME TypeOK, DueIsCurrent, Seen, [Next]_vars
  PROVE  /\ pc' = "record" => outcome' # "none"
         /\ pc' = "record" /\ outcome' = "ok" => \A n \in due' : IsFirst(n)' => shown'[n.id] >= 1
<1>1. CASE Beside
  <2>1. \A n : IsFirst(n)' => IsFirst(n)
    BY <1>1, BesideKeeps DEF IsFirst
  <2> QED
    BY <1>1, <2>1, BesideKeeps DEF Seen
<1>2. ASSUME NEW n \in due, SendSucceeds(n)
      PROVE  outcome' # "none" /\ \A m \in due' : IsFirst(m)' => shown'[m.id] >= 1
  <2>1. due' = due /\ IsFirst(n) /\ Show(n) /\ outcome' = "ok"
    BY <1>2 DEF SendSucceeds, Return
  <2>2. \A m \in due' : IsFirst(m)' => m = n
    BY <2>1, FirstIsUnique DEF IsFirst
  <2> QED
    BY <2>1, <2>2, ShowIs
<1>3. ASSUME NEW n \in due, Deliver(n) \/ SendFails(n) \/ SendTimesOut(n)
      PROVE  pc' = "record" => outcome' = "error"
  BY <1>3 DEF Deliver, SendFails, SendTimesOut, Return
<1>4. CASE Restart \/ Fetch \/ FetchFails \/ DeliverDone \/ Arm \/ ArmFails \/ Wait \/ Wake \/ Stop
           \/ \E n \in due : Record(n) \/ RecordFails(n)
  BY <1>4 DEF Restart, Fetch, FetchFails, DeliverDone, Arm, ArmFails, Wait, Wake, Stop,
              Record, RecordFails, TakeNext
<1> QED
  BY <1>1, <1>2, <1>3, <1>4 DEF Next, Loop, Beside

LEMMA SeenStep ==
  TypeOK /\ DueIsCurrent /\ Fresh /\ Seen /\ [Next]_vars => Seen'
<1> SUFFICES ASSUME TypeOK, DueIsCurrent, Fresh, Seen, [Next]_vars,
                    NEW id \in Ids, rows'[id].status = "pending", shown'[id] >= 1
             PROVE  id \in excused' \/ JustShown(id)'
  BY RecordStep DEF Seen, Pending
<1>0. (id \in excused => id \in excused') /\ shown[id] \in Nat
      /\ (rows[id].status = "pending" /\ shown[id] >= 1 => id \in excused \/ JustShown(id))
  BY ExcusesStay DEF Seen, Pending, TypeOK
<1>1. CASE Beside
  BY <1>0, <1>1, BesideKeeps, BesidePending
<1>2. ASSUME NEW n \in due, Record(n) PROVE id \in excused'
  <2>1. pc = "record" /\ IsFirst(n) /\ UNCHANGED shown
    BY <1>2 DEF Record, TakeNext
  <2>2. JustShown(id) => id = n.id /\ outcome = "ok"
    BY <2>1, FirstIsUnique DEF JustShown
  <2>3. rows[id].status = "pending" /\ ~(id = n.id /\ outcome = "ok")
    <3>1. rows[n.id].status = "pending"
      BY DEF DueIsCurrent
    <3> QED
      BY <1>2, <3>1, RecordedRow
  <2> QED
    BY <1>0, <2>1, <2>2, <2>3
<1>3. ASSUME NEW n \in due, RecordFails(n) PROVE id \in excused'
  <2>1. pc = "record" /\ IsFirst(n) /\ UNCHANGED <<shown, rows>> /\ n.id \in excused'
    BY <1>3 DEF RecordFails, TakeNext
  <2>2. JustShown(id) => id = n.id
    BY <2>1, FirstIsUnique DEF JustShown
  <2> QED
    BY <1>0, <2>1, <2>2
<1>4. ASSUME NEW n \in due, SendSucceeds(n) PROVE id \in excused' \/ JustShown(id)'
  <2>1. pc = "sending" /\ pc' = "record" /\ outcome' = "ok" /\ due' = due /\ IsFirst(n) /\ Show(n)
        /\ UNCHANGED rows
    BY <1>4 DEF SendSucceeds, Return, queueVars
  <2>2. JustShown(n.id)'
    BY <2>1 DEF JustShown, IsFirst
  <2> QED
    BY <1>0, <2>1, <2>2, ShowIs DEF JustShown
<1>5. CASE Restart
  <2>1. UNCHANGED rows
    BY <1>5 DEF Restart, queueVars
  <2>2. JustShown(id) => id \in excused'
    BY <1>5 DEF Restart, JustShown
  <2>3. shown'[id] = shown[id] \/ id \in excused'
    BY <1>5, ShowIs DEF Restart
  <2> QED
    BY <1>0, <2>1, <2>2, <2>3
<1>6. ASSUME NEW n \in due, SendFails(n) \/ SendTimesOut(n) PROVE id \in excused'
  <2>1. pc = "sending" /\ UNCHANGED rows
    BY <1>6 DEF SendFails, SendTimesOut, Return, queueVars
  <2>2. shown'[id] = shown[id] \/ id \in excused'
    BY <1>6, ShowIs DEF SendFails, SendTimesOut, userVars
  <2> QED
    BY <1>0, <2>1, <2>2 DEF JustShown
<1>7. CASE Fetch \/ FetchFails \/ DeliverDone \/ Arm \/ ArmFails \/ Wait \/ Wake \/ Stop
           \/ \E n \in due : Deliver(n)
  <2>1. pc # "record" /\ UNCHANGED <<rows, shown, excused>>
    BY <1>7 DEF Fetch, FetchFails, DeliverDone, Arm, ArmFails, Wait, Wake, Stop, Deliver,
                queueVars, userVars
  <2> QED
    BY <1>0, <2>1 DEF JustShown
<1> QED
  BY <1>1, <1>2, <1>3, <1>4, <1>5, <1>6, <1>7 DEF Next, Loop, Beside

LEMMA ShownOnceStep ==
  TypeOK /\ DueIsCurrent /\ Fresh /\ Seen /\ ShownOnceUnlessExcused /\ [Next]_vars
    => ShownOnceUnlessExcused'
<1> SUFFICES ASSUME TypeOK, DueIsCurrent, Fresh, Seen, ShownOnceUnlessExcused, [Next]_vars,
                    NEW id \in Ids
             PROVE  shown'[id] \in {0, 1} /\ (rows'[id].status = "sent" => shown'[id] = 1)
  BY DEF ShownOnceUnlessExcused
<1>0. shown[id] \in {0, 1} /\ (rows[id].status = "sent" => shown[id] = 1)
  BY DEF ShownOnceUnlessExcused
<1>1. shown'[id] \in {0, 1} /\ shown'[id] >= shown[id]
  <2>1. CASE UNCHANGED <<shown, banner>>
    BY <1>0, <2>1
  <2>2. ASSUME NEW n \in due, pc = "sending", IsFirst(n), Show(n), UNCHANGED queueVars
        PROVE  shown'[id] \in {0, 1} /\ shown'[id] >= shown[id]
    <3>1. n.id \in Ids /\ rows[n.id].status = "pending" /\ rows'[n.id].status = "pending"
      BY <2>2 DEF DueIsCurrent, TypeOK, Entries, queueVars
    <3>2. shown[n.id] >= 1 => n.id \in excused
      BY <2>2, <3>1 DEF Seen, Pending, JustShown
    <3>3. n.id \in excused => n.id \in excused'
      BY <3>1, ExcusesStay
    <3>4. shown[n.id] \in {0, 1}
      BY <3>1 DEF ShownOnceUnlessExcused
    <3>5. shown'[n.id] = 1 /\ (id # n.id => shown'[id] = shown[id])
      BY <2>2, <3>1, <3>2, <3>3, <3>4 DEF Show, TypeOK
    <3> QED
      BY <1>0, <3>5
  <2> QED
    BY <2>1, <2>2, ShownChange
<1>2. rows'[id].status = "sent" => rows[id].status = "sent" \/ shown[id] >= 1
  <2>1. CASE Queue
    BY <2>1, QueuedRow
  <2>2. CASE Prune
    BY <2>2, RowPruned
  <2>3. CASE WallClock
    BY <2>3, MovedFields
  <2>4. ASSUME NEW n \in due, Record(n)
        PROVE  rows'[id].status = "sent" => rows[id].status = "sent" \/ shown[id] >= 1
    <3>1. pc = "record" /\ IsFirst(n)
      BY <2>4 DEF Record, TakeNext
    <3> QED
      BY <2>4, <3>1, RecordedRow DEF Seen
  <2> QED
    BY <2>1, <2>2, <2>3, <2>4, RowsChange
<1> QED
  BY <1>0, <1>1, <1>2

-----------------------------------------------------------------------------
(* The order of first attempts *)

\* A row still waiting for its first attempt was so before, or is new.
LEMMA UnattemptedBefore ==
  ASSUME TypeOK, DueIsCurrent, Fresh, Seen, [Next]_vars,
         NEW id \in Ids, rows'[id].status = "pending", rows'[id].attempts = 0
  PROVE  \/ /\ rows[id].status = "pending" /\ rows[id].attempts = 0
            /\ \A n \in due : Record(n) => n.id # id
         \/ id > lastId /\ rows'[id].wait = 0 /\ UNCHANGED <<due, banner>>
<1>1. ASSUME NEW n \in due, Record(n)
      PROVE  n.id # id /\ rows[id].status = "pending" /\ rows[id].attempts = 0
  <2>1. n.attempts \in Nat
    BY BackoffAssumption DEF TypeOK, Entries
  <2> QED
    BY <1>1, <2>1, RecordedRow
<1>2. CASE Queue
  <2>1. \A n \in due : ~Record(n)
    BY <1>2 DEF Queue, loopVars, Record, TakeNext
  <2> QED
    BY <1>2, <2>1, QueuedRow DEF Queue, loopVars, userVars
<1>3. CASE Prune
  BY <1>1, <1>3, RowPruned
<1>4. CASE WallClock
  BY <1>1, <1>4, MovedFields
<1> QED
  BY <1>1, <1>2, <1>3, <1>4, RowsChange

\* It stays excused, or held back, until it is attempted.
LEMMA LateStays ==
  ASSUME TypeOK, [Next]_vars, NEW id \in Ids, rows'[id].status = "pending", MayBeLate(id),
         \A n \in due : Record(n) => n.id # id
  PROVE  MayBeLate(id)'
<1>1. id \in excused => id \in excused'
  BY ExcusesStay
<1>2. \A n \in due : RecordFails(n) => n.id \in excused'
  BY DEF RecordFails
<1> QED
  BY <1>1, <1>2, HeldBackChange DEF MayBeLate

LEMMA InOrderStep ==
  TypeOK /\ DueIsCurrent /\ GivenUpAfterEveryRetry /\ Fresh /\ Seen /\ InOrder /\ [Next]_vars
    => InOrder'
<1> SUFFICES ASSUME TypeOK, DueIsCurrent, GivenUpAfterEveryRetry, Fresh, Seen, InOrder,
                    [Next]_vars
             PROVE  InOrder'
  OBVIOUS
<1>0. banner \in Nat /\ lastId \in Nat
  BY RowsAssumption DEF TypeOK, Ids
<1>1. ASSUME NEW n \in due', NEW id \in Ids, rows'[id].status = "pending",
             id < n.id, rows'[id].attempts = 0
      PROVE  MayBeLate(id)' \/ \E m \in due' : m.id = id
  <2>1. CASE Fetch
    <3>1. UNCHANGED <<rows, excused, heldBack>> /\ due' = DueNotifications
      BY <2>1 DEF Fetch, queueVars, clockVars, userVars
    <3>2. rows[id].wait = 0 \/ MayBeLate(id)'
      BY <1>1, <3>1 DEF InOrder, Pending, MayBeLate
    <3>3. rows[id].wait = 0 => [id |-> id, attempts |-> rows[id].attempts] \in due'
      BY <1>1, <3>1 DEF DueNotifications, Pending
    <3> QED
      BY <3>2, <3>3
  <2>2. CASE n \in due
    <3>1. n.id \in Ids /\ ~(n.id > lastId)
      BY <2>2 DEF Fresh, DueIsCurrent, TypeOK, Entries
    <3>2. rows[id].status = "pending" /\ rows[id].attempts = 0
          /\ \A m \in due : Record(m) => m.id # id
      BY <1>0, <1>1, <3>1, UnattemptedBefore DEF Ids
    <3>3. MayBeLate(id) \/ \E m \in due : m.id = id
      BY <1>1, <2>2, <3>2 DEF InOrder, Pending
    <3>4. MayBeLate(id) => MayBeLate(id)'
      BY <1>1, <3>2, LateStays
    <3>5. ASSUME NEW m \in due, TakeNext(m), Record(m) \/ RecordFails(m)
          PROVE  MayBeLate(id)' \/ \E k \in due' : k.id = id
      <4>1. m.id = id => id \in excused'
        BY <3>2, <3>5 DEF RecordFails
      <4>2. m.id # id => MayBeLate(id)' \/ \E k \in due' : k.id = id
        BY <3>3, <3>4, <3>5 DEF TakeNext
      <4> QED
        BY <4>1, <4>2 DEF MayBeLate
    <3> QED
      BY <1>1, <2>1, <3>3, <3>4, <3>5, DueChange
  <2> QED
    BY <2>1, <2>2, DueChange DEF TakeNext
<1>2. ASSUME NEW id \in Ids, rows'[id].status = "pending", id < banner', rows'[id].attempts = 0
      PROVE  MayBeLate(id)'
  <2>1. CASE UNCHANGED <<shown, banner>>
    <3>1. ~(id > lastId)
      BY <1>0, <1>2, <2>1 DEF Fresh, Ids
    <3>2. /\ rows[id].status = "pending" /\ rows[id].attempts = 0
          /\ \A m \in due : Record(m) => m.id # id
      BY <1>2, <3>1, UnattemptedBefore
    <3>3. MayBeLate(id)
      BY <1>0, <1>2, <2>1, <3>2 DEF InOrder, Pending
    <3> QED
      BY <1>2, <3>2, <3>3, LateStays
  <2>2. ASSUME NEW n \in due, IsFirst(n), Show(n), UNCHANGED queueVars, pc = "sending"
        PROVE  MayBeLate(id)'
    <3>1. /\ rows[id].status = "pending" /\ rows[id].attempts = 0
          /\ \A m \in due : ~Record(m)
      BY <1>2, <2>2 DEF queueVars, Record, TakeNext
    <3>2. CASE banner' = n.id
      <4>1. \A m \in due : m.id # id
        BY <1>2, <2>2, <3>2 DEF IsFirst, TypeOK, Entries, Ids
      <4>2. MayBeLate(id)
        BY <1>2, <3>1, <3>2, <4>1 DEF InOrder, Pending
      <4> QED
        BY <1>2, <3>1, <4>2, LateStays
    <3>3. CASE banner' = banner
      <4>1. MayBeLate(id)
        BY <1>2, <3>1, <3>3 DEF InOrder, Pending
      <4> QED
        BY <1>2, <3>1, <4>1, LateStays
    <3> QED
      BY <2>2, <3>2, <3>3 DEF Show
  <2> QED
    BY <2>1, <2>2, ShownChange
<1>3. ASSUME NEW id \in Ids, rows'[id].status = "pending", rows'[id].attempts = 0,
             rows'[id].wait # 0
      PROVE  MayBeLate(id)'
  <2>1. /\ rows[id].status = "pending" /\ rows[id].attempts = 0
        /\ \A m \in due : Record(m) => m.id # id
    BY <1>3, UnattemptedBefore
  <2>2. CASE rows[id].wait # 0
    <3>1. MayBeLate(id)
      BY <2>1, <2>2 DEF InOrder, Pending
    <3> QED
      BY <1>3, <2>1, <3>1, LateStays
  <2>3. CASE rows[id].wait = 0
    <3>1. rows'[id] # rows[id]
      BY <1>3, <2>3
    <3>2. WallClock
      BY <1>3, <2>1, <2>3, <3>1, RowsChange, QueuedRow, RowPruned, RecordedRow
    <3>3. SetClockBack
      BY <1>3, <2>3, <3>2, MovedWait DEF Down
    <3>4. rows'[id].wait > 0
      BY <1>3, <3>2, MovedWait
    <3>5. id \in heldBack'
      BY <2>1, <3>3, <3>4 DEF SetClockBack, Pending
    <3> QED
      BY <3>5 DEF MayBeLate
  <2> QED
    BY <2>2, <2>3
<1>4. \A id \in Ids : rows'[id].status = "pending" /\ rows'[id].attempts # 0
                        => rows'[id].attempts > 0
  <2>1. TypeOK'
    BY TypeStep
  <2> QED
    BY <2>1, BackoffAssumption DEF TypeOK, Row
<1> QED
  BY <1>1, <1>2, <1>3, <1>4 DEF InOrder, Pending

-----------------------------------------------------------------------------
(* The timer *)

LEMMA ArmedStep == TypeOK /\ GivenUpAfterEveryRetry /\ Fresh /\ Armed /\ [Next]_vars => Armed'
<1> SUFFICES ASSUME TypeOK, GivenUpAfterEveryRetry, Fresh, Armed, [Next]_vars,
                    pc' \in {"armed", "wait"}, ~blind'
             PROVE  /\ kick' \/ owed' \/ \A id \in Pending' : TimerIsFor(id)'
                    /\ Pending' = {} => timer' = None
  BY DEF Armed
<1>1. CASE Arm
  <2>1. UNCHANGED <<rows, kick, owed>> /\ Pending' = Pending
    BY <1>1 DEF Arm, queueVars, Pending
  <2> QED
    BY <1>1, <2>1, ArmSets DEF TimerIsFor, Delay
<1>2. CASE Wait \/ Cancel \/ UNCHANGED vars
  <2>1. /\ UNCHANGED <<rows, kick, owed, timer, blind, lagging, setBack>> /\ Pending' = Pending
        /\ pc \in {"armed", "wait"}
    BY <1>2 DEF Wait, Cancel, vars, queueVars, loopVars, clockVars, Pending
  <2> QED
    BY <2>1 DEF Armed, TimerIsFor, Delay
<1>3. CASE Queue
  <2>1. owed' = TRUE /\ UNCHANGED <<pc, timer, blind>>
    BY <1>3 DEF Queue, loopVars
  <2>2. Pending \subseteq Pending'
    BY <1>3, QueuedRow DEF Pending
  <2> QED
    BY <2>1, <2>2 DEF Armed
<1>4. CASE Kick
  <2>1. kick' = TRUE /\ UNCHANGED <<pc, timer, blind>> /\ Pending' = Pending
    BY <1>4 DEF Kick, loopVars, queueVars, Pending
  <2> QED
    BY <2>1 DEF Armed
<1>5. CASE Prune
  <2>1. UNCHANGED <<pc, timer, blind, kick, owed, lagging, setBack>>
    BY <1>5 DEF Prune, loopVars, clockVars
  <2>2. \A id \in Ids : rows'[id].status = "pending" \/ rows[id].status = "pending"
                          => rows'[id] = rows[id]
    BY <1>5, RowPruned
  <2>3. Pending' = Pending /\ \A id \in Pending' : rows'[id] = rows[id]
    BY <2>2 DEF Pending
  <2> QED
    BY <2>1, <2>3 DEF Armed, TimerIsFor, Delay
<1>6. CASE WallClock
  <2>1. /\ UNCHANGED <<pc, blind, kick, owed>> /\ timer' \in {timer, Down(timer)}
        /\ timer' = timer \/ (Tick /\ timer' = Down(timer))
    BY <1>6 DEF WallClock, Tick, WallClockRunsAhead, SetClockBack, loopVars
  <2>2. Pending' = Pending
    BY <1>6, MovedFields DEF Pending
  <2>3. timer = None => timer' = None
    BY <2>1 DEF Down, None
  <2>4. ASSUME NEW id \in Pending, TimerIsFor(id) PROVE TimerIsFor(id)'
    <3>1. id \in Ids /\ rows[id].wait \in Nat /\ setBack \in Nat /\ Delay(rows[id]) \in Nat
      <4>1. rows[id] \in Row /\ rows[id].attempts <= Len(retryBackoff)
        BY <2>4 DEF Pending, TypeOK, GivenUpAfterEveryRetry
      <4> QED
        BY <2>4, <4>1, DelayType DEF Pending, TypeOK, Row
    <3>2. /\ rows'[id].wait \in Nat /\ rows'[id].attempts = rows[id].attempts
          /\ SetClockBack => rows[id].wait <= rows'[id].wait
          /\ ~SetClockBack => rows'[id].wait = Down(rows[id].wait)
      BY <1>6, <3>1, MovedWait, MovedFields
    <3>3. Delay(rows'[id]) = Delay(rows[id])
      BY <3>2 DEF Delay
    <3>4. timer \in Nat /\ timer' \in Nat /\ timer' <= timer /\ timer' # None
      BY <2>1, <2>4, DownType DEF TimerIsFor, TypeOK, None
    <3>5. timer <= rows[id].wait \/ lagging
      BY <2>4 DEF TimerIsFor
    <3>6. setBack' \in Nat /\ setBack <= setBack'
      BY <1>6, <3>1 DEF WallClock, Tick, WallClockRunsAhead, SetClockBack, clockVars
    <3>7. timer' <= Delay(rows'[id]) + setBack'
      BY <2>4, <3>1, <3>3, <3>4, <3>6 DEF TimerIsFor
    <3>8. CASE Tick
      <4>1. UNCHANGED <<lagging, setBack>> /\ ~SetClockBack /\ timer' = Down(timer)
        BY <3>1, <3>8 DEF Tick, clockVars, SetClockBack
      <4>2. timer <= rows[id].wait => timer' <= rows'[id].wait
        BY <3>1, <3>2, <3>4, <4>1 DEF Down
      <4> QED
        BY <3>4, <3>5, <3>7, <4>1, <4>2 DEF TimerIsFor
    <3>9. CASE WallClockRunsAhead
      <4>1. lagging'
        BY <2>4, <3>9 DEF WallClockRunsAhead, TimerIsFor
      <4> QED
        BY <3>4, <3>7, <4>1 DEF TimerIsFor
    <3>10. CASE SetClockBack
      <4>1. UNCHANGED <<lagging, timer>>
        BY <3>10 DEF SetClockBack, loopVars
      <4>2. timer <= rows[id].wait => timer' <= rows'[id].wait
        BY <3>1, <3>2, <3>4, <3>10, <4>1
      <4> QED
        BY <3>4, <3>5, <3>7, <4>1, <4>2 DEF TimerIsFor
    <3> QED
      BY <1>6, <3>8, <3>9, <3>10 DEF WallClock
  <2> QED
    BY <2>1, <2>2, <2>3, <2>4 DEF Armed
<1>7. \/ Arm \/ Wait \/ Cancel \/ UNCHANGED vars \/ Queue \/ Kick \/ Prune \/ WallClock
  BY DEF Next, Loop, Fetch, FetchFails, DeliverDone, Deliver, SendSucceeds, SendFails,
         SendTimesOut, Return, Record, RecordFails, TakeNext, ArmFails, Wake, Stop, Restart
<1> QED
  BY <1>1, <1>2, <1>3, <1>4, <1>5, <1>6, <1>7

-----------------------------------------------------------------------------
(* The invariant *)

LEMMA IInvInit == Init => IInv
<1> SUFFICES ASSUME Init PROVE IInv
  OBVIOUS
<1>1. TypeOK
  BY TypeInit
<1>2. \A id \in Ids : rows[id].status = "free" /\ shown[id] = 0
  BY DEF Init, FreeRow
<1>3. due = {} /\ pc = "fetch" /\ banner = 0 /\ lastId = 0 /\ Pending = {}
  BY <1>2 DEF Init, Pending
<1> QED
  BY <1>1, <1>2, <1>3 DEF IInv, DueIsCurrent, GivenUpAfterEveryRetry, ShownOnceUnlessExcused,
                          Fresh, Seen, InOrder, Armed

LEMMA IInvStep == IInv /\ [Next]_vars => IInv'
BY TypeStep, CurrentStep, GivenUpStep, ShownOnceStep, FreshStep, SeenStep, InOrderStep, ArmedStep
   DEF IInv

LEMMA IInvAlways == Spec => []IInv
BY IInvInit, IInvStep, PTL DEF Spec

\* The loop, its table and what the user sees keep their types, whatever is
\* queued, answered, pruned, stopped or restarted.
THEOREM TypeCorrect == Spec => []TypeOK
<1>1. IInv => TypeOK
  BY DEF IInv
<1> QED
  BY <1>1, IInvAlways, PTL

\* The list deliverDue works through holds only pending rows that have not been
\* attempted since it was read, and were due but for what the clock, which may be
\* set at any time, has been set back by.
THEOREM ListIsCurrent == Spec => []DueIsCurrent
<1>1. IInv => DueIsCurrent
  BY DEF IInv
<1> QED
  BY <1>1, IInvAlways, PTL

\* A row is marked failed only after one attempt and every retry of
\* retryBackoff, and waits no longer than the retry it is at and what the clock has
\* been set back by.
THEOREM RetriesAreMade == Spec => []GivenUpAfterEveryRetry
<1>1. IInv => GivenUpAfterEveryRetry
  BY DEF IInv
<1> QED
  BY <1>1, IInvAlways, PTL

\* What is marked sent was shown, and nothing is shown twice unless the outcome
\* of an attempt was lost on its way to the table.
THEOREM ShownOnce == Spec => []ShownOnceUnlessExcused
<1>1. IInv => ShownOnceUnlessExcused
  BY DEF IInv
<1> QED
  BY <1>1, IInvAlways, PTL

\* The loop never waits without a pending row's wake-up: a kick is there or on its
\* way, or its timer ends no later than the row is due -- or, when the wall clock ran
\* ahead of the timer, no later than the delay the timer was set for; with nothing
\* pending it has no timer.
THEOREM NoWakeUpLost == Spec => []ArmedForQueue
<1>1. IInv => ArmedForQueue
  BY DEF IInv, Armed, ArmedForQueue
<1> QED
  BY <1>1, IInvAlways, PTL

\* Only a retry, or a row whose outcome was lost or that was due until the clock was
\* set back, puts an older notification in the place of a newer one.
THEOREM OldOnlyAsRetry == Spec => FirstAttemptsInOrder
<1>1. ASSUME IInv, [Next]_vars
      PROVE  [\/ banner' >= banner
              \/ rows[banner'].attempts > 0
              \/ banner' \in excused \cup heldBack]_vars
  <2>1. banner \in Int
    BY <1>1 DEF IInv, TypeOK, Ids
  <2>2. ASSUME NEW n \in due, Show(n)
        PROVE  banner' >= banner \/ rows[banner'].attempts > 0
               \/ banner' \in excused \cup heldBack
    <3>1. n.id \in Int /\ n.id \in Pending
      BY <1>1 DEF IInv, TypeOK, Entries, Ids, DueIsCurrent, Pending
    <3>2. n.id < banner => rows[n.id].attempts > 0 \/ n.id \in excused \cup heldBack
      BY <1>1, <3>1 DEF IInv, InOrder, MayBeLate
    <3> QED
      BY <2>1, <2>2, <3>1, <3>2 DEF Show
  <2> QED
    BY <1>1, <2>1, <2>2, ShownChange
<1> QED
  BY <1>1, IInvAlways, PTL DEF Spec, FirstAttemptsInOrder
=============================================================================
