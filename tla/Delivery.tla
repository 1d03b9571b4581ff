----------------------------- MODULE Delivery ------------------------------
(***************************************************************************)
(* internal/alerts/delivery.go: the loop that delivers queued              *)
(* notifications with retries, over the notifications table of             *)
(* internal/storage, next to the callers of Engine.save that queue rows    *)
(* and kick the loop, the pruner, a shutdown and a crash.                  *)
(*                                                                         *)
(* There are two clocks.  next_attempt_at and what is due are times of the *)
(* wall clock, which somebody may set and which goes on while the Mac      *)
(* sleeps; time.After and the context of a send count a monotonic clock,   *)
(* which nobody sets and which stands still then.  Both are kept as        *)
(* distances: a row's `wait' is what the wall clock has to go until its    *)
(* next_attempt_at, 0 when that has passed, `timer' and `sendLeft' are     *)
(* what is left on the monotonic one.  A Tick moves both clocks,           *)
(* WallClockRunsAhead and SetClockBack move the first alone.  Only how far *)
(* the wall clock is set back needs a bound.                               *)
(*                                                                         *)
(* The rows are the notifications of one alert.  Those of other alerts     *)
(* take part in the same queue and differ in nothing the loop looks at.    *)
(***************************************************************************)
EXTENDS Integers, Sequences, FiniteSets

CONSTANTS MaxRows,       \* bound: rows ever queued
          Channels,      \* "native" and "command"
          Configs,       \* the values enabledChannels can have: sequences of channels
          retryBackoff,  \* the delays before each retry
          Minute,        \* the timer set when the queue cannot be read
          sendTimeout,   \* how long a send may take
          MaxSetBack,    \* bound: by how much the wall clock is set back in all
          Outlives       \* channels whose send may not return when its context ends

ASSUME RowsAssumption    == MaxRows \in Nat
ASSUME ChannelsAssumption == Channels # {}
ASSUME ConfigAssumption  == Configs \subseteq Seq(Channels) /\ Configs # {}
ASSUME BackoffAssumption == retryBackoff \in Seq(Nat)
ASSUME TimeoutAssumption == Minute \in Nat /\ sendTimeout \in Nat
ASSUME SetBackAssumption == MaxSetBack \in Nat
ASSUME OutlivesAssumption == Outlives \subseteq Channels

VARIABLES rows,       \* the notifications table
          lastId,     \* its AUTOINCREMENT counter
          kick,       \* Engine.kick, a channel with room for one
          owed,       \* save has committed rows and not yet sent its kick
          enabled,    \* enabledChannels(cfg), as loaded when the process started
          cancelled,  \* the context of the loop is cancelled
          pc,         \* where the loop is
          due,        \* the notifications deliverDue has still to deliver
          sendLeft,   \* what is left of the time of the send in progress
          outcome,    \* what the send returned
          timer,      \* what is left of the loop's timer
          blind       \* the timer was set without knowing the queue

loopVars == <<pc, due, sendLeft, outcome, timer, blind>>
queueVars == <<rows, lastId>>

\* What has happened to the wall clock: no code knows.
VARIABLES setBack,    \* by how much it was set back
          lagging,    \* it has run ahead of the timer since that was set
          heldBack    \* rows not attempted yet that were due until it was set back

clockVars == <<setBack, lagging, heldBack>>

\* What the user sees, and what can excuse seeing a notification twice: no
\* code reads these.
VARIABLES shown,      \* how often a row's notification appeared, at most 2; once if excused
          excused,    \* pending rows of which an outcome was lost on its way to the table
          banner      \* the row whose native notification is on display, or 0

userVars == <<shown, excused, banner>>

vars == <<queueVars, kick, owed, enabled, cancelled, loopVars, clockVars, userVars>>

-----------------------------------------------------------------------------
Ids == 1 .. MaxRows

None == -1

\* "free": not inserted yet; "pruned": deleted by the pruner.
Statuses == {"free", "pending", "sent", "failed", "pruned"}


FreeRow == [status |-> "free", channel |-> CHOOSE c \in Channels : TRUE,
            attempts |-> 0, wait |-> 0]

PrunedRow == [FreeRow EXCEPT !.status = "pruned"]

Down(n) == IF n > 0 THEN n - 1 ELSE n

Pending  == {id \in Ids : rows[id].status = "pending"}
Finished == {id \in Ids : rows[id].status \in {"sent", "failed"}}

\* Mutant: rows whose delivery has ended are read too.
DueWhateverStatus ==
  {[id |-> id, attempts |-> rows[id].attempts] :
     id \in {i \in Pending \cup Finished : rows[i].wait = 0}}

\* DueNotifications: copies of the pending rows whose next attempt is due.
DueNotifications ==
  {[id |-> id, attempts |-> rows[id].attempts] : id \in {i \in Pending : rows[i].wait = 0}}

\* Mutant: the newest row first.
IsLast(n) == n \in due /\ \A m \in due : m.id <= n.id

\* The queue is read ORDER BY id.
IsFirst(n) == n \in due /\ \A m \in due : n.id <= m.id

IsEnabled(c) == \E i \in DOMAIN enabled : enabled[i] = c

-----------------------------------------------------------------------------
Init ==
  /\ rows = [id \in Ids |-> FreeRow]
  /\ lastId = 0
  /\ kick = FALSE /\ owed = FALSE
  /\ enabled \in Configs
  /\ cancelled = FALSE
  /\ pc = "fetch" /\ due = {} /\ sendLeft = 0 /\ outcome = "none"
  /\ timer = None /\ blind = FALSE
  /\ setBack = 0 /\ lagging = FALSE /\ heldBack = {}
  /\ shown = [id \in Ids |-> 0] /\ excused = {} /\ banner = 0

-----------------------------------------------------------------------------
(* Engine.set and Engine.save, with e.mu held: one transaction inserts a row *)
(* per enabled channel, then the loop is kicked.                             *)

Queue ==
  /\ ~owed
  /\ enabled # <<>>
  /\ lastId + Len(enabled) <= MaxRows
  /\ rows' = [id \in Ids |->
                IF id > lastId /\ id <= lastId + Len(enabled)
                THEN [status |-> "pending", channel |-> enabled[id - lastId],
                      attempts |-> 0, wait |-> 0]
                ELSE rows[id]]
  /\ lastId' = lastId + Len(enabled)
  /\ owed' = TRUE
  /\ UNCHANGED <<kick, enabled, cancelled, loopVars, clockVars, userVars>>

\* Mutant: the kick is sent only to a loop that is already waiting for it.
KickIfWaiting ==
  /\ owed
  /\ owed' = FALSE
  /\ kick' = (kick \/ pc = "wait")
  /\ UNCHANGED <<queueVars, enabled, cancelled, loopVars, clockVars, userVars>>

Kick ==
  /\ owed
  /\ owed' = FALSE
  /\ kick' = TRUE
  /\ UNCHANGED <<queueVars, enabled, cancelled, loopVars, clockVars, userVars>>

-----------------------------------------------------------------------------
(* deliverDue *)

Fetch ==
  /\ pc = "fetch"
  /\ due' = DueNotifications
  /\ pc' = "deliver"
  /\ UNCHANGED <<queueVars, kick, owed, enabled, cancelled,
                 sendLeft, outcome, timer, blind, clockVars, userVars>>

FetchFails ==
  /\ pc = "fetch"
  /\ pc' = "arm"
  /\ UNCHANGED <<queueVars, kick, owed, enabled, cancelled,
                 due, sendLeft, outcome, timer, blind, clockVars, userVars>>

DeliverDone ==
  /\ pc = "deliver"
  /\ due = {} \/ cancelled
  /\ due' = {}
  /\ pc' = "arm"
  /\ UNCHANGED <<queueVars, kick, owed, enabled, cancelled,
                 sendLeft, outcome, timer, blind, clockVars, userVars>>

\* deliver: a channel that has been disabled fails at once.
Deliver(n) ==
  /\ pc = "deliver" /\ ~cancelled
  /\ IsFirst(n)
  /\ IF IsEnabled(rows[n.id].channel)
     THEN pc' = "sending" /\ sendLeft' = sendTimeout /\ UNCHANGED outcome
     ELSE pc' = "record" /\ outcome' = "error" /\ UNCHANGED sendLeft
  /\ UNCHANGED <<queueVars, kick, owed, enabled, cancelled,
                 due, timer, blind, clockVars, userVars>>

\* The user sees the notification; a native one replaces the one before it.
Show(n) ==
  /\ shown' = [shown EXCEPT ![n.id] = IF n.id \in excused' THEN 1 ELSE IF @ = 0 THEN 1 ELSE 2]
  /\ banner' = IF rows[n.id].channel = "native" THEN n.id ELSE banner

\* The send of n returns.
Return(n, result) ==
  /\ pc = "sending"
  /\ IsFirst(n)
  /\ pc' = "record" /\ outcome' = result /\ sendLeft' = 0
  /\ UNCHANGED <<queueVars, kick, owed, enabled, cancelled, due, timer, blind, clockVars>>

SendSucceeds(n) == Return(n, "ok") /\ UNCHANGED excused /\ Show(n)

\* An error, perhaps one that is wrong: the answer may have come too late or
\* the command may have failed after it had done its work.
SendFails(n) ==
  /\ Return(n, "error")
  /\ \/ UNCHANGED userVars
     \/ excused' = excused \cup {n.id} /\ Show(n)

\* The context ends, at the timeout or because the program stops.
SendTimesOut(n) ==
  /\ sendLeft = 0 \/ cancelled
  /\ rows[n.id].channel \notin Outlives
  /\ SendFails(n)

\* Mutant: one retry too few.
AttemptedLess(row, attempts, result) ==
  CASE result = "ok" -> [row EXCEPT !.status = "sent", !.attempts = attempts, !.wait = 0]
    [] result # "ok" /\ attempts >= Len(retryBackoff)
                     -> [row EXCEPT !.status = "failed", !.attempts = attempts, !.wait = 0]
    [] OTHER         -> [row EXCEPT !.attempts = attempts, !.wait = retryBackoff[attempts]]

\* The row after an attempt: from its end on nothing reads when it was due.
Attempted(row, attempts, result) ==
  CASE result = "ok"                    -> [row EXCEPT !.status = "sent", !.attempts = attempts, !.wait = 0]
    [] result # "ok" /\ attempts > Len(retryBackoff)
                                        -> [row EXCEPT !.status = "failed", !.attempts = attempts, !.wait = 0]
    [] OTHER                            -> [row EXCEPT !.attempts = attempts,
                                                       !.wait = retryBackoff[attempts]]

\* UpdateNotification, and on to the next row.
TakeNext(n) ==
  /\ pc = "record"
  /\ IsFirst(n)
  /\ due' = due \ {n}
  /\ pc' = "deliver" /\ outcome' = "none"
  /\ heldBack' = heldBack \ {n.id}
  /\ UNCHANGED <<lastId, kick, owed, enabled, cancelled, sendLeft, timer, blind,
                 setBack, lagging, shown, banner>>

\* Mutant: a delivered row is not marked.
RecordFailuresOnly(n) ==
  /\ TakeNext(n)
  /\ rows' = IF outcome = "ok" THEN rows
             ELSE [rows EXCEPT ![n.id] = Attempted(@, n.attempts + 1, outcome)]
  /\ UNCHANGED excused

Record(n) ==
  /\ TakeNext(n)
  /\ rows' = [rows EXCEPT ![n.id] =
                IF @.status = "pruned" THEN @ ELSE Attempted(@, n.attempts + 1, outcome)]
  /\ excused' = IF rows'[n.id].status = "pending" THEN excused ELSE excused \ {n.id}

RecordFails(n) ==
  /\ TakeNext(n)
  /\ excused' = excused \cup {n.id}
  /\ UNCHANGED rows

-----------------------------------------------------------------------------
(* runDelivery: the timer and the wait *)

\* The timer is set, or there is none: it and the wall clock start together.
TimerIs(t) == timer' = t /\ lagging' = FALSE /\ UNCHANGED <<setBack, heldBack>>

\* Mutant: only rows that are due now are waited for.
ArmForDue ==
  /\ pc = "arm"
  /\ TimerIs(IF DueNotifications = {} THEN None ELSE 0)
  /\ blind' = FALSE
  /\ pc' = "armed"
  /\ UNCHANGED <<queueVars, kick, owed, enabled, cancelled, due, sendLeft, outcome, userVars>>

Arm ==
  /\ pc = "arm"
  /\ \/ Pending = {} /\ TimerIs(None)
     \/ \E first \in Pending : /\ \A id \in Pending : rows[first].wait <= rows[id].wait
                              /\ TimerIs(rows[first].wait)
  /\ blind' = FALSE
  /\ pc' = "armed"
  /\ UNCHANGED <<queueVars, kick, owed, enabled, cancelled, due, sendLeft, outcome, userVars>>

ArmFails ==
  /\ pc = "arm"
  /\ TimerIs(Minute) /\ blind' = TRUE
  /\ pc' = "armed"
  /\ UNCHANGED <<queueVars, kick, owed, enabled, cancelled, due, sendLeft, outcome, userVars>>

\* The queue has been read, the select comes next.
Wait ==
  /\ pc = "armed"
  /\ pc' = "wait"
  /\ UNCHANGED <<queueVars, kick, owed, enabled, cancelled,
                 due, sendLeft, outcome, timer, blind, clockVars, userVars>>

Wake ==
  /\ pc = "wait"
  /\ \/ kick /\ kick' = FALSE
     \/ timer = 0 /\ UNCHANGED kick
  /\ pc' = "fetch" /\ TimerIs(None) /\ blind' = FALSE
  /\ UNCHANGED <<queueVars, owed, enabled, cancelled, due, sendLeft, outcome, userVars>>

Stop ==
  /\ pc = "wait" /\ cancelled
  /\ pc' = "stopped" /\ TimerIs(None) /\ blind' = FALSE
  /\ UNCHANGED <<queueVars, kick, owed, enabled, cancelled, due, sendLeft, outcome, userVars>>

-----------------------------------------------------------------------------
(* The rest of the program *)

\* Mutant: old rows are deleted whatever their status.
PruneByAge ==
  /\ \E oldest \in 1 .. lastId :
       rows' = [id \in Ids |-> IF id <= oldest
                               THEN PrunedRow ELSE rows[id]]
  /\ UNCHANGED <<lastId, kick, owed, enabled, cancelled, loopVars, clockVars, userVars>>

\* pruneAlerts: finished rows older than the cutoff are deleted.
Prune ==
  /\ \E oldest \in Ids :
       rows' = [id \in Ids |-> IF id <= oldest /\ id \in Finished
                               THEN PrunedRow ELSE rows[id]]
  /\ UNCHANGED <<lastId, kick, owed, enabled, cancelled, loopVars, clockVars, userVars>>

Cancel ==
  /\ cancelled' = TRUE
  /\ UNCHANGED <<queueVars, kick, owed, enabled, loopVars, clockVars, userVars>>

\* The process ends -- after Cancel, or by a crash at any point -- and is
\* started again, perhaps with other channels in its config.  A send that is
\* cut off may have reached the user.
Restart ==
  /\ enabled' \in Configs
  /\ kick' = FALSE /\ owed' = FALSE /\ cancelled' = FALSE
  /\ pc' = "fetch" /\ due' = {} /\ sendLeft' = 0 /\ outcome' = "none"
  /\ TimerIs(None) /\ blind' = FALSE
  /\ excused' = IF pc \in {"sending", "record"}
                THEN excused \cup {n.id : n \in {m \in due : IsFirst(m)}} ELSE excused
  /\ \/ UNCHANGED <<shown, banner>>
     \/ pc = "sending" /\ \E n \in due : IsFirst(n) /\ Show(n)
  /\ UNCHANGED queueVars

WallClockGoesOn ==
  rows' = [id \in Ids |-> [rows[id] EXCEPT !.wait = Down(@)]]

Tick ==
  /\ WallClockGoesOn
  /\ timer' = Down(timer)
  /\ sendLeft' = Down(sendLeft)
  /\ UNCHANGED <<lastId, kick, owed, enabled, cancelled, pc, due, outcome, blind, clockVars, userVars>>

\* The Mac sleeps, or somebody sets the clock forward: all timers are late.
WallClockRunsAhead ==
  /\ WallClockGoesOn
  /\ lagging' = (timer # None)
  /\ UNCHANGED <<lastId, kick, owed, enabled, cancelled, loopVars, setBack, heldBack, userVars>>

\* A time that has passed may be to come again, or have passed long before.
SetClockBack ==
  /\ setBack < MaxSetBack /\ setBack' = setBack + 1
  /\ \E stillPast \in SUBSET {id \in Pending : rows[id].wait = 0} :
       rows' = [id \in Ids |-> IF id \in Pending \ stillPast
                               THEN [rows[id] EXCEPT !.wait = @ + 1] ELSE rows[id]]
  /\ heldBack' = heldBack \cup {id \in Pending : rows[id].attempts = 0 /\ rows'[id].wait > 0}
  /\ UNCHANGED <<lastId, kick, owed, enabled, cancelled, loopVars, lagging, userVars>>

-----------------------------------------------------------------------------
Entries == [id : Ids, attempts : 0 .. Len(retryBackoff)]

Loop ==
  \/ Fetch \/ FetchFails \/ DeliverDone \/ Arm \/ ArmFails \/ Wait \/ Wake \/ Stop
  \/ \E n \in due : Deliver(n) \/ SendSucceeds(n) \/ SendFails(n) \/ SendTimesOut(n)
                    \/ Record(n) \/ RecordFails(n)

WallClock == Tick \/ WallClockRunsAhead \/ SetClockBack

Next == Loop \/ Queue \/ Kick \/ Prune \/ Cancel \/ Restart \/ WallClock

Spec == Init /\ [][Next]_vars

\* What the goroutine does by itself.
Proceed == DeliverDone \/ Wait \/ Wake \/ \E n \in due : Deliver(n) \/ SendTimesOut(n)

\* The loop runs, time passes, a caller of save that has committed sends its
\* kick; a store that refuses a statement does not refuse it for ever; a send
\* returns when its context ends; a program that is stopped is started again.
\* Whether a send succeeds is up to the channel.
Fairness ==
  /\ WF_vars(Tick) /\ WF_vars(Kick) /\ WF_vars(cancelled /\ Restart)
  /\ WF_vars(Proceed) /\ SF_vars(Fetch) /\ SF_vars(Arm)
  /\ \A id \in Ids : SF_vars(\E n \in due : n.id = id /\ Record(n))

FairSpec == Spec /\ Fairness

-----------------------------------------------------------------------------
Row == [status : Statuses, channel : Channels,
        attempts : 0 .. Len(retryBackoff) + 1, wait : Nat]

TypeOK ==
  /\ rows \in [Ids -> Row]
  /\ lastId \in 0 .. MaxRows
  /\ kick \in BOOLEAN /\ owed \in BOOLEAN
  /\ enabled \in Configs
  /\ cancelled \in BOOLEAN
  /\ pc \in {"fetch", "deliver", "sending", "record", "arm", "armed", "wait", "stopped"}
  /\ due \subseteq Entries
  /\ sendLeft \in Nat
  /\ outcome \in {"none", "ok", "error"}
  /\ timer \in Nat \cup {None}
  /\ blind \in BOOLEAN
  /\ setBack \in 0 .. MaxSetBack /\ lagging \in BOOLEAN /\ heldBack \subseteq Ids
  /\ shown \in [Ids -> 0 .. 2]
  /\ excused \subseteq Ids
  /\ banner \in {0} \cup Ids

\* deliverDue reads its list once and works through it while sends take their
\* time, rows are queued, the pruner runs and the clock is set: every copy it
\* still holds is of a pending row that has not been attempted since, and is sent
\* before its time by no more than the clock was set back.
DueIsCurrent ==
  \A n \in due : /\ rows[n.id].status = "pending"
                 /\ rows[n.id].attempts = n.attempts
                 /\ rows[n.id].wait <= setBack

\* The delay before the attempt a row is at.
Delay(row) == IF row.attempts = 0 THEN 0 ELSE retryBackoff[row.attempts]

\* "Failed deliveries are retried after 1 min, 5 min, 15 min, 1 h and 3 h, then
\* marked failed": a row is given up only after one attempt and every retry, and
\* waits no longer than the retry it is at, and what the clock was set back by.
GivenUpAfterEveryRetry ==
  \A id \in Ids :
    /\ rows[id].status = "failed" => rows[id].attempts = Len(retryBackoff) + 1
    /\ rows[id].status = "pending" => /\ rows[id].attempts <= Len(retryBackoff)
                                      /\ rows[id].wait <= Delay(rows[id]) + setBack

\* A row marked sent has been shown, and nothing is shown twice unless the
\* outcome of an attempt was lost: by a crash, by a failed UpdateNotification or
\* by an error that came back for a notification that did appear.
ShownOnceUnlessExcused ==
  \A id \in Ids : shown[id] \in (IF rows[id].status = "sent" THEN {1} ELSE {0, 1})

\* The timer wakes the loop for this row.
TimerIsFor(id) ==
  /\ timer # None
  /\ timer <= rows[id].wait \/ lagging
  /\ timer <= Delay(rows[id]) + setBack

\* No wake-up is lost: a waiting loop has a kick or is about to get one, or it has
\* a timer for the first pending row.  The timer ends no later than that row is
\* due, unless the wall clock has run ahead of it since it was set (the Mac was
\* asleep); then it is still not longer than the delay it was set for.  And "with
\* nothing pending it doesn't wake up at all".  (A timer set without knowing the
\* queue is the exception.)  (runDelivery)
ArmedForQueue ==
  pc = "wait" /\ ~blind =>
    /\ kick \/ owed \/ \A id \in Pending : TimerIsFor(id)
    /\ Pending = {} => timer = None

\* An older native notification takes the place of a newer one only as a retry:
\* first attempts are made in the order the rows were queued, those aside that
\* stopped being due because the clock was set back.  (deliverDue)
FirstAttemptsInOrder ==
  [][\/ banner' >= banner
     \/ rows[banner'].attempts > 0
     \/ banner' \in excused \cup heldBack]_vars

\* Whatever the channel answers, every queued notification is in the end sent or
\* given up, so that no row stays pending -- if the process is not restarted for
\* ever and no send outlives its context.
FinitelyManyRestarts == <>[][~Restart]_vars

EveryNotificationSettles ==
  FinitelyManyRestarts =>
    \A id \in Ids : []<>(rows[id].status # "pending")

\* "A newer one with the same id replaces the older."  All rows are of one
\* alert, so of one id: what is on display never gets older,
\* not even by a retry (notifications whose outcome was lost aside).
NewerReplacesOlder == [][banner' >= banner \/ banner' \in excused]_vars
=============================================================================
