---------------------------- MODULE AlertEngine ----------------------------
(***************************************************************************)
(* internal/alerts, the disk rule: Engine.ObserveSnapshot, Engine.set and  *)
(* Engine.save over the alerts table of internal/storage, with the pruner  *)
(* and with crashes and restarts (New) between any two steps.              *)
(*                                                                         *)
(* ObserveSnapshot holds e.mu from its first to its last step, so no other *)
(* caller of set runs meanwhile; the pruner, the delivery loop and a crash *)
(* do not take e.mu and may come between any two steps.                    *)
(***************************************************************************)
EXTENDS AlertRules, FiniteSets

CONSTANTS Disks,            \* the volumes: each is the key of one alert
          Usage,            \* used space of a volume in percent
          WarnPercent, CriticalPercent,
          Repeat,           \* alerts.repeat, in seconds
          Retention,        \* how old rows get before they are pruned
          Channels,         \* the channels enabled in config and available
          MaxTime           \* bound on the clock

ASSUME DisksAssumption == Disks # {} /\ IsFiniteSet(Disks)
ASSUME UsageAssumption == Usage \subseteq 0 .. 100
ASSUME PercentAssumption == WarnPercent \in Nat /\ CriticalPercent \in Nat
ASSUME TimeAssumption == /\ Repeat \in Nat
                         /\ Retention \in Nat
                         /\ MaxTime \in Nat

VARIABLES now,      \* the wall clock
          alerts,   \* Engine.alerts, the map in memory
          stored,   \* the alerts table
          queued,   \* every notification SaveAlert has queued
          kick,     \* Engine.kick, a channel with room for one
          pc,       \* where ObserveSnapshot is
          snap,     \* the snapshot it evaluates
          todo,     \* the keys its current loop has still to visit
          saving    \* what save has committed and not yet put in the map

vars == <<now, alerts, stored, queued, kick, pc, snap, todo, saving>>

Missing == -1       \* a volume that the snapshot does not list
NoSave  == [key |-> {}, alert |-> NoAlert, notify |-> FALSE]

\* One entry of the delivery queue; Delivery models what becomes of it.
Notification == [key : Disks, level : Levels, channel : Channels, createdAt : Nat]

NotificationsFor(k, a) ==
  [key : {k}, level : {a.level}, channel : Channels, createdAt : {a.notifiedAt}]

Seen == {k \in Disks : snap[k] # Missing}

-----------------------------------------------------------------------------
Init ==
  /\ now = 0
  /\ alerts = [k \in Disks |-> NoAlert]
  /\ stored = [k \in Disks |-> NoAlert]
  /\ queued = {}
  /\ kick = FALSE
  /\ pc = "idle"
  /\ snap = [k \in Disks |-> Missing]
  /\ todo = {}
  /\ saving = NoSave

-----------------------------------------------------------------------------
(* set(key, level), called with e.mu held *)

\* Nothing to do, or only the text changed: the map takes it, the disk is spared.
SetWithoutSave(k, level) ==
  /\ \/ /\ SetIgnores(alerts[k], level)
        /\ UNCHANGED alerts
     \/ /\ SetInMemory(alerts[k], level, now, Repeat)
        /\ alerts' = [alerts EXCEPT ![k] = QuietRecord(alerts[k], level, now)]
  /\ UNCHANGED <<stored, queued, saving>>

\* Mutant: the record and its notifications are not one transaction.
SaveAlertInTwo(k, level) ==
  LET a == SavedRecord(alerts[k], level, now, Repeat)
      notify == SetNotifies(alerts[k], level, now, Repeat)
  IN  /\ SetSaves(alerts[k], level, now, Repeat)
      /\ stored' = [stored EXCEPT ![k] = a]
      /\ queued' \in {queued, queued \cup NotificationsFor(k, a)}
      /\ saving' = [key |-> {k}, alert |-> a, notify |-> notify]
      /\ UNCHANGED alerts

\* SaveAlert commits the record and its notifications in one transaction.
SaveAlert(k, level) ==
  LET a      == SavedRecord(alerts[k], level, now, Repeat)
      notify == SetNotifies(alerts[k], level, now, Repeat)
  IN  /\ SetSaves(alerts[k], level, now, Repeat)
      /\ stored' = [stored EXCEPT ![k] = a]
      /\ queued' = queued \cup (IF notify THEN NotificationsFor(k, a) ELSE {})
      /\ saving' = [key |-> {k}, alert |-> a, notify |-> notify /\ Channels # {}]
      /\ UNCHANGED alerts

\* Mutant: the map takes a record the table does not have.
SaveFailsUnnoticed(k, level) ==
  /\ SetSaves(alerts[k], level, now, Repeat)
  /\ alerts' = [alerts EXCEPT ![k] = SavedRecord(alerts[k], level, now, Repeat)]
  /\ UNCHANGED <<stored, queued, saving>>

\* SaveAlert fails: the transaction is rolled back and the map is left alone,
\* so the next snapshot finds the same change to make.
SaveFails(k, level) ==
  /\ SetSaves(alerts[k], level, now, Repeat)
  /\ UNCHANGED <<alerts, stored, queued, saving>>

\* One iteration of a loop of ObserveSnapshot.
Visit(k) ==
  /\ saving = NoSave
  /\ k \in todo
  /\ todo' = todo \ {k}
  /\ UNCHANGED <<now, kick, pc, snap>>

NewLevel(k) ==
  IF pc = "set" THEN DiskLevel(snap[k], alerts[k].level, WarnPercent, CriticalPercent)
                ELSE LevelResolved

Set(k)      == pc # "idle" /\ Visit(k) /\ SetWithoutSave(k, NewLevel(k))
Save(k)     == pc # "idle" /\ Visit(k) /\ SaveAlert(k, NewLevel(k))
FailSave(k) == pc # "idle" /\ Visit(k) /\ SaveFails(k, NewLevel(k))

\* The rest of save: the map takes the record, the delivery loop is kicked
\* (the send does not block: a kick that is already there is enough).
SaveDone(k) ==
  /\ saving.key = {k}
  /\ alerts' = [alerts EXCEPT ![k] = saving.alert]
  /\ kick' = (kick \/ saving.notify)
  /\ saving' = NoSave
  /\ UNCHANGED <<now, stored, queued, pc, snap, todo>>

-----------------------------------------------------------------------------
(* ObserveSnapshot *)

\* A snapshot without volumes returns at once and changes nothing.  One that
\* lists none of Disks lists other volumes, which the model does not follow.
ObserveSnapshot(s) ==
  /\ pc = "idle"
  /\ pc' = "set"
  /\ snap' = s
  /\ todo' = {k \in Disks : s[k] # Missing}
  /\ UNCHANGED <<now, alerts, stored, queued, kick, saving>>

\* Mutant: no second loop.
ResolveNone ==
  /\ pc = "set" /\ todo = {} /\ saving = NoSave
  /\ pc' = "resolve"
  /\ UNCHANGED <<now, alerts, stored, queued, kick, snap, todo, saving>>

\* The second loop resolves the active alerts of volumes that were not seen.
ResolveUnseen ==
  /\ pc = "set" /\ todo = {} /\ saving = NoSave
  /\ pc' = "resolve"
  /\ todo' = {k \in Disks \ Seen : Active(alerts[k])}
  /\ UNCHANGED <<now, alerts, stored, queued, kick, snap, saving>>

ObserveDone ==
  /\ pc = "resolve" /\ todo = {} /\ saving = NoSave
  /\ pc' = "idle"
  /\ snap' = [k \in Disks |-> Missing]
  /\ UNCHANGED <<now, alerts, stored, queued, kick, todo, saving>>

-----------------------------------------------------------------------------
(* The rest of the program, none of which takes e.mu *)

\* pruneAlerts: resolved alerts older than the cutoff are deleted.
PruneAlerts ==
  /\ stored' = [k \in Disks |->
                  IF ~Active(stored[k]) /\ stored[k].updatedAt < now - Retention
                    THEN NoAlert ELSE stored[k]]
  /\ UNCHANGED <<now, alerts, queued, kick, pc, snap, todo, saving>>

\* The delivery loop wakes up (module Delivery).
TakeKick ==
  /\ kick
  /\ kick' = FALSE
  /\ UNCHANGED <<now, alerts, stored, queued, pc, snap, todo, saving>>

\* Mutant: New starts with an empty map.
RestartForgets ==
  /\ alerts' = [k \in Disks |-> NoAlert]
  /\ kick' = FALSE
  /\ pc' = "idle"
  /\ snap' = [k \in Disks |-> Missing]
  /\ todo' = {}
  /\ saving' = NoSave
  /\ UNCHANGED <<now, stored, queued>>

\* The process ends anywhere and is started again: New loads the table.
Restart ==
  /\ alerts' = stored
  /\ kick' = FALSE
  /\ pc' = "idle"
  /\ snap' = [k \in Disks |-> Missing]
  /\ todo' = {}
  /\ saving' = NoSave
  /\ UNCHANGED <<now, stored, queued>>

\* The wall clock runs, and may be set back.
Tick ==
  /\ now < MaxTime
  /\ now' = now + 1
  /\ UNCHANGED <<alerts, stored, queued, kick, pc, snap, todo, saving>>

SetClockBack ==
  /\ now' \in 0 .. now - 1
  /\ UNCHANGED <<alerts, stored, queued, kick, pc, snap, todo, saving>>

-----------------------------------------------------------------------------
Observe ==
  \/ \E s \in [Disks -> Usage \cup {Missing}] : ObserveSnapshot(s)
  \/ \E k \in Disks : Set(k) \/ Save(k) \/ FailSave(k) \/ SaveDone(k)
  \/ ResolveUnseen
  \/ ObserveDone

Next == Observe \/ PruneAlerts \/ TakeKick \/ Restart \/ Tick \/ SetClockBack

Spec == Init /\ [][Next]_vars

\* The collector's ticker keeps calling ObserveSnapshot, a call that has begun
\* runs to its end, and a database that refuses a write does not refuse it for
\* ever.
Fairness ==
  /\ WF_vars(Observe)
  /\ \A k \in Disks : SF_vars(Save(k))

FairSpec == Spec /\ Fairness

-----------------------------------------------------------------------------
TypeOK ==
  /\ now \in Nat
  /\ alerts \in [Disks -> Alert]
  /\ stored \in [Disks -> Alert]
  /\ queued \subseteq Notification
  /\ kick \in BOOLEAN
  /\ pc \in {"idle", "set", "resolve"}
  /\ snap \in [Disks -> Usage \cup {Missing}]
  /\ todo \subseteq Disks
  /\ saving \in [key : {{}} \cup {{k} : k \in Disks}, alert : Alert, notify : BOOLEAN]

\* The map and the table agree on everything set decides from, except for the
\* record save is moving from the one to the other, and except that the pruner
\* forgets resolved alerts only in the table.  So a restart, which replaces the
\* map by the table, changes no later decision.  (New, set, save, pruneAlerts)
SameEpisode(a, b) ==
  /\ a.level = b.level
  /\ Active(a) => /\ a.startedAt = b.startedAt
                  /\ a.notifiedLevel = b.notifiedLevel
                  /\ a.notifiedAt = b.notifiedAt

MemoryMatchesTable ==
  \A k \in Disks :
    SameEpisode(IF saving.key = {k} THEN saving.alert ELSE alerts[k], stored[k])

\* An active alert never claims less than its level was announced: whoever
\* reads the table finds the user was told at least this severity.
LevelWasAnnounced ==
  \A k \in Disks : Active(stored[k]) => stored[k].level <= stored[k].notifiedLevel

\* "A crash can never record 'notified' without the notification being
\* queued": what an active alert says was notified is in the queue, once for
\* every channel.  (SaveAlert's transaction)
NotifiedIsQueued ==
  \A k \in Disks : Active(stored[k]) =>
    \A c \in Channels :
      [key |-> k, level |-> stored[k].notifiedLevel, channel |-> c,
       createdAt |-> stored[k].notifiedAt] \in queued

\* "2 points of hysteresis": an episode begins only at a threshold, and no
\* snapshot that lists a volume resolves its alert while the volume is within
\* two points of the warning threshold.  (diskLevel, both loops of
\* ObserveSnapshot)
Hysteresis ==
  [][\A k \in Disks :
       /\ ~Active(stored[k]) /\ Active(stored'[k])
            => \/ WarnPercent > 0 /\ snap[k] >= WarnPercent
               \/ CriticalPercent > 0 /\ snap[k] >= CriticalPercent
       /\ Active(stored[k]) /\ ~Active(stored'[k]) /\ snap[k] # Missing
            => WarnPercent = 0 \/ snap[k] < WarnPercent - diskHysteresis]_vars

-----------------------------------------------------------------------------
(* Refinement: the table is the promise, memory and process are invisible. *)

EpisodeOf(a) ==
  IF Active(a)
  THEN [level |-> a.level, startedAt |-> a.startedAt,
        notifiedLevel |-> a.notifiedLevel, notifiedAt |-> a.notifiedAt]
  ELSE [level |-> LevelResolved, startedAt |-> 0,
        notifiedLevel |-> LevelResolved, notifiedAt |-> 0]

Contract == INSTANCE AlertContract
              WITH Keys <- Disks,
                   episode <- [k \in Disks |-> EpisodeOf(stored[k])],
                   announced <- queued

\* Across crashes, failed writes, pruning and clock changes the engine keeps
\* the promise of AlertContract: an episode is announced when it begins, when
\* it gets worse and every Repeat, and never otherwise.  (set and its callers)
KeepsContract == Contract!Spec

-----------------------------------------------------------------------------
(* Liveness *)

FinallyReads(k, Readings) == <>[](pc = "idle" \/ snap[k] \in Readings)

FullReadings == {u \in Usage : CriticalPercent > 0 /\ u >= CriticalPercent}
FreeReadings == {Missing} \cup
  {u \in Usage : u < WarnPercent - diskHysteresis /\ u < CriticalPercent - diskHysteresis}

FinitelyManyRestarts == <>[][~Restart]_vars

\* A volume that stays full is in the end stored as critical, and by
\* LevelWasAnnounced announced as such, whatever was lost on the way there.
FullVolumeIsReported ==
  \A k \in Disks :
    FinitelyManyRestarts /\ FinallyReads(k, FullReadings)
      => <>[](stored[k].level = LevelCritical)

\* A volume that stays free, or stays unmounted, loses its alert in the end.
FreedVolumeIsResolved ==
  \A k \in Disks :
    FinitelyManyRestarts /\ FinallyReads(k, FreeReadings)
      => <>[](~Active(stored[k]))

\* While an alert stays active it is repeated: an announcement that is Repeat
\* old does not stay the last one.
ReminderIsDue(k) == Active(stored[k]) /\ now - stored[k].notifiedAt >= Repeat

ReminderComes ==
  FinitelyManyRestarts => \A k \in Disks : ReminderIsDue(k) ~> ~ReminderIsDue(k)

=============================================================================
