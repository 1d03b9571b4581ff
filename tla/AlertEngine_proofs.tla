------------------------- MODULE AlertEngine_proofs -------------------------
(***************************************************************************)
(* Proofs about AlertEngine, for every value of its constants: its types,  *)
(* that map and table agree, that what the table says was announced is     *)
(* queued, and that the engine keeps the promise of AlertContract.         *)
(***************************************************************************)
EXTENDS AlertEngine, TLAPS

-----------------------------------------------------------------------------
(* The rules *)

\* diskLevel returns one of the three levels, whatever the percentages.
LEMMA DiskLevelType ==
  ASSUME NEW used, NEW prev, NEW warn, NEW critical
  PROVE  DiskLevel(used, prev, warn, critical) \in Levels
  BY DEF DiskLevel, Levels, LevelResolved, LevelWarning, LevelCritical

\* A level that has been set holds its ground: the same reading gives it again,
\* so an alert does not move while the usage of its volume does not.
\* (diskLevel, for every pair of thresholds)
THEOREM DiskLevelStable ==
  ASSUME NEW used \in Int, NEW prev \in Levels, NEW warn \in Nat, NEW critical \in Nat
  PROVE  LET level == DiskLevel(used, prev, warn, critical)
         IN  DiskLevel(used, level, warn, critical) = level
  BY DEF DiskLevel, Reached, Levels, LevelResolved, LevelWarning, LevelCritical, diskHysteresis

\* More used space never means a lower level, and neither does a higher level
\* before.  (diskLevel)
THEOREM DiskLevelMonotone ==
  ASSUME NEW used \in Int, NEW more \in Int, used <= more,
         NEW prev \in Levels, NEW worse \in Levels, prev <= worse,
         NEW warn \in Nat, NEW critical \in Nat
  PROVE  DiskLevel(used, prev, warn, critical) <= DiskLevel(more, worse, warn, critical)
  BY DEF DiskLevel, Reached, Levels, LevelResolved, LevelWarning, LevelCritical, diskHysteresis

\* The records set makes are alert records.
LEMMA NoAlertType == NoAlert \in Alert
  BY DEF NoAlert, Alert, Levels, LevelResolved, LevelCritical

LEMMA QuietRecordType ==
  ASSUME NEW a \in Alert, NEW level \in Levels, NEW t \in Nat
  PROVE  QuietRecord(a, level, t) \in Alert
  BY NoAlertType DEF QuietRecord, Episode, Alert, NoAlert

LEMMA SavedRecordType ==
  ASSUME NEW a \in Alert, NEW level \in Levels, NEW t \in Nat, NEW r \in Nat
  PROVE  SavedRecord(a, level, t, r) \in Alert
<1>1. ResolvedRecord(a, t) \in Alert
  <2>1. LevelResolved \in Levels
    BY DEF Levels, LevelResolved, LevelCritical
  <2>. QED
    BY <2>1 DEF ResolvedRecord, Alert
<1>2. NotifiedRecord(a, level, t) \in Alert
  BY QuietRecordType DEF NotifiedRecord, Alert
<1>. QED
  BY <1>1, <1>2, QuietRecordType DEF SavedRecord

LEMMA NewLevelType == ASSUME NEW k PROVE NewLevel(k) \in Levels
  BY DiskLevelType DEF NewLevel, Levels, LevelResolved, LevelCritical

-----------------------------------------------------------------------------
(* Types *)

LEMMA TypeInit == Init => TypeOK
<1> SUFFICES ASSUME Init PROVE TypeOK
  OBVIOUS
<1>. QED
  BY NoAlertType DEF Init, TypeOK, NoSave

LEMMA TypeNext == TypeOK /\ [Next]_vars => TypeOK'
<1> SUFFICES ASSUME TypeOK, [Next]_vars PROVE TypeOK'
  OBVIOUS
<1> USE TimeAssumption DEF TypeOK
<1>1. ASSUME NEW s \in [Disks -> Usage \cup {Missing}], ObserveSnapshot(s) PROVE TypeOK'
  BY <1>1 DEF ObserveSnapshot
<1>2. ASSUME NEW k \in Disks, Set(k) PROVE TypeOK'
  <2>1. NewLevel(k) \in Levels
    BY NewLevelType
  <2>2. QuietRecord(alerts[k], NewLevel(k), now) \in Alert
    BY <2>1, QuietRecordType
  <2>. QED
    BY <1>2, <2>2 DEF Set, Visit, SetWithoutSave
<1>3. ASSUME NEW k \in Disks, Save(k) PROVE TypeOK'
  <2> DEFINE a == SavedRecord(alerts[k], NewLevel(k), now, Repeat)
             notify == SetNotifies(alerts[k], NewLevel(k), now, Repeat)
  <2>1. a \in Alert
    BY NewLevelType, SavedRecordType
  <2>2. /\ stored' = [stored EXCEPT ![k] = a]
        /\ queued' = queued \cup (IF notify THEN NotificationsFor(k, a) ELSE {})
        /\ saving' = [key |-> {k}, alert |-> a, notify |-> notify /\ Channels # {}]
        /\ todo' = todo \ {k}
        /\ UNCHANGED <<alerts, now, kick, pc, snap>>
    BY <1>3 DEF Save, Visit, SaveAlert
  <2>3. NotificationsFor(k, a) \subseteq Notification
    BY <2>1 DEF NotificationsFor, Notification, Alert
  <2>4. (notify /\ Channels # {}) \in BOOLEAN
    OBVIOUS
  <2> HIDE DEF a, notify
  <2>5. saving' \in [key : {{}} \cup {{j} : j \in Disks}, alert : Alert, notify : BOOLEAN]
    BY <2>1, <2>2, <2>4
  <2>. QED
    BY <2>1, <2>2, <2>3, <2>5
<1>4. ASSUME NEW k \in Disks, FailSave(k) PROVE TypeOK'
  BY <1>4 DEF FailSave, Visit, SaveFails
<1>5. ASSUME NEW k \in Disks, SaveDone(k) PROVE TypeOK'
  BY <1>5, NoAlertType DEF SaveDone, NoSave
<1>6. CASE ResolveUnseen
  BY <1>6 DEF ResolveUnseen
<1>7. CASE ObserveDone
  BY <1>7 DEF ObserveDone
<1>8. CASE PruneAlerts
  BY <1>8, NoAlertType DEF PruneAlerts
<1>9. CASE TakeKick
  BY <1>9 DEF TakeKick
<1>10. CASE Restart
  BY <1>10, NoAlertType DEF Restart, NoSave
<1>11. CASE Tick
  BY <1>11 DEF Tick
<1>12. CASE SetClockBack
  BY <1>12 DEF SetClockBack
<1>13. CASE UNCHANGED vars
  BY <1>13 DEF vars
<1>. QED
  BY <1>1, <1>2, <1>3, <1>4, <1>5, <1>6, <1>7, <1>8, <1>9, <1>10, <1>11, <1>12, <1>13
  DEF Next, Observe

\* Every variable keeps its type.
THEOREM TypeCorrect == Spec => []TypeOK
  BY TypeInit, TypeNext, PTL DEF Spec

-----------------------------------------------------------------------------
(* What a save makes of a record: it ends the episode, announces, or moves   *)
(* the level within what was announced.                                      *)

LEMMA SavedResolved ==
  ASSUME NEW a \in Alert, NEW t \in Nat, NEW r \in Nat, SetSaves(a, LevelResolved, t, r)
  PROVE  /\ Active(a)
         /\ ~Active(SavedRecord(a, LevelResolved, t, r))
         /\ ~SetNotifies(a, LevelResolved, t, r)
<1>0. ~SetNotifies(a, LevelResolved, t, r)
  BY DEF SetNotifies, LevelResolved
<1>1. SavedRecord(a, LevelResolved, t, r) = ResolvedRecord(a, t)
  BY <1>0 DEF SavedRecord
<1>2. ResolvedRecord(a, t).level = LevelResolved
  BY DEF ResolvedRecord, Alert
<1>. QED
  BY <1>0, <1>1, <1>2 DEF SetSaves, SetIgnores, Active, LevelResolved

LEMMA SavedNotified ==
  ASSUME NEW a \in Alert, NEW level \in Levels, NEW t \in Nat, NEW r \in Nat,
         SetNotifies(a, level, t, r)
  PROVE  LET b == SavedRecord(a, level, t, r)
         IN  /\ level > LevelResolved
             /\ Active(b)
             /\ b.level = level
             /\ b.startedAt = IF Active(a) THEN a.startedAt ELSE t
             /\ b.notifiedLevel = level
             /\ b.notifiedAt = t
             /\ Active(a) => level > a.notifiedLevel \/ t - a.notifiedAt >= r
<1>1. level # LevelResolved /\ level > LevelResolved
  BY DEF SetNotifies, LevelResolved, Levels
<1>2. SavedRecord(a, level, t, r) = NotifiedRecord(a, level, t)
  BY <1>1 DEF SavedRecord
<1>3. Active(a) => level > a.notifiedLevel \/ t - a.notifiedAt >= r
  BY DEF SetNotifies, Heard, Episode, Alert, Levels
<1>4. /\ NotifiedRecord(a, level, t).level = level
      /\ NotifiedRecord(a, level, t).notifiedLevel = level
      /\ NotifiedRecord(a, level, t).notifiedAt = t
      /\ NotifiedRecord(a, level, t).startedAt = IF Active(a) THEN a.startedAt ELSE t
  BY DEF NotifiedRecord, QuietRecord, Episode, NoAlert, Alert
<1>. QED
  BY <1>1, <1>2, <1>3, <1>4 DEF Active

LEMMA SavedQuietly ==
  ASSUME NEW a \in Alert, NEW level \in Levels, NEW t \in Nat, NEW r \in Nat,
         level # LevelResolved, ~SetNotifies(a, level, t, r)
  PROVE  LET b == SavedRecord(a, level, t, r)
         IN  /\ Active(a)
             /\ level > LevelResolved
             /\ b = QuietRecord(a, level, t)
             /\ b.level = level
             /\ b.startedAt = a.startedAt
             /\ b.notifiedLevel = a.notifiedLevel
             /\ b.notifiedAt = a.notifiedAt
             /\ level <= a.notifiedLevel
             /\ t - a.notifiedAt < r
<1>1. level > LevelResolved /\ Heard(a, level, t, r)
  BY DEF SetNotifies, Levels, LevelResolved, LevelCritical
<1>2. Active(a)
  <2>1. ~Active(a) => Episode(a, t).notifiedLevel = LevelResolved
    BY DEF Episode, NoAlert
  <2>. QED
    BY <1>1, <2>1 DEF Heard, LevelResolved, Levels, LevelCritical
<1>3. Episode(a, t) = a
  BY <1>2 DEF Episode
<1>4. level <= a.notifiedLevel /\ t - a.notifiedAt < r
  BY <1>1, <1>3 DEF Heard
<1>5. SavedRecord(a, level, t, r) = QuietRecord(a, level, t)
  BY DEF SavedRecord
<1>6. /\ QuietRecord(a, level, t).level = level
      /\ QuietRecord(a, level, t).startedAt = a.startedAt
      /\ QuietRecord(a, level, t).notifiedLevel = a.notifiedLevel
      /\ QuietRecord(a, level, t).notifiedAt = a.notifiedAt
  BY <1>3 DEF QuietRecord, Alert
<1>. QED
  BY <1>1, <1>2, <1>4, <1>5, <1>6

\* A change in memory only leaves everything set decides from as it was.
LEMMA InMemoryKeepsEpisode ==
  ASSUME NEW a \in Alert, NEW level \in Levels, NEW t \in Nat, NEW r \in Nat,
         SetInMemory(a, level, t, r)
  PROVE  SameEpisode(QuietRecord(a, level, t), a)
<1>1. level # LevelResolved /\ ~SetNotifies(a, level, t, r)
  BY DEF SetInMemory, SetNotifies, LevelResolved, Levels
<1>2. a.level = level
  <2>1. Active(a)
    BY <1>1, SavedQuietly
  <2>. QED
    BY <2>1 DEF SetInMemory, Episode
<1>. QED
  BY <1>1, <1>2, SavedQuietly DEF SameEpisode

LEMMA SameEpisodeTransitive ==
  ASSUME NEW a, NEW b, NEW c, SameEpisode(a, b), SameEpisode(b, c)
  PROVE  SameEpisode(a, c)
  BY DEF SameEpisode, Active

-----------------------------------------------------------------------------
(* The safety invariants.  None is inductive alone: what a save writes is     *)
(* decided from the map, so that the table's record is announced and queued   *)
(* needs that the map agrees with it.                                        *)

IInv == /\ TypeOK
        /\ MemoryMatchesTable
        /\ LevelWasAnnounced
        /\ NotifiedIsQueued

LEMMA SafeInit == Init => IInv
<1> SUFFICES ASSUME Init PROVE IInv
  OBVIOUS
<1>1. \A k \in Disks : stored[k] = NoAlert /\ alerts[k] = NoAlert /\ saving.key # {k}
  BY DEF Init, NoSave
<1>2. ~Active(NoAlert)
  BY DEF Active, NoAlert, LevelResolved
<1>. QED
  BY <1>1, <1>2, TypeInit
  DEF IInv, MemoryMatchesTable, SameEpisode, LevelWasAnnounced, NotifiedIsQueued

\* A step that changes neither the table nor the queue keeps what relates them.
LEMMA TableUnchanged ==
  ASSUME IInv, UNCHANGED <<stored, queued>>
  PROVE  LevelWasAnnounced' /\ NotifiedIsQueued'
  BY DEF IInv, LevelWasAnnounced, NotifiedIsQueued

\* What the table has for k when save is not under way is what the map has.
LEMMA MapIsTable ==
  ASSUME IInv, saving = NoSave, NEW k \in Disks
  PROVE  SameEpisode(alerts[k], stored[k])
<1>1. saving.key # {k}
  BY DEF NoSave
<1>. QED
  BY <1>1 DEF IInv, MemoryMatchesTable

LEMMA SafeSet ==
  ASSUME IInv, NEW k \in Disks, Set(k)
  PROVE  MemoryMatchesTable'
<1> SUFFICES ASSUME NEW j \in Disks PROVE SameEpisode(alerts'[j], stored'[j])
  BY DEF Set, Visit, SetWithoutSave, MemoryMatchesTable, NoSave
<1>1. saving = NoSave /\ stored' = stored
  BY DEF Set, Visit, SetWithoutSave
<1>2. SameEpisode(alerts[j], stored[j])
  BY <1>1, MapIsTable
<1>3. CASE alerts' = alerts
  BY <1>1, <1>2, <1>3
<1>4. CASE /\ SetInMemory(alerts[k], NewLevel(k), now, Repeat)
           /\ alerts' = [alerts EXCEPT ![k] = QuietRecord(alerts[k], NewLevel(k), now)]
  <2>1. SameEpisode(QuietRecord(alerts[k], NewLevel(k), now), alerts[k])
    BY <1>4, InMemoryKeepsEpisode, NewLevelType, TimeAssumption DEF IInv, TypeOK
  <2>2. alerts'[j] = IF j = k THEN QuietRecord(alerts[k], NewLevel(k), now) ELSE alerts[j]
    BY <1>4 DEF IInv, TypeOK
  <2>. QED
    BY <1>1, <1>2, <2>1, <2>2, SameEpisodeTransitive
<1>. QED
  BY <1>3, <1>4 DEF Set, SetWithoutSave

LEMMA SafeSave ==
  ASSUME IInv, NEW k \in Disks, Save(k)
  PROVE  MemoryMatchesTable' /\ LevelWasAnnounced' /\ NotifiedIsQueued'
<1> DEFINE level == NewLevel(k)
           a == SavedRecord(alerts[k], level, now, Repeat)
           notify == SetNotifies(alerts[k], level, now, Repeat)
<1>1. /\ saving = NoSave
      /\ SetSaves(alerts[k], level, now, Repeat)
      /\ stored' = [stored EXCEPT ![k] = a]
      /\ queued' = queued \cup (IF notify THEN NotificationsFor(k, a) ELSE {})
      /\ saving' = [key |-> {k}, alert |-> a, notify |-> notify /\ Channels # {}]
      /\ alerts' = alerts
  BY DEF Save, Visit, SaveAlert
<1>2. /\ alerts[k] \in Alert /\ level \in Levels /\ now \in Nat /\ Repeat \in Nat
      /\ stored \in [Disks -> Alert]
  BY NewLevelType, TimeAssumption DEF IInv, TypeOK
<1>3. \A j \in Disks : stored'[j] = IF j = k THEN a ELSE stored[j]
  BY <1>1, <1>2
<1>4. MemoryMatchesTable'
  <2> SUFFICES ASSUME NEW j \in Disks
               PROVE  SameEpisode(IF saving'.key = {j} THEN saving'.alert ELSE alerts'[j],
                                  stored'[j])
    BY DEF MemoryMatchesTable
  <2>1. saving'.key = {k} /\ saving'.alert = a
    BY <1>1
  <2>2. SameEpisode(a, a)
    BY DEF SameEpisode
  <2>3. CASE j = k
    BY <1>3, <2>1, <2>2, <2>3
  <2>4. CASE j # k
    BY <1>1, <1>3, <2>1, <2>4, MapIsTable
  <2>. QED
    BY <2>3, <2>4
<1>5. Active(a) => /\ a.level <= a.notifiedLevel
                   /\ \A c \in Channels :
                        [key |-> k, level |-> a.notifiedLevel, channel |-> c,
                         createdAt |-> a.notifiedAt] \in queued'
  <2>1. CASE level = LevelResolved
    BY <1>1, <1>2, <2>1, SavedResolved
  <2>2. CASE notify
    <3>1. a.level = a.notifiedLevel /\ a.level \in Levels
      BY <1>2, <2>2, SavedNotified
    <3>2. NotificationsFor(k, a) \subseteq queued'
      BY <1>1, <2>2
    <3>. QED
      BY <3>1, <3>2 DEF NotificationsFor, Levels, LevelResolved, LevelCritical
  <2>3. CASE level # LevelResolved /\ ~notify
    <3>1. /\ Active(alerts[k])
          /\ a.level = level /\ level <= alerts[k].notifiedLevel
          /\ a.notifiedLevel = alerts[k].notifiedLevel
          /\ a.notifiedAt = alerts[k].notifiedAt
      BY <1>2, <2>3, SavedQuietly
    <3>2. /\ Active(stored[k])
          /\ a.notifiedLevel = stored[k].notifiedLevel
          /\ a.notifiedAt = stored[k].notifiedAt
      BY <1>1, <3>1, MapIsTable DEF SameEpisode, Active
    <3>. QED
      BY <1>1, <3>1, <3>2 DEF IInv, NotifiedIsQueued
  <2>. QED
    BY <2>1, <2>2, <2>3
<1>6. queued \subseteq queued'
  BY <1>1
<1> HIDE DEF a, level, notify
<1>7. LevelWasAnnounced'
  BY <1>3, <1>5 DEF IInv, LevelWasAnnounced
<1>8. NotifiedIsQueued'
  BY <1>3, <1>5, <1>6 DEF IInv, NotifiedIsQueued
<1>. QED
  BY <1>4, <1>7, <1>8

LEMMA SafeNext == IInv /\ [Next]_vars => IInv'
<1> SUFFICES ASSUME IInv, [Next]_vars
             PROVE  MemoryMatchesTable' /\ LevelWasAnnounced' /\ NotifiedIsQueued'
  BY TypeNext DEF IInv
<1>1. ASSUME UNCHANGED <<alerts, stored, queued, saving>>
      PROVE  MemoryMatchesTable' /\ LevelWasAnnounced' /\ NotifiedIsQueued'
  BY <1>1, TableUnchanged DEF IInv, MemoryMatchesTable
<1>2. ASSUME NEW s \in [Disks -> Usage \cup {Missing}], ObserveSnapshot(s)
      PROVE  UNCHANGED <<alerts, stored, queued, saving>>
  BY <1>2 DEF ObserveSnapshot
<1>3. ASSUME NEW k \in Disks, Set(k)
      PROVE  MemoryMatchesTable' /\ LevelWasAnnounced' /\ NotifiedIsQueued'
  <2>1. UNCHANGED <<stored, queued>>
    BY <1>3 DEF Set, SetWithoutSave
  <2>. QED
    BY <1>3, <2>1, SafeSet, TableUnchanged
<1>4. ASSUME NEW k \in Disks, FailSave(k) PROVE UNCHANGED <<alerts, stored, queued, saving>>
  BY <1>4 DEF FailSave, SaveFails
<1>5. ASSUME NEW k \in Disks, SaveDone(k)
      PROVE  MemoryMatchesTable' /\ LevelWasAnnounced' /\ NotifiedIsQueued'
  <2>1. UNCHANGED <<stored, queued>>
    BY <1>5 DEF SaveDone
  <2>2. ASSUME NEW j \in Disks
        PROVE  /\ saving'.key # {j}
               /\ alerts'[j] = IF saving.key = {j} THEN saving.alert ELSE alerts[j]
    BY <1>5 DEF SaveDone, NoSave, IInv, TypeOK
  <2>3. MemoryMatchesTable'
    BY <2>1, <2>2 DEF IInv, MemoryMatchesTable
  <2>. QED
    BY <2>1, <2>3, TableUnchanged
<1>6. CASE ResolveUnseen
  BY <1>1, <1>6 DEF ResolveUnseen
<1>7. CASE ObserveDone
  BY <1>1, <1>7 DEF ObserveDone
<1>8. CASE PruneAlerts
  <2>1. ASSUME NEW k \in Disks
        PROVE  \/ stored'[k] = stored[k]
               \/ ~Active(stored[k]) /\ ~Active(stored'[k])
                  /\ stored'[k].level = stored[k].level
    <3>1. ~Active(stored[k]) => stored[k].level = LevelResolved
      BY DEF IInv, TypeOK, Alert, Active, Levels, LevelResolved, LevelCritical
    <3>2. ~Active(NoAlert) /\ NoAlert.level = LevelResolved
      BY DEF NoAlert, Active, LevelResolved
    <3>. QED
      BY <1>8, <3>1, <3>2 DEF PruneAlerts
  <2>2. UNCHANGED <<alerts, saving, queued>>
    BY <1>8 DEF PruneAlerts
  <2>3. MemoryMatchesTable'
    BY <2>1, <2>2 DEF IInv, MemoryMatchesTable, SameEpisode, Active
  <2>4. LevelWasAnnounced' /\ NotifiedIsQueued'
    BY <2>1, <2>2 DEF IInv, LevelWasAnnounced, NotifiedIsQueued
  <2>. QED
    BY <2>3, <2>4
<1>9. CASE TakeKick
  BY <1>1, <1>9 DEF TakeKick
<1>10. CASE Restart
  <2>1. UNCHANGED <<stored, queued>> /\ alerts' = stored
        /\ \A k \in Disks : saving'.key # {k}
    BY <1>10 DEF Restart, NoSave
  <2>. QED
    BY <2>1, TableUnchanged DEF MemoryMatchesTable, SameEpisode
<1>11. CASE Tick
  BY <1>1, <1>11 DEF Tick
<1>12. CASE SetClockBack
  BY <1>1, <1>12 DEF SetClockBack
<1>13. CASE UNCHANGED vars
  BY <1>1, <1>13 DEF vars
<1>. QED
  BY <1>1, <1>2, <1>3, <1>4, <1>5, <1>6, <1>7, <1>8, <1>9, <1>10, <1>11, <1>12, <1>13,
     SafeSave DEF Next, Observe

LEMMA Safe == Spec => []IInv
  BY SafeInit, SafeNext, PTL DEF Spec

\* A restart changes no later decision: map and table agree.
THEOREM MemoryMatches == Spec => []MemoryMatchesTable
  BY Safe, PTL DEF IInv

\* An active alert never claims less than its level was announced.
THEOREM LevelAnnounced == Spec => []LevelWasAnnounced
  BY Safe, PTL DEF IInv

\* What an active alert says was notified is in the queue for every channel.
THEOREM NotifiedQueued == Spec => []NotifiedIsQueued
  BY Safe, PTL DEF IInv

-----------------------------------------------------------------------------
(* Hysteresis: it needs that the second loop visits no volume that was seen. *)

LoopInv == pc = "resolve" => todo \cap Seen = {}

LEMMA LoopInvNext == TypeOK /\ LoopInv /\ [Next]_vars => LoopInv'
<1> SUFFICES ASSUME TypeOK, LoopInv, [Next]_vars PROVE LoopInv'
  OBVIOUS
<1> USE DEF LoopInv, Seen
<1>1. ASSUME NEW s \in [Disks -> Usage \cup {Missing}], ObserveSnapshot(s) PROVE LoopInv'
  BY <1>1 DEF ObserveSnapshot
<1>2. ASSUME NEW k \in Disks, Visit(k) PROVE LoopInv'
  BY <1>2 DEF Visit
<1>3. ASSUME NEW k \in Disks, SaveDone(k) PROVE LoopInv'
  BY <1>3 DEF SaveDone
<1>4. CASE ResolveUnseen
  BY <1>4 DEF ResolveUnseen
<1>5. CASE ObserveDone \/ Restart
  BY <1>5 DEF ObserveDone, Restart
<1>6. CASE PruneAlerts \/ TakeKick \/ Tick \/ SetClockBack \/ UNCHANGED vars
  BY <1>6 DEF PruneAlerts, TakeKick, Tick, SetClockBack, vars
<1>. QED
  BY <1>1, <1>2, <1>3, <1>4, <1>5, <1>6 DEF Next, Observe, Set, Save, FailSave

\* What diskLevel does to an alert that is, or is not, active.
LEMMA DiskLevelBounds ==
  ASSUME NEW used \in Int, NEW prev \in Levels, NEW warn \in Nat, NEW critical \in Nat
  PROVE  LET level == DiskLevel(used, prev, warn, critical)
         IN  /\ prev = LevelResolved /\ level > LevelResolved
                  => \/ warn > 0 /\ used >= warn
                     \/ critical > 0 /\ used >= critical
             /\ prev > LevelResolved /\ level = LevelResolved
                  => warn = 0 \/ used < warn - diskHysteresis
  BY DEF DiskLevel, Reached, Levels, LevelResolved, LevelWarning, LevelCritical, diskHysteresis

\* An episode begins and ends for the volume k as Hysteresis asks.
KeepsBand(k) ==
  /\ ~Active(stored[k]) /\ Active(stored'[k])
       => \/ WarnPercent > 0 /\ snap[k] >= WarnPercent
          \/ CriticalPercent > 0 /\ snap[k] >= CriticalPercent
  /\ Active(stored[k]) /\ ~Active(stored'[k]) /\ snap[k] # Missing
       => WarnPercent = 0 \/ snap[k] < WarnPercent - diskHysteresis

LEMMA SaveKeepsBand ==
  ASSUME IInv, LoopInv, NEW j \in Disks, Save(j), NEW k \in Disks
  PROVE  KeepsBand(k)
<1> DEFINE a == SavedRecord(alerts[j], NewLevel(j), now, Repeat)
<1>1. /\ saving = NoSave /\ j \in todo /\ pc # "idle"
      /\ SetSaves(alerts[j], NewLevel(j), now, Repeat)
      /\ stored' = [stored EXCEPT ![j] = a]
  BY DEF Save, Visit, SaveAlert
<1>2. /\ alerts[j] \in Alert /\ now \in Nat /\ Repeat \in Nat
      /\ stored \in [Disks -> Alert] /\ stored[j] \in Alert
      /\ snap[j] \in Int /\ NewLevel(j) \in Levels
      /\ alerts[j].level \in Levels
  <2>1. alerts[j] \in Alert /\ snap[j] \in Usage \cup {Missing}
    BY DEF IInv, TypeOK
  <2>2. alerts[j].level \in Levels
    BY <2>1 DEF Alert
  <2>3. snap[j] \in Int
    BY <2>1, UsageAssumption DEF Missing
  <2>. QED
    BY <2>1, <2>2, <2>3, NewLevelType, TimeAssumption DEF IInv, TypeOK
<1>3. stored'[k] = IF k = j THEN a ELSE stored[k]
  BY <1>1, <1>2
<1>4. CASE k # j
  BY <1>3, <1>4 DEF KeepsBand
<1>5. CASE k = j
  <2>1. alerts[j].level = stored[j].level
    BY <1>1, MapIsTable DEF SameEpisode
  <2>2. Active(a) <=> NewLevel(j) > LevelResolved
    <3>1. CASE NewLevel(j) = LevelResolved
      BY <1>1, <1>2, <3>1, SavedResolved DEF LevelResolved
    <3>2. CASE SetNotifies(alerts[j], NewLevel(j), now, Repeat)
      BY <1>2, <3>2, SavedNotified
    <3>3. CASE NewLevel(j) # LevelResolved /\ ~SetNotifies(alerts[j], NewLevel(j), now, Repeat)
      BY <1>2, <3>3, SavedQuietly DEF Active
    <3>. QED
      BY <3>1, <3>2, <3>3
  <2>3. alerts[j].level > LevelResolved <=> Active(stored[j])
    BY <2>1 DEF Active
  <2>4. NewLevel(j) > LevelResolved \/ NewLevel(j) = LevelResolved
    BY <1>2 DEF Levels, LevelResolved
  <2>5. alerts[j].level > LevelResolved \/ alerts[j].level = LevelResolved
    BY <1>2 DEF Levels, LevelResolved
  <2> HIDE DEF a
  <2>6. CASE pc = "set"
    <3>1. NewLevel(j) = DiskLevel(snap[j], alerts[j].level, WarnPercent, CriticalPercent)
      BY <2>6 DEF NewLevel
    <3>. QED
      BY <1>2, <1>3, <1>5, <2>2, <2>3, <2>4, <2>5, <3>1, DiskLevelBounds, PercentAssumption
      DEF KeepsBand
  <2>7. CASE pc # "set"
    <3>1. NewLevel(j) = LevelResolved
      BY <2>7 DEF NewLevel
    <3>2. pc = "resolve"
      BY <1>1, <2>7 DEF IInv, TypeOK
    <3>3. snap[j] = Missing
      BY <1>1, <3>2 DEF LoopInv, Seen
    <3>4. ~Active(a)
      BY <2>2, <3>1 DEF LevelResolved
    <3>. QED
      BY <1>3, <1>5, <3>3, <3>4 DEF KeepsBand
  <2>. QED
    BY <2>6, <2>7
<1>. QED
  BY <1>4, <1>5

LEMMA HysteresisNext ==
  IInv /\ LoopInv /\ [Next]_vars => [\A k \in Disks : KeepsBand(k)]_vars
<1> SUFFICES ASSUME IInv, LoopInv, Next, NEW k \in Disks PROVE KeepsBand(k)
  OBVIOUS
<1>1. ASSUME UNCHANGED stored PROVE KeepsBand(k)
  BY <1>1 DEF KeepsBand
<1>2. ASSUME NEW j \in Disks, Set(j) \/ FailSave(j) \/ SaveDone(j) PROVE UNCHANGED stored
  BY <1>2 DEF Set, SetWithoutSave, FailSave, SaveFails, SaveDone
<1>3. ASSUME NEW s \in [Disks -> Usage \cup {Missing}], ObserveSnapshot(s) PROVE UNCHANGED stored
  BY <1>3 DEF ObserveSnapshot
<1>4. CASE ResolveUnseen \/ ObserveDone \/ TakeKick \/ Restart \/ Tick \/ SetClockBack
  BY <1>1, <1>4 DEF ResolveUnseen, ObserveDone, TakeKick, Restart, Tick, SetClockBack
<1>5. CASE PruneAlerts
  <2>1. ~Active(NoAlert)
    BY DEF Active, NoAlert, LevelResolved
  <2>2. Active(stored[k]) <=> Active(stored'[k])
    BY <1>5, <2>1 DEF PruneAlerts
  <2>. QED
    BY <2>2 DEF KeepsBand
<1>. QED
  BY <1>1, <1>2, <1>3, <1>4, <1>5, SaveKeepsBand DEF Next, Observe

\* Levels begin at a threshold only and end two points below it only.
THEOREM HysteresisKept == Spec => Hysteresis
<1>1. Init => LoopInv
  BY DEF Init, LoopInv
<1>2. TypeOK /\ LoopInv /\ [Next]_vars => LoopInv'
  BY LoopInvNext
<1>3. Spec => []LoopInv
  BY <1>1, <1>2, TypeCorrect, PTL DEF Spec
<1>4. IInv /\ LoopInv /\ [Next]_vars => [\A k \in Disks : KeepsBand(k)]_vars
  BY HysteresisNext
<1>5. Spec => [][\A k \in Disks : KeepsBand(k)]_vars
  BY <1>3, <1>4, Safe, PTL DEF Spec
<1>. QED
  BY <1>5 DEF Hysteresis, KeepsBand

-----------------------------------------------------------------------------
(* Refinement: the table shows the episodes of AlertContract.               *)

LEMMA ContractLevels ==
  /\ Contract!LevelResolved = LevelResolved
  /\ Contract!LevelWarning = LevelWarning
  /\ Contract!LevelCritical = LevelCritical
  BY DEF Contract!LevelResolved, Contract!LevelWarning, Contract!LevelCritical,
         LevelResolved, LevelWarning, LevelCritical

LEMMA ContractInit == Init => Contract!Init
<1> SUFFICES ASSUME Init PROVE Contract!Init
  OBVIOUS
<1>1. EpisodeOf(NoAlert) = Contract!NoEpisode
  BY ContractLevels DEF EpisodeOf, Contract!NoEpisode, NoAlert, Active, LevelResolved
<1>. QED
  BY <1>1 DEF Init, Contract!Init

\* What is not active shows no episode, what is active shows its record.
LEMMA EpisodeShown ==
  ASSUME NEW a \in Alert
  PROVE  /\ EpisodeOf(a).level = a.level
         /\ EpisodeOf(a).level > LevelResolved <=> Active(a)
         /\ ~Active(a) => EpisodeOf(a) = Contract!NoEpisode
         /\ Active(a) => EpisodeOf(a) = [level |-> a.level, startedAt |-> a.startedAt,
                                         notifiedLevel |-> a.notifiedLevel,
                                         notifiedAt |-> a.notifiedAt]
  BY ContractLevels DEF EpisodeOf, Contract!NoEpisode, Active, Alert, Levels, LevelResolved, LevelCritical

LEMMA SameEpisodeShown ==
  ASSUME NEW a \in Alert, NEW b \in Alert, SameEpisode(a, b)
  PROVE  EpisodeOf(a) = EpisodeOf(b)
  BY DEF SameEpisode, EpisodeOf, Active

\* A save is a step of the contract: which one depends on the new level and on
\* whether it is announced.
LEMMA SaveKeepsContract ==
  ASSUME IInv, NEW k \in Disks, Save(k)
  PROVE  Contract!Next
<1> DEFINE level == NewLevel(k)
           a == SavedRecord(alerts[k], level, now, Repeat)
           notify == SetNotifies(alerts[k], level, now, Repeat)
           shown == [j \in Disks |-> EpisodeOf(stored[j])]
           showing == [j \in Disks |-> EpisodeOf(stored'[j])]
<1>1. /\ saving = NoSave
      /\ SetSaves(alerts[k], level, now, Repeat)
      /\ stored' = [stored EXCEPT ![k] = a]
      /\ queued' = queued \cup (IF notify THEN NotificationsFor(k, a) ELSE {})
      /\ UNCHANGED now
  BY DEF Save, Visit, SaveAlert
<1>2. /\ alerts[k] \in Alert /\ level \in Levels /\ now \in Nat /\ Repeat \in Nat
      /\ stored \in [Disks -> Alert] /\ stored[k] \in Alert
  BY NewLevelType, TimeAssumption DEF IInv, TypeOK
<1>3. a \in Alert
  BY <1>2, SavedRecordType
<1>4. EpisodeOf(alerts[k]) = EpisodeOf(stored[k])
  BY <1>1, <1>2, MapIsTable, SameEpisodeShown
<1>5. /\ Active(alerts[k]) <=> Active(stored[k])
      /\ Active(alerts[k]) =>
           /\ alerts[k].startedAt = stored[k].startedAt
           /\ alerts[k].notifiedLevel = stored[k].notifiedLevel
           /\ alerts[k].notifiedAt = stored[k].notifiedAt
  BY <1>1, MapIsTable DEF SameEpisode, Active
<1>6. showing = [shown EXCEPT ![k] = EpisodeOf(a)]
  BY <1>1, <1>2
<1>7. level # LevelResolved => level \in {LevelWarning, LevelCritical}
  BY <1>2 DEF Levels, LevelResolved, LevelWarning, LevelCritical
<1>8. shown[k] = EpisodeOf(stored[k])
  OBVIOUS
<1>9. CASE level = LevelResolved
  <2>1. Active(stored[k]) /\ ~Active(a) /\ ~notify
    BY <1>1, <1>2, <1>5, <1>9, SavedResolved
  <2>2. Contract!End(k)
    BY <1>1, <1>2, <1>3, <1>6, <1>8, <2>1, EpisodeShown,
       ContractLevels DEF Contract!End, Contract!InProgress
  <2>. QED
    BY <2>2, ContractLevels DEF Contract!Next
<1>10. CASE notify
  <2>1. /\ Active(a) /\ level # LevelResolved
        /\ a.level = level /\ a.notifiedLevel = level /\ a.notifiedAt = now
        /\ a.startedAt = IF Active(stored[k]) THEN stored[k].startedAt ELSE now
        /\ Active(stored[k]) => \/ level > stored[k].notifiedLevel
                                \/ now - stored[k].notifiedAt >= Repeat
    BY <1>2, <1>5, <1>10, SavedNotified DEF LevelResolved, Levels
  <2>2. Contract!Announce(k, level)
    BY <1>1, <1>10, <2>1 DEF Contract!Announce, NotificationsFor
  <2>3. EpisodeOf(a) = [level |-> level,
                        startedAt |-> IF Active(stored[k]) THEN stored[k].startedAt ELSE now,
                        notifiedLevel |-> level, notifiedAt |-> now]
    BY <1>3, <2>1, EpisodeShown
  <2>4. CASE ~Active(stored[k])
    <3>1. Contract!Begin(k, level)
      BY <1>1, <1>2, <1>6, <1>8, <2>2, <2>3, <2>4, EpisodeShown,
         ContractLevels DEF Contract!Begin, Contract!InProgress
    <3>. QED
      BY <1>7, <2>1, <3>1, ContractLevels DEF Contract!Next
  <2>5. CASE Active(stored[k])
    <3>1. shown[k] = [level |-> stored[k].level, startedAt |-> stored[k].startedAt,
                      notifiedLevel |-> stored[k].notifiedLevel,
                      notifiedAt |-> stored[k].notifiedAt]
      BY <1>2, <1>8, <2>5, EpisodeShown
    <3>2. showing = [shown EXCEPT ![k] = [level |-> level, startedAt |-> shown[k].startedAt,
                                          notifiedLevel |-> level, notifiedAt |-> now]]
      <4> HIDE DEF shown, showing, a, level
      <4>1. EpisodeOf(a) = [level |-> level, startedAt |-> stored[k].startedAt,
                            notifiedLevel |-> level, notifiedAt |-> now]
        BY <2>3, <2>5
      <4>2. shown[k].startedAt = stored[k].startedAt
        BY <3>1
      <4>. QED
        BY <1>6, <4>1, <4>2
    <3>3. Contract!Repeated(k, level)
      BY <1>1, <1>2, <2>1, <2>2, <2>5, <3>1, <3>2,
         ContractLevels
      DEF Contract!Repeated, Contract!InProgress, Contract!Overdue, Active
    <3>. QED
      BY <1>7, <2>1, <3>3, ContractLevels DEF Contract!Next
  <2>. QED
    BY <2>4, <2>5
<1>11. CASE level # LevelResolved /\ ~notify
  <2>1. /\ Active(stored[k]) /\ a.level = level /\ level > LevelResolved
        /\ a.startedAt = stored[k].startedAt
        /\ a.notifiedLevel = stored[k].notifiedLevel
        /\ a.notifiedAt = stored[k].notifiedAt
        /\ level <= stored[k].notifiedLevel
        /\ now - stored[k].notifiedAt < Repeat
    BY <1>2, <1>5, <1>11, SavedQuietly
  <2>2. shown[k] = [level |-> stored[k].level, startedAt |-> stored[k].startedAt,
                    notifiedLevel |-> stored[k].notifiedLevel,
                    notifiedAt |-> stored[k].notifiedAt]
    BY <1>2, <1>8, <2>1, EpisodeShown
  <2>3. EpisodeOf(a) = [level |-> level, startedAt |-> stored[k].startedAt,
                        notifiedLevel |-> stored[k].notifiedLevel,
                        notifiedAt |-> stored[k].notifiedAt]
    BY <1>3, <2>1, EpisodeShown DEF Active
  <2>4. showing = [shown EXCEPT ![k].level = level]
    <3>1. EpisodeOf(a) = [shown[k] EXCEPT !.level = level]
      BY <2>2, <2>3
    <3> HIDE DEF shown, showing, a, level
    <3>. QED
      BY <1>6, <3>1
  <2>5. ~(now - stored[k].notifiedAt >= Repeat)
    BY <1>2, <2>1 DEF Alert
  <2>6. Contract!Move(k, level)
    BY <1>1, <1>11, <2>1, <2>2, <2>4, <2>5,
       ContractLevels
    DEF Contract!Move, Contract!InProgress, Contract!Overdue, Active
  <2>. QED
    BY <1>7, <1>11, <2>6, ContractLevels DEF Contract!Next
<1>. QED
  BY <1>9, <1>10, <1>11

LEMMA ContractNext == IInv /\ [Next]_vars => [Contract!Next]_(Contract!vars)
<1> SUFFICES ASSUME IInv, [Next]_vars PROVE [Contract!Next]_(Contract!vars)
  OBVIOUS
<1>1. ASSUME UNCHANGED <<stored, queued>>, now' = now \/ now' \in Nat
      PROVE  [Contract!Next]_(Contract!vars)
  BY <1>1 DEF Contract!Next, Contract!Clock, Contract!vars
<1>2. ASSUME NEW s \in [Disks -> Usage \cup {Missing}], ObserveSnapshot(s)
      PROVE  UNCHANGED <<now, stored, queued>>
  BY <1>2 DEF ObserveSnapshot
<1>3. ASSUME NEW k \in Disks, Set(k) PROVE UNCHANGED <<now, stored, queued>>
  BY <1>3 DEF Set, Visit, SetWithoutSave
<1>4. ASSUME NEW k \in Disks, FailSave(k) PROVE UNCHANGED <<now, stored, queued>>
  BY <1>4 DEF FailSave, Visit, SaveFails
<1>5. ASSUME NEW k \in Disks, SaveDone(k) PROVE UNCHANGED <<now, stored, queued>>
  BY <1>5 DEF SaveDone
<1>6. CASE ResolveUnseen \/ ObserveDone \/ TakeKick \/ Restart \/ UNCHANGED vars
  BY <1>1, <1>6 DEF ResolveUnseen, ObserveDone, TakeKick, Restart, vars
<1>7. CASE PruneAlerts
  <2>1. ~Active(NoAlert) /\ NoAlert \in Alert
    BY NoAlertType DEF Active, NoAlert, LevelResolved
  <2>2. stored \in [Disks -> Alert]
    BY DEF IInv, TypeOK
  <2>3. ASSUME NEW k \in Disks PROVE EpisodeOf(stored'[k]) = EpisodeOf(stored[k])
    BY <1>7, <2>1, <2>2 DEF PruneAlerts, EpisodeOf
  <2>4. UNCHANGED <<now, queued>>
    BY <1>7 DEF PruneAlerts
  <2>. QED
    BY <2>3, <2>4 DEF Contract!vars
<1>8. CASE Tick
  BY <1>1, <1>8 DEF Tick, IInv, TypeOK
<1>9. CASE SetClockBack
  BY <1>1, <1>9 DEF SetClockBack, IInv, TypeOK
<1>. QED
  BY <1>1, <1>2, <1>3, <1>4, <1>5, <1>6, <1>7, <1>8, <1>9, SaveKeepsContract DEF Next, Observe

\* The engine keeps the promise of AlertContract, whatever fails on the way.
THEOREM ContractKept == Spec => KeepsContract
<1>1. Init => Contract!Init
  BY ContractInit
<1>2. IInv /\ [Next]_vars => [Contract!Next]_(Contract!vars)
  BY ContractNext
<1>. QED
  BY <1>1, <1>2, Safe, PTL DEF Spec, KeepsContract, Contract!Spec

=============================================================================
