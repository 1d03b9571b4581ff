----------------------------- MODULE AlertRules -----------------------------
(***************************************************************************)
(* The pure part of internal/alerts: the severity of a volume from its     *)
(* used space (disk.go) and what Engine.set makes of an alert's record     *)
(* (engine.go).  No state: the modules that run the rules apply these      *)
(* operators to the records they keep.                                     *)
(***************************************************************************)
EXTENDS Integers

LevelResolved == 0
LevelWarning  == 1
LevelCritical == 2
Levels        == LevelResolved .. LevelCritical

\* Percentage points below its threshold at which an active level ends.
diskHysteresis == 2

-----------------------------------------------------------------------------
(* disk.go, diskLevel *)

\* Mutant: no hysteresis.
ReachedExactly(used, threshold, wasActive) == threshold > 0 /\ used >= threshold

Reached(used, threshold, wasActive) ==
  /\ threshold > 0                       \* a threshold of 0 disables the level
  /\ used >= (IF wasActive THEN threshold - diskHysteresis ELSE threshold)

\* Mutant: every critical reading raises the level by one.
DiskLevelCounts(used, prev, warn, critical) ==
  IF Reached(used, critical, prev >= LevelCritical) THEN prev + 1
  ELSE IF Reached(used, warn, prev >= LevelWarning) THEN LevelWarning
  ELSE LevelResolved

DiskLevel(used, prev, warn, critical) ==
  IF Reached(used, critical, prev >= LevelCritical) THEN LevelCritical
  ELSE IF Reached(used, warn, prev >= LevelWarning) THEN LevelWarning
  ELSE LevelResolved

-----------------------------------------------------------------------------
(* engine.go, Engine.set.  An alert record keeps the fields the decisions   *)
(* read; key, kind, subject and the texts are left out.                     *)

Alert == [level : Levels, startedAt : Nat, updatedAt : Nat,
          notifiedLevel : Levels, notifiedAt : Nat]

\* A key that is in neither the map nor the table: Go's zero value.
NoAlert == [level |-> LevelResolved, startedAt |-> 0, updatedAt |-> 0,
            notifiedLevel |-> LevelResolved, notifiedAt |-> 0]

Active(a) == a.level > LevelResolved

\* The record a new level is applied to: a resolved alert starts a new
\* episode that knows nothing of what was notified about the previous one.
Episode(a, now) == IF Active(a) THEN a ELSE [NoAlert EXCEPT !.startedAt = now]

\* Mutants: an escalation within repeat is not news; nothing is ever repeated.
HeardRecently(a, level, now, repeat) == now - Episode(a, now).notifiedAt < repeat
HeardOnce(a, level, now, repeat) == level <= Episode(a, now).notifiedLevel

\* The user has heard of this level, and not so long ago that it is repeated.
Heard(a, level, now, repeat) ==
  LET e == Episode(a, now)
  IN  level <= e.notifiedLevel /\ now - e.notifiedAt < repeat

ResolvedRecord(a, now) == [a EXCEPT !.level = LevelResolved, !.updatedAt = now]

QuietRecord(a, level, now) ==
  [Episode(a, now) EXCEPT !.level = level, !.updatedAt = now]

NotifiedRecord(a, level, now) ==
  [QuietRecord(a, level, now) EXCEPT !.notifiedLevel = level, !.notifiedAt = now]

-----------------------------------------------------------------------------
(* What set does with a level: nothing, a change in memory only, or a save. *)

SetIgnores(a, level) == level = LevelResolved /\ ~Active(a)

SetInMemory(a, level, now, repeat) ==
  /\ level > LevelResolved
  /\ Heard(a, level, now, repeat)
  /\ Episode(a, now).level = level

SetSaves(a, level, now, repeat) ==
  ~SetIgnores(a, level) /\ ~SetInMemory(a, level, now, repeat)

SetNotifies(a, level, now, repeat) ==
  level > LevelResolved /\ ~Heard(a, level, now, repeat)

SavedRecord(a, level, now, repeat) ==
  CASE level = LevelResolved                     -> ResolvedRecord(a, now)
    [] SetNotifies(a, level, now, repeat)        -> NotifiedRecord(a, level, now)
    [] OTHER                                     -> QuietRecord(a, level, now)

=============================================================================
