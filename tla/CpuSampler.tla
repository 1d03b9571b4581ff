----------------------------- MODULE CpuSampler -----------------------------
(***************************************************************************)
(* internal/alerts/cpu.go: the sampler that watches processes for sustained *)
(* load, next to Engine.Ignore and Unignore, which the HTTP server and the  *)
(* button of a notification call at any time.                               *)
(*                                                                         *)
(* The sampler reads the config, measures, and only then takes e.mu to      *)
(* change alerts, so an Ignore may come between its steps.  Measuring is    *)
(* one step: only the sampler touches its tracks.  So is the change of      *)
(* alerts: e.mu is held, and a crash in the middle of it is a change in     *)
(* which the remaining saves fail, followed by a restart.                   *)
(*                                                                         *)
(* The name of a process is read when its track begins or fires, and kept   *)
(* in the track.  The next reading may differ: it fails, and "pid N" stands *)
(* for the name, the process has become another program, or its pid belongs *)
(* to another process by now.                                               *)
(*                                                                         *)
(* An alert is only its being active: what Engine.set makes of that, and    *)
(* that map and table agree, is AlertEngine's.  Times are in sample         *)
(* intervals and relative to the clock.                                     *)
(***************************************************************************)
EXTENDS Integers, FiniteSets

CONSTANTS Pids, Names,
          NamesOf,    \* the names each process may be read to have
          NoName,     \* a track's name before it is read
          Fold,       \* the lower-case form of each name
          Duration,   \* alerts.cpu.duration
          Ignorable   \* the names users ignore and stop ignoring

ASSUME NameAssumption ==
  NamesOf \in [Pids -> SUBSET Names] /\ NoName \notin Names /\ Ignorable \subseteq Names
ASSUME FoldAssumption == Fold \in [Names -> Names]
ASSUME DurationAssumption == Duration \in Nat \ {0}

VARIABLES ruleOn,     \* cfg.Alerts.CPU.Percent > 0
          ignore,     \* cfg.Alerts.CPU.Ignore, folded
          active,     \* names with an active alert
          prev,       \* the processes of the previous sample, or NoSample
          sincePrev,  \* time since the previous sample, at most Gap + 1
          procs,      \* the tracks, NoTrack for a process that has none
          pc,         \* where sampleCPUOnce is
          ignoreCopy, \* the ignore list it read when it began
          firing,     \* the names it is about to report
          ignoring    \* names whose Ignore has saved the config, not yet resolved

samplerVars == <<prev, sincePrev, procs, pc, ignoreCopy, firing>>

\* Kept for the properties: no code reads these.
VARIABLES reading,    \* what the sample in progress measured
          justified,  \* processes that were above the threshold for Duration, or took
                      \* over an active alert, and were above half of it since
          above,      \* how long another process has been above it; -1 when it is not
          misread     \* names with an alert that a process did not take over, as its name
                      \* was read differently

ghostVars == <<reading, justified, above, misread>>

vars == <<ruleOn, ignore, active, samplerVars, ignoring, ghostVars>>

-----------------------------------------------------------------------------
NoSample == {"none"}
NoTrack  == [age |-> -1, firing |-> FALSE, name |-> NoName]
Track    == [age : 0 .. Duration, firing : BOOLEAN, name : Names \cup {NoName}]

\* Load in percent of cpu.percent: below a half of it, below it, above it.
\* "absent": not among the processes that were read.
Loads == {"absent", "low", "mid", "high"}

\* The most sample intervals between two samples that count as consecutive.
Gap == 3

AtMost(bound, n) == IF n <= bound THEN n ELSE bound

Ignored(list, name) == Fold[name] \in list

Nothing == [p \in Pids |-> "absent"]

\* What nameOf may return for each process at one moment.
nameOf == {x \in [Pids -> Names] : \A p \in Pids : x[p] \in NamesOf[p]}

-----------------------------------------------------------------------------
Init ==
  /\ ruleOn = TRUE
  /\ ignore = {} /\ active = {} /\ ignoring = {}
  /\ prev = NoSample /\ sincePrev = 0
  /\ procs = [p \in Pids |-> NoTrack]
  /\ pc = "idle" /\ ignoreCopy = {} /\ firing = {}
  /\ reading = Nothing /\ justified = {} /\ above = [p \in Pids |-> -1] /\ misread = {}

-----------------------------------------------------------------------------
(* sampleCPUOnce *)

\* It begins with a copy of the config.
ReadConfig ==
  /\ pc = "idle" /\ ruleOn
  /\ ignoreCopy' = ignore
  /\ pc' = "sample"
  /\ UNCHANGED <<ruleOn, ignore, active, prev, sincePrev, procs, firing, ignoring, ghostVars>>

\* With the rule switched off it forgets everything and resolves every alert,
\* as far as the saves succeed.
RuleIsOff ==
  /\ pc = "idle" /\ ~ruleOn
  /\ prev' = NoSample /\ procs' = [p \in Pids |-> NoTrack]
  /\ active' \in SUBSET active
  /\ justified' = {} /\ above' = [p \in Pids |-> -1]
  /\ UNCHANGED <<ruleOn, ignore, sincePrev, pc, ignoreCopy, firing, ignoring, reading, misread>>

SampleFails ==
  /\ pc = "sample"
  /\ pc' = "idle" /\ ignoreCopy' = {}
  /\ UNCHANGED <<ruleOn, ignore, active, prev, sincePrev, procs, firing, ignoring, ghostVars>>

\* A process is measured if both samples have it.
Measured(s, p) == s[p] # "absent" /\ p \in prev

\* A process the previous sample did not have keeps what is known of it.
Unmeasured(s, p) == s[p] # "absent" /\ p \notin prev
StaysUp(s, p)    == s[p] \in {"mid", "high"} \/ Unmeasured(s, p)

\* Its track before this reading counts: an old one, or a new one that began
\* at the previous sample and takes over an alert that is active.  Its name is
\* read for that only when there are alerts.  The age of a track that fires is
\* only text in the alert.
TakesOver(name) == Fold[name] \in {Fold[n] : n \in active}

Candidate(p, name) ==
  IF procs[p] # NoTrack THEN procs[p]
  ELSE [age |-> IF TakesOver(name) THEN Duration ELSE AtMost(Duration, sincePrev),
        firing |-> TakesOver(name), name |-> IF active = {} THEN NoName ELSE name]

\* Mutant: the name is read anew in every sample.
NamedAnew(tr, name) == [tr EXCEPT !.name = name]

\* A name that was read is kept in the track.
Named(tr, name) == IF tr.name = NoName THEN [tr EXCEPT !.name = name] ELSE tr

\* A track that fires lasts until the load falls below half the threshold, one
\* that does not ends below the threshold and fires after Duration.
TrackAfter(s, p, name) ==
  LET tr == Candidate(p, name)
  IN  IF Unmeasured(s, p) THEN procs[p]
      ELSE IF s[p] = "absent" THEN NoTrack
      ELSE IF tr.firing THEN (IF s[p] = "low" THEN NoTrack ELSE Named(tr, name))
      ELSE IF s[p] # "high" THEN NoTrack
      ELSE IF tr.age < Duration THEN tr
      ELSE Named([tr EXCEPT !.firing = TRUE], name)

\* Mutant: a process is reported only by the sample in which it begins to fire.
FiringOnce(s, tracks) ==
  {tracks[p].name : p \in {q \in Pids : Measured(s, q) /\ tracks[q].firing /\ ~procs[q].firing
                                        /\ ~Ignored(ignoreCopy, tracks[q].name)}}

\* The names whose processes fire in this sample and are not ignored.
FiringNames(s, tracks) ==
  {tracks[p].name : p \in {q \in Pids : Measured(s, q) /\ tracks[q].firing
                                        /\ ~Ignored(ignoreCopy, tracks[q].name)}}

\* The first sample, or one in no time: only remembered.
FirstSample ==
  /\ prev = NoSample \/ sincePrev = 0
  /\ UNCHANGED <<procs, firing, justified, above, misread>>
  /\ pc' = "idle" /\ ignoreCopy' = {}
  /\ reading' = Nothing

\* Mutant: the gap counts as load.
SampleAfterGapKeepsTracks ==
  /\ prev # NoSample /\ sincePrev > Gap
  /\ UNCHANGED <<procs, firing, misread>>
  /\ pc' = "idle" /\ ignoreCopy' = {}
  /\ reading' = Nothing
  /\ justified' = {} /\ above' = [p \in Pids |-> -1]

\* Samples were missed, the Mac slept: start over.
SampleAfterGap ==
  /\ prev # NoSample /\ sincePrev > Gap
  /\ procs' = [p \in Pids |-> NoTrack]
  /\ UNCHANGED <<firing, misread>>
  /\ pc' = "idle" /\ ignoreCopy' = {}
  /\ reading' = Nothing
  /\ justified' = {} /\ above' = [p \in Pids |-> -1]

\* A process that may have an alert's name is up, begins a track, and is read
\* to have another name.
Misread(s, x, n) ==
  \E p \in Pids : /\ Measured(s, p) /\ s[p] \in {"mid", "high"} /\ procs[p] = NoTrack
                 /\ n \in NamesOf[p] /\ x[p] # n

NextSample(s, x) ==
  /\ prev # NoSample /\ sincePrev <= Gap
  /\ procs' = [p \in Pids |-> TrackAfter(s, p, x[p])]
  /\ firing' = FiringNames(s, procs')
  /\ pc' = "report" /\ UNCHANGED ignoreCopy
  /\ reading' = [p \in Pids |-> IF Measured(s, p) THEN s[p] ELSE "absent"]
  /\ LET up(p)   == IF above[p] = -1 THEN AtMost(Duration, sincePrev) ELSE above[p]
         more(p) == \/ p \in justified /\ StaysUp(s, p)
                    \/ Measured(s, p) /\ s[p] = "high" /\ up(p) >= Duration
                    \/ /\ Measured(s, p) /\ s[p] \in {"mid", "high"}
                       /\ procs[p] = NoTrack /\ TakesOver(x[p])
     IN  /\ justified' = {p \in Pids : more(p)}
         /\ above' = [p \in Pids |-> IF Unmeasured(s, p) THEN above[p]
                                     ELSE IF s[p] = "high" /\ ~more(p) THEN up(p)
                                     ELSE -1]
  /\ misread' = {n \in active \ firing' : n \in misread \/ Misread(s, x, n)}

\* Process times are read and compared with the previous ones.
Sample(s, x) ==
  /\ pc = "sample"
  /\ FirstSample \/ SampleAfterGap \/ NextSample(s, x)
  /\ prev' = {p \in Pids : s[p] # "absent"}
  /\ sincePrev' = 0
  /\ UNCHANGED <<ruleOn, ignore, active, ignoring>>

\* Mutant: alerts of names that no longer fire are left alone.
ReportOnly ==
  /\ pc = "report"
  /\ active' \in {active \cup begun : begun \in SUBSET firing}
  /\ pc' = "idle" /\ firing' = {} /\ ignoreCopy' = {} /\ reading' = Nothing
  /\ misread' = misread \cap active'
  /\ UNCHANGED <<ruleOn, ignore, prev, sincePrev, procs, ignoring, justified, above>>

\* With e.mu held: alerts begin for the names that fire, those of other names
\* are resolved, as far as the saves succeed.
Report ==
  /\ pc = "report"
  /\ \E begun \in SUBSET (firing \ active), ended \in SUBSET (active \ firing) :
       active' = (active \cup begun) \ ended
  /\ pc' = "idle" /\ firing' = {} /\ ignoreCopy' = {} /\ reading' = Nothing
  /\ misread' = misread \cap active'
  /\ UNCHANGED <<ruleOn, ignore, prev, sincePrev, procs, ignoring, justified, above>>

-----------------------------------------------------------------------------
(* Engine.Ignore and Engine.Unignore *)

\* Mutant: the name is listed as it was typed, in its own case.
IgnoreAsTyped(name) ==
  /\ ignore' = ignore \cup {name}
  /\ ignoring' = ignoring \cup {name}
  /\ UNCHANGED <<ruleOn, active, samplerVars, ghostVars>>

\* The config is saved first (if that fails, Ignore changes nothing) ...
Ignore(name) ==
  /\ ignore' = ignore \cup {Fold[name]}
  /\ ignoring' = ignoring \cup {name}
  /\ UNCHANGED <<ruleOn, active, samplerVars, ghostVars>>

\* ... then, with e.mu held, the active alerts of that name are resolved, as
\* far as the saves succeed.
IgnoreResolves(name) ==
  /\ name \in ignoring
  /\ active' \in {active \ ended : ended \in SUBSET {n \in active : Fold[n] = Fold[name]}}
  /\ ignoring' = ignoring \ {name}
  /\ UNCHANGED <<ruleOn, ignore, samplerVars, ghostVars>>

Unignore(name) ==
  /\ ignore' = ignore \ {Fold[name]}
  /\ UNCHANGED <<ruleOn, active, samplerVars, ignoring, ghostVars>>

-----------------------------------------------------------------------------
\* The process ends and is started again, perhaps with the rule switched on or
\* off in its config: alerts and ignore list are loaded, tracks are lost.
Restart ==
  /\ ruleOn' \in BOOLEAN
  /\ prev' = NoSample /\ sincePrev' = 0
  /\ procs' = [p \in Pids |-> NoTrack]
  /\ pc' = "idle" /\ ignoreCopy' = {} /\ firing' = {} /\ ignoring' = {}
  /\ reading' = Nothing /\ justified' = {} /\ above' = [p \in Pids |-> -1]
  /\ UNCHANGED <<ignore, active, misread>>

Tick ==
  /\ sincePrev' = AtMost(Gap + 1, sincePrev + 1)
  /\ procs' = [p \in Pids |-> IF procs[p] = NoTrack THEN NoTrack
                              ELSE [procs[p] EXCEPT !.age = AtMost(Duration, @ + 1)]]
  /\ above' = [p \in Pids |-> IF above[p] = -1 THEN -1 ELSE AtMost(Duration, above[p] + 1)]
  /\ UNCHANGED <<ruleOn, ignore, active, prev, pc, ignoreCopy, firing, ignoring,
                 reading, justified, misread>>

-----------------------------------------------------------------------------
Sampler ==
  \/ ReadConfig \/ RuleIsOff \/ SampleFails \/ Report
  \/ \E s \in [Pids -> Loads], x \in nameOf : Sample(s, x)

Users == \E name \in Ignorable : Ignore(name) \/ IgnoreResolves(name) \/ Unignore(name)

Next == Sampler \/ Users \/ Restart \/ Tick

Spec == Init /\ [][Next]_vars

\* The ticker keeps calling sampleCPUOnce, time passes, reads of processes and
\* saves of alerts do not fail for ever.
Reported  == Report /\ active' = firing
Fairness ==
  /\ WF_vars(Tick) /\ WF_vars(ReadConfig) /\ WF_vars(Report)
  /\ SF_vars(\E s \in [Pids -> Loads], x \in nameOf : Sample(s, x))
  /\ SF_vars(Reported) /\ SF_vars(RuleIsOff /\ active' = {})
  /\ \A name \in Ignorable : WF_vars(IgnoreResolves(name))

FairSpec == Spec /\ Fairness

-----------------------------------------------------------------------------
TypeOK ==
  /\ ruleOn \in BOOLEAN
  /\ ignore \subseteq {Fold[n] : n \in Names}
  /\ active \subseteq Names
  /\ prev = NoSample \/ prev \subseteq Pids
  /\ sincePrev \in 0 .. Gap + 1
  /\ procs \in [Pids -> Track \cup {NoTrack}]
  /\ pc \in {"idle", "sample", "report"}
  /\ ignoreCopy \subseteq {Fold[n] : n \in Names}
  /\ firing \subseteq Names
  /\ ignoring \subseteq Names
  /\ reading \in [Pids -> Loads]
  /\ above \in [Pids -> -1 .. Duration]
  /\ justified \subseteq Pids /\ misread \subseteq Names

\* An alert begins only for a process that was above the threshold in every
\* sample for Duration, or that took over an active alert, and that has stayed
\* above half the threshold since -- no matter how often the Mac slept, saves
\* failed, or its name was ignored and allowed again meanwhile -- and under the
\* name that was read for that process.
BeginsAfterSustainedLoad ==
  [][\A n \in active' \ active :
       \E p \in justified :
         procs[p].name = n /\ reading[p] \in {"mid", "high"}]_vars

\* "It clears when the process drops below half that", "pick up alerts that are
\* still ongoing instead of resolving them": as long as the processes that may
\* have an alert's name measure at least half the threshold, over restarts and
\* sleeps, it ends only because the name is ignored, the rule is switched off, or
\* after a restart or a sleep a process of the name was read to have another one.
\* While a track lasts, what its name would be read as now does not matter.
MayBe(n) == {p \in Pids : n \in NamesOf[p]}

OngoingLoadKeepsAlert ==
  [][\A n \in active \ active' :
       \/ ~ruleOn
       \/ Ignored(ignore \cup ignoreCopy, n)
       \/ \E m \in ignoring : Fold[m] = Fold[n]
       \/ n \in misread
       \/ \E p \in MayBe(n) : reading[p] \notin {"mid", "high"}]_vars

\* "Processes in cpu.ignore are never reported": no alert begins for a name that
\* is on the list, at the latest when the Ignore that put it there has returned.
IgnoredIsNeverReported ==
  [][\A n \in active' \ active : ~(Ignored(ignore, n) /\ ignoring = {})]_vars

-----------------------------------------------------------------------------
FinitelyManyRestarts == <>[][~Restart]_vars
SamplesKeepComing    == []<>(pc = "report") /\ <>[](sincePrev <= Gap)
FinallyMeasures(p, Values) == <>[](pc = "report" => reading[p] \in Values)

\* Once every process that may have a name stays below half the threshold, or is
\* gone, its alert is resolved for good.
EndedLoadIsResolved ==
  FinitelyManyRestarts /\ SamplesKeepComing =>
    \A n \in Names :
      (\A p \in Pids : n \in NamesOf[p] => FinallyMeasures(p, {"absent", "low"}))
        => <>[](n \notin active)

\* Once a process stays above the threshold and none of its names is ignored, an
\* alert under one of them is active for good: a name that is read differently
\* each time does not make it come and go.
LastingLoadIsReported ==
  FinitelyManyRestarts /\ SamplesKeepComing =>
    \A p \in Pids :
      /\ FinallyMeasures(p, {"high"})
      /\ <>[]((\A n \in NamesOf[p] : ~Ignored(ignore, n)) /\ ignoring = {})
      => \E n \in NamesOf[p] : <>[](n \in active)

\* A name that stays on the ignore list loses its alert for good, a sample that
\* overtook the Ignore included.
IgnoredIsResolved ==
  FinitelyManyRestarts /\ SamplesKeepComing =>
    \A n \in Names : <>[]Ignored(ignore, n) => <>[](n \notin active)
=============================================================================
