----------------------------- MODULE ProcCache ------------------------------
(***************************************************************************)
(* internal/collector/processes.go: requests for the process list, several *)
(* of which may be in progress, share the CPU times that the last one left *)
(* in procCache.  The lock is held while the cache is read and while it is *)
(* written, not while the processes are measured in between.               *)
(***************************************************************************)
EXTENDS Integers

CONSTANTS Requests,        \* calls of CollectProcesses that may overlap
          Pids,
          staleThreshold,
          MaxTime, MaxUse  \* bounds of the clock and of a process's CPU time

ASSUME BoundsAssumption == staleThreshold \in Nat /\ MaxTime \in Nat \ {0} /\ MaxUse \in Nat

VARIABLES clock,           \* the monotonic one
          cpu,             \* CPU time of the process that has the pid
          spent,           \* CPU time of all that ever had it, for the properties
          times, lastCall, \* procCache
          pc,              \* where each request is
          now, prev, ready, todo, newTimes, stats   \* its variables

cache   == <<times, lastCall>>
system  == <<clock, cpu, spent>>
request == <<pc, now, prev, ready, todo, newTimes, stats>>
vars    == <<system, cache, request>>

Gone     == -1                     \* no process has the pid
NoTimes  == [used |-> Gone, at |-> 0, spent |-> 0]
Times    == [used : 0 .. MaxUse, at : 1 .. MaxTime, spent : 0 .. MaxUse]
NoStat   == [used |-> 0, elapsed |-> 0, spent |-> 0]    \* 0 percent
Never    == 0

Init ==
  /\ clock = 1 /\ cpu = [p \in Pids |-> 0] /\ spent = [p \in Pids |-> 0]
  /\ times = [p \in Pids |-> NoTimes] /\ lastCall = Never
  /\ pc = [r \in Requests |-> "idle"] /\ now = [r \in Requests |-> 0]
  /\ prev = [r \in Requests |-> times] /\ ready = [r \in Requests |-> FALSE]
  /\ todo = [r \in Requests |-> {}] /\ newTimes = [r \in Requests |-> times]
  /\ stats = [r \in Requests |-> [p \in Pids |-> NoStat]]

-----------------------------------------------------------------------------
\* The processes there are; if they cannot be listed the request fails.
List(r) ==
  /\ pc[r] = "idle"
  /\ pc' = [pc EXCEPT ![r] = "listed"]
  /\ todo' = [todo EXCEPT ![r] = {p \in Pids : cpu[p] # Gone}]
  /\ now' = [now EXCEPT ![r] = clock]
  /\ newTimes' = [newTimes EXCEPT ![r] = [p \in Pids |-> NoTimes]]
  /\ stats' = [stats EXCEPT ![r] = [p \in Pids |-> NoStat]]
  /\ UNCHANGED <<system, cache, prev, ready>>

ReadCache(r) ==
  /\ pc[r] = "listed"
  /\ pc' = [pc EXCEPT ![r] = "measuring"]
  /\ prev' = [prev EXCEPT ![r] = times]
  /\ ready' = [ready EXCEPT ![r] = lastCall # Never /\ now[r] - lastCall <= staleThreshold]
  /\ UNCHANGED <<system, cache, now, todo, newTimes, stats>>

\* Mutant: a pid that has passed to another process may have used less than nothing.
UsedUnchecked(used, last) == used - last

UsedSince(used, last) == IF used < last THEN 0 ELSE used - last

\* What was used since the last call, of which no time may have passed.
Stat(r, p) ==
  LET last    == prev[r][p]
      elapsed == now[r] - last.at
  IN  IF last = NoTimes \/ elapsed <= 0 THEN NoStat
      ELSE [used |-> UsedSince(cpu[p], last.used), elapsed |-> elapsed,
            spent |-> spent[p] - last.spent]

\* A process that cannot be read, or is gone, is left out.
Measure(r, p) ==
  /\ pc[r] = "measuring" /\ p \in todo[r]
  /\ todo' = [todo EXCEPT ![r] = @ \ {p}]
  /\ \/ UNCHANGED <<newTimes, stats>>
     \/ /\ cpu[p] # Gone
        /\ newTimes' = [newTimes EXCEPT
                           ![r][p] = [used |-> cpu[p], at |-> now[r], spent |-> spent[p]]]
        /\ stats' = [stats EXCEPT ![r][p] = Stat(r, p)]
  /\ UNCHANGED <<system, cache, pc, now, prev, ready>>

\* Mutant: the new times are entered into the old map.
WriteCacheOver(r) ==
  /\ pc[r] = "measuring" /\ todo[r] = {}
  /\ pc' = [pc EXCEPT ![r] = "idle"]
  /\ times' = [p \in Pids |-> IF newTimes[r][p] = NoTimes THEN times[p] ELSE newTimes[r][p]]
  /\ lastCall' = now[r]
  /\ UNCHANGED <<system, now, prev, ready, todo, newTimes, stats>>

\* The answer is sent, and the cache is as this request has it.
WriteCache(r) ==
  /\ pc[r] = "measuring" /\ todo[r] = {}
  /\ pc' = [pc EXCEPT ![r] = "idle"]
  /\ times' = newTimes[r] /\ lastCall' = now[r]
  /\ UNCHANGED <<system, now, prev, ready, todo, newTimes, stats>>

-----------------------------------------------------------------------------
Use(p) ==
  /\ cpu[p] # Gone /\ spent[p] < MaxUse
  /\ cpu' = [cpu EXCEPT ![p] = @ + 1] /\ spent' = [spent EXCEPT ![p] = @ + 1]
  /\ UNCHANGED <<clock, cache, request>>

\* The process ends, or another begins and gets the pid.
EndOrBegin(p) ==
  /\ cpu' = [cpu EXCEPT ![p] = IF @ = Gone THEN 0 ELSE Gone]
  /\ UNCHANGED <<clock, spent, cache, request>>

Tick ==
  /\ clock < MaxTime /\ clock' = clock + 1
  /\ UNCHANGED <<cpu, spent, cache, request>>

CollectProcesses(r) == List(r) \/ ReadCache(r) \/ WriteCache(r) \/ \E p \in Pids : Measure(r, p)

Next ==
  \/ \E r \in Requests : CollectProcesses(r)
  \/ \E p \in Pids : Use(p) \/ EndOrBegin(p)
  \/ Tick

Spec == Init /\ [][Next]_vars

-----------------------------------------------------------------------------
TypeOK ==
  /\ clock \in 1 .. MaxTime /\ cpu \in [Pids -> {Gone} \cup 0 .. MaxUse]
  /\ spent \in [Pids -> 0 .. MaxUse]
  /\ times \in [Pids -> Times \cup {NoTimes}] /\ lastCall \in 0 .. MaxTime
  /\ pc \in [Requests -> {"idle", "listed", "measuring"}]
  /\ now \in [Requests -> 0 .. MaxTime] /\ ready \in [Requests -> BOOLEAN]
  /\ prev \in [Requests -> [Pids -> Times \cup {NoTimes}]]
  /\ todo \in [Requests -> SUBSET Pids]
  /\ newTimes \in [Requests -> [Pids -> Times \cup {NoTimes}]]

\* "How long ... before the cached CPU times are considered too old": an answer
\* that says its rates are ready has none over more than staleThreshold, with
\* processes that cannot be read now and then and requests that overlap.
ReadyRatesAreRecent ==
  \A r \in Requests, p \in Pids : ready[r] => stats[r][p].elapsed <= staleThreshold

\* No rate is negative or counts what was used before the last call's measurement,
\* although a pid may have passed to another process and a request that began
\* earlier may write the cache later.  (CollectProcesses)
RatesAreReal ==
  \A r \in Requests, p \in Pids : stats[r][p].used \in 0 .. stats[r][p].spent
=============================================================================
