-------------------------- MODULE ProcCache_proofs --------------------------
(***************************************************************************)
(* The properties of ProcCache for any number of requests and processes.   *)
(*                                                                         *)
(* TypeCorrect is proved first.  Recent, for the age of rates, says that   *)
(* everything in one state of the cache was measured by one call; Real,    *)
(* for the rates themselves, says of every CPU time that is remembered     *)
(* anywhere how it relates to what was used since.                         *)
(***************************************************************************)
EXTENDS ProcCache, TLAPS

Stats == [used : Int, elapsed : Int, spent : Int]

TypeInv ==
  /\ TypeOK
  /\ stats \in [Requests -> [Pids -> Stats]]
  /\ \A r \in Requests : pc[r] # "idle" => now[r] \in 1 .. MaxTime
  /\ \A p \in Pids : cpu[p] <= spent[p]

-----------------------------------------------------------------------------
(* Types *)

\* What one entry of a request's variable changes.
LEMMA SetEntry ==
  ASSUME NEW S, NEW f \in [Requests -> [Pids -> S]], NEW r \in Requests, NEW p \in Pids, NEW v \in S
  PROVE  /\ [f EXCEPT ![r][p] = v] \in [Requests -> [Pids -> S]]
         /\ \A q \in Requests, o \in Pids :
              [f EXCEPT ![r][p] = v][q][o] = IF q = r /\ o = p THEN v ELSE f[q][o]
OBVIOUS

\* A stat is a record of three integers.
LEMMA StatType ==
  ASSUME TypeInv, NEW r \in Requests, NEW p \in Pids
  PROVE  Stat(r, p) \in Stats
<1>1. prev[r][p] \in Times \cup {NoTimes} /\ cpu[p] \in Int /\ spent[p] \in Int /\ now[r] \in Int
  BY BoundsAssumption DEF TypeInv, TypeOK, Gone
<1>2. NoStat \in Stats
  BY DEF NoStat, Stats
<1>3. CASE prev[r][p] \in Times
  BY <1>1, <1>2, <1>3 DEF Stat, Stats, Times, UsedSince
<1>4. CASE prev[r][p] = NoTimes
  BY <1>2, <1>4 DEF Stat
<1> QED
  BY <1>1, <1>3, <1>4

\* Measure enters a record for the process and its rate, or leaves it out.
LEMMA MeasureSets ==
  ASSUME TypeInv, NEW r \in Requests, NEW p \in Pids, Measure(r, p)
  PROVE  \/ UNCHANGED <<newTimes, stats>>
         \/ LET t == [used |-> cpu[p], at |-> now[r], spent |-> spent[p]]
            IN  /\ cpu[p] # Gone /\ t \in Times
                /\ newTimes' \in [Requests -> [Pids -> Times \cup {NoTimes}]]
                /\ stats' \in [Requests -> [Pids -> Stats]]
                /\ \A q \in Requests, o \in Pids :
                     /\ newTimes'[q][o] = IF q = r /\ o = p THEN t ELSE newTimes[q][o]
                     /\ stats'[q][o] = IF q = r /\ o = p THEN Stat(r, p) ELSE stats[q][o]
<1> DEFINE t == [used |-> cpu[p], at |-> now[r], spent |-> spent[p]]
           T == Times \cup {NoTimes}
<1> SUFFICES ASSUME cpu[p] # Gone, newTimes' = [newTimes EXCEPT ![r][p] = t],
                    stats' = [stats EXCEPT ![r][p] = Stat(r, p)]
             PROVE  /\ t \in Times
                    /\ newTimes' \in [Requests -> [Pids -> T]]
                    /\ stats' \in [Requests -> [Pids -> Stats]]
                    /\ \A q \in Requests, o \in Pids :
                         /\ newTimes'[q][o] = IF q = r /\ o = p THEN t ELSE newTimes[q][o]
                         /\ stats'[q][o] = IF q = r /\ o = p THEN Stat(r, p) ELSE stats[q][o]
  BY DEF Measure
<1>1. t \in Times
  <2>1. cpu[p] \in 0 .. MaxUse /\ spent[p] \in 0 .. MaxUse
    BY DEF TypeInv, TypeOK
  <2>2. now[r] \in 1 .. MaxTime
    BY DEF TypeInv, Measure
  <2> QED
    BY <2>1, <2>2 DEF Times
<1>2. newTimes \in [Requests -> [Pids -> T]] /\ t \in T
  BY <1>1 DEF TypeInv, TypeOK
<1>3. stats \in [Requests -> [Pids -> Stats]] /\ Stat(r, p) \in Stats
  BY StatType DEF TypeInv
<1> HIDE DEF t, T
<1> QED
  BY <1>1, <1>2, <1>3, SetEntry

LEMMA TypeInit == Init => TypeInv
<1> SUFFICES ASSUME Init PROVE TypeInv
  OBVIOUS
<1>1. TypeOK
  BY BoundsAssumption DEF Init, TypeOK, Never
<1>2. stats \in [Requests -> [Pids -> Stats]]
  BY DEF Init, NoStat, Stats
<1> QED
  BY <1>1, <1>2 DEF TypeInv, Init

LEMMA TypeStep == TypeInv /\ [Next]_vars => TypeInv'
<1> SUFFICES ASSUME TypeInv, [Next]_vars PROVE TypeInv'
  OBVIOUS
<1> USE BoundsAssumption
<1>1. ASSUME NEW r \in Requests, List(r) PROVE TypeInv'
  <2>1. stats' \in [Requests -> [Pids -> Stats]]
    BY <1>1 DEF List, TypeInv, NoStat, Stats
  <2>2. newTimes' \in [Requests -> [Pids -> Times \cup {NoTimes}]]
    BY <1>1 DEF List, TypeInv, TypeOK
  <2>3. todo' \in [Requests -> SUBSET Pids]
    BY <1>1 DEF List, TypeInv, TypeOK
  <2>4. /\ pc' \in [Requests -> {"idle", "listed", "measuring"}]
        /\ now' \in [Requests -> 0 .. MaxTime]
        /\ \A q \in Requests : pc'[q] # "idle" => now'[q] \in 1 .. MaxTime
    BY <1>1 DEF List, TypeInv, TypeOK
  <2>5. UNCHANGED <<clock, cpu, spent, times, lastCall, prev, ready>>
    BY <1>1 DEF List, system, cache
  <2> QED
    BY <2>1, <2>2, <2>3, <2>4, <2>5 DEF TypeInv, TypeOK
<1>2. ASSUME NEW r \in Requests, ReadCache(r) PROVE TypeInv'
  BY <1>2 DEF ReadCache, TypeInv, TypeOK, system, cache
<1>3. ASSUME NEW r \in Requests, WriteCache(r) PROVE TypeInv'
  BY <1>3 DEF WriteCache, TypeInv, TypeOK, system
<1>4. ASSUME NEW r \in Requests, NEW p \in Pids, Measure(r, p) PROVE TypeInv'
  <2>1. todo' \in [Requests -> SUBSET Pids]
    BY <1>4 DEF Measure, TypeInv, TypeOK
  <2>2. /\ newTimes' \in [Requests -> [Pids -> Times \cup {NoTimes}]]
        /\ stats' \in [Requests -> [Pids -> Stats]]
    BY <1>4, MeasureSets DEF TypeInv, TypeOK
  <2>3. UNCHANGED <<clock, cpu, spent, times, lastCall, pc, now, prev, ready>>
    BY <1>4 DEF Measure, system, cache
  <2> QED
    BY <2>1, <2>2, <2>3 DEF TypeInv, TypeOK
<1>5. ASSUME NEW p \in Pids, Use(p) PROVE TypeInv'
  <2>1. cpu[p] + 1 \in 0 .. MaxUse /\ spent[p] + 1 \in 0 .. MaxUse
    BY <1>5 DEF Use, TypeInv, TypeOK, Gone
  <2>3. \A o \in Pids : cpu'[o] <= spent'[o]
    BY <1>5, <2>1 DEF Use, TypeInv, TypeOK
  <2>2. cpu' \in [Pids -> {Gone} \cup 0 .. MaxUse] /\ spent' \in [Pids -> 0 .. MaxUse]
    BY <1>5, <2>1 DEF Use, TypeInv, TypeOK
  <2> QED
    BY <1>5, <2>2, <2>3 DEF Use, TypeInv, TypeOK, cache, request
<1>6. ASSUME NEW p \in Pids, EndOrBegin(p) PROVE TypeInv'
  BY <1>6 DEF EndOrBegin, TypeInv, TypeOK, cache, request, Gone
<1>7. CASE Tick
  BY <1>7 DEF Tick, TypeInv, TypeOK, cache, request
<1>8. CASE UNCHANGED vars
  BY <1>8 DEF vars, system, cache, request, TypeInv, TypeOK
<1> QED
  BY <1>1, <1>2, <1>3, <1>4, <1>5, <1>6, <1>7, <1>8 DEF Next, CollectProcesses

\* Every variable of ProcCache keeps its type.  (CollectProcesses)
THEOREM TypeCorrect == Spec => []TypeOK
<1>1. TypeInv => TypeOK
  BY DEF TypeInv
<1> QED
  BY <1>1, TypeInit, TypeStep, PTL DEF Spec

-----------------------------------------------------------------------------
(* The age of rates *)

\* The cache is what one call measured, and so is what a request measures and
\* what it took from the cache; an answer it has not begun has no rates yet.
Recent ==
  /\ \A p \in Pids : times[p] = NoTimes \/ times[p].at = lastCall
  /\ \A r \in Requests, p \in Pids :
       /\ newTimes[r][p] = NoTimes \/ newTimes[r][p].at = now[r]
       /\ pc[r] = "listed" => stats[r][p] = NoStat
       /\ pc[r] = "measuring" /\ ready[r]
            => prev[r][p] = NoTimes \/ now[r] - prev[r][p].at <= staleThreshold
       /\ ready[r] => stats[r][p].elapsed <= staleThreshold

LEMMA RecentInit == Init => Recent
BY BoundsAssumption DEF Init, Recent, NoStat

LEMMA RecentStep == TypeInv /\ Recent /\ [Next]_vars => Recent'
<1> SUFFICES ASSUME TypeInv, Recent, [Next]_vars PROVE Recent'
  OBVIOUS
<1> USE BoundsAssumption
<1>1. ASSUME NEW r \in Requests, List(r) PROVE Recent'
  BY <1>1 DEF List, TypeInv, TypeOK, Recent, NoStat, system, cache
<1>2. ASSUME NEW r \in Requests, ReadCache(r) PROVE Recent'
  <2>1. ASSUME NEW q \in Requests, NEW o \in Pids, pc'[q] = "measuring", ready'[q]
        PROVE  prev'[q][o] = NoTimes \/ now[q] - prev'[q][o].at <= staleThreshold
    <3>1. CASE q = r
      <4>1. /\ prev'[r] = times /\ lastCall \in Int /\ now[r] \in Int
            /\ now[r] - lastCall <= staleThreshold
        <5>1. prev'[r] = times
          BY <1>2 DEF ReadCache, TypeInv, TypeOK
        <5>2. now[r] - lastCall <= staleThreshold
          BY <1>2, <2>1, <3>1 DEF ReadCache, TypeInv, TypeOK
        <5> QED
          BY <5>1, <5>2 DEF TypeInv, TypeOK
      <4>2. times[o] = NoTimes \/ times[o].at = lastCall
        BY DEF Recent
      <4> QED
        BY <3>1, <4>1, <4>2
    <3>2. CASE q # r
      BY <1>2, <2>1, <3>2 DEF ReadCache, TypeInv, TypeOK, Recent
    <3> QED
      BY <3>1, <3>2
  <2>2. ASSUME NEW q \in Requests, NEW o \in Pids
        PROVE  /\ pc'[q] = "listed" => stats[q][o] = NoStat
               /\ ready'[q] => stats[q][o].elapsed <= staleThreshold
    BY <1>2 DEF ReadCache, TypeInv, TypeOK, Recent, NoStat
  <2>3. UNCHANGED <<times, lastCall, now, newTimes, stats>>
    BY <1>2 DEF ReadCache, cache
  <2> QED
    BY <2>1, <2>2, <2>3 DEF Recent
<1>3. ASSUME NEW r \in Requests, WriteCache(r) PROVE Recent'
  <2>1. \A o \in Pids : times'[o] = NoTimes \/ times'[o].at = lastCall'
    BY <1>3 DEF WriteCache, Recent
  <2>2. \A q \in Requests : pc'[q] = pc[q] \/ pc'[q] = "idle"
    BY <1>3 DEF WriteCache, TypeInv, TypeOK
  <2>3. UNCHANGED <<now, prev, ready, newTimes, stats>>
    BY <1>3 DEF WriteCache
  <2> QED
    BY <2>1, <2>2, <2>3 DEF Recent
<1>4. ASSUME NEW r \in Requests, NEW p \in Pids, Measure(r, p) PROVE Recent'
  <2>1. ready[r] => Stat(r, p).elapsed <= staleThreshold
    BY <1>4 DEF Measure, Stat, NoStat, Recent, TypeInv, TypeOK
  <2>2. UNCHANGED <<times, lastCall, pc, now, prev, ready>> /\ pc[r] = "measuring"
    BY <1>4 DEF Measure, system, cache
  <2>3. CASE UNCHANGED <<newTimes, stats>>
    BY <2>2, <2>3 DEF Recent
  <2>4. CASE ~UNCHANGED <<newTimes, stats>>
    <3>1. ASSUME NEW q \in Requests, NEW o \in Pids
          PROVE  /\ newTimes'[q][o] = newTimes[q][o] \/ newTimes'[q][o].at = now[q]
                 /\ stats'[q][o] = stats[q][o] \/ (q = r /\ stats'[q][o] = Stat(r, p))
      <4> DEFINE t == [used |-> cpu[p], at |-> now[r], spent |-> spent[p]]
      <4>1. t.at = now[r]
        OBVIOUS
      <4>2. /\ newTimes'[q][o] = IF q = r /\ o = p THEN t ELSE newTimes[q][o]
            /\ stats'[q][o] = IF q = r /\ o = p THEN Stat(r, p) ELSE stats[q][o]
        BY <1>4, <2>4, MeasureSets
      <4> HIDE DEF t
      <4> QED
        BY <4>1, <4>2
    <3>2. ASSUME NEW q \in Requests, NEW o \in Pids
          PROVE  /\ newTimes'[q][o] = NoTimes \/ newTimes'[q][o].at = now[q]
                 /\ pc[q] = "listed" => stats'[q][o] = NoStat
                 /\ ready[q] => stats'[q][o].elapsed <= staleThreshold
      BY <3>1, <2>1, <2>2 DEF Recent
    <3> QED
      BY <2>2, <3>2 DEF Recent
  <2> QED
    BY <2>3, <2>4
<1>5. ASSUME NEW p \in Pids, Use(p) PROVE Recent'
  BY <1>5 DEF Use, Recent, cache, request
<1>6. ASSUME NEW p \in Pids, EndOrBegin(p) PROVE Recent'
  BY <1>6 DEF EndOrBegin, Recent, cache, request
<1>7. CASE Tick
  BY <1>7 DEF Tick, Recent, cache, request
<1>8. CASE UNCHANGED vars
  BY <1>8 DEF vars, system, cache, request, Recent
<1> QED
  BY <1>1, <1>2, <1>3, <1>4, <1>5, <1>6, <1>7, <1>8 DEF Next, CollectProcesses

\* An answer that says its rates are ready has none over more than the threshold,
\* however many requests overlap.  (CollectProcesses)
THEOREM RatesRecent == Spec => []ReadyRatesAreRecent
<1>1. Recent => ReadyRatesAreRecent
  BY DEF Recent, ReadyRatesAreRecent
<1> QED
  BY <1>1, TypeInit, TypeStep, RecentInit, RecentStep, PTL DEF Spec

-----------------------------------------------------------------------------
(* The rates *)

\* Since it was measured, the process that has the pid now has used no more than
\* all that had it: the one that was measured or, from zero, later ones.
Fits(t, p) ==
  t = NoTimes \/ (t.spent <= spent[p] /\ cpu[p] - t.used <= spent[p] - t.spent)

Real ==
  /\ \A p \in Pids : Fits(times[p], p)
  /\ \A r \in Requests, p \in Pids :
       /\ Fits(prev[r][p], p) /\ Fits(newTimes[r][p], p)
       /\ stats[r][p].used \in 0 .. stats[r][p].spent

LEMMA RealInit == Init => Real
BY DEF Init, Real, Fits, NoStat

\* A CPU time that fits goes on fitting while processes work, end and begin.
LEMMA FitsOn ==
  ASSUME TypeInv, NEW p \in Pids, NEW t \in Times \cup {NoTimes}, Fits(t, p),
         \/ spent'[p] = spent[p] + 1 /\ cpu'[p] = cpu[p] + 1
         \/ spent'[p] = spent[p] /\ cpu'[p] \in {cpu[p], 0, Gone}
  PROVE  Fits(t, p)'
<1>1. /\ cpu[p] \in Int /\ spent[p] \in Int
      /\ t = NoTimes \/ (t.used \in Nat /\ t.spent \in Nat)
  BY BoundsAssumption DEF TypeInv, TypeOK, Times, Gone
<1>2. t = NoTimes \/ (t.spent <= spent[p] /\ cpu[p] - t.used <= spent[p] - t.spent)
  BY DEF Fits
<1>3. t = NoTimes \/ (t.spent <= spent'[p] /\ cpu'[p] - t.used <= spent'[p] - t.spent)
  BY <1>1, <1>2 DEF Gone
<1> QED
  BY <1>3 DEF Fits

\* A rate over a CPU time that fits is real.
LEMMA StatReal ==
  ASSUME TypeInv, NEW r \in Requests, NEW p \in Pids, Fits(prev[r][p], p), cpu[p] # Gone
  PROVE  Stat(r, p).used \in 0 .. Stat(r, p).spent
<1>1. prev[r][p] \in Times \cup {NoTimes} /\ cpu[p] \in Int /\ spent[p] \in Int /\ now[r] \in Int
  BY BoundsAssumption DEF TypeInv, TypeOK, Gone
<1> QED
  BY <1>1 DEF Stat, Fits, UsedSince, NoStat, Times

LEMMA RealStep == TypeInv /\ Real /\ [Next]_vars => Real'
<1> SUFFICES ASSUME TypeInv, Real, [Next]_vars PROVE Real'
  OBVIOUS
<1> USE BoundsAssumption
<1>1. ASSUME NEW r \in Requests, List(r) PROVE Real'
  BY <1>1 DEF List, TypeInv, TypeOK, Real, Fits, NoStat, system, cache
<1>2. ASSUME NEW r \in Requests, ReadCache(r) PROVE Real'
  BY <1>2 DEF ReadCache, TypeInv, TypeOK, Real, Fits, system, cache
<1>3. ASSUME NEW r \in Requests, WriteCache(r) PROVE Real'
  BY <1>3 DEF WriteCache, TypeInv, TypeOK, Real, Fits, system
<1>4. ASSUME NEW r \in Requests, NEW p \in Pids, Measure(r, p) PROVE Real'
  <2>1. cpu[p] # Gone => Stat(r, p).used \in 0 .. Stat(r, p).spent
    BY StatReal DEF Real
  <2>2. UNCHANGED <<cpu, spent, times, prev>>
    BY <1>4 DEF Measure, system, cache
  <2>3. CASE UNCHANGED <<newTimes, stats>>
    BY <2>2, <2>3 DEF Real, Fits
  <2>4. CASE ~UNCHANGED <<newTimes, stats>>
    <3> DEFINE t == [used |-> cpu[p], at |-> now[r], spent |-> spent[p]]
    <3>1. cpu[p] \in Int /\ spent[p] \in Int
      BY DEF TypeInv, TypeOK, Gone
    <3>2. Fits(t, p)
      BY <3>1 DEF Fits
    <3>3. cpu[p] # Gone /\ \A q \in Requests, o \in Pids :
             /\ newTimes'[q][o] = IF q = r /\ o = p THEN t ELSE newTimes[q][o]
             /\ stats'[q][o] = IF q = r /\ o = p THEN Stat(r, p) ELSE stats[q][o]
      BY <1>4, <2>4, MeasureSets
    <3> HIDE DEF t
    <3>4. ASSUME NEW q \in Requests, NEW o \in Pids
          PROVE  Fits(newTimes'[q][o], o) /\ stats'[q][o].used \in 0 .. stats'[q][o].spent
      BY <2>1, <3>2, <3>3 DEF Real
    <3> QED
      BY <2>2, <3>4 DEF Real, Fits
  <2> QED
    BY <2>3, <2>4
<1>5. ASSUME NEW p \in Pids, Use(p) \/ EndOrBegin(p) PROVE Real'
  <2>1. ASSUME NEW o \in Pids, NEW t \in Times \cup {NoTimes}, Fits(t, o) PROVE Fits(t, o)'
    <3>1. \/ spent'[o] = spent[o] + 1 /\ cpu'[o] = cpu[o] + 1
          \/ spent'[o] = spent[o] /\ cpu'[o] \in {cpu[o], 0, Gone}
      BY <1>5 DEF Use, EndOrBegin, TypeInv, TypeOK
    <3> QED
      BY <2>1, <3>1, FitsOn
  <2>2. UNCHANGED <<cache, request>>
    BY <1>5 DEF Use, EndOrBegin
  <2> QED
    BY <2>1, <2>2 DEF Real, Fits, TypeInv, TypeOK, cache, request
<1>6. CASE Tick
  BY <1>6 DEF Tick, Real, Fits, cache, request
<1>7. CASE UNCHANGED vars
  BY <1>7 DEF vars, system, cache, request, Real, Fits
<1> QED
  BY <1>1, <1>2, <1>3, <1>4, <1>5, <1>6, <1>7 DEF Next, CollectProcesses

\* No rate is negative or counts what was used before the measurement it starts
\* from, for any number of requests and processes.  (CollectProcesses)
THEOREM RatesReal == Spec => []RatesAreReal
<1>1. Real => RatesAreReal
  BY DEF Real, RatesAreReal
<1> QED
  BY <1>1, TypeInit, TypeStep, RealInit, RealStep, PTL DEF Spec
=============================================================================
