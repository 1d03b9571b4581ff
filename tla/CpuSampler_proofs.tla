------------------------- MODULE CpuSampler_proofs -------------------------
(***************************************************************************)
(* Safety of CpuSampler for any processes, names and duration.  What is    *)
(* inductive relates the tracks the code keeps to what was measured: how   *)
(* long a track is to the time above the threshold, a track that fires to  *)
(* the load or the alert it comes from, and an active alert to a process   *)
(* that carries it on.                                                     *)
(***************************************************************************)
EXTENDS CpuSampler, TLAPS

\* A track that does not fire yet is as old as the load above the threshold.
TracksMeasure ==
  \A p \in Pids : /\ procs[p] = NoTrack => above[p] = -1
                  /\ procs[p] # NoTrack /\ ~procs[p].firing => above[p] = procs[p].age

\* A track fires if that is justified by load or by an active alert.
TracksFireForAReason == \A p \in Pids : procs[p].firing <=> p \in justified

\* A track has a name its process may be read to have.
TracksAreNamed == \A p \in Pids : procs[p].name \in NamesOf[p] \cup {NoName}

\* Some process fires under an alert's name, or will take it over when measured
\* and read to have it.
Carried(n) == \E p \in MayBe(n) : \/ procs[p] = NoTrack
                                  \/ procs[p].firing /\ procs[p].name = n
ActiveIsCarried == \A n \in active \ misread : Carried(n)

\* What is about to be reported fires and is up.
FiringIsMeasured ==
  pc = "report" =>
    \A n \in firing :
      \E p \in MayBe(n) :
        procs[p].firing /\ procs[p].name = n /\ reading[p] \in {"mid", "high"}

\* What is about to be resolved was ignored or misread, or a process that may be
\* of the name is not up.
RestIsDown ==
  pc = "report" =>
    \A n \in active \ firing : \/ Ignored(ignoreCopy, n)
                               \/ n \in misread
                               \/ \E p \in MayBe(n) : reading[p] \notin {"mid", "high"}

IInv == /\ TypeOK /\ TracksMeasure /\ TracksFireForAReason /\ TracksAreNamed
        /\ ActiveIsCarried /\ FiringIsMeasured /\ RestIsDown

-----------------------------------------------------------------------------
(* Operators *)

LEMMA AtMostType ==
  ASSUME NEW b \in Nat, NEW n \in Nat
  PROVE  AtMost(b, n) \in 0 .. b
BY DEF AtMost

LEMMA NoTrackIs ==
  NoTrack.firing = FALSE /\ NoTrack.age = -1 /\ NoTrack.name = NoName /\ NoTrack \notin Track
BY DEF NoTrack, Track

LEMMA ReadNames ==
  ASSUME NEW x \in nameOf, NEW p \in Pids
  PROVE  x[p] \in NamesOf[p] /\ x[p] \in Names /\ x[p] # NoName
BY NameAssumption DEF nameOf

\* Naming a track leaves the rest of it, and a name that was read before.
LEMMA NamedIs ==
  ASSUME NEW tr \in Track, NEW n \in Names
  PROVE  /\ Named(tr, n) \in Track
         /\ Named(tr, n).firing = tr.firing /\ Named(tr, n).age = tr.age
         /\ Named(tr, n).name = IF tr.name = NoName THEN n ELSE tr.name
<1>1. [tr EXCEPT !.name = n] = [age |-> tr.age, firing |-> tr.firing, name |-> n]
  BY DEF Track
<1>2. [age |-> tr.age, firing |-> tr.firing, name |-> n] \in Track
  <2>1. tr.age \in 0 .. Duration /\ tr.firing \in BOOLEAN
    BY DEF Track
  <2> QED
    BY <2>1, Zenon DEF Track
<1> QED
  BY <1>1, <1>2 DEF Named

LEMMA FireIs ==
  ASSUME NEW tr \in Track
  PROVE  LET fires == [tr EXCEPT !.firing = TRUE]
         IN  fires \in Track /\ fires.firing /\ fires.name = tr.name
<1>1. ASSUME NEW b \in BOOLEAN
      PROVE  [tr EXCEPT !.firing = b] = [age |-> tr.age, firing |-> b, name |-> tr.name]
  BY DEF Track
<1>2. [tr EXCEPT !.firing = TRUE] = [age |-> tr.age, firing |-> TRUE, name |-> tr.name]
  BY <1>1, Zenon
<1> QED
  BY <1>2 DEF Track

\* A candidate is a track; a new one fires if an alert of its name is active.
LEMMA CandidateIs ==
  ASSUME TypeOK, NEW p \in Pids, NEW n \in Names
  PROVE  /\ Candidate(p, n) \in Track
         /\ procs[p] # NoTrack => Candidate(p, n) = procs[p]
         /\ procs[p] = NoTrack =>
              /\ Candidate(p, n).firing = TakesOver(n)
              /\ ~TakesOver(n) => Candidate(p, n).age = AtMost(Duration, sincePrev)
              /\ Candidate(p, n).name = IF active = {} THEN NoName ELSE n
<1>1. AtMost(Duration, sincePrev) \in 0 .. Duration /\ Duration \in 0 .. Duration
  <2>1. sincePrev \in Nat
    BY DEF TypeOK, Gap
  <2> QED
    BY <2>1, AtMostType, DurationAssumption
<1>3. TakesOver(n) \in BOOLEAN
  BY DEF TakesOver
<1>2. procs[p] \in Track \cup {NoTrack}
  BY DEF TypeOK
<1> QED
  BY <1>1, <1>2, <1>3 DEF Candidate, Track

\* What a reading makes of a track.
LEMMA TrackAfterIs ==
  ASSUME TypeOK, NEW s \in [Pids -> Loads], NEW p \in Pids, NEW n \in Names
  PROVE  LET tr   == Candidate(p, n)
             next == TrackAfter(s, p, n)
         IN  /\ next \in Track \cup {NoTrack}
             /\ Unmeasured(s, p) => next = procs[p]
             /\ ~Unmeasured(s, p) =>
                  /\ s[p] \in {"absent", "low"} => next = NoTrack
                  /\ s[p] = "mid" /\ ~tr.firing => next = NoTrack
                  /\ s[p] = "high" /\ ~tr.firing /\ tr.age < Duration => next = tr
                  /\ s[p] \in {"mid", "high"} /\ (tr.firing \/ (s[p] = "high" /\ tr.age >= Duration))
                       => /\ next \in Track /\ next.firing
                          /\ next.name = IF tr.name = NoName THEN n ELSE tr.name
<1> DEFINE tr    == Candidate(p, n)
           fires == [tr EXCEPT !.firing = TRUE]
<1>1. tr \in Track
  BY CandidateIs
<1>2. procs[p] \in Track \cup {NoTrack} /\ s[p] \in Loads
  BY DEF TypeOK
<1>3. fires \in Track /\ fires.firing /\ fires.name = tr.name
  BY <1>1, FireIs
<1>4. tr.age \in Nat /\ Duration \in Nat
  BY <1>1, DurationAssumption DEF Track
<1>5. TrackAfter(s, p, n) =
        IF Unmeasured(s, p) THEN procs[p]
        ELSE IF s[p] = "absent" THEN NoTrack
        ELSE IF tr.firing THEN (IF s[p] = "low" THEN NoTrack ELSE Named(tr, n))
        ELSE IF s[p] # "high" THEN NoTrack
        ELSE IF tr.age < Duration THEN tr
        ELSE Named(fires, n)
  BY DEF TrackAfter
<1> HIDE DEF tr, fires
<1>6. Named(tr, n) \in Track /\ Named(tr, n).firing = tr.firing
      /\ Named(tr, n).name = IF tr.name = NoName THEN n ELSE tr.name
  BY <1>1, NamedIs
<1>7. Named(fires, n) \in Track /\ Named(fires, n).firing
      /\ Named(fires, n).name = IF tr.name = NoName THEN n ELSE tr.name
  BY <1>3, NamedIs
<1> QED
  BY <1>1, <1>2, <1>4, <1>5, <1>6, <1>7 DEF Loads, tr

\* An alert that is carried fires, if all processes of its name are up and read
\* to have it.
LEMMA CarriedAfter ==
  ASSUME TypeOK, NEW s \in [Pids -> Loads], NEW x \in nameOf, NextSample(s, x),
         NEW n \in active, Carried(n), ~Misread(s, x, n)
  PROVE  \E p \in MayBe(n) :
           \/ procs'[p] = NoTrack /\ ~(Measured(s, p) /\ s[p] \in {"mid", "high"})
           \/ procs'[p].firing /\ procs'[p].name = n
<1>1. PICK p \in MayBe(n) : procs[p] = NoTrack \/ (procs[p].firing /\ procs[p].name = n)
  BY DEF Carried
<1>2. /\ p \in Pids /\ n \in NamesOf[p] /\ procs'[p] = TrackAfter(s, p, x[p]) /\ s[p] \in Loads
      /\ n \in Names /\ n # NoName /\ x[p] \in Names /\ x[p] # NoName
  BY NameAssumption, ReadNames DEF MayBe, NextSample, TypeOK
<1>3. Unmeasured(s, p) => ~Measured(s, p)
  BY DEF Measured, Unmeasured
<1>4. ~Unmeasured(s, p) /\ s[p] \in {"mid", "high"} =>
        Candidate(p, x[p]).firing /\ Candidate(p, x[p]).name = n
  <2> SUFFICES ASSUME ~Unmeasured(s, p), s[p] \in {"mid", "high"}
               PROVE  Candidate(p, x[p]).firing /\ Candidate(p, x[p]).name = n
    OBVIOUS
  <2>1. CASE procs[p] = NoTrack
    <3>1. x[p] = n
      BY <1>2, <2>1 DEF Misread, Measured, Unmeasured
    <3>2. TakesOver(n) /\ active # {}
      BY DEF TakesOver
    <3> QED
      BY <1>2, <2>1, <3>1, <3>2, CandidateIs
  <2>2. CASE procs[p] # NoTrack
    BY <1>1, <1>2, <2>2, CandidateIs
  <2> QED
    BY <2>1, <2>2
<1>5. CASE Unmeasured(s, p)
  BY <1>1, <1>2, <1>3, <1>5, TrackAfterIs
<1>6. CASE ~Unmeasured(s, p) /\ s[p] \in {"absent", "low"}
  BY <1>2, <1>6, TrackAfterIs
<1>7. CASE ~Unmeasured(s, p) /\ s[p] \in {"mid", "high"}
  BY <1>2, <1>4, <1>7, TrackAfterIs
<1> QED
  BY <1>1, <1>2, <1>5, <1>6, <1>7 DEF Loads

\* A tick makes tracks older and leaves what they know.
LEMMA TickedTrack ==
  ASSUME TypeOK, Tick, NEW p \in Pids
  PROVE  /\ procs'[p] \in Track \cup {NoTrack}
         /\ procs'[p] = NoTrack <=> procs[p] = NoTrack
         /\ procs'[p].firing = procs[p].firing /\ procs'[p].name = procs[p].name
         /\ procs[p] # NoTrack => procs'[p].age = AtMost(Duration, procs[p].age + 1)
<1>1. procs[p] \in Track \cup {NoTrack}
  BY DEF TypeOK
<1>2. CASE procs[p] = NoTrack
  BY <1>2 DEF Tick
<1>3. CASE procs[p] # NoTrack
  <2>1. procs[p] \in Track
    BY <1>1, <1>3
  <2>2. procs'[p] = [age |-> AtMost(Duration, procs[p].age + 1), firing |-> procs[p].firing,
                     name |-> procs[p].name]
    BY <1>3, <2>1 DEF Tick, Track
  <2>3. AtMost(Duration, procs[p].age + 1) \in 0 .. Duration
    BY <2>1, DurationAssumption DEF Track, AtMost
  <2>4. procs'[p] \in Track
    BY <2>1, <2>2, <2>3 DEF Track
  <2> QED
    BY <1>3, <2>2, <2>4, NoTrackIs
<1> QED
  BY <1>2, <1>3

\* A track that fires in a sample has a name.
LEMMA FiringHasName ==
  ASSUME TypeOK, NEW s \in [Pids -> Loads], NEW x \in nameOf, NextSample(s, x),
         NEW p \in Pids, Measured(s, p), procs'[p].firing
  PROVE  procs'[p].name \in Names
<1>1. x[p] \in Names /\ ~Unmeasured(s, p) /\ procs'[p] = TrackAfter(s, p, x[p]) /\ s[p] \in Loads
  BY ReadNames DEF Measured, Unmeasured, NextSample
<1>2. Candidate(p, x[p]) \in Track /\ Candidate(p, x[p]).age \in Nat /\ Duration \in Nat
  BY <1>1, CandidateIs, DurationAssumption DEF Track
<1>3. Candidate(p, x[p]).name \in Names \cup {NoName}
  BY <1>2 DEF Track
<1> QED
  BY <1>1, <1>2, <1>3, TrackAfterIs, NoTrackIs DEF Loads

-----------------------------------------------------------------------------
(* Types *)

LEMMA TypeInit == Init => TypeOK
BY DurationAssumption DEF Init, TypeOK, Nothing, Loads, Gap

LEMMA SampleType ==
  ASSUME TypeOK, NEW s \in [Pids -> Loads], NEW x \in nameOf, Sample(s, x)
  PROVE  TypeOK'
<1>0. Gap + 1 = 4 /\ Duration \in Nat /\ \A p \in Pids : s[p] \in Loads
  BY DurationAssumption DEF Gap
<1>1. prev' \subseteq Pids /\ sincePrev' \in 0 .. Gap + 1
  BY <1>0 DEF Sample
<1>2. UNCHANGED <<ruleOn, ignore, active, ignoring>>
  BY DEF Sample
<1>3. CASE FirstSample \/ SampleAfterGap
  BY <1>0, <1>1, <1>2, <1>3 DEF FirstSample, SampleAfterGap, TypeOK, Nothing, Loads
<1>4. CASE NextSample(s, x)
  <2>0. \A p \in Pids : procs'[p] = TrackAfter(s, p, x[p])
    BY <1>4 DEF NextSample
  <2>1. procs' \in [Pids -> Track \cup {NoTrack}]
    BY <1>4, TrackAfterIs, ReadNames DEF NextSample
  <2>2. firing' \subseteq Names
    <3>1. ASSUME NEW p \in Pids, Measured(s, p), procs'[p].firing
          PROVE  procs'[p].name \in Names
      BY <1>4, <3>1, FiringHasName
    <3>2. firing' = FiringNames(s, procs')
      BY <1>4 DEF NextSample
    <3> QED
      BY <3>1, <3>2 DEF FiringNames
  <2>3. reading' \in [Pids -> Loads]
    BY <1>4 DEF NextSample, Loads
  <2>4. above' \in [Pids -> -1 .. Duration]
    <3>1. AtMost(Duration, sincePrev) \in 0 .. Duration
      BY <1>0 DEF TypeOK, AtMost
    <3> QED
      BY <1>0, <1>4, <3>1 DEF NextSample, TypeOK
  <2>5. justified' \subseteq Pids /\ misread' \subseteq Names
    BY <1>4 DEF NextSample, TypeOK
  <2> QED
    BY <1>1, <1>2, <1>4, <2>1, <2>2, <2>3, <2>4, <2>5 DEF NextSample, TypeOK
<1> QED
  BY <1>3, <1>4 DEF Sample

LEMMA TypeStep == TypeOK /\ [Next]_vars => TypeOK'
<1> SUFFICES ASSUME TypeOK, [Next]_vars PROVE TypeOK'
  OBVIOUS
<1>1. CASE ReadConfig \/ SampleFails
  BY <1>1 DEF ReadConfig, SampleFails, TypeOK, ghostVars
<1>2. CASE RuleIsOff \/ Restart
  BY <1>2, DurationAssumption DEF RuleIsOff, Restart, TypeOK, Nothing, Loads, Gap
<1>3. CASE Report
  BY <1>3 DEF Report, TypeOK, Nothing, Loads
<1>4. ASSUME NEW s \in [Pids -> Loads], NEW x \in nameOf, Sample(s, x) PROVE TypeOK'
  BY <1>4, SampleType
<1>5. ASSUME NEW name \in Ignorable, Ignore(name) \/ IgnoreResolves(name) \/ Unignore(name)
      PROVE  TypeOK'
  BY <1>5, NameAssumption
     DEF Ignore, IgnoreResolves, Unignore, TypeOK, samplerVars, ghostVars
<1>6. CASE Tick
  <2>1. procs' \in [Pids -> Track \cup {NoTrack}]
    BY <1>6, TickedTrack DEF Tick
  <2>2. sincePrev' \in 0 .. Gap + 1
    BY <1>6 DEF Tick, TypeOK, Gap, AtMost
  <2>3. above' \in [Pids -> -1 .. Duration]
    BY <1>6, DurationAssumption DEF Tick, TypeOK, AtMost
  <2> QED
    BY <1>6, <2>1, <2>2, <2>3 DEF Tick, TypeOK
<1>7. CASE UNCHANGED vars
  BY <1>7 DEF vars, samplerVars, ghostVars, TypeOK
<1> QED
  BY <1>1, <1>2, <1>3, <1>4, <1>5, <1>6, <1>7 DEF Next, Sampler, Users

-----------------------------------------------------------------------------
(* Tracks and what was measured *)

\* The steps that leave tracks and measurements alone, or forget both.
Keeps   == UNCHANGED <<procs, justified, above>>
Forgets == /\ procs' = [p \in Pids |-> NoTrack]
           /\ justified' = {} /\ above' = [p \in Pids |-> -1]

LEMMA TrackChange ==
  [Next]_vars =>
    \/ Keeps \/ Forgets \/ Tick
    \/ \E s \in [Pids -> Loads], x \in nameOf : Sample(s, x) /\ NextSample(s, x)
BY DEF Next, Sampler, Users, ReadConfig, RuleIsOff, SampleFails, Report, Sample, FirstSample,
       SampleAfterGap, Ignore, IgnoreResolves, Unignore, Restart, vars, samplerVars, ghostVars,
       Keeps, Forgets

\* What a measured process does to its track and to its history: it is down, or
\* its track begins or goes on to fire, or it begins or goes on to wait.
LEMMA MeasuredAfter ==
  ASSUME TypeOK, TracksMeasure, TracksFireForAReason,
         NEW s \in [Pids -> Loads], NEW x \in nameOf, NextSample(s, x),
         NEW p \in Pids, ~Unmeasured(s, p)
  PROVE  \/ procs'[p] = NoTrack /\ above'[p] = -1 /\ p \notin justified'
         \/ /\ procs'[p] \in Track /\ procs'[p].firing /\ p \in justified'
            /\ reading'[p] \in {"mid", "high"}
         \/ /\ procs'[p] \in Track /\ ~procs'[p].firing /\ p \notin justified'
            /\ above'[p] = procs'[p].age
<1> DEFINE tr == Candidate(p, x[p])
           up == IF above[p] = -1 THEN AtMost(Duration, sincePrev) ELSE above[p]
           more == \/ p \in justified /\ StaysUp(s, p)
                   \/ Measured(s, p) /\ s[p] = "high" /\ up >= Duration
                   \/ /\ Measured(s, p) /\ s[p] \in {"mid", "high"}
                      /\ procs[p] = NoTrack /\ TakesOver(x[p])
<1>0. x[p] \in Names
  BY ReadNames
<1>1. /\ procs'[p] = TrackAfter(s, p, x[p]) /\ s[p] \in Loads
      /\ reading'[p] = IF Measured(s, p) THEN s[p] ELSE "absent"
      /\ p \in justified' <=> more
      /\ above'[p] = IF s[p] = "high" /\ ~more THEN up ELSE -1
  BY DEF NextSample
<1>2. s[p] # "absent" => Measured(s, p)
  BY DEF Measured, Unmeasured
<1>3. StaysUp(s, p) <=> s[p] \in {"mid", "high"}
  BY DEF StaysUp
<1>4. p \in justified <=> procs[p].firing
  BY DEF TracksFireForAReason
<1>5. tr \in Track /\ tr.age \in Nat /\ Duration \in Nat
  BY <1>0, CandidateIs, DurationAssumption DEF Track
<1>6. tr.firing <=> procs[p].firing \/ (procs[p] = NoTrack /\ TakesOver(x[p]))
  BY <1>0, CandidateIs, NoTrackIs
<1>7. ~tr.firing => up = tr.age
  <2> SUFFICES ASSUME ~tr.firing PROVE up = tr.age
    OBVIOUS
  <2>1. CASE procs[p] = NoTrack
    BY <1>0, <1>6, <2>1, CandidateIs DEF TracksMeasure
  <2>2. CASE procs[p] # NoTrack
    <3>1. procs[p].age # -1 /\ tr = procs[p]
      BY <1>0, <2>2, CandidateIs DEF TypeOK, Track
    <3> QED
      BY <2>2, <3>1 DEF TracksMeasure
  <2> QED
    BY <2>1, <2>2
<1> HIDE DEF up, tr
<1>8. s[p] \in {"mid", "high"} =>
        (more <=> tr.firing \/ (s[p] = "high" /\ up >= Duration))
  BY <1>2, <1>3, <1>4, <1>6
<1>9. s[p] \in {"absent", "low"} => ~more
  BY <1>3 DEF Measured
<1> HIDE DEF more
<1>10. CASE s[p] \in {"absent", "low"}
  BY <1>0, <1>1, <1>9, <1>10, TrackAfterIs
<1>11. CASE s[p] = "mid" /\ ~tr.firing
  BY <1>0, <1>1, <1>8, <1>11, TrackAfterIs DEF tr
<1>12. CASE s[p] = "high" /\ ~tr.firing /\ tr.age < Duration
  <2>1. procs'[p] = tr
    BY <1>0, <1>1, <1>12, TrackAfterIs DEF tr
  <2> QED
    BY <1>1, <1>5, <1>7, <1>8, <1>12, <2>1
<1>13. CASE s[p] \in {"mid", "high"} /\ (tr.firing \/ (s[p] = "high" /\ tr.age >= Duration))
  <2>1. procs'[p] \in Track /\ procs'[p].firing
    BY <1>0, <1>1, <1>13, TrackAfterIs DEF tr
  <2>2. more /\ Measured(s, p)
    BY <1>2, <1>7, <1>8, <1>13
  <2> QED
    BY <1>1, <1>13, <2>1, <2>2
<1> QED
  BY <1>1, <1>5, <1>10, <1>11, <1>12, <1>13 DEF Loads

\* A process that was not measured keeps track and history.
LEMMA UnmeasuredAfter ==
  ASSUME TypeOK, NEW s \in [Pids -> Loads], NEW x \in nameOf, NextSample(s, x),
         NEW p \in Pids, Unmeasured(s, p)
  PROVE  procs'[p] = procs[p] /\ above'[p] = above[p] /\ (p \in justified' <=> p \in justified)
<1>1. ~Measured(s, p) /\ StaysUp(s, p)
  BY DEF Measured, Unmeasured, StaysUp
<1>2. procs'[p] = procs[p]
  BY TrackAfterIs, ReadNames DEF NextSample
<1> QED
  BY <1>1, <1>2 DEF NextSample

LEMMA MeasureStep ==
  TypeOK /\ TracksMeasure /\ TracksFireForAReason /\ [Next]_vars
    => TracksMeasure' /\ TracksFireForAReason'
<1> SUFFICES ASSUME TypeOK, TracksMeasure, TracksFireForAReason, [Next]_vars, NEW p \in Pids
             PROVE  /\ procs'[p] = NoTrack => above'[p] = -1
                    /\ procs'[p] # NoTrack /\ ~procs'[p].firing => above'[p] = procs'[p].age
                    /\ procs'[p].firing <=> p \in justified'
  BY DEF TracksMeasure, TracksFireForAReason
<1>1. CASE Keeps \/ Forgets
  BY <1>1, NoTrackIs DEF Keeps, Forgets, TracksMeasure, TracksFireForAReason
<1>2. CASE Tick
  <2>1. above'[p] = IF above[p] = -1 THEN -1 ELSE AtMost(Duration, above[p] + 1)
    BY <1>2 DEF Tick
  <2>2. procs[p] # NoTrack => procs[p].age # -1
    BY DEF TypeOK, Track
  <2>3. justified' = justified
    BY <1>2 DEF Tick
  <2> QED
    BY <1>2, <2>1, <2>2, <2>3, TickedTrack DEF TracksMeasure, TracksFireForAReason
<1>3. ASSUME NEW s \in [Pids -> Loads], NEW x \in nameOf, NextSample(s, x)
      PROVE  /\ procs'[p] = NoTrack => above'[p] = -1
             /\ procs'[p] # NoTrack /\ ~procs'[p].firing => above'[p] = procs'[p].age
             /\ procs'[p].firing <=> p \in justified'
  <2>1. CASE Unmeasured(s, p)
    BY <1>3, <2>1, UnmeasuredAfter DEF TracksMeasure, TracksFireForAReason
  <2>2. CASE ~Unmeasured(s, p)
    BY <1>3, <2>2, MeasuredAfter, NoTrackIs
  <2> QED
    BY <2>1, <2>2
<1> QED
  BY <1>1, <1>2, <1>3, TrackChange

\* A track gets its name from a reading of its process.
LEMMA NamedStep == TypeOK /\ TracksAreNamed /\ [Next]_vars => TracksAreNamed'
<1> SUFFICES ASSUME TypeOK, TracksAreNamed, [Next]_vars, NEW p \in Pids
             PROVE  procs'[p].name \in NamesOf[p] \cup {NoName}
  BY DEF TracksAreNamed
<1>1. CASE Keeps \/ Forgets
  BY <1>1, NoTrackIs DEF Keeps, Forgets, TracksAreNamed
<1>2. CASE Tick
  BY <1>2, TickedTrack DEF TracksAreNamed
<1>3. ASSUME NEW s \in [Pids -> Loads], NEW x \in nameOf, NextSample(s, x)
      PROVE  procs'[p].name \in NamesOf[p] \cup {NoName}
  <2>1. x[p] \in NamesOf[p] /\ x[p] \in Names
    BY ReadNames
  <2>2. procs'[p] = TrackAfter(s, p, x[p])
    BY <1>3 DEF NextSample
  <2>3. Candidate(p, x[p]).name \in NamesOf[p] \cup {NoName}
    BY <2>1, CandidateIs DEF TracksAreNamed
  <2>4. Candidate(p, x[p]).age \in Nat /\ Duration \in Nat
    BY <2>1, CandidateIs, DurationAssumption DEF Track
  <2>5. s[p] \in Loads
    OBVIOUS
  <2>6. procs[p].name \in NamesOf[p] \cup {NoName}
    BY DEF TracksAreNamed
  <2> QED
    BY <2>1, <2>2, <2>3, <2>4, <2>5, <2>6, TrackAfterIs, NoTrackIs DEF Loads
<1> QED
  BY <1>1, <1>2, <1>3, TrackChange

-----------------------------------------------------------------------------
(* Alerts and the processes they are about *)

\* An alert begins only when a firing name is reported.
LEMMA ActiveChange ==
  [Next]_vars =>
    \/ active' \subseteq active /\ UNCHANGED misread
    \/ Report /\ active' \subseteq active \cup firing
    \/ \E s \in [Pids -> Loads], x \in nameOf : NextSample(s, x) /\ UNCHANGED active
BY DEF Next, Sampler, Users, ReadConfig, RuleIsOff, SampleFails, Report, Sample, FirstSample,
       SampleAfterGap, Ignore, IgnoreResolves, Unignore, Restart, Tick, vars, samplerVars, ghostVars

LEMMA CarriedStep ==
  TypeOK /\ TracksAreNamed' /\ ActiveIsCarried /\ FiringIsMeasured /\ [Next]_vars
    => ActiveIsCarried'
<1> SUFFICES ASSUME TypeOK, TracksAreNamed', ActiveIsCarried, FiringIsMeasured, [Next]_vars,
                    NEW n \in active' \ misread'
             PROVE  \E p \in MayBe(n) : \/ procs'[p] = NoTrack
                                        \/ procs'[p].firing /\ procs'[p].name = n
  BY DEF ActiveIsCarried, Carried, MayBe
<1>1. ASSUME NEW s \in [Pids -> Loads], NEW x \in nameOf, NextSample(s, x), UNCHANGED active
      PROVE  \E p \in MayBe(n) : \/ procs'[p] = NoTrack
                                 \/ procs'[p].firing /\ procs'[p].name = n
  <2>1. CASE n \in firing'
    <3>1. PICK p \in Pids : Measured(s, p) /\ procs'[p].firing /\ procs'[p].name = n
      BY <1>1, <2>1 DEF NextSample, FiringNames
    <3>2. n \in Names
      BY <1>1 DEF TypeOK
    <3>3. p \in MayBe(n)
      BY <3>1, <3>2, NameAssumption DEF TracksAreNamed, MayBe
    <3> QED
      BY <3>1, <3>3
  <2>2. CASE n \notin firing'
    <3>1. n \in active \ misread /\ ~Misread(s, x, n)
      BY <1>1, <2>2 DEF NextSample
    <3> QED
      BY <1>1, <3>1, CarriedAfter DEF ActiveIsCarried
  <2> QED
    BY <2>1, <2>2
<1>2. CASE ~\E s \in [Pids -> Loads], x \in nameOf : NextSample(s, x) /\ UNCHANGED active
  <2>1. Carried(n)
    <3>1. CASE active' \subseteq active /\ UNCHANGED misread
      BY <3>1 DEF ActiveIsCarried
    <3>2. CASE Report /\ active' \subseteq active \cup firing
      BY <3>2 DEF ActiveIsCarried, Carried, FiringIsMeasured, Report
    <3> QED
      BY <1>2, <3>1, <3>2, ActiveChange
  <2>2. Keeps \/ Forgets \/ Tick
    BY <1>2, TrackChange DEF Sample
  <2>3. CASE Keeps \/ Forgets
    BY <2>1, <2>3 DEF Keeps, Forgets, Carried, MayBe
  <2>4. CASE Tick
    BY <2>1, <2>4, TickedTrack DEF Carried, MayBe
  <2> QED
    BY <2>2, <2>3, <2>4
<1> QED
  BY <1>1, <1>2

\* A report under way: what fires was decided by the sample before it.
LEMMA ReportUnderWay ==
  [Next]_vars /\ pc' = "report" =>
    \/ /\ pc = "report" /\ UNCHANGED <<firing, ignoreCopy, reading, misread>>
       /\ active' \subseteq active
       /\ Tick \/ UNCHANGED procs
    \/ \E s \in [Pids -> Loads], x \in nameOf : NextSample(s, x) /\ UNCHANGED active
BY DEF Next, Sampler, Users, ReadConfig, RuleIsOff, SampleFails, Report, Sample, FirstSample,
       SampleAfterGap, Ignore, IgnoreResolves, Unignore, Restart, Tick, vars, samplerVars, ghostVars

LEMMA FiringStep ==
  TypeOK /\ TypeOK' /\ TracksMeasure /\ TracksFireForAReason /\ TracksAreNamed'
    /\ FiringIsMeasured /\ [Next]_vars => FiringIsMeasured'
<1> SUFFICES ASSUME TypeOK, TypeOK', TracksMeasure, TracksFireForAReason, TracksAreNamed',
                    FiringIsMeasured, [Next]_vars, pc' = "report", NEW n \in firing'
             PROVE  \E p \in MayBe(n) :
                      procs'[p].firing /\ procs'[p].name = n /\ reading'[p] \in {"mid", "high"}
  BY DEF FiringIsMeasured, MayBe
<1>1. CASE /\ pc = "report" /\ UNCHANGED <<firing, reading>>
           /\ Tick \/ UNCHANGED procs
  <2>1. PICK p \in MayBe(n) :
          procs[p].firing /\ procs[p].name = n /\ reading[p] \in {"mid", "high"}
    BY <1>1 DEF FiringIsMeasured
  <2>2. procs'[p].firing /\ procs'[p].name = n
    BY <1>1, <2>1, TickedTrack DEF MayBe
  <2> QED
    BY <1>1, <2>1, <2>2
<1>2. ASSUME NEW s \in [Pids -> Loads], NEW x \in nameOf, NextSample(s, x)
      PROVE  \E p \in MayBe(n) :
               procs'[p].firing /\ procs'[p].name = n /\ reading'[p] \in {"mid", "high"}
  <2>1. PICK p \in Pids : procs'[p].name = n /\ Measured(s, p) /\ procs'[p].firing
    BY <1>2 DEF NextSample, FiringNames
  <2>2. p \in MayBe(n)
    BY <2>1, NameAssumption DEF TracksAreNamed, MayBe, TypeOK
  <2>3. ~Unmeasured(s, p)
    BY <2>1 DEF Measured, Unmeasured
  <2> QED
    BY <1>2, <2>1, <2>2, <2>3, MeasuredAfter, NoTrackIs
<1> QED
  BY <1>1, <1>2, ReportUnderWay

LEMMA RestStep ==
  TypeOK /\ ActiveIsCarried /\ RestIsDown /\ [Next]_vars => RestIsDown'
<1> SUFFICES ASSUME TypeOK, ActiveIsCarried, RestIsDown, [Next]_vars, pc' = "report",
                    NEW n \in active' \ firing', ~Ignored(ignoreCopy', n), n \notin misread'
             PROVE  \E p \in MayBe(n) : reading'[p] \notin {"mid", "high"}
  BY DEF RestIsDown, MayBe, Ignored
<1>1. CASE /\ pc = "report" /\ UNCHANGED <<firing, ignoreCopy, reading, misread>>
           /\ active' \subseteq active
  BY <1>1 DEF RestIsDown
<1>2. ASSUME NEW s \in [Pids -> Loads], NEW x \in nameOf, NextSample(s, x), UNCHANGED active
      PROVE  \E p \in MayBe(n) : reading'[p] \notin {"mid", "high"}
  <2>1. n \in active \ misread /\ ~Misread(s, x, n) /\ Carried(n)
    BY <1>2 DEF ActiveIsCarried, NextSample
  <2>2. PICK p \in MayBe(n) :
           \/ procs'[p] = NoTrack /\ ~(Measured(s, p) /\ s[p] \in {"mid", "high"})
           \/ procs'[p].firing /\ procs'[p].name = n
    BY <1>2, <2>1, CarriedAfter
  <2>3. p \in Pids /\ reading'[p] = IF Measured(s, p) THEN s[p] ELSE "absent"
    BY <1>2 DEF NextSample, MayBe
  <2>4. ignoreCopy' = ignoreCopy
    BY <1>2 DEF NextSample
  <2>5. Measured(s, p) /\ procs'[p].firing /\ procs'[p].name = n => n \in firing'
    BY <1>2, <2>3, <2>4 DEF NextSample, FiringNames
  <2> QED
    BY <2>2, <2>3, <2>5
<1> QED
  BY <1>1, <1>2, ReportUnderWay

-----------------------------------------------------------------------------
LEMMA IInvInit == Init => IInv
BY TypeInit, NoTrackIs DEF Init, IInv, TracksMeasure, TracksFireForAReason, TracksAreNamed,
                           ActiveIsCarried, FiringIsMeasured, RestIsDown

LEMMA IInvStep == IInv /\ [Next]_vars => IInv'
BY TypeStep, MeasureStep, NamedStep, CarriedStep, FiringStep, RestStep DEF IInv

LEMMA IInvAlways == Spec => []IInv
BY IInvInit, IInvStep, PTL DEF Spec

\* The sampler's tracks, lists and names keep their types, whatever is measured,
\* ignored, saved or restarted.
THEOREM TypeCorrect == Spec => []TypeOK
<1>1. IInv => TypeOK
  BY DEF IInv
<1> QED
  BY <1>1, IInvAlways, PTL

\* An alert begins only for a process that was above the threshold for Duration
\* or took an active alert over, that has stayed above half of it since, and under
\* the name read for it.
THEOREM BeginsForAReason == Spec => BeginsAfterSustainedLoad
<1>1. ASSUME IInv, [Next]_vars
      PROVE  [\A n \in active' \ active :
                \E p \in justified :
                  procs[p].name = n /\ reading[p] \in {"mid", "high"}]_vars
  <2> SUFFICES ASSUME NEW n \in active' \ active
               PROVE  \E p \in justified :
                        procs[p].name = n /\ reading[p] \in {"mid", "high"}
    OBVIOUS
  <2>1. pc = "report" /\ n \in firing
    BY <1>1, ActiveChange DEF Report
  <2>2. PICK p \in MayBe(n) :
          procs[p].firing /\ procs[p].name = n /\ reading[p] \in {"mid", "high"}
    BY <1>1, <2>1 DEF IInv, FiringIsMeasured
  <2> QED
    BY <1>1, <2>2 DEF IInv, TracksFireForAReason, MayBe
<1> QED
  BY <1>1, IInvAlways, PTL DEF Spec, BeginsAfterSustainedLoad

\* An alert whose processes all measure half the threshold or more ends only
\* because its name is ignored, the rule is off, or one of the processes was read
\* to have another name when it could have taken the alert over.
THEOREM OngoingIsKept == Spec => OngoingLoadKeepsAlert
<1>1. ASSUME IInv, [Next]_vars
      PROVE  [\A n \in active \ active' :
                \/ ~ruleOn
                \/ Ignored(ignore \cup ignoreCopy, n)
                \/ \E m \in ignoring : Fold[m] = Fold[n]
                \/ n \in misread
                \/ \E p \in MayBe(n) : reading[p] \notin {"mid", "high"}]_vars
  <2> SUFFICES ASSUME NEW n \in active \ active'
               PROVE  \/ ~ruleOn
                      \/ Ignored(ignore \cup ignoreCopy, n)
                      \/ \E m \in ignoring : Fold[m] = Fold[n]
                      \/ n \in misread
                      \/ \E p \in MayBe(n) : reading[p] \notin {"mid", "high"}
    OBVIOUS
  <2>1. \/ RuleIsOff
        \/ Report
        \/ \E name \in Ignorable : IgnoreResolves(name)
    BY <1>1 DEF Next, Sampler, Users, ReadConfig, SampleFails, Sample, Ignore, Unignore, Restart,
                Tick, vars
  <2>2. CASE RuleIsOff
    BY <2>2 DEF RuleIsOff
  <2>3. CASE Report
    BY <1>1, <2>3 DEF Report, IInv, RestIsDown, Ignored
  <2>4. CASE \E name \in Ignorable : IgnoreResolves(name)
    BY <2>4 DEF IgnoreResolves
  <2> QED
    BY <2>1, <2>2, <2>3, <2>4
<1> QED
  BY <1>1, IInvAlways, PTL DEF Spec, OngoingLoadKeepsAlert
=============================================================================
