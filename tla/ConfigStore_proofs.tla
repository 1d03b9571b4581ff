------------------------- MODULE ConfigStore_proofs ------------------------
(***************************************************************************)
(* Safety of ConfigStore for any names, any retentions and any files a     *)
(* user may leave, and that it keeps ConfigContract.  It rests on the text *)
(* of durations: what MarshalDuration writes ParseDuration reads back.     *)
(***************************************************************************)
EXTENDS ConfigStore, TLAPS

\* What the program is doing, with what.
Phases ==
  /\ pc # "idle" => ~loadErr
  /\ pc = "create" => next = Default /\ (~edited => file = NoFile)
  /\ pc = "update" => next \in Changes(cfg)

IInv == TypeOK /\ RestartChangesNothing /\ Phases

-----------------------------------------------------------------------------
(* Durations and their text *)

\* f[i] is the sum of the first i parts of text.
Adds(f, text) ==
  f = [i \in 0 .. Len(text) |-> IF i = 0 THEN 0 ELSE f[i - 1] + text[i][1] * Unit[text[i][2]]]

\* The recursion of ParseUnits is well defined for text if it has such sums.
LEMMA ParseIs ==
  ASSUME NEW text, \E f : Adds(f, text),
         text # << >>, \A i \in 1 .. Len(text) : text[i][2] # "d"
  PROVE  \E f : Adds(f, text) /\ ParseUnits(text) = f[Len(text)]
<1>1. Adds(CHOOSE f : Adds(f, text), text)
  OBVIOUS
<1>2. ParseUnits(text) = (CHOOSE f : Adds(f, text))[Len(text)]
  BY Zenon DEF ParseUnits, Adds
<1> QED
  BY <1>1, <1>2

Part  == Nat \X {"h", "m", "s"}
Parts == Seq(Part)

\* Text without days is read by time.ParseDuration.
LEMMA ParseAsUnits ==
  ASSUME NEW text \in Parts, text # << >>
  PROVE  /\ ParseDuration(text) = ParseUnits(text)
         /\ \A i \in 1 .. Len(text) : text[i][2] # "d"
<1>1. \A i \in 1 .. Len(text) : text[i][2] # "d"
  BY DEF Parts, Part
<1>2. Len(text) \in 1 .. Len(text) /\ Last(text) = text[Len(text)]
  BY DEF Parts, Last
<1> QED
  BY <1>1, <1>2 DEF ParseDuration

LEMMA UnitIs == Unit["h"] = 3600 /\ Unit["m"] = 60 /\ Unit["s"] = 1
BY DEF Unit, Hour

\* Text with up to three parts, as MarshalDuration writes it.
LEMMA ParseShort ==
  ASSUME NEW text \in Parts
  PROVE  LET part(i) == text[i][1] * Unit[text[i][2]]
         IN  /\ Len(text) = 1 => ParseDuration(text) = part(1)
             /\ Len(text) = 2 => ParseDuration(text) = part(1) + part(2)
             /\ Len(text) = 3 => ParseDuration(text) = part(1) + part(2) + part(3)
<1> DEFINE part(i) == text[i][1] * Unit[text[i][2]]
<1>1. \A i \in 1 .. Len(text) : part(i) \in Nat
  <2> TAKE i \in 1 .. Len(text)
  <2>1. text[i] \in Part
    BY DEF Parts
  <2>2. text[i][1] \in Nat /\ text[i][2] \in {"h", "m", "s"}
    BY <2>1 DEF Part
  <2>3. \A k \in Nat : k * 3600 \in Nat /\ k * 60 \in Nat /\ k * 1 \in Nat
    OBVIOUS
  <2> QED
    BY <2>2, <2>3, UnitIs
<1> HIDE DEF part
<1>0. text # << >> => /\ ParseDuration(text) = ParseUnits(text)
                      /\ \A i \in 1 .. Len(text) : text[i][2] # "d"
  BY ParseAsUnits
<1>2. CASE Len(text) = 1
  <2>1. Adds([i \in 0 .. 1 |-> IF i = 0 THEN 0 ELSE part(1)], text)
    BY <1>1, <1>2 DEF Adds, part
  <2>2. text # << >>
    BY <1>2
  <2>3. \E f : Adds(f, text)
    BY <2>1, Zenon
  <2>4. PICK f : Adds(f, text) /\ ParseUnits(text) = f[Len(text)]
    BY <1>0, <2>2, <2>3, ParseIs, Zenon
  <2>5. ParseDuration(text) = f[1]
    BY <1>0, <1>2, <2>2, <2>4
  <2>6. f[0] = 0 /\ f[1] = f[0] + part(1)
    BY <1>2, <2>4 DEF Adds, part
  <2> QED
    BY <1>1, <1>2, <2>5, <2>6 DEF part
<1>3. CASE Len(text) = 2
  <2>1. Adds([i \in 0 .. 2 |-> IF i = 0 THEN 0 ELSE IF i = 1 THEN part(1) ELSE part(1) + part(2)],
             text)
    BY <1>1, <1>3 DEF Adds, part
  <2>2. text # << >>
    BY <1>3
  <2>3. \E f : Adds(f, text)
    BY <2>1, Zenon
  <2>4. PICK f : Adds(f, text) /\ ParseUnits(text) = f[Len(text)]
    BY <1>0, <2>2, <2>3, ParseIs, Zenon
  <2>5. ParseDuration(text) = f[2]
    BY <1>0, <1>3, <2>2, <2>4
  <2>6. f[0] = 0 /\ f[1] = f[0] + part(1) /\ f[2] = f[1] + part(2)
    BY <1>3, <2>4 DEF Adds, part
  <2> QED
    BY <1>1, <1>3, <2>5, <2>6 DEF part
<1>4. CASE Len(text) = 3
  <2>1. Adds([i \in 0 .. 3 |-> IF i = 0 THEN 0 ELSE IF i = 1 THEN part(1)
                               ELSE IF i = 2 THEN part(1) + part(2)
                               ELSE part(1) + part(2) + part(3)], text)
    BY <1>1, <1>4 DEF Adds, part
  <2>2. text # << >>
    BY <1>4
  <2>3. \E f : Adds(f, text)
    BY <2>1, Zenon
  <2>4. PICK f : Adds(f, text) /\ ParseUnits(text) = f[Len(text)]
    BY <1>0, <2>2, <2>3, ParseIs, Zenon
  <2>5. ParseDuration(text) = f[3]
    BY <1>0, <1>4, <2>2, <2>4
  <2>6. f[0] = 0 /\ f[1] = f[0] + part(1) /\ f[2] = f[1] + part(2) /\ f[3] = f[2] + part(3)
    BY <1>4, <2>4 DEF Adds, part
  <2> QED
    BY <1>1, <1>4, <2>5, <2>6 DEF part
<1> QED
  BY <1>2, <1>3, <1>4 DEF part

LEMMA FrontTwo ==
  ASSUME NEW P, NEW a \in P, NEW b \in P
  PROVE  Front(<<a, b>>) = <<a>>
<1> DEFINE t == <<a, b>>
<1>1. t \in Seq(P) /\ Len(t) = 2 /\ t[1] = a
  OBVIOUS
<1>2. Front(t) = SubSeq(t, 1, 1)
  BY <1>1 DEF Front
<1> HIDE DEF t
<1>3. SubSeq(t, 1, 1) \in Seq(P) /\ Len(SubSeq(t, 1, 1)) = 1 /\ SubSeq(t, 1, 1)[1] = a
  BY <1>1
<1>4. \A u \in Seq(P) : Len(u) = 1 /\ u[1] = a => u = <<a>>
  OBVIOUS
<1> QED
  BY <1>2, <1>3, <1>4 DEF t

LEMMA FrontThree ==
  ASSUME NEW P, NEW a \in P, NEW b \in P, NEW c \in P
  PROVE  Front(<<a, b, c>>) = <<a, b>>
<1> DEFINE t == <<a, b, c>>
<1>1. t \in Seq(P) /\ Len(t) = 3 /\ t[1] = a /\ t[2] = b
  OBVIOUS
<1>2. Front(t) = SubSeq(t, 1, 2)
  BY <1>1 DEF Front
<1> HIDE DEF t
<1>3. /\ SubSeq(t, 1, 2) \in Seq(P) /\ Len(SubSeq(t, 1, 2)) = 2
      /\ SubSeq(t, 1, 2)[1] = a /\ SubSeq(t, 1, 2)[2] = b
  BY <1>1
<1>4. \A u \in Seq(P) : Len(u) = 2 /\ u[1] = a /\ u[2] = b => u = <<a, b>>
  OBVIOUS
<1> QED
  BY <1>2, <1>3, <1>4 DEF t

LEMMA TailThree ==
  ASSUME NEW P, NEW a \in P, NEW b \in P, NEW c \in P
  PROVE  Tail(<<a, b, c>>) = <<b, c>>
<1> DEFINE t == <<a, b, c>>
<1>1. t \in Seq(P) /\ Len(t) = 3 /\ t[2] = b /\ t[3] = c
  OBVIOUS
<1> HIDE DEF t
<1>2. Tail(t) \in Seq(P) /\ Len(Tail(t)) = 2 /\ Tail(t)[1] = b /\ Tail(t)[2] = c
  BY <1>1
<1>3. \A u \in Seq(P) : Len(u) = 2 /\ u[1] = b /\ u[2] = c => u = <<b, c>>
  OBVIOUS
<1> QED
  BY <1>2, <1>3 DEF t

LEMMA DropOfOne ==
  ASSUME NEW a \in Part, NEW unit
  PROVE  DropZeroUnit(<<a>>, unit) = <<a>>
BY DEF DropZeroUnit

LEMMA DropOfTwo ==
  ASSUME NEW a \in Part, NEW b \in Part, NEW unit
  PROVE  DropZeroUnit(<<a, b>>, unit) = IF b = <<0, unit>> THEN <<a>> ELSE <<a, b>>
BY FrontTwo DEF DropZeroUnit, Last

LEMMA DropOfThree ==
  ASSUME NEW a \in Part, NEW b \in Part, NEW c \in Part, NEW unit
  PROVE  DropZeroUnit(<<a, b, c>>, unit) = IF c = <<0, unit>> THEN <<a, b>> ELSE <<a, b, c>>
BY FrontThree DEF DropZeroUnit, Last

Shortened(text) == DropZeroUnit(DropZeroUnit(text, "s"), "m")

LEMMA PartsAre ==
  /\ \A a \in Part : << a >> \in Parts /\ Len(<<a>>) = 1
  /\ \A a, b \in Part : <<a, b>> \in Parts /\ Len(<<a, b>>) = 2
  /\ \A a, b, c \in Part : <<a, b, c>> \in Parts /\ Len(<<a, b, c>>) = 3
BY DEF Part, Parts

\* Dropping zero units does not change what the text stands for.
LEMMA SecondsKept == \A s \in Nat : ParseDuration(Shortened(<< <<s, "s">> >>)) = s
<1> SUFFICES ASSUME NEW s \in Nat PROVE ParseDuration(Shortened(<< <<s, "s">> >>)) = s
  OBVIOUS
<1> DEFINE S == <<s, "s">>
<1>1. S \in Part /\ S[1] * Unit[S[2]] = s
  BY UnitIs DEF Part
<1> HIDE DEF S
<1>2. Shortened(<<S>>) = <<S>>
  BY <1>1, DropOfOne DEF Shortened
<1> QED
  BY <1>1, <1>2, PartsAre, ParseShort DEF S

LEMMA MinutesKept ==
  \A m, s \in Nat : ParseDuration(Shortened(<< <<m, "m">>, <<s, "s">> >>)) = m * 60 + s
<1> SUFFICES ASSUME NEW m \in Nat, NEW s \in Nat
             PROVE  ParseDuration(Shortened(<< <<m, "m">>, <<s, "s">> >>)) = m * 60 + s
  OBVIOUS
<1> DEFINE M == <<m, "m">>
           S == <<s, "s">>
<1>1. M \in Part /\ S \in Part /\ M[1] * Unit[M[2]] = m * 60 /\ S[1] * Unit[S[2]] = s
  BY UnitIs DEF Part
<1>2. (S = <<0, "s">> <=> s = 0) /\ M # <<0, "s">> /\ S # <<0, "m">>
  OBVIOUS
<1> HIDE DEF M, S
<1>3. Shortened(<<M, S>>) = IF s = 0 THEN <<M>> ELSE <<M, S>>
  BY <1>1, <1>2, DropOfOne, DropOfTwo DEF Shortened
<1>4. ParseDuration(<<M>>) = m * 60 /\ ParseDuration(<<M, S>>) = m * 60 + s
  BY <1>1, PartsAre, ParseShort
<1>5. ParseDuration(Shortened(<<M, S>>)) = m * 60 + s
  BY <1>3, <1>4
<1> QED
  BY <1>5 DEF M, S

LEMMA HoursKept ==
  \A h, m, s \in Nat :
    ParseDuration(Shortened(<< <<h, "h">>, <<m, "m">>, <<s, "s">> >>)) = h * 3600 + m * 60 + s
<1> SUFFICES ASSUME NEW h \in Nat, NEW m \in Nat, NEW s \in Nat
             PROVE  ParseDuration(Shortened(<< <<h, "h">>, <<m, "m">>, <<s, "s">> >>))
                      = h * 3600 + m * 60 + s
  OBVIOUS
<1> DEFINE H == <<h, "h">>
           M == <<m, "m">>
           S == <<s, "s">>
<1>1. /\ H \in Part /\ M \in Part /\ S \in Part
      /\ H[1] * Unit[H[2]] = h * 3600 /\ M[1] * Unit[M[2]] = m * 60 /\ S[1] * Unit[S[2]] = s
  BY UnitIs DEF Part
<1>2. /\ M = <<0, "m">> <=> m = 0
      /\ S = <<0, "s">> <=> s = 0
      /\ M # <<0, "s">> /\ S # <<0, "m">>
  OBVIOUS
<1> HIDE DEF H, M, S
<1>3. Shortened(<<H, M, S>>) = IF s = 0 THEN IF m = 0 THEN <<H>> ELSE <<H, M>> ELSE <<H, M, S>>
  BY <1>1, <1>2, DropOfTwo, DropOfThree DEF Shortened
<1>4. ParseDuration(<<H>>) = h * 3600 /\ ParseDuration(<<H, M>>) = h * 3600 + m * 60
  BY <1>1, PartsAre, ParseShort
<1>5. ParseDuration(<<H, M, S>>) = h * 3600 + m * 60 + s
  BY <1>1, PartsAre, ParseShort
<1>6. ParseDuration(Shortened(<<H, M, S>>)) = h * 3600 + m * 60 + s
  BY <1>3, <1>4, <1>5
<1> QED
  BY <1>6 DEF H, M, S

\* What is written for a duration is read back as that duration.
THEOREM RoundTrip ==
  ASSUME NEW v \in Nat
  PROVE  ParseDuration(MarshalDuration(v)) = v
<1> DEFINE h == v \div 3600
           m == (v % 3600) \div 60
           s == v % 60
<1>0. Hour = 3600 /\ Day = 86400
  BY DEF Hour, Day
<1>1. CASE v % 86400 = 0
  <2> DEFINE d == v \div 86400
  <2>1. d \in Nat /\ d * 86400 = v
    BY <1>1
  <2>2. MarshalDuration(v) = << <<d, "d">> >>
    BY <1>0, <1>1 DEF MarshalDuration
  <2> HIDE DEF d
  <2>3. ParseDuration(<< <<d, "d">> >>) = d * Day
    BY <2>1 DEF ParseDuration, ParseDays, Last
  <2> QED
    BY <1>0, <2>1, <2>2, <2>3
<1>2. CASE v % 86400 # 0
  <2>1. MarshalDuration(v) = Shortened(Text(v))
    BY <1>0, <1>2 DEF MarshalDuration, Shortened
  <2>2. /\ h \in Nat /\ m \in Nat /\ s \in Nat /\ h * 3600 + m * 60 + s = v
        /\ v < 3600 => m * 60 + s = v
        /\ v < 60 => s = v
    OBVIOUS
  <2>3. /\ v >= 3600 => Text(v) = << <<h, "h">>, <<m, "m">>, <<s, "s">> >>
        /\ v >= 60 /\ v < 3600 => Text(v) = << <<m, "m">>, <<s, "s">> >>
        /\ v < 60 => Text(v) = << <<s, "s">> >>
    <3> DEFINE hms == << <<h, "h">>, <<m, "m">>, <<s, "s">> >>
    <3>0. <<h, "h">> \in Part /\ <<m, "m">> \in Part /\ <<s, "s">> \in Part
      BY DEF Part
    <3>1. hms[3] = <<s, "s">> /\ Tail(hms) = << <<m, "m">>, <<s, "s">> >>
      BY <3>0, TailThree
    <3>2. /\ v >= 60 /\ v < 3600 => ~(v >= 3600)
          /\ v < 60 => ~(v >= 3600) /\ ~(v >= 60 /\ v < 3600)
      OBVIOUS
    <3>3. Text(v) = CASE v >= 3600 -> hms
                      [] v >= 60 /\ v < 3600 -> Tail(hms)
                      [] OTHER -> << hms[3] >>
      BY <1>0 DEF Text
    <3> HIDE DEF hms
    <3>4. /\ v >= 3600 => Text(v) = hms
          /\ v >= 60 /\ v < 3600 => Text(v) = Tail(hms)
          /\ v < 60 => Text(v) = << hms[3] >>
      BY <3>2, <3>3
    <3> QED
      BY <3>1, <3>4 DEF hms
  <2> HIDE DEF h, m, s
  <2>4. PICK hours, minutes, seconds \in Nat : hours = h /\ minutes = m /\ seconds = s
    BY <2>2
  <2>5. /\ hours * 3600 + minutes * 60 + seconds = v
        /\ v < 3600 => minutes * 60 + seconds = v
        /\ v < 60 => seconds = v
    BY <2>2, <2>4
  <2>6. CASE v >= 3600
    <3>1. Text(v) = << <<hours, "h">>, <<minutes, "m">>, <<seconds, "s">> >>
      BY <2>3, <2>4, <2>6
    <3> QED
      BY <2>1, <2>5, <3>1, HoursKept
  <2>7. CASE v < 3600 /\ v >= 60
    <3>1. Text(v) = << <<minutes, "m">>, <<seconds, "s">> >>
      BY <2>3, <2>4, <2>7
    <3> QED
      BY <2>1, <2>5, <2>7, <3>1, MinutesKept
  <2>8. CASE v < 60
    <3>1. Text(v) = << <<seconds, "s">> >>
      BY <2>3, <2>4, <2>8
    <3> QED
      BY <2>1, <2>5, <2>8, <3>1, SecondsKept
  <2> QED
    BY <2>6, <2>7, <2>8
<1> QED
  BY <1>1, <1>2

-----------------------------------------------------------------------------
(* Settings and files *)

LEMMA DefaultType == Default \in Config
BY RetentionAssumption DEF Default, Config

LEMMA ChangesType == ASSUME NEW c \in Config PROVE Changes(c) \subseteq Config
BY DEF Changes, Config

LEMMA SomeText == ASSUME NEW v \in Nat \ {0} PROVE MarshalDuration(v) # << >>
<1>1. ParseDuration(<< >>) = -1
  BY DEF ParseDuration, ParseUnits, Refused
<1> QED
  BY <1>1, RoundTrip

\* Settings that are written load as they were.
LEMMA WrittenLoads ==
  ASSUME NEW c \in Config
  PROVE  Loads(Marshal(c)) /\ Unmarshal(Marshal(c)) = c
<1>1. c.retention \in Nat \ {0} /\ c = [retention |-> c.retention, ignore |-> c.ignore]
  BY RetentionAssumption DEF Config
<1>2. /\ Marshal(c).is = "text" /\ Marshal(c).ignore = c.ignore
      /\ Marshal(c).retention = MarshalDuration(c.retention)
  BY DEF Marshal, File
<1>3. MarshalDuration(c.retention) # << >> /\ ParseDuration(MarshalDuration(c.retention)) = c.retention
  BY <1>1, SomeText, RoundTrip
<1>4. Unmarshal(Marshal(c)) = c
  BY <1>1, <1>2, <1>3 DEF Unmarshal, Absent
<1> QED
  BY <1>1, <1>2, <1>4 DEF Loads, IsText

LEMMA FileKinds ==
  /\ \A f \in UserFiles \cup FileText : f # NoFile /\ (Loads(f) => Unmarshal(f) \in Config)
  /\ ~Loads(NoFile) /\ Truncated \notin FileText
<1>1. NoFile.is = "none" /\ Truncated.is = "truncated" /\ Broken.is = "broken"
  BY DEF NoFile, Truncated, Broken, File
<1>2. \A f \in FileText : Loads(f) /\ Unmarshal(f) \in Config
  BY WrittenLoads DEF FileText
<1> QED
  BY <1>1, <1>2, FilesAssumption DEF Loads, IsText

-----------------------------------------------------------------------------
(* Types *)

LEMMA TypeInit == Init => TypeOK
BY DefaultType DEF Init, TypeOK

LEMMA TypeStep == TypeOK /\ Phases /\ [Next]_vars => TypeOK'
<1> SUFFICES ASSUME TypeOK, Phases, [Next]_vars PROVE TypeOK'
  OBVIOUS
<1>1. CASE OpenFile
  <2>1. Loads(file) => Unmarshal(file) \in Config
    BY FileKinds DEF TypeOK
  <2> QED
    BY <1>1, <2>1, DefaultType DEF OpenFile, TypeOK
<1>2. CASE OpenNew \/ WriteFails \/ Stop
  BY <1>2, DefaultType DEF OpenNew, WriteFails, Stop, TypeOK
<1>3. ASSUME NEW c \in Changes(cfg), Update(c) PROVE TypeOK'
  BY <1>3, ChangesType DEF Update, TypeOK
<1>4. CASE Write
  BY <1>4 DEF Write, TypeOK, FileText
<1>5. CASE Rename
  BY <1>5, DefaultType DEF Rename, TypeOK, FileText
<1>6. CASE Swap \/ UserEdits \/ UNCHANGED vars
  BY <1>6 DEF Swap, UserEdits, TypeOK, vars
<1> QED
  BY <1>1, <1>2, <1>3, <1>4, <1>5, <1>6 DEF Next, Program

LEMMA PhasesStep == TypeOK /\ Phases /\ [Next]_vars => Phases'
<1> SUFFICES ASSUME TypeOK, Phases, [Next]_vars PROVE Phases'
  OBVIOUS
<1>1. CASE OpenFile \/ OpenNew \/ Write \/ WriteFails \/ Stop
  BY <1>1 DEF OpenFile, OpenNew, Write, WriteFails, Stop, Phases
<1>2. ASSUME NEW c \in Changes(cfg), Update(c) PROVE Phases'
  BY <1>2 DEF Update, Phases
<1>3. CASE Rename \/ Swap \/ UserEdits \/ UNCHANGED vars
  BY <1>3 DEF Rename, Swap, UserEdits, vars, Phases
<1> QED
  BY <1>1, <1>2, <1>3 DEF Next, Program

-----------------------------------------------------------------------------
(* Restarts *)

LEMMA RestartStep ==
  TypeOK /\ Phases /\ RestartChangesNothing /\ [Next]_vars => RestartChangesNothing'
<1> SUFFICES ASSUME TypeOK, Phases, RestartChangesNothing, [Next]_vars,
                    pc' \in {"idle", "update", "swap"}, ~loadErr', ~edited'
             PROVE  Loads(file') /\ Unmarshal(file') = Live'
  BY DEF RestartChangesNothing, Loads, IsText, Unmarshal
<1>1. CASE OpenFile
  BY <1>1 DEF OpenFile, Live
<1>2. ASSUME NEW c \in Changes(cfg), Update(c) PROVE Loads(file') /\ Unmarshal(file') = Live'
  BY <1>2 DEF Update, RestartChangesNothing, Live
<1>3. CASE Write \/ WriteFails \/ Swap \/ UNCHANGED vars
  BY <1>3 DEF Write, WriteFails, Swap, vars, RestartChangesNothing, Live
<1>4. CASE Rename
  <2>1. Loads(file') /\ Unmarshal(file') = next
    BY <1>4, WrittenLoads DEF Rename, TypeOK
  <2>2. Live' = next
    BY <1>4 DEF Rename, Live, Phases
  <2> QED
    BY <2>1, <2>2
<1>5. CASE OpenNew \/ Stop \/ UserEdits
  BY <1>5 DEF OpenNew, Stop, UserEdits
<1> QED
  BY <1>1, <1>2, <1>3, <1>4, <1>5 DEF Next, Program

LEMMA IInvInit == Init => IInv
BY TypeInit DEF Init, IInv, RestartChangesNothing, Phases

LEMMA IInvStep == IInv /\ [Next]_vars => IInv'
BY TypeStep, PhasesStep, RestartStep DEF IInv

LEMMA IInvAlways == Spec => []IInv
BY IInvInit, IInvStep, PTL DEF Spec

\* config.json is at any time what a user wrote or a complete set of settings,
\* whatever fails or crashes.
THEOREM TypeCorrect == Spec => []TypeOK
<1>1. IInv => TypeOK
  BY DEF IInv
<1> QED
  BY <1>1, IInvAlways, PTL

\* Unless a user has edited the file, a restart finds the settings in use.
THEOREM RestartIsHarmless == Spec => []RestartChangesNothing
<1>1. IInv => RestartChangesNothing
  BY DEF IInv
<1> QED
  BY <1>1, IInvAlways, PTL

\* A file that could not be used is changed by its user only, until the program
\* is started again.
THEOREM BrokenIsKept == Spec => BrokenFileIsKept
<1>1. ASSUME IInv, [Next]_vars
      PROVE  [file' # file /\ (loadErr \/ (~edited /\ file # NoFile /\ ~Loads(file)))
                => UserEdits]_vars
  <2>1. file' # file => Rename \/ UserEdits
    BY <1>1 DEF Next, Program, OpenFile, OpenNew, Update, Write, Swap, WriteFails, Stop, vars
  <2>2. Rename => ~loadErr /\ (edited \/ file = NoFile \/ Loads(file))
    BY <1>1 DEF Rename, IInv, Phases, RestartChangesNothing
  <2> QED
    BY <2>1, <2>2
<1> QED
  BY <1>1, IInvAlways, PTL DEF Spec, BrokenFileIsKept

-----------------------------------------------------------------------------
(* Refinement: settings change in the program and for the next start at once. *)

\* What the next start will find, in the words of ConfigContract.
Saved == IF ~Loads(file) /\ file # NoFile THEN Broken
         ELSE IF file = NoFile THEN NoFile ELSE Unmarshal(file)

LEMMA SavedIs ==
  ASSUME TypeOK
  PROVE  /\ Saved \in Config \cup {NoFile, Broken}
         /\ Loads(file) => file # NoFile /\ Saved = Unmarshal(file) /\ Saved \in Config
         /\ Saved = NoFile <=> file = NoFile
<1>1. NoFile # Broken /\ NoFile \notin Config
  <2>1. NoFile.is = "none" /\ Broken.is = "broken" /\ DOMAIN NoFile = {"is", "retention", "ignore"}
    BY DEF NoFile, Broken, File
  <2>2. \A c \in Config : DOMAIN c = {"retention", "ignore"}
    BY DEF Config
  <2> QED
    BY <2>1, <2>2
<1>2. Loads(file) => file # NoFile /\ Unmarshal(file) \in Config
  BY FileKinds DEF TypeOK
<1> QED
  BY <1>1, <1>2 DEF Saved

LEMMA ContractInit == Init => Contract!Init
<1> SUFFICES ASSUME Init PROVE Contract!Init
  OBVIOUS
<1>1. Saved \in Config \cup {NoFile, Broken}
  BY TypeInit, SavedIs
<1> QED
  BY <1>1 DEF Init, Contract!Init, Saved, Live

LEMMA ContractNext == IInv /\ IInv' /\ [Next]_vars => [Contract!Next]_(Contract!cvars)
<1> SUFFICES ASSUME IInv, IInv', [Next]_vars PROVE [Contract!Next]_(Contract!cvars)
  OBVIOUS
<1>0. file' = file => Saved' = Saved
  BY DEF Saved, Loads, IsText, Unmarshal
<1>1. CASE OpenFile
  <2>1. Contract!Start
    BY <1>0, <1>1, SavedIs DEF OpenFile, Contract!Start, Contract!Running, Saved, Live, IInv
  <2> QED
    BY <2>1 DEF Contract!Next
<1>2. CASE OpenNew
  <2>1. Contract!Start
    BY <1>0, <1>2, SavedIs DEF OpenNew, Contract!Start, Saved, Live, IInv
  <2> QED
    BY <2>1 DEF Contract!Next
<1>3. ASSUME NEW c \in Changes(cfg), Update(c) PROVE UNCHANGED Contract!cvars
  BY <1>0, <1>3 DEF Update, Contract!cvars, Saved, Live
<1>4. CASE Write \/ Swap \/ UNCHANGED vars
  BY <1>0, <1>4 DEF Write, Swap, vars, Contract!cvars, Saved, Live
<1>5. CASE Rename
  <2>1. Loads(file') /\ Unmarshal(file') = next /\ file' # NoFile
    BY <1>5, WrittenLoads, FileKinds DEF Rename, IInv, TypeOK, FileText
  <2>2. Saved' = next
    BY <2>1 DEF Saved, Loads, IsText, Unmarshal
  <2>3. CASE pc = "create"
    <3>1. Contract!Create
      BY <1>5, <2>2, <2>3 DEF Rename, Contract!Create, Contract!Running, Saved, Live, IInv, Phases
    <3> QED
      BY <3>1 DEF Contract!Next
  <2>4. CASE pc = "update"
    <3>1. Contract!Change
      BY <1>5, <2>2, <2>4 DEF Rename, Contract!Change, Saved, Live, IInv, Phases
    <3> QED
      BY <3>1 DEF Contract!Next
  <2> QED
    BY <1>5, <2>3, <2>4 DEF Rename
<1>6. CASE WriteFails /\ pc = "create"
  <2>1. Contract!Create
    BY <1>0, <1>6 DEF WriteFails, Contract!Create, Contract!Running, Saved, Live
  <2> QED
    BY <2>1 DEF Contract!Next
<1>7. CASE WriteFails /\ pc = "update"
  BY <1>0, <1>7 DEF WriteFails, Contract!cvars, Saved, Live
<1>8. CASE Stop
  <2>1. Contract!Stop
    BY <1>0, <1>8 DEF Stop, Contract!Stop, Saved, Live
  <2> QED
    BY <2>1 DEF Contract!Next
<1>9. CASE UserEdits
  <2>1. Saved' \in Config \cup {NoFile, Broken}
    <3>1. \A f \in UserFiles \cup {NoFile} :
            (IF ~Loads(f) /\ f # NoFile THEN Broken
             ELSE IF f = NoFile THEN NoFile ELSE Unmarshal(f)) \in Config \cup {NoFile, Broken}
      BY FileKinds
    <3> QED
      BY <1>9, <3>1 DEF UserEdits, Saved, Loads, IsText, Unmarshal
  <2>2. Contract!Edit
    BY <1>9, <2>1 DEF UserEdits, Contract!Edit, Saved, Live
  <2> QED
    BY <2>2 DEF Contract!Next
<1> QED
  BY <1>1, <1>2, <1>3, <1>4, <1>5, <1>6, <1>7, <1>8, <1>9 DEF Next, Program, WriteFails

\* The config store keeps the promise of ConfigContract: updates are atomic under
\* crashes and failures and a file that could not be loaded is not replaced.
THEOREM ContractKept == Spec => KeepsConfigContract
<1>1. Init => Contract!Init
  BY ContractInit
<1>2. IInv /\ IInv' /\ [Next]_vars => [Contract!Next]_(Contract!cvars)
  BY ContractNext
<1> QED
  BY <1>1, <1>2, IInvAlways, PTL DEF Spec, KeepsConfigContract, Contract!Spec
=============================================================================
