---------------------------- MODULE ConfigStore -----------------------------
(***************************************************************************)
(* internal/config: the settings in memory and in config.json, next to a   *)
(* user who edits the file, with crashes at any point and failing reads    *)
(* and writes.                                                             *)
(*                                                                         *)
(* Store.mu is held by Update from its first to its last step and by Get,  *)
(* so one update is in progress at a time and nobody reads the settings    *)
(* meanwhile.  Of the settings the model keeps the ignore list, which      *)
(* Update changes, and one that only users change, the retention, with the *)
(* text it has in the file.                                                *)
(***************************************************************************)
EXTENDS Integers, Sequences, SequencesExt

CONSTANTS Names,       \* process names, as the ignore list compares them
          Retentions,  \* retentions in seconds
          UserFiles    \* what a user may leave in the file

VARIABLES file, tmp,   \* config.json and config.json.tmp
          cfg,         \* Store.cfg
          loadErr,     \* Store.loadErr is set
          pc,          \* what the program is doing
          next,        \* the settings being written
          edited       \* the user has written the file since it was loaded

vars == <<file, tmp, cfg, loadErr, pc, next, edited>>

-----------------------------------------------------------------------------
(* Durations and their text: a sequence of numbers with units. *)

Hour == 3600
Day  == 24 * Hour
Unit == [h |-> Hour, m |-> 60, s |-> 1]

\* time.Duration's own text: no units in front of the first that is not zero.
Text(v) ==
  LET hms == << <<v \div Hour, "h">>, <<(v % Hour) \div 60, "m">>, <<v % 60, "s">> >>
  IN  CASE v >= Hour -> hms
        [] v >= 60 /\ v < Hour -> Tail(hms)
        [] OTHER -> << hms[3] >>

\* A unit of zero at the end is dropped if one precedes it.
DropZeroUnit(text, unit) ==
  IF Len(text) > 1 /\ Last(text) = <<0, unit>> THEN Front(text) ELSE text

\* Mutant: days are written in front of what is left.
MarshalDaysFirst(v) ==
  LET rest == DropZeroUnit(DropZeroUnit(Text(v % Day), "s"), "m")
  IN  CASE v < Day               -> rest
        [] v >= Day /\ v % Day = 0 -> << <<v \div Day, "d">> >>
        [] OTHER                 -> << <<v \div Day, "d">> >> \o rest

MarshalDuration(v) ==
  IF v % Day = 0 THEN << <<v \div Day, "d">> >>
  ELSE DropZeroUnit(DropZeroUnit(Text(v), "s"), "m")

Refused == -1      \* an error: no retention that validate accepts, either

\* What is in front of a last "d" must be one number, as ParseFloat reads it.
ParseDays(text) == IF Len(text) = 1 THEN text[1][1] * Day ELSE Refused

\* time.ParseDuration adds up any units, and knows no "d".
ParseUnits(text) ==
  LET sum[i \in 0 .. Len(text)] ==
        IF i = 0 THEN 0 ELSE sum[i - 1] + text[i][1] * Unit[text[i][2]]
  IN  IF text = << >> \/ \E i \in 1 .. Len(text) : text[i][2] = "d" THEN Refused
      ELSE sum[Len(text)]

ParseDuration(text) ==
  IF text # << >> /\ Last(text)[2] = "d" THEN ParseDays(text) ELSE ParseUnits(text)

-----------------------------------------------------------------------------
ASSUME RetentionAssumption == Retentions \subseteq Nat \ {0} /\ Day \in Retentions

Config  == [retention : Retentions, ignore : SUBSET Names]
Default == [retention |-> Day, ignore |-> {}]

Absent == << >>      \* a key that is not in the file

File(is, text, list) == [is |-> is, retention |-> text, ignore |-> list]

NoFile    == File("none", Absent, {})
Broken    == File("broken", Absent, {})      \* not JSON, or not of the right types
Truncated == File("truncated", Absent, {})   \* a write that did not come to its end

Marshal(c) == File("text", MarshalDuration(c.retention), c.ignore)

\* Keys that are missing keep their defaults.
Unmarshal(f) ==
  [retention |-> IF f.retention = Absent THEN Default.retention ELSE ParseDuration(f.retention),
   ignore    |-> f.ignore]

IsText(f) == f.is = "text"

\* json.Unmarshal and validate accept the file.
Loads(f) == IsText(f) /\ Unmarshal(f).retention > 0

\* Names and Retentions include those of the files users leave.
ASSUME FilesAssumption ==
  \A f \in UserFiles : f = Broken \/ (IsText(f) /\ (Loads(f) => Unmarshal(f) \in Config))

-----------------------------------------------------------------------------
Init ==
  /\ file \in UserFiles \cup {NoFile} /\ tmp = NoFile
  /\ cfg = Default /\ loadErr = FALSE
  /\ pc = "off" /\ next = Default /\ edited = FALSE

\* Mutant: a file that is refused is used as far as it could be read.
OpenPartly ==
  /\ pc = "off" /\ file # NoFile
  /\ cfg' = IF IsText(file) THEN Unmarshal(file) ELSE Default
  /\ loadErr' = FALSE
  /\ pc' = "idle" /\ edited' = FALSE
  /\ UNCHANGED <<file, tmp, next>>

\* Open finds a file: it is loaded, or the defaults are used and the error kept.
OpenFile ==
  /\ pc = "off" /\ file # NoFile
  /\ \/ Loads(file) /\ cfg' = Unmarshal(file) /\ loadErr' = FALSE
     \/ cfg' = Default /\ loadErr' = TRUE      \* refused, or it cannot be read
  /\ pc' = "idle" /\ edited' = FALSE
  /\ UNCHANGED <<file, tmp, next>>

\* Open finds none: the defaults are written first.
OpenNew ==
  /\ pc = "off" /\ file = NoFile
  /\ pc' = "create" /\ next' = Default
  /\ UNCHANGED <<file, tmp, cfg, loadErr, edited>>

\* Mutant: the settings are in use before they are saved.
UpdateInMemory(c) ==
  /\ pc = "idle" /\ ~loadErr
  /\ next' = c /\ cfg' = c
  /\ pc' = "update"
  /\ UNCHANGED <<file, tmp, loadErr, edited>>

\* Update calls its function on a copy; with loadErr it returns at once.
Update(c) ==
  /\ pc = "idle" /\ ~loadErr
  /\ next' = c
  /\ pc' = "update"
  /\ UNCHANGED <<file, tmp, cfg, loadErr, edited>>

\* Engine.Ignore and Engine.Unignore.
Changes(c) == {[c EXCEPT !.ignore = @ \cup {n}] : n \in Names}
              \cup {[c EXCEPT !.ignore = @ \ {n}] : n \in Names}

\* Mutant: the file itself is written.
WriteInPlace ==
  /\ pc \in {"create", "update"}
  /\ file' \in {Truncated, Marshal(next)} /\ UNCHANGED tmp
  /\ UNCHANGED <<cfg, loadErr, pc, next, edited>>

\* write: os.WriteFile empties the temporary file and fills it.
Write ==
  /\ pc \in {"create", "update"}
  /\ \/ tmp' = Truncated
     \/ tmp = Truncated /\ tmp' = Marshal(next)
  /\ UNCHANGED <<file, cfg, loadErr, pc, next, edited>>

\* It takes the place of the old one.
Rename ==
  /\ tmp = Marshal(next)
  /\ file' = tmp /\ tmp' = NoFile /\ edited' = FALSE
  /\ \/ pc = "create" /\ pc' = "idle" /\ cfg' = Default /\ loadErr' = FALSE
     \/ pc = "update" /\ pc' = "swap" /\ UNCHANGED <<cfg, loadErr>>
  /\ UNCHANGED next

Swap ==
  /\ pc = "swap"
  /\ cfg' = next /\ pc' = "idle"
  /\ UNCHANGED <<file, tmp, loadErr, next, edited>>

\* Any of these calls may fail.  What Load could not write counts as not loaded.
WriteFails ==
  /\ pc \in {"create", "update"}
  /\ pc' = "idle"
  /\ IF pc = "create" THEN cfg' = Default /\ loadErr' = TRUE ELSE UNCHANGED <<cfg, loadErr>>
  /\ UNCHANGED <<file, tmp, next, edited>>

\* The process ends anywhere; what is in memory is lost.
Stop ==
  /\ pc # "off"
  /\ pc' = "off" /\ cfg' = Default /\ loadErr' = FALSE /\ next' = Default
  /\ UNCHANGED <<file, tmp, edited>>

UserEdits ==
  /\ file' \in UserFiles \cup {NoFile}
  /\ edited' = TRUE
  /\ UNCHANGED <<tmp, cfg, loadErr, pc, next>>

Program == OpenFile \/ OpenNew \/ (\E c \in Changes(cfg) : Update(c)) \/ Write \/ Rename \/ Swap
           \/ WriteFails

Next == Program \/ Stop \/ UserEdits

Spec == Init /\ [][Next]_vars

-----------------------------------------------------------------------------
FileText == {Marshal(c) : c \in Config}

\* "A crash never leaves a truncated config behind": config.json is at any time
\* what a user wrote or a complete set of settings, temporary files left by
\* earlier crashes notwithstanding.  (write)
TypeOK ==
  /\ file \in UserFiles \cup FileText \cup {NoFile}
  /\ tmp \in FileText \cup {NoFile, Truncated}
  /\ cfg \in Config /\ next \in Config
  /\ loadErr \in BOOLEAN /\ edited \in BOOLEAN
  /\ pc \in {"off", "idle", "create", "update", "swap"}

\* The settings in use: Get waits while Update has the lock.
Live == IF pc = "swap" THEN next ELSE cfg

\* Unless a user has edited the file since, a restart changes nothing: the file,
\* with its durations in their short form, loads as the settings in use.
RestartChangesNothing ==
  pc \in {"idle", "update", "swap"} /\ ~loadErr /\ ~edited
    => Loads(file) /\ Unmarshal(file) = Live

\* "Saving would replace the user's (broken) edits with defaults, so updates are
\* refused": a file that was there and could not be used when the program started
\* is changed by nobody but the user until the program is started again, also if
\* reading it failed for another reason or it has been mended since.  (Open, Update)
BrokenFileIsKept ==
  [][file' # file /\ (loadErr \/ (~edited /\ file # NoFile /\ ~Loads(file))) => UserEdits]_vars

\* Updates are atomic under crashes and failures: the settings in use and those
\* the next start finds change together or not at all, edits by users come
\* between, and a file that could not be loaded is not replaced.
Contract == INSTANCE ConfigContract
              WITH Configs <- Config, Nothing <- NoFile, Unusable <- Broken,
                   phase <- IF pc = "off" THEN "off"
                            ELSE IF pc = "create" THEN "creating" ELSE "running",
                   live <- Live,
                   saved <- IF ~Loads(file) /\ file # NoFile THEN Broken
                            ELSE IF file = NoFile THEN NoFile ELSE Unmarshal(file),
                   readonly <- loadErr

KeepsConfigContract == Contract!Spec
=============================================================================
