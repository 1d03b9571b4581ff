--------------------------- MODULE AlertContract ---------------------------
(***************************************************************************)
(* What the alert engine promises its user, whatever happens to the        *)
(* process: for every alert key a sequence of episodes, each announced when *)
(* it begins, again when it gets worse than anything announced before and   *)
(* again when the last announcement is Repeat old -- and at no other time.  *)
(* There is no process, no memory and no database here: restarts, failed    *)
(* writes and pruning are invisible.                                        *)
(***************************************************************************)
EXTENDS AlertRules

CONSTANTS Keys,      \* alert keys, e.g. "disk:/"
          Channels,  \* the delivery channels that are enabled and available
          Repeat     \* how often an active alert is announced again

VARIABLES now,        \* the wall clock
          episode,    \* per key: the episode in progress, or NoEpisode
          announced   \* every announcement made so far

vars == <<now, episode, announced>>

Announcement == [key : Keys, level : Levels, channel : Channels, createdAt : Nat]

EpisodeRecord == [level : Levels, startedAt : Nat, notifiedLevel : Levels, notifiedAt : Nat]

NoEpisode == [level |-> LevelResolved, startedAt |-> 0,
              notifiedLevel |-> LevelResolved, notifiedAt |-> 0]

Announce(k, level) ==
  announced' = announced \cup
    [key : {k}, level : {level}, channel : Channels, createdAt : {now}]

InProgress(k) == episode[k].level > LevelResolved
Overdue(k)    == now - episode[k].notifiedAt >= Repeat

-----------------------------------------------------------------------------
Init == /\ now = 0
        /\ episode = [k \in Keys |-> NoEpisode]
        /\ announced = {}

\* An episode begins and is announced at once.
Begin(k, level) ==
  /\ ~InProgress(k)
  /\ episode' = [episode EXCEPT ![k] =
                   [level |-> level, startedAt |-> now,
                    notifiedLevel |-> level, notifiedAt |-> now]]
  /\ Announce(k, level)
  /\ UNCHANGED now

\* The episode is announced again: it is worse than announced, or the last
\* announcement is old.
Repeated(k, level) ==
  /\ InProgress(k)
  /\ level > episode[k].notifiedLevel \/ Overdue(k)
  /\ episode' = [episode EXCEPT ![k] =
                   [level |-> level, startedAt |-> @.startedAt,
                    notifiedLevel |-> level, notifiedAt |-> now]]
  /\ Announce(k, level)
  /\ UNCHANGED now

\* The level moves no higher than announced: nothing is said.
Move(k, level) ==
  /\ InProgress(k)
  /\ level <= episode[k].notifiedLevel
  /\ ~Overdue(k)
  /\ episode' = [episode EXCEPT ![k].level = level]
  /\ UNCHANGED <<now, announced>>

End(k) ==
  /\ InProgress(k)
  /\ episode' = [episode EXCEPT ![k] = NoEpisode]
  /\ UNCHANGED <<now, announced>>

\* The wall clock moves, forwards or (when it is set) backwards.
Clock == now' \in Nat /\ UNCHANGED <<episode, announced>>

Next ==
  \/ \E k \in Keys, level \in {LevelWarning, LevelCritical} :
       Begin(k, level) \/ Repeated(k, level) \/ Move(k, level)
  \/ \E k \in Keys : End(k)
  \/ Clock

Spec == Init /\ [][Next]_vars
=============================================================================
