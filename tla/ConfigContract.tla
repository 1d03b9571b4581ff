--------------------------- MODULE ConfigContract ---------------------------
(***************************************************************************)
(* What the config store promises: a change of the settings happens at     *)
(* once, in the program and for the next start, or not at all; a file that *)
(* could not be loaded is not replaced.  Users edit the saved settings     *)
(* when they like and the program learns of it when it starts.             *)
(***************************************************************************)
CONSTANTS Configs,   \* the settings there are
          Default,
          Nothing, Unusable,   \* no saved settings, and some that cannot be used
          Changes(_) \* the settings a change may turn given ones into

VARIABLES phase,     \* "off", "creating" the first file, or "running"
          live,      \* the settings the program uses
          saved,     \* the settings the next start will find
          readonly   \* changes are refused

cvars == <<phase, live, saved, readonly>>

Init == phase = "off" /\ live = Default /\ saved \in Configs \cup {Nothing, Unusable}
        /\ readonly = FALSE

Running(settings, refused) ==
  phase' = "running" /\ live' = settings /\ readonly' = refused

\* The program starts; reading the file may fail although it is fine.
Start ==
  /\ phase = "off" /\ UNCHANGED saved
  /\ \/ saved \in Configs /\ Running(saved, FALSE)
     \/ saved # Nothing /\ Running(Default, TRUE)
     \/ saved = Nothing /\ phase' = "creating" /\ UNCHANGED <<live, readonly>>

Create ==
  /\ phase = "creating"
  /\ \/ saved' = Default /\ Running(Default, FALSE)
     \/ UNCHANGED saved /\ Running(Default, TRUE)

Change ==
  /\ phase = "running" /\ ~readonly
  /\ live' \in Changes(live) /\ saved' = live'
  /\ UNCHANGED <<phase, readonly>>

Edit == saved' \in Configs \cup {Nothing, Unusable} /\ UNCHANGED <<phase, live, readonly>>

Stop == phase' = "off" /\ live' = Default /\ readonly' = FALSE /\ UNCHANGED saved

Next == Start \/ Create \/ Change \/ Edit \/ Stop

Spec == Init /\ [][Next]_cvars
=============================================================================
