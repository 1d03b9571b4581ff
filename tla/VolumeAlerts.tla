---------------------------- MODULE VolumeAlerts ----------------------------
(***************************************************************************)
(* internal/collector/disk.go in front of the disk rule: which volumes     *)
(* collectDisk lists in a snapshot, while volumes are mounted and          *)
(* unmounted and their usage can or cannot be read, and what               *)
(* AlertEngine makes of those snapshots.                                   *)
(*                                                                         *)
(* runCollector collects and evaluates in one goroutine, so a snapshot is  *)
(* collected when the evaluation of the one before it has ended.           *)
(***************************************************************************)
EXTENDS AlertEngine

CONSTANTS Mount,      \* what kind of mount point a volume has
          BlockDevice, RealFs, Large    \* the volumes that pass each of the other tests

ASSUME MountAssumption == Mount \in [Disks -> {"root", "volume", "system", "private", "recovery"}]
ASSUME VolumesAssumption == /\ BlockDevice \subseteq Disks
                            /\ RealFs \subseteq Disks
                            /\ Large \subseteq Disks

VARIABLES mounted,    \* the volumes that are mounted
          unread      \* mounted volumes the snapshot being evaluated leaves out:
                      \* kept for the properties, no code knows of them

vvars == <<vars, mounted, unread>>

-----------------------------------------------------------------------------
isUserFacingMount(mount) == mount \notin {"system", "private", "recovery"}

\* The volumes collectDisk keeps, if their usage can be read.
Shown == {k \in BlockDevice \cap RealFs \cap Large : isUserFacingMount(Mount[k])}

\* The lists collectDisk may return: of the partitions that are mounted and
\* shown, those whose usage was read.
collectDisk == {s \in [Disks -> Usage \cup {Missing}] :
                  \A k \in Disks : s[k] # Missing => k \in mounted \cap Shown}

VInit == Init /\ mounted \in {d \in SUBSET Disks : Disks \ Shown \subseteq d} /\ unread = {}

\* Collect, then ObserveSnapshot.  If the partitions cannot be read the list is
\* empty and ObserveSnapshot returns, as it does when no usage could be read; a
\* list without any of Disks has other volumes.
Collect ==
  \E s \in collectDisk :
    /\ ObserveSnapshot(s)
    /\ unread' = {k \in mounted \cap Shown : s[k] = Missing}
    /\ UNCHANGED mounted

Evaluate ==
  /\ \/ \E k \in Disks : Set(k) \/ Save(k) \/ FailSave(k) \/ SaveDone(k)
     \/ ResolveUnseen
  /\ UNCHANGED <<mounted, unread>>

EvaluateDone == ObserveDone /\ unread' = {} /\ UNCHANGED mounted

\* (Whether a volume that is not shown is mounted makes no difference.)
MountOrUnmount(k) ==
  /\ k \in Shown
  /\ mounted' = IF k \in mounted THEN mounted \ {k} ELSE mounted \cup {k}
  /\ UNCHANGED <<vars, unread>>

VRestart == Restart /\ unread' = {} /\ UNCHANGED mounted

Others ==
  /\ PruneAlerts \/ TakeKick \/ Tick \/ SetClockBack
  /\ UNCHANGED <<mounted, unread>>

Collector == Collect \/ Evaluate \/ EvaluateDone

VNext == Collector \/ VRestart \/ Others \/ \E k \in Disks : MountOrUnmount(k)

VSpec == VInit /\ [][VNext]_vvars

VFairness ==
  /\ WF_vvars(Collector)
  /\ \A k \in Disks : SF_vvars(Save(k) /\ UNCHANGED <<mounted, unread>>)

VFairSpec == VSpec /\ VFairness

-----------------------------------------------------------------------------
\* Snapshots may leave a full volume out now and then, which resolves its alert:
\* as long as others of its readings are full, it is reported again each time.
\* (collectDisk, ObserveSnapshot, set)
LeftOutVolumeIsReportedAgain ==
  \A k \in Disks :
    /\ FinitelyManyRestarts
    /\ FinallyReads(k, FullReadings \cup {Missing})
    => ([]<>(snap[k] \in FullReadings) => []<>(stored[k].level = LevelCritical))

\* "A failed collection (no disks) must not resolve anything", "unmounted
\* volumes can't be full": the alert of a volume that is mounted and not read
\* stays as it is.  (ObserveSnapshot, collectDisk)
UnreadVolumeKeepsAlert ==
  [][\A k \in unread : Active(stored[k]) => Active(stored'[k])]_vvars
=============================================================================
