------------------------ MODULE VolumeAlerts_proofs ------------------------
(***************************************************************************)
(* What AlertEngine_proofs proves of the engine holds of the engine behind *)
(* the collector, because the collector only chooses the snapshots.        *)
(***************************************************************************)
EXTENDS VolumeAlerts, AlertEngine_proofs

\* Whatever collectDisk lists is a snapshot ObserveSnapshot may be called with.
LEMMA CollectObserves == Collect => Observe
<1>1. collectDisk \subseteq [Disks -> Usage \cup {Missing}]
  BY DEF collectDisk
<1> QED
  BY <1>1 DEF Collect, Observe

\* The collector with the disk rule is an execution of AlertEngine: volumes that
\* come and go, and usage that cannot be read, are snapshots it expects.
THEOREM CollectorRefinesEngine == VSpec => Spec
<1>1. VInit => Init
  BY DEF VInit
<1>2. [VNext]_vvars => [Next]_vars
  <2>1. CASE Collect
    BY <2>1, CollectObserves DEF Next
  <2>2. CASE Evaluate
    BY <2>2 DEF Evaluate, Observe, Next
  <2>3. CASE EvaluateDone
    BY <2>3 DEF EvaluateDone, Observe, Next
  <2>4. CASE VRestart
    BY <2>4 DEF VRestart, Next
  <2>5. CASE Others
    BY <2>5 DEF Others, Next
  <2>6. CASE \E k \in Disks : MountOrUnmount(k)
    BY <2>6 DEF MountOrUnmount
  <2>7. CASE UNCHANGED vvars
    BY <2>7 DEF vvars
  <2> QED
    BY <2>1, <2>2, <2>3, <2>4, <2>5, <2>6, <2>7 DEF VNext, Collector
<1> QED
  BY <1>1, <1>2, PTL DEF VSpec, Spec

\* So the engine keeps its promise whatever the collector reads.
THEOREM CollectorKeepsContract == VSpec => KeepsContract
BY CollectorRefinesEngine, ContractKept, PTL
=============================================================================
