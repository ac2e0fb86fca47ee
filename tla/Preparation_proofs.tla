--------------------------- MODULE Preparation_proofs --------------------------
(***************************************************************************)
(* Theorems of Preparation for every fleet, every set of pods and all      *)
(* bounds: an image is on every node before the first one is cordoned, is  *)
(* pulled once, and ends the streak of failures; a drained node is empty   *)
(* and stays so until its Job is over; the volumes of the pods evicted     *)
(* from it are detached; and no cordon is left without an owner.           *)
(***************************************************************************)
EXTENDS Preparation, NextBatch_proofs

ClusterTypes ==
    /\ want \in [Node -> Images] /\ machine \in [Node -> Nat \ {0}]
    /\ store \in [Node -> SUBSET Images]
    /\ cordoned \subseteq Node /\ upgraded \subseteq Node
    /\ place \in [Pod -> Node \cup {Nowhere}]
    /\ life \in [Pod -> {"unborn", "running", "terminating", "gone"}]
    /\ attached \subseteq Claims /\ guarded \subseteq Guarded

PassTypes ==
    /\ step \in Steps
    /\ todo \subseteq [node : Node, machine : Nat \ {0}, image : Images]
    /\ pulled \in [Node -> Record]
    /\ image \in [Node -> Images \cup {NoImage}]
    /\ queue \subseteq Node /\ drained \subseteq Node /\ timedOut \subseteq Node
    /\ volumes \subseteq Claims /\ evict \subseteq Pod
    /\ waitFor \subseteq Pod /\ evicted \subseteq Pod

OtherTypes ==
    /\ disableEviction \in BOOLEAN
    /\ records \in [Node -> Record] /\ attempts \in Nat
    /\ job \in [Node -> Images \cup {NoImage}]
    /\ moved \subseteq Node /\ redo \subseteq Node /\ abandoned \subseteq Node
    /\ unsaved \in BOOLEAN
    /\ changes \in 0..MaxChanges /\ faults \in 0..MaxFaults

\* What a pass has when it gets to a step: pending nodes until it picks its batch,
\* then a node to drain, and in the end no more of them.
Stage ==
    /\ step \in {"pull", "record", "select"} => queue # {}
    /\ step \notin Draining => drained = {} /\ image = [n \in Node |-> NoImage]
    /\ step \in Draining \ {"create"} => drained \subseteq Batch /\ Batch \ drained # {}
    /\ step = "create" /\ OwnsDrain => Batch \subseteq drained

Types == ClusterTypes /\ PassTypes /\ OtherTypes /\ Stage

-------------------------------------------------------------------------------
(***************************************************************************)
(* Types.                                                                  *)
(***************************************************************************)
LEMMA TypesAreTypeOK == Types => TypeOK
BY DEF Types, ClusterTypes, PassTypes, OtherTypes, TypeOK

LEMMA RecordType == NoRecord \in Record /\ Record = [machine : Nat, image : Images \cup {NoImage}]
BY DEF NoRecord, Record

LEMMA StepNames ==
    /\ Draining = {"cordon", "volumes", "list", "evict", "empty", "detach", "create"}
    /\ Draining \subseteq Steps
    /\ {"idle", "pull", "record", "select"} \subseteq Steps
BY DEF Steps, Draining

LEMMA InitTypes == Init => Types
<1> SUFFICES ASSUME Init PROVE Types
  OBVIOUS
<1>1. ClusterTypes
  <2>1. machine \in [Node -> Nat \ {0}] /\ want \in [Node -> Images]
    BY ImagesAssumption DEF Init
  <2>2. life \in [Pod -> {"unborn", "running", "terminating", "gone"}]
    BY DEF Init
  <2> QED
    BY <2>1, <2>2, PodAssumption DEF Init, ClusterTypes
<1>2. PassTypes
  BY RecordType, StepNames DEF Init, PassTypes
<1>3. OtherTypes
  <2>1. records \in [Node -> Record] /\ job \in [Node -> Images \cup {NoImage}]
    BY RecordType DEF Init
  <2>2. changes \in 0..MaxChanges /\ faults \in 0..MaxFaults
    BY BoundsAssumption DEF Init
  <2> QED
    BY <2>1, <2>2 DEF Init, OtherTypes
<1>4. Stage
  BY StepNames DEF Init, Stage
<1> QED
  BY <1>1, <1>2, <1>3, <1>4 DEF Types

LEMMA FaultType ==
    ASSUME faults \in 0..MaxFaults, NEW lost \in BOOLEAN, Fault \/ FaultIf(lost)
    PROVE  faults' \in 0..MaxFaults
BY BoundsAssumption DEF Fault, FaultIf

LEMMA EndPassTypes ==
    ASSUME EndPass
    PROVE  PassTypes' /\ Stage'
<1>1. PassTypes'
  BY RecordType, StepNames DEF EndPass, PassTypes
<1>2. Stage'
  BY StepNames DEF EndPass, Stage
<1> QED
  BY <1>1, <1>2

\* The node whose drain is under way is one of the batch.
LEMMA CurrentType ==
    ASSUME Types, step \in Draining \ {"create"}
    PROVE  Current \in Batch \ drained /\ Current \in Node
<1>1. Batch \ drained \in SUBSET Node /\ Batch \ drained # {}
  BY DEF Types, Stage, Batch
<1>2. \E n \in Batch \ drained : \A m \in Batch \ drained : n <= m
  BY <1>1, FirstExists DEF IsFirst
<1> QED
  BY <1>1, <1>2 DEF Current

LEMMA ClearFailureType ==
    ASSUME attempts \in Nat, NEW lost \in BOOLEAN, ClearFailure(lost)
    PROVE  attempts' \in Nat /\ unsaved' \in BOOLEAN
<1>1. attempts' \in Nat
  BY DEF ClearFailure
<1>2. unsaved' \in BOOLEAN
  BY Zenon DEF ClearFailure
<1> QED
  BY <1>1, <1>2

LEMMA RecordPullsType ==
    ASSUME Types, NEW lost \in BOOLEAN, RecordPulls(lost)
    PROVE  records' \in [Node -> Record] /\ redo' \subseteq Node
BY DEF Types, PassTypes, OtherTypes, RecordPulls

LEMMA BeginPassTypes == Types /\ BeginPass => Types'
<1> SUFFICES ASSUME Types, BeginPass PROVE Types'
  OBVIOUS
<1>1. ClusterTypes'
  BY DEF Types, BeginPass, Outside, cluster, pods, ClusterTypes
<1>2. todo' \subseteq [node : Node, machine : Nat \ {0}, image : Images]
  <2>1. ToPull \subseteq [node : Node, machine : Nat \ {0}, image : Images]
    BY DEF Types, ClusterTypes, ToPull, Pending
  <2> QED
    BY <2>1 DEF Types, PassTypes, BeginPass
<1>3. PassTypes'
  BY <1>2, StepNames DEF Types, PassTypes, OtherTypes, BeginPass, drain, Pending
<1>4. attempts' \in Nat /\ unsaved' \in BOOLEAN /\ faults' \in 0..MaxFaults
  BY ClearFailureType, FaultType DEF Types, OtherTypes, BeginPass, ClearLeftover
<1>5. OtherTypes'
  BY <1>4 DEF Types, OtherTypes, BeginPass, Outside
<1>6. Stage'
  BY StepNames DEF Types, Stage, BeginPass, drain
<1> QED
  BY <1>1, <1>3, <1>5, <1>6 DEF Types

LEMMA PullImageTypes ==
    ASSUME Types, NEW work \in todo, PullImage(work)
    PROVE  Types'
<1>1. work \in [node : Node, machine : Nat \ {0}, image : Images]
  BY DEF Types, PassTypes
<1>2. ClusterTypes'
  BY <1>1 DEF Types, ClusterTypes, PullImage, pods
<1>3. [machine |-> work.machine, image |-> work.image] \in Record
  BY <1>1 DEF Record
<1>4. PassTypes'
  BY <1>3, StepNames DEF Types, PassTypes, PullImage, drain
<1>5. OtherTypes'
  BY DEF Types, OtherTypes, PullImage, status, history
<1>6. Stage'
  BY StepNames DEF Types, Stage, PullImage, drain
<1> QED
  BY <1>2, <1>4, <1>5, <1>6 DEF Types

LEMMA PullFailsTypes == Types /\ PullFails => Types'
<1> SUFFICES ASSUME Types, PullFails PROVE Types'
  OBVIOUS
<1>1. ClusterTypes'
  BY DEF Types, PullFails, Outside, cluster, pods, ClusterTypes
<1>2. OtherTypes'
  <2>1. records' \in [Node -> Record] /\ redo' \subseteq Node
    BY RecordPullsType DEF PullFails, RecordProgress
  <2>2. attempts' \in Nat /\ faults' \in 0..MaxFaults
    BY FaultType DEF Types, OtherTypes, PullFails
  <2> QED
    BY <2>1, <2>2 DEF Types, OtherTypes, PullFails, Outside
<1> QED
  BY <1>1, <1>2, EndPassTypes DEF Types, PullFails

LEMMA FinishPullsTypes == Types /\ FinishPulls => Types'
<1> SUFFICES ASSUME Types, FinishPulls PROVE Types'
  OBVIOUS
<1>1. ClusterTypes'
  BY DEF Types, FinishPulls, Outside, cluster, pods, ClusterTypes
<1>2. PassTypes'
  BY RecordType, StepNames DEF Types, PassTypes, FinishPulls, drain
<1>3. PICK lost \in BOOLEAN, kept \in BOOLEAN :
        FaultIf(lost \/ kept) /\ RecordPulls(lost) /\ ClearFailure(kept)
  BY DEF FinishPulls
<1>4. records' \in [Node -> Record] /\ redo' \subseteq Node
  BY <1>3, RecordPullsType
<1>5. attempts' \in Nat /\ unsaved' \in BOOLEAN
  BY <1>3, ClearFailureType DEF Types, OtherTypes
<1>6. faults' \in 0..MaxFaults
  <2>1. (lost \/ kept) \in BOOLEAN
    OBVIOUS
  <2> QED
    BY <1>3, <2>1, FaultType DEF Types, OtherTypes
<1>7. OtherTypes'
  BY <1>4, <1>5, <1>6 DEF Types, OtherTypes, FinishPulls, Outside
<1>8. Stage'
  BY StepNames DEF Types, Stage, FinishPulls, drain, pull
<1> QED
  BY <1>1, <1>2, <1>7, <1>8 DEF Types

LEMMA SelectBatchTypes == Types /\ SelectBatch => Types'
<1> SUFFICES ASSUME Types, SelectBatch PROVE Types'
  OBVIOUS
<1>1. ClusterTypes'
  BY DEF Types, SelectBatch, Outside, cluster, pods, ClusterTypes
<1>2. image' \in [Node -> Images \cup {NoImage}]
  BY DEF Types, ClusterTypes, SelectBatch
<1>3. PassTypes'
  BY <1>2, StepNames DEF Types, PassTypes, SelectBatch, pull
<1>4. OtherTypes'
  BY DEF Types, OtherTypes, SelectBatch, Outside, status, history
<1>5. PICK n \in NextBatchOf(queue) : n \in Node
  <2>1. queue \in SUBSET Node /\ queue # {}
    BY DEF Types, PassTypes, Stage, SelectBatch
  <2> QED
    BY <2>1, NextBatchHasFront, NextBatchIsBatch
<1>6. n \in Batch'
  <2>1. want[n] # NoImage
    BY <1>5, ImagesAssumption DEF Types, ClusterTypes
  <2> QED
    BY <1>5, <2>1 DEF SelectBatch, Batch
<1>7. drained' = {}
  BY StepNames DEF Types, Stage, SelectBatch
<1>8. Stage'
  BY <1>6, <1>7, StepNames DEF Stage, SelectBatch, OwnsDrain
<1> QED
  BY <1>1, <1>3, <1>4, <1>8 DEF Types

LEMMA GoTypes ==
    ASSUME Types, step \in Draining \ {"create"}, NEW next \in Draining \ {"create"},
           Go(next), cordoned' \subseteq Node,
           drained' = drained, timedOut' \subseteq Node, volumes' \subseteq Claims,
           evict' \subseteq Pod, waitFor' \subseteq Pod, evicted' = evicted,
           abandoned' = abandoned, faults' \in 0..MaxFaults
    PROVE  Types'
<1>1. ClusterTypes'
  BY DEF Types, ClusterTypes, Go, Outside, cluster, pods
<1>2. PassTypes'
  BY StepNames DEF Types, PassTypes, Go, pull
<1>3. OtherTypes'
  BY DEF Types, OtherTypes, Go, Outside, status
<1>4. Stage'
  BY StepNames DEF Types, Stage, Go, Batch
<1> QED
  BY <1>1, <1>2, <1>3, <1>4 DEF Types

LEMMA NodeDrainedTypes ==
    ASSUME Types, step = "detach", NodeDrained, timedOut' \subseteq Node,
           UNCHANGED <<cordoned, abandoned>>, faults' \in 0..MaxFaults
    PROVE  Types'
<1>1. Current \in Batch \ drained /\ Current \in Node
  BY CurrentType, StepNames
<1>2. ClusterTypes'
  BY DEF Types, ClusterTypes, NodeDrained, Go, Outside, cluster, pods
<1>3. PassTypes'
  BY <1>1, StepNames DEF Types, PassTypes, NodeDrained, Go, pull
<1>4. OtherTypes'
  BY DEF Types, OtherTypes, NodeDrained, Go, Outside, status
<1>5. drained' \subseteq Batch /\ Batch' = Batch
  BY <1>1, StepNames DEF Types, Stage, NodeDrained, Go, Batch
<1>6. Stage'
  BY <1>5, StepNames DEF Stage, NodeDrained, Go
<1> QED
  BY <1>2, <1>3, <1>4, <1>6 DEF Types

LEMMA DrainFailsTypes ==
    ASSUME Types, step \in Draining \ {"create"}, NEW failed \in BOOLEAN, DrainFails(failed)
    PROVE  Types'
<1>1. Current \in Node
  BY CurrentType
<1>2. RollbackSet \in SUBSET Node
  BY <1>1 DEF Types, PassTypes, RollbackSet
<1>3. PICK kept \in SUBSET RollbackSet :
        /\ faults + (IF failed THEN 1 ELSE 0) + Cardinality(kept) <= MaxFaults
        /\ faults' = faults + (IF failed THEN 1 ELSE 0) + Cardinality(kept)
        /\ cordoned' = cordoned \ (RollbackSet \ kept)
        /\ abandoned' = (abandoned \ RollbackSet) \cup (kept \cap cordoned)
  BY DEF DrainFails
<1>4. Cardinality(kept) \in Nat
  BY <1>2, NodeFinite, FS_Subset, FS_CardinalityType
<1>5. faults' \in 0..MaxFaults
  BY <1>3, <1>4, BoundsAssumption DEF Types, OtherTypes
<1>6. cordoned' \subseteq Node /\ abandoned' \subseteq Node
  BY <1>2, <1>3 DEF Types, ClusterTypes, OtherTypes
<1>7. ClusterTypes'
  BY <1>6 DEF Types, ClusterTypes, DrainFails, Outside, cluster, pods
<1>8. OtherTypes'
  BY <1>5, <1>6 DEF Types, OtherTypes, DrainFails, Outside, status
<1> QED
  BY <1>7, <1>8, EndPassTypes DEF Types, DrainFails

LEMMA EvictPodTypes ==
    ASSUME Types, NEW p \in Pod, EvictPod(p)
    PROVE  Types'
<1>1. CASE DrainFails(FALSE)
  BY <1>1, DrainFailsTypes, StepNames DEF EvictPod
<1>2. CASE ~DrainFails(FALSE)
  <2> USE <1>2 DEF EvictPod
  <2>1. ClusterTypes'
    BY DEF Types, ClusterTypes, cluster
  <2>2. PassTypes'
    BY DEF Types, PassTypes, pull
  <2>3. OtherTypes'
    BY DEF Types, OtherTypes, status, history
  <2>4. Stage'
    BY StepNames DEF Types, Stage, Batch, pull
  <2> QED
    BY <2>1, <2>2, <2>3, <2>4 DEF Types
<1> QED
  BY <1>1, <1>2

DrainStep ==
    \/ CordonNode \/ LookUpVolumes \/ ListPods \/ (\E p \in Pod : EvictPod(p))
    \/ EvictedAll \/ PodsLeft \/ VolumesDetached \/ VolumesTimeOut \/ DrainError

LEMMA DrainStepTypes == Types /\ DrainStep => Types'
<1> SUFFICES ASSUME Types, DrainStep PROVE Types'
  OBVIOUS
<1> DEFINE Rest == /\ cordoned \subseteq Node /\ timedOut \subseteq Node /\ volumes \subseteq Claims
                   /\ evict \subseteq Pod /\ waitFor \subseteq Pod /\ faults \in 0..MaxFaults
<1>0. Rest
  BY DEF Types, ClusterTypes, PassTypes, OtherTypes
<1>1. CASE CordonNode
  <2>1. Current \in Node
    BY <1>1, CurrentType, StepNames DEF CordonNode
  <2> QED
    BY <1>0, <1>1, <2>1, GoTypes, StepNames DEF CordonNode
<1>2. CASE LookUpVolumes
  <2>1. Current \in Node
    BY <1>2, CurrentType, StepNames DEF LookUpVolumes
  <2>2. faults' \in 0..MaxFaults
    BY <1>0, <1>2, FaultType DEF LookUpVolumes
  <2>3. volumes' \subseteq Claims /\ timedOut' \subseteq Node
    BY <1>0, <1>2, <2>1 DEF LookUpVolumes
  <2> QED
    BY <1>0, <1>2, <2>2, <2>3, GoTypes, StepNames DEF LookUpVolumes
<1>3. CASE ListPods
  BY <1>0, <1>3, GoTypes, StepNames DEF ListPods, Evictable, Seen, DrainManaged, On
<1>4. CASE \E p \in Pod : EvictPod(p)
  BY <1>4, EvictPodTypes
<1>5. CASE EvictedAll
  BY <1>0, <1>5, GoTypes, StepNames DEF EvictedAll
<1>6. CASE PodsLeft
  BY <1>0, <1>6, GoTypes, StepNames DEF PodsLeft
<1>7. CASE VolumesDetached
  BY <1>0, <1>7, NodeDrainedTypes DEF VolumesDetached
<1>8. CASE VolumesTimeOut
  <2>1. Current \in Node
    BY <1>8, CurrentType, StepNames DEF VolumesTimeOut
  <2> QED
    BY <1>0, <1>8, <2>1, NodeDrainedTypes DEF VolumesTimeOut
<1>9. CASE DrainError
  BY <1>9, DrainFailsTypes, StepNames DEF DrainError
<1> QED
  BY <1>1, <1>2, <1>3, <1>4, <1>5, <1>6, <1>7, <1>8, <1>9 DEF DrainStep

LEMMA CreateJobsTypes == Types /\ CreateJobs => Types'
<1> SUFFICES ASSUME Types, CreateJobs PROVE Types'
  OBVIOUS
<1>1. ClusterTypes'
  BY DEF Types, ClusterTypes, CreateJobs, Outside, cluster, pods
<1>2. faults' \in 0..MaxFaults
  BY FaultType DEF Types, OtherTypes, CreateJobs
<1>3. job' \in [Node -> Images \cup {NoImage}] /\ abandoned' \subseteq Node
  BY DEF Types, ClusterTypes, PassTypes, OtherTypes, CreateJobs, Batch
<1>4. OtherTypes'
  BY <1>2, <1>3 DEF Types, OtherTypes, CreateJobs, Outside, status
<1> QED
  BY <1>1, <1>4, EndPassTypes DEF Types, CreateJobs

LEMMA HoldBackTypes == Types /\ HoldBack => Types'
<1> SUFFICES ASSUME Types, HoldBack PROVE Types'
  OBVIOUS
<1>1. ClusterTypes'
  BY DEF Types, ClusterTypes, HoldBack, Outside, cluster, pods
<1>2. OtherTypes'
  BY FaultType DEF Types, OtherTypes, HoldBack, Outside, status, history
<1> QED
  BY <1>1, <1>2, EndPassTypes DEF Types, HoldBack

LEMMA CrashTypes == Types /\ Crash => Types'
<1> SUFFICES ASSUME Types, Crash PROVE Types'
  OBVIOUS
<1>1. ClusterTypes'
  BY DEF Types, ClusterTypes, Crash, Outside, cluster, pods
<1>2. redo' \subseteq Node /\ abandoned' \subseteq Node /\ faults' \in 0..MaxFaults
  BY FaultType DEF Types, ClusterTypes, OtherTypes, Crash
<1>3. OtherTypes'
  BY <1>2 DEF Types, OtherTypes, Crash, Outside, status
<1> QED
  BY <1>1, <1>3, EndPassTypes DEF Types, Crash

LEMMA PassUnchanged ==
    ASSUME PassTypes, Stage, UNCHANGED <<step, pull, drain>>
    PROVE  PassTypes' /\ Stage'
<1>1. PassTypes'
  BY DEF PassTypes, pull, drain
<1>2. Stage'
  BY DEF Stage, pull, drain, Batch
<1> QED
  BY <1>1, <1>2

LEMMA ResetRunTypes == Types /\ ResetRun => Types'
<1> SUFFICES ASSUME Types, ResetRun PROVE Types'
  OBVIOUS
<1>1. ClusterTypes'
  BY DEF Types, ClusterTypes, ResetRun, cluster, pods
<1>2. changes' \in 0..MaxChanges
  BY BoundsAssumption DEF Types, OtherTypes, ResetRun, Change
<1>3. OtherTypes'
  BY <1>2, RecordType DEF Types, OtherTypes, ResetRun
<1> QED
  BY <1>1, <1>3, PassUnchanged DEF Types, ResetRun

LEMMA FinishJobTypes ==
    ASSUME Types, NEW n \in Node, FinishJob(n)
    PROVE  Types'
<1>1. ClusterTypes'
  BY DEF Types, ClusterTypes, FinishJob, pods
<1>2. PassTypes'
  BY DEF Types, PassTypes, FinishJob, pull, drain
<1>3. faults' \in 0..MaxFaults
  BY FaultType DEF Types, OtherTypes, FinishJob
<1>4. OtherTypes'
  BY <1>3 DEF Types, ClusterTypes, OtherTypes, FinishJob, status
<1>5. Stage'
  BY StepNames DEF Types, Stage, FinishJob, pull, drain, Batch
<1> QED
  BY <1>1, <1>2, <1>4, <1>5 DEF Types

LEMMA EnvironmentTypes == Types /\ Environment => Types'
<1> SUFFICES ASSUME Types, Environment PROVE Types'
  OBVIOUS
<1>1. ASSUME NEW n \in Node, ChangeImage(n)
      PROVE  Types'
  <2>1. ClusterTypes'
    BY <1>1 DEF Types, ClusterTypes, ChangeImage, pods
  <2>2. OtherTypes'
    BY <1>1, BoundsAssumption
    DEF Types, OtherTypes, ChangeImage, Change, Operator, status
  <2> QED
    BY <1>1, <2>1, <2>2, PassUnchanged DEF Types, ChangeImage, Operator
<1>2. ASSUME NEW n \in Node, ReplaceNode(n)
      PROVE  Types'
  <2>1. ClusterTypes'
    BY <1>2 DEF Types, ClusterTypes, ReplaceNode
  <2>2. OtherTypes'
    BY <1>2, BoundsAssumption
    DEF Types, OtherTypes, ReplaceNode, Change, Operator, status
  <2> QED
    BY <1>2, <2>1, <2>2, PassUnchanged DEF Types, ReplaceNode, Operator
<1>3. ASSUME NEW n \in Node, UpgradeOutOfBand(n)
      PROVE  Types'
  <2>1. ClusterTypes'
    BY <1>3 DEF Types, ClusterTypes, UpgradeOutOfBand, pods
  <2>2. OtherTypes'
    BY <1>3, BoundsAssumption
    DEF Types, OtherTypes, UpgradeOutOfBand, Change, Operator, status
  <2> QED
    BY <1>3, <2>1, <2>2, PassUnchanged DEF Types, UpgradeOutOfBand, Operator
<1>4. ASSUME ByCluster, place' \in [Pod -> Node \cup {Nowhere}],
             life' \in [Pod -> {"unborn", "running", "terminating", "gone"}],
             attached' \subseteq Claims, guarded' \subseteq Guarded
      PROVE  Types'
  <2>1. ClusterTypes'
    BY <1>4 DEF Types, ClusterTypes, ByCluster, cluster
  <2>2. OtherTypes'
    BY <1>4 DEF Types, OtherTypes, ByCluster, Operator, status
  <2> QED
    BY <1>4, <2>1, <2>2, PassUnchanged DEF Types, ByCluster, Operator
<1>5. ASSUME NEW p \in Pod, StartPod(p) \/ StopPod(p) \/ PodLeaves(p) \/ Detach(p)
      PROVE  Types'
  <2>1. Home[p] \subseteq Node
    BY PodAssumption
  <2>2. place' \in [Pod -> Node \cup {Nowhere}]
    BY <1>5, <2>1 DEF Types, ClusterTypes, StartPod, StopPod, PodLeaves, Detach
  <2>3. life' \in [Pod -> {"unborn", "running", "terminating", "gone"}]
    BY <1>5 DEF Types, ClusterTypes, StartPod, StopPod, PodLeaves, Detach
  <2>4. attached' \subseteq Claims /\ guarded' \subseteq Guarded /\ ByCluster
    BY <1>5 DEF Types, ClusterTypes, StartPod, StopPod, PodLeaves, Detach
  <2> QED
    BY <1>4, <2>2, <2>3, <2>4
<1>6. CASE Unguard
  BY <1>4, <1>6 DEF Unguard, Types, ClusterTypes
<1> QED
  BY <1>1, <1>2, <1>3, <1>5, <1>6 DEF Environment

\* The node whose drain is under way is always one of the batch.
LEMMA TypesHold == Spec => []Types
<1>1. Types /\ Next => Types'
  <2> SUFFICES ASSUME Types, Next PROVE Types'
    OBVIOUS
  <2>1. CASE \E work \in todo : PullImage(work)
    BY <2>1, PullImageTypes
  <2>2. CASE \E n \in Node : FinishJob(n)
    BY <2>2, FinishJobTypes
  <2>3. CASE DrainStep
    BY <2>3, DrainStepTypes
  <2>4. CASE Done
    BY <2>4, PassUnchanged
    DEF Done, vars, cluster, pods, status, history, Types, ClusterTypes, OtherTypes
  <2> QED
    BY <2>1, <2>2, <2>3, <2>4, BeginPassTypes, PullFailsTypes, FinishPullsTypes,
       SelectBatchTypes, CreateJobsTypes, HoldBackTypes, CrashTypes, ResetRunTypes,
       EnvironmentTypes
    DEF Next, Proceed, DrainStep
<1>2. Types /\ UNCHANGED vars => Types'
  BY PassUnchanged
  DEF vars, cluster, pods, status, history, Types, ClusterTypes, OtherTypes
<1> QED
  BY InitTypes, <1>1, <1>2, PTL DEF Spec

\* Every variable keeps its type.
THEOREM TypeCorrect == Spec => []TypeOK
BY TypesHold, TypesAreTypeOK, PTL

-------------------------------------------------------------------------------
(***************************************************************************)
(* The pre-pull. A record is true of the machine it names; it cannot name  *)
(* a machine that is yet to come. While the pass pulls, what is not in the *)
(* store of a node is still to be pulled there.                            *)
(***************************************************************************)
WarmStore == \A n \in queue \ (Old \cup moved) : want[n] \in store[n]

True(record) ==
    \A n \in Node :
       /\ record[n].machine <= machine[n]
       /\ n \notin Old /\ record[n].machine = machine[n] => record[n].image \in store[n]

Warm ==
    /\ True(records) /\ True(pulled)
    /\ \A work \in todo : work.machine <= machine[work.node]
    /\ step = "pull"
         => \A n \in queue \ (Old \cup moved) :
              \/ want[n] \in store[n]
              \/ [node |-> n, machine |-> machine[n], image |-> want[n]] \in todo
    /\ PrePullEnabled /\ step \in {"record", "select"} \cup Draining => WarmStore

LEMMA NothingIsTrue ==
    ASSUME Types
    PROVE  True([n \in Node |-> NoRecord])
BY DEF Types, ClusterTypes, True, NoRecord

LEMMA InitWarm == Init => Warm
<1> SUFFICES ASSUME Init PROVE Warm
  OBVIOUS
<1>1. Types
  BY InitTypes
<1>2. True(records) /\ True(pulled)
  BY <1>1, NothingIsTrue DEF Init
<1> QED
  BY <1>2, StepNames DEF Init, Warm

\* A step that leaves images, machines and records alone.
LEMMA QuietIsWarm ==
    ASSUME Types, Warm, UNCHANGED <<want, machine, store, moved, records>>,
           \/ EndPass
           \/ /\ UNCHANGED pull
              /\ \/ step' = step
                 \/ {step, step'} \subseteq {"record", "select"} \cup Draining
    PROVE  Warm'
<1>1. True(records)'
  BY DEF Warm, True
<1>2. CASE EndPass
  <2>1. True(pulled)'
    BY <1>2, NothingIsTrue DEF EndPass, True
  <2> QED
    BY <1>1, <1>2, <2>1, StepNames DEF EndPass, Warm
<1>3. CASE ~EndPass
  <2>1. UNCHANGED pull
    BY <1>3
  <2>2. True(pulled)'
    BY <2>1 DEF Warm, True, pull
  <2>3. step' = "pull" => step = "pull"
    BY <1>3, StepNames
  <2>4. step' \in {"record", "select"} \cup Draining => step \in {"record", "select"} \cup Draining
    BY <1>3
  <2> QED
    BY <1>1, <2>1, <2>2, <2>3, <2>4 DEF Warm, WarmStore, pull
<1> QED
  BY <1>2, <1>3

LEMMA BeginPassWarm == Types /\ Warm /\ BeginPass => Warm'
<1> SUFFICES ASSUME Types, Warm, BeginPass PROVE Warm'
  OBVIOUS
<1>1. UNCHANGED <<want, machine, store, records>> /\ queue' \subseteq Node
  BY DEF BeginPass, Outside, cluster, Pending
<1>2. True(records)'
  BY <1>1 DEF Warm, True
<1>3. True(pulled)'
  BY <1>1, <1>2 DEF Warm, True, BeginPass
<1>4. ASSUME NEW n \in queue' \ Old, Recorded(n)
      PROVE  want[n] \in store[n]
  BY <1>1, <1>4 DEF Warm, True, Recorded, Entry
<1>5. ASSUME NEW n \in queue' \ Old, ~Recorded(n)
      PROVE  [node |-> n, machine |-> machine[n], image |-> want[n]] \in ToPull
  BY <1>5 DEF ToPull, BeginPass
<1>6. \A work \in todo' : work.machine <= machine[work.node]
  <2>1. \A work \in ToPull : work.machine <= machine[work.node]
    BY DEF ToPull, Types, ClusterTypes, Pending
  <2> QED
    BY <2>1 DEF Warm, BeginPass
<1>7. CASE PrePullEnabled /\ ToPull # {}
  BY <1>1, <1>2, <1>3, <1>4, <1>5, <1>6, <1>7, StepNames DEF Warm, BeginPass
<1>8. CASE ~(PrePullEnabled /\ ToPull # {})
  <2>1. step' = "select"
    BY <1>8 DEF BeginPass
  <2>2. PrePullEnabled => WarmStore'
    BY <1>1, <1>4, <1>5, <1>8 DEF WarmStore, BeginPass
  <2> QED
    BY <1>1, <1>2, <1>3, <1>6, <2>1, <2>2 DEF Warm
<1> QED
  BY <1>7, <1>8

LEMMA PullImageWarm ==
    ASSUME Types, Warm, NEW work \in todo, PullImage(work)
    PROVE  Warm'
<1>1. work \in [node : Node, machine : Nat \ {0}, image : Images]
  BY DEF Types, PassTypes
<1>2. UNCHANGED <<want, machine, records, queue, moved>>
  BY DEF PullImage, status, history
<1>3. \A n \in Node : store[n] \subseteq store'[n]
  BY <1>1 DEF Types, ClusterTypes, PullImage
<1>4. work.node \notin Old => work.image \in store'[work.node]
  BY <1>1 DEF Types, ClusterTypes, PullImage
<1>5. True(records)'
  BY <1>2, <1>3 DEF Warm, True
<1>6. True(pulled)'
  <2> SUFFICES ASSUME NEW n \in Node
               PROVE  /\ pulled'[n].machine <= machine[n]
                      /\ n \notin Old /\ pulled'[n].machine = machine[n]
                           => pulled'[n].image \in store'[n]
    BY <1>2 DEF True
  <2>1. CASE n = work.node
    <3>1. pulled'[n] = [machine |-> work.machine, image |-> work.image]
      BY <2>1 DEF Types, PassTypes, PullImage
    <3> QED
      BY <1>4, <2>1, <3>1 DEF Warm
  <2>2. CASE n # work.node
    <3>1. pulled'[n] = pulled[n]
      BY <2>2 DEF Types, PassTypes, PullImage
    <3> QED
      BY <1>3, <3>1 DEF Warm, True
  <2> QED
    BY <2>1, <2>2
<1>7. ASSUME NEW n \in queue \ (Old \cup moved)
      PROVE  \/ want[n] \in store'[n]
             \/ [node |-> n, machine |-> machine[n], image |-> want[n]] \in todo'
  <2>1. n \in Node
    BY DEF Types, PassTypes
  <2>2. CASE [node |-> n, machine |-> machine[n], image |-> want[n]] = work
    BY <1>4, <2>2
  <2> QED
    BY <1>3, <2>1, <2>2 DEF Warm, PullImage
<1>8. todo' \subseteq todo /\ (step' = "record" => todo' = {}) /\ step' \in {"pull", "record"}
  BY DEF PullImage
<1>9. step' = "record" => WarmStore'
  BY <1>2, <1>7, <1>8 DEF WarmStore
<1> QED
  BY <1>2, <1>5, <1>6, <1>7, <1>8, <1>9, StepNames DEF Warm

LEMMA RecordPullsWarm ==
    ASSUME Types, Warm, NEW lost \in BOOLEAN, RecordPulls(lost),
           UNCHANGED <<machine, store>>
    PROVE  True(records)'
BY DEF Warm, True, RecordPulls

LEMMA ClusterWarm ==
    ASSUME Types, Warm, NEW n \in Node, ChangeImage(n) \/ ReplaceNode(n)
    PROVE  Warm'
<1>1. UNCHANGED <<step, pull, records>> /\ moved' = moved \cup {n}
  BY DEF ChangeImage, ReplaceNode, Operator, status
<1>2. \A m \in Node : m # n => want'[m] = want[m] /\ machine'[m] = machine[m] /\ store'[m] = store[m]
  BY DEF Types, ClusterTypes, ChangeImage, ReplaceNode
<1>3. \/ machine'[n] = machine[n] /\ store'[n] = store[n]
      \/ machine'[n] = machine[n] + 1
  BY DEF Types, ClusterTypes, ChangeImage, ReplaceNode
<1>4. machine[n] \in Nat
  BY DEF Types, ClusterTypes
<1>5. ASSUME NEW record \in [Node -> Record], True(record)
      PROVE  \A m \in Node :
                /\ record[m].machine <= machine'[m]
                /\ m \notin Old /\ record[m].machine = machine'[m]
                     => record[m].image \in store'[m]
  <2> TAKE m \in Node
  <2>1. record[m].machine \in Nat
    BY <1>5 DEF Record
  <2>2. CASE m # n
    BY <1>2, <1>5, <2>2 DEF True
  <2>3. CASE m = n
    BY <1>3, <1>4, <1>5, <2>1, <2>3 DEF True
  <2> QED
    BY <2>2, <2>3
<1>6. True(records)' /\ True(pulled)'
  BY <1>1, <1>5 DEF Types, PassTypes, OtherTypes, Warm, True, pull
<1>7. \A work \in todo' : work.machine <= machine'[work.node]
  <2> SUFFICES ASSUME NEW work \in todo PROVE work.machine <= machine'[work.node]
    BY <1>1 DEF pull
  <2>1. work.node \in Node /\ work.machine \in Nat /\ work.machine <= machine[work.node]
    BY DEF Types, PassTypes, Warm
  <2> QED
    BY <1>2, <1>3, <1>4, <2>1
<1>8. \A m \in queue' \ (Old \cup moved') : m \in Node /\ m # n /\ m \notin moved
  BY <1>1 DEF pull, Types, PassTypes
<1> QED
  BY <1>1, <1>2, <1>6, <1>7, <1>8 DEF Warm, WarmStore, pull

LEMMA NextWarm == Types /\ Warm /\ [Next]_vars => Warm'
<1> SUFFICES ASSUME Types, Warm, [Next]_vars PROVE Warm'
  OBVIOUS
<1>1. CASE BeginPass
  BY <1>1, BeginPassWarm
<1>2. CASE \E work \in todo : PullImage(work)
  BY <1>2, PullImageWarm
<1>3. CASE PullFails
  <2>1. True(records)' /\ UNCHANGED <<want, machine, store, moved>>
    BY <1>3, RecordPullsWarm DEF PullFails, RecordProgress, Outside, cluster
  <2>2. True(pulled)'
    BY <1>3, <2>1, NothingIsTrue DEF PullFails, EndPass, True
  <2> QED
    BY <1>3, <2>1, <2>2, StepNames DEF PullFails, EndPass, Warm
<1>4. CASE FinishPulls
  <2>1. True(records)' /\ UNCHANGED <<want, machine, store, moved, queue, todo>>
    BY <1>4, RecordPullsWarm DEF FinishPulls, Outside, cluster
  <2>2. True(pulled)'
    BY <1>4, <2>1, NothingIsTrue DEF FinishPulls, True
  <2> QED
    BY <1>4, <2>1, <2>2, StepNames DEF FinishPulls, Warm, WarmStore
<1>5. CASE SelectBatch
  BY <1>5, QuietIsWarm, StepNames DEF SelectBatch, Outside, cluster, status, history
<1>6. ASSUME NEW failed \in BOOLEAN, DrainFails(failed)
      PROVE  Warm'
  BY <1>6, QuietIsWarm DEF DrainFails, Outside, cluster, status
<1>7. ASSUME NEW next \in Draining, step \in Draining, Go(next)
      PROVE  Warm'
  BY <1>7, QuietIsWarm DEF Go, Outside, cluster, status
<1>8. CASE DrainStep
  <2>1. CASE \E p \in Pod : EvictPod(p)
    <3>1. PICK p \in Pod : EvictPod(p)
      BY <2>1
    <3>2. CASE ~DrainFails(FALSE)
      BY <3>1, <3>2, QuietIsWarm DEF EvictPod, cluster, status, history
    <3>3. CASE DrainFails(FALSE)
      BY <1>6, <3>3
    <3> QED
      BY <3>2, <3>3
  <2>2. CASE DrainError
    BY <1>6, <2>2 DEF DrainError
  <2>3. CASE CordonNode \/ LookUpVolumes \/ ListPods \/ EvictedAll \/ PodsLeft
    BY <1>7, <2>3, StepNames DEF CordonNode, LookUpVolumes, ListPods, EvictedAll, PodsLeft
  <2>4. CASE VolumesDetached \/ VolumesTimeOut
    <3>1. step \in Draining /\ NodeDrained
      BY <2>4, StepNames DEF VolumesDetached, VolumesTimeOut
    <3> QED
      BY <1>7, <3>1, StepNames DEF NodeDrained
  <2> QED
    BY <1>8, <2>1, <2>2, <2>3, <2>4 DEF DrainStep
<1>9. CASE CreateJobs \/ HoldBack \/ Crash
  BY <1>9, QuietIsWarm DEF CreateJobs, HoldBack, Crash, Outside, cluster, status, history
<1>10. CASE \E n \in Node : FinishJob(n) \/ UpgradeOutOfBand(n)
  BY <1>10, QuietIsWarm DEF FinishJob, UpgradeOutOfBand, Operator, status
<1>11. CASE \E n \in Node : ChangeImage(n) \/ ReplaceNode(n)
  BY <1>11, ClusterWarm
<1>12. CASE ByCluster
  BY <1>12, QuietIsWarm DEF ByCluster, Operator, cluster, status
<1>13. CASE UNCHANGED vars
  BY <1>13, QuietIsWarm DEF vars, cluster, status, history
<1>14. CASE ResetRun
  <2>1. True(records)' /\ UNCHANGED <<want, machine, store, moved, step, pull>>
    BY <1>14, NothingIsTrue DEF ResetRun, True, cluster
  <2>2. True(pulled)'
    BY <2>1 DEF Warm, True, pull
  <2> QED
    BY <2>1, <2>2 DEF Warm, WarmStore, pull
<1> QED
  BY <1>1, <1>2, <1>3, <1>4, <1>5, <1>8, <1>9, <1>10, <1>11, <1>12, <1>13, <1>14
  DEF Next, Proceed, DrainStep, Environment, Done, StartPod, StopPod, PodLeaves, Detach,
      Unguard

\* Before the first node of a batch is cordoned, every pending node that can pull
\* holds the image it resolves to, for every sequence of failed pulls, lost
\* records, crashes and machines replaced between passes.
THEOREM FleetStaysWarm == Spec => []FleetIsWarm
<1>1. Warm => FleetIsWarm
  BY DEF Warm, WarmStore, FleetIsWarm
<1> QED
  BY InitWarm, TypesHold, NextWarm, <1>1, PTL DEF Spec

-------------------------------------------------------------------------------
(***************************************************************************)
(* The drain. The scheduler keeps away from a cordoned node, so that its   *)
(* pods only become fewer: those the pass has seen are all there are, and  *)
(* once they have left the node is empty until it is uncordoned, which no  *)
(* step does to a node that is drained or has a Job before that is over.   *)
(***************************************************************************)
Working == {"volumes", "list", "evict", "empty", "detach"}

IsEmpty ==
    /\ OwnsDrain
         => \A n \in (drained \cup Jobs) \ moved : n \in cordoned /\ DrainManaged(n) = {}
    /\ step \in Working /\ Current \notin moved => Current \in cordoned
    /\ step \in {"evict", "empty"} /\ Current \notin moved
         => DrainManaged(Current) \subseteq waitFor
    /\ step = "detach" /\ Current \notin moved => DrainManaged(Current) = {}
    /\ step # "idle" => Jobs = {}

LEMMA WorkingSteps ==
    /\ Working \subseteq Draining \ {"create"} /\ "idle" \notin Working
    /\ Working = {"volumes", "list", "evict", "empty", "detach"}
BY StepNames DEF Working

LEMMA SameCurrent ==
    ASSUME UNCHANGED <<image, drained>>
    PROVE  Current' = Current
BY DEF Current, Batch

LEMMA SameJobs ==
    ASSUME UNCHANGED job
    PROVE  Jobs' = Jobs
BY DEF Jobs

LEMMA SamePods ==
    ASSUME UNCHANGED <<place, life>>, NEW n
    PROVE  DrainManaged(n)' = DrainManaged(n)
BY DEF DrainManaged, On

LEMMA InitEmpty == Init => IsEmpty
<1> SUFFICES ASSUME Init PROVE IsEmpty
  OBVIOUS
<1>1. Jobs = {} /\ drained = {}
  BY DEF Init, Jobs
<1> QED
  BY <1>1, WorkingSteps DEF Init, IsEmpty

\* Pods only leave, nodes are only cordoned, and the pass stands still.
LEMMA FewerPods ==
    ASSUME IsEmpty, UNCHANGED <<step, image, drained, waitFor, job>>,
           moved \subseteq moved',
           \A n \in cordoned \ moved' :
              n \in cordoned' /\ DrainManaged(n)' \subseteq DrainManaged(n)
    PROVE  IsEmpty'
<1>1. Current' = Current /\ Jobs' = Jobs
  BY SameCurrent, SameJobs
<1>2. PICK c : c = Current
  OBVIOUS
<1>3. OwnsDrain
        => \A n \in (drained' \cup Jobs') \ moved' : n \in cordoned' /\ DrainManaged(n)' = {}
  BY <1>1 DEF IsEmpty
<1>4. step' \in Working /\ c \notin moved'
        => c \in cordoned' /\ DrainManaged(c)' \subseteq DrainManaged(c)
  BY <1>1, <1>2 DEF IsEmpty
<1>5. step' \in {"evict", "empty"} /\ c \notin moved' => DrainManaged(c)' \subseteq waitFor'
  <2>1. step \in {"evict", "empty"} /\ c \notin moved => DrainManaged(c) \subseteq waitFor
    BY <1>2 DEF IsEmpty
  <2> QED
    BY <1>4, <2>1, WorkingSteps
<1>6. step' = "detach" /\ c \notin moved' => DrainManaged(c)' = {}
  <2>1. step = "detach" /\ c \notin moved => DrainManaged(c) = {}
    BY <1>2 DEF IsEmpty
  <2> QED
    BY <1>4, <2>1, WorkingSteps
<1>7. c = Current'
  BY <1>1, <1>2
<1>8. step' # "idle" => Jobs' = {}
  BY <1>1 DEF IsEmpty
<1> QED
  BY <1>3, <1>4, <1>5, <1>6, <1>7, <1>8 DEF IsEmpty, DrainManaged, On

LEMMA EndPassEmpty ==
    ASSUME Types, IsEmpty, EndPass, UNCHANGED <<moved, job>>, step # "idle"
    PROVE  IsEmpty'
<1>1. Jobs' = {} /\ drained' = {} /\ step' = "idle"
  BY SameJobs DEF IsEmpty, EndPass
<1> QED
  BY <1>1, WorkingSteps DEF IsEmpty

\* The steps of the drain of one node, up to the point where its pods have left.
LEMMA GoEmpty ==
    ASSUME Types, IsEmpty, step \in Draining \ {"create"},
           NEW next \in Working, Go(next),
           drained' = drained, cordoned \subseteq cordoned',
           step = "cordon" => Current \in cordoned',
           next \in {"volumes", "list"}
             \/ (next = "evict" /\ waitFor' = DrainManaged(Current))
             \/ (next = "empty" /\ step = "evict" /\ waitFor' = waitFor)
             \/ (next = "detach" /\ step = "empty" /\ waitFor \cap On(Current) = {})
    PROVE  IsEmpty'
<1>1. UNCHANGED <<image, drained, job, moved, place, life>> /\ step' = next
  BY DEF Go, Outside, pods
<1>2. Current' = Current /\ Jobs' = Jobs
  BY <1>1, SameCurrent, SameJobs
<1>3. PICK c : c = Current
  OBVIOUS
<1>4. \A n : DrainManaged(n)' = DrainManaged(n)
  BY <1>1, SamePods
<1>5. OwnsDrain
        => \A n \in (drained' \cup Jobs') \ moved' : n \in cordoned' /\ DrainManaged(n)' = {}
  BY <1>1, <1>2, <1>4 DEF IsEmpty
<1>6. c \notin moved => c \in cordoned'
  <2>1. step \in Working \/ step = "cordon"
    BY StepNames, WorkingSteps
  <2> QED
    BY <1>3, <2>1 DEF IsEmpty
<1>7. next \in {"evict", "empty"} /\ c \notin moved => DrainManaged(c) \subseteq waitFor'
  BY <1>3 DEF IsEmpty
<1>8. next = "detach" /\ c \notin moved => DrainManaged(c) = {}
  BY <1>3 DEF IsEmpty, DrainManaged
<1>9. step' # "idle" => Jobs' = {}
  BY <1>2, StepNames DEF IsEmpty
<1>10. c = Current'
  BY <1>2, <1>3
<1>11. DrainManaged(c)' = DrainManaged(c)
  BY <1>4
<1> QED
  BY <1>1, <1>5, <1>6, <1>7, <1>8, <1>9, <1>10, <1>11 DEF IsEmpty, DrainManaged, On

LEMMA NodeDrainedEmpty ==
    ASSUME Types, IsEmpty, step = "detach", NodeDrained, cordoned' = cordoned
    PROVE  IsEmpty'
<1>1. UNCHANGED <<job, moved, place, life>> /\ drained' = drained \cup {Current}
      /\ step' \in {"create", "cordon"}
  BY DEF NodeDrained, Go, Outside, pods
<1>2. Jobs' = Jobs
  BY <1>1, SameJobs
<1>3. Current \notin moved => Current \in cordoned /\ DrainManaged(Current) = {}
  BY WorkingSteps DEF IsEmpty
<1>4. \A n : DrainManaged(n)' = DrainManaged(n)
  BY <1>1, SamePods
<1>5. OwnsDrain
        => \A n \in (drained' \cup Jobs') \ moved' : n \in cordoned' /\ DrainManaged(n)' = {}
  BY <1>1, <1>2, <1>3, <1>4 DEF IsEmpty
<1> QED
  BY <1>1, <1>2, <1>5, WorkingSteps, StepNames DEF IsEmpty

LEMMA CreateJobsEmpty == Types /\ IsEmpty /\ CreateJobs => IsEmpty'
<1> SUFFICES ASSUME Types, IsEmpty, CreateJobs PROVE IsEmpty'
  OBVIOUS
<1>1. UNCHANGED <<cordoned, moved, place, life>> /\ drained' = {} /\ step' = "idle"
  BY DEF CreateJobs, Outside, pods, EndPass
<1>2. OwnsDrain => Batch \subseteq drained
  BY DEF Types, Stage, CreateJobs
<1>3. Jobs' \subseteq Batch
  BY DEF CreateJobs, Jobs, Batch
<1>4. \A n : DrainManaged(n)' = DrainManaged(n)
  BY <1>1, SamePods
<1>5. OwnsDrain
        => \A n \in (drained' \cup Jobs') \ moved' : n \in cordoned' /\ DrainManaged(n)' = {}
  BY <1>1, <1>2, <1>3, <1>4 DEF IsEmpty
<1> QED
  BY <1>1, <1>5, WorkingSteps DEF IsEmpty

\* Only a node without a Job is uncordoned when a Job is over: its own.
LEMMA FinishJobEmpty ==
    ASSUME Types, IsEmpty, NEW n \in Node, FinishJob(n)
    PROVE  IsEmpty'
<1>1. UNCHANGED <<moved, place, life, drained>> /\ step' = "idle"
  BY DEF FinishJob, pods, drain
<1>2. Jobs' \subseteq Jobs \ {n} /\ cordoned \ {n} \subseteq cordoned'
  BY DEF Types, OtherTypes, FinishJob, Jobs
<1>3. drained = {}
  BY StepNames DEF Types, Stage, FinishJob
<1>4. \A m : DrainManaged(m)' = DrainManaged(m)
  BY <1>1, SamePods
<1>5. OwnsDrain
        => \A m \in (drained' \cup Jobs') \ moved' : m \in cordoned' /\ DrainManaged(m)' = {}
  BY <1>1, <1>2, <1>3, <1>4 DEF IsEmpty
<1> QED
  BY <1>1, <1>5, WorkingSteps DEF IsEmpty

LEMMA StandingEmpty ==
    ASSUME IsEmpty, UNCHANGED <<step, image, drained, waitFor, job, cordoned, place, life>>,
           moved \subseteq moved'
    PROVE  IsEmpty'
<1>1. \A n : DrainManaged(n)' = DrainManaged(n)
  BY SamePods
<1> QED
  BY <1>1, FewerPods

LEMMA PodsEmpty ==
    ASSUME Types, IsEmpty, NEW p \in Pod,
           StartPod(p) \/ StopPod(p) \/ PodLeaves(p) \/ Detach(p)
    PROVE  IsEmpty'
<1>1. UNCHANGED <<step, image, drained, waitFor, job, cordoned, moved>>
  BY DEF StartPod, StopPod, PodLeaves, Detach, ByCluster, Operator, drain
<1>2. ASSUME NEW n \in cordoned PROVE DrainManaged(n)' \subseteq DrainManaged(n)
  <2>1. CASE StartPod(p)
    BY <1>2, <2>1, PodAssumption DEF Types, ClusterTypes, StartPod, DrainManaged, On
  <2>2. CASE ~StartPod(p)
    BY <2>2 DEF Types, ClusterTypes, StopPod, PodLeaves, Detach, DrainManaged, On
  <2> QED
    BY <2>1, <2>2
<1> QED
  BY <1>1, <1>2, FewerPods

LEMMA ReplaceNodeEmpty ==
    ASSUME Types, IsEmpty, NEW n \in Node, ReplaceNode(n)
    PROVE  IsEmpty'
<1>1. UNCHANGED <<step, image, drained, waitFor, job>> /\ moved' = moved \cup {n}
      /\ cordoned' = cordoned \ {n}
  BY DEF ReplaceNode, Operator, drain
<1>2. \A m : DrainManaged(m)' \subseteq DrainManaged(m)
  BY DEF Types, ClusterTypes, ReplaceNode, DrainManaged, On
<1> QED
  BY <1>1, <1>2, FewerPods

LEMMA NextEmpty == Types /\ IsEmpty /\ [Next]_vars => IsEmpty'
<1> SUFFICES ASSUME Types, IsEmpty, [Next]_vars PROVE IsEmpty'
  OBVIOUS
<1>1. CASE BeginPass
  <2>1. Jobs' = {} /\ drained' = {} /\ step' \in {"pull", "select"}
    BY <1>1, SameJobs, StepNames DEF BeginPass, Types, Stage, drain
  <2> QED
    BY <2>1, WorkingSteps DEF IsEmpty
<1>2. CASE (\E work \in todo : PullImage(work)) \/ FinishPulls \/ SelectBatch
  <2>1. step \in {"pull", "record", "select"}
        /\ step' \in {"pull", "record", "select", "cordon", "create"}
    BY <1>2, StepNames DEF PullImage, FinishPulls, SelectBatch
  <2>2. UNCHANGED <<drained, job, moved>>
    BY <1>2 DEF PullImage, FinishPulls, SelectBatch, drain, history
  <2>3. drained' = {} /\ Jobs' = {}
    BY <2>1, <2>2, SameJobs, StepNames DEF Types, Stage, IsEmpty
  <2> QED
    BY <2>1, <2>3, WorkingSteps DEF IsEmpty
<1>3. CASE PullFails \/ HoldBack \/ Crash
  BY <1>3, EndPassEmpty DEF PullFails, HoldBack, Crash, history
<1>4. ASSUME NEW failed \in BOOLEAN, DrainFails(failed), step # "idle"
      PROVE  IsEmpty'
  BY <1>4, EndPassEmpty DEF DrainFails
<1>5. CASE DrainStep
  <2>1. CASE \E p \in Pod : EvictPod(p)
    <3>1. PICK p \in Pod : EvictPod(p)
      BY <2>1
    <3>2. CASE DrainFails(FALSE)
      BY <1>4, <3>1, <3>2 DEF EvictPod
    <3>3. CASE ~DrainFails(FALSE)
      <4>1. UNCHANGED <<step, image, drained, waitFor, job, cordoned, moved>>
        BY <3>1, <3>3 DEF EvictPod, history
      <4>2. p \in On(Current)
        BY <3>1, <3>3 DEF EvictPod
      <4>3. \A n \in cordoned : DrainManaged(n)' \subseteq DrainManaged(n)
        BY <3>1, <3>3, <4>2 DEF Types, ClusterTypes, EvictPod, DrainManaged, On
      <4> QED
        BY <4>1, <4>3, FewerPods
    <3> QED
      BY <3>2, <3>3
  <2>2. CASE CordonNode
    BY <2>2, GoEmpty, StepNames, WorkingSteps DEF CordonNode
  <2>3. CASE LookUpVolumes
    BY <2>3, GoEmpty, StepNames, WorkingSteps DEF LookUpVolumes
  <2>4. CASE ListPods
    BY <2>4, GoEmpty, StepNames, WorkingSteps DEF ListPods, Seen
  <2>5. CASE EvictedAll
    BY <2>5, GoEmpty, StepNames, WorkingSteps DEF EvictedAll
  <2>6. CASE PodsLeft
    BY <2>6, GoEmpty, StepNames, WorkingSteps DEF PodsLeft
  <2>7. CASE VolumesDetached \/ VolumesTimeOut
    BY <2>7, NodeDrainedEmpty DEF VolumesDetached, VolumesTimeOut
  <2>8. CASE DrainError
    BY <1>4, <2>8 DEF DrainError
  <2> QED
    BY <1>5, <2>1, <2>2, <2>3, <2>4, <2>5, <2>6, <2>7, <2>8 DEF DrainStep
<1>6. CASE CreateJobs
  BY <1>6, CreateJobsEmpty
<1>7. CASE \E n \in Node : FinishJob(n)
  BY <1>7, FinishJobEmpty
<1>8. CASE \E n \in Node : ChangeImage(n) \/ UpgradeOutOfBand(n)
  BY <1>8, StandingEmpty DEF ChangeImage, UpgradeOutOfBand, Operator, drain, pods
<1>9. CASE \E n \in Node : ReplaceNode(n)
  BY <1>9, ReplaceNodeEmpty
<1>10. CASE \E p \in Pod : StartPod(p) \/ StopPod(p) \/ PodLeaves(p) \/ Detach(p)
  BY <1>10, PodsEmpty
<1>11. CASE ResetRun \/ Unguard \/ UNCHANGED vars
  BY <1>11, StandingEmpty
  DEF ResetRun, Unguard, ByCluster, Operator, vars, drain, pods, history
<1> QED
  BY <1>1, <1>2, <1>3, <1>5, <1>6, <1>7, <1>8, <1>9, <1>10, <1>11
  DEF Next, Proceed, DrainStep, Environment, Done

\* No pod the drain must move is on a drained node, from the moment it counts as
\* drained until its Job is over, whichever drains failed or timed out before.
THEOREM DrainedNodesStayEmpty == Spec => []DrainedNodesAreEmpty
<1>1. IsEmpty => DrainedNodesAreEmpty
  BY DEF IsEmpty, DrainedNodesAreEmpty
<1> QED
  BY InitEmpty, TypesHold, NextEmpty, <1>1, PTL DEF Spec

-------------------------------------------------------------------------------
(***************************************************************************)
(* What the steps of a drain leave alone.                                  *)
(***************************************************************************)
Settled == <<want, machine, store, upgraded, records, attempts, job, moved, redo,
             unsaved, changes>>

LEMMA DrainFailsSettled ==
    ASSUME NEW failed \in BOOLEAN, DrainFails(failed)
    PROVE  UNCHANGED Settled /\ EndPass
BY DEF DrainFails, Settled, Outside, cluster, status

LEMMA GoSettled ==
    ASSUME NEW next, Go(next)
    PROVE  UNCHANGED <<Settled, pull, image, place, life, attached, guarded>> /\ step' = next
BY DEF Go, Settled, Outside, cluster, status, pods

LEMMA DrainStepSettled ==
    ASSUME DrainStep
    PROVE  /\ UNCHANGED Settled /\ step \in Draining
           /\ EndPass \/ (UNCHANGED pull /\ step' \in Draining)
<1>1. CASE \E p \in Pod : EvictPod(p)
  <2>1. PICK p \in Pod : EvictPod(p)
    BY <1>1
  <2>2. CASE DrainFails(FALSE)
    BY <2>1, <2>2, DrainFailsSettled, StepNames DEF EvictPod
  <2>3. CASE ~DrainFails(FALSE)
    BY <2>1, <2>3, StepNames DEF EvictPod, Settled, cluster, status, history
  <2> QED
    BY <2>2, <2>3
<1>2. CASE DrainError
  BY <1>2, DrainFailsSettled, StepNames DEF DrainError
<1>3. CASE CordonNode \/ LookUpVolumes \/ ListPods \/ EvictedAll \/ PodsLeft
  BY <1>3, GoSettled, StepNames
  DEF CordonNode, LookUpVolumes, ListPods, EvictedAll, PodsLeft
<1>4. CASE VolumesDetached \/ VolumesTimeOut
  BY <1>4, GoSettled, StepNames DEF VolumesDetached, VolumesTimeOut, NodeDrained
<1> QED
  BY <1>1, <1>2, <1>3, <1>4 DEF DrainStep

-------------------------------------------------------------------------------
(***************************************************************************)
(* The streak of failures. A pass that gets past the pull has ended it, or *)
(* knows that it did not.                                                  *)
(***************************************************************************)
Streak == PrePullEnabled /\ step \in {"select"} \cup Draining /\ ~unsaved => attempts = 0

LEMMA ClearFailureEnds ==
    ASSUME Types, NEW lost \in BOOLEAN, ClearFailure(lost)
    PROVE  ~unsaved' => attempts' = 0
<1>1. CASE ~lost
  BY <1>1 DEF ClearFailure
<1>2. CASE lost
  <2>1. attempts' = attempts /\ attempts \in Nat
    BY <1>2 DEF ClearFailure, Types, OtherTypes
  <2>2. ~unsaved' => ~(attempts > 0)
    BY <1>2, Zenon DEF ClearFailure
  <2> QED
    BY <2>1, <2>2
<1> QED
  BY <1>1, <1>2

LEMMA QuietStreak ==
    ASSUME Streak, UNCHANGED <<attempts, unsaved>>,
           \/ step' \in {"idle", "pull", "record"} \/ step' = step
           \/ {step, step'} \subseteq {"select"} \cup Draining
    PROVE  Streak'
BY StepNames DEF Streak

LEMMA NextStreak == Types /\ Streak /\ [Next]_vars => Streak'
<1> SUFFICES ASSUME Types, Streak, [Next]_vars PROVE Streak'
  OBVIOUS
<1>1. CASE BeginPass
  <2>1. CASE step' = "pull"
    BY <2>1, StepNames DEF Streak
  <2>2. CASE step' # "pull" /\ PrePullEnabled
    BY <1>1, <2>2, ClearFailureEnds DEF BeginPass, ClearLeftover, Streak
  <2> QED
    BY <2>1, <2>2 DEF Streak
<1>2. CASE FinishPulls
  BY <1>2, ClearFailureEnds DEF FinishPulls, Streak
<1>3. CASE PullFails \/ CreateJobs \/ HoldBack \/ Crash
  BY <1>3, StepNames DEF PullFails, CreateJobs, HoldBack, Crash, EndPass, Streak
<1>4. CASE ResetRun
  BY <1>4 DEF ResetRun, Streak
<1>5. CASE DrainStep
  BY <1>5, DrainStepSettled, QuietStreak DEF EndPass, Settled
<1>6. CASE \E work \in todo : PullImage(work)
  BY <1>6, QuietStreak DEF PullImage, status, history
<1>7. CASE SelectBatch
  BY <1>7, QuietStreak, StepNames DEF SelectBatch, status, history
<1>8. CASE \E n \in Node : FinishJob(n)
  BY <1>8, QuietStreak DEF FinishJob, status
<1>9. CASE Environment \/ UNCHANGED vars
  BY <1>9, QuietStreak
  DEF Environment, ChangeImage, ReplaceNode, UpgradeOutOfBand, StartPod, StopPod,
      PodLeaves, Detach, Unguard, ByCluster, Operator, vars, status, history
<1> QED
  BY <1>1, <1>2, <1>3, <1>4, <1>5, <1>6, <1>7, <1>8, <1>9
  DEF Next, Proceed, DrainStep, Done

\* A streak of failed pulls is over, in the saved status too, when a pass that did
\* pull goes on to pick its batch, unless just that write is lost.
THEOREM StreaksEnd == Spec => []StreakEnds
<1>1. Init => Streak
  BY StepNames DEF Init, Streak
<1>2. Streak => StreakEnds
  BY DEF Streak, StreakEnds
<1> QED
  BY TypesHold, NextStreak, <1>1, <1>2, PTL DEF Spec

-------------------------------------------------------------------------------
(***************************************************************************)
(* Pulls are not made twice. Whoever has neither a record nor a pull of    *)
(* this pass has an empty store: a store is only filled by a pull, a pull  *)
(* of this pass never takes the place of nothing, and a node that loses    *)
(* its record is one whose pull has to be made again.                      *)
(***************************************************************************)
Pulling == {"pull", "record"}

Resumed ==
    /\ step \notin Pulling => pulled = [n \in Node |-> NoRecord]
    /\ step \in Pulling => \A n \in Node : records[n] # NoRecord => pulled[n] # NoRecord
    /\ \A n \in Node \ (Old \cup redo) :
          records[n] = NoRecord /\ pulled[n] = NoRecord => store[n] = {}
    /\ step = "pull" => \A work \in todo : pulled[work.node] = records[work.node]
    /\ step = "pull" => \A work, other \in todo : work.node = other.node => work = other

LEMMA InitResumed == Init => Resumed
BY StepNames DEF Init, Resumed, Pulling

LEMMA PulledIsRecord ==
    ASSUME NEW m, NEW i \in Images
    PROVE  [machine |-> m, image |-> i] # NoRecord
BY ImagesAssumption DEF NoRecord

LEMMA QuietResumes ==
    ASSUME Types, Resumed, UNCHANGED <<store, records, redo>>,
           \/ EndPass /\ step \notin Pulling
           \/ UNCHANGED pull /\ (step' = step \/ {step, step'} \cap Pulling = {})
    PROVE  Resumed'
<1>1. step' \in Pulling => step' = step
  BY StepNames DEF EndPass, Pulling
<1>2. pulled' = pulled
  BY DEF EndPass, pull, Resumed
<1>3. step' = "pull" => todo' = todo
  BY StepNames DEF EndPass, pull
<1> QED
  BY <1>1, <1>2, <1>3 DEF Resumed, Pulling

LEMMA BeginPassResumes == Types /\ Resumed /\ BeginPass => Resumed'
<1> SUFFICES ASSUME Types, Resumed, BeginPass PROVE Resumed'
  OBVIOUS
<1>1. UNCHANGED <<store, records, redo>> /\ pulled = [n \in Node |-> NoRecord]
  BY StepNames DEF BeginPass, Outside, cluster, Resumed, Pulling
<1>2. CASE step' = "pull"
  <2>1. pulled' = records /\ todo' = ToPull
    BY <1>2 DEF BeginPass
  <2>2. \A work, other \in ToPull : work.node = other.node => work = other
    BY DEF ToPull
  <2>3. \A n \in Node \ (Old \cup redo) : records[n] = NoRecord => store[n] = {}
    BY <1>1 DEF Resumed
  <2> QED
    BY <1>1, <1>2, <2>1, <2>2, <2>3 DEF Resumed, Pulling
<1>3. CASE step' # "pull"
  <2>1. pulled' = pulled /\ step' = "select"
    BY <1>3 DEF BeginPass
  <2> QED
    BY <1>1, <2>1 DEF Resumed, Pulling
<1> QED
  BY <1>2, <1>3

LEMMA PullImageResumes ==
    ASSUME Types, Resumed, NEW work \in todo, PullImage(work)
    PROVE  Resumed'
<1>1. work \in [node : Node, machine : Nat \ {0}, image : Images]
  BY DEF Types, PassTypes
<1>2. UNCHANGED <<records, redo>> /\ step = "pull" /\ step' \in Pulling
      /\ todo' = todo \ {work}
  BY DEF PullImage, status, history, Pulling
<1>3. pulled'[work.node] # NoRecord
  BY <1>1, PulledIsRecord DEF PullImage, Types, PassTypes
<1>4. \A n \in Node \ {work.node} : pulled'[n] = pulled[n] /\ store'[n] = store[n]
  BY DEF PullImage, Types, ClusterTypes, PassTypes
<1>5. \A other \in todo' : other.node \in Node \ {work.node}
  BY <1>2 DEF Resumed, Types, PassTypes
<1>6. \A n \in Node : records'[n] # NoRecord => pulled'[n] # NoRecord
  BY <1>2, <1>3, <1>4 DEF Resumed, Pulling
<1>7. \A n \in Node \ (Old \cup redo') :
         records'[n] = NoRecord /\ pulled'[n] = NoRecord => store'[n] = {}
  BY <1>2, <1>3, <1>4 DEF Resumed
<1>8. \A other \in todo' : pulled'[other.node] = records'[other.node]
  BY <1>2, <1>4, <1>5 DEF Resumed
<1> QED
  BY <1>2, <1>6, <1>7, <1>8 DEF Resumed

LEMMA RecordPullsResume ==
    ASSUME Types, Resumed, step \in Pulling, NEW lost \in BOOLEAN, RecordPulls(lost),
           UNCHANGED store, step' \notin Pulling, pulled' = [n \in Node |-> NoRecord]
    PROVE  Resumed'
<1>1. ASSUME NEW n \in Node \ (Old \cup redo'), records'[n] = NoRecord
      PROVE  store'[n] = {}
  <2>1. CASE lost
    BY <1>1, <2>1 DEF RecordPulls, Resumed
  <2>2. CASE ~lost
    <3>1. records' = pulled /\ redo' = {m \in redo : pulled[m] = records[m]}
      BY <2>2 DEF RecordPulls
    <3>2. records[n] = NoRecord /\ pulled[n] = NoRecord
      BY <1>1, <3>1 DEF Resumed
    <3> QED
      BY <1>1, <3>1, <3>2 DEF Resumed
  <2> QED
    BY <2>1, <2>2
<1> QED
  BY <1>1 DEF Resumed, Pulling

LEMMA CrashResumes == Types /\ Resumed /\ Crash => Resumed'
<1> SUFFICES ASSUME Types, Resumed, Crash PROVE Resumed'
  OBVIOUS
<1>1. UNCHANGED <<store, records>> /\ pulled' = [n \in Node |-> NoRecord] /\ step' = "idle"
  BY DEF Crash, Outside, cluster, status, EndPass
<1>2. ASSUME NEW n \in Node \ (Old \cup redo'), records[n] = NoRecord
      PROVE  store[n] = {}
  <2>1. n \notin redo /\ (step \in Pulling => pulled[n] = records[n])
    BY <1>2 DEF Crash, Pulling
  <2> QED
    BY <1>2, <2>1 DEF Resumed
<1> QED
  BY <1>1, <1>2 DEF Resumed, Pulling

LEMMA NextResumed == Types /\ Resumed /\ [Next]_vars => Resumed'
<1> SUFFICES ASSUME Types, Resumed, [Next]_vars PROVE Resumed'
  OBVIOUS
<1>1. CASE FinishPulls
  BY <1>1, RecordPullsResume DEF FinishPulls, Outside, cluster, Pulling
<1>2. CASE PullFails
  BY <1>2, RecordPullsResume
  DEF PullFails, RecordProgress, Outside, cluster, EndPass, Pulling
<1>3. CASE ResetRun
  <2>1. UNCHANGED <<pulled, step>> /\ redo' = Node /\ step = "idle"
    BY <1>3 DEF ResetRun, pull
  <2> QED
    BY <2>1 DEF Resumed, Pulling
<1>4. CASE DrainStep
  <2>1. UNCHANGED <<store, records, redo>> /\ step \notin Pulling
    BY <1>4, DrainStepSettled, StepNames DEF Settled, Pulling
  <2>2. step' \in Draining => step' \notin Pulling
    BY StepNames DEF Pulling
  <2> QED
    BY <1>4, <2>1, <2>2, DrainStepSettled, QuietResumes
<1>5. CASE SelectBatch \/ CreateJobs \/ HoldBack
  BY <1>5, QuietResumes, StepNames
  DEF SelectBatch, CreateJobs, HoldBack, Outside, cluster, status, history, Pulling
<1>6. CASE \E n \in Node : FinishJob(n) \/ ChangeImage(n) \/ UpgradeOutOfBand(n)
  BY <1>6, QuietResumes DEF FinishJob, ChangeImage, UpgradeOutOfBand, Operator, status
<1>7. ASSUME NEW n \in Node, ReplaceNode(n)
      PROVE  Resumed'
  <2>1. UNCHANGED <<pull, step, records, redo>>
    BY <1>7 DEF ReplaceNode, Operator, status
  <2>2. store'[n] = {} /\ \A m \in Node \ {n} : store'[m] = store[m]
    BY <1>7 DEF ReplaceNode, Types, ClusterTypes
  <2> QED
    BY <2>1, <2>2 DEF Resumed, pull
<1>8. CASE ByCluster
  BY <1>8, QuietResumes DEF ByCluster, Operator, cluster, status
<1>9. CASE UNCHANGED vars
  BY <1>9, QuietResumes DEF vars, cluster, status, history
<1> QED
  BY <1>1, <1>2, <1>3, <1>4, <1>5, <1>6, <1>7, <1>8, <1>9, BeginPassResumes,
     PullImageResumes, CrashResumes
  DEF Next, Proceed, DrainStep, Environment, Done, StartPod, StopPod, PodLeaves, Detach,
      Unguard

\* What a node has pulled is not pulled again because the pull of another failed,
\* however many passes that takes: only a lost record, a reset or a crash is a reason.
THEOREM PullsAreResumed == Spec => []PullsResume
<1>1. Types /\ Resumed => PullsResume
  <2> SUFFICES ASSUME Types, Resumed, step = "pull", NEW work \in todo,
                      work.node \notin Old \cup redo, records[work.node] = NoRecord
               PROVE  work.image \notin store[work.node]
    BY DEF PullsResume
  <2> QED
    BY DEF Resumed, Types, PassTypes
<1> QED
  BY InitResumed, TypesHold, NextResumed, <1>1, PTL DEF Spec

-------------------------------------------------------------------------------
(***************************************************************************)
(* Volumes. A pod the pass has evicted does not come back, so that what it *)
(* may leave behind is a volume, and that is one the pass waits for: it    *)
(* looked the volumes up on a cordoned node, before it listed the pods.    *)
(***************************************************************************)
EvictedHere(p) ==
    /\ life[p] \in {"terminating", "gone"}
    /\ place[p] \in drained
         \/ (step \in {"evict", "empty", "detach"} /\ place[p] = Current)

LookedUp(n) ==
    /\ step = "list" => Evictable(n) \cap Claims \subseteq volumes
    /\ step = "evict" => \A p \in evict \cap Claims : place[p] = n => p \in volumes
    /\ \A p \in evicted \cap attached : place[p] = n => p \in volumes

Volumes ==
    /\ \A p \in evicted : EvictedHere(p)
    /\ EvictedVolumesDetach
    /\ step \in Working /\ Current \notin moved \cup timedOut => LookedUp(Current)

LEMMA SameEvictable ==
    ASSUME UNCHANGED <<place, life>>, NEW n
    PROVE  Evictable(n)' = Evictable(n)
BY DEF Evictable, Terminating, DrainManaged, On

\* Before its first drain a pass has evicted nothing.
LEMMA NothingEvicted ==
    ASSUME Types, Volumes, step \notin Draining
    PROVE  evicted = {} /\ drained = {}
BY WorkingSteps, StepNames DEF Volumes, EvictedHere, Types, Stage

LEMMA NoneEvictedOnCurrent ==
    ASSUME Types, Volumes, step \in {"cordon", "volumes", "list"}
    PROVE  \A p \in evicted : place[p] # Current
BY CurrentType, StepNames DEF Volumes, EvictedHere

LEMMA EndPassVolumes ==
    ASSUME EndPass
    PROVE  Volumes'
BY WorkingSteps DEF EndPass, Volumes, EvictedVolumesDetach

LEMMA StillVolumes ==
    ASSUME Types, Volumes, step \notin Draining, UNCHANGED <<evicted, drained>>,
           step' \notin Working
    PROVE  Volumes'
<1>1. evicted' = {} /\ drained' = {}
  BY NothingEvicted
<1> QED
  BY <1>1 DEF Volumes, EvictedVolumesDetach

\* Pods go on to terminate and leave, volumes detach, and pods start on other nodes.
LEMMA FewerVolumes ==
    ASSUME Types, IsEmpty, Volumes,
           UNCHANGED <<step, image, drained, volumes, evict, evicted, timedOut>>,
           moved \subseteq moved',
           NEW new \in SUBSET Pod,
           \A p \in new : life[p] = "unborn" /\ place'[p] \notin cordoned,
           \A p \in Pod \ new :
              /\ place'[p] = place[p]
              /\ life'[p] \in {life[p], "terminating", "gone"}
              /\ life[p] = "terminating" => life'[p] # "running"
              /\ life[p] = "gone" => life'[p] = "gone"
              /\ life[p] = "unborn" => life'[p] = "unborn",
           attached' \subseteq attached \cup new
    PROVE  Volumes'
<1>1. Current' = Current
  BY SameCurrent
<1>2. PICK c : c = Current
  OBVIOUS
<1>3. \A p \in evicted : p \in Pod \ new /\ p \notin new
  BY DEF Volumes, EvictedHere, Types, PassTypes
<1>4. ASSUME NEW p \in evicted PROVE EvictedHere(p)'
  <2>1. EvictedHere(p) /\ place'[p] = place[p] /\ life'[p] \in {"terminating", "gone"}
    BY <1>3 DEF Volumes, EvictedHere
  <2> QED
    BY <1>1, <2>1 DEF EvictedHere
<1>5. EvictedVolumesDetach'
  BY <1>3 DEF Volumes, EvictedVolumesDetach, AttachedTo, Types, PassTypes
<1>6. ASSUME step \in Working, c \notin moved \cup timedOut
      PROVE  LookedUp(c)'
  <2>1. c \in cordoned /\ LookedUp(c)
    BY <1>2, <1>6 DEF IsEmpty, Volumes
  <2>2. Evictable(c)' \subseteq Evictable(c)
    BY <2>1 DEF Evictable, Terminating, DrainManaged, On
  <2>3. \A p \in Pod : place'[p] = c => place[p] = c /\ p \notin new
    BY <2>1
  <2> QED
    BY <2>1, <2>2, <2>3 DEF LookedUp, Types, PassTypes
<1> QED
  BY <1>1, <1>2, <1>4, <1>5, <1>6 DEF Volumes, LookedUp, Evictable, Terminating,
     DrainManaged, On

LEMMA StandingVolumes ==
    ASSUME Types, IsEmpty, Volumes,
           UNCHANGED <<step, image, drained, volumes, evict, evicted, timedOut, place,
                       life, attached>>,
           moved \subseteq moved'
    PROVE  Volumes'
<1>1. {} \in SUBSET Pod
  OBVIOUS
<1> QED
  BY <1>1, FewerVolumes

LEMMA GoVolumes ==
    ASSUME Types, Volumes, NEW next \in Working, Go(next),
           UNCHANGED <<drained, evicted>>, timedOut \subseteq timedOut',
           step \in {"evict", "empty", "detach"} => next \in {"evict", "empty", "detach"},
           Current \notin moved \cup timedOut' =>
              /\ next = "list" => volumes' = Evictable(Current) \cap Claims
              /\ next = "evict" => \A p \in evict' \cap Claims :
                                      place[p] = Current => p \in volumes'
              /\ step \in Working \ {"volumes"} => volumes' = volumes,
           step \in {"cordon", "volumes"} \cup Working
    PROVE  Volumes'
<1>1. UNCHANGED <<image, moved, place, life, attached>> /\ step' = next
  BY GoSettled DEF Settled
<1>2. Current' = Current
  BY <1>1, SameCurrent
<1>3. PICK c : c = Current
  OBVIOUS
<1>4. \A p \in evicted' : EvictedHere(p)'
  BY <1>1, <1>2 DEF Volumes, EvictedHere
<1>5. EvictedVolumesDetach'
  BY <1>1 DEF Volumes, EvictedVolumesDetach, AttachedTo
<1>6. ASSUME c \notin moved \cup timedOut'
      PROVE  LookedUp(c)'
  <2>1. \A p \in evicted' \cap attached' : place'[p] = c => p \in volumes'
    <3>1. CASE step \in {"cordon", "volumes", "list"}
      BY <1>1, <1>3, <3>1, NoneEvictedOnCurrent
    <3>2. CASE step \notin {"cordon", "volumes", "list"}
      BY <1>1, <1>3, <1>6, <3>2, WorkingSteps DEF Volumes, LookedUp
    <3> QED
      BY <3>1, <3>2
  <2>2. Evictable(c)' = Evictable(c)
    BY <1>1, SameEvictable
  <2> QED
    BY <1>1, <1>3, <1>6, <2>1, <2>2 DEF LookedUp
<1> QED
  BY <1>1, <1>2, <1>3, <1>4, <1>5, <1>6 DEF Volumes, LookedUp, Evictable, Terminating,
     DrainManaged, On

LEMMA EvictPodVolumes ==
    ASSUME Types, Volumes, NEW p \in Pod, EvictPod(p), ~DrainFails(FALSE)
    PROVE  Volumes'
<1>1. UNCHANGED <<step, image, drained, volumes, timedOut, moved, place, attached>>
      /\ step = "evict"
  BY DEF EvictPod, history
<1>2. Current' = Current
  BY <1>1, SameCurrent
<1>3. PICK c : c = Current
  OBVIOUS
<1>4. p \in evict /\ place[p] = c /\ c \notin drained
  BY <1>3, CurrentType, StepNames DEF EvictPod, On
<1>5. evict' = evict \ {p} /\ evicted' = evicted \cup {p}
      /\ life' = [life EXCEPT ![p] = "terminating"]
  BY DEF EvictPod
<1>6. \A q \in evicted' : EvictedHere(q)'
  BY <1>1, <1>2, <1>3, <1>4, <1>5 DEF Volumes, EvictedHere, Types, ClusterTypes, PassTypes
<1>7. EvictedVolumesDetach'
  BY <1>1, <1>4, <1>5 DEF Volumes, EvictedVolumesDetach, AttachedTo
<1>8. ASSUME c \notin moved \cup timedOut
      PROVE  LookedUp(c)'
  <2>1. LookedUp(c)
    BY <1>1, <1>3, <1>8, WorkingSteps DEF Volumes
  <2> QED
    BY <1>1, <1>4, <1>5, <2>1 DEF LookedUp, Types, ClusterTypes
<1> QED
  BY <1>1, <1>2, <1>3, <1>6, <1>7, <1>8 DEF Volumes, LookedUp, Evictable, Terminating,
     DrainManaged, On

LEMMA NodeDrainedVolumes ==
    ASSUME Types, Volumes, step = "detach", NodeDrained,
           \/ timedOut' = timedOut /\ Detached(Current)
           \/ timedOut' = timedOut \cup {Current}
    PROVE  Volumes'
<1>1. UNCHANGED <<moved, place, life, attached, evicted>> /\ drained' = drained \cup {Current}
      /\ step' \notin Working
  BY GoSettled, WorkingSteps DEF NodeDrained, Settled
<1>2. PICK c : c = Current
  OBVIOUS
<1>3. \A p \in evicted' : EvictedHere(p)'
  BY <1>1 DEF Volumes, EvictedHere
<1>4. c \notin moved \cup timedOut' => AttachedTo(c) \cap evicted = {}
  <2> SUFFICES ASSUME c \notin moved \cup timedOut' PROVE AttachedTo(c) \cap evicted = {}
    OBVIOUS
  <2>1. LookedUp(c) /\ Detached(c)
    BY <1>2, WorkingSteps DEF Volumes
  <2> QED
    BY <2>1 DEF LookedUp, Detached, AttachedTo
<1>5. EvictedVolumesDetach'
  BY <1>1, <1>2, <1>4 DEF Volumes, EvictedVolumesDetach, AttachedTo
<1> QED
  BY <1>1, <1>3, <1>5 DEF Volumes

LEMMA DrainStepVolumes == Types /\ Volumes /\ DrainStep => Volumes'
<1> SUFFICES ASSUME Types, Volumes, DrainStep PROVE Volumes'
  OBVIOUS
<1>1. CASE \E p \in Pod : EvictPod(p)
  BY <1>1, EvictPodVolumes, DrainFailsSettled, EndPassVolumes
<1>2. CASE CordonNode
  BY <1>2, GoVolumes, WorkingSteps DEF CordonNode
<1>3. CASE LookUpVolumes
  BY <1>3, GoVolumes, WorkingSteps DEF LookUpVolumes
<1>4. CASE ListPods
  <2>1. Current \notin moved \cup timedOut
          => \A p \in evict' \cap Claims : place[p] = Current => p \in volumes'
    BY <1>4, WorkingSteps DEF ListPods, Volumes, LookedUp
  <2> QED
    BY <1>4, <2>1, GoVolumes, WorkingSteps DEF ListPods
<1>5. CASE EvictedAll \/ PodsLeft
  BY <1>5, GoVolumes, WorkingSteps DEF EvictedAll, PodsLeft
<1>6. CASE VolumesDetached \/ VolumesTimeOut
  BY <1>6, NodeDrainedVolumes DEF VolumesDetached, VolumesTimeOut
<1>7. CASE DrainError
  BY <1>7, DrainFailsSettled, EndPassVolumes DEF DrainError
<1> QED
  BY <1>1, <1>2, <1>3, <1>4, <1>5, <1>6, <1>7 DEF DrainStep

LEMMA PodsVolumes ==
    ASSUME Types, IsEmpty, Volumes, NEW p \in Pod,
           StartPod(p) \/ StopPod(p) \/ PodLeaves(p) \/ Detach(p)
    PROVE  Volumes'
<1>1. UNCHANGED <<step, image, drained, volumes, evict, evicted, timedOut, moved>>
  BY DEF StartPod, StopPod, PodLeaves, Detach, ByCluster, Operator, drain
<1>2. CASE StartPod(p)
  <2>1. place'[p] \notin cordoned /\ life[p] = "unborn" /\ attached' \subseteq attached \cup {p}
        /\ \A q \in Pod \ {p} : place'[q] = place[q] /\ life'[q] = life[q]
    BY <1>2 DEF StartPod, Types, ClusterTypes
  <2>2. {p} \in SUBSET Pod
    OBVIOUS
  <2> QED
    BY <1>1, <2>1, <2>2, FewerVolumes
<1>3. CASE StopPod(p) \/ PodLeaves(p) \/ Detach(p)
  <2>1. UNCHANGED place /\ attached' \subseteq attached \cup {}
        /\ \A q \in Pod : /\ life'[q] \in {life[q], "terminating", "gone"}
                          /\ life[q] = "terminating" => life'[q] # "running"
                          /\ life[q] = "gone" => life'[q] = "gone"
                          /\ life[q] = "unborn" => life'[q] = "unborn"
    BY <1>3 DEF StopPod, PodLeaves, Detach, Types, ClusterTypes
  <2>2. {} \in SUBSET Pod
    OBVIOUS
  <2> QED
    BY <1>1, <2>1, <2>2, FewerVolumes
<1> QED
  BY <1>2, <1>3

LEMMA ReplaceNodeVolumes ==
    ASSUME Types, IsEmpty, Volumes, NEW n \in Node, ReplaceNode(n)
    PROVE  Volumes'
<1>1. UNCHANGED <<step, image, drained, volumes, evict, evicted, timedOut, place, attached>>
      /\ moved \subseteq moved'
  BY DEF ReplaceNode, Operator, drain
<1>2. \A p \in Pod : /\ life'[p] \in {life[p], "terminating", "gone"}
                     /\ life[p] = "terminating" => life'[p] # "running"
                     /\ life[p] = "gone" => life'[p] = "gone"
                     /\ life[p] = "unborn" => life'[p] = "unborn"
  BY DEF ReplaceNode, On, Types, ClusterTypes
<1>3. {} \in SUBSET Pod
  OBVIOUS
<1> QED
  BY <1>1, <1>2, <1>3, FewerVolumes

LEMMA NextVolumes == Types /\ IsEmpty /\ Volumes /\ [Next]_vars => Volumes'
<1> SUFFICES ASSUME Types, IsEmpty, Volumes, [Next]_vars PROVE Volumes'
  OBVIOUS
<1>1. CASE BeginPass \/ FinishPulls \/ SelectBatch \/ \E work \in todo : PullImage(work)
  BY <1>1, StillVolumes, StepNames, WorkingSteps
  DEF BeginPass, FinishPulls, SelectBatch, PullImage, drain
<1>2. CASE PullFails \/ HoldBack \/ Crash \/ CreateJobs
  BY <1>2, EndPassVolumes DEF PullFails, HoldBack, Crash, CreateJobs
<1>3. CASE \E n \in Node : FinishJob(n) \/ ChangeImage(n) \/ UpgradeOutOfBand(n)
  BY <1>3, StandingVolumes DEF FinishJob, ChangeImage, UpgradeOutOfBand, Operator, drain, pods
<1>4. CASE ResetRun \/ Unguard \/ UNCHANGED vars
  BY <1>4, StandingVolumes
  DEF ResetRun, Unguard, ByCluster, Operator, vars, drain, pods, history
<1> QED
  BY <1>1, <1>2, <1>3, <1>4, DrainStepVolumes, PodsVolumes, ReplaceNodeVolumes
  DEF Next, Proceed, DrainStep, Environment, Done

\* When a node counts as drained no volume of a pod the pass has evicted from it is
\* still attached, unless the operator saw the wait time out or never began it.
THEOREM VolumesAreDetached == Spec => []EvictedVolumesDetach
<1>1. Init => Volumes
  BY WorkingSteps DEF Init, Volumes, EvictedVolumesDetach
<1>2. Volumes => EvictedVolumesDetach
  BY DEF Volumes
<1>3. Types /\ IsEmpty /\ [Next]_vars => IsEmpty'
  BY NextEmpty
<1> QED
  BY InitEmpty, TypesHold, NextVolumes, <1>1, <1>2, <1>3, PTL DEF Spec

-------------------------------------------------------------------------------
(***************************************************************************)
(* Cordons. Each has an owner: the drain under way, a node of the batch    *)
(* that is drained, a Job, or a mishap that is accounted for.              *)
(***************************************************************************)
UnderDrain == IF step \in Working THEN {Current} ELSE {}

Owned ==
    /\ cordoned \subseteq Jobs \cup abandoned \cup drained \cup UnderDrain
    /\ drained \subseteq Batch

LEMMA SameOwned ==
    ASSUME Owned, UNCHANGED <<step, image, drained, job>>,
           cordoned' \ abandoned' \subseteq cordoned \ abandoned
    PROVE  Owned'
<1>1. Current' = Current /\ Jobs' = Jobs /\ Batch' = Batch
  BY SameCurrent, SameJobs DEF Batch
<1>2. UnderDrain' = UnderDrain
  BY <1>1 DEF UnderDrain
<1> QED
  BY <1>1, <1>2 DEF Owned

LEMMA GoOwned ==
    ASSUME Types, Owned, step \in Draining, NEW next \in Working, Go(next), drained' = drained,
           abandoned' = abandoned, cordoned' \subseteq cordoned \cup {Current}
    PROVE  Owned'
<1>1. UNCHANGED <<image, job>> /\ step' = next
  BY GoSettled DEF Settled
<1>2. Current' = Current /\ Jobs' = Jobs /\ Batch' = Batch
  BY <1>1, SameCurrent, SameJobs DEF Batch
<1>3. UnderDrain \subseteq {Current} /\ UnderDrain' = {Current}
  BY <1>1, <1>2 DEF UnderDrain
<1> QED
  BY <1>2, <1>3 DEF Owned

LEMMA NodeDrainedOwned ==
    ASSUME Types, Owned, step = "detach", NodeDrained, UNCHANGED <<cordoned, abandoned>>
    PROVE  Owned'
<1>1. UNCHANGED <<image, job>> /\ drained' = drained \cup {Current}
  BY GoSettled DEF NodeDrained, Settled
<1>2. Jobs' = Jobs /\ Batch' = Batch /\ Current \in Batch
  BY <1>1, SameJobs, CurrentType, StepNames DEF Batch
<1>3. UnderDrain \subseteq {Current}
  BY DEF UnderDrain
<1> QED
  BY <1>1, <1>2, <1>3 DEF Owned

LEMMA DrainFailsOwned ==
    ASSUME Types, Owned, NEW failed \in BOOLEAN, DrainFails(failed)
    PROVE  Owned'
<1>1. Jobs' = Jobs /\ drained' = {}
  BY DrainFailsSettled, SameJobs DEF Settled, EndPass
<1>2. PICK kept \in SUBSET RollbackSet :
         /\ cordoned' = cordoned \ (RollbackSet \ kept)
         /\ abandoned' = (abandoned \ RollbackSet) \cup (kept \cap cordoned)
  BY DEF DrainFails
<1>3. cordoned \ RollbackSet \subseteq Jobs \cup abandoned
  BY DEF Owned, UnderDrain, RollbackSet
<1> QED
  BY <1>1, <1>2, <1>3 DEF Owned

LEMMA DrainStepOwned == Types /\ Owned /\ DrainStep => Owned'
<1> SUFFICES ASSUME Types, Owned, DrainStep PROVE Owned'
  OBVIOUS
<1>1. CASE \E p \in Pod : EvictPod(p)
  <2>1. PICK p \in Pod : EvictPod(p)
    BY <1>1
  <2>2. CASE ~DrainFails(FALSE)
    BY <2>1, <2>2, SameOwned DEF EvictPod, history
  <2> QED
    BY <2>2, DrainFailsOwned
<1>2. CASE CordonNode \/ LookUpVolumes \/ ListPods \/ EvictedAll \/ PodsLeft
  BY <1>2, GoOwned, WorkingSteps, StepNames
  DEF CordonNode, LookUpVolumes, ListPods, EvictedAll, PodsLeft
<1>3. CASE VolumesDetached \/ VolumesTimeOut
  BY <1>3, NodeDrainedOwned DEF VolumesDetached, VolumesTimeOut
<1>4. CASE DrainError
  BY <1>4, DrainFailsOwned DEF DrainError
<1> QED
  BY <1>1, <1>2, <1>3, <1>4 DEF DrainStep

LEMMA CreateJobsOwned == Types /\ IsEmpty /\ Owned /\ CreateJobs => Owned'
<1> SUFFICES ASSUME Types, IsEmpty, Owned, CreateJobs PROVE Owned'
  OBVIOUS
<1>1. UNCHANGED cordoned /\ drained' = {}
  BY DEF CreateJobs, EndPass
<1>2. cordoned \subseteq abandoned \cup Batch
  BY WorkingSteps DEF Owned, UnderDrain, CreateJobs, IsEmpty
<1>3. \A n \in Batch \cap cordoned : n \in Jobs' \cup abandoned'
  BY DEF CreateJobs, Jobs, Batch
<1>4. abandoned \subseteq abandoned'
  BY DEF CreateJobs
<1> QED
  BY <1>1, <1>2, <1>3, <1>4 DEF Owned

LEMMA CrashOwned == Types /\ Owned /\ Crash => Owned'
<1> SUFFICES ASSUME Types, Owned, Crash PROVE Owned'
  OBVIOUS
<1>1. UNCHANGED cordoned /\ drained' = {} /\ Jobs' = Jobs
      /\ abandoned' = abandoned \cup (Batch \cap cordoned)
  BY SameJobs DEF Crash, EndPass
<1>2. UnderDrain \subseteq Batch
  BY CurrentType, WorkingSteps DEF UnderDrain
<1> QED
  BY <1>1, <1>2 DEF Owned

LEMMA FinishJobOwned ==
    ASSUME Types, Owned, NEW n \in Node, FinishJob(n)
    PROVE  Owned'
<1>1. UNCHANGED <<step, image, drained>> /\ step = "idle"
  BY DEF FinishJob, drain
<1>2. Jobs \ {n} \subseteq Jobs'
  BY DEF Types, OtherTypes, FinishJob, Jobs
<1>3. Batch' = Batch /\ UnderDrain = {}
  BY <1>1, WorkingSteps DEF Batch, UnderDrain
<1>4. n \in cordoned' => n \in abandoned'
  BY DEF FinishJob
<1>5. cordoned' \subseteq cordoned /\ abandoned \ {n} \subseteq abandoned'
  BY DEF FinishJob
<1> QED
  BY <1>1, <1>2, <1>3, <1>4, <1>5 DEF Owned

LEMMA NextOwned == Types /\ IsEmpty /\ Owned /\ [Next]_vars => Owned'
<1> SUFFICES ASSUME Types, IsEmpty, Owned, [Next]_vars PROVE Owned'
  OBVIOUS
<1>1. ASSUME step \notin Draining, UNCHANGED <<cordoned, abandoned, job, drained>>
      PROVE  Owned'
  <2>1. drained' = {} /\ UnderDrain = {} /\ Jobs' = Jobs
    BY <1>1, SameJobs, WorkingSteps DEF Types, Stage, UnderDrain
  <2> QED
    BY <1>1, <2>1 DEF Owned
<1>2. CASE BeginPass \/ FinishPulls \/ SelectBatch \/ \E work \in todo : PullImage(work)
  BY <1>1, <1>2, StepNames DEF BeginPass, FinishPulls, SelectBatch, PullImage, drain, history
<1>3. CASE PullFails \/ HoldBack
  <2>1. step \notin Draining /\ UNCHANGED <<cordoned, abandoned, job>> /\ drained' = {}
    BY <1>3, StepNames DEF PullFails, HoldBack, EndPass, history
  <2> QED
    BY <1>1, <2>1 DEF Types, Stage
<1>4. CASE \E n \in Node : ChangeImage(n) \/ ReplaceNode(n) \/ UpgradeOutOfBand(n)
  BY <1>4, SameOwned DEF ChangeImage, ReplaceNode, UpgradeOutOfBand, Operator, drain
<1>5. CASE ResetRun \/ ByCluster \/ UNCHANGED vars
  BY <1>5, SameOwned DEF ResetRun, ByCluster, Operator, vars, drain, history
<1> QED
  BY <1>2, <1>3, <1>4, <1>5, DrainStepOwned, CreateJobsOwned, CrashOwned, FinishJobOwned
  DEF Next, Proceed, DrainStep, Environment, Done, StartPod, StopPod, PodLeaves, Detach,
      Unguard

\* Between passes a node is only cordoned if it has a Job, or if a crash, a failed
\* uncordon or a failed Job creation left it so: a drain that fails, at whichever
\* node of the batch, takes back every cordon of its batch.
THEOREM CordonsAreTakenBack == Spec => []ParkedNodesAreSchedulable
<1>1. Init => Owned
  BY DEF Init, Owned
<1>2. Types /\ Owned => ParkedNodesAreSchedulable
  BY WorkingSteps, StepNames DEF Types, Stage, Owned, UnderDrain, ParkedNodesAreSchedulable
<1>3. Types /\ IsEmpty /\ [Next]_vars => IsEmpty'
  BY NextEmpty
<1> QED
  BY InitEmpty, TypesHold, NextOwned, <1>1, <1>2, <1>3, PTL DEF Spec
===============================================================================
