------------------------------ MODULE Preparation ------------------------------
(***************************************************************************)
(* What a TalosUpgrade pass does to nodes before it upgrades them: it      *)
(* pulls the installer image on every pending node, picks a batch, and     *)
(* drains it. The pull and the drain of a node take minutes each, and the  *)
(* rest of the cluster goes on meanwhile.                                  *)
(*                                                                         *)
(* status.phase, the gates between the pull and the drain, and what the    *)
(* Jobs do to a machine are TalosUpgrade's; here a gate ends the pass and  *)
(* a Job ends well.                                                        *)
(***************************************************************************)
EXTENDS NextBatch

CONSTANTS Images,             \* installer images a node may resolve to
          FirstImage,         \* what they resolve to at first
          NoImage,
          Old,                \* nodes before Talos 1.13, which cannot pull
          Pod,
          Nowhere,            \* where a pod is that does not exist
          Home,               \* the nodes a pod may run on
          OnCluster,          \* the pods that run on them at first
          Exempt,             \* DaemonSet and static pods, and the operator's own
          Claims,             \* pods with a volume
          Guarded,            \* pods their PodDisruptionBudget protects at first
          PrePullEnabled,            \* spec.talos.prePull
          DrainEnabled,              \* spec.drain.enabled
          WaitForVolumeDetach,       \* spec.policy.waitForVolumeDetach
          MaxChanges,         \* bound: new images and machines, upgrades by hand, resets
          MaxFaults           \* bound: failed calls and writes, time-outs, waits, crashes

ASSUME ImagesAssumption == FirstImage \in Images /\ NoImage \notin Images
ASSUME OldAssumption == Old \subseteq Node
ASSUME PodAssumption ==
    /\ Nowhere \notin Node
    /\ Home \in [Pod -> SUBSET Node] /\ OnCluster \subseteq Pod
    /\ \A p \in OnCluster : Home[p] # {}
    /\ Exempt \subseteq Pod /\ Claims \subseteq Pod /\ Guarded \subseteq Pod \ Exempt
ASSUME SpecAssumption ==
    {PrePullEnabled, DrainEnabled, WaitForVolumeDetach} \subseteq BOOLEAN
ASSUME BoundsAssumption == MaxChanges \in Nat /\ MaxFaults \in Nat

VARIABLES want,       \* the image a node resolves to
          machine,    \* a node's UID: which machine has its name
          store,      \* the images on that machine
          cordoned,   \* nodes with spec.unschedulable
          place,      \* where a pod is
          life,       \* "unborn", "running", "terminating" or "gone"
          attached,   \* pods whose volume is attached to their node
          guarded,    \* pods that may not be evicted now
          disableEviction,  \* spec.drain.disableEviction
          records,    \* status.prePulledNodes
          attempts,   \* status.prePullFailure.attempts, 0 without one
          step,       \* where the pass is
          queue,      \* the nodes it found to be upgraded
          todo,       \* the pulls it has yet to make
          pulled,     \* the records it has made of them
          image,      \* the image of each node of its batch
          drained,    \* the nodes of the batch it has drained
          volumes,    \* pods whose volumes the drain under way waits for
          evict,      \* pods it has yet to evict
          waitFor,    \* pods it waits for
          job,        \* the image of the Job of a node
          upgraded,   \* nodes at the target
          moved,      \* nodes whose image or machine changed in this pass
          redo,       \* nodes whose last pull is not on record
          unsaved,    \* was the end of the failure streak lost in this pass?
          evicted,    \* pods it has evicted
          timedOut,   \* nodes whose volumes the pass did not see detach
          abandoned,  \* nodes whose cordon the operator failed to take back
          changes, faults    \* how many there were

cluster == <<want, machine, store, upgraded>>
pods == <<place, life, attached, guarded>>
status == <<records, attempts>>
pull == <<queue, todo, pulled>>
drain == <<image, drained, volumes, evict, waitFor, evicted, timedOut>>
history == <<moved, redo, unsaved, abandoned>>
vars == <<cluster, cordoned, pods, disableEviction, status, step, pull, drain, job,
          history, changes, faults>>

-------------------------------------------------------------------------------
Draining == {"cordon", "volumes", "list", "evict", "empty", "detach", "create"}
Steps == {"idle", "pull", "record", "select"} \cup Draining
NoRecord == [machine |-> 0, image |-> NoImage]
Record == [machine : Nat, image : Images \cup {NoImage}]
Pending == Node \ upgraded
Batch == {n \in Node : image[n] # NoImage}
Jobs == {n \in Node : job[n] # NoImage}

\* The types of all the state.
TypeOK ==
    /\ want \in [Node -> Images] /\ machine \in [Node -> Nat \ {0}]
    /\ store \in [Node -> SUBSET Images]
    /\ cordoned \subseteq Node /\ upgraded \subseteq Node
    /\ place \in [Pod -> Node \cup {Nowhere}]
    /\ life \in [Pod -> {"unborn", "running", "terminating", "gone"}]
    /\ attached \subseteq Claims /\ guarded \subseteq Guarded
    /\ disableEviction \in BOOLEAN
    /\ records \in [Node -> Record] /\ pulled \in [Node -> Record]
    /\ attempts \in Nat
    /\ step \in Steps
    /\ todo \subseteq [node : Node, machine : Nat \ {0}, image : Images]
    /\ image \in [Node -> Images \cup {NoImage}] /\ job \in [Node -> Images \cup {NoImage}]
    /\ queue \subseteq Node /\ drained \subseteq Node /\ timedOut \subseteq Node
    /\ volumes \subseteq Claims /\ evict \subseteq Pod
    /\ waitFor \subseteq Pod /\ evicted \subseteq Pod
    /\ moved \subseteq Node /\ redo \subseteq Node /\ abandoned \subseteq Node
    /\ unsaved \in BOOLEAN
    /\ changes \in 0..MaxChanges /\ faults \in 0..MaxFaults

Init ==
    /\ want = [n \in Node |-> FirstImage]
    /\ machine = [n \in Node |-> 1] /\ store = [n \in Node |-> {}]
    /\ cordoned = {} /\ upgraded = {}
    /\ place \in [Pod -> Node \cup {Nowhere}]
    /\ \A p \in Pod : place[p] \in (IF p \in OnCluster THEN Home[p] ELSE {Nowhere})
    /\ life = [p \in Pod |-> IF p \in OnCluster THEN "running" ELSE "unborn"]
    /\ attached = Claims \cap OnCluster /\ guarded = Guarded
    /\ disableEviction \in BOOLEAN
    /\ records = [n \in Node |-> NoRecord] /\ attempts = 0
    /\ step = "idle" /\ queue = {} /\ todo = {} /\ pulled = records
    /\ image = [n \in Node |-> NoImage] /\ job = image
    /\ drained = {} /\ volumes = {} /\ evict = {} /\ waitFor = {}
    /\ evicted = {} /\ timedOut = {}
    /\ moved = {} /\ redo = {} /\ unsaved = FALSE /\ abandoned = {}
    /\ changes = 0 /\ faults = 0

Fault == faults < MaxFaults /\ faults' = faults + 1
FaultIf(lost) == IF lost THEN Fault ELSE UNCHANGED faults
Change == changes < MaxChanges /\ changes' = changes + 1

\* The pass returns. What it knows is forgotten.
EndPass ==
    /\ step' = "idle"
    /\ queue' = {} /\ todo' = {} /\ pulled' = [n \in Node |-> NoRecord]
    /\ image' = [n \in Node |-> NoImage]
    /\ drained' = {} /\ volumes' = {} /\ evict' = {} /\ waitFor' = {}
    /\ evicted' = {} /\ timedOut' = {}

Outside == UNCHANGED <<cluster, pods, disableEviction, changes>>

-------------------------------------------------------------------------------
(***************************************************************************)
(* prePullInstallerImages.                                                 *)
(***************************************************************************)
Entry(n) == [machine |-> machine[n], image |-> want[n]]
RecordedByName(n) == records[n].image = want[n]
Recorded(n) == records[n] = Entry(n)

ToPull == {[node |-> n, machine |-> machine[n], image |-> want[n]] :
              n \in {m \in Pending : ~Recorded(m)}}

\* clearPrePullFailure: a failed write leaves the streak for a later pass.
ClearFailure(lost) ==
    /\ attempts' = IF lost THEN attempts ELSE 0
    /\ unsaved' = (lost /\ attempts > 0)

KeepStreak(lost) == UNCHANGED <<attempts, unsaved>>
ClearLeftover(lost) == ClearFailure(lost)

\* A pass comes to the pull when no Job is active.
BeginPass ==
    /\ step = "idle" /\ Jobs = {} /\ Pending # {}
    /\ moved' = {} /\ queue' = Pending
    /\ \/ /\ PrePullEnabled /\ ToPull # {}
          /\ step' = "pull" /\ todo' = ToPull /\ pulled' = records
          /\ unsaved' = FALSE
          /\ UNCHANGED <<attempts, faults>>
       \/ /\ PrePullEnabled /\ ToPull = {}
          /\ step' = "select"
          /\ \E lost \in BOOLEAN : FaultIf(lost) /\ ClearLeftover(lost)
          /\ UNCHANGED <<todo, pulled>>
       \/ /\ ~PrePullEnabled
          /\ step' = "select"
          /\ UNCHANGED <<todo, pulled, attempts, unsaved, faults>>
    /\ Outside /\ UNCHANGED <<cordoned, records, drain, job, redo, abandoned>>

\* Pulls are made in queue order. The call goes to the node's address, whichever
\* machine answers there now. Every answer but an error is recorded, for the
\* machine the pass looked at.
IsNext(work) == work \in todo /\ \A other \in todo : work.node <= other.node
PullImage(work) ==
    /\ step = "pull" /\ IsNext(work)
    /\ store' = IF work.node \in Old THEN store
                ELSE [store EXCEPT ![work.node] = @ \cup {work.image}]
    /\ pulled' = [pulled EXCEPT ![work.node] =
                    [machine |-> work.machine, image |-> work.image]]
    /\ todo' = todo \ {work}
    /\ step' = IF todo' = {} THEN "record" ELSE "pull"
    /\ UNCHANGED <<want, machine, upgraded, pods, disableEviction, changes, cordoned,
                   status, queue, drain, job, history, faults>>

\* recordPrePulledNodes. The pulls of a write that is lost are made again.
RecordPulls(lost) ==
    /\ records' = IF lost THEN records ELSE pulled
    /\ redo' = IF lost THEN redo \cup {n \in Node : pulled[n] # records[n]}
               ELSE {n \in redo : pulled[n] = records[n]}

\* The pull fails: what was pulled before it is recorded, and the run parked.
RecordNothing(lost) == UNCHANGED <<records, redo>>
RecordProgress(lost) == RecordPulls(lost)
PullFails ==
    /\ step = "pull" /\ Fault
    /\ \E lost \in BOOLEAN :
         /\ lost => pulled # records
         /\ RecordProgress(lost)
    /\ attempts' \in {attempts + 1, attempts}
    /\ EndPass
    /\ Outside /\ UNCHANGED <<cordoned, job, moved, unsaved, abandoned>>

FinishPulls ==
    /\ step = "record" /\ step' = "select"
    /\ \E lost, kept \in BOOLEAN :
         /\ FaultIf(lost \/ kept)
         /\ RecordPulls(lost) /\ ClearFailure(kept)
    /\ pulled' = [n \in Node |-> NoRecord]
    /\ Outside /\ UNCHANGED <<cordoned, queue, todo, drain, job, moved, abandoned>>

-------------------------------------------------------------------------------
(***************************************************************************)
(* The batch and its drain.                                                *)
(***************************************************************************)
OwnsDrain == DrainEnabled \/ (WaitForVolumeDetach /\ N > 1)

\* nextBatch and buildBatchImages. The images are resolved once more.
SelectBatch ==
    /\ step = "select"
    /\ image' = [n \in Node |-> IF n \in NextBatchOf(queue) THEN want[n] ELSE NoImage]
    /\ step' = IF OwnsDrain THEN "cordon" ELSE "create"
    /\ Outside
    /\ UNCHANGED <<cordoned, status, pull, drained, volumes, evict, waitFor, evicted,
                   timedOut, job, history, faults>>

\* The node whose drain is under way.
Current == CHOOSE n \in Batch \ drained : \A m \in Batch \ drained : n <= m

\* A drain that fails takes back the cordons of the batch so far, its own among
\* them. A failed uncordon is only logged.
RollbackDrained == drained
RollbackSet == drained \cup {Current}
DrainFails(failed) ==
    \E kept \in SUBSET RollbackSet :
       /\ faults + (IF failed THEN 1 ELSE 0) + Cardinality(kept) <= MaxFaults
       /\ faults' = faults + (IF failed THEN 1 ELSE 0) + Cardinality(kept)
       /\ cordoned' = cordoned \ (RollbackSet \ kept)
       /\ abandoned' = (abandoned \ RollbackSet) \cup (kept \cap cordoned)
       /\ EndPass
       /\ Outside /\ UNCHANGED <<status, job, moved, redo, unsaved>>

Go(next) ==
    /\ step' = next
    /\ Outside /\ UNCHANGED <<status, pull, image, job, moved, redo, unsaved>>

CordonNode ==
    /\ step = "cordon"
    /\ cordoned' = cordoned \cup {Current}
    /\ Go("volumes")
    /\ UNCHANGED <<drained, volumes, evict, waitFor, evicted, timedOut, abandoned, faults>>

On(n) == {p \in Pod : place[p] = n /\ life[p] \in {"running", "terminating"}}
DrainManaged(n) == On(n) \ Exempt
Terminating == {p \in Pod : life[p] = "terminating"}
Evictable(n) == DrainManaged(n) \ Terminating

\* EvictableVolumePVs. An error skips the wait for volumes.
LookUpVolumes ==
    /\ step = "volumes"
    /\ \/ /\ volumes' = Evictable(Current) \cap Claims
          /\ UNCHANGED <<timedOut, faults>>
       \/ Fault /\ volumes' = {} /\ timedOut' = timedOut \cup {Current}
    /\ Go("list")
    /\ UNCHANGED <<cordoned, drained, evict, waitFor, evicted, abandoned>>

\* DrainNode lists the pods once. Those already terminating are waited for too.
SeenEvictable(n) == Evictable(n)
Seen(n) == DrainManaged(n)
ListPods ==
    /\ step = "list"
    /\ evict' = Evictable(Current) /\ waitFor' = Seen(Current)
    /\ Go("evict")
    /\ UNCHANGED <<cordoned, drained, volumes, evicted, timedOut, abandoned, faults>>

\* RespectPDBs: without it a pod whose eviction is refused is deleted.
RespectPDBsAlways == TRUE
RespectPDBs == ~disableEviction
EvictPod(p) ==
    /\ step = "evict" /\ p \in evict
    /\ IF p \notin On(Current) \/ (p \in guarded /\ RespectPDBs)
       THEN DrainFails(FALSE)
       ELSE /\ life' = [life EXCEPT ![p] = "terminating"]
            /\ evict' = evict \ {p} /\ evicted' = evicted \cup {p}
            /\ UNCHANGED <<place, attached, guarded, cluster, cordoned, disableEviction,
                           status, step, pull, image, drained, volumes, waitFor,
                           timedOut, job, history, changes, faults>>

EvictedAll ==
    /\ step = "evict" /\ evict = {}
    /\ Go("empty")
    /\ UNCHANGED <<cordoned, drained, volumes, evict, waitFor, evicted, timedOut, abandoned,
                   faults>>

NodeDrained ==
    /\ drained' = drained \cup {Current}
    /\ volumes' = {} /\ waitFor' = {} /\ UNCHANGED <<evict, evicted>>
    /\ Go(IF drained' = Batch THEN "create" ELSE "cordon")

PodsLeft ==
    /\ step = "empty" /\ waitFor \cap On(Current) = {}
    /\ Go("detach")
    /\ UNCHANGED <<cordoned, drained, volumes, evict, waitFor, evicted, timedOut, abandoned,
                   faults>>

AttachedTo(n) == {p \in attached : place[p] = n}

\* WaitForVolumeDetach, which is best effort.
DetachedWithPods(n) == volumes \cap On(n) = {}
Detached(n) == volumes \cap AttachedTo(n) = {}
VolumesDetached ==
    /\ step = "detach" /\ Detached(Current)
    /\ NodeDrained
    /\ UNCHANGED <<cordoned, timedOut, abandoned, faults>>
VolumesTimeOut ==
    /\ step = "detach" /\ ~Detached(Current)
    /\ timedOut' = timedOut \cup {Current}
    /\ NodeDrained
    /\ UNCHANGED <<cordoned, abandoned, faults>>

\* Any call of a drain may fail, and the wait for its pods may take too long.
DrainError == step \in {"cordon", "list", "evict", "empty"} /\ DrainFails(TRUE)

\* A node may stay drained without a Job: the pass stops at the first error.
CreateJobs ==
    /\ step = "create"
    /\ \/ job' = image /\ UNCHANGED <<abandoned, faults>>
       \/ /\ Fault
          /\ \E made \in SUBSET Batch :
               /\ \A m \in made, n \in Batch : n < m => n \in made
               /\ job' = [n \in Node |-> IF n \in made THEN image[n] ELSE NoImage]
          /\ abandoned' = abandoned \cup {m \in Batch \cap cordoned : job'[m] = NoImage}
    /\ EndPass
    /\ Outside /\ UNCHANGED <<cordoned, status, moved, redo, unsaved>>

\* A read fails, an image is not served yet, or another gate holds the run back.
HoldBack ==
    /\ step = "select" /\ Fault
    /\ EndPass
    /\ Outside /\ UNCHANGED <<cordoned, status, job, history>>

\* A verified node is uncordoned. A failed uncordon is not tried again.
FinishJob(n) ==
    /\ step = "idle" /\ n \in Jobs
    /\ job' = [job EXCEPT ![n] = NoImage]
    /\ upgraded' = upgraded \cup {n}
    /\ \E lost \in BOOLEAN :
         /\ FaultIf(lost)
         /\ cordoned' = IF lost THEN cordoned ELSE cordoned \ {n}
         /\ abandoned' = IF lost THEN abandoned \cup ({n} \cap cordoned)
                         ELSE abandoned \ {n}
    /\ UNCHANGED <<want, machine, store, pods, disableEviction, status, step, pull,
                   drain, moved, redo, unsaved, changes>>

Crash ==
    /\ step # "idle" /\ Fault
    /\ redo' = redo \cup {n \in Node : step \in {"pull", "record"} /\ pulled[n] # records[n]}
    /\ abandoned' = abandoned \cup (Batch \cap cordoned)
    /\ EndPass
    /\ Outside /\ UNCHANGED <<cordoned, status, job, moved, unsaved>>

\* A pass finds the reset annotation, or starts a completed run over: what was
\* pulled is forgotten.
ResetRun ==
    /\ step = "idle" /\ Change
    /\ records' = [n \in Node |-> NoRecord] /\ attempts' = 0
    /\ redo' = Node
    /\ UNCHANGED <<cluster, cordoned, pods, disableEviction, step, pull, drain, job, moved,
                   unsaved, abandoned, faults>>

-------------------------------------------------------------------------------
(***************************************************************************)
(* Nodes, pods and volumes meanwhile.                                      *)
(***************************************************************************)
Operator == <<disableEviction, status, step, pull, drain, job, redo, unsaved>>

\* An annotation or the machine config changes what a node resolves to.
ChangeImage(n) ==
    /\ Change
    /\ want' \in {[want EXCEPT ![n] = i] : i \in Images \ {want[n]}}
    /\ moved' = moved \cup {n}
    /\ UNCHANGED <<machine, store, upgraded, cordoned, pods, Operator, abandoned, faults>>

\* A new machine joins under the name of a node that is left.
ReplaceNode(n) ==
    /\ n \notin Jobs \cup upgraded /\ Change
    /\ machine' = [machine EXCEPT ![n] = @ + 1]
    /\ store' = [store EXCEPT ![n] = {}]
    /\ cordoned' = cordoned \ {n} /\ abandoned' = abandoned \ {n}
    /\ life' = [p \in Pod |-> IF p \in On(n) THEN "gone" ELSE life[p]]
    /\ moved' = moved \cup {n}
    /\ UNCHANGED <<want, upgraded, place, attached, guarded, Operator, faults>>

\* Somebody upgrades a node by hand.
UpgradeOutOfBand(n) ==
    /\ n \notin Jobs \cup upgraded /\ Change
    /\ upgraded' = upgraded \cup {n}
    /\ UNCHANGED <<want, machine, store, cordoned, pods, Operator, moved, abandoned,
                   faults>>

ByCluster == UNCHANGED <<cluster, cordoned, Operator, moved, abandoned, changes, faults>>

\* The scheduler keeps away from cordoned nodes.
StartPod(p) ==
    /\ life[p] = "unborn"
    /\ \E n \in Home[p] \ cordoned : place' = [place EXCEPT ![p] = n]
    /\ life' = [life EXCEPT ![p] = "running"]
    /\ attached' = attached \cup ({p} \cap Claims)
    /\ ByCluster /\ UNCHANGED guarded

\* A rollout or its owner deletes it.
StopPod(p) ==
    /\ life[p] = "running" /\ p \notin Exempt
    /\ life' = [life EXCEPT ![p] = "terminating"]
    /\ ByCluster /\ UNCHANGED <<place, attached, guarded>>

PodLeaves(p) ==
    /\ life[p] = "terminating"
    /\ life' = [life EXCEPT ![p] = "gone"]
    /\ ByCluster /\ UNCHANGED <<place, attached, guarded>>

Detach(p) ==
    /\ p \in attached /\ life[p] = "gone"
    /\ attached' = attached \ {p}
    /\ ByCluster /\ UNCHANGED <<place, life, guarded>>

\* The budget allows the disruption, as when a replica has become ready elsewhere.
Unguard ==
    /\ guarded # {} /\ guarded' = {}
    /\ ByCluster /\ UNCHANGED <<place, life, attached>>

Done == upgraded = Node /\ step = "idle" /\ UNCHANGED vars

Proceed ==
    \/ BeginPass \/ FinishPulls \/ SelectBatch
    \/ CordonNode \/ LookUpVolumes \/ ListPods \/ \E p \in Pod : EvictPod(p)
    \/ EvictedAll \/ PodsLeft \/ VolumesDetached \/ VolumesTimeOut \/ CreateJobs
    \/ (\E work \in todo : PullImage(work)) \/ \E n \in Node : FinishJob(n)

Environment ==
    \/ \E n \in Node : ChangeImage(n) \/ ReplaceNode(n) \/ UpgradeOutOfBand(n)
    \/ \E p \in Pod : StartPod(p) \/ StopPod(p) \/ PodLeaves(p) \/ Detach(p)
    \/ Unguard

Next ==
    \/ Proceed \/ PullFails \/ DrainError \/ HoldBack \/ Crash \/ ResetRun
    \/ Environment \/ Done

Spec == Init /\ [][Next]_vars

\* The operator retries, Jobs end, and a pod that is told to leaves in the end.
FairSpec ==
    /\ Spec /\ WF_vars(Proceed)
    /\ WF_vars(\E p \in Pod : PodLeaves(p))

-------------------------------------------------------------------------------
(***************************************************************************)
(* Properties.                                                             *)
(***************************************************************************)
\* "Before the first node is cordoned" every node still to upgrade holds its
\* image, whatever was recorded by earlier passes, lost, or replaced since: the
\* exceptions are nodes that cannot pull and nodes that changed in this pass.
FleetIsWarm ==
    PrePullEnabled /\ step \in Draining
        => \A n \in queue \ (Old \cup moved) : want[n] \in store[n]

\* A pull that succeeded is not made again because another node's failed.
PullsResume ==
    step = "pull"
        => \A work \in todo :
              work.node \notin Old \cup redo /\ records[work.node] = NoRecord
                  => work.image \notin store[work.node]

\* No streak of failures outlasts the pass that ended it, unless its write is
\* lost: the failing node may also have left the pending nodes.
StreakEnds ==
    PrePullEnabled /\ step \in Draining /\ ~unsaved => attempts = 0

\* A node is empty when its Job starts and stays so: no pod the drain must move
\* is left from before it, from a drain that timed out, or since.
DrainedNodesAreEmpty ==
    OwnsDrain => \A n \in (drained \cup Jobs) \ moved : DrainManaged(n) = {}

\* No volume of a pod the pass evicted is still attached once its node counts as
\* drained, unless the wait for it took too long.
EvictedVolumesDetach ==
    \A n \in drained \ (moved \cup timedOut) : AttachedTo(n) \cap evicted = {}

\* Between passes no pending node is left cordoned without a Job, but for those
\* a crash, a failed uncordon or a failed Job creation left behind.
ParkedNodesAreSchedulable ==
    step = "idle" => cordoned \subseteq Jobs \cup abandoned

\* A drain that fails is tried again until every node has had its upgrade: no
\* pod, record or cordon of a failed attempt stands in the way.
EveryNodeUpgrades ==
    (<>[](disableEviction \/ guarded = {})) => <>(upgraded = Node)
===============================================================================
