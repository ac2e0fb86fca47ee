--------------------------- MODULE KubernetesUpgrade ---------------------------
(***************************************************************************)
(* The KubernetesUpgrade resource of a cluster, its reconciler, and what   *)
(* the reconciler acts on: upgrade Jobs, the API server and the kubelets.  *)
(*                                                                         *)
(* One Job upgrades the whole cluster: talosctl upgrade-k8s, started on a  *)
(* control-plane node. Which node that is does not matter here. The Job is *)
(* found again by its label, never by its name, which is random.           *)
(*                                                                         *)
(* A pass of the reconciler is one action, except a pass that gets to the  *)
(* health checks. These take seconds, and once more between its look at    *)
(* the window and the Job the pass lists nodes and asks a machine for its  *)
(* version: the window, the users and the cluster move on while it keeps   *)
(* what it has read ("checking").                                          *)
(*                                                                         *)
(* Left out: audit trail, failure streak of the health checks, conditions  *)
(* (Progressing follows the phase), events, metrics and the Job's pod.     *)
(***************************************************************************)
EXTENDS JobPhase, Naturals, FiniteSets

CONSTANTS Node, ControlPlane,
          LateNodes,            \* nodes that join after the start
          FirstTarget,          \* the version the resource is created with
          Targets,              \* the versions the spec may ask for
          MaxCompletionCycles,  \* upgradeaudit.MaxCompletionCycles
          UserActions,          \* what users do: "suspend", "reset", "edit"
          MaxGeneration,        \* bound: spec generations
          MaxJobs,              \* bound: Jobs that exist at the same time
          MaxFaults             \* bound: failed calls and crashes

\* The cluster starts with a control-plane node.
ASSUME NodesAssumption == /\ ControlPlane \subseteq Node /\ LateNodes \subseteq Node
                          /\ ControlPlane \ LateNodes # {}
ASSUME TargetsAssumption == FirstTarget \in Targets /\ Targets \subseteq Nat
ASSUME BoundsAssumption == /\ MaxCompletionCycles \in Nat
                           /\ MaxGeneration \in Nat \ {0}
                           /\ MaxJobs \in Nat \ {0}
                           /\ MaxFaults \in Nat

VARIABLES spec,        \* metadata.generation and the target version
          annotation,  \* the suspend and reset annotations
          status,      \* the status subresource
          checking,    \* what the pass at the health checks has read, and
                       \* whether it has since found the window open
          job,         \* the Jobs with the label of Kubernetes upgrades
          seen,        \* finished Jobs a pass has looked at
          joined,      \* the nodes of the cluster
          reported,    \* the nodes whose kubelet has reported its version
          kubelet,     \* the kubelet version of each machine
          apiServer,   \* the version the API server reports
          windowOpen,  \* does maintenance.CheckWindow allow the run now?
          otherActive, \* does a TalosUpgrade block this one?
          lateStarts,  \* history: Jobs created since the window closed
          faults       \* how many faults have happened

jobs == <<job, seen>>
cluster == <<joined, reported, kubelet, apiServer>>
gates == <<windowOpen, otherActive, lateStarts>>
users == <<spec, annotation>>
vars == <<status, checking, faults, jobs, cluster, gates, users>>

-------------------------------------------------------------------------------
\* Versions: 0 is what the cluster runs at the start.
Version == {0} \cup Targets

Slot == 1..MaxJobs
JobState == {"none", "running", "succeeded", "failed"}
NoJob == [state |-> "none", target |-> 0, cycle |-> 0, scope |-> {}, answered |-> TRUE]
Running(j) == job[j].state = "running"
Finished(j) == job[j].state \in {"succeeded", "failed"}

\* No pass is at the health checks.
NoPass == [generation |-> 0, target |-> 0, cleared |-> FALSE]

Status == [phase : Phase, observed : 0..MaxGeneration, cycles : 0..MaxCompletionCycles]

\* The types of all the state. A Job knows its --to version, the completion
\* cycle it was created in, the nodes talosctl found when it started, and
\* whether the reconciler got an answer to its creation.
TypeOK ==
    /\ spec \in [generation : 1..MaxGeneration, target : Targets]
    /\ annotation \in [suspend : BOOLEAN, reset : BOOLEAN]
    /\ status \in Status
    /\ checking \in [generation : 0..MaxGeneration, target : Version,
                     cleared : BOOLEAN]
    /\ job \in [Slot -> [state : JobState, target : Version,
                         cycle : 0..MaxCompletionCycles, scope : SUBSET Node,
                         answered : BOOLEAN]]
    /\ seen \in SUBSET Slot
    /\ joined \in SUBSET Node
    /\ reported \in SUBSET Node
    /\ kubelet \in [Node -> Version]
    /\ apiServer \in Version
    /\ windowOpen \in BOOLEAN
    /\ otherActive \in BOOLEAN
    /\ lateStarts \in Nat
    /\ faults \in 0..MaxFaults

Init ==
    /\ spec = [generation |-> 1, target |-> FirstTarget]
    /\ annotation = [suspend |-> FALSE, reset |-> FALSE]
    /\ status = [phase |-> NoPhase, observed |-> 0, cycles |-> 0]
    /\ checking = NoPass
    /\ job = [j \in Slot |-> NoJob]
    /\ seen = {}
    /\ joined = Node \ LateNodes
    /\ reported = Node \ LateNodes
    /\ kubelet = [n \in Node |-> 0]
    /\ apiServer = 0
    /\ windowOpen \in BOOLEAN
    /\ otherActive \in BOOLEAN
    /\ lateStarts = 0
    /\ faults = 0

-------------------------------------------------------------------------------
(***************************************************************************)
(* What a pass reads.                                                      *)
(***************************************************************************)
Idle == checking = NoPass

\* Neither annotation is set and the status has seen the latest spec.
Settled ==
    /\ Idle
    /\ ~annotation.suspend
    /\ ~annotation.reset
    /\ status.observed = spec.generation

Working == Settled /\ ~IsTerminal(status.phase)

\* Past the window and coordination checks, which an active run skips.
Admitted == Working /\ (IsActive(status.phase) \/ (windowOpen /\ ~otherActive))

\* findActiveJob: the Jobs that exist, finished or not. Two of them would be an
\* error; OneJobAtATime says that they are never there.
ListedByPhase == {j \in Slot : job[j] # NoJob /\ status.phase = "Upgrading"}
ListedFinished == {j \in Slot : Finished(j)}
Listed == {j \in Slot : job[j] # NoJob}
Found(j) == Admitted /\ Listed = {j}

\* areAllNodesUpgraded skips a kubelet that has not reported yet;
\* areAllControlPlaneNodesUpgraded does not.
Lagging == {n \in joined \cap reported : kubelet[n] # spec.target}
ControlPlaneTrusted == TRUE
ControlPlaneUpgraded ==
    \A c \in joined \cap ControlPlane : c \in reported /\ kubelet[c] = spec.target

-------------------------------------------------------------------------------
(***************************************************************************)
(* What a pass writes.                                                     *)
(***************************************************************************)
\* Every status write stamps the generation its pass has read.
Written(p, generation) == [status EXCEPT !.phase = p, !.observed = generation]
InPhase(p) == Written(p, spec.generation)

\* The cleared status of a run that starts over.
RestartedUnobserved(cycles) ==
    [phase |-> "Pending", observed |-> status.observed, cycles |-> cycles]
Restarted(cycles) ==
    [phase |-> "Pending", observed |-> spec.generation, cycles |-> cycles]

Fault == faults < MaxFaults /\ faults' = faults + 1

\* A pass that writes nothing but the status.
WriteStatus(s) ==
    /\ status' = s
    /\ UNCHANGED <<checking, faults, jobs, cluster, gates, users>>

\* Foreground deletion: a deleted Job may still be listed until it is gone, as
\* it is when the deletion fails, which is only logged.
Cleanup(j) == job' \in {job, [job EXCEPT ![j] = NoJob]}

-------------------------------------------------------------------------------
(***************************************************************************)
(* The passes before any upgrade work.                                     *)
(***************************************************************************)
PassSuspended ==
    /\ Idle
    /\ annotation.suspend
    /\ WriteStatus(InPhase("Pending"))

\* The annotation goes first. When the status write is lost, so is the reset.
PassReset ==
    /\ Idle
    /\ ~annotation.suspend
    /\ annotation.reset
    /\ annotation' = [annotation EXCEPT !.reset = FALSE]
    /\ \/ status' = Restarted(0) /\ UNCHANGED faults
       \/ Fault /\ UNCHANGED status
    /\ UNCHANGED <<spec, checking, jobs, cluster, gates>>

PassSpecChange ==
    /\ Idle
    /\ ~annotation.suspend
    /\ ~annotation.reset
    /\ status.observed < spec.generation
    /\ WriteStatus(Restarted(0))

\* A completed run looks at the nodes again; a failed one does nothing.
RecheckNever == FALSE
Recheck == Settled /\ status.phase = "Completed"

CyclesLeftOffByOne == status.cycles <= MaxCompletionCycles
CyclesLeft == status.cycles < MaxCompletionCycles

RestartCampaign ==
    /\ Recheck
    /\ Lagging # {}
    /\ CyclesLeft
    /\ WriteStatus(Restarted(status.cycles + 1))

GiveUp ==
    /\ Recheck
    /\ Lagging # {}
    /\ ~CyclesLeft
    /\ WriteStatus(InPhase("Failed"))

ParkOutsideWindow ==
    /\ Working
    /\ ~IsActive(status.phase)
    /\ ~windowOpen
    /\ WriteStatus(InPhase("MaintenanceWindow"))

WaitForOtherUpgrade ==
    /\ Working
    /\ ~IsActive(status.phase)
    /\ windowOpen
    /\ otherActive
    /\ WriteStatus(InPhase("Pending"))

-------------------------------------------------------------------------------
(***************************************************************************)
(* The Job a pass has found.                                               *)
(***************************************************************************)
Look == seen' = {j \in Listed : Finished(j)}

FollowJob(j) ==
    /\ Found(j)
    /\ Running(j)
    /\ WriteStatus(InPhase("Upgrading"))

\* A list of Jobs or nodes fails: the error is reported as Pending.
ReadFails ==
    /\ Admitted \/ Recheck
    /\ Fault
    /\ status' = InPhase("Pending")
    /\ UNCHANGED <<checking, jobs, cluster, gates, users>>

\* A run whose Job succeeded is completed when the control plane is at the
\* target. The Job is left to its TTL.
CompleteWithJob(j) ==
    /\ Found(j)
    /\ job[j].state = "succeeded"
    /\ ControlPlaneUpgraded
    /\ Look
    /\ status' = InPhase("Completed")
    /\ UNCHANGED <<checking, faults, job, cluster, gates, users>>

\* Otherwise the Job is deleted and the run goes on with another one. The
\* status write may be lost.
ContinueAfterJob(j) ==
    /\ Found(j)
    /\ job[j].state = "succeeded"
    /\ ~ControlPlaneUpgraded
    /\ Look
    /\ Cleanup(j)
    /\ \/ status' = InPhase("Upgrading") /\ UNCHANGED faults
       \/ Fault /\ UNCHANGED status
    /\ UNCHANGED <<checking, cluster, gates, users>>

FailWithJob(j) ==
    /\ Found(j)
    /\ job[j].state = "failed"
    /\ Look
    /\ Cleanup(j)
    /\ status' = InPhase("Failed")
    /\ UNCHANGED <<checking, faults, cluster, gates, users>>

-------------------------------------------------------------------------------
(***************************************************************************)
(* No Job: the run is over, or a Job is started.                           *)
(***************************************************************************)

\* Every node is at the target, and so is the API server. While it reports
\* another version the pass only comes back later.
CompleteWithoutJob ==
    /\ Admitted
    /\ Listed = {}
    /\ Lagging = {}
    /\ apiServer = spec.target
    /\ WriteStatus(InPhase("Completed"))

BeginHealthChecks ==
    /\ Admitted
    /\ Listed = {}
    /\ Lagging # {}
    /\ checking' = [generation |-> spec.generation, target |-> spec.target,
                    cleared |-> FALSE]
    /\ UNCHANGED <<status, faults, jobs, cluster, gates, users>>

\* The rest of the pass knows the spec it has read. No other pass comes between.
AfterChecks(s) ==
    /\ ~Idle
    /\ checking' = NoPass
    /\ status' = s
    /\ UNCHANGED <<seen, cluster, users>>
PassPhase(p) == Written(p, checking.generation)

HealthChecksFail ==
    /\ ~checking.cleared
    /\ AfterChecks(PassPhase("HealthChecking"))
    /\ UNCHANGED <<faults, job, gates>>

\* The checks may have outlasted the window.
WindowNotRechecked == FALSE
WindowClosed == ~windowOpen
ParkAfterChecks ==
    /\ ~checking.cleared
    /\ WindowClosed
    /\ AfterChecks(PassPhase("MaintenanceWindow"))
    /\ UNCHANGED <<faults, job, gates>>

\* The checks have passed, which is written or lost, and the window is open. From
\* here to the creation of the Job the pass does not look at it again.
ClearForStart ==
    /\ ~Idle
    /\ ~checking.cleared
    /\ ~WindowClosed
    /\ checking' = [checking EXCEPT !.cleared = TRUE]
    /\ \/ status' = PassPhase("HealthChecking") /\ UNCHANGED faults
       \/ Fault /\ UNCHANGED status
    /\ UNCHANGED <<jobs, cluster, gates, users>>

\* Slots stand for the Jobs' random names; a new Job takes the first free one.
CreateJob(j, answered) ==
    /\ checking.cleared
    /\ job[j] = NoJob
    /\ \A i \in Slot : i < j => job[i] # NoJob
    /\ job' = [job EXCEPT ![j] = [state |-> "running", target |-> checking.target,
                                  cycle |-> status.cycles, scope |-> joined,
                                  answered |-> answered]]
    /\ lateStarts' = IF windowOpen THEN 0 ELSE lateStarts + 1
    /\ UNCHANGED <<windowOpen, otherActive>>

\* The Job is created, then the phase is written, which may be lost.
StartUpgrade(j) ==
    /\ CreateJob(j, TRUE)
    /\ \/ AfterChecks(PassPhase("Upgrading")) /\ UNCHANGED faults
       \/ AfterChecks(status) /\ Fault

\* No control-plane node has an address, its talosctl version is unknown, or
\* the Job is refused.
StartFails ==
    /\ checking.cleared
    /\ AfterChecks(PassPhase("Failed"))
    /\ Fault
    /\ UNCHANGED <<job, gates>>

\* The Job is created, but the answer is lost: the code takes it for refused.
StartUnanswered(j) ==
    /\ CreateJob(j, FALSE)
    /\ AfterChecks(PassPhase("Failed"))
    /\ Fault

CrashInChecks ==
    /\ AfterChecks(status)
    /\ Fault
    /\ UNCHANGED <<job, gates>>

-------------------------------------------------------------------------------
(***************************************************************************)
(* The cluster. talosctl upgrades the API server first, the kubelets last, *)
(* and fails at any point.                                                 *)
(***************************************************************************)
OnlyJob == UNCHANGED <<status, checking, faults, cluster, gates, users>>
JobActs(j, s) == job' = [job EXCEPT ![j].state = s] /\ UNCHANGED seen

UpgradeApiServer(j) ==
    /\ Running(j)
    /\ apiServer # job[j].target
    /\ apiServer' = job[j].target
    /\ UNCHANGED <<status, checking, faults, jobs, joined, reported, kubelet, gates, users>>

UpgradeKubelet(j, n) ==
    /\ Running(j)
    /\ apiServer = job[j].target
    /\ n \in job[j].scope
    /\ kubelet[n] # job[j].target \/ n \notin reported
    /\ kubelet' = [kubelet EXCEPT ![n] = job[j].target]
    /\ reported' = reported \cup {n}
    /\ UNCHANGED <<status, checking, faults, jobs, joined, apiServer, gates, users>>

JobSucceeds(j) ==
    /\ Running(j)
    /\ apiServer = job[j].target
    /\ \A n \in job[j].scope : kubelet[n] = job[j].target
    /\ JobActs(j, "succeeded") /\ OnlyJob

JobFails(j) == Running(j) /\ JobActs(j, "failed") /\ OnlyJob

\* ttlSecondsAfterFinished. A pass that looks at Jobs comes within the TTL,
\* other passes may not.
JobExpires(j) ==
    /\ Finished(j)
    /\ j \in seen \/ ~Admitted
    /\ job' = [job EXCEPT ![j] = NoJob]
    /\ seen' = seen \ {j}
    /\ OnlyJob

\* A machine joins with the kubelet of its own machine configuration.
NodeJoins(n) ==
    /\ n \in LateNodes \ joined
    /\ joined' = joined \cup {n}
    /\ kubelet' \in {[kubelet EXCEPT ![n] = v] : v \in {0, spec.target}}
    /\ UNCHANGED <<status, checking, faults, jobs, reported, apiServer, gates, users>>

NodeReports(n) ==
    /\ n \in joined \ reported
    /\ reported' = reported \cup {n}
    /\ UNCHANGED <<status, checking, faults, jobs, joined, kubelet, apiServer, gates, users>>

GatesMove ==
    /\ windowOpen' \in BOOLEAN
    /\ otherActive' \in BOOLEAN
    /\ lateStarts' = IF windowOpen' THEN 0 ELSE lateStarts
    /\ UNCHANGED <<status, checking, faults, jobs, cluster, users>>

-------------------------------------------------------------------------------
(***************************************************************************)
(* The users.                                                              *)
(***************************************************************************)
OnlyUsers == UNCHANGED <<status, checking, faults, jobs, cluster, gates>>

ToggleSuspend ==
    /\ "suspend" \in UserActions
    /\ annotation' = [annotation EXCEPT !.suspend = ~@]
    /\ UNCHANGED spec /\ OnlyUsers

RequestReset ==
    /\ "reset" \in UserActions
    /\ ~annotation.reset
    /\ annotation' = [annotation EXCEPT !.reset = TRUE]
    /\ UNCHANGED spec /\ OnlyUsers

\* The webhook refuses an edit while the upgrade is in progress.
EditSpec ==
    /\ "edit" \in UserActions
    /\ ~IsInFlight(status.phase)
    /\ spec.generation < MaxGeneration
    /\ \E v \in Targets : spec' = [generation |-> spec.generation + 1, target |-> v]
    /\ UNCHANGED annotation /\ OnlyUsers

-------------------------------------------------------------------------------
Gates ==
    \/ PassSuspended \/ PassReset \/ PassSpecChange
    \/ RestartCampaign \/ GiveUp \/ ParkOutsideWindow \/ WaitForOtherUpgrade
HandleJob ==
    \/ \E j \in Slot :
          FollowJob(j) \/ CompleteWithJob(j) \/ ContinueAfterJob(j) \/ FailWithJob(j)
    \/ ReadFails
WithoutJob ==
    \/ CompleteWithoutJob \/ BeginHealthChecks \/ HealthChecksFail \/ ParkAfterChecks
    \/ ClearForStart
    \/ \E j \in Slot : StartUpgrade(j) \/ StartUnanswered(j)
    \/ StartFails \/ CrashInChecks
Cluster ==
    \/ \E j \in Slot :
          \/ UpgradeApiServer(j) \/ JobSucceeds(j) \/ JobFails(j) \/ JobExpires(j)
          \/ \E n \in Node : UpgradeKubelet(j, n)
    \/ \E n \in Node : NodeJoins(n) \/ NodeReports(n)
    \/ GatesMove
Users == ToggleSuspend \/ RequestReset \/ EditSpec

Next == Gates \/ HandleJob \/ WithoutJob \/ Cluster \/ Users

Spec == Init /\ [][Next]_vars

\* Passes keep coming, health checks, windows and other upgrades do not hold up
\* every one of them, Jobs end and expire, and kubelets report. Nothing is
\* assumed of users and faults.
Begins == PassReset \/ PassSpecChange \/ RestartCampaign \/ GiveUp
Proceeds ==
    \/ CompleteWithoutJob \/ BeginHealthChecks
    \/ \E j \in Slot : CompleteWithJob(j) \/ ContinueAfterJob(j) \/ FailWithJob(j)
Fairness ==
    /\ WF_vars(Begins) /\ SF_vars(Proceeds)
    /\ WF_vars(HealthChecksFail) /\ SF_vars(ClearForStart)
    /\ WF_vars(\E j \in Slot : StartUpgrade(j))
    /\ WF_vars(\E j \in Slot : JobSucceeds(j) \/ JobFails(j))
    /\ WF_vars(\E j \in Slot : JobExpires(j))
    /\ WF_vars(\E n \in Node : NodeReports(n))
    /\ WF_vars(GatesMove /\ windowOpen' /\ ~otherActive')
    /\ SF_vars(GatesMove /\ ~Idle /\ windowOpen')

FairSpec == Spec /\ Fairness

-------------------------------------------------------------------------------
(***************************************************************************)
(* Properties.                                                             *)
(***************************************************************************)
\* At most one talosctl upgrade-k8s at a time: suspends, resets, edits, crashes
\* and lost phase writes never lead to a second Job.
OneJobAtATime == \A i, j \in Slot : job[i] # NoJob /\ job[j] # NoJob => i = j

\* A run reported as over has no Job left that may still change the cluster, but
\* for a failed run whose Job was created without an answer.
EndedRunIsIdle ==
    IsTerminal(status.phase) =>
        \A j \in Slot : Running(j) => status.phase = "Failed" /\ ~job[j].answered

Completes == status.phase # "Completed" /\ status'.phase = "Completed"
TargetReached ==
    /\ apiServer = spec.target
    /\ \A c \in joined \cap ControlPlane : c \in reported => kubelet[c] = spec.target

\* A run completes only when the API server has the target version too, although
\* the pass that finds a successful Job looks at the kubelets alone.
CompletesAtTarget == [][Completes => TargetReached]_vars

\* After the window has closed at most one Job still starts, that of the pass which
\* was past its last look: however the run goes on, also as an active one that
\* skips the first look of its passes, the next Job waits for the window.
OneLateStart == lateStarts <= 1

\* Left alone, a run ends, and so does one restarted for a late node.
Undisturbed == ~annotation.suspend /\ ~annotation.reset
RunEnds == <>[]Undisturbed => (~IsTerminal(status.phase) ~> IsTerminal(status.phase))

\* A kubelet that lags is brought to the target or the run is Failed.
LagResolves == <>[]Undisturbed => (Lagging # {} ~> Lagging = {} \/ status.phase = "Failed")

-------------------------------------------------------------------------------
(***************************************************************************)
(* What the documentation says and the code does not do in every case.     *)
(***************************************************************************)
\* "A completed run re-opened because a node still lags": what completes the
\* re-opened run is a Job of its own, not the one of the cycle before.
ReopenedRunHasOwnJob ==
    [][Completes =>
        \A j \in Slot : job[j].state = "succeeded" => job[j].cycle = status.cycles]_vars
===============================================================================
