----------------------------- MODULE TalosUpgrade -----------------------------
(***************************************************************************)
(* One TalosUpgrade resource, the reconciler that drives it, and the       *)
(* cluster the reconciler acts on: Jobs, Nodes and the maintenance window. *)
(*                                                                         *)
(* A pass of the reconciler is one action: it reads the resource and the   *)
(* cluster once and leaves by one of processUpgrade's returns. Passes of   *)
(* every TalosUpgrade share a single worker, so two passes never overlap;  *)
(* Jobs, nodes, time and users act between passes. Only a pass that drains *)
(* a batch takes minutes, and is cut at the drain. A pass writes several   *)
(* API objects one after the other. Where a write may fail, or the process *)
(* may die, between two of them the prefix that landed is an action of its *)
(* own that spends one of MaxFaults faults.                                *)
(*                                                                         *)
(* Left out: alert silences, installer pre-pull bookkeeping, the audit     *)
(* trail, taints, metrics and events. Their effect on control is kept: a   *)
(* pass that waits for an image, a health check or another upgrade.        *)
(***************************************************************************)
EXTENDS JobPhase, NextBatch

CONSTANTS PreHooks,             \* Len(spec.hooks.pre)
          PostHooks,            \* Len(spec.hooks.post)
          DrainOwned,           \* spec.drain.enabled
          MaxCompletionCycles,  \* upgradeaudit.MaxCompletionCycles
          Targets,              \* the versions a spec edit may ask for
          LateNodes,            \* nodes that join the cluster after the start
          UserActions,          \* what users do: "suspend", "reset", "edit"
          MaxGeneration,        \* bound: spec generations
          MaxFaults,            \* bound: failed writes and controller crashes
          ControllerDowntime,   \* may the controller be away longer than the
                                \* TTL of a finished Job?
          PromptReboots         \* does a machine that accepted an upgrade
                                \* reboot within that TTL?

ASSUME HooksAssumption == PreHooks \in Nat /\ PostHooks \in Nat
ASSUME CyclesAssumption == MaxCompletionCycles \in Nat
ASSUME TargetsAssumption == Targets \subseteq Nat \ {0} /\ Targets # {}
ASSUME LateAssumption == LateNodes \subseteq Node
ASSUME BoundsAssumption == /\ MaxGeneration \in Nat \ {0}
                           /\ MaxFaults \in Nat
ASSUME SwitchesAssumption == /\ DrainOwned \in BOOLEAN
                             /\ ControllerDowntime \in BOOLEAN
                             /\ PromptReboots \in BOOLEAN

VARIABLES spec,        \* metadata.generation and the target version
          annotation,  \* the suspend and reset annotations
          status,      \* the status subresource
          node,        \* what each machine runs and whether it answers
          joined,      \* the nodes the selector matches
          label,       \* nodes that carry the upgrading label
          cordoned,    \* nodes with spec.unschedulable
          job,         \* the upgrade Job of each node
          seen,        \* nodes whose finished Job a pass has looked at
          late,        \* tracked nodes whose reboot deadline has passed
          draining,    \* the batch the pass under way is draining
          unsaved,     \* tracked nodes the pass under way takes for upgraded
                       \* although the status still has them as tracked
          hookJob,     \* the Job of each hook
          windowOpen,  \* does maintenance.CheckWindow allow the run now?
          faults       \* how many writes have been lost so far

objects == <<label, cordoned, job, seen, hookJob>>
users == <<spec, annotation, joined, windowOpen>>
inPass == <<draining, unsaved>>
vars == <<status, node, late, inPass, faults, objects, users>>

-------------------------------------------------------------------------------
\* Versions: 0 is what every machine runs before the first target.
Version == {0} \cup Targets

\* A machine is up; has accepted an upgrade and will reboot ("staged"); is
\* down; or answers over the Talos API but has not rejoined Kubernetes.
NodeState == {"up", "staged", "down", "joining"}

JobState == {"none", "running", "accepted", "succeeded", "failed"}
NoJob == [state |-> "none", target |-> 0]
Unfinished(j) == j.state \in {"running", "accepted"}
Finished(j) == j.state \in {"succeeded", "failed"}

Hook == ({"pre"} \X (0..PreHooks - 1)) \cup ({"post"} \X (0..PostHooks - 1))
HookState == {"none", "running", "succeeded", "failed"}

Status == [phase : Phase, observed : 0..MaxGeneration,
           completed : SUBSET Node, failed : SUBSET Node,
           rebooting : SUBSET Node,
           preHook : 0..PreHooks, postHook : 0..PostHooks,
           preHookFailed : BOOLEAN, cycles : 0..MaxCompletionCycles]

\* The types of all the state.
TypeOK ==
    /\ spec \in [generation : 1..MaxGeneration, target : Targets]
    /\ annotation \in [suspend : BOOLEAN, reset : BOOLEAN]
    /\ status \in Status
    /\ node \in [Node -> [version : Version, boot : Version, state : NodeState]]
    /\ joined \in SUBSET Node
    /\ label \in SUBSET Node
    /\ cordoned \in SUBSET Node
    /\ job \in [Node -> [state : JobState, target : Version]]
    /\ seen \in SUBSET Node
    /\ late \in SUBSET Node
    /\ draining \in SUBSET Node
    /\ unsaved \in SUBSET Node
    /\ hookJob \in [Hook -> HookState]
    /\ windowOpen \in BOOLEAN
    /\ faults \in 0..MaxFaults

Init ==
    /\ spec \in [generation : {1}, target : Targets]
    /\ annotation = [suspend |-> FALSE, reset |-> FALSE]
    /\ status = [phase |-> NoPhase, observed |-> 0,
                 completed |-> {}, failed |-> {}, rebooting |-> {},
                 preHook |-> 0, postHook |-> 0,
                 preHookFailed |-> FALSE, cycles |-> 0]
    /\ node = [n \in Node |-> [version |-> 0, boot |-> 0, state |-> "up"]]
    /\ joined = Node \ LateNodes
    /\ label = {}
    /\ cordoned = {}
    /\ job = [n \in Node |-> NoJob]
    /\ seen = {}
    /\ late = {}
    /\ draining = {}
    /\ unsaved = {}
    /\ hookJob = [h \in Hook |-> "none"]
    /\ windowOpen \in BOOLEAN
    /\ faults = 0

-------------------------------------------------------------------------------
(***************************************************************************)
(* What a pass reads.                                                      *)
(***************************************************************************)

\* No pass is under way. One that drains nodes, and one that goes on after a
\* lost write, span several actions.
Idle == draining = {} /\ unsaved = {}

\* Neither annotation is set and the status has seen the latest spec.
Settled ==
    /\ draining = {}
    /\ ~annotation.suspend
    /\ ~annotation.reset
    /\ status.observed = spec.generation

\* Past the terminal phases and the hook phases.
Working == Settled /\ status.phase \notin {"Completed", "Failed", "PreHook", "PostHook"}

\* Past the window and coordination checks, which only a run that is not active
\* makes. That another upgrade blocks this one is WaitForOtherUpgrade's choice.
Admitted == Working /\ (IsActive(status.phase) \/ windowOpen)

\* The nodes with an outcome. A pass appends to its copy of the status before
\* it patches the resource, so what it could not save counts until it ends.
Resolved == status.completed \cup status.failed \cup unsaved

\* The nodes with an upgrade Job that this run has not recorded an outcome for.
ActiveJobsByLabel == {n \in label : job[n] # NoJob /\ n \notin Resolved}
ActiveJobs == {n \in Node : job[n] # NoJob /\ n \notin Resolved}

\* verifyNodeUpgrade: the Talos API answers, with the target version or not.
VerifiedAnyVersion(n) == node[n].state # "down"
Verified(n) == node[n].state # "down" /\ node[n].version = spec.target
Mismatched(n) == node[n].state # "down" /\ node[n].version # spec.target

\* Past processRebootingNodes and the failed-node check, with Jobs left.
SelectingBesideJobs ==
    Admitted /\ status.rebooting \subseteq unsaved /\ status.failed = {}

SelectingAfterFailure ==
    /\ Admitted
    /\ ActiveJobs = {}
    /\ status.rebooting \subseteq unsaved

\* Past findActiveJobs, processRebootingNodes and the failed-node check.
Selecting ==
    /\ Admitted
    /\ ActiveJobs = {}
    /\ status.rebooting \subseteq unsaved
    /\ status.failed = {}

\* findNextNodes: selected nodes to upgrade, and those that do not answer.
PendingNodes == {n \in joined \ Resolved : Mismatched(n)}
UnreachableNodes == {n \in joined \ Resolved : node[n].state = "down"}

\* The built-in cluster health gate: every node Ready and its machine running.
\* A staged machine still is. Etcd health is AwaitHealth's choice.
HealthyIfAnswering == \A n \in joined : node[n].state # "down"
Healthy == \A n \in joined : node[n].state \in {"up", "staged"}

\* controlPlaneUpgradeInFlight: another control-plane node has an unfinished
\* Job, or the label and is still to be upgraded.
BusyControlPlane(batch) ==
    {c \in ControlPlane \ batch :
        \/ Unfinished(job[c])
        \/ c \in label /\ (c \in joined => c \in PendingNodes)}

SlotFree(batch) == batch \cap ControlPlane # {} => BusyControlPlane(batch) = {}

\* A batch is chosen and may start.
BatchChosen ==
    /\ Selecting
    /\ windowOpen
    /\ UnreachableNodes = {}
    /\ PendingNodes # {}
    /\ SlotFree(NextBatchOf(PendingNodes))

\* A batch is chosen and the gate and the health checks pass.
BatchReady == BatchChosen /\ Healthy

-------------------------------------------------------------------------------
(***************************************************************************)
(* What a pass writes. PatchStatus stamps observedGeneration on every      *)
(* status write; only the passes before Settled can change it by that.     *)
(***************************************************************************)
Stamped(s) == [s EXCEPT !.observed = spec.generation]
InPhase(p) == [status EXCEPT !.phase = p]

\* The cleared status of a run that starts over.
Restarted(cycles) ==
    [phase |-> "Pending", observed |-> spec.generation,
     completed |-> {}, failed |-> {}, rebooting |-> {},
     preHook |-> 0, postHook |-> 0, preHookFailed |-> FALSE,
     cycles |-> cycles]

\* completeUpgrade's verdict, and transitionToFinalize, which runs the
\* remaining post-hooks before it.
FinalPhaseOfHooks(s) == IF s.preHookFailed THEN "Failed" ELSE "Completed"
FinalPhase(s) ==
    IF s.preHookFailed \/ s.failed # {} THEN "Failed" ELSE "Completed"
Finalized(s) ==
    [s EXCEPT !.phase = IF s.postHook < PostHooks THEN "PostHook" ELSE FinalPhase(s)]

\* The Jobs left when the finished ones of S are deleted.
Without(S) == [n \in Node |-> IF n \in S /\ Finished(job[n]) THEN NoJob ELSE job[n]]

\* cordoned once the nodes of S are uncordoned, which tuppr does if it drains.
Uncordoned(S) == IF DrainOwned THEN cordoned \ S ELSE cordoned

\* A pass that writes nothing but the status.
WriteStatus(s) ==
    /\ status' = s
    /\ late' = late \cap s.rebooting
    /\ unsaved' = {}
    /\ UNCHANGED <<node, draining, faults, objects, users>>

\* One more write is lost.
Fault == faults < MaxFaults /\ faults' = faults + 1

\* Node bookkeeping logs a failed Job deletion, label removal, uncordon or
\* reboot-entry removal and goes on: at most one of them per pass is lost here.
NoLoss == [job |-> {}, label |-> {}, cordon |-> {}, track |-> {}]
Losses(S) ==
    {NoLoss} \cup {[NoLoss EXCEPT ![f] = {n}] : f \in DOMAIN NoLoss, n \in S}
Spend(lost) == IF lost = NoLoss THEN UNCHANGED faults ELSE Fault

-------------------------------------------------------------------------------
(***************************************************************************)
(* The passes before any upgrade work: annotations and spec changes.       *)
(***************************************************************************)

\* handleSuspendAnnotation parks the run in Pending and stops.
PassSuspended ==
    /\ Idle
    /\ annotation.suspend
    /\ WriteStatus(Stamped(InPhase("Pending")))

\* handleResetAnnotation removes the annotation, then clears the status. When
\* the second write is lost, only the first has happened.
PassReset ==
    /\ Idle
    /\ ~annotation.suspend
    /\ annotation.reset
    /\ annotation' = [annotation EXCEPT !.reset = FALSE]
    /\ \/ status' = Restarted(0) /\ late' = {} /\ UNCHANGED faults
       \/ Fault /\ UNCHANGED <<status, late>>
    /\ UNCHANGED <<spec, joined, windowOpen, node, inPass, objects>>

\* handleGenerationChange starts over on a spec the status has not seen.
PassSpecChange ==
    /\ Idle
    /\ ~annotation.suspend
    /\ ~annotation.reset
    /\ status.observed < spec.generation
    /\ WriteStatus(Restarted(0))

-------------------------------------------------------------------------------
(***************************************************************************)
(* A completed run re-checks its nodes; a failed one does nothing.         *)
(***************************************************************************)
Recheck == Settled /\ status.phase = "Completed"

\* A node needs the upgrade after all: start over, a bounded number of times.
CyclesLeftOffByOne == status.cycles <= MaxCompletionCycles
CyclesLeft == status.cycles < MaxCompletionCycles

RestartCampaign ==
    /\ Recheck
    /\ PendingNodes # {}
    /\ CyclesLeft
    /\ WriteStatus(Restarted(status.cycles + 1))

GiveUp ==
    /\ Recheck
    /\ PendingNodes # {}
    /\ ~CyclesLeft
    /\ WriteStatus(InPhase("Failed"))

\* The nodes could not be read. The error is reported as Pending.
RecheckFails ==
    /\ Recheck
    /\ Fault
    /\ status' = InPhase("Pending")
    /\ UNCHANGED <<node, late, inPass, objects, users>>

-------------------------------------------------------------------------------
(***************************************************************************)
(* Hooks run one at a time, each as a Job found again by its index.        *)
(***************************************************************************)
HookPhase(k) == IF k = "pre" THEN "PreHook" ELSE "PostHook"
HookIndex(k) == IF k = "pre" THEN status.preHook ELSE status.postHook
HookCount(k) == IF k = "pre" THEN PreHooks ELSE PostHooks
InHookPhase(k) == Settled /\ status.phase = HookPhase(k)

AtIndex(k, i) ==
    IF k = "pre" THEN [status EXCEPT !.preHook = i] ELSE [status EXCEPT !.postHook = i]

StartHook(k) ==
    /\ InHookPhase(k)
    /\ HookIndex(k) < HookCount(k)
    /\ hookJob[<<k, HookIndex(k)>>] = "none"
    /\ hookJob' = [hookJob EXCEPT ![<<k, HookIndex(k)>>] = "running"]
    /\ UNCHANGED <<status, node, late, inPass, faults, label, cordoned, job, seen, users>>

\* The hook's outcome lets the next one start.
HookOverUnlessFailed(k, h) == hookJob[h] \in {"running", "succeeded"} \/ k = "post"
HookOver(k, h) == hookJob[h] = "succeeded" \/ (hookJob[h] = "failed" /\ k = "post")

\* handleHookJobStatus on a finished Job. A failed pre-hook skips the others,
\* a failed post-hook changes nothing. The Job is deleted after the index is
\* saved; a deletion that fails leaves it behind.
HandleHook(k) ==
    LET h == <<k, HookIndex(k)>> IN
    /\ InHookPhase(k)
    /\ HookIndex(k) < HookCount(k)
    /\ \/ /\ HookOver(k, h)
          /\ status' = AtIndex(k, HookIndex(k) + 1)
       \/ /\ hookJob[h] = "failed" /\ k = "pre"
          /\ status' = [status EXCEPT !.preHookFailed = TRUE, !.preHook = PreHooks]
    /\ \/ hookJob' = [hookJob EXCEPT ![h] = "none"] /\ UNCHANGED faults
       \/ Fault /\ UNCHANGED hookJob
    /\ UNCHANGED <<node, late, inPass, label, cordoned, job, seen, users>>

LeavePreHooks ==
    /\ InHookPhase("pre")
    /\ status.preHook >= PreHooks
    /\ WriteStatus(IF status.preHookFailed THEN Finalized(status) ELSE InPhase("Pending"))

LeavePostHooks ==
    /\ InHookPhase("post")
    /\ status.postHook >= PostHooks
    /\ WriteStatus(InPhase(FinalPhase(status)))

-------------------------------------------------------------------------------
(***************************************************************************)
(* The window and coordination checks of a run that is not active.         *)
(***************************************************************************)
ParkOutsideWindow ==
    /\ Idle /\ Working
    /\ ~IsActive(status.phase)
    /\ ~windowOpen
    /\ WriteStatus(InPhase("MaintenanceWindow"))

\* Another upgrade is active.
WaitForOtherUpgrade ==
    /\ Idle /\ Working
    /\ ~IsActive(status.phase)
    /\ windowOpen
    /\ WriteStatus(InPhase("Pending"))

-------------------------------------------------------------------------------
(***************************************************************************)
(* handleBatchJobStatus: the Jobs of the current batch.                    *)
(***************************************************************************)

\* Some Job is unfinished: wait for the whole batch.
WaitForJobs ==
    LET running == {n \in ActiveJobs : Unfinished(job[n])} IN
    /\ Admitted
    /\ running # {}
    /\ status' = InPhase(IF \E n \in running : node[n].state \in {"down", "joining"}
                         THEN "Rebooting" ELSE "Upgrading")
    /\ seen' = seen \cup (ActiveJobs \ running)
    /\ UNCHANGED <<node, late, inPass, faults, label, cordoned, job, hookJob, users>>

\* The Jobs cannot be listed. The error is reported as Pending.
JobsUnreadable ==
    /\ Idle /\ Admitted
    /\ Fault
    /\ status' = InPhase("Pending")
    /\ UNCHANGED <<node, late, inPass, objects, users>>

\* Every Job of the batch has finished.
SomeJobFinished == Admitted /\ \E n \in ActiveJobs : Finished(job[n])

BatchFinished ==
    /\ Admitted
    /\ ActiveJobs # {}
    /\ \A n \in ActiveJobs : Finished(job[n])

\* A node at the target is completed, whatever its Job reported. A node whose
\* Job failed, that still runs another version and whose pods all ran elsewhere
\* has failed (offTarget). Any other node is taken to be rebooting.
BatchGood == {n \in ActiveJobs : Verified(n)}
MayHaveFailed == {n \in ActiveJobs : job[n].state = "failed" /\ Mismatched(n)}
BatchWaiting(offTarget) == ActiveJobs \ (BatchGood \cup offTarget)

\* While a node is waited for, the failures of the batch are left for later;
\* only the waits that are past their deadline fail.
BatchBadWithoutDeadline(offTarget) ==
    IF BatchWaiting(offTarget) = {} THEN offTarget ELSE {}

BatchBad(offTarget) ==
    IF BatchWaiting(offTarget) = {} THEN offTarget
    ELSE BatchWaiting(offTarget) \cap late

BatchPhase(offTarget) ==
    CASE BatchWaiting(offTarget) \ late # {} -> "Rebooting"
      [] BatchWaiting(offTarget) # {} /\ BatchWaiting(offTarget) \subseteq late -> status.phase
      [] BatchWaiting(offTarget) = {} /\ offTarget # {} -> "Failed"
      [] OTHER -> "Pending"

\* What completeNodeUpgrade for the nodes of good and processSingleJobFailure
\* for those of bad do to the Jobs, the labels and the cordons. lost holds the
\* writes that failed and were only logged.
Record(good, bad, lost) ==
    /\ job' = Without((good \cup bad) \ lost.job)
    /\ label' = label \ ((good \cup bad) \ lost.label)
    /\ cordoned' = Uncordoned(good \ lost.cordon)
    /\ seen' = {n \in seen \cup ActiveJobs : Finished(job'[n])}

\* The same in the status, with the reboot waits of track added first.
Outcome(good, bad, track, lost) ==
    [status EXCEPT
        !.completed = @ \cup good,
        !.failed = @ \cup bad,
        !.rebooting = (@ \cup track) \ ((good \cup bad) \ lost.track)]

HandleFinishedBatch ==
    /\ BatchFinished
    /\ \E offTarget \in SUBSET MayHaveFailed, lost \in Losses(ActiveJobs) :
         LET bad == BatchBad(offTarget) IN
         /\ Record(BatchGood, bad, lost)
         /\ status' = [Outcome(BatchGood, bad, BatchWaiting(offTarget), lost)
                         EXCEPT !.phase = BatchPhase(offTarget)]
         /\ late' = late \cap status'.rebooting
         /\ Spend(lost)
    /\ UNCHANGED <<node, inPass, hookJob, users>>

\* A pass whose writes did not all land: the outcomes of good and bad are saved,
\* and of the node in cut only some of the writes that come before its outcome.
Landed(good, bad, track, cut, phase) ==
    /\ \E deleted \in SUBSET {n \in cut : Verified(n)},
          uncordoned \in SUBSET {n \in cut : Verified(n)},
          unlabelled \in SUBSET cut :
         /\ job' = Without(good \cup bad \cup deleted)
         /\ label' = label \ (good \cup bad \cup unlabelled)
         /\ cordoned' = Uncordoned(good \cup uncordoned)
    /\ seen' = {n \in seen \cup ActiveJobs : Finished(job'[n])}
    /\ status' = [Outcome(good, bad, track, NoLoss) EXCEPT !.phase = phase]
    /\ late' = late \cap status'.rebooting
    /\ UNCHANGED <<node, draining, hookJob, users>>

\* No node, or one of S.
AtMostOne(S) == {{}} \cup {{n} : n \in S}

\* The pass ends with its phase as it was: a write fails or the process dies.
InterruptFinishedBatch ==
    /\ BatchFinished
    /\ Fault
    /\ UNCHANGED unsaved
    /\ \/ \E good \in SUBSET BatchGood : \E cut \in AtMostOne(BatchGood \ good) :
            Landed(good, {}, {}, cut, status.phase)
       \/ \E offTarget \in SUBSET MayHaveFailed :
          \E bad \in SUBSET BatchBad(offTarget) :
          \E cut \in AtMostOne(BatchBad(offTarget) \ bad) :
            Landed(BatchGood, bad, BatchWaiting(offTarget), cut, status.phase)

-------------------------------------------------------------------------------
(***************************************************************************)
(* processRebootingNodes: nodes whose Job is gone while they reboot. A     *)
(* node that answers is judged by its version, one that answers with a     *)
(* permanent error (denied) has failed, and one that does not answer is    *)
(* waited for until its deadline. When no node is waited for the pass goes *)
(* on, and the next action stands for the rest of it.                      *)
(***************************************************************************)
Rebooted == status.rebooting \ Resolved
RebootGood == {n \in Rebooted : Verified(n)}
RebootBadWithoutDeadline(denied) == {n \in Rebooted : Mismatched(n) \/ n \in denied}

RebootBad(denied) ==
    {n \in Rebooted : \/ Mismatched(n)
                      \/ node[n].state = "down" /\ n \in late \cup denied}
MayBeDenied == {n \in Rebooted : node[n].state = "down"}
RebootWaiting(denied) == Rebooted \ (RebootGood \cup RebootBad(denied))

AwaitingReboots ==
    /\ Idle /\ Admitted
    /\ ActiveJobs = {}
    /\ status.rebooting # {}

JudgeReboots(denied) ==
    LET bad == RebootBad(denied)
        waiting == RebootWaiting(denied) IN
    /\ AwaitingReboots
    /\ \E lost \in Losses(status.rebooting) :
         LET outcome == Outcome(RebootGood, bad, {}, lost) IN
         /\ Record(RebootGood, bad, lost)
         /\ status' = [outcome EXCEPT
                         !.rebooting = @ \ (Resolved \ lost.track),
                         !.phase = IF waiting # {} THEN "Rebooting" ELSE @]
         /\ Spend(lost)
    /\ unsaved' = IF waiting # {} THEN {} ELSE status'.rebooting
    /\ late' = late \cap status'.rebooting
    /\ UNCHANGED <<node, draining, hookJob, users>>

ProcessReboots == \E denied \in SUBSET MayBeDenied : JudgeReboots(denied)

\* The process dies.
InterruptReboots ==
    /\ AwaitingReboots
    /\ Fault
    /\ UNCHANGED unsaved
    /\ \E denied \in SUBSET MayBeDenied :
       \E done \in SUBSET (RebootGood \cup RebootBad(denied)) :
       \E cut \in AtMostOne((RebootGood \cup RebootBad(denied)) \ done) :
         Landed(done \cap RebootGood, done \ RebootGood, {}, cut, status.phase)

\* The outcome of n cannot be saved. That is logged and the pass goes on as if
\* it were: to the next batch, or to the end of a run that has failed.
OutcomeUnsaved(n) ==
    /\ AwaitingReboots
    /\ Fault
    /\ \E denied \in SUBSET MayBeDenied :
         LET bad == RebootBad(denied)
             waits == RebootWaiting(denied) # {}
             fails == status.failed \cup bad # {} IN
         /\ n \in RebootGood \cup bad
         /\ Landed(RebootGood \ {n}, bad \ {n}, {}, {n},
                   CASE waits -> "Rebooting"
                     [] ~waits /\ fails -> IF status.postHook < PostHooks
                                           THEN "PostHook" ELSE "Failed"
                     [] OTHER -> status.phase)
         /\ unsaved' = IF waits \/ fails THEN {} ELSE status'.rebooting

\* The process dies later in the same pass.
EndPass ==
    /\ unsaved # {}
    /\ unsaved' = {}
    /\ UNCHANGED <<status, node, late, draining, faults, objects, users>>

\* A run with a failed node stops.
FinalizeFailed ==
    /\ Admitted
    /\ ActiveJobs = {}
    /\ status.rebooting \subseteq unsaved
    /\ status.failed # {}
    /\ WriteStatus(Finalized(status))

-------------------------------------------------------------------------------
(***************************************************************************)
(* processNextBatch: the next batch is chosen and started, or the run ends.*)
(***************************************************************************)

UpgradedNodes == status.completed \cup unsaved

\* The window has closed. A run that upgraded nodes waits for them first.
ParkForClosedWindow ==
    /\ Selecting
    /\ ~windowOpen
    /\ \/ UpgradedNodes # {} /\ WriteStatus(InPhase("HealthChecking"))
       \/ (UpgradedNodes # {} => Healthy) /\ WriteStatus(InPhase("MaintenanceWindow"))

\* A node does not answer, a control-plane upgrade is in flight, an image is
\* not ready or cannot be named, or a read failed.
ParkInPending ==
    /\ Selecting
    /\ windowOpen
    /\ WriteStatus(InPhase("Pending"))

\* The cluster health gate or a health check of the spec fails. A pass whose
\* checks succeed writes HealthChecking too before it goes on: one that dies
\* there has also done this.
AwaitHealth ==
    /\ BatchChosen
    /\ WriteStatus(InPhase("HealthChecking"))

\* maybeEnterPreHook's condition.
PreHooksRemain == ~status.preHookFailed /\ status.preHook < PreHooks

EnterPreHook ==
    /\ BatchReady
    /\ PreHooksRemain
    /\ WriteStatus(InPhase("PreHook"))

\* The first nodes of a batch, up to and including n.
UpTo(batch, n) == {m \in batch : m <= n}

BeginDrain ==
    /\ DrainOwned
    /\ BatchReady
    /\ ~PreHooksRemain
    /\ draining' = NextBatchOf(PendingNodes)
    /\ unsaved' = {}
    /\ status' = InPhase("Draining")
    /\ UNCHANGED <<node, late, faults, objects, users>>

\* A drain fails: the nodes drained so far are uncordoned, the failing one too.
DrainFails ==
    /\ \E n \in draining :
         \/ cordoned' = cordoned \ UpTo(draining, n) /\ UNCHANGED faults
         \/ Fault /\ \E m \in UpTo(draining, n) :
              cordoned' = (cordoned \ UpTo(draining, n)) \cup {m}
    /\ draining' = {}
    /\ UNCHANGED <<status, node, late, unsaved, label, job, seen, hookJob, users>>

\* The process dies while it drains.
CrashInDrain ==
    /\ Fault
    /\ \E n \in draining : cordoned' = cordoned \cup UpTo(draining, n)
    /\ draining' = {}
    /\ UNCHANGED <<status, node, late, unsaved, label, job, seen, hookJob, users>>

\* The batch to start now: the drained one, or a chosen one not to be drained.
StartableBatch ==
    IF draining # {} THEN draining
    ELSE IF ~DrainOwned /\ BatchReady /\ ~PreHooksRemain
         THEN NextBatchOf(PendingNodes)
         ELSE {}

\* The Jobs of created exist, and those of its nodes in labelled have the label.
StartJobs(batch, created, labelled) ==
    /\ job' = [n \in Node |-> IF n \in created
                              THEN [state |-> "running", target |-> spec.target]
                              ELSE job[n]]
    /\ label' = label \cup labelled
    /\ cordoned' = IF DrainOwned THEN cordoned \cup batch ELSE cordoned
    /\ draining' = {}
    /\ unsaved' = {}
    /\ UNCHANGED <<node, late, seen, hookJob, users>>

StartBatch ==
    LET batch == StartableBatch IN
    /\ batch # {}
    /\ \/ StartJobs(batch, batch, batch) /\ UNCHANGED faults
       \/ Fault /\ \E n \in batch : StartJobs(batch, batch, batch \ {n})
    /\ status' = InPhase("Upgrading")

\* Creating a Job fails, which the pass reports as Pending, or the process dies
\* before it has written the phase. The last Job may be without its label.
InterruptStartBatch ==
    LET batch == StartableBatch IN
    /\ Fault
    /\ \E n \in batch :
         \/ /\ StartJobs(batch, UpTo(batch, n) \ {n}, UpTo(batch, n) \ {n})
            /\ status' = InPhase("Pending")
         \/ /\ \E labelled \in {UpTo(batch, n), UpTo(batch, n) \ {n}} :
                 StartJobs(batch, UpTo(batch, n), labelled)
            /\ UNCHANGED status

\* finishRun: every selected node is at the target. Those without an outcome
\* are recorded as completed, and the cluster health gate applies when the run
\* upgraded a node: it has completed some, or one recorded here has the label.
NothingPending ==
    /\ Selecting
    /\ windowOpen
    /\ UnreachableNodes = {}
    /\ PendingNodes = {}

OutOfBand == joined \ Resolved
FinishGatedByCompleted == status.completed # {}
FinishGated == UpgradedNodes # {} \/ OutOfBand \cap label # {}
WithOutOfBand ==
    IF OutOfBand = {} THEN status
    ELSE [status EXCEPT !.completed = @ \cup unsaved \cup OutOfBand]

RecordOutOfBandCordoned(lost) ==
    /\ label' = label \ (OutOfBand \ lost)
    /\ unsaved' = {}
    /\ UNCHANGED <<node, late, draining, cordoned, job, seen, hookJob, users>>

RecordOutOfBand(lost) ==
    /\ cordoned' = Uncordoned(OutOfBand)
    /\ label' = label \ (OutOfBand \ lost)
    /\ unsaved' = {}
    /\ UNCHANGED <<node, late, draining, job, seen, hookJob, users>>

FinishRun ==
    /\ NothingPending
    /\ FinishGated => Healthy
    /\ \/ RecordOutOfBand({}) /\ UNCHANGED faults
       \/ Fault /\ \E n \in OutOfBand : RecordOutOfBand({n})
    /\ status' = Finalized(WithOutOfBand)

FinishWaits ==
    /\ NothingPending
    /\ FinishGated
    /\ RecordOutOfBand({})
    /\ status' = [WithOutOfBand EXCEPT !.phase = "HealthChecking"]
    /\ UNCHANGED faults

\* Saving the completed nodes fails, which makes the gate apply; or the process
\* dies after it, before the labels are removed.
InterruptFinishRun ==
    /\ NothingPending
    /\ Fault
    /\ OutOfBand # {}
    /\ RecordOutOfBand(OutOfBand)
    /\ \/ status' = InPhase("HealthChecking")
       \/ Healthy /\ status' = Finalized(status)
       \/ status' = WithOutOfBand

-------------------------------------------------------------------------------
(***************************************************************************)
(* The cluster: what Jobs, machines and time do between passes.            *)
(***************************************************************************)
NodeActs(n, s) == node' = [node EXCEPT ![n].state = s]
JobActs(n, s) == job' = [job EXCEPT ![n].state = s]
OnlyNode == UNCHANGED <<status, late, inPass, faults, objects, users>>
OnlyJob == UNCHANGED <<status, node, late, inPass, faults, label, cordoned, hookJob, users>>

\* The machine accepts the upgrade and will reboot into the Job's version.
JobAccepted(n) ==
    /\ job[n].state = "running"
    /\ node[n].state \in {"up", "staged"}
    /\ JobActs(n, "accepted")
    /\ node' = [node EXCEPT ![n].state = "staged", ![n].boot = job[n].target]
    /\ UNCHANGED <<status, late, inPass, faults, label, cordoned, seen, hookJob, users>>

\* The upgrade command waits for the machine to come back, except in a cluster
\* of one node, whose reboot would kill the command.
JobSucceeds(n) ==
    /\ job[n].state = "accepted"
    /\ N = 1 \/ node[n].state \in {"joining", "up"}
    /\ JobActs(n, "succeeded")
    /\ OnlyJob /\ UNCHANGED seen

\* Retries or the active deadline are exhausted, or the reboot kills the pod.
JobFails(n) ==
    /\ Unfinished(job[n])
    /\ JobActs(n, "failed")
    /\ OnlyJob /\ UNCHANGED seen

\* ttlSecondsAfterFinished. A pass that looks at Jobs comes every few minutes
\* at most, well within the TTL; other passes and downtime may last longer.
JobExpires(n) ==
    /\ Finished(job[n])
    /\ n \in seen \/ ControllerDowntime \/ ~Admitted
    /\ PromptReboots => node[n].state # "staged"
    /\ job' = [job EXCEPT ![n] = NoJob]
    /\ seen' = seen \ {n}
    /\ OnlyJob

\* The reboot; a machine that cannot boot the new version rolls back.
Reboot(n) ==
    /\ node[n].state = "staged"
    /\ \E v \in {node[n].boot, node[n].version} :
         node' = [node EXCEPT ![n] = [version |-> v, boot |-> v, state |-> "down"]]
    /\ OnlyNode

\* The installation fails and the machine stays as it is.
InstallFails(n) ==
    /\ node[n].state = "staged"
    /\ node' = [node EXCEPT ![n].state = "up", ![n].boot = node[n].version]
    /\ OnlyNode

Return(n) == node[n].state = "down" /\ NodeActs(n, "joining") /\ OnlyNode
Rejoin(n) == node[n].state = "joining" /\ NodeActs(n, "up") /\ OnlyNode

\* A machine stops answering for a reason of its own.
Outage(n) ==
    /\ node[n].state = "up"
    /\ Fault
    /\ NodeActs(n, "down")
    /\ UNCHANGED <<status, late, inPass, objects, users>>

DeadlinePasses(n) ==
    /\ n \in status.rebooting \ late
    /\ late' = late \cup {n}
    /\ UNCHANGED <<status, node, inPass, faults, objects, users>>

HookActs(h, s) ==
    /\ hookJob' = [hookJob EXCEPT ![h] = s]
    /\ UNCHANGED <<status, node, late, inPass, faults, label, cordoned, job, seen, users>>

HookFinishes(h) ==
    /\ hookJob[h] = "running"
    /\ \E s \in {"succeeded", "failed"} : HookActs(h, s)

\* The hook Job a pass is to handle next is handled within its TTL.
HookExpires(h) ==
    /\ hookJob[h] \in {"succeeded", "failed"}
    /\ ControllerDowntime \/ ~InHookPhase(h[1]) \/ HookIndex(h[1]) # h[2]
    /\ HookActs(h, "none")

WindowMoves ==
    /\ windowOpen' = ~windowOpen
    /\ UNCHANGED <<spec, annotation, joined, status, node, late, inPass, faults, objects>>

-------------------------------------------------------------------------------
(***************************************************************************)
(* The users: annotations, spec edits and machines added to the cluster.   *)
(***************************************************************************)
OnlyUsers == UNCHANGED <<windowOpen, status, node, late, inPass, faults, objects>>

ToggleSuspend ==
    /\ "suspend" \in UserActions
    /\ annotation' = [annotation EXCEPT !.suspend = ~@]
    /\ UNCHANGED <<spec, joined>> /\ OnlyUsers

RequestReset ==
    /\ "reset" \in UserActions
    /\ ~annotation.reset
    /\ annotation' = [annotation EXCEPT !.reset = TRUE]
    /\ UNCHANGED <<spec, joined>> /\ OnlyUsers

\* An edit of any field; the webhook refuses it while the upgrade is in
\* progress.
EditSpec ==
    /\ "edit" \in UserActions
    /\ ~IsInFlight(status.phase)
    /\ spec.generation < MaxGeneration
    /\ \E v \in Targets :
         spec' = [generation |-> spec.generation + 1, target |-> v]
    /\ UNCHANGED <<annotation, joined>> /\ OnlyUsers

JoinNode(n) ==
    /\ n \in LateNodes \ joined
    /\ joined' = joined \cup {n}
    /\ UNCHANGED <<spec, annotation>> /\ OnlyUsers

-------------------------------------------------------------------------------
Annotations == PassSuspended \/ PassReset \/ PassSpecChange
Campaign == RestartCampaign \/ GiveUp \/ RecheckFails
Hooks ==
    \/ \E k \in {"pre", "post"} : StartHook(k) \/ HandleHook(k)
    \/ LeavePreHooks
    \/ LeavePostHooks
Checks == ParkOutsideWindow \/ WaitForOtherUpgrade
BatchJobs ==
    WaitForJobs \/ JobsUnreadable \/ HandleFinishedBatch \/ InterruptFinishedBatch
Reboots ==
    \/ ProcessReboots \/ InterruptReboots \/ EndPass
    \/ \E n \in Node : OutcomeUnsaved(n)
StartOfBatch ==
    \/ AwaitHealth \/ EnterPreHook \/ BeginDrain \/ DrainFails \/ CrashInDrain
    \/ StartBatch \/ InterruptStartBatch
EndOfRun == FinalizeFailed \/ FinishRun \/ FinishWaits \/ InterruptFinishRun

Pass ==
    \/ Annotations \/ Campaign \/ Hooks \/ Checks \/ BatchJobs \/ Reboots
    \/ ParkForClosedWindow \/ ParkInPending \/ StartOfBatch \/ EndOfRun

Cluster ==
    \/ \E n \in Node :
         \/ JobAccepted(n) \/ JobSucceeds(n) \/ JobFails(n) \/ JobExpires(n)
         \/ Reboot(n) \/ InstallFails(n) \/ Return(n) \/ Rejoin(n) \/ Outage(n)
         \/ DeadlinePasses(n)
    \/ \E h \in Hook : HookFinishes(h) \/ HookExpires(h)
    \/ WindowMoves

Users ==
    \/ ToggleSuspend \/ RequestReset \/ EditSpec
    \/ \E n \in Node : JoinNode(n)

Next == Pass \/ Cluster \/ Users

Spec == Init /\ [][Next]_vars

\* The controller comes back to the resource at a bounded interval, and what
\* holds it up (an image, etcd, a user's check, another upgrade, a drain) does
\* not do so at every pass. Jobs, hooks and deadlines end, machines that answer
\* rejoin, and windows keep opening. Nothing is assumed of users, faults, or
\* machines that are down, which need not answer with a permanent error either.
Fairness ==
    /\ WF_vars(PassSuspended) /\ WF_vars(PassReset) /\ WF_vars(PassSpecChange)
    /\ \A k \in {"pre", "post"} : WF_vars(StartHook(k)) /\ WF_vars(HandleHook(k))
    /\ WF_vars(LeavePreHooks) /\ WF_vars(LeavePostHooks)
    /\ SF_vars(HandleFinishedBatch) /\ SF_vars(JudgeReboots({}))
    /\ SF_vars(FinalizeFailed) /\ SF_vars(FinishRun)
    /\ SF_vars(EnterPreHook) /\ SF_vars(BeginDrain) /\ SF_vars(StartBatch)
    /\ \A n \in Node : /\ WF_vars(JobSucceeds(n) \/ JobFails(n))
                       /\ WF_vars(Rejoin(n))
                       /\ WF_vars(DeadlinePasses(n))
    /\ \A h \in Hook : WF_vars(HookFinishes(h))
    /\ WF_vars(WindowMoves)

FairSpec == Spec /\ Fairness

-------------------------------------------------------------------------------
(***************************************************************************)
(* Properties that hold whatever users do and whatever fails.              *)
(***************************************************************************)
BusyNodes == {n \in Node : Unfinished(job[n])}

\* spec.parallelism bounds the machines that are being upgraded, and a
\* control-plane machine is upgraded alone: resets, suspends, spec edits,
\* crashes and expired Jobs never let a second batch start beside the first.
OneBatchAtATime == IsBatch(BusyNodes)

\* A run never settles a node's outcome while the node's upgrade Job may still
\* act on the machine, and never settles it both ways.
OutcomesAreSettled ==
    /\ BusyNodes \cap Resolved = {}
    /\ status.completed \cap status.failed = {}

\* What a pass decided before it drained a batch, which takes minutes, still
\* holds when it creates the batch's Jobs: it is a batch, no node is being
\* upgraded and none of the batch has an outcome.
DrainedBatchMayStart ==
    draining # {} =>
        /\ IsBatch(draining)
        /\ BusyNodes = {}
        /\ draining \cap Resolved = {}

\* A run that failed a node or a pre-hook is never reported as Completed, even
\* when it goes through Pending again after a suspend or an error.
CompletedHidesNoFailure ==
    status.phase = "Completed" => status.failed = {} /\ ~status.preHookFailed

\* What the phase tells a user of a run that has ended.
Verdict == IF IsTerminal(status.phase) THEN status.phase ELSE "none"

Promise == INSTANCE UpgradeCampaign WITH
    Batches <- {batch \in SUBSET Node : IsBatch(batch)},
    working <- BusyNodes,
    completed <- status.completed,
    failed <- status.failed,
    verdict <- Verdict,
    cycles <- status.cycles

\* The reconciler keeps the promise of a rolling upgrade: users, crashes, lost
\* writes and expired Jobs only let it do what UpgradeCampaign allows.
RollsOut == Promise!Spec

-------------------------------------------------------------------------------
(***************************************************************************)
(* Properties of runs that no fault and no reset or edit disturbs.         *)
(***************************************************************************)

\* At most one control-plane machine is away at a time, and with it at most
\* one etcd member: the next one waits until the last one has rejoined.
OneControlPlaneDown ==
    Cardinality({c \in ControlPlane : node[c].state \in {"down", "joining"}}) <= 1

\* What a run reports as completed runs the target version, although the
\* outcome is read from a machine that may be about to reboot.
CompletedAtTarget ==
    \A n \in status.completed : node[n].version = spec.target

\* A run that ends well leaves no node cordoned, labelled or waited for, also
\* when its Jobs expired before it could look at them.
CompletedLeavesNoMarks ==
    status.phase = "Completed" => cordoned = {} /\ label = {} /\ status.rebooting = {}

EndsWell(s) ==
    s.phase \in {"PostHook", "Completed"} /\ s.failed = {} /\ ~s.preHookFailed
Rejoined == \A n \in joined : node[n].state \notin {"down", "joining"}
\* A run ends well, and unblocks the post-hooks and queued upgrades, only when
\* every machine it selects has rejoined the cluster.
EndsHealthy == [][EndsWell(status') /\ ~EndsWell(status) => Rejoined]_vars

JobStarts(n) == ~Unfinished(job[n]) /\ Unfinished(job'[n])

RunningHooks == {h \in Hook : hookJob[h] = "running"}
\* No hook runs beside an upgrade Job, and hooks run one at a time.
HooksRunAlone ==
    /\ Cardinality(RunningHooks) <= 1
    /\ RunningHooks # {} => BusyNodes = {}

\* Every run ends, a campaign restarted for a machine that joined late too.
RunEnds == ~IsTerminal(status.phase) ~> IsTerminal(status.phase)

\* A tracked reboot never waits forever: the machine comes back or its
\* deadline fails it.
RebootsResolve ==
    \A n \in Node : n \in status.rebooting ~> n \notin status.rebooting

-------------------------------------------------------------------------------
(***************************************************************************)
(* What the documentation says and the code does not do in every case.     *)
(***************************************************************************)
\* "A failed pre-hook skips the upgrade and marks the run Failed."
FailedPreHookSkipsUpgrade ==
    [][status.preHookFailed => \A n \in Node : ~JobStarts(n)]_vars
===============================================================================
