# tuppr in TLA+

tuppr is a Kubernetes controller that upgrades the Talos Linux of a cluster's
machines (`TalosUpgrade`) and the cluster's Kubernetes version
(`KubernetesUpgrade`). This directory models its reconcilers, checks the models
with TLC and proves their main safety properties with TLAPS.

## 1. The system

| component | source (under `src/`) | state it keeps | operations |
|---|---|---|---|
| TalosUpgrade reconciler | `internal/controller/talosupgrade/{controller,upgrade,jobs}.go` | the resource's status: phase, observedGeneration, completed, failed and rebooting nodes, hook indices, completionCycles | one pass = `Reconcile` -> `processUpgrade` |
| hooks | `talosupgrade/hooks.go` | hook indices, preHookFailed, one Job per hook | `processHookPhase` |
| annotations | `talosupgrade/annotations.go` | suspend and reset annotations, generation | `handleSuspendAnnotation`, `handleResetAnnotation`, `handleGenerationChange` |
| cluster health gate | `talosupgrade/clusterhealth.go` | none; reads nodes, machines, etcd | `checkClusterHealth` |
| node marks | `talosupgrade/nodes.go` | the upgrading label, the outdated taint | add, remove |
| KubernetesUpgrade reconciler | `internal/controller/kubernetesupgrade/` | status, one Job at a time | annotations, generation, window and coordination, one Job for the whole cluster, re-check of a completed run |
| coordination | `internal/controller/coordination/` | none; reads the phases of both kinds | `IsAnotherUpgradeActive` |
| maintenance windows | `internal/controller/maintenance/` | none; cron schedules | `CheckWindow` |
| drain | `internal/controller/drain/` | cordons, evictions, volume attachments | `CordonNode`, `DrainNode`, `UncordonNode` |
| health checks | `internal/healthcheck/` | none; CEL over cluster objects | `CheckHealth` |
| pre-pull | `talosupgrade/prepull.go` | prePulledNodes, prePullFailure | one pull per node, back-off |
| alert silences | `talosupgrade/silence.go`, `internal/alerting/` | alertSilenceIDs | ensure, extend, expire |
| audit, conditions | `*/audit.go`, `internal/controller/upgradeaudit/` | history, conditions, observedGeneration | `PatchStatus`, `ApplyConditions` |
| webhooks | `internal/webhook/` | none | refuse or warn on spec edits |
| installer images | `talosupgrade/upgrade.go` (`buildTalosUpgradeImage`), `internal/image/` | none; reads annotations, machine config, schematic | which repository a node is upgraded from |
| the rest | `internal/{talos,metrics,notification}`, `cmd/` | none that control reads | clients, output, wiring |

**How they interact.** The reconcilers never call each other. Each one reads the
API (resources, Nodes, Jobs) and the Talos machines, writes its own status, and
comes back after a requeue. The two kinds run in a worker each, so two passes of
one kind never overlap, while passes of different kinds may. Jobs, machines,
users, time and the TTL of finished Jobs act between the steps of a pass. All
that a pass knows of earlier ones is in the API: the status, the Jobs that still
exist, the label, the cordon and the annotations.

**What is hard.**
- *Derived state.* What the run is doing is derived from which Jobs exist, and
  Jobs vanish by their TTL. A wait must survive that (`rebootingNodes`), and a
  node without a Job must be told apart from one upgraded by hand.
- *Several writes per pass, none atomic.* A node's outcome is five writes, some
  logged and forgotten when they fail; the controller may die between any two.
- *The phase is both a report and an input.* `IsActive` decides whether the
  window and coordination checks are made, hook phases select the handler, and a
  suspend or an error overwrites it with `Pending`.
- *Long passes.* A drain takes up to ten minutes per node.
- *Reads that may mislead.* The Talos API answers while a machine is about to
  reboot, and before it has rejoined Kubernetes.
- *Control-plane quorum.* Two control-plane machines away at a time may cost etcd
  its quorum.

**What makes each part correct.** Batches never overlap, respect
`spec.parallelism` and isolate control-plane nodes. Outcomes are recorded once,
after the Job can no longer act, and are true of the machine. A failure is never
reported as success. Hooks run alone, in order, and pre-hooks before any upgrade.
A run that ends leaves no marks on the nodes and a healthy cluster, and every run
ends. A Kubernetes upgrade has at most one Job, starts no second one after the window
has closed, completes only at the target, and is over only when no Job is left to change
the cluster. Across several plans at most one control-plane machine is away, and upgrades
that wait for each other all end. A window is open exactly from each of its
starts for its duration. Silences cover a run in flight, end with it, and lapse
whatever fails. A node is drained only when every pending node holds its image, and
no pod the drain must move is left when its Job starts. The installer chosen keeps
a node's extensions. `PROJECT.json` lists the hazards at their lines, with
the property that covers each or the reason why none does.

## 2. The modules

- `JobPhase`: the phases and the predicates the controllers and webhooks share.
- `NextBatch`: how a batch is picked (`nextBatch`). Nodes are numbered in queue
  order. The batch is defined as a set, which is what the proofs reason about;
  `MCTalosUpgrade` assumes, and TLC evaluates in every run, that for each set of
  pending nodes it equals the walk along the queue that the code performs.
- `TalosUpgrade`: one resource, its reconciler, the cluster, time and users.
- `MCTalosUpgrade`: what TLC runs; the `.cfg` files give the constants.
- `HookHistory`: `TalosUpgrade` with a memory of which pre-hooks succeeded in a Job of
  the current run. The `hooks` run uses it.
- `KubernetesUpgrade`: one resource, its reconciler, its Jobs, the kubelets and the
  API server, users and gates. TLC runs it directly.
- `UpgradeCampaign`: the abstract specification a `TalosUpgrade` implements.
- `Coordination`: several TalosUpgrades and the KubernetesUpgrade of one cluster.
  `MCCoordination` gives the plans, and checks `MaintenanceWindow`.
- `MaintenanceWindow`: when a window is open and when a pass comes back.
- `Preparation`: what a pass does to nodes before their Jobs, the pull of images and
  the drain. `MCPreparation` gives the pods, and checks `InstallerImage`.
- `InstallerImage`: which repository a node is upgraded from.
- `AlertSilences`: the silences a run holds in Alertmanager. `MCAlertSilences` gives
  the specs.
- `X_proofs`: the theorems about `X`. `TalosUpgrade_proofs` also has the refinement
  of `UpgradeCampaign`, and `Calculations_proofs` the theorems about `MaintenanceWindow`
  and `InstallerImage`.
- `UndisturbedRuns_proofs`: the theorems about a `TalosUpgrade` that hold when users,
  faults or machines leave it alone in some way.

`TalosUpgrade` and `KubernetesUpgrade` describe one resource each in full, and see
the other kind as a gate that opens and closes freely. `Coordination` composes the
two kinds, with each pass reduced to what other resources can see or disturb.
`Preparation` and `AlertSilences` open up steps that are one action, or none, in
`TalosUpgrade`.

### How `TalosUpgrade` corresponds to the code

A pass is one action: it reads everything once and ends at one of
`processUpgrade`'s returns. The chain of guards follows the function from top to
bottom, each named for how far a pass has got:

| guard | reached after | in the code |
|---|---|---|
| `Settled` | annotations, generation | `upgrade.go:47-61` |
| `Working` | terminal and hook phases | `upgrade.go:63-135` |
| `Admitted` | window and coordination checks | `upgrade.go:137-144` |
| `Selecting` | Jobs, reboots, failed nodes | `upgrade.go:146-165` |
| `BatchChosen`, `BatchReady` | batch picked; control-plane slot, image, health gates | `upgrade.go:328-394` |

Variables: `spec`, `annotation` and `status` are the resource; `node` is the
machine (version, the version it will boot, up / staged / down / joining);
`label`, `cordoned`, `job` and `hookJob` are cluster objects; `late` is the set of
tracked nodes whose deadline has passed; `joined` is what the selector matches;
`windowOpen` is `CheckWindow`'s answer; `draining` and `unsaved` are the local
variables of a pass that spans several actions: the batch of a pass that drains,
and the outcomes a pass believes it saved and did not. `seen` and `faults` belong
to the bounds below.

`HookHistory` adds two variables that no code has, `leftHooks` and `hooksRun`. A hook
Job names its resource, phase and index but not its run (`hooks.go:92-102`), so that a
pass cannot tell the Job of this run from one that an earlier run left; the history can.

A write that fails, or a crash, is an action of its own (`Interrupt...`,
`OutcomeUnsaved`, `CrashInDrain`, `EndPass`) or a disjunct guarded by `Fault`:
the writes before it have landed, those after it have not. Where the code logs an
error and goes on, the model goes on.

Abstracted: versions are numbers (0 is what machines run at first); a Job is a
state and the version it installs; a health check, a pre-pull, etcd and another
upgrade are a choice to wait. A downgrade or a re-install of the same version is
out of the model, and so is the per-node version annotation: every node has the
target of the spec. A machine may roll back, fail to install, or stay down for
good.

### How `KubernetesUpgrade` corresponds to the code

A pass (`kubernetesupgrade/upgrade.go`, `processUpgrade`) is one action, except the
pass that gets to the health checks. Those take seconds to minutes, and the window is
looked at again after them because it may have closed (`upgrade.go:159-164`); then a
node list and a Talos call (`jobs.go:170`) come before the Job is created. So that pass
is up to three actions: `BeginHealthChecks` keeps the spec it has read in `checking`;
`HealthChecksFail` or `ParkAfterChecks` ends it, or `ClearForStart` finds the window
open (`checking.cleared`); and `StartUpgrade`, `StartFails` or `StartUnanswered` ends
it. `CrashInChecks` may end it anywhere. `StartUnanswered` is the creation whose answer
is lost: the code fails the run as if there were no Job, and there is one. Guards again
say how far a pass has got: `Settled`, `Working`, `Admitted`, `Found(j)`
(`findActiveJob` lists one Job) or `Listed = {}`. `Recheck` is the hourly look at the nodes of a completed run.

Variables: `spec`, `annotation`, `status` as above; `job` holds the Jobs that carry
the upgrade label, in slots that stand for their random names; a Job knows its
version, the completion cycle it was created in, the nodes that existed when talosctl
started, and whether its creation was `answered`; `seen` as above; `joined`,
`reported`, `kubelet` and `apiServer` are what passes read of the cluster; `lateStarts` counts, for a property, the Jobs
created since the window closed. talosctl brings the API server to its version,
then the kubelets in any order, and may fail at any point. `areAllNodesUpgraded`
skips a kubelet that has not reported a version, `areAllControlPlaneNodesUpgraded`
does not: `Lagging` and `ControlPlaneUpgraded` keep that difference.

Abstracted: which control-plane node runs talosctl; the health checks pass or fail;
there is one resource, so a Job is always this one's. The Jobs a pass lists are
the Jobs there are: a lagging informer cache is the planned `JobCache`.

### How `UpgradeCampaign` is implemented

`UpgradeCampaign` knows machines at work, the two sets of outcomes, the verdict of a
run that has ended and a count of restarts, and no phase, Job, label, pass or fault.
`TalosUpgrade` implements it by the mapping `Promise`: `working` is the set of nodes
with an unfinished Job (`BusyNodes`), `Batches` are what `NextBatch` calls a batch,
`verdict` is the phase once that is terminal, the outcomes and cycles are those of the
status. `RollsOut` is the abstract specification under the mapping; the `hooks` run
checks it, and `KeepsPromise` proves it.

### How `Coordination` corresponds to the code

All TalosUpgrades share one worker (`MaxConcurrentReconciles` is left at 1), the
KubernetesUpgrade has its own. A TalosUpgrade pass takes minutes at two places, and
is cut at both: after its coordination check, before images and health are looked at
(`PassChecks`), and while it drains (`BeginDrain`). `worker` is what the pass
remembers there, the plan and the batch. The KubernetesUpgrade's pass is cut after its
check (`KubeChecks`).

Variables: `run` is the status of each plan; `job` has the Jobs of each plan on each
node; `node` and `label` are the cluster's. As in `TalosUpgrade` a machine accepts an
upgrade from its Job (`JobAccepted`), is `staged`, and reboots in its own time
(`Reboot`), also when its Job has failed, was judged and is gone; `stray` remembers for
the properties that it left with no Job running on it. `kube` is the KubernetesUpgrade, with its
pass and its Job (`KubeInterrupted` has the creation whose answer is lost, too);
`suspended` and `windowOpen` are for users and time to change.
`Blocked` and `KubeBlocked` are `isTalosUpgradeBlocking` and
`isKubernetesUpgradeBlocking` (`coordinator.go`), which treat `Pending` differently.
`BusyControlPlane` is `controlPlaneUpgradeInFlight`: it looks at the Jobs and labels of
every plan, not at phases.

Left out: hooks, resets, edits, late nodes (a completed plan stays completed),
cordons, and outcomes lost halfway. Every plan drains. Reading the code for this
module showed details that no property is about: `recordOutOfBandCompletedNodes` of
one plan removes the label of a node another plan still upgrades (its Job holds the
slot); a label that a finished plan failed to remove from a control-plane node holds
every plan that does not select the node for good; and a plan with a window that was
suspended until its Job had expired keeps the label of a control-plane node, and with it
the slot, until a pass of it falls into its window.

### How `MaintenanceWindow` corresponds to the code

A schedule is the set of seconds at which its cron expression fires, so `NextFire`
stands for go-cron's `Next`. `LastFire` is defined as the latest start of the last
seven days; `MCCoordination` evaluates the walk of `lastFireTime` against it, with
starts and times at the edges of a week. `RequeueAfter` reads the clock a second time,
like the code.

### How `Preparation` corresponds to the code

One pass: `pull` (one node at a time, `prepull.go:60-110`), `record` (one status
write), `select` (`nextBatch`, images resolved again), then for each node of the batch
`cordon`, `volumes` (`EvictableVolumePVs`), `list` and `evict` (`DrainNode`), `empty`
(the wait for pods), `detach` (the wait for volumes, best effort), and in the end
`create`. `step` says where the pass is, and between its steps pods start and stop,
volumes detach, and nodes change their image or machine. A record names the machine
(UID) and the image. `DrainFails` is the rollback of a batch's cordons. A gate between
the pull and the drain is `HoldBack`; a Job ends well.

`redo`, `moved`, `unsaved`, `timedOut` and `abandoned` remember what the properties
must except: writes that were lost, nodes that changed in this pass, and cordons
nobody takes back. Read along with the code: the eviction of a pod that has vanished
fails the whole drain; a refused eviction (429) fails it at once when budgets are
respected; a Job that cannot be created leaves its drained node cordoned; a rollback
also uncordons what an administrator had cordoned; a node upgraded by hand during the
pass still gets its Job.

### How `InstallerImage` corresponds to the code

`TargetRepo` is `buildTalosUpgradeImage` (`upgrade.go:969-1091`). A repository is the
sequence of the parts of its path; `colon` says after which part the first colon of an
install image stands, since that is where the code cuts it. `Refused` is an error.

### How `AlertSilences` corresponds to the code

Every pass calls `syncAlertSilences` near its start; a pass that finds the suspend
annotation calls it after the write of that handler. `BeginPass` is the sync of a pass
and `ResetRun`, `Park`, `Advance`, `EndPass` its end, at the phases that matter to the
next sync: `Pending` for a parked run, `Completed` for an ended one, `Draining` and
`Upgrading` for one in flight. A silence is a lease: `lease` is what Alertmanager has,
the scope and the time left; `ids` and `since` are the status. An entry is named by its
matchers and has a `maxDuration` of its own. `ExtendLeases` is `Ensure` for all entries,
any of which may fail before or after it took effect, and the expiration of the silences
that the spec no longer has, which may fail too (`kept`);
`ReleaseLeases` and `ForgetLeases` are the release with and without an Alertmanager
connection; `Cleanup` is that of a deleted resource. `found`, `served`, `hold`, `gap` and
`idle` are for the properties and the clock, which may tick any number of times during a
pass and between two. Three effects of the code show in the properties:
a release whose write is lost is repeated and renews the tail; each release between two
batches re-arms `maxDuration`; and an entry that the spec drops while its silence is
overdue gets a whole tail (`silencer.go:127-142`), so that what a stuck run may have
silenced lasts for `maxDuration`, a lease and a tail (`StuckRunsAlert`).

## 3. What TLC checks

| run | configuration | shows |
|---|---|---|
| `core` | 4 nodes, control-plane 1 and 3, parallelism 2, drain, one re-run, two nodes join late, suspends, long downtime, prompt reboots, no fault | `TypeOK`; `OneBatchAtATime`; `OneControlPlaneDown`; `CompletedAtTarget`; `CompletedLeavesNoMarks`; `DrainedBatchMayStart`; `EndsHealthy` |
| `faults` | 2 nodes, a post-hook, drain, one fault, one edit, long downtime, late reboots, suspend, reset | `OneBatchAtATime`; `OutcomesAreSettled`; `CompletedHidesNoFailure` |
| `hooks` | 2 nodes (one late), 2 + 2 hooks, drain, re-run, one fault, one edit, long downtime | `HooksRunAlone`; `UpgradeOnlyAfterPreHooks` (of `HookHistory`); `RollsOut`: the reconciler implements `UpgradeCampaign` |
| `live` | 3 nodes (one late), one hook of each kind, drain, one re-run, `FairSpec` | `RunEnds`; `RebootsResolve` |
| `kubernetes` | control-plane node and a worker that joins late, targets 1 and 2, suspend, reset, one edit, one fault, one re-run, two Job slots, `FairSpec` | `TypeOK`; `OneJobAtATime`; `EndedRunIsIdle`; `CompletesAtTarget`; `OneLateStart`; `RunEnds`; `LagResolves` |
| `coordination` | 2 control-plane nodes; plan p has the last one, q both, to the same version; no window; p may be suspended; one fault | `OneControlPlaneAway`; `DrainedSlotStaysFree` |
| `coordination_live` | plans of a node and a version each, q with a window, one KubernetesUpgrade that may be suspended, no fault, `FairSpec` | `KubernetesFindsClusterUp`; `EverythingSettles` |
| `silences` | 4 IDs, specs of no, one and two entries, TTL 5, tail 1, leeway 1, `maxDuration` 2 and 5, passes any time apart, one edit, one fault, symmetry in the IDs | `TypeOK`; `LeasesDoNotLapse`; `ScopesFollowSpec`; `StuckRunsAlert`; `ReleasedAfterTail`; `EverythingLapses` |
| `preparation` | 2 workers, parallelism 2, 2 images, a guarded pod with a volume, a pod, a pod yet to start, one change, one fault, `FairSpec` | `FleetIsWarm`; `PullsResume`; `StreakEnds`; `DrainedNodesAreEmpty`; `EvictedVolumesDetach`; `ParkedNodesAreSchedulable`; `EveryNodeUpgrades` |

In every run of `MCCoordination` and `MCPreparation` TLC also evaluates the
assumptions of these modules: the walk of `lastFireTime` against the definition of an
open window, the requeue of a pass that is turned away, and the three claims about
`InstallerImage` for all facts of a small registry.

Three runs show where the code does not do what a document or comment says; TLC
finds the counterexample:

| run | said | what happens |
|---|---|---|
| `failed_pre_hook` | "A failed pre-hook skips the upgrade and marks the run `Failed`" (`docs/src/content/docs/talos-upgrades.md:340`) | A suspend replaces `PreHook` by `Pending` before the failure is finalized; resumed, the run skips the remaining pre-hooks (`upgrade.go:174`) and upgrades. It ends as `Failed`. |
| `leftover_job` | completion cycles count "a completed run re-opened because a node still lags" and the run fails if "a node never catches up to the target version" (`kubernetesupgrade_types.go:115-117`, `operations.md:56-58`) | A succeeded Job is left to its TTL. The re-opened run finds it and completes at once, so the cycles are spent without a second Job. |
| `kinds_overlap` | "A `TalosUpgrade` and a `KubernetesUpgrade` cannot run at the same time" (`coordination.md:72-75`) | Both check each other's phase before either has written its own, and both go on; an active phase is not checked again. |

### Known divergences without a run

Met while modelling, present in the models where they concern state, and left without
a run of their own. They are why some properties carry a premise or a small bound.

| said | what the code does |
|---|---|
| "waiting for propagation" (`kubernetesupgrade/upgrade.go:137`) | talosctl upgraded the API server and then failed; the spec is edited back. All kubelets have the old version, the API server does not, no Job is started, and the wait never ends. |
| "Post-hooks run ... once the upgrade reaches a terminal state (success or failure), if any pre-hook was attempted" (`talos-upgrades.md:342`) | `handleBatchJobStatus` sets `Failed` directly (`jobs.go:204`); the post-hooks never run. |
| hooks "run sequentially", pre-hooks "before any node is touched" and post-hooks after the upgrade (`talos-upgrades.md:339-342`) | Neither a reset nor a suspend ends a hook's Job. A reset during the second pre-hook starts the first one beside it; a run suspended during its post-hooks and resumed goes back to pending nodes, after a failed pre-hook or when a node has joined, and upgrades beside the post-hook. |
| "Pre-hooks run sequentially after the initial health check, before any node is touched" (`talos-upgrades.md:339-340`) | A hook Job whose deletion failed is only logged (`hooks.go:166-168`) and is found by the next run, which matches resource, phase and index alone (`hooks.go:92-102`): its old success advances the index and no hook runs. The same holds for the Job of a hook that a suspend or a reset interrupted. `UpgradeOnlyAfterPreHooks` makes the lost deletion its one exception and is checked without suspends and resets. |
| "Any failure in a batch stops further batches." (`talos-upgrades.md:240`) | A failure beside a rebooting batchmate is not recorded (`jobs.go:166-190`); when the failed Job expires first, the node is upgraded again in a further batch. |
| "Spec edit: any change to .spec bumps generation and restarts." (`operations.md:48`) | An edit during a suspension: the suspension's status write stamps the new generation (`annotations.go:30`, `upgradeaudit/status.go:15`), so it is never noticed. |
| "a node that never comes back is eventually marked failed" (`jobs.go:165`) | The failure is appended to the pass's copy of the status, the write is lost and only logged (`upgrade.go:662`), and the pass completes the run. |
| a run that has upgraded nodes passes the health gate before a closed window parks it (`upgrade.go:690-692`) | A window that closes right after a batch finds the run in `Pending`, and parks it before that gate (`upgrade.go:137-140`), which unblocks a queued KubernetesUpgrade while a machine reboots. |
| "no mid-run gap" in the silences (`talos-upgrades.md:440-442`) | A run drops to `Pending` after each batch, and a sync that finds it there releases the silences (`silence.go:70`); they end after the tail. |
| the silences are re-extended "on every reconcile", "no mid-run gap" (`talos-upgrades.md:426-427`, `:440-442`) | Nothing renews them within a pass, and one pass drains its nodes one after the other, for up to 10 minutes each (`upgrade.go:948`) and 2 more for their volumes (`:36`), after pulls of up to 10 minutes each (`prepull.go:24`). The lease is 25 minutes (`silence.go:22`): with a batch of a few slow nodes it lapses in the middle of the pass. `LeasesDoNotLapse` promises no more than the lease less the leeway after a sync. |
| "Control-plane nodes are upgraded one at a time across every plan" (`coordination.md:8`) | A machine may accept an upgrade and reboot only after its Job has failed. The pass that finds the failed Job reads the old version, records the node as failed at once when the Job ran on another node (`talosupgrade/jobs.go:250-262`), and takes Job and label away; a failed plan holds nobody up. The machine's late reboot may then coincide with the control-plane batch of another plan. `Coordination` has that reboot; its properties do not count it (`stray`). |
| a failed run has created no Job ("Failed to create job", `kubernetesupgrade/upgrade.go:268`) | An error of the creation whose request did land is taken for a refusal (`kubernetesupgrade/jobs.go:142`, `upgrade.go:265-272`): the run is `Failed` while talosctl upgrades the cluster, and `Failed` holds no other upgrade up. `EndedRunIsIdle` makes it its one exception; a reset finds the Job again. |
| "Checks that pass after the window closed must not start the upgrade" (`kubernetesupgrade/upgrade.go:159-161`) | A node list and a Talos call come between that look (`upgrade.go:162`) and the creation of the Job. A window that closes meanwhile lets one Job start; `OneLateStart` bounds it to that one. |
| volumes of drained pods are waited for (`talos-upgrades.md:180-182`) | Pods already terminating are left out of the list of volumes (`drain.go:280`), though the drain waits for the pods themselves. |
| "a private-registry path is preserved" (`talos-upgrades.md:493-495`) | The install image is cut at its first colon (`upgrade.go:1047`): of a registry with a port only the host is left. |

Smaller ones: the reset annotation is removed before the status is cleared
(`annotations.go:56`), so a failed second write loses the request; a permanent API
error fails a tracked node at once (`upgrade.go:661`) while the batch path waits for
its deadline (`jobs.go:266`); after an edit the finished Job of the old version is
judged against the new target (`jobs.go:250`); the safety net knows the generic
installer, but not an Image Factory one with the default schematic, on a node that
has extensions and reports no schematic (`upgrade.go:1065-1074`).

### Bounds, and why they are enough

- *Nodes.* Batches interact through the head of the queue, a control-plane node in
  it, and the workers passed over. Four nodes in the order control-plane, worker,
  control-plane, worker hold all of these, with parallelism 2 a full batch of
  workers and a second control-plane node to wait for. Under faults two nodes are
  enough for one to be lost while the other one starts. Except for liveness the
  theorems below cover any number of nodes.
- *`MaxGeneration`* is 2 in `faults` and `hooks`, so that an edit starts a run over at
  any point the webhook admits, and 1 in `core` and `live`, for the reasons under
  *undisturbed runs*. The theorems cover any number of edits, to any target.
- *`MaxFaults`* is 1 or 0: each fault happens at every step of every pass. The
  proofs cover any number.
- *`MaxCompletionCycles`* is 1 (5 in the code): the bound is reached and then
  respected.
- *Downtime.* A finished Job lives for its TTL. `seen` and `ControllerDowntime`
  say that a controller that is up looks at it in time, unless it is parked; with
  `ControllerDowntime` no such help is assumed. `PromptReboots` says that a
  machine that accepted an upgrade reboots within that TTL. `core` assumes prompt
  reboots, but no help from a controller that is up: without the former a suspended run
  can lose a staged machine's Job, and `OneControlPlaneDown` does not hold of the code;
  the latter turned out in the proof to be of no use. `faults`, `hooks` and `live` do
  not assume prompt reboots.
- *`kubernetes`.* Two Job slots are enough to see a second Job, and one control-plane
  node and one worker tell apart the two kubelet checks. With one edit the API
  server never has to go back a version; with more the first divergence above shows up
  in every liveness property. The theorems cover any number of everything.
- *`coordination`.* Two plans and two control-plane nodes are the least that can break
  the slot: one plan's node is away while the other one takes the slot. One plan
  selects a node of the other, so that labels on own and on foreign nodes are told
  apart. The plan that is suspended is the one whose Job and label the other one then
  finds; no property of this run is about phases, so the window that parks a plan is left
  to `coordination_live`. The theorems cover any number of plans, nodes and faults.
- *`coordination_live`.* `KubernetesFindsClusterUp` is about plans that share no node
  (section 4 says what happens otherwise) and have neither failed nor been parked by a
  window: such plans do not hold a KubernetesUpgrade up, by design or by the divergences
  above. The property relies on this also for staged machines: without a fault a machine
  that outlives its Job belongs to a failed plan, and its late reboot is not counted.
- *`silences`.* A step is about five minutes, so that a TTL of 5, a tail of 1 and a
  leeway of 1 keep the order of the code's durations. The time between two syncs has no
  bound, as in the code. One entry may be held for less than a lease, the other one for a
  whole one. Two entries of which an edit removes the first show that leases are kept by
  position; four IDs are enough for both to be replaced. The theorems cover any spec,
  number of edits and durations in that order.
- *`preparation`.* Two nodes make a batch whose second drain fails after the first
  succeeded. The pod with a volume is guarded, another one runs unguarded, and the
  third one starts where the scheduler may still put it.
- *Undisturbed runs.* `core` has neither faults nor resets nor edits. What its
  properties need of this differs, and the theorems about `UndisturbedRuns_proofs` below
  say how much: `CompletedAtTarget` only that the target stands (an edit leaves the
  completed nodes on the old one until the next pass), `CompletedLeavesNoMarks` only that
  no call fails (a lost uncordon is logged and forgotten), `OneControlPlaneDown` and
  `EndsHealthy` also that no reset or edit forgets a machine whose Job is under way.
  `HooksRunAlone` and `UpgradeOnlyAfterPreHooks` are checked and proved with faults,
  edits and cycles, but without suspends and resets, by the divergences above.
- *Silences and faults.* `LeasesDoNotLapse`, `ScopesFollowSpec`, `StuckRunsAlert` and
  `ReleasedAfterTail` speak of behaviours without a fault so far: what a crash, a lost
  patch or a release that fails halfway leads to is bounded by `EverythingLapses` alone.

`CHECK_DEADLOCK` is left on everywhere: users, windows, time and nodes can always act,
and `Preparation` says explicitly when its work is done.

### Fairness

*`TalosUpgrade`* (`FairSpec`, used by `live`). The controller is requeued at a
bounded interval after every return, so a pass whose guard stays true is taken
(weak fairness). The passes that may be held up by an image, etcd, a check,
another upgrade or a drain get strong fairness: such a hold-up is re-evaluated at
every requeue and does not strike every time. Job deadlines
(`ActiveDeadlineSeconds`) end Jobs and hooks; reboot deadlines are stamps in the
status that time passes; a machine that answers becomes Ready (nobody
relies on a machine that is down to answer with a permanent error:
`JudgeReboots({})` is the fair pass); windows keep
opening and closing. Nothing is assumed of machines that are down, of installs,
of users or of faults. `live` has no fault and parallelism 1: with parallelism 2 a
batchmate whose Job expired before the wait for it was recorded makes the run wait
in `Pending` for as long as that machine does not answer, which has no deadline.

*`KubernetesUpgrade`.* Passes that write once and end (`Begins`) get weak fairness,
the passes that need an admission (`Proceeds`) strong fairness, as suspends and
windows interrupt them. `WF(GatesMove /\ windowOpen' /\ ~otherActive')` says that a
window opens while no other upgrade runs; `SF(GatesMove /\ ~Idle /\ windowOpen')` and
the strong fairness of `ClearForStart` say that not every window closes during the
health checks, and that these do not fail for ever; a pass that is past them creates its
Job (weak fairness of `StartUpgrade`). Jobs end by their deadline and
expire by their TTL; a kubelet reports. The premise `<>[]Undisturbed` of `RunEnds`
and `LagResolves` means that users finally stop suspending and resetting.

*`Coordination`* (used by `coordination_live`). Passes keep coming: each plan's work is
weakly fair, and `PassChecks` strongly, since other upgrades open and close the gate.
Beginning a drain and the steps that bring a plan forward (`Proceeds`) are strongly
fair for the plans together, as they are for the one worker they share: a health
check, an image or a wait does not hold up every pass. The same is assumed of the
KubernetesUpgrade's Job, its completion and its failure. Nothing is assumed of the
reboot of a staged machine. Jobs end, machines come back, and windows open. The premise
of `EverythingSettles` is that users finally leave the upgrades alone and no fault
happens.

*`Preparation`.* The operator retries (`WF(Proceed)`) and a pod that is told to leaves
in the end (its grace period). `EveryNodeUpgrades` has as its premise that finally no
budget protects a pod, or that `disableEviction` is set: a budget that never allows a
disruption holds the run for ever, by design.

## 4. What is proved

### `TalosUpgrade`

For every number of nodes, control-plane nodes, parallelism, hooks, targets,
generations, faults and user actions:

| theorem | says |
|---|---|
| `TypeCorrect` | `Spec => []TypeOK` |
| `OneBatch` | `Spec => []OneBatchAtATime` |
| `OutcomesSettled` | `Spec => []OutcomesAreSettled` |
| `DrainedBatchStarts` | `Spec => []DrainedBatchMayStart` |
| `FailureIsReported` | `Spec => []CompletedHidesNoFailure` |
| `NextBatchIsBatch`, `NextBatchHasFront` | what `nextBatch` returns, for every queue |

**The argument.** `TypeOK` is inductive by itself. The four safety properties are
proved together: `SafeInv`, the conjunction of `TypeOK` and `Safe`, is inductive.
None of them is alone. That the Jobs form one batch after `StartBatch` needs that
none was unfinished before it and, when the batch was drained first, that this and
the batch's shape survived the drain (`DrainedBatchMayStart`). That nothing was
unfinished is read off `ActiveJobs = {}`, which ignores nodes with an outcome, so
it needs that those have no unfinished Job (`OutcomesAreSettled`). That the
outcome of a drained node stays open in turn needs that no other pass runs during
the drain, which `Idle` and `Settled` give. `CompletedHidesNoFailure` needs that
a pass reaches the end of a run only through `FinalPhase`. The lemmas follow the
disjuncts of `Next` group by group (`AnnotationsSafe`, `CampaignSafe`,
`HooksSafe`, `ParkSafe`, `BatchJobsSafe`, `RebootsSafe`, `StartOfBatchSafe`,
`EndOfRunSafe`, `ElsewhereSafe`), and rest on lemmas about what the shared writes
do (`OutcomeSafe`, `LandedSafe`, `StartJobsSafe`, `WriteStatusSafe`).

### `UpgradeCampaign`

| theorem | says |
|---|---|
| `KeepsPromise` | `Spec => RollsOut`: `TalosUpgrade` implements `UpgradeCampaign` |

**The argument.** Initial states map to initial states, and every step of
`TalosUpgrade` maps to a step of the campaign or to a stutter. The step simulation
needs `CampaignInv`, which adds `Quiet` to `SafeInv`: hook phases come with no machine
at work, and a batch is being drained only in `Draining` and while no node has failed.
A dozen lemmas (`ReopenStep`, `SettleStep`, ...) say when a step is one of the
campaign's, and one lemma for each group of `Next` applies them. No condition on users,
faults or downtime is needed.

### `UndisturbedRuns_proofs`

What a `TalosUpgrade` promises only to runs that are left alone. Each theorem names what
it needs; nodes, parallelism, hooks, targets, cycles and all else are free:

| theorem | says | needs |
|---|---|---|
| `HooksAreAlone` | `Spec => []HooksRunAlone` | no suspend, no reset |
| `PreHooksComeFirst` | `HistorySpec => UpgradeOnlyAfterPreHooks` | no suspend, no reset |
| `CompletedMeansUpgraded` | `Spec => []CompletedAtTarget` | no edit |
| `CompletedIsClean` | `Spec => []CompletedLeavesNoMarks` | no fault |
| `ControlPlaneStays` | `Spec => []OneControlPlaneDown` | no fault, reset or edit, and prompt reboots |
| `RunsEndHealthy` | `Spec => EndsHealthy` | no fault, reset or edit, and prompt reboots |

**The argument.** All start from the invariants above (`CampaignInv`).
- *Hooks* (`Hooking`). A hook's Job runs only in its phase and at its index, so there is
  one. A pass that leaves the phase has seen it end. The webhook refuses edits then,
  since hook phases are in flight; this needs that a run in flight has observed the
  last edit. A batch is drained only with every pre-hook behind it, and a verdict of
  failure stays with the hook phases.
- *The memory of the hooks* (`HistoryInv`). Every pre-hook the index has passed without a
  failure has succeeded in this run or has left its Job from an earlier one, and so has
  every one whose succeeded Job is there (`Remembered`). Without a fault a hook's Job is
  only there in its phase and at its index (`CleanHooks`): the pass that moves the index
  deletes it, and no run ends or starts over before that.
- *The target* (`AtTarget`). As long as it stands, Jobs that run install it, machines
  that run it boot it again, and completed nodes run it. A pass whose outcome was not
  saved believes no more than that (`unsaved`).
- *Marks* (`Marks`). Labels and cordons are on selected nodes that are not completed,
  and `FinishRun` completes and clears all that are left; the batch a pass is draining is
  part of the selected nodes too.
- *Machines away* (`Exposure`). A node is exposed while its Job is unfinished or its
  machine is anything but up. Exposed nodes always form a batch (`ExposedAreBatch`), and
  where a batch begins there is none (`ExposedNowhere`): the health gate sees all
  machines up, and one that is about to reboot (`staged`) is known to the run by its Job
  (`StagedKnown`), which prompt reboots keep there. They carry the label or have an
  outcome, so that a run which ends without the health gate has touched none.

### `KubernetesUpgrade`

For every cluster that starts with a control-plane node, every set of late nodes,
targets, users and faults:

| theorem | says |
|---|---|
| `TypeCorrect` | `Spec => []TypeOK` |
| `OneJob` | `Spec => []OneJobAtATime` |
| `EndedIsIdle` | `Spec => []EndedRunIsIdle` |
| `CompletedAtTarget` | `Spec => CompletesAtTarget` |
| `OneStartIsLate` | `Spec => []OneLateStart` |

**The argument.** The inductive invariant is `IInv`. `OneJobAtATime` needs
`ChecksAlone`: the pass that creates a Job looked for one before its health checks,
and no Job can have appeared since. `EndedRunIsIdle` needs both, since the pass that
ends a run on a finished Job must know that no other one runs; a Job whose creation was
not answered is the exception. `OneLateStart` needs `Passing`: no Job has started late
while the window is open, nor while a pass is cleared, since that pass has seen it open
and no other pass can have started a Job since.
`CompletesAtTarget`
needs more, because `CompleteWithJob` looks at kubelets only: a Job that succeeded
left the API server and the kubelets in its scope at its version
(`SuccessAtTarget`), nothing changes these while it exists, the control-plane node of
the start is in every scope (`ScopeInCluster`, `NodesStay`), and that node's kubelet
ties the Job's version to the spec's. `FewerJobs` and `SameJobs` deal at once with
all steps that create no Job and leave the cluster alone.

### `Coordination`

For every number of plans, nodes, selectors, targets, faults and suspends:

| theorem | says |
|---|---|
| `TypeCorrect` | `Spec => []TypeOK` |
| `OneControlPlaneAtATime` | `Spec => []OneControlPlaneAway` |
| `SlotIsKept` | `Spec => []DrainedSlotStaysFree` |
| `KubernetesWaits` | `Spec => KubernetesFindsClusterUp`, when no node is selected by two plans |

**The argument.** With the types, the two properties are inductive together (`Slot`).
A Job is created only by the pass that holds the shared worker, and a machine that goes
away does so while its Job runs or is no longer counted (`stray`), which lasts until it is
up again. Most steps are `Quiet`: they take no node away and drain
nothing new (`QuietKeepsSlot`). Two are not. `BeginDrain` takes the slot
(`DrainTakesSlot`): the health gate has seen every control-plane machine up, and
`SlotFree` no unfinished Job on one. The creation of Jobs uses it (`StartUsesSlot`):
that slot has been kept during the drain, and a batch with a control-plane node has no
other node. Phases play no part in the argument, which is why it survives lost writes
and suspends.

They are all that a KubernetesUpgrade looks at, so `KubernetesWaits` is about what phases
mean as long as nothing has failed (`Gaps`). A plan at rest, never begun or completed,
has no machine away (`RestIsUp`): one that is completed has passed the health gate, or
has skipped it because it has no outcome of its own and none of its nodes is labelled.
Then it has not touched any, because a node with a Job of the plan, or down, is labelled
until it has an outcome (`TouchedIsMarked`). For plans that share nodes this is false, and
TLC finds the property violated: while one plan is suspended with a Job under way, the
other one records the node as upgraded out of band and takes the label; when the first
plan is resumed after the Job has expired, it completes at once, without the gate, while
the machine is still joining.

### `Preparation`

For every fleet, images, pods, faults and changes:

| theorem | says |
|---|---|
| `TypeCorrect` | `Spec => []TypeOK` |
| `FleetStaysWarm` | `Spec => []FleetIsWarm` |
| `DrainedNodesStayEmpty` | `Spec => []DrainedNodesAreEmpty` |
| `StreaksEnd` | `Spec => []StreakEnds` |
| `PullsAreResumed` | `Spec => []PullsResume` |
| `VolumesAreDetached` | `Spec => []EvictedVolumesDetach` |
| `CordonsAreTakenBack` | `Spec => []ParkedNodesAreSchedulable` |

**The argument.** `Types` splits the types by who changes them and adds `Stage`, what a
pass has at each step: a pass that still drains has a node to drain. Each property has an
invariant of its own on top of these. `Warm` says that a
record of the machine that is there now is true of its store, that no record names a
machine yet to come, and that while the pass pulls, what a node lacks is still on its
list. `IsEmpty` follows a pod from the list of a drain to its end: a cordoned node gets
no pod, and the list holds every pod there was. `Resumed` says that a store is filled by
pulls alone, and that whoever loses a record is accounted for. `Volumes` needs the order
of the two lists: volumes are looked up on a node that is cordoned already, and before
the pods are listed, so that every pod that is evicted had its volume seen (`LookedUp`).
`Owned` names an owner for each cordon: the drain under way, the batch, a Job, or a mishap.

### `AlertSilences`

For every set of specs, durations and IDs, and any number of edits and faults:

| theorem | says |
|---|---|
| `TypeCorrect` | `Spec => []TypeOK` |
| `SilencesLapse` | `Spec => []EverythingLapses` |
| `SilencesAreReleased` | `Spec => []ReleasedAfterTail` |
| `StuckRunsAreSeen` | `Spec => []StuckRunsAlert` |
| `LeasesHold` | `Spec => []LeasesDoNotLapse` |
| `ScopesAreCurrent` | `Spec => []ScopesFollowSpec` |

**The argument.** `Lapsing` weighs what is left of each lease against the time since a
pass last held it: a fault pays for each tail that is granted once more. The others rest
on `Calm`, which says how a status and Alertmanager agree without a fault: no two entries
share a silence (`Distinct`), a hold has a beginning exactly as long as it has IDs
(`Dated`), the first of them is a silence, and a silence that is in no status has at most
its tail left (`Known`). On top, `Stuck` bounds lease
and hold together, for each entry by its own `maxDuration` (`Named` says which entries a
live silence can stand for); `Leases` says that a lease which a sync leaves alone has more
than the lease less the leeway left, so that it outlives every time up to that (`InTime`);
and `Scoped` that an edit parks the run before the next renewal, so that a fresh lease
never has the scope of an older spec. The proof of `StuckRunsAlert` showed that the tail
belongs into its bound.

### `MaintenanceWindow` and `InstallerImage`

| theorem | says |
|---|---|
| `WindowIsExact` | `CheckWindow` says yes exactly from each start of a window for its duration, for every schedule and the durations the webhook admits |
| `NoOpeningIsMissed` | no window is open at any time before a pass that was turned away comes back |
| `TurnedAwayComesBack` | it does come back, within five minutes, when the clock is read once |
| `ExtensionsSurvive` | without an override a node keeps its schematic, and a node with other extensions never gets the generic installer |
| `OverrideIsHonoured` | with an override the schematic annotated, or the node's own, is installed |
| `RepositoryIsKept` | an install image without a port stays in its repository, but for the moves to the Image Factory and to the node's own schematic |

The theorems about the next start assume schedules that fire again (`Recurs`). A
schematic is a digest, so it is never the word "installer".

### What the proofs assume and leave

**Assumptions:** those declared with the constants in `NextBatch`, `TalosUpgrade`,
`KubernetesUpgrade`, `Coordination`, `Preparation` and `AlertSilences` (there is a node,
parallelism is at least 1, counts are naturals, selectors name nodes, switches are
Booleans, targets are not what machines run at first, one control-plane node is there
from the start, a tail is no longer than a lease, a leeway is shorter, and every
`maxDuration` is at most the longest one). TLC evaluates them in every run of these modules. The
conditions of `UndisturbedRuns_proofs` and of `KubernetesWaits` are hypotheses of the
theorems themselves.

Every safety property of every passing run is stated by a theorem.

**Only model-checked:**
- liveness, since fairness and ENABLED are beyond the prover: `RunEnds`,
  `RebootsResolve`, `LagResolves`, `EverythingSettles`, `EveryNodeUpgrades`;
- that `NextBatchOf` and `LastFire` are the walks of the code, since induction over a
  walk is out of the prover's reach.

## 5. What is not modelled, and why

- Deletion of a resource and its re-creation while Jobs or labels are left, but for the
  silences of a deleted one.
- The informer cache. Passes read the API's current state; in the code a pass may
  miss a Job created by the last one.
- A machine that fails by itself between the health gate and the Jobs: the code does
  not look again, and nothing promises that it does.
- The pod specification, metrics, events, notifications, history, conditions and the
  outdated taint: no control reads them.
- Start-up, leader election and wiring: they are why one controller acts at a time.
- The image checker: one registry request, whose failure is a choice to wait.
- Cron parsing: a schedule is the set of times at which it fires. One that never fires
  again is assumed away where a next start matters.
- The reset's `Update` writes the whole resource with the resource version its pass has
  read (`annotations.go:56`): an edit in the same moment makes it fail, which the model's
  next pass stands for, and nothing else of that edit is modelled.
- Edits of a silence entry's `maxDuration` alone: an entry is its matchers.
- Retries within a call to Talos: the call succeeds or fails.
- CEL evaluation: a health check passes or fails.

## 6. Plan

Done: all modules of section 2 with their runs and the proofs of section 4.

To write, in this order:
1. `JobCache`: a lagging informer cache in front of `findActiveJobs` and
   `findActiveJob`.
2. Deletion and re-creation of a resource of either kind while its Job exists.
3. In `Coordination`, nodes that join late, so that a completed plan starts over.

To prove: `HooksRunAlone` for runs that are suspended outside their hook phases;
`OneControlPlaneDown` and `EndsHealthy` with faults that lose no outcome;
and the safety of the modules to come.

The number of runs is kept at what the questions need: a new component that needs
one takes the place of a run whose question has been merged into another.
