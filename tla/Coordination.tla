----------------------------- MODULE Coordination -----------------------------
(***************************************************************************)
(* Several TalosUpgrades and the KubernetesUpgrade of one cluster, and how *)
(* they keep out of each other's way: by the phases the others show, by    *)
(* the single worker all TalosUpgrades share, and by the control-plane     *)
(* slot, which looks at Jobs and Node labels instead of phases.            *)
(*                                                                         *)
(* A pass of a TalosUpgrade takes minutes at two places: after its         *)
(* coordination check (images, health checks) and while it drains. It is   *)
(* cut there, and "worker" is what it remembers. The KubernetesUpgrade has *)
(* a worker of its own and is cut after its coordination check.            *)
(*                                                                         *)
(* TalosUpgrade and KubernetesUpgrade model the two kinds one by one in    *)
(* full. Left out here: hooks, resets, edits, nodes that join late (so a   *)
(* completed plan stays completed), cordons, and outcomes that are lost    *)
(* halfway. Every plan drains its batches.                                 *)
(***************************************************************************)
EXTENDS JobPhase, NextBatch

CONSTANTS Plan,         \* the TalosUpgrades
          NoPlan,       \* none of them
          Selected,     \* the nodes each plan's selector matches
          Target,       \* the version each plan asks for
          Windowed,     \* the plans with a maintenance window
          Upgrades,     \* how many KubernetesUpgrades there are: 0 or 1
          MaySuspend,   \* the upgrades users may suspend
          MaxFaults     \* bound: failed writes and reads, crashes

Kube == "kubernetes"    \* the KubernetesUpgrade

ASSUME PlanAssumption == NoPlan \notin Plan /\ Kube \notin Plan
ASSUME SelectedAssumption == Selected \in [Plan -> SUBSET Node]
ASSUME TargetAssumption == Target \in [Plan -> Nat \ {0}]
ASSUME UpgradesAssumption == /\ Upgrades \in 0..1
                             /\ Windowed \subseteq Plan
                             /\ MaySuspend \subseteq Plan \cup {Kube}
ASSUME FaultsAssumption == MaxFaults \in Nat

VARIABLES run,         \* the status of each plan
          worker,      \* the plan whose pass is under way, and its batch
          job,         \* the upgrade Job of each plan on each node
          node,        \* what each machine runs and will boot, whether it
                       \* answers, and (no code keeps it) whether it left
                       \* "stray", with no Job running on it
          label,       \* nodes that carry the upgrading label
          kube,        \* the KubernetesUpgrade, its pass and its Job
          suspended,   \* the upgrades with the suspend annotation
          windowOpen,  \* is the window of the plans in Windowed open?
          faults       \* how many faults have happened

talos == <<run, worker, job, label>>
users == <<suspended, windowOpen>>
vars == <<talos, node, kube, users, faults>>

-------------------------------------------------------------------------------
Version == {0} \cup {Target[p] : p \in Plan}
\* As in TalosUpgrade: a "staged" machine has accepted an upgrade and is up.
NodeState == {"up", "staged", "down", "joining"}
\* A Job has sent its machine the upgrade once it is "accepted".
JobState == {"none", "running", "accepted", "succeeded", "failed"}
Finished(j) == j \in {"succeeded", "failed"}

Free == [plan |-> NoPlan, batch |-> {}]

\* The types of all the state.
TypeOK ==
    /\ run \in [Plan -> [phase : Phase, completed : SUBSET Node,
                         failed : SUBSET Node, rebooting : SUBSET Node]]
    /\ worker \in [plan : Plan \cup {NoPlan}, batch : SUBSET Node]
    /\ job \in [Plan -> [Node -> JobState]]
    /\ node \in [Node -> [version : Version, boot : Version, state : NodeState,
                         stray : BOOLEAN]]
    /\ label \in SUBSET Node
    /\ kube \in [phase : Phase, checking : BOOLEAN, job : JobState, upgraded : BOOLEAN]
    /\ suspended \in SUBSET (Plan \cup {Kube})
    /\ windowOpen \in BOOLEAN
    /\ faults \in 0..MaxFaults

Init ==
    /\ run = [p \in Plan |-> [phase |-> NoPhase, completed |-> {},
                              failed |-> {}, rebooting |-> {}]]
    /\ worker = Free
    /\ job = [p \in Plan |-> [n \in Node |-> "none"]]
    /\ node = [n \in Node |-> [version |-> 0, boot |-> 0, state |-> "up", stray |-> FALSE]]
    /\ label = {}
    /\ kube = [phase |-> NoPhase, checking |-> FALSE, job |-> "none",
               upgraded |-> Upgrades = 0]
    /\ suspended = {}
    /\ windowOpen \in IF Windowed = {} THEN {TRUE} ELSE BOOLEAN
    /\ faults = 0

Fault == faults < MaxFaults /\ faults' = faults + 1

-------------------------------------------------------------------------------
(***************************************************************************)
(* What a pass of plan p reads.                                            *)
(***************************************************************************)
Working(p) == p \notin suspended /\ ~IsTerminal(run[p].phase)
Open(p) == p \in Windowed => windowOpen

\* isTalosUpgradeBlocking: only active phases of others hold a TalosUpgrade up.
BlockedByQueued(p) ==
    \/ IsActive(kube.phase) \/ kube.phase = "Pending"
    \/ \E q \in Plan \ {p} : IsActive(run[q].phase)
Blocked(p) ==
    \/ IsActive(kube.phase)
    \/ \E q \in Plan \ {p} : IsActive(run[q].phase)

\* A pass that may go on: of an active run, which skips the checks, or one that
\* is past them. The rest of a pass does not look at the annotation again.
Admitted(p) ==
    \/ worker = [plan |-> p, batch |-> {}]
    \/ worker = Free /\ Working(p) /\ IsActive(run[p].phase)

Resolved(p) == run[p].completed \cup run[p].failed
ActiveJobs(p) == {n \in Node : job[p][n] # "none" /\ n \notin Resolved(p)}
Running(p) == {n \in Node : job[p][n] \in {"running", "accepted"}}

Verified(p, n) == node[n].state # "down" /\ node[n].version = Target[p]
Mismatched(p, n) == node[n].state # "down" /\ node[n].version # Target[p]
Up(S) == \A n \in S : node[n].state \in {"up", "staged"}

\* Past findActiveJobs, processRebootingNodes and the failed-node check.
Selecting(p) ==
    /\ Admitted(p)
    /\ ActiveJobs(p) = {}
    /\ run[p].rebooting = {}
    /\ run[p].failed = {}

PendingNodes(p) == {n \in Selected[p] \ Resolved(p) : Mismatched(p, n)}
Unreachable(p) == {n \in Selected[p] \ Resolved(p) : node[n].state = "down"}

\* The built-in gate: the selected and all control-plane nodes have rejoined.
HealthySelected(p) == Up(Selected[p])
Healthy(p) == Up(Selected[p] \cup ControlPlane)

\* controlPlaneUpgradeInFlight: a control-plane node outside the batch has an
\* unfinished Job, of any plan, or the label, unless p selects it and no longer
\* has it pending.
BusyControlPlaneOfPlan(p, batch) ==
    {c \in ControlPlane \ batch :
        \/ c \in Running(p)
        \/ c \in label /\ (c \in Selected[p] => c \in PendingNodes(p))}
BusyControlPlane(p, batch) ==
    {c \in ControlPlane \ batch :
        \/ \E q \in Plan : c \in Running(q)
        \/ c \in label /\ (c \in Selected[p] => c \in PendingNodes(p))}
SlotFree(p, batch) == batch \cap ControlPlane # {} => BusyControlPlane(p, batch) = {}

BatchChosen(p) ==
    /\ Selecting(p)
    /\ Open(p)
    /\ Unreachable(p) = {}
    /\ PendingNodes(p) # {}
    /\ SlotFree(p, NextBatchOf(PendingNodes(p)))

-------------------------------------------------------------------------------
(***************************************************************************)
(* What a pass writes.                                                     *)
(***************************************************************************)
InPhase(p, phase) == [run EXCEPT ![p].phase = phase]

\* A pass that ends with a new phase and writes nothing else.
EndPass(p, phase) ==
    /\ run' = InPhase(p, phase)
    /\ worker' = Free
    /\ UNCHANGED <<job, label, node, kube, users>>

\* cleanupJobForNode takes the finished Jobs of a node, whoever owns them.
CleanedUp(S) ==
    [q \in Plan |-> [n \in Node |->
        IF n \in S /\ Finished(job[q][n]) THEN "none" ELSE job[q][n]]]

\* The outcomes of a pass: good nodes completed, bad ones failed, the others of
\* waiting waited for.
Outcome(p, good, bad, waiting) ==
    [run EXCEPT ![p].completed = @ \cup good, ![p].failed = @ \cup bad,
                ![p].rebooting = (@ \cup waiting) \ (good \cup bad)]
Record(p, good, bad, waiting, phase) ==
    /\ run' = [Outcome(p, good, bad, waiting) EXCEPT ![p].phase = phase]
    /\ job' = CleanedUp(good \cup bad)
    /\ label' = label \ (good \cup bad)

-------------------------------------------------------------------------------
(***************************************************************************)
(* Before any upgrade work.                                                *)
(***************************************************************************)
PassSuspended(p) ==
    /\ worker = Free
    /\ p \in suspended
    /\ EndPass(p, "Pending") /\ UNCHANGED faults

\* The window and coordination checks of a run that is not active.
CheckedFirst(p) == worker = Free /\ Working(p) /\ ~IsActive(run[p].phase)

ParkOutsideWindow(p) ==
    /\ CheckedFirst(p)
    /\ ~Open(p)
    /\ EndPass(p, "MaintenanceWindow") /\ UNCHANGED faults

WaitForOtherUpgrade(p) ==
    /\ CheckedFirst(p)
    /\ Open(p)
    /\ Blocked(p)
    /\ EndPass(p, "Pending") /\ UNCHANGED faults

PassChecks(p) ==
    /\ CheckedFirst(p)
    /\ Open(p)
    /\ ~Blocked(p)
    /\ worker' = [plan |-> p, batch |-> {}]
    /\ UNCHANGED <<run, job, label, node, kube, users, faults>>

-------------------------------------------------------------------------------
(***************************************************************************)
(* The batch under way.                                                    *)
(***************************************************************************)
WaitForJobs(p) ==
    LET running == ActiveJobs(p) \cap Running(p) IN
    /\ Admitted(p)
    /\ running # {}
    /\ EndPass(p, IF Up(running) THEN "Upgrading" ELSE "Rebooting")
    /\ UNCHANGED faults

\* A read fails. The error is reported as Pending, whatever is under way.
ReadFails(p) ==
    /\ Admitted(p)
    /\ Fault
    /\ EndPass(p, "Pending")

\* Every Job of the batch has finished. A node at the target is completed, a
\* failed Job's node may be judged at once, others are waited for, and fail
\* when the wait is late. Failures are left for later while others are waited
\* for.
HandleFinishedBatch(p) ==
    LET batch == ActiveJobs(p)
        good == {n \in batch : Verified(p, n)}
        mayHaveFailed == {n \in batch : job[p][n] = "failed" /\ Mismatched(p, n)} IN
    /\ Admitted(p)
    /\ batch # {}
    /\ batch \cap Running(p) = {}
    /\ \E offTarget \in SUBSET mayHaveFailed :
         LET waiting == batch \ (good \cup offTarget) IN
         \E late \in SUBSET waiting :
           Record(p, good, IF waiting = {} THEN offTarget ELSE late, waiting,
                  CASE waiting \ late # {} -> "Rebooting"
                    [] waiting # {} /\ waiting = late -> run[p].phase
                    [] waiting = {} /\ offTarget # {} -> "Failed"
                    [] OTHER -> "Pending")
    /\ worker' = Free
    /\ UNCHANGED <<node, kube, users, faults>>

\* Nodes whose Job is gone while they reboot. When none is waited for the pass
\* goes on.
ProcessReboots(p) ==
    LET tracked == run[p].rebooting
        good == {n \in tracked : Verified(p, n)}
        down == {n \in tracked : node[n].state = "down"} IN
    /\ Admitted(p)
    /\ ActiveJobs(p) = {}
    /\ tracked # {}
    /\ \E late \in SUBSET down :
         LET waiting == down \ late IN
         /\ Record(p, good, tracked \ (good \cup waiting), {},
                   IF waiting # {} THEN "Rebooting" ELSE run[p].phase)
         /\ worker' = IF waiting # {} THEN Free ELSE [plan |-> p, batch |-> {}]
    /\ UNCHANGED <<node, kube, users, faults>>

FinalizeFailed(p) ==
    /\ Admitted(p)
    /\ ActiveJobs(p) = {}
    /\ run[p].rebooting = {}
    /\ run[p].failed # {}
    /\ EndPass(p, "Failed") /\ UNCHANGED faults

-------------------------------------------------------------------------------
(***************************************************************************)
(* The next batch, or the end of the run.                                  *)
(***************************************************************************)
ParkForClosedWindow(p) ==
    /\ Selecting(p)
    /\ ~Open(p)
    /\ \/ run[p].completed # {} /\ EndPass(p, "HealthChecking")
       \/ (run[p].completed # {} => Healthy(p)) /\ EndPass(p, "MaintenanceWindow")
    /\ UNCHANGED faults

\* A node does not answer, the slot is taken, or an image is not ready.
ParkInPending(p) ==
    /\ Selecting(p)
    /\ Open(p)
    /\ PendingNodes(p) \cup Unreachable(p) # {}
    /\ EndPass(p, "Pending") /\ UNCHANGED faults

\* The gate, etcd or a health check of the spec holds the batch up.
AwaitHealth(p) ==
    /\ BatchChosen(p)
    /\ EndPass(p, "HealthChecking") /\ UNCHANGED faults

BeginDrain(p) ==
    /\ BatchChosen(p)
    /\ Healthy(p)
    /\ worker' = [plan |-> p, batch |-> NextBatchOf(PendingNodes(p))]
    /\ run' = InPhase(p, "Draining")
    /\ UNCHANGED <<job, label, node, kube, users, faults>>

\* A drain fails, or takes too long.
DrainFails ==
    /\ worker.batch # {}
    /\ worker' = Free
    /\ UNCHANGED <<run, job, label, node, kube, users, faults>>

\* The Jobs of "created" exist, those of "labelled" have their label.
StartJobs(p, created, labelled, phase) ==
    /\ job' = [job EXCEPT ![p] = [n \in Node |->
                  IF n \in created THEN "running" ELSE job[p][n]]]
    /\ label' = label \cup labelled
    /\ run' = InPhase(p, phase)
    /\ worker' = Free
    /\ UNCHANGED <<node, kube, users>>

StartBatch(p) ==
    /\ worker.plan = p
    /\ worker.batch # {}
    /\ StartJobs(p, worker.batch, worker.batch, "Upgrading")
    /\ UNCHANGED faults

\* A label cannot be written, a Job cannot be created, or the process dies.
InterruptStart(p) ==
    /\ worker.plan = p
    /\ Fault
    /\ \E created \in SUBSET worker.batch, labelled \in SUBSET worker.batch :
         /\ labelled \subseteq created
         /\ \E phase \in {"Pending", "Upgrading", run[p].phase} :
              StartJobs(p, created, labelled, phase)

OutOfBand(p) == Selected[p] \ Resolved(p)
FinishGated(p) == run[p].completed # {} \/ OutOfBand(p) \cap label # {}

FinishRun(p) ==
    /\ Selecting(p)
    /\ Open(p)
    /\ PendingNodes(p) \cup Unreachable(p) = {}
    /\ \/ (FinishGated(p) => Healthy(p)) /\ Record(p, OutOfBand(p), {}, {}, "Completed")
       \/ FinishGated(p) /\ Record(p, OutOfBand(p), {}, {}, "HealthChecking")
    /\ worker' = Free
    /\ UNCHANGED <<node, kube, users, faults>>

-------------------------------------------------------------------------------
(***************************************************************************)
(* The passes of the KubernetesUpgrade.                                    *)
(***************************************************************************)
\* isKubernetesUpgradeBlocking: a queued TalosUpgrade holds it up too.
KubeBlockedByActive == \E p \in Plan : IsActive(run[p].phase)
KubeBlocked == \E p \in Plan : IsActive(run[p].phase) \/ run[p].phase = "Pending"

KubeIs(k) == kube' = k /\ UNCHANGED <<talos, node, users>>
KubePhase(phase) == [kube EXCEPT !.phase = phase]

KubeWorking ==
    /\ Upgrades = 1
    /\ ~kube.checking
    /\ Kube \notin suspended
    /\ ~IsTerminal(kube.phase)
KubeAdmitted == KubeWorking /\ (IsActive(kube.phase) \/ ~KubeBlocked)

KubeSuspended ==
    /\ Upgrades = 1
    /\ ~kube.checking
    /\ Kube \in suspended
    /\ KubeIs(KubePhase("Pending")) /\ UNCHANGED faults

KubeWaits ==
    /\ KubeWorking
    /\ ~KubeAdmitted
    /\ KubeIs(KubePhase("Pending")) /\ UNCHANGED faults

KubeFollowsJob ==
    /\ KubeAdmitted
    /\ kube.job = "running"
    /\ KubeIs(KubePhase("Upgrading")) /\ UNCHANGED faults

\* The cluster is at the target, by a Job that succeeded or by one that is gone.
KubeCompletes ==
    /\ KubeAdmitted
    /\ kube.job \in {"none", "succeeded"}
    /\ kube.upgraded
    /\ KubeIs(KubePhase("Completed")) /\ UNCHANGED faults

KubeFails ==
    /\ KubeAdmitted
    /\ kube.job = "failed"
    /\ KubeIs([kube EXCEPT !.phase = "Failed", !.job = "none"]) /\ UNCHANGED faults

\* The health checks begin. The phase stays as it is until they are over.
KubeChecks ==
    /\ KubeAdmitted
    /\ kube.job = "none"
    /\ ~kube.upgraded
    /\ KubeIs([kube EXCEPT !.checking = TRUE]) /\ UNCHANGED faults

KubeChecksFail ==
    /\ kube.checking
    /\ KubeIs([kube EXCEPT !.checking = FALSE, !.phase = "HealthChecking"])
    /\ UNCHANGED faults

\* The Job is created without another look at the TalosUpgrades.
KubeStarts ==
    /\ kube.checking
    /\ KubeIs([kube EXCEPT !.checking = FALSE, !.phase = "Upgrading", !.job = "running"])
    /\ UNCHANGED faults

\* A read fails, the process dies, or the writes of the phases around the Job's
\* creation are lost. When the creation returns an error the run has failed,
\* also if the Job is there and only the answer was lost.
KubeInterrupted ==
    /\ Fault
    /\ \/ KubeAdmitted /\ KubeIs(KubePhase("Pending"))
       \/ /\ kube.checking
          /\ \E phase \in {kube.phase, "HealthChecking", "Failed"}, j \in {"none", "running"} :
               KubeIs([kube EXCEPT !.checking = FALSE, !.phase = phase, !.job = j])

-------------------------------------------------------------------------------
(***************************************************************************)
(* The cluster. A machine accepts an upgrade from the Job that runs on it  *)
(* and reboots in its own time, into the version of the upgrade or back    *)
(* into its own: also after the Job has failed, was judged and is gone.    *)
(***************************************************************************)
OnlyNode == UNCHANGED <<talos, kube, users, faults>>
OnlyJob == UNCHANGED <<run, worker, label, node, kube, users, faults>>
NodeIs(n, s) == node' = [node EXCEPT ![n].state = s, ![n].stray = @ /\ s # "up"]
Unused(n) == \A p \in Plan : n \notin Running(p)

JobAccepted(p, n) ==
    /\ job[p][n] = "running"
    /\ node[n].state \in {"up", "staged"}
    /\ job' = [job EXCEPT ![p][n] = "accepted"]
    /\ node' = [node EXCEPT ![n].state = "staged", ![n].boot = Target[p]]
    /\ UNCHANGED <<run, worker, label, kube, users, faults>>

Reboot(n) ==
    /\ node[n].state = "staged"
    /\ \E v \in {node[n].boot, node[n].version} :
         node' = [node EXCEPT ![n] = [version |-> v, boot |-> 0, state |-> "down",
                                      stray |-> Unused(n)]]
    /\ OnlyNode
InstallFails(n) ==
    /\ node[n].state = "staged"
    /\ node' = [node EXCEPT ![n].state = "up", ![n].boot = 0]
    /\ OnlyNode

Return(n) == node[n].state = "down" /\ NodeIs(n, "joining") /\ OnlyNode
Rejoin(n) == node[n].state = "joining" /\ NodeIs(n, "up") /\ OnlyNode

\* As in TalosUpgrade, the upgrade command waits for the machine to come back.
JobSucceeds(p, n) ==
    /\ job[p][n] = "accepted"
    /\ N = 1 \/ node[n].state \in {"joining", "up"}
    /\ job' = [job EXCEPT ![p][n] = "succeeded"]
    /\ OnlyJob
JobFails(p, n) ==
    /\ n \in Running(p)
    /\ job' = [job EXCEPT ![p][n] = "failed"]
    /\ OnlyJob

\* ttlSecondsAfterFinished: no pass looks at the Jobs of a plan that is held up.
JobExpires(p, n) ==
    /\ Finished(job[p][n])
    /\ ~Admitted(p)
    /\ ~IsActive(run[p].phase) \/ p \in suspended
    /\ job' = [job EXCEPT ![p][n] = "none"]
    /\ OnlyJob

KubeJobEnds ==
    /\ kube.job = "running"
    /\ \/ KubeIs([kube EXCEPT !.job = "succeeded", !.upgraded = TRUE])
       \/ KubeIs([kube EXCEPT !.job = "failed"])
    /\ UNCHANGED faults

KubeJobExpires ==
    /\ Finished(kube.job)
    /\ Kube \in suspended \/ IsTerminal(kube.phase)
    /\ KubeIs([kube EXCEPT !.job = "none"]) /\ UNCHANGED faults

WindowMoves ==
    /\ Windowed # {}
    /\ windowOpen' = ~windowOpen
    /\ UNCHANGED <<talos, node, kube, suspended, faults>>

ToggleSuspend ==
    /\ \E u \in MaySuspend :
         suspended' = IF u \in suspended THEN suspended \ {u} ELSE suspended \cup {u}
    /\ UNCHANGED <<talos, node, kube, windowOpen, faults>>

-------------------------------------------------------------------------------
Checks(p) ==
    PassSuspended(p) \/ ParkOutsideWindow(p) \/ WaitForOtherUpgrade(p) \/ PassChecks(p)
Batch(p) ==
    \/ WaitForJobs(p) \/ ReadFails(p) \/ HandleFinishedBatch(p) \/ ProcessReboots(p)
    \/ FinalizeFailed(p)
NextOrEnd(p) ==
    \/ ParkForClosedWindow(p) \/ ParkInPending(p) \/ AwaitHealth(p) \/ BeginDrain(p)
    \/ StartBatch(p) \/ InterruptStart(p) \/ FinishRun(p)
KubePass ==
    \/ KubeSuspended \/ KubeWaits \/ KubeFollowsJob \/ KubeCompletes \/ KubeFails
    \/ KubeChecks \/ KubeChecksFail \/ KubeStarts \/ KubeInterrupted
Cluster ==
    \/ \E n \in Node : Reboot(n) \/ InstallFails(n) \/ Return(n) \/ Rejoin(n)
    \/ \E p \in Plan, n \in Node :
          JobAccepted(p, n) \/ JobSucceeds(p, n) \/ JobFails(p, n) \/ JobExpires(p, n)
    \/ KubeJobEnds \/ KubeJobExpires
    \/ WindowMoves

Next ==
    \/ \E p \in Plan : Checks(p) \/ Batch(p) \/ NextOrEnd(p)
    \/ DrainFails \/ KubePass \/ Cluster \/ ToggleSuspend

Spec == Init /\ [][Next]_vars

\* Passes of every upgrade keep coming and end, what holds one up (a health
\* check, an image, a drain, a reboot wait, which has a deadline) does not do so
\* at every pass, Jobs end, and machines come back. Nothing is assumed of users
\* and faults.
Ends(p) == HandleFinishedBatch(p) /\ run'[p].phase # "Rebooting"
Judges(p) == ProcessReboots(p) /\ run'[p].rebooting = {}
Completes(p) == FinishRun(p) /\ run'[p].phase = "Completed"
Proceeds(p) ==
    Ends(p) \/ Judges(p) \/ FinalizeFailed(p) \/ StartBatch(p) \/ Completes(p)
Fairness ==
    /\ \A p \in Plan : WF_vars(Batch(p) \/ NextOrEnd(p)) /\ SF_vars(PassChecks(p))
    /\ SF_vars(\E p \in Plan : BeginDrain(p)) /\ SF_vars(\E p \in Plan : Proceeds(p))
    /\ WF_vars(KubeChecks) /\ SF_vars(KubeStarts \/ KubeCompletes \/ KubeFails)
    /\ WF_vars(\E n \in Node : Return(n) \/ Rejoin(n))
    /\ WF_vars(\E p \in Plan, n \in Node : JobSucceeds(p, n) \/ JobFails(p, n))
    /\ WF_vars(KubeJobEnds)
    /\ WF_vars(WindowMoves)

FairSpec == Spec /\ Fairness

-------------------------------------------------------------------------------
(***************************************************************************)
(* Properties.                                                             *)
(***************************************************************************)
\* Left while a Job ran on it and not yet back: the reboot the slot is for.
Rebooting(n) == node[n].state \in {"down", "joining"} /\ ~node[n].stray
Away(n) == Rebooting(n) \/ ~Unused(n)

\* Control-plane nodes are upgraded one at a time across every plan: from the
\* creation of its Job until the machine has rejoined no other one is touched,
\* although plans take turns while Jobs are unfinished (a suspended plan, a
\* failed read) and labels get lost. A machine that accepted an upgrade and
\* outlives its Job, which fails, holds no slot: its late reboot is not counted.
OneControlPlaneAway == \A c, d \in ControlPlane : Away(c) /\ Away(d) => c = d

\* What the control-plane slot and the health gate said before a drain, which
\* takes minutes, still holds when the Job of a control-plane node is created:
\* the node is alone in its batch and no other control-plane node is away, but
\* for a late reboot.
DrainedSlotStaysFree ==
    /\ IsBatch(worker.batch)
    /\ \A c \in worker.batch \cap ControlPlane, d \in ControlPlane : Away(d) => d = c

\* A KubernetesUpgrade passes its coordination check only when no machine is
\* being upgraded and all are back from it, also in the gaps between the batches
\* of a plan. A failed plan and one outside its window do not hold it up.
KubePassesCheck == kube'.checking /\ ~kube.checking /\ ~IsActive(kube.phase)
NoneAway == \A n \in Node : ~Away(n)
KubernetesFindsClusterUp ==
    [][/\ KubePassesCheck
       /\ faults = 0
       /\ \A p \in Plan : run[p].phase \notin {"Failed", "MaintenanceWindow"}
       => NoneAway]_vars

\* Waiting for each other never becomes a deadlock: once users leave the
\* upgrades alone, every one of them ends.
EverythingEnds ==
    /\ \A p \in Plan : IsTerminal(run[p].phase)
    /\ Upgrades = 1 => IsTerminal(kube.phase)
EverythingSettles ==
    <>[](suspended = {}) /\ [](faults = 0) => <>[]EverythingEnds

-------------------------------------------------------------------------------
(***************************************************************************)
(* What the documentation says and the code does not do in every case.     *)
(***************************************************************************)
\* "A TalosUpgrade and a KubernetesUpgrade cannot run at the same time."
KindsExclude == kube.job = "running" => \A p \in Plan : Running(p) = {}
===============================================================================
