------------------------ MODULE KubernetesUpgrade_proofs ------------------------
(***************************************************************************)
(* Theorems of KubernetesUpgrade for every cluster and every bound.        *)
(***************************************************************************)
EXTENDS KubernetesUpgrade, TLAPS

-------------------------------------------------------------------------------
(***************************************************************************)
(* Types.                                                                  *)
(***************************************************************************)
Job == [state : JobState, target : Version,
        cycle : 0..MaxCompletionCycles, scope : SUBSET Node, answered : BOOLEAN]

LEMMA VersionType == 0 \in Version /\ Targets \subseteq Version /\ FirstTarget \in Version
BY TargetsAssumption DEF Version

LEMMA NoJobType == NoJob \in Job
BY VersionType, BoundsAssumption DEF NoJob, Job, JobState

Pass == [generation : 0..MaxGeneration, target : Version, cleared : BOOLEAN]

LEMMA NoPassType == NoPass \in Pass
BY VersionType, BoundsAssumption DEF NoPass, Pass

LEMMA SpecType ==
    ASSUME TypeOK
    PROVE  /\ spec.generation \in 0..MaxGeneration
           /\ spec.target \in Version
BY VersionType, BoundsAssumption DEF TypeOK

LEMMA WrittenType ==
    ASSUME TypeOK, NEW p \in Phase, NEW g \in 0..MaxGeneration
    PROVE  Written(p, g) \in Status
BY DEF TypeOK, Status, Written

LEMMA InPhaseType ==
    ASSUME TypeOK, NEW p \in Phase
    PROVE  InPhase(p) \in Status
BY SpecType, WrittenType DEF InPhase

LEMMA PassPhaseType ==
    ASSUME TypeOK, NEW p \in Phase
    PROVE  PassPhase(p) \in Status
<1>1. checking.generation \in 0..MaxGeneration
  BY DEF TypeOK
<1> QED
  BY <1>1, WrittenType DEF PassPhase

LEMMA RestartedType ==
    ASSUME TypeOK, NEW c \in 0..MaxCompletionCycles
    PROVE  Restarted(c) \in Status
BY SpecType DEF Status, Restarted, Phase

LEMMA FaultType ==
    ASSUME TypeOK, Fault
    PROVE  faults' \in 0..MaxFaults
BY BoundsAssumption DEF TypeOK, Fault

LEMMA WriteStatusType ==
    ASSUME TypeOK, NEW s \in Status, WriteStatus(s)
    PROVE  TypeOK'
BY DEF TypeOK, WriteStatus, jobs, cluster, gates, users

LEMMA CleanupType ==
    ASSUME TypeOK, NEW j \in Slot, Cleanup(j)
    PROVE  job' \in [Slot -> Job]
BY NoJobType DEF TypeOK, Cleanup, Job

LEMMA JobActsType ==
    ASSUME TypeOK, NEW j \in Slot, NEW s \in JobState, JobActs(j, s)
    PROVE  job' \in [Slot -> Job]
BY DEF TypeOK, JobActs, Job

LEMMA CreateJobType ==
    ASSUME TypeOK, NEW j \in Slot, NEW a \in BOOLEAN, CreateJob(j, a)
    PROVE  /\ job' \in [Slot -> Job]
           /\ windowOpen' \in BOOLEAN /\ otherActive' \in BOOLEAN
           /\ lateStarts' \in Nat
<1> DEFINE new == [state |-> "running", target |-> checking.target,
                   cycle |-> status.cycles, scope |-> joined, answered |-> a]
<1>1. new \in Job
  BY DEF TypeOK, Job, JobState, Status
<1>2. job' = [job EXCEPT ![j] = new]
  BY DEF CreateJob
<1>3. job \in [Slot -> Job]
  BY DEF TypeOK, Job
<1>4. job' \in [Slot -> Job]
  <2> HIDE DEF new
  <2> QED
    BY <1>1, <1>2, <1>3
<1>5. windowOpen' \in BOOLEAN /\ otherActive' \in BOOLEAN /\ lateStarts' \in Nat
  BY DEF CreateJob, TypeOK
<1> QED
  BY <1>4, <1>5

LEMMA AfterChecksType ==
    ASSUME TypeOK, NEW s \in Status, AfterChecks(s),
           job' \in [Slot -> Job], faults' \in 0..MaxFaults,
           windowOpen' \in BOOLEAN, otherActive' \in BOOLEAN, lateStarts' \in Nat
    PROVE  TypeOK'
BY NoPassType DEF TypeOK, AfterChecks, Job, Pass, cluster, users

LEMMA InitType == Init => TypeOK
<1> SUFFICES ASSUME Init PROVE TypeOK
  OBVIOUS
<1>1. spec \in [generation : 1..MaxGeneration, target : Targets]
  BY BoundsAssumption, TargetsAssumption DEF Init
<1>2. status \in Status
  BY BoundsAssumption DEF Init, Status, Phase, NoPhase
<1>3. job \in [Slot -> Job]
  BY NoJobType DEF Init
<1>4. checking \in Pass
  BY NoPassType DEF Init
<1>5. kubelet \in [Node -> Version] /\ apiServer \in Version
  BY VersionType DEF Init
<1>6. faults \in 0..MaxFaults
  BY BoundsAssumption DEF Init
<1> QED
  BY <1>1, <1>2, <1>3, <1>4, <1>5, <1>6 DEF Init, TypeOK, Job, Pass

LEMMA GatesType ==
    ASSUME TypeOK, Gates
    PROVE  TypeOK'
<1>1. CASE PassSuspended
  BY <1>1, InPhaseType, WriteStatusType DEF PassSuspended, Phase
<1>2. CASE PassReset
  <2>1. 0 \in 0..MaxCompletionCycles
    BY BoundsAssumption
  <2>2. status' \in Status
    BY <1>2, <2>1, RestartedType DEF PassReset, TypeOK
  <2>3. faults' \in 0..MaxFaults
    BY <1>2, FaultType DEF PassReset, TypeOK
  <2>4. annotation' \in [suspend : BOOLEAN, reset : BOOLEAN]
    BY <1>2 DEF PassReset, TypeOK
  <2> QED
    BY <1>2, <2>2, <2>3, <2>4 DEF PassReset, TypeOK, jobs, cluster, gates
<1>3. CASE PassSpecChange
  BY <1>3, RestartedType, WriteStatusType, BoundsAssumption DEF PassSpecChange
<1>4. CASE RestartCampaign
  <2>1. status.cycles + 1 \in 0..MaxCompletionCycles
    BY <1>4, BoundsAssumption DEF RestartCampaign, CyclesLeft, TypeOK, Status
  <2> QED
    BY <1>4, <2>1, RestartedType, WriteStatusType DEF RestartCampaign
<1>5. CASE GiveUp
  BY <1>5, InPhaseType, WriteStatusType DEF GiveUp, Phase
<1>6. CASE ParkOutsideWindow
  BY <1>6, InPhaseType, WriteStatusType DEF ParkOutsideWindow, Phase
<1>7. CASE WaitForOtherUpgrade
  BY <1>7, InPhaseType, WriteStatusType DEF WaitForOtherUpgrade, Phase
<1> QED
  BY <1>1, <1>2, <1>3, <1>4, <1>5, <1>6, <1>7 DEF Gates

LEMMA HandleJobType ==
    ASSUME TypeOK, HandleJob
    PROVE  TypeOK'
<1>1. ASSUME NEW j \in Slot, FollowJob(j) PROVE TypeOK'
  BY <1>1, InPhaseType, WriteStatusType DEF FollowJob, Phase
<1>2. ASSUME NEW j \in Slot, CompleteWithJob(j) PROVE TypeOK'
  <2>1. status' \in Status /\ seen' \in SUBSET Slot
    BY <1>2, InPhaseType DEF CompleteWithJob, Phase, Look, Listed
  <2> QED
    BY <1>2, <2>1 DEF CompleteWithJob, TypeOK, cluster, gates, users
<1>3. ASSUME NEW j \in Slot, ContinueAfterJob(j) PROVE TypeOK'
  <2>1. status' \in Status /\ seen' \in SUBSET Slot
    BY <1>3, InPhaseType DEF ContinueAfterJob, Phase, Look, Listed, TypeOK
  <2>2. job' \in [Slot -> Job]
    BY <1>3, CleanupType DEF ContinueAfterJob
  <2>3. faults' \in 0..MaxFaults
    BY <1>3, FaultType DEF ContinueAfterJob, TypeOK
  <2> QED
    BY <1>3, <2>1, <2>2, <2>3 DEF ContinueAfterJob, TypeOK, Job, cluster, gates, users
<1>4. ASSUME NEW j \in Slot, FailWithJob(j) PROVE TypeOK'
  <2>1. status' \in Status /\ seen' \in SUBSET Slot
    BY <1>4, InPhaseType DEF FailWithJob, Phase, Look, Listed
  <2>2. job' \in [Slot -> Job]
    BY <1>4, CleanupType DEF FailWithJob
  <2> QED
    BY <1>4, <2>1, <2>2 DEF FailWithJob, TypeOK, Job, cluster, gates, users
<1>5. CASE ReadFails
  <2>1. status' \in Status /\ faults' \in 0..MaxFaults
    BY <1>5, InPhaseType, FaultType DEF ReadFails, Phase
  <2> QED
    BY <1>5, <2>1 DEF ReadFails, TypeOK, jobs, cluster, gates, users
<1> QED
  BY <1>1, <1>2, <1>3, <1>4, <1>5 DEF HandleJob

LEMMA SameGatesType ==
    ASSUME TypeOK, UNCHANGED gates
    PROVE  windowOpen' \in BOOLEAN /\ otherActive' \in BOOLEAN /\ lateStarts' \in Nat
BY DEF TypeOK, gates

LEMMA WithoutJobType ==
    ASSUME TypeOK, WithoutJob
    PROVE  TypeOK'
<1> USE DEF Phase
<1>0. job \in [Slot -> Job] /\ faults \in 0..MaxFaults /\ status \in Status
  BY DEF TypeOK, Job
<1>1. CASE CompleteWithoutJob
  BY <1>1, InPhaseType, WriteStatusType DEF CompleteWithoutJob
<1>2. CASE BeginHealthChecks
  <2>1. checking' \in Pass
    BY <1>2, SpecType DEF BeginHealthChecks, Pass
  <2> QED
    BY <1>2, <2>1 DEF BeginHealthChecks, TypeOK, Pass, jobs, cluster, gates, users
<1>3. CASE HealthChecksFail
  BY <1>0, <1>3, PassPhaseType, AfterChecksType, SameGatesType DEF HealthChecksFail
<1>4. CASE ParkAfterChecks
  BY <1>0, <1>4, PassPhaseType, AfterChecksType, SameGatesType DEF ParkAfterChecks
<1>5. CASE ClearForStart
  <2>1. status' \in Status /\ faults' \in 0..MaxFaults
    BY <1>0, <1>5, FaultType, PassPhaseType DEF ClearForStart
  <2>2. checking' \in Pass
    BY <1>5 DEF ClearForStart, TypeOK, Pass
  <2> QED
    BY <1>5, <2>1, <2>2 DEF ClearForStart, TypeOK, Pass, jobs, cluster, gates, users
<1>6. ASSUME NEW j \in Slot, StartUpgrade(j) \/ StartUnanswered(j) PROVE TypeOK'
  <2>1. PICK a \in BOOLEAN : CreateJob(j, a)
    BY <1>6 DEF StartUpgrade, StartUnanswered
  <2>2. faults' \in 0..MaxFaults
    BY <1>0, <1>6, FaultType DEF StartUpgrade, StartUnanswered
  <2>3. PassPhase("Upgrading") \in Status /\ PassPhase("Failed") \in Status
    BY PassPhaseType
  <2>4. PICK s \in Status : AfterChecks(s)
    BY <1>0, <1>6, <2>3 DEF StartUpgrade, StartUnanswered
  <2> QED
    BY <2>1, <2>2, <2>4, CreateJobType, AfterChecksType
<1>7. CASE StartFails
  <2>1. faults' \in 0..MaxFaults /\ PassPhase("Failed") \in Status
    BY <1>7, FaultType, PassPhaseType DEF StartFails
  <2> QED
    BY <1>0, <1>7, <2>1, AfterChecksType, SameGatesType DEF StartFails
<1>8. CASE CrashInChecks
  BY <1>0, <1>8, FaultType, AfterChecksType, SameGatesType DEF CrashInChecks
<1> QED
  BY <1>1, <1>2, <1>3, <1>4, <1>5, <1>6, <1>7, <1>8 DEF WithoutJob

LEMMA ClusterType ==
    ASSUME TypeOK, Cluster
    PROVE  TypeOK'
<1> USE DEF OnlyJob, jobs, cluster, gates, users
<1>1. ASSUME NEW j \in Slot, UpgradeApiServer(j) PROVE TypeOK'
  BY <1>1 DEF UpgradeApiServer, TypeOK
<1>2. ASSUME NEW j \in Slot, JobSucceeds(j) \/ JobFails(j) PROVE TypeOK'
  <2>1. job' \in [Slot -> Job]
    BY <1>2, JobActsType DEF JobSucceeds, JobFails, JobState
  <2> QED
    BY <1>2, <2>1 DEF JobSucceeds, JobFails, JobActs, TypeOK, Job
<1>3. ASSUME NEW j \in Slot, JobExpires(j) PROVE TypeOK'
  BY <1>3, NoJobType DEF JobExpires, TypeOK, Job
<1>4. ASSUME NEW j \in Slot, NEW n \in Node, UpgradeKubelet(j, n) PROVE TypeOK'
  BY <1>4 DEF UpgradeKubelet, TypeOK
<1>5. ASSUME NEW n \in Node, NodeJoins(n) PROVE TypeOK'
  BY <1>5, SpecType, VersionType DEF NodeJoins, TypeOK
<1>6. ASSUME NEW n \in Node, NodeReports(n) PROVE TypeOK'
  BY <1>6 DEF NodeReports, TypeOK
<1>7. CASE GatesMove
  BY <1>7 DEF GatesMove, TypeOK
<1> QED
  BY <1>1, <1>2, <1>3, <1>4, <1>5, <1>6, <1>7 DEF Cluster

LEMMA UsersType ==
    ASSUME TypeOK, Users
    PROVE  TypeOK'
<1> USE DEF OnlyUsers, jobs, cluster, gates
<1>1. CASE ToggleSuspend
  BY <1>1 DEF ToggleSuspend, TypeOK
<1>2. CASE RequestReset
  BY <1>2 DEF RequestReset, TypeOK
<1>3. CASE EditSpec
  <2>1. spec' \in [generation : 1..MaxGeneration, target : Targets]
    BY <1>3, BoundsAssumption DEF EditSpec, TypeOK
  <2> QED
    BY <1>3, <2>1 DEF EditSpec, TypeOK
<1> QED
  BY <1>1, <1>2, <1>3 DEF Users

LEMMA StutterType == TypeOK /\ UNCHANGED vars => TypeOK'
BY DEF TypeOK, vars, jobs, cluster, gates, users

LEMMA NextType == TypeOK /\ [Next]_vars => TypeOK'
BY GatesType, HandleJobType, WithoutJobType, ClusterType, UsersType, StutterType DEF Next

\* Every state of the reconciler, its Jobs and its cluster is well typed.
THEOREM TypeCorrect == Spec => []TypeOK
<1>1. Init => TypeOK
  BY InitType
<1>2. TypeOK /\ [Next]_vars => TypeOK'
  BY NextType
<1> QED
  BY <1>1, <1>2, PTL DEF Spec

-------------------------------------------------------------------------------
(***************************************************************************)
(* The inductive invariant. A pass at the health checks has found no Job,  *)
(* talosctl works on the nodes it has found, and what a successful Job has *)
(* upgraded stays as it is for as long as the Job exists.                  *)
(***************************************************************************)
ChecksAlone == checking # NoPass => \A j \in Slot : job[j] = NoJob

NodesStay == Node \ LateNodes \subseteq joined

ScopeInCluster ==
    \A j \in Slot : job[j] # NoJob => /\ Node \ LateNodes \subseteq job[j].scope
                                      /\ job[j].scope \subseteq joined

AtTarget(j) == /\ apiServer = job[j].target
               /\ \A n \in job[j].scope : kubelet[n] = job[j].target
SuccessAtTarget == \A j \in Slot : job[j].state = "succeeded" => AtTarget(j)

JobsInv == NodesStay /\ ScopeInCluster /\ SuccessAtTarget
IInv == TypeOK /\ OneJobAtATime /\ ChecksAlone /\ EndedRunIsIdle /\ JobsInv

\* A pass at the health checks began on a run that is not over, and while the
\* window is open, or a pass has found it open, no Job has started late.
PassIsOpen == ~Idle => ~IsTerminal(status.phase)
StartsCounted == (windowOpen \/ checking.cleared) => lateStarts = 0
Passing == PassIsOpen /\ StartsCounted /\ OneLateStart

LEMMA NoJobIsIdle == NoJob.state = "none"
BY DEF NoJob

LEMMA InitInv == Init => IInv
<1> SUFFICES ASSUME Init PROVE IInv
  OBVIOUS
<1>1. TypeOK
  BY InitType
<1>2. \A j \in Slot : job[j] = NoJob
  BY DEF Init
<1>3. NodesStay
  BY DEF Init, NodesStay
<1> QED
  BY <1>1, <1>2, <1>3, NoJobIsIdle
  DEF IInv, OneJobAtATime, ChecksAlone, EndedRunIsIdle, JobsInv,
      ScopeInCluster, SuccessAtTarget, Running

\* A step that at most deletes Jobs and leaves the cluster alone.
LEMMA FewerJobs ==
    ASSUME IInv, TypeOK', UNCHANGED cluster,
           \A i \in Slot : job'[i] = job[i] \/ job'[i] = NoJob,
           ChecksAlone', EndedRunIsIdle'
    PROVE  IInv'
<1>1. OneJobAtATime'
  BY DEF IInv, OneJobAtATime
<1>2. NodesStay' /\ ScopeInCluster'
  BY DEF IInv, JobsInv, NodesStay, ScopeInCluster, cluster
<1>3. SuccessAtTarget'
  <2> SUFFICES ASSUME NEW j \in Slot, job'[j].state = "succeeded" PROVE AtTarget(j)'
    BY DEF SuccessAtTarget
  <2>1. job'[j] = job[j]
    BY NoJobIsIdle
  <2>2. AtTarget(j)
    BY <2>1 DEF IInv, JobsInv, SuccessAtTarget
  <2> QED
    BY <2>1, <2>2 DEF AtTarget, cluster
<1> QED
  BY <1>1, <1>2, <1>3 DEF IInv, JobsInv

\* A step that leaves Jobs and cluster alone and reports no new end of the run.
LEMMA SameJobs ==
    ASSUME IInv, TypeOK', UNCHANGED <<checking, job, cluster>>,
           \/ IsTerminal(status'.phase) => \A j \in Slot : ~Running(j)
           \/ UNCHANGED status
    PROVE  IInv'
<1>1. ChecksAlone'
  BY DEF IInv, ChecksAlone
<1>2. EndedRunIsIdle'
  BY DEF IInv, EndedRunIsIdle, Running
<1> QED
  BY <1>1, <1>2, FewerJobs

LEMMA TerminalPhases ==
    \A p : IsTerminal(p) <=> p \in {"Completed", "Failed"}
BY DEF IsTerminal

\* What a pass has found is the only Job.
LEMMA FoundIsOnly ==
    ASSUME NEW j \in Slot, Found(j)
    PROVE  /\ Idle
           /\ \A i \in Slot : i # j => job[i] = NoJob
BY DEF Found, Admitted, Working, Settled, Listed

LEMMA GatesInv ==
    ASSUME IInv, Gates, TypeOK'
    PROVE  IInv'
<1>1. UNCHANGED <<checking, job, cluster>>
  BY DEF Gates, PassSuspended, PassReset, PassSpecChange, RestartCampaign, GiveUp,
         ParkOutsideWindow, WaitForOtherUpgrade, WriteStatus, jobs
<1>2. CASE PassSuspended \/ ParkOutsideWindow \/ WaitForOtherUpgrade
  <2>1. \A p : InPhase(p).phase = p
    BY DEF IInv, TypeOK, Status, InPhase, Written
  <2>2. ~IsTerminal(status'.phase)
    BY <1>2, <2>1, TerminalPhases
    DEF PassSuspended, ParkOutsideWindow, WaitForOtherUpgrade, WriteStatus
  <2> QED
    BY <1>1, <2>2, SameJobs
<1>3. CASE PassReset \/ PassSpecChange \/ RestartCampaign
  <2>1. \A c : ~IsTerminal(Restarted(c).phase)
    BY TerminalPhases DEF Restarted
  <2>2. ~IsTerminal(status'.phase) \/ UNCHANGED status
    BY <1>3, <2>1 DEF PassReset, PassSpecChange, RestartCampaign, WriteStatus
  <2> QED
    BY <1>1, <2>2, SameJobs DEF IInv, EndedRunIsIdle
<1>4. CASE GiveUp
  <2>1. \A j \in Slot : ~Running(j)
    BY <1>4, TerminalPhases DEF GiveUp, Recheck, IInv, EndedRunIsIdle
  <2> QED
    BY <1>1, <2>1, SameJobs
<1> QED
  BY <1>2, <1>3, <1>4 DEF Gates

LEMMA HandleJobInv ==
    ASSUME IInv, HandleJob, TypeOK'
    PROVE  IInv'
<1> USE DEF jobs
<1>0. \A p : Written(p, spec.generation).phase = p
  BY DEF IInv, TypeOK, Status, Written
<1>1. ASSUME NEW j \in Slot, FollowJob(j) PROVE IInv'
  <2>1. UNCHANGED <<checking, job, cluster>> /\ ~IsTerminal(status'.phase)
    BY <1>0, <1>1, TerminalPhases DEF FollowJob, WriteStatus, InPhase
  <2> QED
    BY <2>1, SameJobs
<1>2. ASSUME NEW j \in Slot, CompleteWithJob(j) PROVE IInv'
  <2>1. UNCHANGED <<checking, job, cluster>>
    BY <1>2 DEF CompleteWithJob
  <2>2. \A i \in Slot : ~Running(i)
    BY <1>2, FoundIsOnly, NoJobIsIdle DEF CompleteWithJob, Running
  <2> QED
    BY <2>1, <2>2, SameJobs
<1>3. ASSUME NEW j \in Slot, ContinueAfterJob(j) PROVE IInv'
  <2>1. UNCHANGED <<checking, cluster>> /\ checking = NoPass
    BY <1>3, FoundIsOnly DEF ContinueAfterJob, Idle
  <2>2. \A i \in Slot : job'[i] = job[i] \/ job'[i] = NoJob
    BY <1>3 DEF ContinueAfterJob, Cleanup, IInv, TypeOK
  <2>3. ChecksAlone'
    BY <2>1 DEF ChecksAlone, NoPass
  <2>4. \A i \in Slot : ~Running(i)'
    BY <1>3, <2>2, FoundIsOnly, NoJobIsIdle DEF ContinueAfterJob, Running
  <2> QED
    BY <2>1, <2>2, <2>3, <2>4, FewerJobs DEF EndedRunIsIdle
<1>4. ASSUME NEW j \in Slot, FailWithJob(j) PROVE IInv'
  <2>1. UNCHANGED <<checking, cluster>> /\ checking = NoPass
    BY <1>4, FoundIsOnly DEF FailWithJob, Idle
  <2>2. \A i \in Slot : job'[i] = job[i] \/ job'[i] = NoJob
    BY <1>4 DEF FailWithJob, Cleanup, IInv, TypeOK
  <2>3. ChecksAlone'
    BY <2>1 DEF ChecksAlone, NoPass
  <2>4. \A i \in Slot : ~Running(i)'
    BY <1>4, <2>2, FoundIsOnly, NoJobIsIdle DEF FailWithJob, Running
  <2> QED
    BY <2>1, <2>2, <2>3, <2>4, FewerJobs DEF EndedRunIsIdle
<1>5. CASE ReadFails
  <2>1. UNCHANGED <<checking, job, cluster>> /\ ~IsTerminal(status'.phase)
    BY <1>0, <1>5, TerminalPhases DEF ReadFails, InPhase
  <2> QED
    BY <2>1, SameJobs
<1> QED
  BY <1>1, <1>2, <1>3, <1>4, <1>5 DEF HandleJob

LEMMA AfterChecksInv ==
    ASSUME IInv, TypeOK', NEW s, AfterChecks(s), UNCHANGED job
    PROVE  IInv'
<1>1. \A j \in Slot : job'[j] = NoJob
  BY DEF IInv, ChecksAlone, AfterChecks, Idle
<1> QED
  BY <1>1, NoJobIsIdle, FewerJobs DEF AfterChecks, ChecksAlone, EndedRunIsIdle, Running

\* A run is over beside the Job it has created only when the answer was lost.
LEMMA StartUpgradeInv ==
    ASSUME IInv, Passing, TypeOK', NEW j \in Slot,
           StartUpgrade(j) \/ StartUnanswered(j)
    PROVE  IInv'
<1>0. PICK a \in BOOLEAN : CreateJob(j, a) /\ AfterChecks(status')
  BY DEF StartUpgrade, StartUnanswered, AfterChecks
<1>1. \A i \in Slot : job[i] = NoJob
  BY <1>0 DEF AfterChecks, IInv, ChecksAlone, Idle
<1>2. \A i \in Slot : i # j => job'[i] = NoJob
  BY <1>0, <1>1 DEF CreateJob, IInv, TypeOK
<1>3. job'[j].state = "running" /\ job'[j].scope = joined /\ job'[j].answered = a
  BY <1>0 DEF CreateJob, IInv, TypeOK
<1>4. UNCHANGED cluster /\ checking' = NoPass
  BY <1>0 DEF AfterChecks
<1>5. OneJobAtATime' /\ ChecksAlone'
  BY <1>2, <1>4 DEF OneJobAtATime, ChecksAlone
<1>6. EndedRunIsIdle'
  <2>1. CASE StartUnanswered(j)
    <3>1. status'.phase = "Failed" /\ ~job'[j].answered
      BY <2>1
      DEF StartUnanswered, CreateJob, AfterChecks, PassPhase, Written, IInv, TypeOK, Status
    <3> QED
      BY <1>2, <3>1, NoJobIsIdle DEF EndedRunIsIdle, Running
  <2>2. CASE StartUpgrade(j) /\ status' = PassPhase("Upgrading")
    <3>1. ~IsTerminal(status'.phase)
      BY <2>2, TerminalPhases DEF PassPhase, Written, IInv, TypeOK, Status
    <3> QED
      BY <3>1 DEF EndedRunIsIdle
  <2>3. CASE StartUpgrade(j) /\ status' = status
    <3>1. ~IsTerminal(status.phase)
      BY <1>0 DEF AfterChecks, Passing, PassIsOpen
    <3> QED
      BY <2>3, <3>1 DEF EndedRunIsIdle
  <2> QED
    BY <2>1, <2>2, <2>3 DEF StartUpgrade, AfterChecks
<1>7. NodesStay' /\ ScopeInCluster'
  BY <1>2, <1>3, <1>4 DEF IInv, JobsInv, NodesStay, ScopeInCluster, cluster
<1>8. SuccessAtTarget'
  BY <1>2, <1>3, NoJobIsIdle DEF SuccessAtTarget
<1> QED
  BY <1>5, <1>6, <1>7, <1>8 DEF IInv, JobsInv

LEMMA WithoutJobInv ==
    ASSUME IInv, Passing, WithoutJob, TypeOK'
    PROVE  IInv'
<1> USE DEF jobs
<1>1. CASE CompleteWithoutJob
  <2>1. \A j \in Slot : ~Running(j)
    BY <1>1, NoJobIsIdle DEF CompleteWithoutJob, Listed, Running
  <2> QED
    BY <1>1, <2>1, SameJobs DEF CompleteWithoutJob, WriteStatus
<1>2. CASE BeginHealthChecks
  <2>1. \A j \in Slot : job'[j] = NoJob
    BY <1>2 DEF BeginHealthChecks, Listed
  <2>2. UNCHANGED <<job, cluster>>
    BY <1>2 DEF BeginHealthChecks
  <2> QED
    BY <2>1, <2>2, NoJobIsIdle, FewerJobs DEF ChecksAlone, EndedRunIsIdle, Running
<1>3. CASE HealthChecksFail
  BY <1>3, AfterChecksInv DEF HealthChecksFail
<1>4. CASE ParkAfterChecks
  BY <1>4, AfterChecksInv DEF ParkAfterChecks
<1>5. CASE ClearForStart
  <2>1. UNCHANGED <<job, cluster>> /\ ~Idle
    BY <1>5 DEF ClearForStart
  <2>2. \A j \in Slot : job[j] = NoJob
    BY <2>1 DEF IInv, ChecksAlone, Idle
  <2> QED
    BY <2>1, <2>2, NoJobIsIdle, FewerJobs DEF ChecksAlone, EndedRunIsIdle, Running
<1>6. ASSUME NEW j \in Slot, StartUpgrade(j) \/ StartUnanswered(j) PROVE IInv'
  BY <1>6, StartUpgradeInv
<1>7. CASE StartFails
  BY <1>7, AfterChecksInv DEF StartFails
<1>8. CASE CrashInChecks
  BY <1>8, AfterChecksInv DEF CrashInChecks
<1> QED
  BY <1>1, <1>2, <1>3, <1>4, <1>5, <1>6, <1>7, <1>8 DEF WithoutJob

LEMMA UsersInv ==
    ASSUME IInv, Users, TypeOK'
    PROVE  IInv'
<1>1. UNCHANGED <<status, checking, job, cluster>>
  BY DEF Users, ToggleSuspend, RequestReset, EditSpec, OnlyUsers, jobs
<1> QED
  BY <1>1, SameJobs DEF IInv, EndedRunIsIdle

LEMMA StutterInv == IInv /\ UNCHANGED vars /\ TypeOK' => IInv'
<1> SUFFICES ASSUME IInv, UNCHANGED vars, TypeOK' PROVE IInv'
  OBVIOUS
<1>1. UNCHANGED <<status, checking, job, cluster>>
  BY DEF vars, jobs
<1> QED
  BY <1>1, SameJobs DEF IInv, EndedRunIsIdle

\* While a Job runs the other slots are empty.
LEMMA RunningIsOnly ==
    ASSUME IInv, NEW j \in Slot, Running(j)
    PROVE  /\ job[j] # NoJob
           /\ \A i \in Slot : i # j => job[i] = NoJob
           /\ checking = NoPass
<1>1. job[j] # NoJob
  BY NoJobIsIdle DEF Running
<1> QED
  BY <1>1 DEF IInv, OneJobAtATime, ChecksAlone

\* While a Job runs no Job has succeeded, so the cluster may change under it.
LEMMA ClusterUpgradeInv ==
    ASSUME IInv, TypeOK', NEW j \in Slot, Running(j),
           UNCHANGED <<status, checking, job, joined>>
    PROVE  IInv'
<1>1. \A i \in Slot : job[i].state # "succeeded"
  BY RunningIsOnly, NoJobIsIdle DEF Running
<1>2. SuccessAtTarget'
  BY <1>1 DEF SuccessAtTarget
<1>3. OneJobAtATime' /\ ChecksAlone' /\ EndedRunIsIdle'
  BY DEF IInv, OneJobAtATime, ChecksAlone, EndedRunIsIdle, Running
<1>4. NodesStay' /\ ScopeInCluster'
  BY DEF IInv, JobsInv, NodesStay, ScopeInCluster
<1> QED
  BY <1>2, <1>3, <1>4 DEF IInv, JobsInv

LEMMA JobEndsInv ==
    ASSUME IInv, TypeOK', NEW j \in Slot, JobSucceeds(j) \/ JobFails(j)
    PROVE  IInv'
<1>1. Running(j) /\ UNCHANGED <<status, checking, cluster>>
  BY DEF JobSucceeds, JobFails, OnlyJob
<1>2. PICK s \in {"succeeded", "failed"} :
        /\ job' = [job EXCEPT ![j].state = s]
        /\ s = "succeeded" => AtTarget(j)
  BY DEF JobSucceeds, JobFails, JobActs, AtTarget
<1>3. \A i \in Slot : i # j => job'[i] = job[i]
  BY <1>2 DEF IInv, TypeOK
<1>4. /\ job'[j].state = s
      /\ job'[j].target = job[j].target
      /\ job'[j].scope = job[j].scope
  BY <1>2 DEF IInv, TypeOK
<1>5. \A i \in Slot : i # j => job'[i] = NoJob
  BY <1>1, <1>3, RunningIsOnly
<1>6. OneJobAtATime' /\ ChecksAlone' /\ EndedRunIsIdle'
  <2>1. \A i \in Slot : ~Running(i)'
    BY <1>2, <1>4, <1>5, NoJobIsIdle DEF Running
  <2> QED
    BY <1>1, <1>5, <2>1, RunningIsOnly DEF OneJobAtATime, ChecksAlone, EndedRunIsIdle
<1>7. NodesStay' /\ ScopeInCluster'
  BY <1>1, <1>4, <1>5, RunningIsOnly
  DEF IInv, JobsInv, NodesStay, ScopeInCluster, cluster
<1>8. SuccessAtTarget'
  BY <1>1, <1>2, <1>4, <1>5, NoJobIsIdle DEF SuccessAtTarget, AtTarget, cluster
<1> QED
  BY <1>6, <1>7, <1>8 DEF IInv, JobsInv

\* A node that joins is in the scope of no Job that exists.
LEMMA NodeJoinsInv ==
    ASSUME IInv, TypeOK', NEW n \in Node, NodeJoins(n)
    PROVE  IInv'
<1>1. UNCHANGED <<status, checking, job, apiServer>>
  BY DEF NodeJoins, jobs
<1>2. n \notin joined /\ joined' = joined \cup {n}
  BY DEF NodeJoins
<1>3. \A m \in Node : m # n => kubelet'[m] = kubelet[m]
  BY DEF NodeJoins, IInv, TypeOK
<1>4. OneJobAtATime' /\ ChecksAlone' /\ EndedRunIsIdle'
  BY <1>1 DEF IInv, OneJobAtATime, ChecksAlone, EndedRunIsIdle, Running
<1>5. NodesStay' /\ ScopeInCluster'
  BY <1>1, <1>2 DEF IInv, JobsInv, NodesStay, ScopeInCluster
<1>6. SuccessAtTarget'
  <2> SUFFICES ASSUME NEW j \in Slot, job[j].state = "succeeded" PROVE AtTarget(j)'
    BY <1>1 DEF SuccessAtTarget
  <2>1. AtTarget(j) /\ job[j].scope \subseteq joined
    BY NoJobIsIdle DEF IInv, JobsInv, SuccessAtTarget, ScopeInCluster
  <2>2. joined \subseteq Node
    BY DEF IInv, TypeOK
  <2> QED
    BY <1>1, <1>2, <1>3, <2>1, <2>2 DEF AtTarget
<1> QED
  BY <1>4, <1>5, <1>6 DEF IInv, JobsInv

LEMMA ClusterInv ==
    ASSUME IInv, Cluster, TypeOK'
    PROVE  IInv'
<1> USE DEF jobs
<1>1. ASSUME NEW j \in Slot, UpgradeApiServer(j) PROVE IInv'
  BY <1>1, ClusterUpgradeInv DEF UpgradeApiServer
<1>2. ASSUME NEW j \in Slot, JobSucceeds(j) \/ JobFails(j) PROVE IInv'
  BY <1>2, JobEndsInv
<1>3. ASSUME NEW j \in Slot, JobExpires(j) PROVE IInv'
  <2>1. UNCHANGED <<status, checking, cluster>>
    BY <1>3 DEF JobExpires, OnlyJob
  <2>2. \A i \in Slot : job'[i] = job[i] \/ job'[i] = NoJob
    BY <1>3 DEF JobExpires, IInv, TypeOK
  <2>3. ChecksAlone' /\ EndedRunIsIdle'
    BY <2>1, <2>2, NoJobIsIdle DEF IInv, ChecksAlone, EndedRunIsIdle, Running
  <2> QED
    BY <2>1, <2>2, <2>3, FewerJobs
<1>4. ASSUME NEW j \in Slot, NEW n \in Node, UpgradeKubelet(j, n) PROVE IInv'
  BY <1>4, ClusterUpgradeInv DEF UpgradeKubelet
<1>5. ASSUME NEW n \in Node, NodeJoins(n) PROVE IInv'
  BY <1>5, NodeJoinsInv
<1>6. ASSUME NEW n \in Node, NodeReports(n) PROVE IInv'
  BY <1>6 DEF NodeReports, IInv, OneJobAtATime, ChecksAlone, EndedRunIsIdle, Running,
              JobsInv, NodesStay, ScopeInCluster, SuccessAtTarget, AtTarget
<1>7. CASE GatesMove
  <2>1. UNCHANGED <<status, checking, job, cluster>>
    BY <1>7 DEF GatesMove
  <2> QED
    BY <2>1, SameJobs DEF IInv, EndedRunIsIdle
<1> QED
  BY <1>1, <1>2, <1>3, <1>4, <1>5, <1>6, <1>7 DEF Cluster

\* A step that neither moves the gates nor lets a pass go on.
LEMMA SameGates ==
    ASSUME Passing, UNCHANGED gates,
           checking' = NoPass \/ UNCHANGED <<status, checking>>
    PROVE  Passing'
BY DEF Passing, PassIsOpen, StartsCounted, OneLateStart, Idle, NoPass, gates

LEMMA CreateJobPassing ==
    ASSUME TypeOK, Passing, NEW j \in Slot, StartUpgrade(j) \/ StartUnanswered(j)
    PROVE  Passing'
<1>1. PICK a \in BOOLEAN : CreateJob(j, a) /\ AfterChecks(status')
  BY DEF StartUpgrade, StartUnanswered, AfterChecks
<1>2. lateStarts = 0 /\ checking' = NoPass /\ windowOpen' = windowOpen
  BY <1>1 DEF CreateJob, AfterChecks, Passing, StartsCounted
<1>3. lateStarts' \in {0, 1} /\ (windowOpen => lateStarts' = 0)
  BY <1>1, <1>2 DEF CreateJob
<1> QED
  BY <1>2, <1>3 DEF Passing, PassIsOpen, StartsCounted, OneLateStart, Idle, NoPass

LEMMA WithoutJobPassing ==
    ASSUME TypeOK, Passing, WithoutJob
    PROVE  Passing'
<1>1. CASE CompleteWithoutJob
  BY <1>1, SameGates DEF CompleteWithoutJob, WriteStatus, Admitted, Working, Settled, Idle
<1>2. CASE BeginHealthChecks
  <2>1. ~IsTerminal(status'.phase) /\ ~checking'.cleared /\ UNCHANGED gates
    BY <1>2 DEF BeginHealthChecks, Admitted, Working
  <2> QED
    BY <2>1 DEF Passing, PassIsOpen, StartsCounted, OneLateStart, gates
<1>3. CASE HealthChecksFail \/ ParkAfterChecks \/ StartFails \/ CrashInChecks
  BY <1>3, SameGates
  DEF HealthChecksFail, ParkAfterChecks, StartFails, CrashInChecks, AfterChecks
<1>4. CASE ClearForStart
  <2>1. ~IsTerminal(status'.phase)
    BY <1>4, TerminalPhases
    DEF ClearForStart, Passing, PassIsOpen, PassPhase, Written, TypeOK, Status
  <2>2. windowOpen /\ UNCHANGED gates
    BY <1>4 DEF ClearForStart, WindowClosed
  <2> QED
    BY <2>1, <2>2 DEF Passing, PassIsOpen, StartsCounted, OneLateStart, gates
<1>5. ASSUME NEW j \in Slot, StartUpgrade(j) \/ StartUnanswered(j) PROVE Passing'
  BY <1>5, CreateJobPassing
<1> QED
  BY <1>1, <1>2, <1>3, <1>4, <1>5 DEF WithoutJob

LEMMA NextPassing == TypeOK /\ Passing /\ [Next]_vars => Passing'
<1> SUFFICES ASSUME TypeOK, Passing, [Next]_vars PROVE Passing'
  OBVIOUS
<1>1. CASE Gates
  BY <1>1, SameGates
  DEF Gates, PassSuspended, PassReset, PassSpecChange, RestartCampaign, GiveUp, Recheck,
      ParkOutsideWindow, WaitForOtherUpgrade, WriteStatus, Working, Settled, Idle
<1>2. CASE HandleJob
  BY <1>2, SameGates
  DEF HandleJob, FollowJob, CompleteWithJob, ContinueAfterJob, FailWithJob, ReadFails,
      Recheck, WriteStatus, Found, Admitted, Working, Settled, Idle
<1>3. CASE WithoutJob
  BY <1>3, WithoutJobPassing
<1>4. CASE GatesMove
  <2>1. UNCHANGED <<status, checking>>
    BY <1>4 DEF GatesMove
  <2>2. lateStarts' \in {0, lateStarts} /\ (windowOpen' => lateStarts' = 0)
    BY <1>4 DEF GatesMove
  <2> QED
    BY <2>1, <2>2 DEF Passing, PassIsOpen, StartsCounted, OneLateStart, Idle
<1>5. CASE (Cluster /\ ~GatesMove) \/ Users \/ UNCHANGED vars
  BY <1>5, SameGates
  DEF Cluster, UpgradeApiServer, UpgradeKubelet, JobSucceeds, JobFails, JobExpires,
      NodeJoins, NodeReports, OnlyJob, Users, ToggleSuspend, RequestReset, EditSpec,
      OnlyUsers, vars
<1> QED
  BY <1>1, <1>2, <1>3, <1>4, <1>5 DEF Next

LEMMA NextInv == IInv /\ Passing /\ [Next]_vars => IInv'
<1> SUFFICES ASSUME IInv, Passing, [Next]_vars PROVE IInv'
  OBVIOUS
<1>1. TypeOK'
  BY NextType DEF IInv
<1> QED
  BY <1>1, GatesInv, HandleJobInv, WithoutJobInv, ClusterInv, UsersInv, StutterInv
  DEF Next

LEMMA Invariant == Spec => [](IInv /\ Passing)
<1>1. Init => IInv /\ Passing
  BY InitInv DEF Init, Passing, PassIsOpen, StartsCounted, OneLateStart, Idle
<1>2. (IInv /\ Passing) /\ [Next]_vars => (IInv /\ Passing)'
  BY NextInv, NextPassing DEF IInv
<1> QED
  BY <1>1, <1>2, PTL DEF Spec

-------------------------------------------------------------------------------
(***************************************************************************)
(* What the invariant gives.                                               *)
(***************************************************************************)

\* There is never a second upgrade Job, whatever users, crashes and lost status
\* writes do between the passes that look for one by its label.
THEOREM OneJob == Spec => []OneJobAtATime
<1>1. IInv => OneJobAtATime
  BY DEF IInv
<1> QED
  BY <1>1, Invariant, PTL

\* A run reported as Completed has left no talosctl running, and one reported as
\* Failed only when it could not know of the Job: the answer to its creation was
\* lost, and no pass has come by since.
THEOREM EndedIsIdle == Spec => []EndedRunIsIdle
<1>1. IInv => EndedRunIsIdle
  BY DEF IInv
<1> QED
  BY <1>1, Invariant, PTL

-------------------------------------------------------------------------------
(***************************************************************************)
(* How a run completes.                                                    *)
(***************************************************************************)

\* The control-plane node the cluster started with is in the scope of the Job
\* that has been found, so its kubelet ties the Job's version to the spec's.
LEMMA CompleteWithJobAtTarget ==
    ASSUME IInv, NEW j \in Slot, CompleteWithJob(j)
    PROVE  TargetReached
<1>1. job[j] # NoJob /\ AtTarget(j)
  BY NoJobIsIdle DEF CompleteWithJob, IInv, JobsInv, SuccessAtTarget
<1>2. PICK c \in ControlPlane : c \in Node \ LateNodes
  BY NodesAssumption
<1>3. c \in joined /\ c \in job[j].scope
  BY <1>1, <1>2 DEF IInv, JobsInv, NodesStay, ScopeInCluster
<1>4. kubelet[c] = spec.target /\ kubelet[c] = job[j].target
  BY <1>1, <1>2, <1>3 DEF CompleteWithJob, ControlPlaneUpgraded, AtTarget
<1> QED
  BY <1>1, <1>4 DEF CompleteWithJob, ControlPlaneUpgraded, AtTarget, TargetReached

LEMMA CompleteWithoutJobAtTarget ==
    ASSUME CompleteWithoutJob
    PROVE  TargetReached
BY DEF CompleteWithoutJob, Lagging, TargetReached

\* Every other step leaves the run as it is or in another phase.
LEMMA OtherStepsComplete ==
    ASSUME IInv, [Next]_vars, ~CompleteWithoutJob,
           \A j \in Slot : ~CompleteWithJob(j)
    PROVE  ~Completes
<1>0. /\ \A p : InPhase(p).phase = p /\ PassPhase(p).phase = p
      /\ \A c : Restarted(c).phase = "Pending"
  BY DEF IInv, TypeOK, Status, InPhase, PassPhase, Written, Restarted
<1>1. CASE Gates
  BY <1>0, <1>1
  DEF Gates, PassSuspended, PassReset, PassSpecChange, RestartCampaign, GiveUp,
      ParkOutsideWindow, WaitForOtherUpgrade, WriteStatus, Completes
<1>2. CASE HandleJob
  BY <1>0, <1>2
  DEF HandleJob, FollowJob, ContinueAfterJob, FailWithJob, ReadFails, WriteStatus,
      Completes
<1>3. CASE WithoutJob
  BY <1>0, <1>3
  DEF WithoutJob, BeginHealthChecks, HealthChecksFail, ParkAfterChecks, ClearForStart,
      StartUpgrade, StartUnanswered, StartFails, CrashInChecks, AfterChecks, Completes
<1>4. CASE Cluster \/ Users \/ UNCHANGED vars
  <2>1. UNCHANGED status
    BY <1>4
    DEF Cluster, UpgradeApiServer, UpgradeKubelet, JobSucceeds, JobFails, JobExpires,
        NodeJoins, NodeReports, GatesMove, OnlyJob, Users, ToggleSuspend,
        RequestReset, EditSpec, OnlyUsers, vars
  <2> QED
    BY <2>1 DEF Completes
<1> QED
  BY <1>1, <1>2, <1>3, <1>4 DEF Next

\* A run completes only in a cluster whose API server and reporting control
\* plane have the target version, although the pass that finds a successful Job
\* looks at the kubelets alone.
THEOREM CompletedAtTarget == Spec => CompletesAtTarget
<1>1. IInv /\ [Next]_vars => [Completes => TargetReached]_vars
  BY CompleteWithJobAtTarget, CompleteWithoutJobAtTarget, OtherStepsComplete
<1> QED
  BY <1>1, Invariant, PTL DEF Spec, CompletesAtTarget

-------------------------------------------------------------------------------
(***************************************************************************)
(* When a Job starts.                                                      *)
(***************************************************************************)

\* After a window has closed at most one more Job starts: whatever the run does,
\* no pass that begins after it gets to its Job before the next window.
THEOREM OneStartIsLate == Spec => []OneLateStart
<1>1. Passing => OneLateStart
  BY DEF Passing
<1> QED
  BY <1>1, Invariant, PTL
===============================================================================
