-------------------------- MODULE TalosUpgrade_proofs -------------------------
(***************************************************************************)
(* Theorems of TalosUpgrade for every cluster, plan and bound, whatever    *)
(* users do and whatever fails: the types, the safety of the batches, and  *)
(* the proof that TalosUpgrade implements UpgradeCampaign.                 *)
(***************************************************************************)
EXTENDS TalosUpgrade, NextBatch_proofs

-------------------------------------------------------------------------------
(***************************************************************************)
(* Types.                                                                  *)
(***************************************************************************)
LEMMA VersionType == 0 \in Version /\ Targets \subseteq Version
BY DEF Version

LEMMA NoJobType == NoJob \in [state : JobState, target : Version]
BY VersionType DEF NoJob, JobState

LEMMA InitType == Init => TypeOK
<1> SUFFICES ASSUME Init PROVE TypeOK
  OBVIOUS
<1>1. spec \in [generation : 1..MaxGeneration, target : Targets]
  BY BoundsAssumption DEF Init
<1>2. status \in Status
  BY BoundsAssumption, HooksAssumption, CyclesAssumption
  DEF Init, Status, Phase, NoPhase
<1>3. node \in [Node -> [version : Version, boot : Version, state : NodeState]]
  BY VersionType DEF Init, NodeState
<1>4. job \in [Node -> [state : JobState, target : Version]]
  BY NoJobType DEF Init
<1>5. hookJob \in [Hook -> HookState]
  BY DEF Init, HookState
<1>6. faults \in 0..MaxFaults
  BY BoundsAssumption DEF Init
<1> QED
  BY <1>1, <1>2, <1>3, <1>4, <1>5, <1>6, LateAssumption DEF Init, TypeOK

LEMMA PhaseType ==
    ASSUME TypeOK, NEW p \in Phase
    PROVE  InPhase(p) \in Status
BY DEF TypeOK, Status, InPhase

LEMMA StampedType ==
    ASSUME TypeOK, NEW s \in Status
    PROVE  Stamped(s) \in Status
<1>1. spec.generation \in 0..MaxGeneration
  BY BoundsAssumption DEF TypeOK
<1> QED
  BY <1>1 DEF Status, Stamped

LEMMA RestartedType ==
    ASSUME TypeOK, NEW c \in 0..MaxCompletionCycles
    PROVE  Restarted(c) \in Status
<1>1. spec.generation \in 0..MaxGeneration
  BY BoundsAssumption DEF TypeOK
<1> QED
  BY <1>1, HooksAssumption DEF Status, Restarted, Phase

LEMMA FinalizedType ==
    ASSUME NEW s \in Status
    PROVE  Finalized(s) \in Status
BY DEF Finalized, FinalPhase, Status, Phase

LEMMA OutcomeType ==
    ASSUME TypeOK, NEW good \in SUBSET Node, NEW bad \in SUBSET Node,
           NEW track \in SUBSET Node, NEW lost
    PROVE  Outcome(good, bad, track, lost) \in Status
BY DEF TypeOK, Status, Outcome

\* A pass that only writes a well-typed status.
LEMMA WriteStatusType ==
    ASSUME TypeOK, NEW s \in Status, WriteStatus(s)
    PROVE  TypeOK'
BY DEF TypeOK, WriteStatus, objects, users, inPass

LEMMA FaultType ==
    ASSUME TypeOK, Fault
    PROVE  faults' \in 0..MaxFaults
BY BoundsAssumption DEF TypeOK, Fault

LEMMA SpendType ==
    ASSUME TypeOK, NEW lost, Spend(lost)
    PROVE  faults' \in 0..MaxFaults
BY FaultType DEF TypeOK, Spend

LEMMA WithoutType ==
    ASSUME TypeOK, NEW S
    PROVE  Without(S) \in [Node -> [state : JobState, target : Version]]
BY NoJobType DEF TypeOK, Without

LEMMA UncordonedType ==
    ASSUME TypeOK, NEW S
    PROVE  Uncordoned(S) \in SUBSET Node
BY DEF TypeOK, Uncordoned

LEMMA AnnotationsType ==
    ASSUME TypeOK, Annotations
    PROVE  TypeOK'
<1>0. Restarted(0) \in Status
  BY RestartedType, CyclesAssumption
<1>1. CASE PassSuspended
  <2>1. Stamped(InPhase("Pending")) \in Status
    BY PhaseType, StampedType DEF Phase
  <2> QED
    BY <1>1, <2>1, WriteStatusType DEF PassSuspended
<1>2. CASE PassReset
  <2>1. annotation' \in [suspend : BOOLEAN, reset : BOOLEAN]
    BY <1>2 DEF PassReset, TypeOK
  <2>2. status' \in Status /\ late' \in SUBSET Node /\ faults' \in 0..MaxFaults
    BY <1>0, <1>2, FaultType DEF PassReset, TypeOK
  <2> QED
    BY <1>2, <2>1, <2>2 DEF PassReset, TypeOK, objects, inPass
<1>3. CASE PassSpecChange
  BY <1>0, <1>3, WriteStatusType DEF PassSpecChange
<1> QED
  BY <1>1, <1>2, <1>3 DEF Annotations

LEMMA CampaignType ==
    ASSUME TypeOK, Campaign
    PROVE  TypeOK'
<1>1. CASE RestartCampaign
  <2>1. status.cycles + 1 \in 0..MaxCompletionCycles
    BY <1>1, CyclesAssumption DEF RestartCampaign, CyclesLeft, TypeOK, Status
  <2> QED
    BY <1>1, <2>1, RestartedType, WriteStatusType DEF RestartCampaign
<1>2. CASE GiveUp
  BY <1>2, PhaseType, WriteStatusType DEF GiveUp, Phase
<1>3. CASE RecheckFails
  <2>1. InPhase("Pending") \in Status
    BY PhaseType DEF Phase
  <2> QED
    BY <1>3, <2>1, FaultType DEF RecheckFails, TypeOK, objects, users, inPass
<1> QED
  BY <1>1, <1>2, <1>3 DEF Campaign

LEMMA HookMember ==
    ASSUME TypeOK, NEW k \in {"pre", "post"}, HookIndex(k) < HookCount(k)
    PROVE  <<k, HookIndex(k)>> \in Hook
<1>1. CASE k = "pre"
  BY <1>1, HooksAssumption DEF TypeOK, Status, Hook, HookIndex, HookCount
<1>2. CASE k = "post"
  BY <1>2, HooksAssumption DEF TypeOK, Status, Hook, HookIndex, HookCount
<1> QED
  BY <1>1, <1>2

LEMMA HooksType ==
    ASSUME TypeOK, Hooks
    PROVE  TypeOK'
<1>1. ASSUME NEW k \in {"pre", "post"}, StartHook(k) PROVE TypeOK'
  <2>1. hookJob' \in [Hook -> HookState]
    BY <1>1, HookMember DEF StartHook, TypeOK, HookState
  <2> QED
    BY <1>1, <2>1 DEF StartHook, TypeOK, users, inPass
<1>2. ASSUME NEW k \in {"pre", "post"}, HandleHook(k) PROVE TypeOK'
  <2>1. hookJob' \in [Hook -> HookState] /\ faults' \in 0..MaxFaults
    BY <1>2, HookMember, FaultType DEF HandleHook, TypeOK, HookState
  <2>2. AtIndex(k, HookIndex(k) + 1) \in Status
    <3>1. CASE k = "pre"
      <4>1. status.preHook + 1 \in 0..PreHooks
        BY <1>2, <3>1, HooksAssumption DEF HandleHook, HookIndex, HookCount, TypeOK, Status
      <4> QED
        BY <3>1, <4>1 DEF AtIndex, HookIndex, TypeOK, Status
    <3>2. CASE k = "post"
      <4>1. status.postHook + 1 \in 0..PostHooks
        BY <1>2, <3>2, HooksAssumption DEF HandleHook, HookIndex, HookCount, TypeOK, Status
      <4> QED
        BY <3>2, <4>1 DEF AtIndex, HookIndex, TypeOK, Status
    <3> QED
      BY <3>1, <3>2
  <2>3. [status EXCEPT !.preHookFailed = TRUE, !.preHook = PreHooks] \in Status
    <3>1. PreHooks \in 0..PreHooks
      BY HooksAssumption
    <3> QED
      BY <3>1 DEF TypeOK, Status
  <2>4. status' \in Status
    BY <1>2, <2>2, <2>3 DEF HandleHook
  <2> QED
    BY <1>2, <2>1, <2>4 DEF HandleHook, TypeOK, users, inPass
<1>3. CASE LeavePreHooks
  <2>1. Finalized(status) \in Status /\ InPhase("Pending") \in Status
    BY PhaseType, FinalizedType DEF TypeOK, Phase
  <2> QED
    BY <1>3, <2>1, WriteStatusType DEF LeavePreHooks
<1>4. CASE LeavePostHooks
  <2>1. InPhase(FinalPhase(status)) \in Status
    BY PhaseType DEF FinalPhase, Phase
  <2> QED
    BY <1>4, <2>1, WriteStatusType DEF LeavePostHooks
<1> QED
  BY <1>1, <1>2, <1>3, <1>4 DEF Hooks

LEMMA ParkType ==
    ASSUME TypeOK,
           Checks \/ ParkForClosedWindow \/ ParkInPending \/ AwaitHealth \/ EnterPreHook
    PROVE  TypeOK'
<1>1. \A p \in {"Pending", "HealthChecking", "MaintenanceWindow", "PreHook"} :
        InPhase(p) \in Status
  BY PhaseType DEF Phase
<1>2. \E s \in Status : WriteStatus(s)
  BY <1>1 DEF Checks, ParkOutsideWindow, WaitForOtherUpgrade, ParkForClosedWindow,
              ParkInPending, AwaitHealth, EnterPreHook
<1> QED
  BY <1>2, WriteStatusType

\* What a pass that settles nodes of the run writes.
LEMMA RecordType ==
    ASSUME TypeOK, NEW good \in SUBSET Node, NEW bad \in SUBSET Node,
           NEW lost, Record(good, bad, lost)
    PROVE  /\ job' \in [Node -> [state : JobState, target : Version]]
           /\ label' \in SUBSET Node
           /\ cordoned' \in SUBSET Node
           /\ seen' \in SUBSET Node
<1>1. job' \in [Node -> [state : JobState, target : Version]] /\ cordoned' \in SUBSET Node
  BY WithoutType, UncordonedType DEF Record
<1> QED
  BY <1>1 DEF Record, TypeOK, ActiveJobs

LEMMA LandedType ==
    ASSUME TypeOK, NEW good \in SUBSET Node, NEW bad \in SUBSET Node,
           NEW track \in SUBSET Node, NEW cut \in SUBSET Node, NEW phase \in Phase,
           Landed(good, bad, track, cut, phase), unsaved' \in SUBSET Node, Fault
    PROVE  TypeOK'
<1>1. /\ job' \in [Node -> [state : JobState, target : Version]]
      /\ label' \in SUBSET Node
      /\ cordoned' \in SUBSET Node
  BY WithoutType, UncordonedType DEF Landed, TypeOK
<1>2. seen' \in SUBSET Node /\ late' \in SUBSET Node
  BY DEF Landed, TypeOK, ActiveJobs
<1>3. status' \in Status /\ faults' \in 0..MaxFaults
  <2>1. Outcome(good, bad, track, NoLoss) \in Status
    BY OutcomeType
  <2>2. status' = [Outcome(good, bad, track, NoLoss) EXCEPT !.phase = phase]
    BY DEF Landed
  <2> QED
    BY <2>1, <2>2, FaultType DEF Status
<1> QED
  BY <1>1, <1>2, <1>3 DEF Landed, TypeOK, users, inPass

LEMMA BatchPhaseType ==
    ASSUME TypeOK, NEW offTarget
    PROVE  BatchPhase(offTarget) \in Phase
BY DEF BatchPhase, TypeOK, Status, Phase

LEMMA BatchJobsType ==
    ASSUME TypeOK, BatchJobs
    PROVE  TypeOK'
<1>1. CASE WaitForJobs
  <2>1. status' \in Status
    BY <1>1, PhaseType DEF WaitForJobs, Phase
  <2>2. seen' \in SUBSET Node
    BY <1>1 DEF WaitForJobs, TypeOK, ActiveJobs
  <2> QED
    BY <1>1, <2>1, <2>2 DEF WaitForJobs, TypeOK, users, inPass
<1>2. CASE HandleFinishedBatch
  <2>1. PICK offTarget \in SUBSET MayHaveFailed, lost \in Losses(ActiveJobs) :
          /\ Record(BatchGood, BatchBad(offTarget), lost)
          /\ status' = [Outcome(BatchGood, BatchBad(offTarget), BatchWaiting(offTarget), lost)
                          EXCEPT !.phase = BatchPhase(offTarget)]
          /\ late' = late \cap status'.rebooting
          /\ Spend(lost)
    BY <1>2 DEF HandleFinishedBatch
  <2>2. /\ BatchGood \in SUBSET Node
        /\ BatchWaiting(offTarget) \in SUBSET Node
        /\ BatchBad(offTarget) \in SUBSET Node
    BY DEF BatchGood, BatchWaiting, BatchBad, MayHaveFailed, ActiveJobs
  <2>3. Outcome(BatchGood, BatchBad(offTarget), BatchWaiting(offTarget), lost) \in Status
    BY <2>2, OutcomeType
  <2>4. status' \in Status
    BY <2>1, <2>3, BatchPhaseType DEF Status
  <2>5. late' \in SUBSET Node /\ faults' \in 0..MaxFaults
    BY <2>1, SpendType DEF TypeOK
  <2> QED
    BY <1>2, <2>1, <2>2, <2>4, <2>5, RecordType DEF HandleFinishedBatch, TypeOK, users, inPass
<1>3. CASE InterruptFinishedBatch
  <2>1. BatchGood \in SUBSET Node
    BY DEF BatchGood, ActiveJobs
  <2>0. status.phase \in Phase /\ unsaved' \in SUBSET Node
    BY <1>3 DEF InterruptFinishedBatch, TypeOK, Status
  <2>2. CASE \E good \in SUBSET BatchGood : \E cut \in AtMostOne(BatchGood \ good) :
               Landed(good, {}, {}, cut, status.phase)
    BY <1>3, <2>0, <2>1, <2>2, LandedType DEF InterruptFinishedBatch, AtMostOne
  <2>3. CASE \E offTarget \in SUBSET MayHaveFailed :
             \E bad \in SUBSET BatchBad(offTarget) :
             \E cut \in AtMostOne(BatchBad(offTarget) \ bad) :
               Landed(BatchGood, bad, BatchWaiting(offTarget), cut, status.phase)
    <3>1. PICK offTarget \in SUBSET MayHaveFailed :
            \E bad \in SUBSET BatchBad(offTarget) :
            \E cut \in AtMostOne(BatchBad(offTarget) \ bad) :
              Landed(BatchGood, bad, BatchWaiting(offTarget), cut, status.phase)
      BY <2>3
    <3>2. BatchBad(offTarget) \in SUBSET Node /\ BatchWaiting(offTarget) \in SUBSET Node
      BY DEF BatchWaiting, BatchBad, MayHaveFailed, ActiveJobs
    <3> QED
      BY <1>3, <2>0, <2>1, <3>1, <3>2, LandedType DEF InterruptFinishedBatch, AtMostOne
  <2> QED
    BY <1>3, <2>2, <2>3 DEF InterruptFinishedBatch
<1>4. CASE JobsUnreadable
  BY <1>4, PhaseType, FaultType DEF JobsUnreadable, Phase, TypeOK, objects, users, inPass
<1> QED
  BY <1>1, <1>2, <1>3, <1>4 DEF BatchJobs

LEMMA RebootsType ==
    ASSUME TypeOK, Reboots
    PROVE  TypeOK'
<1>0. /\ RebootGood \in SUBSET Node
      /\ Rebooted \in SUBSET Node
      /\ \A denied : RebootBad(denied) \in SUBSET Node
      /\ status.phase \in Phase
  BY DEF RebootGood, RebootBad, Rebooted, TypeOK, Status
<1>1. CASE ProcessReboots
  <2>1. PICK denied \in SUBSET MayBeDenied, lost \in Losses(status.rebooting) :
          LET bad == RebootBad(denied)
              waiting == RebootWaiting(denied)
              outcome == Outcome(RebootGood, bad, {}, lost) IN
          /\ Record(RebootGood, bad, lost)
          /\ status' = [outcome EXCEPT
                          !.rebooting = @ \ (Resolved \ lost.track),
                          !.phase = IF waiting # {} THEN "Rebooting" ELSE @]
          /\ unsaved' = IF waiting # {} THEN {} ELSE status'.rebooting
          /\ late' = late \cap status'.rebooting
          /\ Spend(lost)
    BY <1>1 DEF ProcessReboots, JudgeReboots
  <2>2. Outcome(RebootGood, RebootBad(denied), {}, lost) \in Status
    BY <1>0, OutcomeType
  <2>3. status' \in Status
    BY <2>1, <2>2 DEF Status, Phase
  <2>4. unsaved' \in SUBSET Node
    BY <2>1, <2>3 DEF Status
  <2>5. late' \in SUBSET Node /\ faults' \in 0..MaxFaults
    BY <2>1, SpendType DEF TypeOK
  <2> QED
    BY <1>0, <1>1, <2>1, <2>3, <2>4, <2>5, RecordType DEF ProcessReboots, JudgeReboots, TypeOK, users
<1>2. CASE InterruptReboots
  <2>1. PICK denied \in SUBSET MayBeDenied :
        \E done \in SUBSET (RebootGood \cup RebootBad(denied)) :
        \E cut \in AtMostOne((RebootGood \cup RebootBad(denied)) \ done) :
          Landed(done \cap RebootGood, done \ RebootGood, {}, cut, status.phase)
    BY <1>2 DEF InterruptReboots
  <2>2. PICK done \in SUBSET (RebootGood \cup RebootBad(denied)) :
        \E cut \in AtMostOne((RebootGood \cup RebootBad(denied)) \ done) :
          Landed(done \cap RebootGood, done \ RebootGood, {}, cut, status.phase)
    BY <2>1
  <2>3. \A cut \in AtMostOne((RebootGood \cup RebootBad(denied)) \ done) : cut \in SUBSET Node
    BY <1>0 DEF AtMostOne
  <2>4. unsaved' \in SUBSET Node
    BY <1>2 DEF InterruptReboots, TypeOK
  <2> QED
    BY <1>0, <1>2, <2>2, <2>3, <2>4, LandedType DEF InterruptReboots
<1>3. ASSUME NEW n \in Node, OutcomeUnsaved(n) PROVE TypeOK'
  <2>1. PICK denied \in SUBSET MayBeDenied, phase \in {"Rebooting", "PostHook", "Failed", status.phase} :
          /\ Landed(RebootGood \ {n}, RebootBad(denied) \ {n}, {}, {n}, phase)
          /\ unsaved' = {} \/ unsaved' = status'.rebooting
    BY <1>3 DEF OutcomeUnsaved
  <2>2. phase \in Phase
    BY <1>0, <2>1 DEF Phase
  <2>3. status'.rebooting \in SUBSET Node
    BY <2>1 DEF Landed, Outcome, TypeOK, Status
  <2> DEFINE good == RebootGood \ {n}
             bad == RebootBad(denied) \ {n}
             none == {}
             cut == {n}
  <2>4. /\ good \in SUBSET Node /\ bad \in SUBSET Node
        /\ none \in SUBSET Node /\ cut \in SUBSET Node
        /\ Landed(good, bad, none, cut, phase)
        /\ unsaved' \in SUBSET Node
    BY <1>0, <2>1, <2>3
  <2> HIDE DEF good, bad, none, cut
  <2> QED
    BY <1>3, <2>2, <2>4, LandedType DEF OutcomeUnsaved
<1>4. CASE EndPass
  BY <1>4 DEF EndPass, TypeOK, objects, users
<1> QED
  BY <1>1, <1>2, <1>3, <1>4 DEF Reboots

LEMMA PendingNodesType == TypeOK => PendingNodes \in SUBSET Node
BY DEF TypeOK, PendingNodes

\* A batch to be started is chosen from the pending nodes or was drained.
LEMMA StartableType ==
    ASSUME TypeOK
    PROVE  StartableBatch \in SUBSET Node
BY PendingNodesType, NextBatchIsBatch DEF StartableBatch, TypeOK

LEMMA StartJobsType ==
    ASSUME TypeOK, NEW batch \in SUBSET Node, NEW created \in SUBSET batch,
           NEW labelled \in SUBSET batch, StartJobs(batch, created, labelled),
           status' \in Status, faults' \in 0..MaxFaults
    PROVE  TypeOK'
<1>1. spec.target \in Version
  BY VersionType DEF TypeOK
<1>2. job' \in [Node -> [state : JobState, target : Version]]
  BY <1>1 DEF StartJobs, TypeOK, JobState
<1>3. label' \in SUBSET Node /\ cordoned' \in SUBSET Node /\ draining' \in SUBSET Node
  BY DEF StartJobs, TypeOK
<1> QED
  BY <1>2, <1>3 DEF StartJobs, TypeOK, users, inPass

LEMMA StartOfBatchType ==
    ASSUME TypeOK, StartOfBatch
    PROVE  TypeOK'
<1>1. CASE AwaitHealth \/ EnterPreHook
  BY <1>1, ParkType
<1>2. CASE BeginDrain
  <2>1. status' \in Status
    BY <1>2, PhaseType DEF BeginDrain, Phase
  <2>2. draining' \in SUBSET Node
    BY <1>2, PendingNodesType, NextBatchIsBatch DEF BeginDrain
  <2> QED
    BY <1>2, <2>1, <2>2 DEF BeginDrain, TypeOK, objects, users, inPass
<1>3. CASE DrainFails
  <2>1. cordoned' \in SUBSET Node /\ faults' \in 0..MaxFaults
    BY <1>3, FaultType DEF DrainFails, TypeOK, UpTo
  <2> QED
    BY <1>3, <2>1 DEF DrainFails, TypeOK, users, inPass
<1>4. CASE CrashInDrain
  <2>1. cordoned' \in SUBSET Node /\ faults' \in 0..MaxFaults
    BY <1>4, FaultType DEF CrashInDrain, TypeOK, UpTo
  <2> QED
    BY <1>4, <2>1 DEF CrashInDrain, TypeOK, users, inPass
<1>5. CASE StartBatch
  <2>1. status' \in Status
    BY <1>5, PhaseType DEF StartBatch, Phase
  <2>2. faults' \in 0..MaxFaults
    BY <1>5, FaultType DEF StartBatch, TypeOK
  <2>3. PICK labelled \in SUBSET StartableBatch :
          StartJobs(StartableBatch, StartableBatch, labelled)
    BY <1>5 DEF StartBatch
  <2> QED
    BY <2>1, <2>2, <2>3, StartableType, StartJobsType
<1>6. CASE InterruptStartBatch
  <2>1. status' \in Status
    BY <1>6, PhaseType DEF InterruptStartBatch, Phase, TypeOK
  <2>2. faults' \in 0..MaxFaults
    BY <1>6, FaultType DEF InterruptStartBatch
  <2>3. PICK created \in SUBSET StartableBatch, labelled \in SUBSET StartableBatch :
          StartJobs(StartableBatch, created, labelled)
    BY <1>6 DEF InterruptStartBatch, UpTo
  <2> QED
    BY <2>1, <2>2, <2>3, StartableType, StartJobsType
<1> QED
  BY <1>1, <1>2, <1>3, <1>4, <1>5, <1>6 DEF StartOfBatch

LEMMA OutOfBandType ==
    ASSUME TypeOK
    PROVE  /\ OutOfBand \in SUBSET Node
           /\ WithOutOfBand \in Status
           /\ \A lost : RecordOutOfBand(lost) => cordoned' \in SUBSET Node /\ label' \in SUBSET Node
<1>1. OutOfBand \in SUBSET Node
  BY DEF TypeOK, OutOfBand
<1>2. WithOutOfBand \in Status
  BY <1>1 DEF TypeOK, WithOutOfBand, Status
<1> QED
  BY <1>1, <1>2, UncordonedType DEF TypeOK, RecordOutOfBand

LEMMA EndOfRunType ==
    ASSUME TypeOK, EndOfRun
    PROVE  TypeOK'
<1>1. CASE FinalizeFailed
  BY <1>1, FinalizedType, WriteStatusType DEF FinalizeFailed, TypeOK
<1>2. CASE FinishRun
  <2>1. status' \in Status
    BY <1>2, OutOfBandType, FinalizedType DEF FinishRun
  <2>2. faults' \in 0..MaxFaults
    BY <1>2, FaultType DEF FinishRun, TypeOK
  <2>3. PICK lost : RecordOutOfBand(lost)
    BY <1>2 DEF FinishRun
  <2> QED
    BY <2>1, <2>2, <2>3, OutOfBandType DEF RecordOutOfBand, TypeOK, users, inPass
<1>3. CASE FinishWaits
  <2>1. status' \in Status
    BY <1>3, OutOfBandType DEF FinishWaits, Status, Phase
  <2> QED
    BY <1>3, <2>1, OutOfBandType DEF FinishWaits, RecordOutOfBand, TypeOK, users, inPass
<1>4. CASE InterruptFinishRun
  <2>1. status' \in Status
    BY <1>4, OutOfBandType, FinalizedType, PhaseType DEF InterruptFinishRun, Phase, TypeOK
  <2>2. faults' \in 0..MaxFaults
    BY <1>4, FaultType DEF InterruptFinishRun
  <2>3. RecordOutOfBand(OutOfBand)
    BY <1>4 DEF InterruptFinishRun
  <2> QED
    BY <2>1, <2>2, <2>3, OutOfBandType DEF RecordOutOfBand, TypeOK, users, inPass
<1> QED
  BY <1>1, <1>2, <1>3, <1>4 DEF EndOfRun

LEMMA PassType ==
    ASSUME TypeOK, Pass
    PROVE  TypeOK'
BY AnnotationsType, CampaignType, HooksType, ParkType, BatchJobsType, RebootsType,
   StartOfBatchType, EndOfRunType DEF Pass

LEMMA ClusterType ==
    ASSUME TypeOK, Cluster
    PROVE  TypeOK'
<1>1. ASSUME NEW n \in Node,
             JobAccepted(n) \/ JobSucceeds(n) \/ JobFails(n) \/ JobExpires(n)
      PROVE  TypeOK'
  <2>1. job' \in [Node -> [state : JobState, target : Version]]
    <3>1. CASE JobExpires(n)
      BY <3>1, NoJobType DEF JobExpires, TypeOK
    <3>2. CASE JobAccepted(n) \/ JobSucceeds(n) \/ JobFails(n)
      <4>1. PICK s \in JobState : job' = [job EXCEPT ![n].state = s]
        BY <3>2 DEF JobAccepted, JobSucceeds, JobFails, JobActs, JobState
      <4> QED
        BY <4>1 DEF TypeOK
    <3> QED
      BY <1>1, <3>1, <3>2
  <2>2. node' \in [Node -> [version : Version, boot : Version, state : NodeState]]
    <3>1. CASE JobAccepted(n)
      <4> DEFINE rebooting == [node[n] EXCEPT !.state = "staged", !.boot = job[n].target]
      <4>1. job[n].target \in Version /\ "staged" \in NodeState
        BY <1>1 DEF TypeOK, NodeState
      <4>2. node[n] \in [version : Version, boot : Version, state : NodeState]
        BY <1>1 DEF TypeOK
      <4>3. rebooting \in [version : Version, boot : Version, state : NodeState]
        BY <4>1, <4>2
      <4>4. node' = [node EXCEPT ![n] = rebooting]
        BY <3>1, <1>1 DEF JobAccepted, TypeOK
      <4> HIDE DEF rebooting
      <4> QED
        BY <1>1, <4>3, <4>4 DEF TypeOK
    <3>2. CASE UNCHANGED node
      BY <3>2 DEF TypeOK
    <3> QED
      BY <1>1, <3>1, <3>2 DEF JobSucceeds, JobFails, JobExpires, OnlyJob
  <2>3. seen' \in SUBSET Node
    BY <1>1 DEF JobAccepted, JobSucceeds, JobFails, JobExpires, TypeOK
  <2> QED
    BY <1>1, <2>1, <2>2, <2>3
    DEF JobAccepted, JobSucceeds, JobFails, JobExpires, OnlyJob, TypeOK, users, inPass
<1>2. ASSUME NEW n \in Node,
             Reboot(n) \/ InstallFails(n) \/ Return(n) \/ Rejoin(n) \/ Outage(n)
      PROVE  TypeOK'
  <2>0. node[n] \in [version : Version, boot : Version, state : NodeState]
    BY <1>2 DEF TypeOK
  <2>1. node' \in [Node -> [version : Version, boot : Version, state : NodeState]]
    <3>1. CASE Reboot(n)
      <4>1. PICK v \in {node[n].boot, node[n].version} :
              node' = [node EXCEPT ![n] = [version |-> v, boot |-> v, state |-> "down"]]
        BY <3>1 DEF Reboot
      <4>2. [version |-> v, boot |-> v, state |-> "down"]
              \in [version : Version, boot : Version, state : NodeState]
        BY <2>0, <4>1 DEF NodeState
      <4> QED
        BY <1>2, <4>1, <4>2 DEF TypeOK
    <3>2. CASE InstallFails(n)
      <4> DEFINE asBefore == [node[n] EXCEPT !.state = "up", !.boot = node[n].version]
      <4>1. asBefore \in [version : Version, boot : Version, state : NodeState]
        BY <2>0 DEF NodeState
      <4>2. node' = [node EXCEPT ![n] = asBefore]
        BY <1>2, <3>2 DEF InstallFails, TypeOK
      <4> HIDE DEF asBefore
      <4> QED
        BY <1>2, <4>1, <4>2 DEF TypeOK
    <3>3. ASSUME NEW s \in NodeState, NodeActs(n, s)
          PROVE  node' \in [Node -> [version : Version, boot : Version, state : NodeState]]
      <4>1. [node[n] EXCEPT !.state = s] \in [version : Version, boot : Version, state : NodeState]
        BY <2>0
      <4>2. node' = [node EXCEPT ![n] = [node[n] EXCEPT !.state = s]]
        BY <1>2, <3>3 DEF NodeActs, TypeOK
      <4> QED
        BY <1>2, <4>1, <4>2 DEF TypeOK
    <3> QED
      BY <1>2, <3>1, <3>2, <3>3 DEF Return, Rejoin, Outage, NodeState
  <2>2. faults' \in 0..MaxFaults
    BY <1>2, FaultType DEF Reboot, InstallFails, Return, Rejoin, Outage, OnlyNode, TypeOK
  <2> QED
    BY <1>2, <2>1, <2>2
    DEF Reboot, InstallFails, Return, Rejoin, Outage, OnlyNode, TypeOK, objects, users, inPass
<1>3. ASSUME NEW n \in Node, DeadlinePasses(n)
      PROVE  TypeOK'
  BY <1>3 DEF DeadlinePasses, TypeOK, objects, users, inPass
<1>4. ASSUME NEW h \in Hook, HookFinishes(h) \/ HookExpires(h)
      PROVE  TypeOK'
  <2>1. hookJob' \in [Hook -> HookState]
    BY <1>4 DEF HookFinishes, HookExpires, HookActs, TypeOK, HookState
  <2> QED
    BY <1>4, <2>1 DEF HookFinishes, HookExpires, HookActs, TypeOK, users, inPass
<1>5. CASE WindowMoves
  BY <1>5 DEF WindowMoves, TypeOK, objects, inPass
<1> QED
  BY <1>1, <1>2, <1>3, <1>4, <1>5 DEF Cluster

LEMMA UsersType ==
    ASSUME TypeOK, Users
    PROVE  TypeOK'
<1>1. CASE ToggleSuspend
  BY <1>1 DEF ToggleSuspend, OnlyUsers, TypeOK, objects, inPass
<1>2. CASE RequestReset
  BY <1>2 DEF RequestReset, OnlyUsers, TypeOK, objects, inPass
<1>3. CASE EditSpec
  <2>1. spec.generation + 1 \in 1..MaxGeneration
    BY <1>3, BoundsAssumption DEF EditSpec, TypeOK
  <2> QED
    BY <1>3, <2>1 DEF EditSpec, OnlyUsers, TypeOK, objects, inPass
<1>4. ASSUME NEW n \in Node, JoinNode(n) PROVE TypeOK'
  BY <1>4 DEF JoinNode, OnlyUsers, TypeOK, objects, inPass
<1> QED
  BY <1>1, <1>2, <1>3, <1>4 DEF Users

LEMMA NextType == TypeOK /\ [Next]_vars => TypeOK'
<1> SUFFICES ASSUME TypeOK, [Next]_vars PROVE TypeOK'
  OBVIOUS
<1>1. CASE UNCHANGED vars
  BY <1>1 DEF vars, inPass, objects, users, inPass, TypeOK
<1> QED
  BY <1>1, PassType, ClusterType, UsersType DEF Next

\* Every behaviour of the reconciler, its users and its cluster stays within
\* the types, the bounded counters of the status (hook indices, completion
\* cycles, observed generation) included.
THEOREM TypeCorrect == Spec => []TypeOK
BY InitType, NextType, PTL DEF Spec

-------------------------------------------------------------------------------
(***************************************************************************)
(* Safety. OneBatchAtATime is not inductive alone: that a batch may start  *)
(* follows from the absence of Jobs without an outcome (ActiveJobs), so    *)
(* the nodes with an outcome must have no unfinished Job; and what held    *)
(* when a drain began must hold when it ends.                              *)
(***************************************************************************)
Safe ==
    /\ OneBatchAtATime
    /\ OutcomesAreSettled
    /\ DrainedBatchMayStart
    /\ CompletedHidesNoFailure

SafeInv == TypeOK /\ Safe

LEMMA InitSafe == Init => Safe
<1> SUFFICES ASSUME Init PROVE Safe
  OBVIOUS
<1>1. BusyNodes = {}
  BY DEF Init, BusyNodes, Unfinished, NoJob
<1>2. Resolved = {} /\ status.failed = {} /\ status.completed = {}
  BY DEF Init, Resolved
<1>3. status.phase # "Completed" /\ draining = {}
  BY DEF Init, NoPhase
<1> QED
  BY <1>1, <1>2, <1>3, EmptyBatch
  DEF Safe, OneBatchAtATime, OutcomesAreSettled, DrainedBatchMayStart, CompletedHidesNoFailure

\* A step is safe that settles nodes without unfinished Job and starts no Job.
LEMMA SettleSafe ==
    ASSUME SafeInv, NEW settled,
           settled \cap BusyNodes = {},
           Resolved' \subseteq Resolved \cup settled,
           status'.completed \cap status'.failed = {},
           BusyNodes' \subseteq BusyNodes,
           draining' = {} \/ (draining' = draining /\ settled = {}),
           CompletedHidesNoFailure'
    PROVE  Safe'
<1>1. OneBatchAtATime'
  <2>1. BusyNodes \in SUBSET Node
    BY DEF BusyNodes
  <2>2. IsBatch(BusyNodes')
    BY <2>1, PartOfBatch DEF SafeInv, Safe, OneBatchAtATime
  <2> QED
    BY <2>2 DEF OneBatchAtATime, IsBatch
<1>2. OutcomesAreSettled'
  BY DEF SafeInv, Safe, OutcomesAreSettled
<1>3. DrainedBatchMayStart'
  <2>1. CASE draining' = {}
    BY <2>1 DEF DrainedBatchMayStart
  <2>2. CASE draining' = draining /\ settled = {}
    BY <2>2 DEF SafeInv, Safe, DrainedBatchMayStart, IsBatch
  <2> QED
    BY <2>1, <2>2
<1> QED
  BY <1>1, <1>2, <1>3 DEF Safe

\* A step is safe that settles no node and starts no Job.
LEMMA UnsettledSafe ==
    ASSUME SafeInv,
           status'.completed \subseteq status.completed,
           status'.failed \subseteq status.failed,
           unsaved' \subseteq unsaved,
           BusyNodes' \subseteq BusyNodes,
           draining' = {} \/ draining' = draining,
           CompletedHidesNoFailure'
    PROVE  Safe'
<1> DEFINE none == {}
<1>1. /\ none \cap BusyNodes = {}
      /\ Resolved' \subseteq Resolved \cup none
      /\ draining' = {} \/ (draining' = draining /\ none = {})
  BY DEF Resolved
<1>2. status'.completed \cap status'.failed = {}
  BY DEF SafeInv, Safe, OutcomesAreSettled
<1> HIDE DEF none
<1> QED
  BY <1>1, <1>2, SettleSafe

LEMMA SameBusy == UNCHANGED job => BusyNodes' = BusyNodes
BY DEF BusyNodes

LEMMA WithoutBusy ==
    ASSUME NEW S, job' = Without(S)
    PROVE  BusyNodes' \subseteq BusyNodes
<1>1. ASSUME NEW n \in Node, Unfinished(job'[n])
      PROVE  Unfinished(job[n])
  BY <1>1 DEF Without, Unfinished, NoJob
<1> QED
  BY <1>1 DEF BusyNodes

\* A run without Job that lacks an outcome upgrades nothing.
LEMMA NothingBusy ==
    ASSUME SafeInv, ActiveJobs = {}
    PROVE  BusyNodes = {}
<1>1. BusyNodes \subseteq ActiveJobs \cup Resolved
  BY DEF BusyNodes, ActiveJobs, Unfinished, NoJob
<1> QED
  BY <1>1 DEF SafeInv, Safe, OutcomesAreSettled

\* A pass that moves the run to another phase, or starts it over.
LEMMA WriteStatusSafe ==
    ASSUME SafeInv, NEW s, WriteStatus(s),
           s.completed \subseteq status.completed, s.failed \subseteq status.failed,
           s.phase = "Completed" => s.failed = {} /\ ~s.preHookFailed
    PROVE  Safe'
<1>1. BusyNodes' = BusyNodes
  BY SameBusy DEF WriteStatus, objects
<1>2. draining' = draining /\ unsaved' = {} /\ status' = s
  BY DEF WriteStatus
<1>3. CompletedHidesNoFailure'
  BY <1>2 DEF CompletedHidesNoFailure
<1> QED
  BY <1>1, <1>2, <1>3, UnsettledSafe

LEMMA InPhaseSafe ==
    ASSUME SafeInv, NEW p, p # "Completed", WriteStatus(InPhase(p))
    PROVE  Safe'
<1>1. /\ InPhase(p).phase = p
      /\ InPhase(p).completed = status.completed
      /\ InPhase(p).failed = status.failed
  BY DEF SafeInv, TypeOK, Status, InPhase
<1> QED
  BY <1>1, WriteStatusSafe

LEMMA RestartedSafe ==
    ASSUME SafeInv, NEW c, WriteStatus(Restarted(c))
    PROVE  Safe'
<1>1. /\ Restarted(c).phase = "Pending"
      /\ Restarted(c).completed = {}
      /\ Restarted(c).failed = {}
  BY DEF Restarted
<1> QED
  BY <1>1, WriteStatusSafe

\* Post-hooks and the verdict follow, and the verdict hides no failure.
LEMMA FinalizedHidesNoFailure ==
    ASSUME NEW s \in Status
    PROVE  /\ Finalized(s).completed = s.completed
           /\ Finalized(s).failed = s.failed
           /\ Finalized(s).preHookFailed = s.preHookFailed
           /\ Finalized(s).phase = "Completed" => s.failed = {} /\ ~s.preHookFailed
BY DEF Finalized, FinalPhase, Status

LEMMA AnnotationsSafe ==
    ASSUME SafeInv, Annotations
    PROVE  Safe'
<1>1. CASE PassSuspended
  <2>1. /\ Stamped(InPhase("Pending")).phase = "Pending"
        /\ Stamped(InPhase("Pending")).completed = status.completed
        /\ Stamped(InPhase("Pending")).failed = status.failed
    BY DEF SafeInv, TypeOK, Status, InPhase, Stamped
  <2> QED
    BY <1>1, <2>1, WriteStatusSafe DEF PassSuspended
<1>2. CASE PassReset
  <2>1. BusyNodes' = BusyNodes
    BY <1>2, SameBusy DEF PassReset, objects
  <2>2. status' = status \/ status' = Restarted(0)
    BY <1>2 DEF PassReset
  <2>3. /\ status'.completed \subseteq status.completed
        /\ status'.failed \subseteq status.failed
        /\ CompletedHidesNoFailure'
    BY <2>2 DEF Restarted, SafeInv, Safe, CompletedHidesNoFailure
  <2> QED
    BY <1>2, <2>1, <2>3, UnsettledSafe DEF PassReset, inPass
<1>3. CASE PassSpecChange
  BY <1>3, RestartedSafe DEF PassSpecChange
<1> QED
  BY <1>1, <1>2, <1>3 DEF Annotations

LEMMA CampaignSafe ==
    ASSUME SafeInv, Campaign
    PROVE  Safe'
<1>1. CASE RestartCampaign
  BY <1>1, RestartedSafe DEF RestartCampaign
<1>2. CASE GiveUp
  BY <1>2, InPhaseSafe DEF GiveUp
<1>3. CASE RecheckFails
  <2>1. BusyNodes' = BusyNodes
    BY <1>3, SameBusy DEF RecheckFails, objects
  <2>2. /\ status'.phase = "Pending"
        /\ status'.completed = status.completed
        /\ status'.failed = status.failed
    BY <1>3 DEF RecheckFails, InPhase, SafeInv, TypeOK, Status
  <2> QED
    BY <1>3, <2>1, <2>2, UnsettledSafe DEF RecheckFails, inPass, CompletedHidesNoFailure
<1> QED
  BY <1>1, <1>2, <1>3 DEF Campaign

LEMMA HooksSafe ==
    ASSUME SafeInv, Hooks
    PROVE  Safe'
<1>1. ASSUME NEW k \in {"pre", "post"}, StartHook(k) PROVE Safe'
  <2>1. BusyNodes' = BusyNodes
    BY <1>1, SameBusy DEF StartHook
  <2> QED
    BY <1>1, <2>1, UnsettledSafe DEF StartHook, inPass, SafeInv, Safe, CompletedHidesNoFailure
<1>2. ASSUME NEW k \in {"pre", "post"}, HandleHook(k) PROVE Safe'
  <2>1. BusyNodes' = BusyNodes
    BY <1>2, SameBusy DEF HandleHook
  <2>2. /\ status'.phase = status.phase
        /\ status'.completed = status.completed
        /\ status'.failed = status.failed
    BY <1>2 DEF HandleHook, AtIndex, SafeInv, TypeOK, Status
  <2>3. status.phase # "Completed"
    BY <1>2 DEF HandleHook, InHookPhase, HookPhase
  <2> QED
    BY <1>2, <2>1, <2>2, <2>3, UnsettledSafe DEF HandleHook, inPass, CompletedHidesNoFailure
<1>3. CASE LeavePreHooks
  <2>1. CASE status.preHookFailed
    BY <1>3, <2>1, FinalizedHidesNoFailure, WriteStatusSafe
    DEF LeavePreHooks, SafeInv, TypeOK
  <2>2. CASE ~status.preHookFailed
    BY <1>3, <2>2, InPhaseSafe DEF LeavePreHooks
  <2> QED
    BY <2>1, <2>2
<1>4. CASE LeavePostHooks
  <2>1. LET s == InPhase(FinalPhase(status)) IN
        /\ s.completed = status.completed
        /\ s.failed = status.failed
        /\ s.phase = "Completed" => s.failed = {} /\ ~s.preHookFailed
    BY DEF InPhase, FinalPhase, SafeInv, TypeOK, Status
  <2> QED
    BY <1>4, <2>1, WriteStatusSafe DEF LeavePostHooks
<1> QED
  BY <1>1, <1>2, <1>3, <1>4 DEF Hooks

LEMMA ParkSafe ==
    ASSUME SafeInv,
           Checks \/ ParkForClosedWindow \/ ParkInPending \/ AwaitHealth \/ EnterPreHook
    PROVE  Safe'
<1>1. \E p \in {"Pending", "HealthChecking", "MaintenanceWindow", "PreHook"} :
        WriteStatus(InPhase(p))
  BY DEF Checks, ParkOutsideWindow, WaitForOtherUpgrade, ParkForClosedWindow,
         ParkInPending, AwaitHealth, EnterPreHook
<1> QED
  BY <1>1, InPhaseSafe

\* What a pass settles whose outcomes are those of good and bad.
LEMMA OutcomeSafe ==
    ASSUME SafeInv, NEW good \in SUBSET Node, NEW bad \in SUBSET Node,
           good \cap bad = {},
           (good \cup bad) \cap (Resolved \cup BusyNodes) = {},
           status'.completed \subseteq status.completed \cup good,
           status'.failed \subseteq status.failed \cup bad,
           status'.phase # "Completed",
           NEW also, also \subseteq good \cup bad,
           unsaved' \subseteq Resolved \cup also,
           NEW S, job' = Without(S),
           draining = {}, draining' = draining
    PROVE  Safe'
<1>1. BusyNodes' \subseteq BusyNodes
  BY WithoutBusy
<1>2. CompletedHidesNoFailure'
  BY DEF CompletedHidesNoFailure
<1> DEFINE settled == good \cup bad
<1>3. settled \cap BusyNodes = {} /\ Resolved' \subseteq Resolved \cup settled
  BY DEF Resolved
<1>4. status'.completed \cap status'.failed = {}
  BY DEF SafeInv, Safe, OutcomesAreSettled, Resolved
<1> HIDE DEF settled
<1> QED
  BY <1>1, <1>2, <1>3, <1>4, SettleSafe

LEMMA OutcomeFields ==
    ASSUME SafeInv, NEW good, NEW bad, NEW track, NEW lost
    PROVE  LET s == Outcome(good, bad, track, lost) IN
           /\ s.completed = status.completed \cup good
           /\ s.failed = status.failed \cup bad
           /\ s.phase = status.phase
           /\ DOMAIN s = DOMAIN status
BY DEF SafeInv, TypeOK, Status, Outcome

\* The same for a pass whose writes did not all land.
LEMMA LandedSafe ==
    ASSUME SafeInv, Admitted, NEW good \in SUBSET Node, NEW bad \in SUBSET Node,
           good \cap bad = {},
           (good \cup bad) \cap (Resolved \cup BusyNodes) = {},
           NEW track, NEW cut, NEW phase, phase # "Completed",
           Landed(good, bad, track, cut, phase),
           unsaved' \subseteq unsaved
    PROVE  Safe'
<1>1. draining = {}
  BY DEF Admitted, Working, Settled
<1>2. PICK S : job' = Without(S)
  BY DEF Landed
<1>3. /\ status' = [Outcome(good, bad, track, NoLoss) EXCEPT !.phase = phase]
      /\ draining' = draining
  BY DEF Landed
<1>4. /\ status'.completed = status.completed \cup good
      /\ status'.failed = status.failed \cup bad
      /\ status'.phase = phase
  BY <1>3, OutcomeFields DEF SafeInv, TypeOK, Status
<1> DEFINE also == {}
<1>5. also \subseteq good \cup bad /\ unsaved' \subseteq Resolved \cup also
  BY DEF Resolved
<1> HIDE DEF also
<1> QED
  BY <1>1, <1>2, <1>3, <1>4, <1>5, OutcomeSafe

LEMMA BatchJobsSafe ==
    ASSUME SafeInv, BatchJobs
    PROVE  Safe'
<1>0. ActiveJobs \in SUBSET Node /\ ActiveJobs \cap Resolved = {}
  BY DEF ActiveJobs
<1>1. CASE WaitForJobs
  <2>1. PICK p \in {"Rebooting", "Upgrading"} : status' = InPhase(p)
    BY <1>1 DEF WaitForJobs
  <2>2. /\ status'.phase # "Completed"
        /\ status'.completed = status.completed
        /\ status'.failed = status.failed
    BY <2>1 DEF InPhase, SafeInv, TypeOK, Status
  <2>3. BusyNodes' = BusyNodes
    BY <1>1, SameBusy DEF WaitForJobs
  <2> QED
    BY <1>1, <2>2, <2>3, UnsettledSafe DEF WaitForJobs, inPass, CompletedHidesNoFailure
<1>2. ASSUME BatchFinished
      PROVE  /\ ActiveJobs \cap (Resolved \cup BusyNodes) = {}
             /\ BatchGood \in SUBSET ActiveJobs
             /\ \A offTarget \in SUBSET MayHaveFailed :
                  /\ BatchBad(offTarget) \in SUBSET ActiveJobs
                  /\ BatchGood \cap BatchBad(offTarget) = {}
  <2>1. ActiveJobs \cap BusyNodes = {}
    BY <1>2 DEF BatchFinished, BusyNodes, Finished, Unfinished
  <2>2. BatchGood \in SUBSET ActiveJobs /\ MayHaveFailed \cap BatchGood = {}
    BY DEF BatchGood, MayHaveFailed, Verified, Mismatched
  <2>3. ASSUME NEW offTarget \in SUBSET MayHaveFailed
        PROVE  /\ BatchBad(offTarget) \in SUBSET ActiveJobs
               /\ BatchGood \cap BatchBad(offTarget) = {}
    BY <2>2 DEF BatchBad, BatchWaiting, MayHaveFailed
  <2> QED
    BY <1>0, <2>1, <2>2, <2>3
<1>3. CASE HandleFinishedBatch
  <2>1. PICK offTarget \in SUBSET MayHaveFailed, lost \in Losses(ActiveJobs) :
          /\ Record(BatchGood, BatchBad(offTarget), lost)
          /\ status' = [Outcome(BatchGood, BatchBad(offTarget), BatchWaiting(offTarget), lost)
                          EXCEPT !.phase = BatchPhase(offTarget)]
    BY <1>3 DEF HandleFinishedBatch
  <2>2. /\ BatchFinished /\ status.phase # "Completed"
        /\ draining = {} /\ UNCHANGED <<draining, unsaved>>
    BY <1>3 DEF HandleFinishedBatch, BatchFinished, Admitted, Working, Settled, inPass
  <2>3. BatchPhase(offTarget) # "Completed"
    BY <2>2 DEF BatchPhase
  <2>4. /\ status'.completed = status.completed \cup BatchGood
        /\ status'.failed = status.failed \cup BatchBad(offTarget)
        /\ status'.phase # "Completed"
    BY <2>1, <2>3, OutcomeFields DEF SafeInv, TypeOK, Status
  <2>5. PICK S : job' = Without(S)
    BY <2>1 DEF Record
  <2> QED
    <3> DEFINE also == {}
               good == BatchGood
               bad == BatchBad(offTarget)
    <3>1. also \subseteq good \cup bad /\ unsaved' \subseteq Resolved \cup also
      BY <2>2 DEF Resolved
    <3>2. /\ good \in SUBSET Node /\ bad \in SUBSET Node /\ good \cap bad = {}
          /\ (good \cup bad) \cap (Resolved \cup BusyNodes) = {}
      BY <1>0, <1>2, <2>2
    <3>3. /\ status'.completed \subseteq status.completed \cup good
          /\ status'.failed \subseteq status.failed \cup bad
      BY <2>4
    <3> HIDE DEF also, good, bad
    <3> QED
      BY <2>2, <2>4, <2>5, <3>1, <3>2, <3>3, OutcomeSafe
<1>4. CASE InterruptFinishedBatch
  <2>1. /\ BatchFinished /\ Admitted
        /\ unsaved' \subseteq unsaved /\ status.phase # "Completed"
    BY <1>4 DEF InterruptFinishedBatch, BatchFinished, Admitted, Working
  <2>2. CASE \E good \in SUBSET BatchGood : \E cut \in AtMostOne(BatchGood \ good) :
               Landed(good, {}, {}, cut, status.phase)
    <3>1. PICK good \in SUBSET BatchGood : \E cut : Landed(good, {}, {}, cut, status.phase)
      BY <2>2
    <3> DEFINE none == {}
    <3>2. /\ good \in SUBSET Node /\ none \in SUBSET Node /\ good \cap none = {}
          /\ (good \cup none) \cap (Resolved \cup BusyNodes) = {}
          /\ \E cut : Landed(good, none, none, cut, status.phase)
      BY <1>0, <1>2, <2>1, <3>1
    <3> HIDE DEF none
    <3> QED
      BY <2>1, <3>2, LandedSafe
  <2>3. CASE \E offTarget \in SUBSET MayHaveFailed :
             \E bad \in SUBSET BatchBad(offTarget) :
             \E cut \in AtMostOne(BatchBad(offTarget) \ bad) :
               Landed(BatchGood, bad, BatchWaiting(offTarget), cut, status.phase)
    <3>1. PICK offTarget \in SUBSET MayHaveFailed : \E bad \in SUBSET BatchBad(offTarget) :
            \E cut : Landed(BatchGood, bad, BatchWaiting(offTarget), cut, status.phase)
      BY <2>3
    <3>2. PICK bad \in SUBSET BatchBad(offTarget) :
            \E cut : Landed(BatchGood, bad, BatchWaiting(offTarget), cut, status.phase)
      BY <3>1
    <3>3. /\ BatchGood \in SUBSET Node /\ bad \in SUBSET Node /\ BatchGood \cap bad = {}
          /\ (BatchGood \cup bad) \cap (Resolved \cup BusyNodes) = {}
      BY <1>0, <1>2, <2>1, <3>2
    <3> QED
      BY <2>1, <3>2, <3>3, LandedSafe
  <2> QED
    BY <1>4, <2>2, <2>3 DEF InterruptFinishedBatch
<1>5. CASE JobsUnreadable
  <2>1. BusyNodes' = BusyNodes
    BY <1>5, SameBusy DEF JobsUnreadable, objects
  <2>2. /\ status'.phase = "Pending"
        /\ status'.completed = status.completed
        /\ status'.failed = status.failed
    BY <1>5 DEF JobsUnreadable, InPhase, SafeInv, TypeOK, Status
  <2> QED
    BY <1>5, <2>1, <2>2, UnsettledSafe DEF JobsUnreadable, inPass, CompletedHidesNoFailure
<1> QED
  BY <1>1, <1>3, <1>4, <1>5 DEF BatchJobs

LEMMA RebootsSafe ==
    ASSUME SafeInv, Reboots
    PROVE  Safe'
<1>1. CASE EndPass
  <2>1. BusyNodes' = BusyNodes
    BY <1>1, SameBusy DEF EndPass, objects
  <2> QED
    BY <1>1, <2>1, UnsettledSafe DEF EndPass, SafeInv, Safe, CompletedHidesNoFailure
<1>2. ASSUME AwaitingReboots
      PROVE  /\ draining = {} /\ unsaved = {} /\ Admitted
             /\ status.phase # "Completed"
             /\ Rebooted \in SUBSET Node /\ Rebooted \cap (Resolved \cup BusyNodes) = {}
             /\ RebootGood \in SUBSET Rebooted
             /\ \A denied : /\ RebootBad(denied) \in SUBSET Rebooted
                            /\ RebootGood \cap RebootBad(denied) = {}
  <2>1. draining = {} /\ unsaved = {} /\ status.phase # "Completed" /\ ActiveJobs = {} /\ Admitted
    BY <1>2 DEF AwaitingReboots, Idle, Admitted, Working
  <2>2. BusyNodes = {}
    BY <2>1, NothingBusy
  <2>3. Rebooted \in SUBSET Node /\ Rebooted \cap (Resolved \cup BusyNodes) = {}
    BY <2>2 DEF Rebooted, SafeInv, TypeOK, Status
  <2>4. RebootGood \in SUBSET Rebooted
    BY DEF RebootGood
  <2>5. ASSUME NEW denied
        PROVE  /\ RebootBad(denied) \in SUBSET Rebooted
               /\ RebootGood \cap RebootBad(denied) = {}
    BY DEF RebootGood, RebootBad, Verified, Mismatched
  <2> QED
    BY <2>1, <2>3, <2>4, <2>5
<1>3. CASE ProcessReboots
  <2>0. AwaitingReboots
    BY <1>3 DEF ProcessReboots, JudgeReboots
  <2>1. PICK denied \in SUBSET MayBeDenied, lost \in Losses(status.rebooting) :
          LET bad == RebootBad(denied)
              waiting == RebootWaiting(denied)
              outcome == Outcome(RebootGood, bad, {}, lost) IN
          /\ Record(RebootGood, bad, lost)
          /\ status' = [outcome EXCEPT
                          !.rebooting = @ \ (Resolved \ lost.track),
                          !.phase = IF waiting # {} THEN "Rebooting" ELSE @]
          /\ unsaved' = IF waiting # {} THEN {} ELSE status'.rebooting
    BY <1>3 DEF ProcessReboots, JudgeReboots
  <2>2. /\ status'.completed = status.completed \cup RebootGood
        /\ status'.failed = status.failed \cup RebootBad(denied)
        /\ status'.phase \in {"Rebooting", status.phase}
        /\ status'.rebooting \subseteq status.rebooting
    BY <2>1, OutcomeFields DEF Outcome, SafeInv, TypeOK, Status
  <2>3. PICK S : job' = Without(S)
    BY <2>1 DEF Record
  <2>4. draining' = draining
    BY <1>3 DEF ProcessReboots, JudgeReboots
  <2> DEFINE also == RebootGood \cup RebootBad(denied)
  <2>5. also \subseteq RebootGood \cup RebootBad(denied) /\ unsaved' \subseteq Resolved \cup also
    BY <2>1, <2>2 DEF RebootWaiting, Rebooted
  <2> HIDE DEF also
  <2> QED
    BY <1>2, <2>0, <2>2, <2>3, <2>4, <2>5, OutcomeSafe
<1>4. CASE InterruptReboots
  <2>0. AwaitingReboots /\ unsaved' = unsaved
    BY <1>4 DEF InterruptReboots
  <2>1. PICK denied : \E done \in SUBSET (RebootGood \cup RebootBad(denied)) :
          \E cut : Landed(done \cap RebootGood, done \ RebootGood, {}, cut, status.phase)
    BY <1>4 DEF InterruptReboots
  <2>2. PICK done \in SUBSET (RebootGood \cup RebootBad(denied)) :
          \E cut : Landed(done \cap RebootGood, done \ RebootGood, {}, cut, status.phase)
    BY <2>1
  <2> DEFINE good == done \cap RebootGood
             bad == done \ RebootGood
             none == {}
  <2>3. /\ good \in SUBSET Node /\ bad \in SUBSET Node /\ good \cap bad = {}
        /\ (good \cup bad) \cap (Resolved \cup BusyNodes) = {}
        /\ \E cut : Landed(good, bad, none, cut, status.phase)
    BY <1>2, <2>0, <2>2
  <2> HIDE DEF good, bad, none
  <2> QED
    BY <1>2, <2>0, <2>3, LandedSafe
<1>5. ASSUME NEW n \in Node, OutcomeUnsaved(n) PROVE Safe'
  <2>0. AwaitingReboots
    BY <1>5 DEF OutcomeUnsaved
  <2>1. PICK denied \in SUBSET MayBeDenied,
             phase \in {"Rebooting", "PostHook", "Failed", status.phase} :
          /\ Landed(RebootGood \ {n}, RebootBad(denied) \ {n}, {}, {n}, phase)
          /\ \/ unsaved' = {}
             \/ unsaved' = status'.rebooting /\ RebootWaiting(denied) = {}
    <3> DEFINE phaseFor(waits, fails) ==
                 CASE waits -> "Rebooting"
                   [] ~waits /\ fails -> IF status.postHook < PostHooks
                                         THEN "PostHook" ELSE "Failed"
                   [] OTHER -> status.phase
    <3>1. PICK denied \in SUBSET MayBeDenied :
            LET bad == RebootBad(denied)
                waits == RebootWaiting(denied) # {}
                fails == status.failed \cup bad # {} IN
            /\ Landed(RebootGood \ {n}, bad \ {n}, {}, {n}, phaseFor(waits, fails))
            /\ unsaved' = IF waits \/ fails THEN {} ELSE status'.rebooting
      BY <1>5 DEF OutcomeUnsaved
    <3>2. \A waits, fails \in BOOLEAN :
            phaseFor(waits, fails) \in {"Rebooting", "PostHook", "Failed", status.phase}
      OBVIOUS
    <3> DEFINE waits == RebootWaiting(denied) # {}
               fails == status.failed \cup RebootBad(denied) # {}
    <3>3. waits \in BOOLEAN /\ fails \in BOOLEAN
      OBVIOUS
    <3>4. /\ Landed(RebootGood \ {n}, RebootBad(denied) \ {n}, {}, {n}, phaseFor(waits, fails))
          /\ unsaved' = IF waits \/ fails THEN {} ELSE status'.rebooting
      BY <3>1
    <3>5. unsaved' = {} \/ (unsaved' = status'.rebooting /\ RebootWaiting(denied) = {})
      BY <3>4
    <3> DEFINE next == phaseFor(waits, fails)
    <3>6. /\ next \in {"Rebooting", "PostHook", "Failed", status.phase}
          /\ Landed(RebootGood \ {n}, RebootBad(denied) \ {n}, {}, {n}, next)
      BY <3>2, <3>3, <3>4
    <3> HIDE DEF next
    <3> QED
      BY <3>5, <3>6
  <2>2. PICK S : job' = Without(S)
    BY <2>1 DEF Landed
  <2>3. /\ status' = [Outcome(RebootGood \ {n}, RebootBad(denied) \ {n}, {}, NoLoss)
                        EXCEPT !.phase = phase]
        /\ draining' = draining
    BY <2>1 DEF Landed
  <2>4. /\ status'.completed = status.completed \cup (RebootGood \ {n})
        /\ status'.failed = status.failed \cup (RebootBad(denied) \ {n})
        /\ status'.phase = phase
        /\ status'.rebooting \subseteq status.rebooting
    BY <2>3, OutcomeFields DEF Outcome, SafeInv, TypeOK, Status
  <2> DEFINE also == RebootGood \cup RebootBad(denied)
  <2>5. also \subseteq RebootGood \cup RebootBad(denied) /\ unsaved' \subseteq Resolved \cup also
    BY <2>1, <2>4 DEF RebootWaiting, Rebooted
  <2> HIDE DEF also
  <2>6. /\ status'.completed \subseteq status.completed \cup RebootGood
        /\ status'.failed \subseteq status.failed \cup RebootBad(denied)
        /\ status'.phase # "Completed"
    BY <1>2, <2>0, <2>1, <2>4
  <2> DEFINE bad == RebootBad(denied)
  <2>7. /\ RebootGood \in SUBSET Node /\ bad \in SUBSET Node /\ RebootGood \cap bad = {}
        /\ (RebootGood \cup bad) \cap (Resolved \cup BusyNodes) = {}
        /\ draining = {}
    BY <1>2, <2>0
  <2>8. /\ also \subseteq RebootGood \cup bad
        /\ status'.failed \subseteq status.failed \cup bad
    BY <2>5, <2>6
  <2> HIDE DEF bad
  <2> QED
    BY <2>2, <2>3, <2>5, <2>6, <2>7, <2>8, OutcomeSafe
<1> QED
  BY <1>1, <1>3, <1>4, <1>5 DEF Reboots

LEMMA EndOfRunSafe ==
    ASSUME SafeInv, EndOfRun
    PROVE  Safe'
<1>1. CASE FinalizeFailed
  BY <1>1, FinalizedHidesNoFailure, WriteStatusSafe DEF FinalizeFailed, SafeInv, TypeOK
<1>2. CASE FinishRun \/ FinishWaits \/ InterruptFinishRun
  <2>1. draining = {} /\ status.phase # "Completed" /\ ActiveJobs = {}
    BY <1>2 DEF FinishRun, FinishWaits, InterruptFinishRun, NothingPending, Selecting,
                Admitted, Working, Settled, Idle
  <2>2. BusyNodes = {}
    BY <2>1, NothingBusy
  <2>3. OutOfBand \cap BusyNodes = {} /\ status.failed = {}
    BY <1>2, <2>2 DEF FinishRun, FinishWaits, InterruptFinishRun, NothingPending, Selecting
  <2>4. \E lost : RecordOutOfBand(lost)
    BY <1>2 DEF FinishRun, FinishWaits, InterruptFinishRun
  <2>5. BusyNodes' = BusyNodes /\ draining' = draining /\ unsaved' = {}
    BY <2>4, SameBusy DEF RecordOutOfBand
  <2>6. /\ WithOutOfBand \in Status
        /\ WithOutOfBand.completed \subseteq status.completed \cup unsaved \cup OutOfBand
        /\ WithOutOfBand.failed = status.failed
        /\ WithOutOfBand.phase = status.phase
    BY OutOfBandType DEF WithOutOfBand, SafeInv, TypeOK, Status
  <2>7. /\ status'.completed \subseteq status.completed \cup unsaved \cup OutOfBand
        /\ status'.failed = status.failed
        /\ CompletedHidesNoFailure'
    <3>1. CASE status' = Finalized(WithOutOfBand)
      BY <2>6, <3>1, FinalizedHidesNoFailure DEF CompletedHidesNoFailure
    <3>2. CASE status' = [WithOutOfBand EXCEPT !.phase = "HealthChecking"]
      BY <2>6, <3>2 DEF CompletedHidesNoFailure, Status
    <3>3. CASE status' = InPhase("HealthChecking")
      BY <3>3 DEF InPhase, CompletedHidesNoFailure, SafeInv, TypeOK, Status
    <3>4. CASE status' = Finalized(status)
      BY <3>4, FinalizedHidesNoFailure DEF CompletedHidesNoFailure, SafeInv, TypeOK
    <3>5. CASE status' = WithOutOfBand
      BY <2>1, <2>6, <3>5 DEF CompletedHidesNoFailure
    <3> QED
      BY <1>2, <3>1, <3>2, <3>3, <3>4, <3>5 DEF FinishRun, FinishWaits, InterruptFinishRun
  <2>8. /\ Resolved' \subseteq Resolved \cup OutOfBand
        /\ status'.completed \cap status'.failed = {}
    BY <2>3, <2>5, <2>7 DEF Resolved
  <2> QED
    BY <2>1, <2>3, <2>5, <2>7, <2>8, SettleSafe
<1> QED
  BY <1>1, <1>2 DEF EndOfRun

\* A batch starts, in full or in part, only when nothing else is upgraded.
LEMMA StartableBatchSafe ==
    ASSUME SafeInv, StartableBatch # {}
    PROVE  /\ StartableBatch \in SUBSET Node
           /\ IsBatch(StartableBatch)
           /\ BusyNodes = {}
           /\ StartableBatch \cap Resolved = {}
<1>1. CASE draining # {}
  BY <1>1 DEF StartableBatch, SafeInv, TypeOK, Safe, DrainedBatchMayStart
<1>2. CASE draining = {}
  <2>1. BatchReady /\ StartableBatch = NextBatchOf(PendingNodes)
    BY <1>2 DEF StartableBatch
  <2>2. BusyNodes = {}
    BY <2>1, NothingBusy DEF BatchReady, BatchChosen, Selecting
  <2>3. PendingNodes \in SUBSET Node /\ PendingNodes \cap Resolved = {}
    BY PendingNodesType DEF PendingNodes, SafeInv
  <2>4. NextBatchOf(PendingNodes) \in SUBSET PendingNodes /\ IsBatch(NextBatchOf(PendingNodes))
    BY <2>3, NextBatchIsBatch
  <2> QED
    BY <2>1, <2>2, <2>3, <2>4
<1> QED
  BY <1>1, <1>2

LEMMA StartJobsSafe ==
    ASSUME SafeInv, StartableBatch # {}, NEW created \in SUBSET StartableBatch,
           NEW labelled, StartJobs(StartableBatch, created, labelled),
           status'.completed = status.completed, status'.failed = status.failed,
           status'.phase # "Completed" \/ status' = status
    PROVE  Safe'
<1>1. BusyNodes' = created
  <2>1. ASSUME NEW n \in Node
        PROVE  Unfinished(job'[n]) <=> n \in created
    <3>1. job'[n] = IF n \in created THEN [state |-> "running", target |-> spec.target]
                                     ELSE job[n]
      BY DEF StartJobs
    <3>2. ~Unfinished(job[n])
      BY StartableBatchSafe DEF BusyNodes
    <3> QED
      BY <3>1, <3>2 DEF Unfinished
  <2>2. created \subseteq Node
    BY StartableBatchSafe
  <2> QED
    BY <2>1, <2>2 DEF BusyNodes
<1>2. OneBatchAtATime'
  <2>1. IsBatch(created)
    BY StartableBatchSafe, PartOfBatch
  <2> QED
    BY <1>1, <2>1 DEF OneBatchAtATime, IsBatch
<1>3. OutcomesAreSettled'
  BY <1>1, StartableBatchSafe DEF StartJobs, SafeInv, Safe, OutcomesAreSettled, Resolved
<1>4. DrainedBatchMayStart'
  BY DEF StartJobs, DrainedBatchMayStart
<1>5. CompletedHidesNoFailure'
  BY DEF SafeInv, Safe, CompletedHidesNoFailure
<1> QED
  BY <1>2, <1>3, <1>4, <1>5 DEF Safe

LEMMA StartOfBatchSafe ==
    ASSUME SafeInv, StartOfBatch
    PROVE  Safe'
<1>0. ASSUME NEW p
      PROVE  /\ InPhase(p).completed = status.completed
             /\ InPhase(p).failed = status.failed
             /\ InPhase(p).phase = p
  BY DEF InPhase, SafeInv, TypeOK, Status
<1>1. CASE AwaitHealth \/ EnterPreHook
  BY <1>1, ParkSafe
<1>2. CASE BeginDrain
  <2>1. BusyNodes = {}
    BY <1>2, NothingBusy DEF BeginDrain, BatchReady, BatchChosen, Selecting
  <2>2. BusyNodes' = BusyNodes
    BY <1>2, SameBusy DEF BeginDrain, objects
  <2>3. PendingNodes \in SUBSET Node /\ PendingNodes \cap Resolved = {}
    BY PendingNodesType DEF PendingNodes, SafeInv
  <2>4. /\ draining' \in SUBSET PendingNodes
        /\ IsBatch(draining')
    BY <1>2, <2>3, NextBatchIsBatch DEF BeginDrain, IsBatch
  <2>5. /\ status'.completed = status.completed
        /\ status'.failed = status.failed
        /\ status'.phase = "Draining"
        /\ unsaved' = {}
    BY <1>0, <1>2 DEF BeginDrain
  <2>6. OneBatchAtATime'
    BY <2>2 DEF SafeInv, Safe, OneBatchAtATime, IsBatch
  <2>7. OutcomesAreSettled'
    BY <2>2, <2>5 DEF SafeInv, Safe, OutcomesAreSettled, Resolved
  <2>8. DrainedBatchMayStart'
    BY <2>1, <2>2, <2>3, <2>4, <2>5 DEF DrainedBatchMayStart, Resolved, IsBatch
  <2> QED
    BY <2>5, <2>6, <2>7, <2>8 DEF Safe, CompletedHidesNoFailure
<1>3. CASE DrainFails \/ CrashInDrain
  <2>1. UNCHANGED <<status, job, unsaved>> /\ draining' = {}
    BY <1>3 DEF DrainFails, CrashInDrain
  <2>2. BusyNodes' = BusyNodes
    BY <2>1, SameBusy
  <2> QED
    BY <2>1, <2>2, UnsettledSafe DEF SafeInv, Safe, CompletedHidesNoFailure
<1>4. CASE StartBatch
  <2>1. PICK labelled : StartJobs(StartableBatch, StartableBatch, labelled)
    BY <1>4 DEF StartBatch
  <2>2. status' = InPhase("Upgrading") /\ StartableBatch # {}
    BY <1>4 DEF StartBatch
  <2> QED
    BY <1>0, <2>1, <2>2, StartJobsSafe
<1>5. CASE InterruptStartBatch
  <2>1. PICK n \in StartableBatch, created \in SUBSET StartableBatch :
          \E labelled : StartJobs(StartableBatch, created, labelled)
    BY <1>5 DEF InterruptStartBatch, UpTo
  <2>2. status' = InPhase("Pending") \/ status' = status
    BY <1>5 DEF InterruptStartBatch
  <2> QED
    BY <1>0, <2>1, <2>2, StartJobsSafe
<1> QED
  BY <1>1, <1>2, <1>3, <1>4, <1>5 DEF StartOfBatch

LEMMA PassSafe ==
    ASSUME SafeInv, Pass
    PROVE  Safe'
BY AnnotationsSafe, CampaignSafe, HooksSafe, ParkSafe, BatchJobsSafe, RebootsSafe,
   StartOfBatchSafe, EndOfRunSafe DEF Pass

\* Jobs and machines never start an upgrade, and never write the status.
LEMMA ElsewhereRests ==
    ASSUME SafeInv, Cluster \/ Users
    PROVE  /\ UNCHANGED <<status, draining, unsaved>>
           /\ BusyNodes' \subseteq BusyNodes
<1>1. UNCHANGED <<status, draining, unsaved>>
  BY DEF inPass, Cluster, JobAccepted, JobSucceeds, JobFails, JobExpires, OnlyJob, Reboot,
         InstallFails, Return, Rejoin, OnlyNode, Outage, DeadlinePasses, HookFinishes,
         HookExpires, HookActs, WindowMoves, Users, ToggleSuspend, RequestReset,
         EditSpec, JoinNode, OnlyUsers
<1>2. BusyNodes' \subseteq BusyNodes
  <2>1. CASE \E n \in Node : JobAccepted(n) \/ JobSucceeds(n) \/ JobFails(n) \/ JobExpires(n)
    <3>1. PICK n \in Node : JobAccepted(n) \/ JobSucceeds(n) \/ JobFails(n) \/ JobExpires(n)
      BY <2>1
    <3>2. \A m \in Node \ {n} : job'[m] = job[m]
      BY <3>1 DEF JobAccepted, JobSucceeds, JobFails, JobExpires, JobActs, SafeInv, TypeOK
    <3>3. Unfinished(job'[n]) => Unfinished(job[n])
      BY <3>1 DEF JobAccepted, JobSucceeds, JobFails, JobExpires, JobActs, Unfinished,
                  NoJob, SafeInv, TypeOK
    <3> QED
      BY <3>2, <3>3 DEF BusyNodes
  <2>2. CASE UNCHANGED job
    BY <2>2, SameBusy
  <2> QED
    BY <2>1, <2>2
    DEF Cluster, Reboot, InstallFails, Return, Rejoin, OnlyNode, Outage, DeadlinePasses,
        HookFinishes, HookExpires, HookActs, WindowMoves, Users, ToggleSuspend,
        RequestReset, EditSpec, JoinNode, OnlyUsers, objects
<1> QED
  BY <1>1, <1>2

LEMMA ElsewhereSafe ==
    ASSUME SafeInv, Cluster \/ Users
    PROVE  Safe'
<1>1. UNCHANGED <<status, draining, unsaved>> /\ BusyNodes' \subseteq BusyNodes
  BY ElsewhereRests
<1>2. /\ status'.completed \subseteq status.completed
      /\ status'.failed \subseteq status.failed
      /\ CompletedHidesNoFailure'
  BY <1>1 DEF SafeInv, Safe, CompletedHidesNoFailure
<1> QED
  BY <1>1, <1>2, UnsettledSafe

LEMMA NextSafe == SafeInv /\ [Next]_vars => Safe'
<1> SUFFICES ASSUME SafeInv, [Next]_vars PROVE Safe'
  OBVIOUS
<1>1. CASE UNCHANGED vars
  <2>1. UNCHANGED <<status, draining, unsaved, job>>
    BY <1>1 DEF vars, inPass, objects
  <2>2. BusyNodes' = BusyNodes
    BY <2>1, SameBusy
  <2> QED
    BY <2>1, <2>2, UnsettledSafe DEF SafeInv, Safe, CompletedHidesNoFailure
<1> QED
  BY <1>1, PassSafe, ElsewhereSafe DEF Next

LEMMA SafetyInvariant == Spec => []SafeInv
<1>1. Init => SafeInv
  BY InitType, InitSafe DEF SafeInv
<1>2. SafeInv /\ [Next]_vars => SafeInv'
  BY NextType, NextSafe DEF SafeInv
<1> QED
  BY <1>1, <1>2, PTL DEF Spec

\* At no time are more than spec.parallelism machines being upgraded, nor a
\* control-plane machine beside another, whatever users and faults do.
THEOREM OneBatch == Spec => []OneBatchAtATime
<1>1. SafeInv => OneBatchAtATime
  BY DEF SafeInv, Safe
<1> QED
  BY <1>1, SafetyInvariant, PTL

\* A node with an outcome has no upgrade Job that could still act on it, and
\* never has two outcomes.
THEOREM OutcomesSettled == Spec => []OutcomesAreSettled
<1>1. SafeInv => OutcomesAreSettled
  BY DEF SafeInv, Safe
<1> QED
  BY <1>1, SafetyInvariant, PTL

\* What a pass decided before it drained a batch still holds afterwards.
THEOREM DrainedBatchStarts == Spec => []DrainedBatchMayStart
<1>1. SafeInv => DrainedBatchMayStart
  BY DEF SafeInv, Safe
<1> QED
  BY <1>1, SafetyInvariant, PTL

\* A run is never reported as completed with a failed node or pre-hook.
THEOREM FailureIsReported == Spec => []CompletedHidesNoFailure
<1>1. SafeInv => CompletedHidesNoFailure
  BY DEF SafeInv, Safe
<1> QED
  BY <1>1, SafetyInvariant, PTL

-------------------------------------------------------------------------------
(***************************************************************************)
(* TalosUpgrade implements UpgradeCampaign: every step of the reconciler,  *)
(* the cluster and the users is a step of the campaign or leaves it alone. *)
(* That a run ends while nothing is upgraded needs Quiet besides Safe.     *)
(***************************************************************************)

\* The hooks and the ends of a run come while no Job is at work, and a batch is
\* drained in the phase that says so, before any node of the run has failed.
Quiet ==
    /\ status.phase \in {"PreHook", "PostHook"} => BusyNodes = {}
    /\ draining # {} => status.phase = "Draining" /\ status.failed = {}

CampaignInv == SafeInv /\ Quiet

-------------------------------------------------------------------------------
(***************************************************************************)
(* The steps of the campaign, in the terms of the reconciler.              *)
(***************************************************************************)

\* Nothing happens to the campaign.
LEMMA StutterStep ==
    ASSUME UNCHANGED status, BusyNodes' = BusyNodes
    PROVE  UNCHANGED Promise!vars
BY DEF Promise!vars, Verdict

\* The run is not, or no longer, at an end.
LEMMA ReopenStep ==
    ASSUME ~IsTerminal(status'.phase), BusyNodes' = BusyNodes,
           status'.completed = status.completed, status'.failed = status.failed,
           status'.cycles = status.cycles
    PROVE  Promise!Next
BY DEF Promise!Next, Promise!Reopen, Verdict

LEMMA PhaseFields ==
    ASSUME SafeInv, NEW p
    PROVE  /\ InPhase(p).phase = p
           /\ InPhase(p).completed = status.completed
           /\ InPhase(p).failed = status.failed
           /\ InPhase(p).cycles = status.cycles
BY DEF SafeInv, TypeOK, Status, InPhase

LEMMA InPhaseStep ==
    ASSUME SafeInv, NEW p, ~IsTerminal(p), status' = InPhase(p), UNCHANGED job
    PROVE  Promise!Next
BY SameBusy, PhaseFields, ReopenStep

\* Jobs end.
LEMMA RestStep ==
    ASSUME UNCHANGED status, BusyNodes' \subseteq BusyNodes
    PROVE  Promise!Next
BY DEF Promise!Next, Promise!MachinesRest, Verdict

\* Outcomes are recorded while the machines rest.
LEMMA SettleStep ==
    ASSUME CampaignInv, BusyNodes = {}, BusyNodes' = {}, ~IsTerminal(status.phase),
           NEW good \in SUBSET Node, NEW bad \in SUBSET Node,
           status'.completed = status.completed \cup good,
           status'.failed = status.failed \cup bad,
           status'.completed \cap status'.failed = {},
           status'.cycles = status.cycles,
           status'.phase = "Completed" => status'.failed = {}
    PROVE  Promise!Next
<1> DEFINE newGood == good \ (status.completed \cup status.failed)
           newBad == bad \ (status.completed \cup status.failed)
<1>1. /\ newGood \in SUBSET (Node \ Promise!Settled)
      /\ newBad \in SUBSET (Node \ Promise!Settled)
  BY DEF Promise!Settled
<1>2. /\ status'.completed = status.completed \cup newGood
      /\ status'.failed = status.failed \cup newBad
  OBVIOUS
<1>3. Verdict = "none" /\ Verdict' \in {"none", "Completed", "Failed"}
  BY DEF Verdict, IsTerminal
<1>4. Verdict' = "Completed" => status'.failed = {}
  BY DEF Verdict, IsTerminal
<1> HIDE DEF newGood, newBad
<1>5. Promise!Settle
  BY <1>1, <1>2, <1>3, <1>4 DEF Promise!Settle
<1> QED
  BY <1>5 DEF Promise!Next

\* The run starts over, and so does the campaign.
LEMMA RestartStep ==
    ASSUME status' = Restarted(0), UNCHANGED job
    PROVE  Promise!Next
<1>1. BusyNodes' = BusyNodes
  BY SameBusy
<1>2. Promise!Restart
  BY <1>1 DEF Promise!Restart, Restarted, Verdict, IsTerminal
<1> QED
  BY <1>2 DEF Promise!Next

\* Jobs start for machines of one batch, none of which has an outcome.
LEMMA StartStep ==
    ASSUME CampaignInv, BusyNodes = {}, ~IsTerminal(status.phase), status.failed = {},
           NEW created \in SUBSET Node, IsBatch(created), created \cap Resolved = {},
           BusyNodes' = created,
           status'.completed = status.completed, status'.failed = status.failed,
           status'.cycles = status.cycles, ~IsTerminal(status'.phase)
    PROVE  Promise!Next
<1>1. created \cap Promise!Settled = {}
  BY DEF Promise!Settled, Resolved
<1>2. created \in {batch \in SUBSET Node : IsBatch(batch)}
  OBVIOUS
<1>3. Promise!StartBatch
  BY <1>1, <1>2 DEF Promise!StartBatch, Verdict
<1> QED
  BY <1>3 DEF Promise!Next

-------------------------------------------------------------------------------
(***************************************************************************)
(* The passes before any upgrade work.                                     *)
(***************************************************************************)
LEMMA FinalizedFields ==
    ASSUME NEW s \in Status
    PROVE  /\ Finalized(s).completed = s.completed
           /\ Finalized(s).failed = s.failed
           /\ Finalized(s).cycles = s.cycles
           /\ Finalized(s).phase = "Completed" => s.failed = {}
BY DEF Finalized, FinalPhase, Status

LEMMA AnnotationsStep ==
    ASSUME CampaignInv, Annotations
    PROVE  Promise!Next
<1>1. CASE PassSuspended
  <2>1. /\ status' = Stamped(InPhase("Pending"))
        /\ BusyNodes' = BusyNodes
    BY <1>1, SameBusy DEF PassSuspended, WriteStatus, objects
  <2>2. /\ status'.phase = "Pending" /\ status'.cycles = status.cycles
        /\ status'.completed = status.completed /\ status'.failed = status.failed
    BY <2>1 DEF Stamped, InPhase, CampaignInv, SafeInv, TypeOK, Status
  <2> QED
    BY <2>1, <2>2, ReopenStep DEF IsTerminal
<1>2. CASE PassReset
  <2>1. UNCHANGED job
    BY <1>2 DEF PassReset, objects
  <2>2. CASE status' = Restarted(0)
    BY <2>1, <2>2, RestartStep
  <2>3. CASE UNCHANGED status
    BY <2>1, <2>3, SameBusy, RestStep
  <2> QED
    BY <1>2, <2>2, <2>3 DEF PassReset
<1>3. CASE PassSpecChange
  BY <1>3, RestartStep DEF PassSpecChange, WriteStatus, objects
<1> QED
  BY <1>1, <1>2, <1>3 DEF Annotations

LEMMA CampaignStep ==
    ASSUME CampaignInv, Campaign
    PROVE  Promise!Next
<1>0. BusyNodes' = BusyNodes
  BY SameBusy DEF Campaign, RestartCampaign, GiveUp, RecheckFails, WriteStatus, objects
<1>1. CASE RestartCampaign
  <2>1. /\ status.phase = "Completed" /\ status.cycles < MaxCompletionCycles
        /\ status' = Restarted(status.cycles + 1)
    BY <1>1 DEF RestartCampaign, Recheck, CyclesLeft, WriteStatus
  <2>2. /\ status'.phase = "Pending" /\ status'.cycles = status.cycles + 1
        /\ status'.completed = {} /\ status'.failed = {}
    BY <2>1 DEF Restarted
  <2>3. Promise!StartOver
    BY <1>0, <2>1, <2>2 DEF Promise!StartOver, Verdict, IsTerminal
  <2> QED
    BY <2>3 DEF Promise!Next
<1>2. CASE GiveUp
  <2>1. /\ status.phase = "Completed" /\ ~(status.cycles < MaxCompletionCycles)
        /\ status' = InPhase("Failed")
    BY <1>2 DEF GiveUp, Recheck, CyclesLeft, WriteStatus
  <2>2. status.cycles = MaxCompletionCycles
    <3>1. status.cycles \in 0..MaxCompletionCycles
      BY DEF CampaignInv, SafeInv, TypeOK, Status
    <3> QED
      BY <2>1, <3>1, CyclesAssumption
  <2>3. /\ status'.phase = "Failed" /\ status'.cycles = status.cycles
        /\ status'.completed = status.completed /\ status'.failed = status.failed
    BY <2>1, PhaseFields DEF CampaignInv
  <2>4. Promise!GiveUp
    BY <1>0, <2>1, <2>2, <2>3 DEF Promise!GiveUp, Verdict, IsTerminal
  <2> QED
    BY <2>4 DEF Promise!Next
<1>3. CASE RecheckFails
  BY <1>3, InPhaseStep DEF RecheckFails, objects, CampaignInv, IsTerminal
<1> QED
  BY <1>1, <1>2, <1>3 DEF Campaign

\* The last hook is over, or there was none: the run may end.
LEMMA EndStep ==
    ASSUME CampaignInv, BusyNodes = {}, ~IsTerminal(status.phase), UNCHANGED job,
           \/ status' = Finalized(status)
           \/ status' = InPhase(FinalPhase(status))
    PROVE  Promise!Next
<1> DEFINE none == {}
<1>1. /\ status'.completed = status.completed \cup none
      /\ status'.failed = status.failed \cup none
      /\ status'.cycles = status.cycles
      /\ status'.phase = "Completed" => status'.failed = {}
  <2>1. CASE status' = Finalized(status)
    BY <2>1, FinalizedFields DEF CampaignInv, SafeInv, TypeOK
  <2>2. CASE status' = InPhase(FinalPhase(status))
    BY <2>2, PhaseFields DEF CampaignInv, FinalPhase
  <2> QED
    BY <2>1, <2>2
<1>2. status'.completed \cap status'.failed = {}
  BY <1>1 DEF CampaignInv, SafeInv, Safe, OutcomesAreSettled
<1>3. none \in SUBSET Node /\ BusyNodes' = {}
  BY SameBusy
<1> HIDE DEF none
<1> QED
  BY <1>1, <1>2, <1>3, SettleStep

LEMMA HooksStep ==
    ASSUME CampaignInv, Hooks
    PROVE  Promise!Next
<1>1. ASSUME NEW k \in {"pre", "post"}, StartHook(k) PROVE Promise!Next
  BY <1>1, SameBusy, RestStep DEF StartHook
<1>2. ASSUME NEW k \in {"pre", "post"}, HandleHook(k) PROVE Promise!Next
  <2>1. BusyNodes' = BusyNodes
    BY <1>2, SameBusy DEF HandleHook
  <2>2. /\ status'.phase = status.phase /\ status'.cycles = status.cycles
        /\ status'.completed = status.completed /\ status'.failed = status.failed
    BY <1>2 DEF HandleHook, AtIndex, CampaignInv, SafeInv, TypeOK, Status
  <2>3. ~IsTerminal(status.phase)
    BY <1>2 DEF HandleHook, InHookPhase, HookPhase, IsTerminal
  <2> QED
    BY <2>1, <2>2, <2>3, ReopenStep
<1>3. CASE LeavePreHooks
  <2>1. /\ BusyNodes = {} /\ ~IsTerminal(status.phase) /\ UNCHANGED job
        /\ status' = Finalized(status) \/ status' = InPhase("Pending")
    BY <1>3 DEF LeavePreHooks, InHookPhase, HookPhase, WriteStatus, objects, IsTerminal,
                CampaignInv, Quiet
  <2> QED
    BY <2>1, EndStep, InPhaseStep DEF CampaignInv, IsTerminal
<1>4. CASE LeavePostHooks
  <2>1. /\ BusyNodes = {} /\ ~IsTerminal(status.phase) /\ UNCHANGED job
        /\ status' = InPhase(FinalPhase(status))
    BY <1>4 DEF LeavePostHooks, InHookPhase, HookPhase, WriteStatus, objects, IsTerminal,
                CampaignInv, Quiet
  <2> QED
    BY <2>1, EndStep
<1> QED
  BY <1>1, <1>2, <1>3, <1>4 DEF Hooks

LEMMA ParkStep ==
    ASSUME CampaignInv,
           Checks \/ ParkForClosedWindow \/ ParkInPending \/ AwaitHealth \/ EnterPreHook
    PROVE  Promise!Next
<1>1. /\ UNCHANGED job
      /\ \E p \in {"Pending", "HealthChecking", "MaintenanceWindow", "PreHook"} :
           status' = InPhase(p)
  BY DEF Checks, ParkOutsideWindow, WaitForOtherUpgrade, ParkForClosedWindow, ParkInPending,
         AwaitHealth, EnterPreHook, WriteStatus, objects
<1> QED
  BY <1>1, InPhaseStep DEF CampaignInv, IsTerminal

-------------------------------------------------------------------------------
(***************************************************************************)
(* Outcomes: of a finished batch, and of nodes whose reboot was awaited.   *)
(***************************************************************************)

\* Outcomes are written while no Job is at work and the run has not ended.
LEMMA OutcomeStep ==
    ASSUME CampaignInv, BusyNodes = {}, ~IsTerminal(status.phase),
           NEW S, job' = Without(S),
           NEW good \in SUBSET Node, NEW bad \in SUBSET Node,
           good \cap bad = {}, (good \cup bad) \cap Resolved = {},
           status'.completed = status.completed \cup good,
           status'.failed = status.failed \cup bad,
           status'.cycles = status.cycles, status'.phase # "Completed"
    PROVE  Promise!Next
<1>1. BusyNodes' = {}
  BY WithoutBusy
<1>2. status'.completed \cap status'.failed = {}
  BY DEF CampaignInv, SafeInv, Safe, OutcomesAreSettled, Resolved
<1> QED
  BY <1>1, <1>2, SettleStep

LEMMA RecordedOutcome ==
    ASSUME CampaignInv, NEW good, NEW bad, NEW track, NEW lost
    PROVE  LET s == Outcome(good, bad, track, lost) IN
           /\ DOMAIN s = DOMAIN status
           /\ s.completed = status.completed \cup good
           /\ s.failed = status.failed \cup bad
           /\ s.phase = status.phase /\ s.cycles = status.cycles
BY DEF CampaignInv, SafeInv, TypeOK, Status, Outcome

LEMMA LandedStep ==
    ASSUME CampaignInv, BusyNodes = {}, ~IsTerminal(status.phase),
           NEW good \in SUBSET Node, NEW bad \in SUBSET Node,
           good \cap bad = {}, (good \cup bad) \cap Resolved = {},
           NEW track, NEW cut, NEW phase, phase # "Completed",
           Landed(good, bad, track, cut, phase)
    PROVE  Promise!Next
<1>1. PICK S : job' = Without(S)
  BY DEF Landed
<1>2. status' = [Outcome(good, bad, track, NoLoss) EXCEPT !.phase = phase]
  BY DEF Landed
<1>3. /\ status'.completed = status.completed \cup good
      /\ status'.failed = status.failed \cup bad
      /\ status'.phase = phase /\ status'.cycles = status.cycles
  BY <1>2, RecordedOutcome DEF CampaignInv, SafeInv, TypeOK, Status
<1> QED
  BY <1>1, <1>3, OutcomeStep

\* A run that passed the checks of a pass has not ended.
LEMMA AdmittedRuns == Admitted => ~IsTerminal(status.phase)
BY DEF Admitted, Working, IsTerminal

\* Every Job of the batch has finished, so no machine is at work.
LEMMA FinishedBatch ==
    ASSUME CampaignInv, BatchFinished
    PROVE  /\ BusyNodes = {} /\ ~IsTerminal(status.phase)
           /\ BatchGood \in SUBSET Node /\ BatchGood \cap Resolved = {}
           /\ \A offTarget \in SUBSET MayHaveFailed :
                /\ BatchBad(offTarget) \in SUBSET Node
                /\ BatchBad(offTarget) \cap Resolved = {}
                /\ BatchGood \cap BatchBad(offTarget) = {}
<1>1. ActiveJobs \in SUBSET Node /\ ActiveJobs \cap Resolved = {}
  BY DEF ActiveJobs
<1>2. BusyNodes \subseteq ActiveJobs \cup Resolved
  BY DEF BusyNodes, ActiveJobs, Unfinished, NoJob
<1>3. ActiveJobs \cap BusyNodes = {}
  BY DEF BatchFinished, BusyNodes, Finished, Unfinished
<1>4. BusyNodes = {}
  BY <1>2, <1>3 DEF CampaignInv, SafeInv, Safe, OutcomesAreSettled
<1>5. BatchGood \in SUBSET ActiveJobs /\ MayHaveFailed \cap BatchGood = {}
  BY DEF BatchGood, MayHaveFailed, Verified, Mismatched
<1>6. ASSUME NEW offTarget \in SUBSET MayHaveFailed
      PROVE  /\ BatchBad(offTarget) \in SUBSET ActiveJobs
             /\ BatchGood \cap BatchBad(offTarget) = {}
  BY <1>5 DEF BatchBad, BatchWaiting, MayHaveFailed
<1>7. ~IsTerminal(status.phase)
  BY AdmittedRuns DEF BatchFinished
<1> QED
  BY <1>1, <1>4, <1>5, <1>6, <1>7

LEMMA BatchJobsStep ==
    ASSUME CampaignInv, BatchJobs
    PROVE  Promise!Next
<1>1. CASE WaitForJobs
  <2>1. /\ UNCHANGED job
        /\ \E p \in {"Rebooting", "Upgrading"} : status' = InPhase(p)
    BY <1>1 DEF WaitForJobs
  <2> QED
    BY <2>1, InPhaseStep DEF CampaignInv, IsTerminal
<1>2. CASE JobsUnreadable
  BY <1>2, InPhaseStep DEF JobsUnreadable, objects, CampaignInv, IsTerminal
<1>3. CASE HandleFinishedBatch
  <2>1. BatchFinished
    BY <1>3 DEF HandleFinishedBatch
  <2>2. PICK offTarget \in SUBSET MayHaveFailed, lost \in Losses(ActiveJobs) :
          /\ Record(BatchGood, BatchBad(offTarget), lost)
          /\ status' = [Outcome(BatchGood, BatchBad(offTarget), BatchWaiting(offTarget), lost)
                          EXCEPT !.phase = BatchPhase(offTarget)]
    BY <1>3 DEF HandleFinishedBatch
  <2>3. BatchPhase(offTarget) # "Completed"
    BY <2>1, FinishedBatch DEF BatchPhase, IsTerminal
  <2>4. /\ status'.completed = status.completed \cup BatchGood
        /\ status'.failed = status.failed \cup BatchBad(offTarget)
        /\ status'.cycles = status.cycles /\ status'.phase # "Completed"
    BY <2>2, <2>3, RecordedOutcome DEF CampaignInv, SafeInv, TypeOK, Status
  <2>5. PICK S : job' = Without(S)
    BY <2>2 DEF Record
  <2> QED
    BY <2>1, <2>4, <2>5, FinishedBatch, OutcomeStep
<1>4. CASE InterruptFinishedBatch
  <2>1. BatchFinished /\ status.phase # "Completed"
    BY <1>4, FinishedBatch DEF InterruptFinishedBatch, IsTerminal
  <2>2. \E good, bad, track, cut :
          /\ good \in SUBSET BatchGood
          /\ \E offTarget \in SUBSET MayHaveFailed : bad \in SUBSET BatchBad(offTarget)
          /\ Landed(good, bad, track, cut, status.phase)
    <3>1. CASE \E good \in SUBSET BatchGood : \E cut \in AtMostOne(BatchGood \ good) :
                 Landed(good, {}, {}, cut, status.phase)
      <4>1. {} \in SUBSET MayHaveFailed /\ {} \in SUBSET BatchBad({})
        OBVIOUS
      <4> QED
        BY <3>1, <4>1
    <3>2. CASE \E offTarget \in SUBSET MayHaveFailed :
               \E bad \in SUBSET BatchBad(offTarget) :
               \E cut \in AtMostOne(BatchBad(offTarget) \ bad) :
                 Landed(BatchGood, bad, BatchWaiting(offTarget), cut, status.phase)
      BY <3>2
    <3> QED
      BY <1>4, <3>1, <3>2 DEF InterruptFinishedBatch
  <2>3. PICK good, bad, track, cut :
          /\ good \in SUBSET BatchGood
          /\ \E offTarget \in SUBSET MayHaveFailed : bad \in SUBSET BatchBad(offTarget)
          /\ Landed(good, bad, track, cut, status.phase)
    BY <2>2
  <2>4. /\ good \in SUBSET Node /\ bad \in SUBSET Node
        /\ good \cap bad = {} /\ (good \cup bad) \cap Resolved = {}
    BY <2>1, <2>3, FinishedBatch
  <2> QED
    BY <2>1, <2>3, <2>4, FinishedBatch, LandedStep
<1> QED
  BY <1>1, <1>2, <1>3, <1>4 DEF BatchJobs

\* No Job is left, so no machine is at work while reboots are judged.
LEMMA JudgedReboots ==
    ASSUME CampaignInv, AwaitingReboots
    PROVE  /\ BusyNodes = {} /\ ~IsTerminal(status.phase)
           /\ RebootGood \in SUBSET Node /\ RebootGood \cap Resolved = {}
           /\ \A denied : /\ RebootBad(denied) \in SUBSET Node
                          /\ RebootBad(denied) \cap Resolved = {}
                          /\ RebootGood \cap RebootBad(denied) = {}
<1>1. BusyNodes = {} /\ ~IsTerminal(status.phase)
  BY NothingBusy, AdmittedRuns DEF AwaitingReboots, CampaignInv
<1>2. Rebooted \in SUBSET Node /\ Rebooted \cap Resolved = {}
  BY DEF Rebooted, CampaignInv, SafeInv, TypeOK, Status
<1>3. RebootGood \in SUBSET Rebooted
  BY DEF RebootGood
<1>4. ASSUME NEW denied
      PROVE  /\ RebootBad(denied) \in SUBSET Rebooted
             /\ RebootGood \cap RebootBad(denied) = {}
  BY DEF RebootGood, RebootBad, Verified, Mismatched
<1> QED
  BY <1>1, <1>2, <1>3, <1>4

LEMMA RebootsStep ==
    ASSUME CampaignInv, Reboots
    PROVE  Promise!Next
<1>1. CASE EndPass
  BY <1>1, SameBusy, RestStep DEF EndPass, objects
<1>2. CASE ProcessReboots
  <2>1. AwaitingReboots
    BY <1>2 DEF ProcessReboots, JudgeReboots
  <2>2. PICK denied \in SUBSET MayBeDenied, lost \in Losses(status.rebooting) :
          LET bad == RebootBad(denied)
              waiting == RebootWaiting(denied)
              outcome == Outcome(RebootGood, bad, {}, lost) IN
          /\ Record(RebootGood, bad, lost)
          /\ status' = [outcome EXCEPT
                          !.rebooting = @ \ (Resolved \ lost.track),
                          !.phase = IF waiting # {} THEN "Rebooting" ELSE @]
    BY <1>2 DEF ProcessReboots, JudgeReboots
  <2>3. /\ status'.completed = status.completed \cup RebootGood
        /\ status'.failed = status.failed \cup RebootBad(denied)
        /\ status'.phase \in {"Rebooting", status.phase}
        /\ status'.cycles = status.cycles
    BY <2>2, RecordedOutcome DEF CampaignInv, SafeInv, TypeOK, Status
  <2>4. PICK S : job' = Without(S)
    BY <2>2 DEF Record
  <2> QED
    BY <2>1, <2>3, <2>4, JudgedReboots, OutcomeStep DEF IsTerminal
<1>3. CASE InterruptReboots
  <2>1. AwaitingReboots
    BY <1>3 DEF InterruptReboots
  <2>2. \E denied, done, cut :
          /\ done \in SUBSET (RebootGood \cup RebootBad(denied))
          /\ Landed(done \cap RebootGood, done \ RebootGood, {}, cut, status.phase)
    BY <1>3 DEF InterruptReboots
  <2>3. PICK denied, good, bad, track, cut :
          /\ good \in SUBSET RebootGood /\ bad \in SUBSET RebootBad(denied)
          /\ Landed(good, bad, track, cut, status.phase)
    BY <2>2
  <2>4. /\ good \in SUBSET Node /\ bad \in SUBSET Node
        /\ good \cap bad = {} /\ (good \cup bad) \cap Resolved = {}
    BY <2>1, <2>3, JudgedReboots
  <2> QED
    BY <2>1, <2>3, <2>4, JudgedReboots, LandedStep DEF IsTerminal
<1>4. ASSUME NEW n \in Node, OutcomeUnsaved(n) PROVE Promise!Next
  <2>1. AwaitingReboots
    BY <1>4 DEF OutcomeUnsaved
  <2>2. PICK denied \in SUBSET MayBeDenied :
          LET waits == RebootWaiting(denied) # {}
              fails == status.failed \cup RebootBad(denied) # {} IN
          Landed(RebootGood \ {n}, RebootBad(denied) \ {n}, {}, {n},
                 CASE waits -> "Rebooting"
                   [] ~waits /\ fails -> IF status.postHook < PostHooks
                                         THEN "PostHook" ELSE "Failed"
                   [] OTHER -> status.phase)
    BY <1>4 DEF OutcomeUnsaved
  <2> DEFINE waits == RebootWaiting(denied) # {}
             fails == status.failed \cup RebootBad(denied) # {}
             next == CASE waits -> "Rebooting"
                       [] ~waits /\ fails -> IF status.postHook < PostHooks
                                             THEN "PostHook" ELSE "Failed"
                       [] OTHER -> status.phase
             good == RebootGood \ {n}
             bad == RebootBad(denied) \ {n}
             track == {}
             cut == {n}
  <2>3. next \in {"Rebooting", "PostHook", "Failed", status.phase}
    <3> HIDE DEF waits, fails
    <3> QED
      OBVIOUS
  <2>4. Landed(good, bad, track, cut, next)
    BY <2>2
  <2>5. /\ good \in SUBSET Node /\ bad \in SUBSET Node
        /\ good \cap bad = {} /\ (good \cup bad) \cap Resolved = {}
    BY <2>1, JudgedReboots
  <2> HIDE DEF next, good, bad, track, cut
  <2> QED
    BY <2>1, <2>3, <2>4, <2>5, JudgedReboots, LandedStep DEF IsTerminal
<1> QED
  BY <1>1, <1>2, <1>3, <1>4 DEF Reboots

-------------------------------------------------------------------------------
(***************************************************************************)
(* The start of a batch and the end of a run.                              *)
(***************************************************************************)
LEMMA StartableRuns ==
    ASSUME CampaignInv, StartableBatch # {}
    PROVE  ~IsTerminal(status.phase) /\ status.failed = {}
<1>1. CASE draining # {}
  BY <1>1 DEF CampaignInv, Quiet, IsTerminal
<1>2. CASE draining = {}
  <2>1. BatchReady
    BY <1>2 DEF StartableBatch
  <2> QED
    BY <2>1, AdmittedRuns DEF BatchReady, BatchChosen, Selecting
<1> QED
  BY <1>1, <1>2

LEMMA StartJobsStep ==
    ASSUME CampaignInv, StartableBatch # {}, NEW created \in SUBSET StartableBatch,
           NEW labelled, StartJobs(StartableBatch, created, labelled),
           status' = status \/ \E p : ~IsTerminal(p) /\ status' = InPhase(p)
    PROVE  Promise!Next
<1>1. BusyNodes' = created
  <2>1. ASSUME NEW n \in Node
        PROVE  Unfinished(job'[n]) <=> n \in created
    <3>1. job'[n] = IF n \in created THEN [state |-> "running", target |-> spec.target]
                                     ELSE job[n]
      BY DEF StartJobs
    <3>2. ~Unfinished(job[n])
      BY StartableBatchSafe DEF BusyNodes, CampaignInv
    <3> QED
      BY <3>1, <3>2 DEF Unfinished
  <2>2. created \subseteq Node
    BY StartableBatchSafe DEF CampaignInv
  <2> QED
    BY <2>1, <2>2 DEF BusyNodes
<1>2. /\ created \in SUBSET Node /\ created \cap Resolved = {}
      /\ BusyNodes = {} /\ IsBatch(created)
  BY StartableBatchSafe, PartOfBatch DEF CampaignInv
<1>3. /\ status'.completed = status.completed /\ status'.failed = status.failed
      /\ status'.cycles = status.cycles /\ ~IsTerminal(status'.phase)
  BY StartableRuns, PhaseFields DEF CampaignInv
<1> QED
  BY <1>1, <1>2, <1>3, StartableRuns, StartStep

LEMMA StartOfBatchStep ==
    ASSUME CampaignInv, StartOfBatch
    PROVE  Promise!Next
<1>1. CASE AwaitHealth \/ EnterPreHook
  BY <1>1, ParkStep
<1>2. CASE BeginDrain
  BY <1>2, InPhaseStep DEF BeginDrain, objects, CampaignInv, IsTerminal
<1>3. CASE DrainFails \/ CrashInDrain
  BY <1>3, SameBusy, RestStep DEF DrainFails, CrashInDrain
<1>4. CASE StartBatch
  <2>1. /\ StartableBatch # {}
        /\ \E labelled : StartJobs(StartableBatch, StartableBatch, labelled)
        /\ status' = InPhase("Upgrading")
    BY <1>4 DEF StartBatch
  <2>2. ~IsTerminal("Upgrading")
    BY DEF IsTerminal
  <2> QED
    BY <2>1, <2>2, StartJobsStep
<1>5. CASE InterruptStartBatch
  <2>1. /\ StartableBatch # {}
        /\ \E created \in SUBSET StartableBatch : \E labelled :
             StartJobs(StartableBatch, created, labelled)
        /\ status' = status \/ status' = InPhase("Pending")
    BY <1>5 DEF InterruptStartBatch, UpTo
  <2>2. ~IsTerminal("Pending")
    BY DEF IsTerminal
  <2> QED
    BY <2>1, <2>2, StartJobsStep
<1> QED
  BY <1>1, <1>2, <1>3, <1>4, <1>5 DEF StartOfBatch

LEMMA EndOfRunStep ==
    ASSUME CampaignInv, EndOfRun
    PROVE  Promise!Next
<1>0. BusyNodes = {} /\ ~IsTerminal(status.phase)
  BY NothingBusy, AdmittedRuns
  DEF EndOfRun, FinalizeFailed, FinishRun, FinishWaits, InterruptFinishRun, NothingPending,
      Selecting, CampaignInv
<1>1. CASE FinalizeFailed
  BY <1>0, <1>1, EndStep DEF FinalizeFailed, WriteStatus, objects
<1>2. CASE FinishRun \/ FinishWaits \/ InterruptFinishRun
  <2>1. /\ status.failed = {}
        /\ \E lost : RecordOutOfBand(lost)
    BY <1>2 DEF FinishRun, FinishWaits, InterruptFinishRun, NothingPending, Selecting
  <2>2. BusyNodes' = {}
    BY <1>0, <2>1, SameBusy DEF RecordOutOfBand
  <2>3. /\ WithOutOfBand \in Status
        /\ \/ WithOutOfBand.completed = status.completed
           \/ WithOutOfBand.completed = status.completed \cup (unsaved \cup OutOfBand)
        /\ WithOutOfBand.failed = status.failed
        /\ WithOutOfBand.phase = status.phase
        /\ WithOutOfBand.cycles = status.cycles
    BY OutOfBandType DEF WithOutOfBand, CampaignInv, SafeInv, TypeOK, Status
  <2>4. \E s \in {status, WithOutOfBand} :
          /\ s \in Status
          /\ status' \in {s, Finalized(s), [s EXCEPT !.phase = "HealthChecking"]}
    BY <1>2, <2>3 DEF FinishRun, FinishWaits, InterruptFinishRun, InPhase, CampaignInv,
                      SafeInv, TypeOK
  <2>5. PICK s \in {status, WithOutOfBand} :
          /\ s \in Status
          /\ status' \in {s, Finalized(s), [s EXCEPT !.phase = "HealthChecking"]}
    BY <2>4
  <2>6. /\ status'.completed = s.completed /\ status'.failed = s.failed
        /\ status'.cycles = s.cycles
    BY <2>5, FinalizedFields DEF Status
  <2>7. /\ status'.failed = {} /\ status'.cycles = status.cycles
        /\ \/ status'.completed = status.completed
           \/ status'.completed = status.completed \cup (unsaved \cup OutOfBand)
    BY <2>1, <2>3, <2>5, <2>6
  <2>8. PICK good \in SUBSET Node : status'.completed = status.completed \cup good
    BY <2>7 DEF OutOfBand, CampaignInv, SafeInv, TypeOK
  <2> DEFINE none == {}
  <2>9. none \in SUBSET Node /\ status'.failed = status.failed \cup none
    BY <2>1, <2>7
  <2>10. status'.completed \cap status'.failed = {}
    BY <2>7
  <2> HIDE DEF none
  <2> QED
    BY <1>0, <2>2, <2>7, <2>8, <2>9, <2>10, SettleStep
<1> QED
  BY <1>1, <1>2 DEF EndOfRun

-------------------------------------------------------------------------------
(***************************************************************************)
(* Quiet is an invariant: every way into a hook phase or the end of a run  *)
(* finds no Job left, and what starts Jobs leaves those phases behind.     *)
(***************************************************************************)
LEMMA BusyKept ==
    ASSUME CampaignInv, BusyNodes = {}, UNCHANGED job \/ \E S : job' = Without(S)
    PROVE  BusyNodes' = {}
BY SameBusy, WithoutBusy

\* The steps that write nothing of it.
LEMMA QuietStutter ==
    ASSUME CampaignInv, UNCHANGED status, draining' \in {{}, draining},
           BusyNodes' \subseteq BusyNodes
    PROVE  Quiet'
BY DEF CampaignInv, Quiet

LEMMA AnnotationsQuiet ==
    ASSUME CampaignInv, Annotations \/ Campaign
    PROVE  Quiet'
<1>1. draining = {} /\ draining' = {} /\ UNCHANGED job
  BY DEF Annotations, PassSuspended, PassReset, PassSpecChange, Campaign, RestartCampaign,
         GiveUp, RecheckFails, Recheck, Settled, Idle, WriteStatus, objects, inPass
<1>2. \/ UNCHANGED status
      \/ \E p \in {"Pending", "Failed"} : status' \in {InPhase(p), Stamped(InPhase(p))}
      \/ \E c : status' = Restarted(c)
  BY DEF Annotations, PassSuspended, PassReset, PassSpecChange, Campaign, RestartCampaign,
         GiveUp, RecheckFails, WriteStatus
<1>3. CASE UNCHANGED status
  BY <1>1, <1>3, SameBusy, QuietStutter
<1>4. CASE \/ \E p \in {"Pending", "Failed"} : status' \in {InPhase(p), Stamped(InPhase(p))}
           \/ \E c : status' = Restarted(c)
  <2>1. \A p : InPhase(p).phase = p /\ Stamped(InPhase(p)).phase = p
    BY DEF InPhase, Stamped, CampaignInv, SafeInv, TypeOK, Status
  <2>2. \A c : Restarted(c).phase = "Pending"
    BY DEF Restarted
  <2>3. status'.phase \in {"Pending", "Failed"}
    BY <1>4, <2>1, <2>2
  <2> QED
    BY <1>1, <2>3 DEF Quiet
<1> QED
  BY <1>2, <1>3, <1>4

LEMMA HooksQuiet ==
    ASSUME CampaignInv, Hooks
    PROVE  Quiet'
<1>1. draining = {} /\ draining' = {} /\ UNCHANGED job
  BY DEF Hooks, StartHook, HandleHook, LeavePreHooks, LeavePostHooks, InHookPhase, Settled,
         WriteStatus, objects, inPass
<1>2. status.phase \in {"PreHook", "PostHook"}
  BY DEF Hooks, StartHook, HandleHook, LeavePreHooks, LeavePostHooks, InHookPhase, HookPhase
<1>3. BusyNodes' = {}
  BY <1>1, <1>2, BusyKept DEF CampaignInv, Quiet
<1> QED
  BY <1>1, <1>3 DEF Quiet

LEMMA ParkQuiet ==
    ASSUME CampaignInv,
           Checks \/ ParkForClosedWindow \/ ParkInPending \/ AwaitHealth \/ EnterPreHook
    PROVE  Quiet'
<1>1. draining = {} /\ draining' = {} /\ UNCHANGED job
  BY DEF Checks, ParkOutsideWindow, WaitForOtherUpgrade, ParkForClosedWindow, ParkInPending,
         AwaitHealth, EnterPreHook, BatchReady, BatchChosen, Selecting, Admitted, Working,
         Settled, Idle, WriteStatus, objects
<1>2. CASE EnterPreHook
  <2>1. BusyNodes = {}
    BY <1>2, NothingBusy DEF EnterPreHook, BatchReady, BatchChosen, Selecting, CampaignInv
  <2>2. BusyNodes' = {}
    BY <1>1, <2>1, BusyKept
  <2> QED
    BY <1>1, <2>2 DEF Quiet
<1>3. CASE Checks \/ ParkForClosedWindow \/ ParkInPending \/ AwaitHealth
  <2>1. \E p \in {"Pending", "HealthChecking", "MaintenanceWindow"} : status' = InPhase(p)
    BY <1>3 DEF Checks, ParkOutsideWindow, WaitForOtherUpgrade, ParkForClosedWindow,
                ParkInPending, AwaitHealth, WriteStatus
  <2>2. status'.phase \in {"Pending", "HealthChecking", "MaintenanceWindow"}
    BY <2>1, PhaseFields DEF CampaignInv
  <2> QED
    BY <1>1, <2>2 DEF Quiet
<1> QED
  BY <1>2, <1>3

LEMMA BatchJobsQuiet ==
    ASSUME CampaignInv, BatchJobs
    PROVE  Quiet'
<1>1. draining = {} /\ draining' = {}
  BY DEF BatchJobs, WaitForJobs, JobsUnreadable, HandleFinishedBatch, InterruptFinishedBatch,
         BatchFinished, Admitted, Working, Settled, Landed, inPass
<1>2. CASE WaitForJobs \/ JobsUnreadable
  <2>1. \E p \in {"Pending", "Rebooting", "Upgrading"} : status' = InPhase(p)
    BY <1>2 DEF WaitForJobs, JobsUnreadable
  <2>2. status'.phase \in {"Pending", "Rebooting", "Upgrading"}
    BY <2>1, PhaseFields DEF CampaignInv
  <2> QED
    BY <1>1, <2>2 DEF Quiet
<1>3. CASE HandleFinishedBatch \/ InterruptFinishedBatch
  <2>1. BusyNodes = {}
    BY <1>3, FinishedBatch DEF HandleFinishedBatch, InterruptFinishedBatch
  <2>2. \E S : job' = Without(S)
    BY <1>3 DEF HandleFinishedBatch, InterruptFinishedBatch, Record, Landed
  <2> QED
    BY <1>1, <2>1, <2>2, BusyKept DEF Quiet
<1> QED
  BY <1>2, <1>3 DEF BatchJobs

LEMMA RebootsQuiet ==
    ASSUME CampaignInv, Reboots
    PROVE  Quiet'
<1>1. CASE EndPass
  BY <1>1, SameBusy, QuietStutter DEF EndPass, objects
<1>2. CASE ProcessReboots \/ InterruptReboots \/ \E n \in Node : OutcomeUnsaved(n)
  <2>1. AwaitingReboots /\ draining' = draining
    BY <1>2 DEF ProcessReboots, JudgeReboots, InterruptReboots, OutcomeUnsaved, Landed
  <2>2. \E S : job' = Without(S)
    BY <1>2 DEF ProcessReboots, JudgeReboots, InterruptReboots, OutcomeUnsaved, Record, Landed
  <2>3. BusyNodes' = {}
    BY <2>1, <2>2, JudgedReboots, BusyKept
  <2> QED
    BY <2>1, <2>3 DEF AwaitingReboots, Idle, Quiet
<1> QED
  BY <1>1, <1>2 DEF Reboots

LEMMA StartOfBatchQuiet ==
    ASSUME CampaignInv, StartOfBatch
    PROVE  Quiet'
<1>1. CASE AwaitHealth \/ EnterPreHook
  BY <1>1, ParkQuiet
<1>2. CASE BeginDrain
  <2>1. status.failed = {} /\ status' = InPhase("Draining")
    BY <1>2 DEF BeginDrain, BatchReady, BatchChosen, Selecting
  <2>2. status'.phase = "Draining" /\ status'.failed = {}
    BY <2>1, PhaseFields DEF CampaignInv
  <2> QED
    BY <2>2 DEF Quiet
<1>3. CASE DrainFails \/ CrashInDrain
  BY <1>3, SameBusy, QuietStutter DEF DrainFails, CrashInDrain
<1>4. CASE StartBatch \/ InterruptStartBatch
  <2>1. StartableBatch # {} /\ draining' = {}
    BY <1>4 DEF StartBatch, InterruptStartBatch, StartJobs
  <2>2. status.phase \notin {"PreHook", "PostHook"}
    BY <2>1 DEF StartableBatch, BatchReady, BatchChosen, Selecting, Admitted, Working,
                CampaignInv, Quiet
  <2>3. status' = status \/ \E p \in {"Pending", "Upgrading"} : status' = InPhase(p)
    BY <1>4 DEF StartBatch, InterruptStartBatch
  <2>4. status'.phase \notin {"PreHook", "PostHook"}
    BY <2>2, <2>3, PhaseFields DEF CampaignInv
  <2> QED
    BY <2>1, <2>4 DEF Quiet
<1> QED
  BY <1>1, <1>2, <1>3, <1>4 DEF StartOfBatch

LEMMA EndOfRunQuiet ==
    ASSUME CampaignInv, EndOfRun
    PROVE  Quiet'
<1>1. draining = {} /\ draining' = {} /\ UNCHANGED job /\ ActiveJobs = {}
  BY DEF EndOfRun, FinalizeFailed, FinishRun, FinishWaits, InterruptFinishRun, NothingPending,
         Selecting, Admitted, Working, Settled, RecordOutOfBand, WriteStatus, objects
<1>2. BusyNodes = {}
  BY <1>1, NothingBusy DEF CampaignInv
<1>3. BusyNodes' = {}
  BY <1>1, <1>2, BusyKept
<1> QED
  BY <1>1, <1>3 DEF Quiet

-------------------------------------------------------------------------------
(***************************************************************************)
(* The refinement.                                                         *)
(***************************************************************************)
LEMMA InitCampaign == Init => Quiet /\ Promise!Init
<1> SUFFICES ASSUME Init PROVE Quiet /\ Promise!Init
  OBVIOUS
<1>1. BusyNodes = {}
  BY DEF Init, BusyNodes, Unfinished, NoJob
<1>2. /\ status.completed = {} /\ status.failed = {} /\ status.cycles = 0
      /\ status.phase = NoPhase /\ draining = {}
  BY DEF Init
<1> QED
  BY <1>1, <1>2 DEF Quiet, Promise!Init, Verdict, IsTerminal, NoPhase

LEMMA NextCampaign ==
    ASSUME CampaignInv, [Next]_vars
    PROVE  Quiet' /\ [Promise!Next]_(Promise!vars)
<1>1. CASE UNCHANGED vars
  <2>1. UNCHANGED <<status, draining, job>>
    BY <1>1 DEF vars, inPass, objects
  <2> QED
    BY <2>1, SameBusy, StutterStep, QuietStutter
<1>2. CASE Cluster \/ Users
  BY <1>2, ElsewhereRests, RestStep, QuietStutter DEF CampaignInv
<1>3. CASE Pass
  <2>1. Promise!Next
    BY <1>3, AnnotationsStep, CampaignStep, HooksStep, ParkStep, BatchJobsStep, RebootsStep,
       StartOfBatchStep, EndOfRunStep DEF Pass
  <2>2. Quiet'
    BY <1>3, AnnotationsQuiet, HooksQuiet, ParkQuiet, BatchJobsQuiet, RebootsQuiet,
       StartOfBatchQuiet, EndOfRunQuiet DEF Pass
  <2> QED
    BY <2>1, <2>2
<1> QED
  BY <1>1, <1>2, <1>3 DEF Next

\* The reconciler of a TalosUpgrade keeps the promise of a rolling upgrade:
\* whatever users do and whatever fails, every step is one that UpgradeCampaign
\* allows.
THEOREM KeepsPromise == Spec => RollsOut
<1>1. Init => Quiet /\ Promise!Init
  BY InitCampaign
<1>2. SafeInv /\ Quiet /\ [Next]_vars => Quiet' /\ [Promise!Next]_(Promise!vars)
  BY NextCampaign DEF CampaignInv
<1> QED
  BY <1>1, <1>2, SafetyInvariant, PTL DEF Spec, RollsOut, Promise!Spec
===============================================================================
