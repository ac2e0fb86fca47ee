-------------------------- MODULE Coordination_proofs --------------------------
(***************************************************************************)
(* Theorems of Coordination for every set of plans and every cluster.      *)
(***************************************************************************)
EXTENDS Coordination, NextBatch_proofs

Run == [phase : Phase, completed : SUBSET Node, failed : SUBSET Node,
        rebooting : SUBSET Node]
Jobs == [Plan -> [Node -> JobState]]
KubeState == [phase : Phase, checking : BOOLEAN, job : JobState, upgraded : BOOLEAN]
Worker == [plan : Plan \cup {NoPlan}, batch : SUBSET Node]
Machine == [version : Version, boot : Version, state : NodeState, stray : BOOLEAN]

-------------------------------------------------------------------------------
(***************************************************************************)
(* Types.                                                                  *)
(***************************************************************************)
LEMMA PhaseNames ==
    /\ NoPhase \in Phase
    /\ {"Pending", "HealthChecking", "Draining", "Upgrading", "Rebooting",
        "Completed", "Failed", "MaintenanceWindow"} \subseteq Phase
BY DEF Phase

LEMMA FreeType == Free \in Worker
BY DEF Free, Worker

LEMMA InPhaseType ==
    ASSUME TypeOK, NEW p \in Plan, NEW phase \in Phase
    PROVE  InPhase(p, phase) \in [Plan -> Run]
<1>1. run \in [Plan -> Run]
  BY DEF TypeOK, Run
<1>2. [run[p] EXCEPT !.phase = phase] \in Run
  BY <1>1 DEF Run
<1> HIDE DEF Run
<1> QED
  BY <1>1, <1>2 DEF InPhase

LEMMA EndPassType ==
    ASSUME TypeOK, NEW p \in Plan, NEW phase \in Phase, EndPass(p, phase),
           faults' \in 0..MaxFaults
    PROVE  TypeOK'
BY InPhaseType, FreeType DEF EndPass, TypeOK, users, Run, Worker

LEMMA FaultType ==
    ASSUME TypeOK, Fault
    PROVE  faults' \in 0..MaxFaults
BY FaultsAssumption DEF TypeOK, Fault

LEMMA CleanedUpType ==
    ASSUME TypeOK, NEW S
    PROVE  CleanedUp(S) \in Jobs
BY DEF TypeOK, CleanedUp, Jobs, JobState

LEMMA RecordType ==
    ASSUME TypeOK, NEW p \in Plan, NEW good \in SUBSET Node, NEW bad \in SUBSET Node,
           NEW waiting \in SUBSET Node, NEW phase \in Phase,
           Record(p, good, bad, waiting, phase)
    PROVE  run' \in [Plan -> Run] /\ job' \in Jobs /\ label' \in SUBSET Node
<1> DEFINE r == [run[p] EXCEPT !.completed = @ \cup good, !.failed = @ \cup bad,
                    !.rebooting = (@ \cup waiting) \ (good \cup bad)]
<1>1. run \in [Plan -> Run] /\ run[p] \in Run
  BY DEF TypeOK, Run
<1>2. r \in Run /\ [r EXCEPT !.phase = phase] \in Run
  BY <1>1 DEF Run
<1>3. Outcome(p, good, bad, waiting) = [run EXCEPT ![p] = r]
  BY <1>1 DEF Outcome
<1> HIDE DEF r, Run
<1>4. run' = [[run EXCEPT ![p] = r] EXCEPT ![p] = [r EXCEPT !.phase = phase]]
  BY <1>1, <1>2, <1>3 DEF Record
<1>5. run' \in [Plan -> Run]
  BY <1>1, <1>2, <1>4
<1> QED
  BY <1>5, CleanedUpType DEF Record, TypeOK

LEMMA StartJobsType ==
    ASSUME TypeOK, NEW p \in Plan, NEW created \in SUBSET Node,
           NEW labelled \in SUBSET Node, NEW phase \in Phase,
           StartJobs(p, created, labelled, phase), faults' \in 0..MaxFaults
    PROVE  TypeOK'
<1>1. job' \in Jobs
  BY DEF StartJobs, TypeOK, Jobs, JobState
<1>2. run' \in [Plan -> Run]
  BY InPhaseType DEF StartJobs
<1> QED
  BY <1>1, <1>2, FreeType DEF StartJobs, TypeOK, users, Run, Jobs, Worker

LEMMA PendingType ==
    ASSUME NEW p \in Plan
    PROVE  /\ Selected[p] \in SUBSET Node
           /\ PendingNodes(p) \in SUBSET Node
           /\ OutOfBand(p) \in SUBSET Node
           /\ NextBatchOf(PendingNodes(p)) \in SUBSET Node
BY SelectedAssumption DEF PendingNodes, OutOfBand, NextBatchOf

-------------------------------------------------------------------------------
LEMMA InitType == Init => TypeOK
<1> SUFFICES ASSUME Init PROVE TypeOK
  OBVIOUS
<1>1. run \in [Plan -> Run] /\ worker \in Worker
  BY PhaseNames, FreeType DEF Init, Run
<1>2. job \in Jobs /\ label \in SUBSET Node
  BY DEF Init, Jobs, JobState
<1>3. node \in [Node -> Machine]
  BY DEF Init, NodeState, Version, Machine
<1>4. kube \in KubeState
  BY PhaseNames DEF Init, KubeState, JobState
<1>5. suspended = {} /\ faults \in 0..MaxFaults
  BY FaultsAssumption DEF Init
<1>6. windowOpen \in BOOLEAN
  <2>1. windowOpen \in IF Windowed = {} THEN {TRUE} ELSE BOOLEAN
    BY DEF Init
  <2> QED
    BY <2>1
<1> QED
  BY <1>6, <1>1, <1>2, <1>3, <1>4, <1>5 DEF TypeOK, Run, Jobs, Worker, KubeState, Machine

LEMMA ChecksType ==
    ASSUME TypeOK, NEW p \in Plan, Checks(p)
    PROVE  TypeOK'
<1>1. faults' \in 0..MaxFaults
  BY DEF Checks, PassSuspended, ParkOutsideWindow, WaitForOtherUpgrade, PassChecks, TypeOK
<1>2. CASE PassChecks(p)
  BY <1>2 DEF PassChecks, TypeOK, users
<1> QED
  BY <1>1, <1>2, PhaseNames, EndPassType
     DEF Checks, PassSuspended, ParkOutsideWindow, WaitForOtherUpgrade

LEMMA FinishedBatchType ==
    ASSUME TypeOK, NEW p \in Plan, HandleFinishedBatch(p)
    PROVE  TypeOK'
<1> DEFINE batch == ActiveJobs(p)
           good == {n \in batch : Verified(p, n)}
           mayHaveFailed == {n \in batch : job[p][n] = "failed" /\ Mismatched(p, n)}
<1>1. batch \in SUBSET Node /\ good \in SUBSET Node /\ mayHaveFailed \in SUBSET Node
  BY DEF ActiveJobs
<1>2. PICK offTarget \in SUBSET mayHaveFailed :
        LET waiting == batch \ (good \cup offTarget) IN
        \E late \in SUBSET waiting :
          Record(p, good, IF waiting = {} THEN offTarget ELSE late, waiting,
                 CASE waiting \ late # {} -> "Rebooting"
                   [] waiting # {} /\ waiting = late -> run[p].phase
                   [] waiting = {} /\ offTarget # {} -> "Failed"
                   [] OTHER -> "Pending")
  BY DEF HandleFinishedBatch
<1> DEFINE waiting == batch \ (good \cup offTarget)
<1>9. PICK late \in SUBSET waiting :
        Record(p, good, IF waiting = {} THEN offTarget ELSE late, waiting,
               CASE waiting \ late # {} -> "Rebooting"
                 [] waiting # {} /\ waiting = late -> run[p].phase
                 [] waiting = {} /\ offTarget # {} -> "Failed"
                 [] OTHER -> "Pending")
  BY <1>2
<1> DEFINE bad == IF waiting = {} THEN offTarget ELSE late
           phase == CASE waiting \ late # {} -> "Rebooting"
                      [] waiting # {} /\ waiting = late -> run[p].phase
                      [] waiting = {} /\ offTarget # {} -> "Failed"
                      [] OTHER -> "Pending"
<1>3. waiting \in SUBSET Node /\ bad \in SUBSET Node
  BY <1>1
<1>4. run[p].phase \in Phase
  BY DEF TypeOK
<1>5. phase \in Phase
  BY <1>4, PhaseNames
<1>6. Record(p, good, bad, waiting, phase)
  BY <1>9
<1> HIDE DEF batch, good, mayHaveFailed, waiting, bad, phase
<1>7. run' \in [Plan -> Run] /\ job' \in Jobs /\ label' \in SUBSET Node
  BY <1>1, <1>3, <1>5, <1>6, RecordType
<1>8. worker' = Free /\ UNCHANGED <<node, kube, users, faults>>
  BY DEF HandleFinishedBatch
<1> QED
  BY <1>7, <1>8, FreeType DEF TypeOK, users, Run, Jobs, Worker

LEMMA RebootsType ==
    ASSUME TypeOK, NEW p \in Plan, ProcessReboots(p)
    PROVE  TypeOK'
<1> DEFINE tracked == run[p].rebooting
           good == {n \in tracked : Verified(p, n)}
           down == {n \in tracked : node[n].state = "down"}
<1>1. tracked \in SUBSET Node /\ run[p].phase \in Phase
  BY DEF TypeOK
<1>2. good \in SUBSET Node /\ down \in SUBSET Node
  BY <1>1
<1>3. PICK late \in SUBSET down :
        /\ Record(p, good, tracked \ (good \cup (down \ late)), {},
                  IF down \ late # {} THEN "Rebooting" ELSE run[p].phase)
        /\ worker' = IF down \ late # {} THEN Free ELSE [plan |-> p, batch |-> {}]
  BY DEF ProcessReboots
<1> DEFINE phase == IF down \ late # {} THEN "Rebooting" ELSE run[p].phase
           bad == tracked \ (good \cup (down \ late))
<1>4. phase \in Phase /\ bad \in SUBSET Node
  BY <1>1, PhaseNames
<1>5. Record(p, good, bad, {}, phase)
  BY <1>3
<1>6. worker' \in Worker
  BY <1>3, FreeType DEF Worker
<1> HIDE DEF good, bad, phase, tracked, down
<1>7. run' \in [Plan -> Run] /\ job' \in Jobs /\ label' \in SUBSET Node
  BY <1>2, <1>4, <1>5, RecordType
<1>8. UNCHANGED <<node, kube, users, faults>>
  BY DEF ProcessReboots
<1> QED
  BY <1>6, <1>7, <1>8 DEF TypeOK, users, Run, Jobs, Worker

LEMMA BatchType ==
    ASSUME TypeOK, NEW p \in Plan, Batch(p)
    PROVE  TypeOK'
<1>1. CASE WaitForJobs(p)
  <2>1. faults' \in 0..MaxFaults
    BY <1>1 DEF WaitForJobs, TypeOK
  <2> QED
    BY <1>1, <2>1, PhaseNames, EndPassType DEF WaitForJobs
<1>2. CASE ReadFails(p)
  BY <1>2, FaultType, PhaseNames, EndPassType DEF ReadFails
<1>3. CASE FinalizeFailed(p)
  <2>1. faults' \in 0..MaxFaults
    BY <1>3 DEF FinalizeFailed, TypeOK
  <2> QED
    BY <1>3, <2>1, PhaseNames, EndPassType DEF FinalizeFailed
<1> QED
  BY <1>1, <1>2, <1>3, FinishedBatchType, RebootsType DEF Batch

LEMMA NextOrEndType ==
    ASSUME TypeOK, NEW p \in Plan, NextOrEnd(p)
    PROVE  TypeOK'
<1>1. CASE ParkForClosedWindow(p) \/ ParkInPending(p) \/ AwaitHealth(p)
  <2>1. faults' \in 0..MaxFaults
    BY <1>1 DEF ParkForClosedWindow, ParkInPending, AwaitHealth, TypeOK
  <2> QED
    BY <1>1, <2>1, PhaseNames, EndPassType
       DEF ParkForClosedWindow, ParkInPending, AwaitHealth
<1>2. CASE BeginDrain(p)
  <2>1. run' \in [Plan -> Run]
    BY <1>2, InPhaseType, PhaseNames DEF BeginDrain
  <2>2. worker' \in Worker
    BY <1>2, PendingType DEF BeginDrain, Worker
  <2> QED
    BY <1>2, <2>1, <2>2 DEF BeginDrain, TypeOK, users, Run, Worker
<1>3. CASE StartBatch(p)
  <2>1. worker.batch \in SUBSET Node /\ faults' \in 0..MaxFaults
    BY <1>3 DEF StartBatch, TypeOK
  <2> QED
    BY <1>3, <2>1, PhaseNames, StartJobsType DEF StartBatch
<1>4. CASE InterruptStart(p)
  <2>1. worker.batch \in SUBSET Node /\ run[p].phase \in Phase
    BY DEF TypeOK
  <2>2. PICK created \in SUBSET worker.batch, labelled \in SUBSET worker.batch,
             phase \in {"Pending", "Upgrading", run[p].phase} :
          StartJobs(p, created, labelled, phase)
    BY <1>4 DEF InterruptStart
  <2>3. phase \in Phase /\ created \in SUBSET Node /\ labelled \in SUBSET Node
    BY <2>1, PhaseNames
  <2>4. faults' \in 0..MaxFaults
    BY <1>4, FaultType DEF InterruptStart
  <2> QED
    BY <2>2, <2>3, <2>4, StartJobsType
<1>5. CASE FinishRun(p)
  <2>1. \E phase \in {"Completed", "HealthChecking"} :
          Record(p, OutOfBand(p), {}, {}, phase)
    BY <1>5 DEF FinishRun
  <2>2. run' \in [Plan -> Run] /\ job' \in Jobs /\ label' \in SUBSET Node
    BY <2>1, PendingType, PhaseNames, RecordType
  <2> QED
    BY <1>5, <2>2, FreeType DEF FinishRun, TypeOK, users, Run, Jobs, Worker
<1> QED
  BY <1>1, <1>2, <1>3, <1>4, <1>5 DEF NextOrEnd

LEMMA KubeIsType ==
    ASSUME TypeOK, NEW k \in KubeState, KubeIs(k), faults' \in 0..MaxFaults
    PROVE  TypeOK'
BY DEF KubeIs, TypeOK, KubeState, talos, users

LEMMA KubePassType ==
    ASSUME TypeOK, KubePass
    PROVE  TypeOK'
<1>1. kube \in KubeState /\ faults \in 0..MaxFaults
  BY DEF TypeOK, KubeState
<1>2. faults' \in 0..MaxFaults
  BY FaultType, <1>1
     DEF KubePass, KubeSuspended, KubeWaits, KubeFollowsJob, KubeCompletes, KubeFails,
         KubeChecks, KubeChecksFail, KubeStarts, KubeInterrupted
<1>3. \E k \in KubeState : KubeIs(k)
  <2>1. \A phase \in Phase : KubePhase(phase) \in KubeState
    BY <1>1 DEF KubePhase, KubeState
  <2>2. /\ [kube EXCEPT !.phase = "Failed", !.job = "none"] \in KubeState
        /\ [kube EXCEPT !.checking = TRUE] \in KubeState
        /\ [kube EXCEPT !.checking = FALSE, !.phase = "HealthChecking"] \in KubeState
        /\ [kube EXCEPT !.checking = FALSE, !.phase = "Upgrading", !.job = "running"]
             \in KubeState
    BY <1>1, PhaseNames DEF KubeState, JobState
  <2>3. \A phase \in {kube.phase, "HealthChecking", "Failed"}, j \in {"none", "running"} :
          [kube EXCEPT !.checking = FALSE, !.phase = phase, !.job = j] \in KubeState
    BY <1>1, PhaseNames DEF KubeState, JobState
  <2> QED
    BY <2>1, <2>2, <2>3, PhaseNames
       DEF KubePass, KubeSuspended, KubeWaits, KubeFollowsJob, KubeCompletes, KubeFails,
           KubeChecks, KubeChecksFail, KubeStarts, KubeInterrupted
<1> QED
  BY <1>2, <1>3, KubeIsType

LEMMA NodeIsType ==
    ASSUME TypeOK, NEW n \in Node, NEW s \in NodeState, NodeIs(n, s)
    PROVE  node' \in [Node -> Machine]
<1>1. node \in [Node -> Machine] /\ node[n] \in Machine
  BY DEF TypeOK, Machine
<1>2. [node[n] EXCEPT !.state = s, !.stray = @ /\ s # "up"] \in Machine
  BY <1>1 DEF Machine
<1>3. node' = [node EXCEPT ![n] = [node[n] EXCEPT !.state = s, !.stray = @ /\ s # "up"]]
  BY <1>1 DEF NodeIs
<1> HIDE DEF Machine
<1> QED
  BY <1>1, <1>2, <1>3

LEMMA BootsType ==
    ASSUME TypeOK, NEW n \in Node, Reboot(n)
    PROVE  node' \in [Node -> Machine]
<1>1. node \in [Node -> Machine] /\ node[n] \in Machine
  BY DEF TypeOK, Machine
<1>2. PICK v \in {node[n].boot, node[n].version} :
        node' = [node EXCEPT ![n] = [version |-> v, boot |-> 0, state |-> "down",
                                     stray |-> Unused(n)]]
  BY DEF Reboot
<1>3. v \in Version /\ 0 \in Version /\ Unused(n) \in BOOLEAN
  BY <1>1 DEF Machine, Version, Unused
<1>4. [version |-> v, boot |-> 0, state |-> "down", stray |-> Unused(n)] \in Machine
  BY <1>3 DEF Machine, NodeState
<1> HIDE DEF Machine
<1> QED
  BY <1>1, <1>2, <1>4

LEMMA JobIsType ==
    ASSUME TypeOK, NEW p \in Plan, NEW n \in Node, NEW s \in JobState
    PROVE  [job EXCEPT ![p][n] = s] \in Jobs
<1>1. [job[p] EXCEPT ![n] = s] \in [Node -> JobState]
  BY DEF TypeOK
<1> QED
  BY <1>1 DEF TypeOK, Jobs

LEMMA MachineType ==
    ASSUME TypeOK, NEW n \in Node, Reboot(n) \/ InstallFails(n) \/ Return(n) \/ Rejoin(n)
    PROVE  TypeOK'
<1>1. node' \in [Node -> Machine]
  <2>1. CASE InstallFails(n)
    <3>1. node \in [Node -> Machine] /\ node[n] \in Machine
      BY DEF TypeOK, Machine
    <3>2. [node[n] EXCEPT !.state = "up", !.boot = 0] \in Machine
      BY <3>1 DEF Machine, NodeState, Version
    <3>3. node' = [node EXCEPT ![n] = [node[n] EXCEPT !.state = "up", !.boot = 0]]
      BY <2>1, <3>1 DEF InstallFails
    <3> HIDE DEF Machine
    <3> QED
      BY <3>1, <3>2, <3>3
  <2> QED
    BY <2>1, NodeIsType, BootsType DEF Return, Rejoin, NodeState
<1>2. UNCHANGED <<talos, kube, users, faults>>
  BY DEF Reboot, InstallFails, Return, Rejoin, OnlyNode
<1> QED
  BY <1>1, <1>2 DEF talos, users, TypeOK, Machine

LEMMA UpgradeType ==
    ASSUME TypeOK, NEW p \in Plan, NEW n \in Node,
           JobAccepted(p, n) \/ JobSucceeds(p, n) \/ JobFails(p, n) \/ JobExpires(p, n)
    PROVE  TypeOK'
<1>1. job' \in Jobs
  BY JobIsType DEF JobAccepted, JobSucceeds, JobFails, JobExpires, JobState
<1>2. CASE JobAccepted(p, n)
  <2>1. node \in [Node -> Machine] /\ node[n] \in Machine /\ Target[p] \in Version
    BY DEF TypeOK, Machine, Version
  <2>2. [node[n] EXCEPT !.state = "staged", !.boot = Target[p]] \in Machine
    BY <2>1 DEF Machine, NodeState
  <2>3. node' = [node EXCEPT ![n] = [node[n] EXCEPT !.state = "staged", !.boot = Target[p]]]
    BY <1>2, <2>1 DEF JobAccepted
  <2> HIDE DEF Machine
  <2>4. node' \in [Node -> Machine]
    BY <2>1, <2>2, <2>3
  <2> QED
    BY <1>1, <1>2, <2>4 DEF JobAccepted, users, TypeOK, Jobs, Machine
<1>3. CASE JobSucceeds(p, n) \/ JobFails(p, n) \/ JobExpires(p, n)
  BY <1>1, <1>3 DEF JobSucceeds, JobFails, JobExpires, OnlyJob, users, TypeOK, Jobs
<1> QED
  BY <1>2, <1>3

LEMMA KubeJobType ==
    ASSUME TypeOK, KubeJobEnds \/ KubeJobExpires
    PROVE  TypeOK'
<1>1. kube \in KubeState /\ faults \in 0..MaxFaults
  BY DEF TypeOK, KubeState
<1>2. /\ [kube EXCEPT !.job = "succeeded", !.upgraded = TRUE] \in KubeState
      /\ [kube EXCEPT !.job = "failed"] \in KubeState
      /\ [kube EXCEPT !.job = "none"] \in KubeState
  BY <1>1 DEF KubeState, JobState
<1> QED
  BY <1>1, <1>2, KubeIsType DEF KubeJobEnds, KubeJobExpires

LEMMA UsersType ==
    ASSUME TypeOK, WindowMoves \/ ToggleSuspend
    PROVE  TypeOK'
BY UpgradesAssumption DEF WindowMoves, ToggleSuspend, talos, TypeOK

\* Plans, Jobs, labels and machines keep their types.
THEOREM TypeCorrect == Spec => []TypeOK
<1>1. TypeOK /\ Next => TypeOK'
  <2> SUFFICES ASSUME TypeOK, Next PROVE TypeOK'
    OBVIOUS
  <2>1. CASE \E p \in Plan : Checks(p) \/ Batch(p) \/ NextOrEnd(p)
    BY <2>1, ChecksType, BatchType, NextOrEndType
  <2>2. CASE DrainFails
    BY <2>2, FreeType DEF DrainFails, TypeOK, users, Worker
  <2>3. CASE KubePass
    BY <2>3, KubePassType
  <2>4. CASE Cluster
    BY <2>4, MachineType, UpgradeType, KubeJobType, UsersType DEF Cluster
  <2>5. CASE ToggleSuspend
    BY <2>5, UsersType
  <2> QED
    BY <2>1, <2>2, <2>3, <2>4, <2>5 DEF Next
<1>2. TypeOK /\ UNCHANGED vars => TypeOK'
  BY DEF vars, talos, users, TypeOK
<1> QED
  BY InitType, <1>1, <1>2, PTL DEF Spec
-------------------------------------------------------------------------------
(***************************************************************************)
(* One control-plane node at a time. Once drained, a batch keeps the slot  *)
(* it was given: no step but the creation of its own Jobs takes a node     *)
(* away. Together the two invariants are inductive with the types.         *)
(***************************************************************************)
Slot == OneControlPlaneAway /\ DrainedSlotStaysFree

\* A step that takes no node away and drains nothing new.
Quiet ==
    /\ \A n \in Node : Away(n)' => Away(n)
    /\ worker'.batch \in {{}, worker.batch}

LEMMA QuietKeepsSlot ==
    ASSUME TypeOK, Slot, Quiet
    PROVE  Slot'
<1>1. OneControlPlaneAway'
  BY ControlPlaneAssumption DEF Slot, OneControlPlaneAway, Quiet, Node
<1>2. IsBatch(worker'.batch)
  BY EmptyBatch DEF Slot, DrainedSlotStaysFree, Quiet
<1>3. \A c \in worker'.batch \cap ControlPlane, d \in ControlPlane : Away(d)' => d = c
  BY ControlPlaneAssumption DEF Slot, DrainedSlotStaysFree, Quiet, Node
<1> QED
  BY <1>1, <1>2, <1>3 DEF Slot, DrainedSlotStaysFree

\* No machine goes down and no Job is created: nothing is taken away.
LEMMA NoneTakenAway ==
    ASSUME UNCHANGED node, \A q \in Plan : Running(q)' \subseteq Running(q)
    PROVE  \A n \in Node : Away(n)' => Away(n)
BY DEF Away, Rebooting, Unused

LEMMA SameJobs ==
    ASSUME UNCHANGED job
    PROVE  \A q \in Plan : Running(q)' = Running(q)
BY DEF Running

LEMMA FreeBatch == Free.batch = {} /\ (\A p \in Plan : [plan |-> p, batch |-> {}].batch = {})
BY DEF Free

LEMMA CleanedUpKeepsNoneRunning ==
    ASSUME TypeOK, NEW S, job' = CleanedUp(S)
    PROVE  \A q \in Plan : Running(q)' \subseteq Running(q)
BY DEF CleanedUp, Running

LEMMA EndPassIsQuiet ==
    ASSUME TypeOK, NEW p \in Plan, NEW phase, EndPass(p, phase)
    PROVE  Quiet
BY NoneTakenAway, SameJobs, FreeBatch DEF EndPass, Quiet

LEMMA ChecksAreQuiet ==
    ASSUME TypeOK, NEW p \in Plan, Checks(p)
    PROVE  Quiet
<1>1. CASE PassChecks(p)
  BY <1>1, NoneTakenAway, SameJobs, FreeBatch DEF PassChecks, Quiet
<1> QED
  BY <1>1, EndPassIsQuiet DEF Checks, PassSuspended, ParkOutsideWindow, WaitForOtherUpgrade

LEMMA BatchIsQuiet ==
    ASSUME TypeOK, NEW p \in Plan, Batch(p)
    PROVE  Quiet
<1>1. CASE WaitForJobs(p) \/ ReadFails(p) \/ FinalizeFailed(p)
  BY <1>1, EndPassIsQuiet DEF WaitForJobs, ReadFails, FinalizeFailed
<1>2. CASE HandleFinishedBatch(p) \/ ProcessReboots(p)
  <2>1. \E S : job' = CleanedUp(S)
    BY <1>2 DEF HandleFinishedBatch, ProcessReboots, Record
  <2>2. worker'.batch = {}
    BY <1>2, FreeBatch DEF HandleFinishedBatch, ProcessReboots
  <2>3. UNCHANGED node
    BY <1>2 DEF HandleFinishedBatch, ProcessReboots
  <2> QED
    BY <2>1, <2>2, <2>3, CleanedUpKeepsNoneRunning, NoneTakenAway DEF Quiet
<1> QED
  BY <1>1, <1>2 DEF Batch

LEMMA ParkingIsQuiet ==
    ASSUME TypeOK, NEW p \in Plan,
           ParkForClosedWindow(p) \/ ParkInPending(p) \/ AwaitHealth(p)
    PROVE  Quiet
BY EndPassIsQuiet DEF ParkForClosedWindow, ParkInPending, AwaitHealth

LEMMA FinishIsQuiet ==
    ASSUME TypeOK, NEW p \in Plan, FinishRun(p)
    PROVE  Quiet
<1>1. \E S : job' = CleanedUp(S)
  BY DEF FinishRun, Record
<1>2. worker'.batch = {} /\ UNCHANGED node
  BY FreeBatch DEF FinishRun
<1> QED
  BY <1>1, <1>2, CleanedUpKeepsNoneRunning, NoneTakenAway DEF Quiet

LEMMA ElsewhereIsQuiet ==
    ASSUME TypeOK, DrainFails \/ KubePass \/ ToggleSuspend
    PROVE  Quiet
<1>1. UNCHANGED <<node, job>>
  BY DEF DrainFails, KubePass, KubeSuspended, KubeWaits, KubeFollowsJob, KubeCompletes,
         KubeFails, KubeChecks, KubeChecksFail, KubeStarts, KubeInterrupted, KubeIs,
         ToggleSuspend, talos
<1>2. worker' \in {Free, worker}
  BY DEF DrainFails, KubePass, KubeSuspended, KubeWaits, KubeFollowsJob, KubeCompletes,
         KubeFails, KubeChecks, KubeChecksFail, KubeStarts, KubeInterrupted, KubeIs,
         ToggleSuspend, talos
<1> QED
  BY <1>1, <1>2, FreeBatch, NoneTakenAway, SameJobs DEF Quiet

\* What a Job does once it runs: it accepts, and it ends.
LEMMA JobsEnd ==
    ASSUME TypeOK, NEW p \in Plan, NEW n \in Node,
           JobAccepted(p, n) \/ JobSucceeds(p, n) \/ JobFails(p, n) \/ JobExpires(p, n)
    PROVE  /\ \A r \in Plan : Running(r)' \subseteq Running(r)
           /\ \A r \in Plan, m \in Node : job'[r][m] # "none" => job[r][m] # "none"
<1>1. \E s \in {"none", "accepted", "succeeded", "failed"} :
        /\ job' = [job EXCEPT ![p][n] = s]
        /\ s = "accepted" => job[p][n] = "running"
  BY DEF JobAccepted, JobSucceeds, JobFails, JobExpires
<1>2. job[p][n] # "none"
  BY DEF JobAccepted, JobSucceeds, JobFails, JobExpires, Running, Finished
<1> QED
  BY <1>1, <1>2 DEF TypeOK, Running

\* A machine that accepts an upgrade is no less up, and one that leaves without
\* a Job is stray: only under a Job, when it was away already, does it go.
LEMMA MachinesLeaveUnderJobs ==
    ASSUME TypeOK, NEW m \in Node,
           \/ \E n \in Node : Reboot(n) \/ InstallFails(n) \/ Return(n) \/ Rejoin(n)
           \/ \E p \in Plan, n \in Node : JobAccepted(p, n),
           Rebooting(m)'
    PROVE  Rebooting(m) \/ (Reboot(m) /\ ~Unused(m))
<1>1. node[m] \in Machine /\ node \in [Node -> Machine]
  BY DEF TypeOK, Machine
<1>2. ASSUME NEW n \in Node, Reboot(n)
      PROVE  Rebooting(m) \/ (Reboot(m) /\ ~Unused(m))
  <2>1. PICK v : node' = [node EXCEPT ![n] = [version |-> v, boot |-> 0, state |-> "down",
                                              stray |-> Unused(n)]]
    BY <1>2 DEF Reboot
  <2> QED
    BY <1>1, <1>2, <2>1 DEF Rebooting
<1>3. ASSUME NEW n \in Node, InstallFails(n)
      PROVE  Rebooting(m)
  BY <1>1, <1>3 DEF InstallFails, Rebooting, Machine
<1>4. ASSUME NEW n \in Node, Return(n) \/ Rejoin(n)
      PROVE  Rebooting(m)
  BY <1>1, <1>4 DEF Return, Rejoin, NodeIs, Rebooting, Machine
<1>5. ASSUME NEW p \in Plan, NEW n \in Node, JobAccepted(p, n)
      PROVE  Rebooting(m)
  BY <1>1, <1>5 DEF JobAccepted, Rebooting, Machine
<1> QED
  BY <1>2, <1>3, <1>4, <1>5

LEMMA ClusterIsQuiet ==
    ASSUME TypeOK, Cluster
    PROVE  Quiet
<1>1. UNCHANGED worker
  BY DEF Cluster, Reboot, InstallFails, Return, Rejoin, OnlyNode, JobAccepted, JobSucceeds,
         JobFails, JobExpires, OnlyJob, KubeJobEnds, KubeJobExpires, KubeIs, WindowMoves, talos
<1>2. \A m \in Node : Away(m)' => Away(m)
  <2>1. CASE \E n \in Node : Reboot(n) \/ InstallFails(n) \/ Return(n) \/ Rejoin(n)
    <3>1. \A q \in Plan : Running(q)' = Running(q)
      BY <2>1, SameJobs DEF Reboot, InstallFails, Return, Rejoin, OnlyNode, talos
    <3>2. \A m \in Node : Unused(m)' <=> Unused(m)
      BY <3>1 DEF Unused
    <3> QED
      BY <2>1, <3>2, MachinesLeaveUnderJobs DEF Away
  <2>2. CASE \E p \in Plan, n \in Node : JobAccepted(p, n)
    <3>1. \A q \in Plan : Running(q)' \subseteq Running(q)
      BY <2>2, JobsEnd
    <3>2. \A m \in Node : Unused(m) => Unused(m)'
      BY <3>1 DEF Unused
    <3> QED
      BY <2>2, <3>2, MachinesLeaveUnderJobs DEF Away
  <2>3. CASE \E p \in Plan, n \in Node :
               JobSucceeds(p, n) \/ JobFails(p, n) \/ JobExpires(p, n)
    <3>1. UNCHANGED node
      BY <2>3 DEF JobSucceeds, JobFails, JobExpires, OnlyJob
    <3> QED
      BY <2>3, <3>1, JobsEnd, NoneTakenAway
  <2>4. CASE KubeJobEnds \/ KubeJobExpires \/ WindowMoves
    BY <2>4, NoneTakenAway, SameJobs DEF KubeJobEnds, KubeJobExpires, KubeIs, WindowMoves, talos
  <2> QED
    BY <2>1, <2>2, <2>3, <2>4 DEF Cluster
<1> QED
  BY <1>1, <1>2 DEF Quiet

\* The slot is given to a batch: the gate found every control-plane machine up,
\* and controlPlaneUpgradeInFlight no Job on another one.
LEMMA DrainTakesSlot ==
    ASSUME TypeOK, Slot, NEW p \in Plan, BeginDrain(p)
    PROVE  Slot'
<1> DEFINE batch == NextBatchOf(PendingNodes(p))
<1>1. batch \in SUBSET Node /\ IsBatch(batch)
  BY PendingType, NextBatchIsBatch
<1> HIDE DEF batch
<1>2. worker'.batch = batch /\ UNCHANGED <<node, job>>
  BY DEF BeginDrain, batch
<1>3. \A n \in Node : Away(n)' <=> Away(n)
  BY <1>2 DEF Away, Rebooting, Unused, Running
<1>4. OneControlPlaneAway'
  BY <1>3, ControlPlaneAssumption DEF Slot, OneControlPlaneAway, Node
<1>5. \A d \in ControlPlane : node[d].state \in {"up", "staged"}
  BY DEF BeginDrain, Healthy, Up
<1>6. ASSUME NEW c \in batch \cap ControlPlane, NEW d \in ControlPlane, Away(d), d # c
      PROVE  FALSE
  <2>1. d \notin batch
    BY <1>1, <1>6 DEF IsBatch
  <2>2. PICK q \in Plan : d \in Running(q)
    BY <1>5, <1>6 DEF Away, Rebooting, Unused
  <2>3. BusyControlPlane(p, batch) = {}
    BY <1>6 DEF BeginDrain, BatchChosen, SlotFree, batch
  <2> QED
    BY <2>1, <2>2, <2>3 DEF BusyControlPlane
<1>7. \A c \in batch \cap ControlPlane, d \in ControlPlane : Away(d)' => d = c
  BY <1>3, <1>6, ControlPlaneAssumption DEF Node
<1> QED
  BY <1>1, <1>2, <1>4, <1>7 DEF Slot, DrainedSlotStaysFree

\* The slot is used: a batch with a control-plane node is that node alone.
LEMMA StartUsesSlot ==
    ASSUME TypeOK, Slot, NEW p \in Plan, NEW created \in SUBSET worker.batch,
           NEW labelled, NEW phase, StartJobs(p, created, labelled, phase)
    PROVE  Slot'
<1>1. worker'.batch = {} /\ UNCHANGED node
  BY FreeBatch DEF StartJobs
<1>2. \A n \in Node : Away(n)' => Away(n) \/ n \in created
  BY <1>1 DEF StartJobs, Away, Rebooting, Unused, Running, TypeOK
<1>3. ASSUME NEW c \in ControlPlane, NEW d \in ControlPlane, Away(c)', Away(d)'
      PROVE  c = d
  <2>1. (Away(c) \/ c \in created) /\ (Away(d) \/ d \in created)
    BY <1>2, <1>3, ControlPlaneAssumption DEF Node
  <2>2. c \in worker.batch /\ d \in worker.batch => c = d
    BY DEF Slot, DrainedSlotStaysFree, IsBatch
  <2> QED
    BY <2>1, <2>2 DEF Slot, OneControlPlaneAway, DrainedSlotStaysFree
<1> QED
  BY <1>1, <1>3, EmptyBatch DEF Slot, OneControlPlaneAway, DrainedSlotStaysFree

LEMMA SlotHoldsAtFirst == Init => Slot
<1> SUFFICES ASSUME Init PROVE Slot
  OBVIOUS
<1>1. \A n \in Node : ~Away(n)
  BY DEF Init, Away, Rebooting, Unused, Running
<1>2. worker.batch = {}
  BY FreeBatch DEF Init
<1> QED
  BY <1>1, <1>2, EmptyBatch, ControlPlaneAssumption
     DEF Slot, OneControlPlaneAway, DrainedSlotStaysFree, Node

LEMMA StepKeepsSlot ==
    ASSUME TypeOK, Slot, [Next]_vars
    PROVE  Slot'
<1>1. CASE \E p \in Plan : Checks(p) \/ Batch(p)
  BY <1>1, ChecksAreQuiet, BatchIsQuiet, QuietKeepsSlot
<1>2. ASSUME NEW p \in Plan, NextOrEnd(p)
      PROVE  Slot'
  <2>1. CASE ParkForClosedWindow(p) \/ ParkInPending(p) \/ AwaitHealth(p)
    BY <2>1, ParkingIsQuiet, QuietKeepsSlot
  <2>2. CASE BeginDrain(p)
    BY <2>2, DrainTakesSlot
  <2>3. CASE StartBatch(p)
    <3>1. \E created \in SUBSET worker.batch : \E labelled, phase :
             StartJobs(p, created, labelled, phase)
      BY <2>3 DEF StartBatch
    <3> QED
      BY <3>1, StartUsesSlot
  <2>4. CASE InterruptStart(p)
    <3>1. \E created \in SUBSET worker.batch : \E labelled, phase :
             StartJobs(p, created, labelled, phase)
      BY <2>4 DEF InterruptStart
    <3> QED
      BY <3>1, StartUsesSlot
  <2>5. CASE FinishRun(p)
    BY <2>5, FinishIsQuiet, QuietKeepsSlot
  <2> QED
    BY <1>2, <2>1, <2>2, <2>3, <2>4, <2>5 DEF NextOrEnd
<1>3. CASE DrainFails \/ KubePass \/ Cluster \/ ToggleSuspend
  BY <1>3, ElsewhereIsQuiet, ClusterIsQuiet, QuietKeepsSlot
<1>4. CASE UNCHANGED vars
  <2>1. Quiet
    BY <1>4, NoneTakenAway, SameJobs DEF vars, talos, Quiet
  <2> QED
    BY <2>1, QuietKeepsSlot
<1> QED
  BY <1>1, <1>2, <1>3, <1>4 DEF Next

\* The slot is kept from the check before a drain to the creation of the Jobs.
THEOREM SlotIsKept == Spec => []DrainedSlotStaysFree
<1>1. TypeOK /\ TypeOK' /\ Slot /\ [Next]_vars => Slot'
  BY StepKeepsSlot
<1>2. Slot => DrainedSlotStaysFree
  BY DEF Slot
<1> QED
  BY SlotHoldsAtFirst, TypeCorrect, <1>1, <1>2, PTL DEF Spec

\* At most one control-plane node of the cluster is away, whatever the plans.
THEOREM OneControlPlaneAtATime == Spec => []OneControlPlaneAway
<1>1. TypeOK /\ TypeOK' /\ Slot /\ [Next]_vars => Slot'
  BY StepKeepsSlot
<1>2. Slot => OneControlPlaneAway
  BY DEF Slot
<1> QED
  BY SlotHoldsAtFirst, TypeCorrect, <1>1, <1>2, PTL DEF Spec
-------------------------------------------------------------------------------
(***************************************************************************)
(* Kubernetes waits for the machines. Phases are all that the              *)
(* KubernetesUpgrade looks at, so the phases at which it goes on must      *)
(* leave nothing behind: a plan that never started has touched nothing,    *)
(* and one that is completed has seen its nodes rejoin, whichever way it   *)
(* ended. The second needs that a node which was ever upgraded carries the *)
(* label until it has an outcome, so that the end of a run is gated.       *)
(***************************************************************************)
\* No node is selected by two plans.
Separate == \A p, q \in Plan : p # q => Selected[p] \cap Selected[q] = {}

AtRest == {NoPhase, "Completed"}

\* Plans only work on nodes they select.
DrainsOwnNodes ==
    worker.batch # {} =>
        /\ worker.plan \in Plan
        /\ worker.batch \subseteq Selected[worker.plan] \ Resolved(worker.plan)
StaysOnOwnNodes ==
    /\ \A r \in Plan : run[r].rebooting \subseteq Selected[r]
    /\ \A r \in Plan, n \in Node : job[r][n] # "none" => n \in Selected[r]
    /\ \A n \in Node : Rebooting(n) => \E r \in Plan : n \in Selected[r]

\* A Job that runs has no outcome.
RunningIsOpen == \A r \in Plan : Running(r) \cap Resolved(r) = {}

\* A node that a plan has touched is labelled or has an outcome.
TouchedIsMarked ==
    \A r \in Plan : \A n \in Selected[r] :
        Rebooting(n) \/ job[r][n] # "none" => n \in label \cup Resolved(r)

\* A plan at rest has no machine away.
Back(S) == \A n \in S : ~Rebooting(n)
RestIsUp ==
    \A r \in Plan :
        run[r].phase \in AtRest => Back(Selected[r]) /\ Running(r) = {}

Orderly ==
    DrainsOwnNodes /\ StaysOnOwnNodes /\ RunningIsOpen /\ TouchedIsMarked /\ RestIsUp
Gaps == faults = 0 => Orderly

LEMMA SelectedNodes == \A r \in Plan : Selected[r] \subseteq Node
BY SelectedAssumption

LEMMA OrderlyAtFirst == Init => Orderly
<1> SUFFICES ASSUME Init PROVE Orderly
  OBVIOUS
<1>1. worker.batch = {}
  BY FreeBatch DEF Init
<1>2. \A r \in Plan : run[r].rebooting = {} /\ Resolved(r) = {} /\ Running(r) = {}
  BY DEF Init, Resolved, Running
<1>3. \A n \in Node : ~Rebooting(n) /\ \A r \in Plan : job[r][n] = "none"
  BY DEF Init, Rebooting
<1> QED
  BY <1>1, <1>2, <1>3, SelectedNodes
     DEF Orderly, DrainsOwnNodes, StaysOnOwnNodes, RunningIsOpen, TouchedIsMarked,
         RestIsUp, Back

\* A step that touches no node and brings no plan to rest.
Light ==
    /\ UNCHANGED <<job, node, label>>
    /\ \A r \in Plan : /\ run'[r].rebooting = run[r].rebooting
                       /\ Resolved(r)' = Resolved(r)
                       /\ run'[r].phase \in AtRest => run[r].phase \in AtRest
    /\ worker' = worker \/ DrainsOwnNodes'

LEMMA LightKeepsOrder ==
    ASSUME Orderly, Light
    PROVE  Orderly'
<1>1. DrainsOwnNodes'
  BY DEF Orderly, Light, DrainsOwnNodes
<1>2. /\ \A r \in Plan : Running(r)' = Running(r) /\ Back(Selected[r])' = Back(Selected[r])
      /\ \A n \in Node : Rebooting(n)' = Rebooting(n)
  BY DEF Light, Running, Back, Rebooting
<1>3. StaysOnOwnNodes' /\ RunningIsOpen'
  BY <1>2 DEF Orderly, Light, StaysOnOwnNodes, RunningIsOpen
<1>4. TouchedIsMarked' /\ RestIsUp'
  BY <1>2, SelectedNodes DEF Orderly, Light, TouchedIsMarked, RestIsUp
<1> QED
  BY <1>1, <1>3, <1>4 DEF Orderly

LEMMA NewPhase ==
    ASSUME TypeOK, NEW p \in Plan, NEW phase, run' = InPhase(p, phase)
    PROVE  \A r \in Plan : /\ run'[r].rebooting = run[r].rebooting
                           /\ Resolved(r)' = Resolved(r)
                           /\ run'[r].phase = IF r = p THEN phase ELSE run[r].phase
BY DEF InPhase, TypeOK, Resolved

LEMMA EndPassIsLight ==
    ASSUME TypeOK, NEW p \in Plan, NEW phase, EndPass(p, phase), phase \notin AtRest
    PROVE  Light
<1>1. DrainsOwnNodes'
  BY FreeBatch DEF EndPass, DrainsOwnNodes
<1>2. \A r \in Plan : /\ run'[r].rebooting = run[r].rebooting
                      /\ Resolved(r)' = Resolved(r)
                      /\ run'[r].phase = IF r = p THEN phase ELSE run[r].phase
  BY NewPhase DEF EndPass
<1> QED
  BY <1>1, <1>2 DEF EndPass, Light

LEMMA StillIsLight ==
    ASSUME UNCHANGED <<run, job, node, label>>, worker' = worker \/ worker'.batch = {}
    PROVE  Light
BY DEF Light, DrainsOwnNodes, Resolved

LEMMA BusyPhases ==
    {"Pending", "HealthChecking", "Draining", "Upgrading", "Rebooting",
     "Failed", "MaintenanceWindow"} \cap AtRest = {}
BY DEF AtRest, NoPhase

LEMMA RecordWrites ==
    ASSUME TypeOK, NEW p \in Plan, NEW good \in SUBSET Node, NEW bad \in SUBSET Node,
           NEW waiting \in SUBSET Node, NEW phase,
           Record(p, good, bad, waiting, phase)
    PROVE  /\ run'[p].rebooting \subseteq run[p].rebooting \cup waiting
           /\ Resolved(p)' = Resolved(p) \cup good \cup bad
           /\ run'[p].phase = phase
           /\ \A r \in Plan \ {p} : run'[r] = run[r] /\ Resolved(r)' = Resolved(r)
           /\ label' = label \ (good \cup bad)
           /\ \A r \in Plan, n \in Node : job'[r][n] \in {"none", job[r][n]}
<1> DEFINE r0 == [run[p] EXCEPT !.completed = @ \cup good, !.failed = @ \cup bad,
                     !.rebooting = (@ \cup waiting) \ (good \cup bad)]
<1>1. run \in [Plan -> Run] /\ run[p] \in Run
  BY DEF TypeOK, Run
<1>2. Outcome(p, good, bad, waiting) = [run EXCEPT ![p] = r0]
  BY <1>1 DEF Outcome
<1>3. run' = [run EXCEPT ![p] = [r0 EXCEPT !.phase = phase]]
  BY <1>1, <1>2 DEF Record
<1>4. run'[p] = [r0 EXCEPT !.phase = phase] /\ \A r \in Plan \ {p} : run'[r] = run[r]
  BY <1>1, <1>3
<1>5. \A r \in Plan, n \in Node : job'[r][n] \in {"none", job[r][n]}
  BY DEF Record, CleanedUp
<1>6. /\ run'[p].rebooting \subseteq run[p].rebooting \cup waiting
      /\ run'[p].completed = run[p].completed \cup good
      /\ run'[p].failed = run[p].failed \cup bad
      /\ run'[p].phase = phase
  BY <1>1, <1>4 DEF Run
<1> QED
  BY <1>4, <1>5, <1>6 DEF Record, Resolved

\* Outcomes of nodes that are the plan's own and have no running Job. A plan
\* comes to rest only with its nodes up and no Job running.
LEMMA RecordKeepsOrder ==
    ASSUME TypeOK, Orderly, Separate, NEW p \in Plan,
           NEW good \in SUBSET Selected[p], NEW bad \in SUBSET Selected[p],
           NEW waiting \in SUBSET Selected[p], NEW phase,
           Record(p, good, bad, waiting, phase),
           UNCHANGED node, worker'.batch = {},
           (good \cup bad) \cap Running(p) = {},
           phase \in AtRest =>
               run[p].phase \in AtRest \/ (Back(Selected[p]) /\ Running(p) = {})
    PROVE  Orderly'
<1>1. /\ run'[p].rebooting \subseteq run[p].rebooting \cup waiting
      /\ Resolved(p)' = Resolved(p) \cup good \cup bad
      /\ run'[p].phase = phase
      /\ \A r \in Plan \ {p} : run'[r] = run[r] /\ Resolved(r)' = Resolved(r)
      /\ label' = label \ (good \cup bad)
      /\ \A r \in Plan, n \in Node : job'[r][n] \in {"none", job[r][n]}
  BY SelectedNodes, RecordWrites
<1>2. \A r \in Plan : Running(r)' \subseteq Running(r)
  BY <1>1 DEF Running
<1>3. DrainsOwnNodes' /\ \A n \in Node : Rebooting(n)' = Rebooting(n)
  BY DEF DrainsOwnNodes, Rebooting
<1>4. StaysOnOwnNodes'
  <2>1. \A r \in Plan : run'[r].rebooting \subseteq Selected[r]
    BY <1>1 DEF Orderly, StaysOnOwnNodes
  <2> QED
    BY <1>1, <1>3, <2>1 DEF Orderly, StaysOnOwnNodes
<1>5. RunningIsOpen'
  <2>1. Running(p)' \cap Resolved(p)' = {}
    BY <1>1, <1>2 DEF Orderly, RunningIsOpen
  <2>2. \A r \in Plan \ {p} : Running(r)' \cap Resolved(r)' = {}
    BY <1>1, <1>2 DEF Orderly, RunningIsOpen
  <2> QED
    BY <2>1, <2>2 DEF RunningIsOpen
<1>6. TouchedIsMarked'
  <2> SUFFICES ASSUME NEW r \in Plan, NEW n \in Selected[r],
                      Rebooting(n) \/ job'[r][n] # "none"
               PROVE  n \in label' \cup Resolved(r)'
    BY <1>3, SelectedNodes DEF TouchedIsMarked
  <2>1. n \in label \cup Resolved(r)
    BY <1>1, SelectedNodes DEF Orderly, TouchedIsMarked
  <2>2. CASE r = p
    BY <1>1, <2>1, <2>2
  <2>3. CASE r # p
    <3>1. n \notin good \cup bad
      BY <2>3 DEF Separate
    <3> QED
      BY <1>1, <2>1, <2>3, <3>1
  <2> QED
    BY <2>2, <2>3
<1>7. RestIsUp'
  <2> SUFFICES ASSUME NEW r \in Plan, run'[r].phase \in AtRest
               PROVE  Back(Selected[r])' /\ Running(r)' = {}
    BY DEF RestIsUp
  <2>1. Back(Selected[r]) /\ Running(r) = {}
    <3>1. CASE r = p
      BY <1>1, <3>1 DEF Orderly, RestIsUp
    <3>2. CASE r # p
      BY <1>1, <3>2 DEF Orderly, RestIsUp
    <3> QED
      BY <3>1, <3>2
  <2> QED
    BY <1>2, <1>3, <2>1, SelectedNodes DEF Back
<1> QED
  BY <1>3, <1>4, <1>5, <1>6, <1>7 DEF Orderly

\* With no Job active none runs: a running one has no outcome.
LEMMA NoneActiveNoneRuns ==
    ASSUME Orderly, NEW p \in Plan, ActiveJobs(p) = {}
    PROVE  Running(p) = {}
BY DEF Orderly, RunningIsOpen, ActiveJobs, Running

LEMMA FinishedBatchKeepsOrder ==
    ASSUME TypeOK, Orderly, Separate, NEW p \in Plan, HandleFinishedBatch(p)
    PROVE  Orderly'
<1> DEFINE batch == ActiveJobs(p)
           good == {n \in batch : Verified(p, n)}
           mayHaveFailed == {n \in batch : job[p][n] = "failed" /\ Mismatched(p, n)}
<1>1. PICK offTarget \in SUBSET mayHaveFailed :
        LET waiting == batch \ (good \cup offTarget) IN
        \E late \in SUBSET waiting :
          Record(p, good, IF waiting = {} THEN offTarget ELSE late, waiting,
                 CASE waiting \ late # {} -> "Rebooting"
                   [] waiting # {} /\ waiting = late -> run[p].phase
                   [] waiting = {} /\ offTarget # {} -> "Failed"
                   [] OTHER -> "Pending")
  BY DEF HandleFinishedBatch
<1> DEFINE waiting == batch \ (good \cup offTarget)
<1>2. PICK late \in SUBSET waiting :
        Record(p, good, IF waiting = {} THEN offTarget ELSE late, waiting,
               CASE waiting \ late # {} -> "Rebooting"
                 [] waiting # {} /\ waiting = late -> run[p].phase
                 [] waiting = {} /\ offTarget # {} -> "Failed"
                 [] OTHER -> "Pending")
  BY <1>1
<1> DEFINE bad == IF waiting = {} THEN offTarget ELSE late
           phase == CASE waiting \ late # {} -> "Rebooting"
                      [] waiting # {} /\ waiting = late -> run[p].phase
                      [] waiting = {} /\ offTarget # {} -> "Failed"
                      [] OTHER -> "Pending"
<1>3. Record(p, good, bad, waiting, phase)
  BY <1>2
<1>4. phase \in AtRest => run[p].phase \in AtRest
  BY BusyPhases
<1>5. batch \in SUBSET Selected[p]
  BY DEF ActiveJobs, Orderly, StaysOnOwnNodes
<1>6. batch \cap Running(p) = {} /\ worker'.batch = {} /\ UNCHANGED node
  BY FreeBatch DEF HandleFinishedBatch
<1>7. /\ good \in SUBSET Selected[p] /\ bad \in SUBSET Selected[p]
      /\ waiting \in SUBSET Selected[p] /\ good \cup bad \subseteq batch
  BY <1>5
<1> HIDE DEF batch, good, mayHaveFailed, waiting, bad, phase
<1>8. (good \cup bad) \cap Running(p) = {}
  BY <1>6, <1>7
<1> QED
  BY <1>3, <1>4, <1>6, <1>7, <1>8, RecordKeepsOrder

LEMMA RebootsKeepOrder ==
    ASSUME TypeOK, Orderly, Separate, NEW p \in Plan, ProcessReboots(p)
    PROVE  Orderly'
<1> DEFINE tracked == run[p].rebooting
           good == {n \in tracked : Verified(p, n)}
           down == {n \in tracked : node[n].state = "down"}
<1>1. PICK late \in SUBSET down :
        /\ Record(p, good, tracked \ (good \cup (down \ late)), {},
                  IF down \ late # {} THEN "Rebooting" ELSE run[p].phase)
        /\ worker' = IF down \ late # {} THEN Free ELSE [plan |-> p, batch |-> {}]
  BY DEF ProcessReboots
<1> DEFINE phase == IF down \ late # {} THEN "Rebooting" ELSE run[p].phase
           bad == tracked \ (good \cup (down \ late))
<1>2. tracked \subseteq Selected[p]
  BY DEF Orderly, StaysOnOwnNodes
<1>3. good \in SUBSET Selected[p] /\ bad \in SUBSET Selected[p]
  BY <1>2
<1>4. phase \in AtRest => run[p].phase \in AtRest
  BY BusyPhases
<1>5. Record(p, good, bad, {}, phase) /\ worker'.batch = {}
  BY <1>1, FreeBatch
<1>6. Running(p) = {} /\ UNCHANGED node
  BY NoneActiveNoneRuns DEF ProcessReboots
<1> HIDE DEF tracked, good, down, phase, bad
<1> QED
  BY <1>3, <1>4, <1>5, <1>6, RecordKeepsOrder

\* A run that ends without the gate has touched none of its nodes.
LEMMA FinishKeepsOrder ==
    ASSUME TypeOK, Orderly, Separate, NEW p \in Plan, FinishRun(p)
    PROVE  Orderly'
<1>1. OutOfBand(p) \in SUBSET Selected[p] /\ Running(p) = {} /\ run[p].failed = {}
  BY NoneActiveNoneRuns DEF FinishRun, Selecting, OutOfBand
<1>2. UNCHANGED node /\ worker'.batch = {}
  BY FreeBatch DEF FinishRun
<1>3. ~FinishGated(p) => Back(Selected[p])
  <2> SUFFICES ASSUME ~FinishGated(p), NEW n \in Selected[p], Rebooting(n)
               PROVE  FALSE
    BY DEF Back
  <2>1. Resolved(p) = {} /\ n \notin label
    BY <1>1 DEF FinishGated, OutOfBand, Resolved
  <2> QED
    BY <2>1 DEF Orderly, TouchedIsMarked
<1>4. Healthy(p) => Back(Selected[p])
  BY DEF Healthy, Up, Back, Rebooting
<1>5. CASE (FinishGated(p) => Healthy(p)) /\ Record(p, OutOfBand(p), {}, {}, "Completed")
  BY <1>1, <1>2, <1>3, <1>4, <1>5, RecordKeepsOrder
<1>6. CASE Record(p, OutOfBand(p), {}, {}, "HealthChecking")
  BY <1>1, <1>2, <1>6, BusyPhases, RecordKeepsOrder
<1> QED
  BY <1>5, <1>6 DEF FinishRun

\* The batch is drained for its own plan and has no outcome.
LEMMA DrainIsLight ==
    ASSUME TypeOK, NEW p \in Plan, BeginDrain(p)
    PROVE  Light
<1>1. NextBatchOf(PendingNodes(p)) \subseteq PendingNodes(p)
  BY DEF NextBatchOf
<1>2. \A r \in Plan : /\ run'[r].rebooting = run[r].rebooting
                      /\ Resolved(r)' = Resolved(r)
                      /\ run'[r].phase = IF r = p THEN "Draining" ELSE run[r].phase
  BY NewPhase DEF BeginDrain
<1>3. worker' = [plan |-> p, batch |-> NextBatchOf(PendingNodes(p))]
  BY DEF BeginDrain
<1>4. DrainsOwnNodes'
  BY <1>1, <1>2, <1>3 DEF DrainsOwnNodes, PendingNodes
<1> QED
  BY <1>2, <1>4, BusyPhases DEF BeginDrain, Light

\* The nodes of a started batch are labelled, and their plan is not at rest.
LEMMA StartKeepsOrder ==
    ASSUME TypeOK, Orderly, Separate, NEW p \in Plan, StartBatch(p)
    PROVE  Orderly'
<1>1. worker.batch \subseteq Selected[p] \ Resolved(p)
  BY DEF StartBatch, Orderly, DrainsOwnNodes
<1>2. \A r \in Plan : /\ run'[r].rebooting = run[r].rebooting
                      /\ Resolved(r)' = Resolved(r)
                      /\ run'[r].phase = IF r = p THEN "Upgrading" ELSE run[r].phase
  BY NewPhase DEF StartBatch, StartJobs
<1>3. /\ UNCHANGED node
      /\ label' = label \cup worker.batch
      /\ \A r \in Plan, n \in Node :
           job'[r][n] = IF r = p /\ n \in worker.batch THEN "running" ELSE job[r][n]
  BY DEF StartBatch, StartJobs, TypeOK
<1>4. \A r \in Plan : Running(r)' \subseteq
          Running(r) \cup (IF r = p THEN worker.batch ELSE {})
  BY <1>3 DEF Running
<1>5. DrainsOwnNodes' /\ \A n \in Node : Rebooting(n)' = Rebooting(n)
  BY <1>3, FreeBatch DEF DrainsOwnNodes, StartBatch, StartJobs, Rebooting
<1>6. StaysOnOwnNodes'
  BY <1>1, <1>2, <1>3, <1>5 DEF Orderly, StaysOnOwnNodes
<1>7. RunningIsOpen'
  BY <1>1, <1>2, <1>4 DEF Orderly, RunningIsOpen
<1>8. TouchedIsMarked'
  BY <1>1, <1>2, <1>3, <1>5, SelectedNodes DEF Orderly, TouchedIsMarked
<1>9. RestIsUp'
  <2>1. p \in Plan /\ run'[p].phase \notin AtRest
    BY <1>2, BusyPhases
  <2>2. \A r \in Plan \ {p} : Running(r)' \subseteq Running(r) /\ run'[r].phase = run[r].phase
    BY <1>2, <1>4
  <2> QED
    BY <1>5, <2>1, <2>2, SelectedNodes DEF Orderly, RestIsUp, Back
<1> QED
  BY <1>5, <1>6, <1>7, <1>8, <1>9 DEF Orderly

\* A machine goes away under a Job of the plan that selects it, or is stray.
LEMMA MachinesKeepOrder ==
    ASSUME TypeOK, Orderly, Separate,
           \E n \in Node : Reboot(n) \/ InstallFails(n) \/ Return(n) \/ Rejoin(n)
    PROVE  Orderly'
<1>1. UNCHANGED <<run, worker, job, label>>
  BY DEF Reboot, InstallFails, Return, Rejoin, OnlyNode, talos
<1>2. \A r \in Plan : Running(r)' = Running(r) /\ Resolved(r)' = Resolved(r)
  BY <1>1 DEF Running, Resolved
<1>3. \A m \in Node : Rebooting(m)' => Rebooting(m) \/ \E p \in Plan : m \in Running(p)
  BY MachinesLeaveUnderJobs DEF Unused
<1>4. \A m \in Node, p \in Plan : m \in Running(p) =>
        /\ m \in Selected[p] /\ job[p][m] # "none" /\ run[p].phase \notin AtRest
        /\ \A r \in Plan \ {p} : m \notin Selected[r]
  BY DEF Orderly, StaysOnOwnNodes, RestIsUp, Separate, Running
<1>5. DrainsOwnNodes' /\ RunningIsOpen'
  BY <1>1, <1>2 DEF Orderly, DrainsOwnNodes, RunningIsOpen
<1>6. StaysOnOwnNodes'
  BY <1>1, <1>3, <1>4 DEF Orderly, StaysOnOwnNodes
<1>7. TouchedIsMarked'
  BY <1>1, <1>2, <1>3, <1>4, SelectedNodes DEF Orderly, TouchedIsMarked
<1>8. RestIsUp'
  BY <1>1, <1>2, <1>3, <1>4, SelectedNodes DEF Orderly, RestIsUp, Back
<1> QED
  BY <1>5, <1>6, <1>7, <1>8 DEF Orderly

\* A Job that accepts, ends or expires only leaves less behind.
LEMMA JobsKeepOrder ==
    ASSUME TypeOK, Orderly, NEW p \in Plan, NEW n \in Node,
           JobAccepted(p, n) \/ JobSucceeds(p, n) \/ JobFails(p, n) \/ JobExpires(p, n)
    PROVE  Orderly'
<1>1. UNCHANGED <<run, worker, label>>
  BY DEF JobAccepted, JobSucceeds, JobFails, JobExpires, OnlyJob
<1>2. /\ \A r \in Plan : Running(r)' \subseteq Running(r) /\ Resolved(r)' = Resolved(r)
      /\ \A r \in Plan, m \in Node : job'[r][m] # "none" => job[r][m] # "none"
  BY <1>1, JobsEnd DEF Resolved
<1>3. \A m \in Node : Rebooting(m)' => Rebooting(m)
  <2>1. CASE JobAccepted(p, n)
    BY <2>1 DEF JobAccepted, Rebooting, TypeOK
  <2>2. CASE UNCHANGED node
    BY <2>2 DEF Rebooting
  <2> QED
    BY <2>1, <2>2 DEF JobSucceeds, JobFails, JobExpires, OnlyJob
<1>4. DrainsOwnNodes' /\ RunningIsOpen'
  BY <1>1, <1>2 DEF Orderly, DrainsOwnNodes, RunningIsOpen
<1>5. StaysOnOwnNodes'
  BY <1>1, <1>2, <1>3 DEF Orderly, StaysOnOwnNodes
<1>6. TouchedIsMarked'
  BY <1>1, <1>2, <1>3, SelectedNodes DEF Orderly, TouchedIsMarked
<1>7. RestIsUp'
  BY <1>1, <1>2, <1>3, SelectedNodes DEF Orderly, RestIsUp, Back
<1> QED
  BY <1>4, <1>5, <1>6, <1>7 DEF Orderly

LEMMA ClusterKeepsOrder ==
    ASSUME TypeOK, Orderly, Separate, Cluster
    PROVE  Orderly'
<1>1. CASE KubeJobEnds \/ KubeJobExpires \/ WindowMoves
  <2>1. UNCHANGED <<run, worker, job, node, label>>
    BY <1>1 DEF KubeJobEnds, KubeJobExpires, KubeIs, WindowMoves, talos
  <2> QED
    BY <2>1, StillIsLight, LightKeepsOrder
<1> QED
  BY <1>1, MachinesKeepOrder, JobsKeepOrder DEF Cluster

LEMMA PlanKeepsOrder ==
    ASSUME TypeOK, Orderly, Separate, faults' = faults,
           NEW p \in Plan, Checks(p) \/ Batch(p) \/ NextOrEnd(p)
    PROVE  Orderly'
<1>1. ~Fault
  BY DEF Fault, TypeOK
<1>2. CASE PassChecks(p)
  <2>1. worker'.batch = {} /\ UNCHANGED <<run, job, node, label>>
    BY <1>2, FreeBatch DEF PassChecks
  <2> QED
    BY <2>1, StillIsLight, LightKeepsOrder
<1>3. CASE \E phase : EndPass(p, phase) /\ phase \notin AtRest
  BY <1>3, EndPassIsLight, LightKeepsOrder
<1>4. CASE BeginDrain(p)
  BY <1>4, DrainIsLight, LightKeepsOrder
<1>5. CASE HandleFinishedBatch(p) \/ ProcessReboots(p) \/ StartBatch(p) \/ FinishRun(p)
  BY <1>5, FinishedBatchKeepsOrder, RebootsKeepOrder, StartKeepsOrder, FinishKeepsOrder
<1>6. Checks(p) => PassChecks(p) \/ \E phase : EndPass(p, phase) /\ phase \notin AtRest
  BY BusyPhases DEF Checks, PassSuspended, ParkOutsideWindow, WaitForOtherUpgrade
<1>7. Batch(p) => \/ HandleFinishedBatch(p) \/ ProcessReboots(p)
                  \/ \E phase : EndPass(p, phase) /\ phase \notin AtRest
  BY <1>1, BusyPhases DEF Batch, WaitForJobs, ReadFails, FinalizeFailed
<1>8. NextOrEnd(p) => \/ BeginDrain(p) \/ StartBatch(p) \/ FinishRun(p)
                      \/ \E phase : EndPass(p, phase) /\ phase \notin AtRest
  BY <1>1, BusyPhases
     DEF NextOrEnd, ParkForClosedWindow, ParkInPending, AwaitHealth, InterruptStart
<1> QED
  BY <1>2, <1>3, <1>4, <1>5, <1>6, <1>7, <1>8

LEMMA StepKeepsOrder ==
    ASSUME TypeOK, Orderly, Separate, faults' = faults, [Next]_vars
    PROVE  Orderly'
<1>1. CASE \E p \in Plan : Checks(p) \/ Batch(p) \/ NextOrEnd(p)
  BY <1>1, PlanKeepsOrder
<1>2. CASE DrainFails \/ KubePass \/ ToggleSuspend \/ UNCHANGED vars
  <2>1. UNCHANGED <<run, job, node, label>>
    BY <1>2
       DEF DrainFails, KubePass, KubeSuspended, KubeWaits, KubeFollowsJob, KubeCompletes,
           KubeFails, KubeChecks, KubeChecksFail, KubeStarts, KubeInterrupted, KubeIs,
           ToggleSuspend, talos, vars
  <2>2. worker' = worker \/ worker'.batch = {}
    BY <1>2, FreeBatch
       DEF DrainFails, KubePass, KubeSuspended, KubeWaits, KubeFollowsJob, KubeCompletes,
           KubeFails, KubeChecks, KubeChecksFail, KubeStarts, KubeInterrupted, KubeIs,
           ToggleSuspend, talos, vars
  <2> QED
    BY <2>1, <2>2, StillIsLight, LightKeepsOrder
<1>3. CASE Cluster
  BY <1>3, ClusterKeepsOrder
<1> QED
  BY <1>1, <1>2, <1>3 DEF Next

\* Faults are only ever counted up.
LEMMA FaultsAreCounted ==
    ASSUME TypeOK, [Next]_vars, faults' = 0
    PROVE  faults = 0
<1> SUFFICES ASSUME faults # 0 PROVE FALSE
  OBVIOUS
<1>1. faults \in Nat /\ faults' # faults
  BY FaultsAssumption DEF TypeOK
<1>2. faults' # faults + 1
  BY <1>1
<1> QED
  BY <1>1, <1>2
     DEF Next, vars, Fault, EndPass, users,
         Checks, PassSuspended, ParkOutsideWindow, WaitForOtherUpgrade, PassChecks,
         Batch, WaitForJobs, ReadFails, HandleFinishedBatch, ProcessReboots, FinalizeFailed,
         NextOrEnd, ParkForClosedWindow, ParkInPending, AwaitHealth, BeginDrain,
         StartBatch, InterruptStart, FinishRun, DrainFails,
         KubePass, KubeSuspended, KubeWaits, KubeFollowsJob, KubeCompletes, KubeFails,
         KubeChecks, KubeChecksFail, KubeStarts, KubeInterrupted,
         Cluster, Reboot, InstallFails, Return, Rejoin, OnlyNode, JobAccepted,
         JobSucceeds, JobFails, JobExpires, OnlyJob, KubeJobEnds, KubeJobExpires, WindowMoves, ToggleSuspend

LEMMA StepKeepsGaps ==
    ASSUME TypeOK, Gaps, Separate, [Next]_vars
    PROVE  Gaps'
<1> SUFFICES ASSUME faults' = 0 PROVE Orderly'
  BY DEF Gaps
<1>1. faults = 0 /\ Orderly
  BY FaultsAreCounted DEF Gaps
<1> QED
  BY <1>1, StepKeepsOrder

LEMMA OnlyChecksBegin ==
    ASSUME TypeOK, [Next]_vars, kube'.checking, ~kube.checking
    PROVE  KubeChecks
<1>1. kube' # kube /\ kube \in KubeState
  BY DEF TypeOK, KubeState
<1>2. KubePass \/ KubeJobEnds \/ KubeJobExpires
  BY <1>1
     DEF Next, vars, EndPass, StartJobs,
         Checks, PassSuspended, ParkOutsideWindow, WaitForOtherUpgrade, PassChecks,
         Batch, WaitForJobs, ReadFails, HandleFinishedBatch, ProcessReboots, FinalizeFailed,
         NextOrEnd, ParkForClosedWindow, ParkInPending, AwaitHealth, BeginDrain,
         StartBatch, InterruptStart, FinishRun, DrainFails,
         Cluster, Reboot, InstallFails, Return, Rejoin, OnlyNode, JobAccepted,
         JobSucceeds, JobFails, JobExpires, OnlyJob, WindowMoves, ToggleSuspend
<1>3. KubeChecks \/ kube'.checking \in {FALSE, kube.checking}
  BY <1>1, <1>2
     DEF KubePass, KubeSuspended, KubeWaits, KubeFollowsJob, KubeCompletes, KubeFails,
         KubeChecksFail, KubeStarts, KubeInterrupted, KubeIs, KubePhase, KubeJobEnds,
         KubeJobExpires, KubeState
<1> QED
  BY <1>3

\* As long as nothing fails, a KubernetesUpgrade is let in only when every
\* machine that left under a Job is back and none has a running Job, for plans
\* that share no node.
THEOREM KubernetesWaits == Separate /\ Spec => KubernetesFindsClusterUp
<1> SUFFICES ASSUME Separate PROVE Spec => KubernetesFindsClusterUp
  OBVIOUS
<1>1. TypeOK /\ Gaps /\ [Next]_vars =>
        [/\ KubePassesCheck
         /\ faults = 0
         /\ \A p \in Plan : run[p].phase \notin {"Failed", "MaintenanceWindow"}
         => NoneAway]_vars
  <2> SUFFICES ASSUME TypeOK, Gaps, [Next]_vars, KubePassesCheck, faults = 0,
                      \A p \in Plan : run[p].phase \notin {"Failed", "MaintenanceWindow"},
                      NEW n \in Node
               PROVE  ~Away(n)
    BY DEF NoneAway
  <2>1. ~KubeBlocked
    BY OnlyChecksBegin DEF KubePassesCheck, KubeChecks, KubeAdmitted
  <2>2. \A p \in Plan : run[p].phase \in AtRest
    <3> TAKE p \in Plan
    <3>1. run[p].phase \in Phase
      BY DEF TypeOK
    <3>2. ~IsActive(run[p].phase) /\ run[p].phase # "Pending"
      BY <2>1 DEF KubeBlocked
    <3> QED
      BY <3>1, <3>2 DEF Phase, IsActive, AtRest
  <2>3. \A p \in Plan : Back(Selected[p]) /\ Running(p) = {}
    BY <2>2 DEF Gaps, Orderly, RestIsUp
  <2>4. ~Rebooting(n)
    BY <2>3 DEF Gaps, Orderly, StaysOnOwnNodes, Back
  <2> QED
    BY <2>3, <2>4 DEF Away, Unused
<1>2. Init => Gaps
  BY OrderlyAtFirst DEF Gaps
<1>3. TypeOK /\ Gaps /\ [Next]_vars => Gaps'
  BY StepKeepsGaps
<1> QED
  BY <1>1, <1>2, <1>3, TypeCorrect, PTL DEF Spec, KubernetesFindsClusterUp
===============================================================================
