------------------------ MODULE UndisturbedRuns_proofs ------------------------
(***************************************************************************)
(* Theorems of TalosUpgrade for runs that are left alone in one way or     *)
(* another. Each names what it assumes of users, faults and machines, and  *)
(* no more: every other constant is free.                                  *)
(***************************************************************************)
EXTENDS TalosUpgrade_proofs, HookHistory

\* The invariant of the refinement, for runs of any kind.
LEMMA CampaignHolds == Spec => []CampaignInv
<1>1. Init => CampaignInv
  BY InitType, InitSafe, InitCampaign DEF CampaignInv, SafeInv
<1>2. CampaignInv /\ [Next]_vars => CampaignInv'
  BY NextType, NextSafe, NextCampaign DEF CampaignInv, SafeInv
<1> QED
  BY <1>1, <1>2, PTL DEF Spec

-------------------------------------------------------------------------------
(***************************************************************************)
(* Hooks. A hook Job runs only in its phase and at its index, and only     *)
(* passes leave that phase: a run that has begun its hooks is in flight,   *)
(* so that no edit is admitted, and its passes have seen the latest spec.  *)
(* Suspending or resetting it would do.                                    *)
(***************************************************************************)
Attended == "suspend" \notin UserActions /\ "reset" \notin UserActions

Hooking ==
    /\ ~annotation.suspend /\ ~annotation.reset
    /\ IsInFlight(status.phase) => status.observed = spec.generation
    /\ \A h \in Hook :
          hookJob[h] = "running" => status.phase = HookPhase(h[1]) /\ HookIndex(h[1]) = h[2]
    /\ draining # {} => status.preHook = PreHooks
    /\ status.preHookFailed => status.phase \in {"PreHook", "PostHook", "Failed"}

\* What the passes leave alone that neither start a run over nor handle a hook.
HookFields(s) == <<s.observed, s.preHook, s.postHook, s.preHookFailed>>

LEMMA HookFieldsKept ==
    ASSUME SafeInv
    PROVE  /\ \A p : HookFields(InPhase(p)) = HookFields(status) /\ InPhase(p).phase = p
           /\ \A s \in Status : HookFields(Finalized(s)) = HookFields(s)
           /\ HookFields(WithOutOfBand) = HookFields(status) /\ WithOutOfBand \in Status
           /\ \A good, bad, track, lost :
                 HookFields(Outcome(good, bad, track, lost)) = HookFields(status)
                 /\ DOMAIN Outcome(good, bad, track, lost) = DOMAIN status
<1>1. status \in Status
  BY DEF SafeInv, TypeOK
<1>2. \A p : HookFields(InPhase(p)) = HookFields(status) /\ InPhase(p).phase = p
  BY <1>1 DEF InPhase, Status, HookFields
<1>3. \A s \in Status : HookFields(Finalized(s)) = HookFields(s)
  BY DEF Finalized, Status, HookFields
<1>4. WithOutOfBand \in Status
  BY OutOfBandType DEF SafeInv
<1>5. HookFields(WithOutOfBand) = HookFields(status)
  BY <1>1 DEF WithOutOfBand, Status, HookFields
<1>6. \A good, bad, track, lost :
        HookFields(Outcome(good, bad, track, lost)) = HookFields(status)
        /\ DOMAIN Outcome(good, bad, track, lost) = DOMAIN status
  BY <1>1 DEF Outcome, Status, HookFields
<1> QED
  BY <1>2, <1>3, <1>4, <1>5, <1>6

Upgrading ==
    \/ Checks \/ BatchJobs \/ Reboots \/ ParkForClosedWindow \/ ParkInPending
    \/ StartOfBatch \/ EndOfRun

\* The status a pass at upgrade work writes.
LEMMA UpgradingWrites ==
    ASSUME SafeInv, Upgrading
    PROVE  HookFields(status') = HookFields(status)
<1>1. CASE \/ Checks \/ ParkForClosedWindow \/ ParkInPending \/ AwaitHealth \/ EnterPreHook
           \/ WaitForJobs \/ JobsUnreadable \/ BeginDrain \/ DrainFails \/ CrashInDrain
           \/ StartBatch \/ InterruptStartBatch \/ EndPass
  <2>1. status' = status \/ \E p : status' = InPhase(p)
    BY <1>1
    DEF Checks, ParkOutsideWindow, WaitForOtherUpgrade, ParkForClosedWindow, ParkInPending,
        AwaitHealth, EnterPreHook, WaitForJobs, JobsUnreadable, BeginDrain, DrainFails,
        CrashInDrain, StartBatch, InterruptStartBatch, EndPass, WriteStatus
  <2> QED
    BY <2>1, HookFieldsKept DEF HookFields
<1>2. CASE HandleFinishedBatch
  <2>1. PICK offTarget, lost :
          status' = [Outcome(BatchGood, BatchBad(offTarget), BatchWaiting(offTarget), lost)
                       EXCEPT !.phase = BatchPhase(offTarget)]
    BY <1>2 DEF HandleFinishedBatch
  <2> QED
    BY <2>1, HookFieldsKept DEF HookFields, SafeInv, TypeOK, Status
<1>3. CASE ProcessReboots
  <2>1. PICK denied, lost :
          LET outcome == Outcome(RebootGood, RebootBad(denied), {}, lost) IN
          status' = [outcome EXCEPT
                       !.rebooting = @ \ (Resolved \ lost.track),
                       !.phase = IF RebootWaiting(denied) # {} THEN "Rebooting" ELSE @]
    BY <1>3 DEF ProcessReboots, JudgeReboots
  <2> QED
    BY <2>1, HookFieldsKept DEF HookFields, SafeInv, TypeOK, Status
<1>4. CASE InterruptFinishedBatch \/ InterruptReboots \/ \E n \in Node : OutcomeUnsaved(n)
  <2>1. \E good, bad, track, cut, p : Landed(good, bad, track, cut, p)
    BY <1>4 DEF InterruptFinishedBatch, InterruptReboots, OutcomeUnsaved
  <2>2. \E good, bad, track, lost, p :
          status' = [Outcome(good, bad, track, lost) EXCEPT !.phase = p]
    BY <2>1 DEF Landed
  <2> QED
    BY <2>2, HookFieldsKept DEF HookFields, SafeInv, TypeOK, Status
<1>5. CASE EndOfRun
  <2> DEFINE p == "HealthChecking"
  <2>1. status' \in {Finalized(status), Finalized(WithOutOfBand), WithOutOfBand, InPhase(p),
                     [WithOutOfBand EXCEPT !.phase = p]}
    BY <1>5
    DEF EndOfRun, FinalizeFailed, FinishRun, FinishWaits, InterruptFinishRun, WriteStatus
  <2>2. HookFields([WithOutOfBand EXCEPT !.phase = p]) = HookFields(WithOutOfBand)
    BY HookFieldsKept DEF HookFields, Status
  <2>3. status \in Status
    BY DEF SafeInv, TypeOK
  <2>4. \A s \in {Finalized(status), Finalized(WithOutOfBand), WithOutOfBand, InPhase(p),
                  [WithOutOfBand EXCEPT !.phase = p]} : HookFields(s) = HookFields(status)
    BY <2>2, <2>3, HookFieldsKept
  <2> QED
    BY <2>1, <2>4 DEF HookFields
<1> QED
  BY <1>1, <1>2, <1>3, <1>4, <1>5 DEF Upgrading, BatchJobs, Reboots, StartOfBatch

\* Where such a pass begins, and where it may lead.
LEMMA UpgradingBegins ==
    ASSUME CampaignInv, Upgrading
    PROVE  /\ UNCHANGED <<hookJob, spec, annotation>>
           /\ \/ Working
              \/ draining # {} /\ status.phase = "Draining"
              \/ EndPass
<1>1. UNCHANGED <<hookJob, spec, annotation>>
  BY DEF Upgrading, Checks, ParkOutsideWindow, WaitForOtherUpgrade, ParkForClosedWindow,
         ParkInPending, AwaitHealth, EnterPreHook, WriteStatus, objects, users, BatchJobs,
         WaitForJobs, JobsUnreadable, HandleFinishedBatch, InterruptFinishedBatch, Landed,
         Reboots, ProcessReboots, JudgeReboots, InterruptReboots, EndPass, OutcomeUnsaved,
         StartOfBatch, BeginDrain, DrainFails, CrashInDrain, StartBatch,
         InterruptStartBatch, StartJobs, EndOfRun, FinalizeFailed, FinishRun, FinishWaits,
         InterruptFinishRun, RecordOutOfBand
<1>2. CASE DrainFails \/ CrashInDrain \/ StartBatch \/ InterruptStartBatch
  <2>1. draining # {} \/ BatchReady
    BY <1>2 DEF DrainFails, CrashInDrain, StartBatch, InterruptStartBatch, StartableBatch
  <2> QED
    BY <1>1, <2>1 DEF BatchReady, BatchChosen, Selecting, Admitted, CampaignInv, Quiet
<1>3. CASE ~(DrainFails \/ CrashInDrain \/ StartBatch \/ InterruptStartBatch)
  BY <1>1, <1>3
  DEF Upgrading, Checks, ParkOutsideWindow, WaitForOtherUpgrade, ParkForClosedWindow,
      ParkInPending, AwaitHealth, EnterPreHook, BatchJobs, WaitForJobs, JobsUnreadable,
      HandleFinishedBatch, InterruptFinishedBatch, BatchFinished, Reboots, ProcessReboots,
      JudgeReboots, InterruptReboots, OutcomeUnsaved, AwaitingReboots, StartOfBatch,
      BeginDrain, BatchReady, BatchChosen, Selecting, Admitted, EndOfRun, FinalizeFailed,
      FinishRun, FinishWaits, InterruptFinishRun, NothingPending
<1> QED
  BY <1>1, <1>2, <1>3

\* No hook Job runs outside the hook phases.
LEMMA NoHookElsewhere ==
    ASSUME SafeInv, Hooking, status.phase \notin {"PreHook", "PostHook"}
    PROVE  /\ \A h \in Hook : hookJob[h] # "running"
           /\ status.phase # "Failed" => ~status.preHookFailed
BY DEF Hooking, HookPhase

\* A pass begins a drain only when no pre-hook remains.
LEMMA DrainsAfterPreHooks ==
    ASSUME Upgrading
    PROVE  draining' = {} \/ draining' = draining \/ BeginDrain
<1>1. CASE StartBatch \/ InterruptStartBatch
  BY <1>1 DEF StartBatch, InterruptStartBatch, StartJobs
<1>2. CASE ~(StartBatch \/ InterruptStartBatch)
  BY <1>2
  DEF Upgrading, Checks, ParkOutsideWindow, WaitForOtherUpgrade, ParkForClosedWindow,
      ParkInPending, AwaitHealth, EnterPreHook, WriteStatus, inPass, BatchJobs,
      WaitForJobs, JobsUnreadable, HandleFinishedBatch, InterruptFinishedBatch, Landed,
      Reboots, ProcessReboots, JudgeReboots, InterruptReboots, EndPass, OutcomeUnsaved,
      StartOfBatch, DrainFails, CrashInDrain, EndOfRun, FinalizeFailed, FinishRun,
      FinishWaits, InterruptFinishRun, RecordOutOfBand
<1> QED
  BY <1>1, <1>2

LEMMA BeginDrainBegins ==
    ASSUME SafeInv, BeginDrain
    PROVE  Working /\ (~status.preHookFailed => status.preHook = PreHooks)
<1>1. Working /\ ~PreHooksRemain
  BY DEF BeginDrain, BatchReady, BatchChosen, Selecting, Admitted
<1>2. status.preHook \in 0..PreHooks
  BY DEF SafeInv, TypeOK, Status
<1> QED
  BY <1>1, <1>2, HooksAssumption DEF PreHooksRemain

LEMMA UpgradingHooking ==
    ASSUME CampaignInv, Hooking, Upgrading
    PROVE  Hooking'
<1>1. CASE EndPass
  BY <1>1 DEF EndPass, Hooking, objects, users, HookIndex
<1>2. CASE ~EndPass
  <2>1. /\ UNCHANGED <<hookJob, spec, annotation>>
        /\ Working \/ (draining # {} /\ status.phase = "Draining")
    BY <1>2, UpgradingBegins
  <2>2. /\ status'.observed = status.observed
        /\ status'.preHook = status.preHook
        /\ status'.preHookFailed = status.preHookFailed
    BY UpgradingWrites DEF HookFields, CampaignInv
  <2>3. status.observed = spec.generation
    BY <2>1 DEF Working, Settled, Hooking, IsInFlight, IsActive
  <2>4. /\ \A h \in Hook : hookJob[h] # "running"
        /\ ~status.preHookFailed
    BY <2>1, NoHookElsewhere DEF Working, CampaignInv
  <2>5. draining' # {} => status.preHook = PreHooks
    BY <2>4, DrainsAfterPreHooks, BeginDrainBegins DEF Hooking, CampaignInv
  <2> QED
    BY <2>1, <2>2, <2>3, <2>4, <2>5 DEF Hooking
<1> QED
  BY <1>1, <1>2

LEMMA AnnotationsHooking ==
    ASSUME SafeInv, Hooking, Annotations
    PROVE  Hooking'
<1>1. PassSpecChange
  BY DEF Annotations, PassSuspended, PassReset, Hooking
<1>2. status' = Restarted(0) /\ UNCHANGED <<hookJob, spec, annotation, draining>>
  BY <1>1 DEF PassSpecChange, WriteStatus, objects, users
<1>3. draining = {} /\ ~IsInFlight(status.phase)
  <2>1. draining = {} /\ status.observed < spec.generation
    BY <1>1 DEF PassSpecChange, Idle
  <2>2. status.observed \in Nat
    BY BoundsAssumption DEF SafeInv, TypeOK, Status
  <2> QED
    BY <2>1, <2>2 DEF Hooking
<1>4. \A h \in Hook : hookJob[h] # "running"
  BY <1>3, NoHookElsewhere DEF IsInFlight, IsActive
<1> QED
  BY <1>2, <1>3, <1>4 DEF Hooking, Restarted

LEMMA CampaignHooking ==
    ASSUME SafeInv, Hooking, Campaign
    PROVE  Hooking'
<1>1. status.phase = "Completed" /\ draining = {} /\ status.observed = spec.generation
  BY DEF Campaign, RestartCampaign, GiveUp, RecheckFails, Recheck, Settled
<1>2. UNCHANGED <<hookJob, spec, annotation, draining>>
  BY DEF Campaign, RestartCampaign, GiveUp, RecheckFails, WriteStatus, objects, users, inPass
<1>3. \/ status' = Restarted(status.cycles + 1)
      \/ \E p : status' = InPhase(p) /\ ~IsInFlight(p)
  BY DEF Campaign, RestartCampaign, GiveUp, RecheckFails, WriteStatus, IsInFlight, IsActive
<1>4. (\A h \in Hook : hookJob[h] # "running") /\ ~status.preHookFailed
  BY <1>1, NoHookElsewhere
<1>5. /\ ~status'.preHookFailed
      /\ IsInFlight(status'.phase) => status'.observed = spec.generation
  BY <1>1, <1>3, <1>4, HookFieldsKept DEF Restarted, HookFields
<1> QED
  BY <1>1, <1>2, <1>4, <1>5 DEF Hooking

LEMMA HooksHooking ==
    ASSUME CampaignInv, Hooking, Hooks
    PROVE  Hooking'
<1> USE DEF CampaignInv
<1>1. PICK k \in {"pre", "post"} :
        /\ InHookPhase(k)
        /\ \/ StartHook(k) \/ HandleHook(k)
           \/ k = "pre" /\ LeavePreHooks
           \/ k = "post" /\ LeavePostHooks
  BY DEF Hooks, StartHook, HandleHook, LeavePreHooks, LeavePostHooks
<1>2. /\ status.phase = HookPhase(k) /\ status.observed = spec.generation /\ draining = {}
      /\ (k = "pre") <=> (status.phase = "PreHook")
      /\ status.phase \in {"PreHook", "PostHook"}
  BY <1>1 DEF InHookPhase, Settled, HookPhase
<1>3. UNCHANGED <<spec, annotation, draining>>
  BY <1>1 DEF StartHook, HandleHook, LeavePreHooks, LeavePostHooks, WriteStatus, users, inPass
<1>4. \A h \in Hook : hookJob[h] = "running" => h = <<k, HookIndex(k)>>
  <2> SUFFICES ASSUME NEW h \in Hook, hookJob[h] = "running" PROVE h = <<k, HookIndex(k)>>
    OBVIOUS
  <2>1. status.phase = HookPhase(h[1]) /\ HookIndex(h[1]) = h[2]
    BY DEF Hooking
  <2>2. PICK kind \in {"pre", "post"}, i \in Nat : h = <<kind, i>>
    BY HooksAssumption DEF Hook
  <2>3. kind = k
    BY <1>2, <2>1, <2>2 DEF HookPhase
  <2> QED
    BY <2>1, <2>2, <2>3
<1>5. CASE StartHook(k)
  <2>1. /\ hookJob' = [hookJob EXCEPT ![<<k, HookIndex(k)>>] = "running"]
        /\ UNCHANGED status
    BY <1>5 DEF StartHook
  <2>2. hookJob \in [Hook -> HookState]
    BY DEF SafeInv, TypeOK
  <2>3. \A h \in Hook : hookJob'[h] = "running" => h = <<k, HookIndex(k)>>
    BY <1>4, <2>1, <2>2
  <2>4. \A h \in Hook : hookJob'[h] = "running" =>
          status'.phase = HookPhase(h[1]) /\ HookIndex(h[1])' = h[2]
    BY <1>2, <2>1, <2>3 DEF HookIndex
  <2> QED
    BY <1>2, <1>3, <2>1, <2>4 DEF Hooking
<1>6. CASE HandleHook(k)
  <2> DEFINE h0 == <<k, HookIndex(k)>>
  <2>1. /\ hookJob[h0] # "running"
        /\ \/ hookJob' = [hookJob EXCEPT ![h0] = "none"]
           \/ UNCHANGED hookJob
    BY <1>6 DEF HandleHook, HookOver
  <2>2. \A h \in Hook : hookJob[h] # "running"
    BY <1>4, <2>1
  <2>3. \A h \in Hook : hookJob'[h] # "running"
    <3>1. hookJob \in [Hook -> HookState]
      BY DEF SafeInv, TypeOK
    <3> QED
      BY <2>1, <2>2, <3>1
  <2>4. /\ status'.phase = status.phase /\ status'.observed = status.observed
    BY <1>6 DEF HandleHook, AtIndex, SafeInv, TypeOK, Status
  <2> QED
    BY <1>2, <1>3, <2>3, <2>4 DEF Hooking
<1>7. CASE (k = "pre" /\ LeavePreHooks) \/ (k = "post" /\ LeavePostHooks)
  <2>1. HookIndex(k) >= HookCount(k) /\ UNCHANGED hookJob
    BY <1>7 DEF LeavePreHooks, LeavePostHooks, HookIndex, HookCount, WriteStatus, objects
  <2>2. <<k, HookIndex(k)>> \notin Hook
    <3>1. HookIndex(k) \in Nat
      BY HooksAssumption DEF HookIndex, SafeInv, TypeOK, Status
    <3> QED
      BY <2>1, <3>1, HooksAssumption DEF Hook, HookCount
  <2>3. \A h \in Hook : hookJob'[h] # "running"
    BY <1>4, <2>1, <2>2
  <2>4. \/ status' = Finalized(status)
        \/ status' = InPhase("Pending") /\ ~status.preHookFailed
        \/ status' = InPhase(FinalPhase(status))
    BY <1>7 DEF LeavePreHooks, LeavePostHooks, WriteStatus
  <2>5. /\ HookFields(status') = HookFields(status)
        /\ status'.preHookFailed => status'.phase \in {"PostHook", "Failed"}
    <3>1. status \in Status
      BY DEF SafeInv, TypeOK
    <3> QED
      BY <2>4, <3>1, HookFieldsKept DEF Finalized, FinalPhase, Status, HookFields
  <2> QED
    BY <1>2, <1>3, <2>3, <2>5 DEF Hooking, HookFields
<1> QED
  BY <1>1, <1>5, <1>6, <1>7

LEMMA ClusterHooking ==
    ASSUME SafeInv, Hooking, Cluster
    PROVE  Hooking'
<1>1. UNCHANGED <<status, annotation, spec, draining>>
  BY DEF Cluster, JobAccepted, JobSucceeds, JobFails, JobExpires, Reboot, InstallFails,
         Return, Rejoin, Outage, DeadlinePasses, NodeActs, OnlyNode, OnlyJob, HookFinishes,
         HookExpires, HookActs, WindowMoves, users, inPass
<1>2. \A h \in Hook : hookJob'[h] = "running" => hookJob[h] = "running"
  <2>1. CASE UNCHANGED hookJob
    BY <2>1
  <2>2. CASE \E h \in Hook, s \in HookState \ {"running"} : HookActs(h, s)
    <3>1. hookJob \in [Hook -> HookState]
      BY DEF SafeInv, TypeOK
    <3> QED
      BY <2>2, <3>1 DEF HookActs
  <2>3. CASE \E h \in Hook : HookFinishes(h) \/ HookExpires(h)
    BY <2>2, <2>3 DEF HookFinishes, HookExpires, HookState
  <2>4. CASE ~ \E h \in Hook : HookFinishes(h) \/ HookExpires(h)
    <3>1. UNCHANGED hookJob
      BY <2>4 DEF Cluster, JobAccepted, JobSucceeds, JobFails, JobExpires, Reboot,
           InstallFails, Return, Rejoin, Outage, DeadlinePasses, OnlyNode, OnlyJob,
           WindowMoves, objects
    <3> QED
      BY <3>1
  <2> QED
    BY <2>3, <2>4
<1> QED
  BY <1>1, <1>2 DEF Hooking, HookIndex

\* No user suspends or resets the run, and edits wait until no hook is near.
LEMMA UsersHooking ==
    ASSUME SafeInv, Hooking, Attended, Users
    PROVE  Hooking'
<1>1. UNCHANGED <<status, draining, hookJob, annotation>>
  BY DEF Users, Attended, ToggleSuspend, RequestReset, EditSpec, JoinNode, OnlyUsers, inPass,
         objects
<1>2. spec' # spec => ~IsInFlight(status.phase)
  BY DEF Users, Attended, ToggleSuspend, RequestReset, EditSpec, JoinNode
<1> QED
  BY <1>1, <1>2 DEF Hooking, HookIndex

LEMMA NextHooking ==
    CampaignInv /\ Hooking /\ Attended /\ [Next]_vars => Hooking'
<1> SUFFICES ASSUME CampaignInv, Hooking, Attended, [Next]_vars PROVE Hooking'
  OBVIOUS
<1>1. CASE UNCHANGED vars
  BY <1>1 DEF vars, Hooking, objects, users, inPass, HookIndex
<1>2. CASE Annotations
  BY <1>2, AnnotationsHooking DEF CampaignInv
<1>3. CASE Campaign
  BY <1>3, CampaignHooking DEF CampaignInv
<1>4. CASE Hooks
  BY <1>4, HooksHooking
<1>5. CASE Upgrading
  BY <1>5, UpgradingHooking
<1>6. CASE Cluster
  BY <1>6, ClusterHooking DEF CampaignInv
<1>7. CASE Users
  BY <1>7, UsersHooking DEF CampaignInv
<1> QED
  BY <1>1, <1>2, <1>3, <1>4, <1>5, <1>6, <1>7 DEF Next, Pass, Upgrading

LEMMA HookingHolds == Attended /\ Spec => [](CampaignInv /\ Hooking)
<1>1. Init => Hooking
  BY DEF Init, Hooking, IsInFlight, IsActive, NoPhase
<1>2. SUFFICES ASSUME Attended PROVE Spec => [](CampaignInv /\ Hooking)
  OBVIOUS
<1>3. Init => CampaignInv
  BY InitType, InitSafe, InitCampaign DEF CampaignInv, SafeInv
<1>4. CampaignInv /\ Hooking /\ [Next]_vars => (CampaignInv /\ Hooking)'
  <2>1. CampaignInv /\ [Next]_vars => CampaignInv'
    BY NextType, NextSafe, NextCampaign DEF CampaignInv, SafeInv
  <2> QED
    BY <1>2, <2>1, NextHooking
<1> QED
  BY <1>1, <1>3, <1>4, PTL DEF Spec

LEMMA OneHookRuns ==
    ASSUME CampaignInv, Hooking
    PROVE  HooksRunAlone
<1>1. CASE RunningHooks = {}
  BY <1>1, FS_EmptySet DEF HooksRunAlone
<1>2. CASE RunningHooks # {}
  <2>1. PICK h \in Hook : hookJob[h] = "running"
    BY <1>2 DEF RunningHooks
  <2>2. status.phase \in {"PreHook", "PostHook"}
    BY <2>1 DEF Hooking, HookPhase
  <2>3. BusyNodes = {}
    BY <2>2 DEF CampaignInv, Quiet
  <2>4. \A g \in RunningHooks : g = h
    <3> SUFFICES ASSUME NEW g \in RunningHooks PROVE g = h
      OBVIOUS
    <3>1. /\ g \in Hook
          /\ HookPhase(g[1]) = HookPhase(h[1])
          /\ g[2] = HookIndex(g[1]) /\ h[2] = HookIndex(h[1])
      BY <2>1 DEF Hooking, RunningHooks
    <3>2. PICK k \in {"pre", "post"}, i \in Nat : g = <<k, i>>
      BY <3>1, HooksAssumption DEF Hook
    <3>3. PICK l \in {"pre", "post"}, j \in Nat : h = <<l, j>>
      BY <2>1, HooksAssumption DEF Hook
    <3>4. k = l
      BY <3>1, <3>2, <3>3 DEF HookPhase
    <3> QED
      BY <3>1, <3>2, <3>3, <3>4
  <2>5. RunningHooks = {h}
    BY <2>1, <2>4 DEF RunningHooks
  <2> QED
    BY <2>3, <2>5, FS_Singleton DEF HooksRunAlone
<1> QED
  BY <1>1, <1>2

(***************************************************************************)
(* Unless a user suspends or resets the run, no hook Job runs beside an    *)
(* upgrade Job and hooks run one at a time (executor.go starts the hook at *)
(* the index in the status, and the run leaves a hook phase only past the  *)
(* last index), whatever fails and whatever edits the webhook lets through.*)
(***************************************************************************)
THEOREM HooksAreAlone == Attended /\ Spec => []HooksRunAlone
<1>1. CampaignInv /\ Hooking => HooksRunAlone
  BY OneHookRuns
<1> QED
  BY <1>1, HookingHolds, PTL

\* Only the start of a batch starts Jobs.
LEMMA JobsStartInBatches ==
    ASSUME SafeInv, [Next]_vars, ~StartBatch, ~InterruptStartBatch
    PROVE  BusyNodes' \subseteq BusyNodes
<1>1. CASE UNCHANGED job
  BY <1>1, SameBusy
<1>2. CASE Cluster \/ Users
  BY <1>2, ElsewhereRests
<1>3. CASE \E S : job' = Without(S)
  BY <1>3, WithoutBusy
<1>4. CASE BatchJobs \/ Reboots
  <2>1. UNCHANGED job \/ \E S : job' = Without(S)
    BY <1>4
    DEF BatchJobs, WaitForJobs, JobsUnreadable, HandleFinishedBatch, Record,
        InterruptFinishedBatch, Landed, Reboots, ProcessReboots, JudgeReboots,
        InterruptReboots, EndPass, OutcomeUnsaved, objects
  <2> QED
    BY <1>1, <1>3, <2>1
<1>5. CASE \/ UNCHANGED vars \/ Annotations \/ Campaign \/ Hooks \/ Checks
           \/ ParkForClosedWindow \/ ParkInPending \/ StartOfBatch \/ EndOfRun
  <2>1. UNCHANGED job
    BY <1>5
    DEF vars, objects, Annotations, PassSuspended, PassReset, PassSpecChange, Campaign,
        RestartCampaign, GiveUp, RecheckFails, Hooks, StartHook, HandleHook,
        LeavePreHooks, LeavePostHooks, Checks, ParkOutsideWindow, WaitForOtherUpgrade,
        ParkForClosedWindow, ParkInPending, WriteStatus, StartOfBatch, AwaitHealth,
        EnterPreHook, BeginDrain, DrainFails, CrashInDrain, EndOfRun, FinalizeFailed,
        FinishRun, FinishWaits, InterruptFinishRun, RecordOutOfBand
  <2> QED
    BY <1>1, <2>1
<1> QED
  BY <1>2, <1>4, <1>5 DEF Next, Pass

LEMMA StartsAfterPreHooks ==
    ASSUME CampaignInv, Hooking, StartableBatch # {}
    PROVE  status.preHook = PreHooks /\ ~status.preHookFailed
<1>1. CASE draining # {}
  BY <1>1 DEF Hooking, CampaignInv, Quiet
<1>2. CASE draining = {}
  <2>1. BatchReady /\ ~PreHooksRemain
    BY <1>2 DEF StartableBatch
  <2>2. ~status.preHookFailed
    BY <2>1, NoHookElsewhere
    DEF BatchReady, BatchChosen, Selecting, Admitted, Working, CampaignInv
  <2>3. status.preHook \in 0..PreHooks
    BY DEF CampaignInv, SafeInv, TypeOK, Status
  <2> QED
    BY <2>1, <2>2, <2>3, HooksAssumption DEF PreHooksRemain
<1> QED
  BY <1>1, <1>2

\* An upgrade Job starts only past the last pre-hook.
LEMMA JobsStartPastPreHooks ==
    ASSUME CampaignInv, Hooking, [Next]_vars, NEW n \in Node, JobStarts(n)
    PROVE  status.preHook = PreHooks /\ ~status.preHookFailed
<1>1. StartBatch \/ InterruptStartBatch
  BY JobsStartInBatches DEF JobStarts, BusyNodes, CampaignInv
<1>2. StartableBatch # {}
  BY <1>1 DEF StartBatch, InterruptStartBatch
<1> QED
  BY <1>2, StartsAfterPreHooks

-------------------------------------------------------------------------------
(***************************************************************************)
(* The memory of the pre-hooks. Every hook below the index has succeeded   *)
(* in this run or has left its Job from an earlier one. Without a lost     *)
(* deletion there is no such Job: each is deleted when its index is past,  *)
(* and no run ends or starts over before that.                             *)
(***************************************************************************)
Accounted == leftHooks \cup hooksRun

Remembered ==
    /\ HistoryTypeOK
    /\ ~status.preHookFailed => \A i \in PreHook : i < status.preHook => i \in Accounted
    /\ \A i \in PreHook : PreHookJob(i) = "succeeded" => i \in Accounted

CleanHooks ==
    faults = 0 =>
        /\ leftHooks = {}
        /\ \A i \in PreHook : PreHookJob(i) # "none" =>
              status.phase = "PreHook" /\ i = status.preHook

HistoryInv == CampaignInv /\ Hooking /\ Remembered /\ CleanHooks

LEMMA FaultsAdd ==
    ASSUME [Next]_vars
    PROVE  faults' \in {faults, faults + 1}
<1>1. CASE UNCHANGED vars
  BY <1>1 DEF vars
<1>2. CASE Cluster \/ Users
  BY <1>2
  DEF Cluster, JobAccepted, JobSucceeds, JobFails, JobExpires, OnlyJob, Reboot,
      InstallFails, Return, Rejoin, OnlyNode, Outage, Fault, DeadlinePasses, HookFinishes,
      HookExpires, HookActs, WindowMoves, Users, ToggleSuspend, RequestReset, EditSpec,
      JoinNode, OnlyUsers
<1>3. CASE Annotations \/ Campaign \/ Hooks \/ Checks \/ ParkForClosedWindow \/ ParkInPending
  BY <1>3
  DEF Annotations, PassSuspended, PassReset, PassSpecChange, Campaign, RestartCampaign,
      GiveUp, RecheckFails, Hooks, StartHook, HandleHook, LeavePreHooks, LeavePostHooks,
      Checks, ParkOutsideWindow, WaitForOtherUpgrade, ParkForClosedWindow, ParkInPending,
      WriteStatus, Fault
<1>4. CASE BatchJobs \/ Reboots
  BY <1>4
  DEF BatchJobs, WaitForJobs, JobsUnreadable, HandleFinishedBatch, InterruptFinishedBatch,
      Landed, Reboots, ProcessReboots, JudgeReboots, InterruptReboots, EndPass,
      OutcomeUnsaved, Spend, Fault
<1>5. CASE StartOfBatch \/ EndOfRun
  BY <1>5
  DEF StartOfBatch, AwaitHealth, EnterPreHook, BeginDrain, DrainFails, CrashInDrain,
      StartBatch, InterruptStartBatch, EndOfRun, FinalizeFailed, FinishRun, FinishWaits,
      InterruptFinishRun, WriteStatus, Fault
<1> QED
  BY <1>1, <1>2, <1>3, <1>4, <1>5 DEF Next, Pass

\* Until the next run begins only the hook's own passes move the index.
OwnedSteps ==
    /\ status'.preHook = status.preHook
    /\ status'.preHookFailed = status.preHookFailed
    /\ status.phase = "PreHook" =>
          status'.phase = "PreHook" \/ status.preHook = PreHooks
    /\ \A i \in PreHook :
          \/ PreHookJob(i)' \in {PreHookJob(i), "none"}
          \/ PreHookJob(i) = "running" /\ PreHookJob(i)' \in {"succeeded", "failed"}

LEMMA PreHookMember == \A i \in PreHook : <<"pre", i>> \in Hook
BY DEF PreHook, Hook

LEMMA ClusterHooks ==
    ASSUME SafeInv, Cluster \/ Users, NEW i \in PreHook
    PROVE  \/ PreHookJob(i)' \in {PreHookJob(i), "none"}
           \/ PreHookJob(i) = "running" /\ PreHookJob(i)' \in {"succeeded", "failed"}
<1>0. hookJob \in [Hook -> HookState] /\ <<"pre", i>> \in Hook
  BY PreHookMember DEF SafeInv, TypeOK
<1>1. ASSUME NEW h \in Hook, HookFinishes(h) \/ HookExpires(h)
      PROVE  \/ PreHookJob(i)' \in {PreHookJob(i), "none"}
             \/ PreHookJob(i) = "running" /\ PreHookJob(i)' \in {"succeeded", "failed"}
  BY <1>0, <1>1 DEF HookFinishes, HookExpires, HookActs, PreHookJob
<1>2. ASSUME ~ \E h \in Hook : HookFinishes(h) \/ HookExpires(h)
      PROVE  UNCHANGED hookJob
  BY <1>2
  DEF Cluster, JobAccepted, JobSucceeds, JobFails, JobExpires, Reboot, InstallFails,
      Return, Rejoin, Outage, DeadlinePasses, OnlyNode, OnlyJob, WindowMoves, objects,
      Users, ToggleSuspend, RequestReset, EditSpec, JoinNode, OnlyUsers
<1> QED
  BY <1>1, <1>2 DEF PreHookJob

LEMMA HookKinds ==
    ASSUME CampaignInv, Hooking, [Next]_vars, ~RunBegins, ~StartHook("pre"), ~HandleHook("pre")
    PROVE  OwnedSteps
<1>0. status \in Status /\ hookJob \in [Hook -> HookState]
  BY DEF CampaignInv, SafeInv, TypeOK
<1>1. CASE UNCHANGED vars
  BY <1>1 DEF vars, objects, OwnedSteps, PreHookJob
<1>2. CASE Cluster \/ Users
  <2>1. UNCHANGED status
    BY <1>2, ElsewhereRests DEF CampaignInv
  <2> QED
    BY <1>2, <2>1, ClusterHooks DEF OwnedSteps, CampaignInv
<1>3. CASE Annotations
  <2>1. PassSpecChange
    BY <1>3 DEF Annotations, PassSuspended, PassReset, Hooking
  <2> QED
    BY <2>1 DEF RunBegins
<1>4. CASE Campaign
  <2>1. GiveUp \/ RecheckFails
    BY <1>4 DEF Campaign, RunBegins
  <2>2. /\ status.phase = "Completed" /\ UNCHANGED hookJob
        /\ \E p : status' = InPhase(p)
    BY <2>1 DEF GiveUp, RecheckFails, Recheck, WriteStatus, objects
  <2>3. HookFields(status') = HookFields(status)
    BY <2>2, HookFieldsKept DEF CampaignInv
  <2> QED
    BY <2>2, <2>3 DEF OwnedSteps, PreHookJob, HookFields
<1>5. CASE Upgrading
  <2>1. HookFields(status') = HookFields(status) /\ UNCHANGED hookJob
    BY <1>5, UpgradingWrites, UpgradingBegins DEF CampaignInv
  <2>2. status.phase = "PreHook" => UNCHANGED status
    BY <1>5, UpgradingBegins DEF Working, EndPass
  <2> QED
    BY <2>1, <2>2 DEF OwnedSteps, PreHookJob, HookFields
<1>6. CASE StartHook("post") \/ HandleHook("post") \/ LeavePostHooks
  <2>1. status.phase = "PostHook"
    BY <1>6 DEF StartHook, HandleHook, LeavePostHooks, InHookPhase, HookPhase
  <2>2. /\ status'.preHook = status.preHook
        /\ status'.preHookFailed = status.preHookFailed
    BY <1>0, <1>6
    DEF StartHook, HandleHook, LeavePostHooks, AtIndex, WriteStatus, InPhase, Status
  <2>3. \A i \in PreHook : PreHookJob(i)' = PreHookJob(i)
    BY <1>0, <1>6, PreHookMember
    DEF StartHook, HandleHook, LeavePostHooks, WriteStatus, objects, PreHookJob
  <2> QED
    BY <2>1, <2>2, <2>3 DEF OwnedSteps
<1>7. CASE LeavePreHooks
  <2>1. status.preHook = PreHooks
    BY <1>0, <1>7, HooksAssumption DEF LeavePreHooks, Status
  <2>2. /\ status'.preHook = status.preHook
        /\ status'.preHookFailed = status.preHookFailed
        /\ UNCHANGED hookJob
    BY <1>0, <1>7 DEF LeavePreHooks, Finalized, InPhase, WriteStatus, objects, Status
  <2> QED
    BY <2>1, <2>2 DEF OwnedSteps, PreHookJob
<1> QED
  BY <1>1, <1>2, <1>3, <1>4, <1>5, <1>6, <1>7 DEF Next, Pass, Upgrading, Hooks

LEMMA RunBeginsRemembered ==
    ASSUME HistoryInv, RunBegins, Remember
    PROVE  Remembered' /\ CleanHooks'
<1>1. PassSpecChange \/ RestartCampaign
  BY DEF RunBegins, PassReset, HistoryInv, Hooking
<1>2. UNCHANGED <<hookJob, faults>> /\ status'.preHook = 0
  BY <1>1 DEF PassSpecChange, RestartCampaign, WriteStatus, objects, Restarted
<1>3. status.phase # "PreHook"
  <2>1. status.observed < spec.generation \/ status.phase = "Completed"
    BY <1>1 DEF PassSpecChange, RestartCampaign, Recheck
  <2>2. status.observed \in Nat
    BY BoundsAssumption DEF HistoryInv, CampaignInv, SafeInv, TypeOK, Status
  <2> QED
    BY <2>1, <2>2 DEF HistoryInv, Hooking, IsInFlight, IsActive
<1>4. /\ leftHooks' = {i \in PreHook : PreHookJob(i)' # "none"}
      /\ hooksRun' = {}
  BY DEF Remember, LeftBefore, HasRun
<1>5. Remembered'
  <2>1. \A i \in PreHook : ~(i < status'.preHook)
    BY <1>2, HooksAssumption DEF PreHook
  <2> QED
    BY <1>2, <1>4, <2>1 DEF Remembered, HistoryTypeOK, Accounted, PreHookJob
<1>6. CleanHooks'
  <2>1. faults = 0 => \A i \in PreHook : PreHookJob(i)' = "none"
    BY <1>2, <1>3 DEF HistoryInv, CleanHooks, PreHookJob
  <2> QED
    BY <1>2, <1>4, <2>1 DEF CleanHooks
<1> QED
  BY <1>5, <1>6

\* What the memory does while a run goes on.
LEMMA RunGoesOn ==
    ASSUME ~RunBegins, Remember, HistoryTypeOK
    PROVE  /\ \A i \in PreHook : i \in leftHooks' <=>
                  i \in leftHooks /\ (PreHookJob(i)' # "none" \/ i < status'.preHook)
           /\ \A i \in PreHook : i \in hooksRun' <=>
                  \/ i \in hooksRun
                  \/ i \notin leftHooks /\ PreHookJob(i) = "running"
                       /\ PreHookJob(i)' = "succeeded"
           /\ HistoryTypeOK'
BY DEF Remember, LeftBefore, HasRun, HistoryTypeOK

LEMMA OwnedRemembered ==
    ASSUME HistoryInv, OwnedSteps, ~RunBegins, Remember, faults' \in {faults, faults + 1}
    PROVE  Remembered' /\ CleanHooks'
<1>1. HistoryTypeOK
  BY DEF HistoryInv, Remembered
<1>2. Remembered'
  <2>1. ASSUME NEW i \in PreHook, i \in Accounted,
               PreHookJob(i)' # "none" \/ i < status'.preHook
        PROVE  i \in Accounted'
    BY <1>1, <2>1, RunGoesOn DEF Accounted
  <2>2. ASSUME NEW i \in PreHook, PreHookJob(i)' = "succeeded" PROVE i \in Accounted'
    <3>1. CASE PreHookJob(i) = "succeeded"
      BY <2>1, <2>2, <3>1 DEF HistoryInv, Remembered
    <3>2. CASE PreHookJob(i) = "running"
      BY <1>1, <2>2, <3>2, RunGoesOn DEF Accounted
    <3> QED
      BY <2>2, <3>1, <3>2 DEF OwnedSteps
  <2> QED
    BY <1>1, <2>1, <2>2, RunGoesOn DEF OwnedSteps, HistoryInv, Remembered
<1>3. CleanHooks'
  <2> SUFFICES ASSUME faults' = 0 PROVE CleanHooks'
    BY DEF CleanHooks
  <2>1. faults = 0
    BY DEF HistoryInv, CampaignInv, SafeInv, TypeOK
  <2>2. leftHooks' = {}
    BY <1>1, <2>1, RunGoesOn DEF HistoryInv, CleanHooks, HistoryTypeOK
  <2>3. ASSUME NEW i \in PreHook, PreHookJob(i)' # "none"
        PROVE  status'.phase = "PreHook" /\ i = status'.preHook
    <3>1. PreHookJob(i) # "none"
      BY <2>3 DEF OwnedSteps
    <3>2. status.phase = "PreHook" /\ i = status.preHook
      BY <2>1, <3>1 DEF HistoryInv, CleanHooks
    <3>3. i # PreHooks
      BY HooksAssumption DEF PreHook
    <3> QED
      BY <3>2, <3>3 DEF OwnedSteps
  <2> QED
    BY <2>2, <2>3 DEF CleanHooks
<1> QED
  BY <1>2, <1>3

LEMMA StartRemembered ==
    ASSUME HistoryInv, StartHook("pre"), ~RunBegins, Remember
    PROVE  Remembered' /\ CleanHooks'
<1>0. HistoryTypeOK /\ status.preHook \in PreHook
  <2>1. status.preHook \in Nat
    BY HooksAssumption DEF HistoryInv, CampaignInv, SafeInv, TypeOK, Status
  <2> QED
    BY <2>1, HooksAssumption DEF HistoryInv, Remembered, StartHook, HookIndex, HookCount, PreHook
<1>1. /\ UNCHANGED <<status, faults>> /\ status.phase = "PreHook"
      /\ PreHookJob(status.preHook) = "none" /\ PreHookJob(status.preHook)' = "running"
      /\ \A i \in PreHook : i # status.preHook => PreHookJob(i)' = PreHookJob(i)
  <2>1. hookJob \in [Hook -> HookState]
    BY DEF HistoryInv, CampaignInv, SafeInv, TypeOK
  <2> QED
    BY <1>0, <2>1, PreHookMember DEF StartHook, InHookPhase, HookPhase, HookIndex, PreHookJob
<1>2. Remembered'
  <2>1. ASSUME NEW i \in PreHook, i \in Accounted,
               PreHookJob(i)' # "none" \/ i < status'.preHook
        PROVE  i \in Accounted'
    BY <1>0, <2>1, RunGoesOn DEF Accounted
  <2> QED
    BY <1>0, <1>1, <2>1, RunGoesOn DEF HistoryInv, Remembered
<1>3. CleanHooks'
  BY <1>0, <1>1, RunGoesOn DEF HistoryInv, CleanHooks, HistoryTypeOK
<1> QED
  BY <1>2, <1>3

LEMMA HandleRemembered ==
    ASSUME HistoryInv, HandleHook("pre"), ~RunBegins, Remember
    PROVE  Remembered' /\ CleanHooks'
<1>k. PICK k \in PreHook : k = status.preHook
  <2>1. status.preHook \in Nat
    BY HooksAssumption DEF HistoryInv, CampaignInv, SafeInv, TypeOK, Status
  <2> QED
    BY <2>1, HooksAssumption DEF HandleHook, HookIndex, HookCount, PreHook
<1>0. /\ HistoryTypeOK /\ k \in PreHook /\ k \in Nat /\ k = status.preHook
      /\ status \in Status /\ hookJob \in [Hook -> HookState] /\ faults \in Nat
  <2>1. status \in Status /\ hookJob \in [Hook -> HookState] /\ faults \in Nat
    BY DEF HistoryInv, CampaignInv, SafeInv, TypeOK
  <2> QED
    BY <1>k, <2>1, HooksAssumption DEF HistoryInv, Remembered, PreHook
<1>1. /\ \/ PreHookJob(k) = "succeeded" /\ status' = [status EXCEPT !.preHook = k + 1]
         \/ PreHookJob(k) = "failed"
              /\ status' = [status EXCEPT !.preHookFailed = TRUE, !.preHook = PreHooks]
      /\ \/ PreHookJob(k)' = "none" /\ UNCHANGED faults
         \/ UNCHANGED hookJob /\ faults' = faults + 1
      /\ \A i \in PreHook : i # k => PreHookJob(i)' = PreHookJob(i)
      /\ PreHookJob(k)' \in {PreHookJob(k), "none"}
      /\ status.phase = "PreHook"
  <2>1. <<"pre", k>> \in Hook
    BY <1>0, PreHookMember
  <2>2. /\ \/ PreHookJob(k) = "succeeded" /\ status' = [status EXCEPT !.preHook = k + 1]
           \/ PreHookJob(k) = "failed"
                /\ status' = [status EXCEPT !.preHookFailed = TRUE, !.preHook = PreHooks]
        /\ \/ hookJob' = [hookJob EXCEPT ![<<"pre", k>>] = "none"] /\ UNCHANGED faults
           \/ UNCHANGED hookJob /\ faults' = faults + 1
        /\ status.phase = "PreHook"
    BY <1>k DEF HandleHook, HookOver, AtIndex, HookIndex, InHookPhase, HookPhase, PreHookJob, Fault
  <2> QED
    BY <1>0, <2>1, <2>2, PreHookMember DEF PreHookJob
<1>2. Remembered'
  <2>1. ASSUME NEW i \in PreHook, i \in Accounted,
               PreHookJob(i)' # "none" \/ i < status'.preHook
        PROVE  i \in Accounted'
    BY <1>0, <2>1, RunGoesOn DEF Accounted
  <2>2. \A i \in PreHook : PreHookJob(i)' = "succeeded" => i \in Accounted'
    BY <1>0, <1>1, <2>1 DEF HistoryInv, Remembered
  <2>3. ASSUME ~status'.preHookFailed, NEW i \in PreHook, i < status'.preHook
        PROVE  i \in Accounted'
    <3>1. PreHookJob(k) = "succeeded" /\ status'.preHook = k + 1 /\ ~status.preHookFailed
      BY <1>0, <1>1, <2>3 DEF Status
    <3>2. i \in Nat
      BY HooksAssumption DEF PreHook
    <3>3. i < k \/ i = k
      BY <1>0, <2>3, <3>1, <3>2
    <3>4. i \in Accounted
      BY <1>0, <3>1, <3>3 DEF HistoryInv, Remembered
    <3> QED
      BY <2>1, <2>3, <3>4
  <2> QED
    BY <1>0, <2>2, <2>3, RunGoesOn DEF Remembered
<1>3. CleanHooks'
  <2> SUFFICES ASSUME faults' = 0 PROVE CleanHooks'
    BY DEF CleanHooks
  <2>1. faults = 0 /\ PreHookJob(k)' = "none"
    BY <1>0, <1>1
  <2>2. leftHooks' = {}
    BY <1>0, <2>1, RunGoesOn DEF HistoryInv, CleanHooks, HistoryTypeOK
  <2>3. \A i \in PreHook : PreHookJob(i)' = "none"
    BY <1>0, <1>1, <2>1 DEF HistoryInv, CleanHooks
  <2> QED
    BY <2>2, <2>3 DEF CleanHooks
<1> QED
  BY <1>2, <1>3

LEMMA HistoryHolds == Attended /\ HistorySpec => []HistoryInv
<1>1. SUFFICES ASSUME Attended PROVE HistorySpec => []HistoryInv
  OBVIOUS
<1>2. HistoryInit => HistoryInv
  <2> SUFFICES ASSUME HistoryInit PROVE HistoryInv
    OBVIOUS
  <2>1. CampaignInv
    BY InitType, InitSafe, InitCampaign DEF HistoryInit, CampaignInv, SafeInv
  <2>2. Hooking
    BY DEF HistoryInit, Init, Hooking, IsInFlight, IsActive, NoPhase
  <2>3. \A i \in PreHook : PreHookJob(i) = "none"
    BY PreHookMember DEF HistoryInit, Init, PreHookJob
  <2>4. \A i \in PreHook : ~(i < status.preHook)
    BY HooksAssumption DEF HistoryInit, Init, PreHook
  <2> QED
    BY <2>1, <2>2, <2>3, <2>4
    DEF HistoryInit, HistoryInv, Remembered, CleanHooks, HistoryTypeOK
<1>3. HistoryInv /\ [HistoryNext]_<<vars, hookHistory>> => HistoryInv'
  <2> SUFFICES ASSUME HistoryInv, [HistoryNext]_<<vars, hookHistory>> PROVE HistoryInv'
    OBVIOUS
  <2>1. [Next]_vars /\ faults' \in {faults, faults + 1}
    BY FaultsAdd DEF HistoryNext
  <2>2. CampaignInv' /\ Hooking'
    BY <1>1, <2>1, NextType, NextSafe, NextCampaign, NextHooking
    DEF HistoryInv, CampaignInv, SafeInv
  <2>3. CASE UNCHANGED <<vars, hookHistory>>
    <3>1. UNCHANGED <<status, hookJob, faults, leftHooks, hooksRun>>
      BY <2>3 DEF vars, objects, hookHistory
    <3> QED
      BY <2>2, <3>1
      DEF HistoryInv, Remembered, CleanHooks, HistoryTypeOK, Accounted, PreHookJob
  <2>4. CASE Remember
    <3>1. CASE RunBegins
      BY <2>2, <2>4, <3>1, RunBeginsRemembered DEF HistoryInv
    <3>2. CASE ~RunBegins /\ StartHook("pre")
      BY <2>2, <2>4, <3>2, StartRemembered DEF HistoryInv
    <3>3. CASE ~RunBegins /\ HandleHook("pre")
      BY <2>2, <2>4, <3>3, HandleRemembered DEF HistoryInv
    <3>4. CASE ~RunBegins /\ ~StartHook("pre") /\ ~HandleHook("pre")
      BY <2>1, <2>2, <2>4, <3>4, HookKinds, OwnedRemembered DEF HistoryInv
    <3> QED
      BY <3>1, <3>2, <3>3, <3>4
  <2> QED
    BY <2>3, <2>4 DEF HistoryNext
<1> QED
  BY <1>2, <1>3, PTL DEF HistorySpec

(***************************************************************************)
(* Unless a user suspends or resets the run, an upgrade Job is created     *)
(* only when every pre-hook has succeeded in a Job of this run: also when  *)
(* the pass that drained the batch looked at the hooks minutes ago, when a *)
(* run goes through Pending after an error, and when runs follow one       *)
(* another on edits or self-heal cycles. The exception is the hook Job     *)
(* whose deletion an earlier run lost and whose old success counts again.  *)
(***************************************************************************)
THEOREM PreHooksComeFirst == Attended /\ HistorySpec => UpgradeOnlyAfterPreHooks
<1>1. HistoryInv /\ [HistoryNext]_<<vars, hookHistory>> =>
        [(\E n \in Node : JobStarts(n)) =>
           /\ ~status.preHookFailed
           /\ \A i \in PreHook :
                 i \in hooksRun \/ (i \in leftHooks /\ faults > 0)]_<<vars, hookHistory>>
  <2> SUFFICES ASSUME HistoryInv, [HistoryNext]_<<vars, hookHistory>>,
                      NEW n \in Node, JobStarts(n)
               PROVE  /\ ~status.preHookFailed
                      /\ \A i \in PreHook :
                            i \in hooksRun \/ (i \in leftHooks /\ faults > 0)
    OBVIOUS
  <2>1. status.preHook = PreHooks /\ ~status.preHookFailed
    BY JobsStartPastPreHooks DEF HistoryInv, HistoryNext
  <2>2. ASSUME NEW i \in PreHook
        PROVE  i \in hooksRun \/ (i \in leftHooks /\ faults > 0)
    <3>1. i < status.preHook
      BY <2>1, HooksAssumption DEF PreHook
    <3>2. i \in leftHooks \cup hooksRun
      BY <2>1, <3>1 DEF HistoryInv, Remembered, Accounted
    <3>3. i \in leftHooks => faults > 0
      BY DEF HistoryInv, CleanHooks, CampaignInv, SafeInv, TypeOK
    <3> QED
      BY <3>2, <3>3
  <2> QED
    BY <2>1, <2>2
<1> QED
  BY <1>1, HistoryHolds, PTL DEF HistorySpec, UpgradeOnlyAfterPreHooks

-------------------------------------------------------------------------------
(***************************************************************************)
(* Completed nodes. As long as the target stands, every Job installs it, a *)
(* machine that runs it boots it again, and the only nodes recorded as     *)
(* completed, or taken for it by the pass under way, are machines seen to  *)
(* run it.                                                                 *)
(***************************************************************************)
TargetStands == "edit" \notin UserActions

OnTarget == {n \in Node : node[n].version = spec.target}

AtTarget ==
    /\ \A n \in Node : job[n].state = "running" => job[n].target = spec.target
    /\ \A n \in OnTarget : node[n].boot = spec.target
    /\ status.completed \subseteq OnTarget
    /\ unsaved \subseteq status.failed \cup OnTarget

TargetInv == SafeInv /\ AtTarget

\* What a pass may do to it.
LEMMA PassAtTarget ==
    ASSUME AtTarget, UNCHANGED <<node, spec>>,
           UNCHANGED job \/ \E S : job' = Without(S),
           status'.completed \subseteq status.completed \cup OnTarget,
           unsaved' \subseteq status'.failed \cup OnTarget
    PROVE  AtTarget'
<1>1. \A n \in Node : job'[n].state = "running" => job'[n] = job[n]
  BY DEF Without, NoJob
<1>2. OnTarget' = OnTarget
  BY DEF OnTarget
<1> QED
  BY <1>1, <1>2 DEF AtTarget

\* A pass that records nothing.
LEMMA IdleAtTarget ==
    ASSUME TargetInv, UNCHANGED <<node, spec, job>>,
           status'.completed = status.completed, status'.failed = status.failed,
           unsaved' \in {{}, unsaved}
    PROVE  AtTarget'
<1>1. /\ status'.completed \subseteq status.completed \cup OnTarget
      /\ unsaved' \subseteq status'.failed \cup OnTarget
  BY DEF TargetInv, AtTarget
<1> QED
  BY <1>1, PassAtTarget DEF TargetInv

LEMMA RestartedAtTarget ==
    ASSUME TargetInv, UNCHANGED <<node, spec, job>>, NEW cycles,
           status' = Restarted(cycles), unsaved' = {}
    PROVE  AtTarget'
BY PassAtTarget DEF TargetInv, Restarted

LEMMA OtherPassesAtTarget ==
    ASSUME TargetInv,
           \/ Annotations \/ Campaign \/ Hooks \/ Checks \/ ParkForClosedWindow
           \/ ParkInPending \/ WaitForJobs \/ JobsUnreadable \/ EndPass \/ AwaitHealth
           \/ EnterPreHook \/ BeginDrain \/ DrainFails \/ CrashInDrain \/ FinalizeFailed
    PROVE  AtTarget'
<1>0. status \in Status
  BY DEF TargetInv, SafeInv, TypeOK
<1>1. CASE PassReset
  <2>1. UNCHANGED <<node, spec, job>> /\ unsaved = {} /\ unsaved' = {}
    BY <1>1 DEF PassReset, Idle, inPass, objects
  <2>2. status' = Restarted(0) \/ UNCHANGED status
    BY <1>1 DEF PassReset
  <2> QED
    BY <2>1, <2>2, IdleAtTarget, RestartedAtTarget
<1>2. CASE PassSpecChange \/ RestartCampaign
  <2>1. /\ UNCHANGED <<node, spec, job>> /\ unsaved' = {}
        /\ status' = Restarted(0) \/ status' = Restarted(status.cycles + 1)
    BY <1>2 DEF PassSpecChange, RestartCampaign, WriteStatus, objects, users
  <2> QED
    BY <2>1, RestartedAtTarget
<1>3. CASE ~(PassReset \/ PassSpecChange \/ RestartCampaign)
  <2>1. UNCHANGED <<node, spec, job>> /\ unsaved' \in {{}, unsaved}
    BY <1>3
    DEF Annotations, PassSuspended, Campaign, GiveUp, RecheckFails, Hooks, StartHook,
        HandleHook, LeavePreHooks, LeavePostHooks, Checks, ParkOutsideWindow,
        WaitForOtherUpgrade, ParkForClosedWindow, ParkInPending, WaitForJobs,
        JobsUnreadable, EndPass, AwaitHealth, EnterPreHook, BeginDrain, DrainFails,
        CrashInDrain, FinalizeFailed, WriteStatus, objects, users, inPass
  <2>2. \/ UNCHANGED status
        \/ \E p : status' = InPhase(p)
        \/ status' = Stamped(InPhase("Pending"))
        \/ status' = Finalized(status)
        \/ \E k, i : status' = AtIndex(k, i)
        \/ status' = [status EXCEPT !.preHookFailed = TRUE, !.preHook = PreHooks]
    BY <1>3
    DEF Annotations, PassSuspended, Campaign, GiveUp, RecheckFails, Hooks, StartHook,
        HandleHook, LeavePreHooks, LeavePostHooks, Checks, ParkOutsideWindow,
        WaitForOtherUpgrade, ParkForClosedWindow, ParkInPending, WaitForJobs,
        JobsUnreadable, EndPass, AwaitHealth, EnterPreHook, BeginDrain, DrainFails,
        CrashInDrain, FinalizeFailed, WriteStatus
  <2>3. /\ status'.completed = status.completed
        /\ status'.failed = status.failed
    BY <1>0, <2>2 DEF InPhase, Stamped, Finalized, AtIndex, Status
  <2> QED
    BY <2>1, <2>3, IdleAtTarget
<1> QED
  BY <1>1, <1>2, <1>3

LEMMA VerifiedOnTarget ==
    ASSUME TypeOK
    PROVE  /\ BatchGood \subseteq OnTarget /\ RebootGood \subseteq OnTarget
           /\ UnreachableNodes = {} /\ PendingNodes = {} => OutOfBand \subseteq OnTarget
<1>1. ActiveJobs \subseteq Node /\ Rebooted \subseteq Node /\ joined \subseteq Node
  BY DEF TypeOK, Status, ActiveJobs, Rebooted
<1>2. BatchGood \subseteq OnTarget /\ RebootGood \subseteq OnTarget
  BY <1>1 DEF BatchGood, RebootGood, Verified, OnTarget
<1>3. UnreachableNodes = {} /\ PendingNodes = {} => OutOfBand \subseteq OnTarget
  BY <1>1 DEF UnreachableNodes, PendingNodes, OutOfBand, Mismatched, OnTarget
<1> QED
  BY <1>2, <1>3

LEMMA LandedAtTarget ==
    ASSUME TargetInv, NEW good \in SUBSET OnTarget, NEW bad, NEW track, NEW cut, NEW phase,
           Landed(good, bad, track, cut, phase),
           unsaved' = unsaved \/ unsaved' \subseteq status'.failed \cup OnTarget
    PROVE  AtTarget'
<1>1. /\ UNCHANGED <<node, spec>>
      /\ \E S : job' = Without(S)
      /\ status' = [Outcome(good, bad, track, NoLoss) EXCEPT !.phase = phase]
  BY DEF Landed, users
<1>2. /\ status'.completed = status.completed \cup good
      /\ status'.failed = status.failed \cup bad
  BY <1>1, OutcomeFields DEF TargetInv, SafeInv, TypeOK, Status
<1>3. unsaved' \subseteq status'.failed \cup OnTarget
  BY <1>2 DEF TargetInv, AtTarget
<1> QED
  BY <1>1, <1>2, <1>3, PassAtTarget DEF TargetInv

LEMMA BatchAtTarget ==
    ASSUME TargetInv, HandleFinishedBatch \/ InterruptFinishedBatch
    PROVE  AtTarget'
<1>1. CASE HandleFinishedBatch
  <2>1. PICK offTarget \in SUBSET MayHaveFailed, lost \in Losses(ActiveJobs) :
          /\ Record(BatchGood, BatchBad(offTarget), lost)
          /\ status' = [Outcome(BatchGood, BatchBad(offTarget), BatchWaiting(offTarget), lost)
                          EXCEPT !.phase = BatchPhase(offTarget)]
    BY <1>1 DEF HandleFinishedBatch
  <2>2. /\ status'.completed = status.completed \cup BatchGood
        /\ status'.failed = status.failed \cup BatchBad(offTarget)
    BY <2>1, OutcomeFields DEF TargetInv, SafeInv, TypeOK, Status
  <2>3. UNCHANGED <<node, spec, unsaved>> /\ \E S : job' = Without(S)
    BY <1>1, <2>1 DEF HandleFinishedBatch, inPass, users, Record
  <2>4. /\ status'.completed \subseteq status.completed \cup OnTarget
        /\ unsaved' \subseteq status'.failed \cup OnTarget
    BY <2>2, <2>3, VerifiedOnTarget DEF TargetInv, AtTarget, SafeInv
  <2> QED
    BY <2>3, <2>4, PassAtTarget DEF TargetInv
<1>2. CASE InterruptFinishedBatch
  <2>1. \E good \in SUBSET BatchGood : \E bad, track, cut :
          Landed(good, bad, track, cut, status.phase)
    BY <1>2 DEF InterruptFinishedBatch
  <2> QED
    BY <1>2, <2>1, VerifiedOnTarget, LandedAtTarget
    DEF InterruptFinishedBatch, TargetInv, SafeInv
<1> QED
  BY <1>1, <1>2

LEMMA RebootsAtTarget ==
    ASSUME TargetInv, ProcessReboots \/ InterruptReboots \/ \E n \in Node : OutcomeUnsaved(n)
    PROVE  AtTarget'
<1>0. AwaitingReboots /\ unsaved = {}
  BY DEF ProcessReboots, JudgeReboots, InterruptReboots, OutcomeUnsaved, AwaitingReboots, Idle
<1>1. RebootGood \subseteq OnTarget /\ status.completed \subseteq OnTarget
  BY VerifiedOnTarget DEF TargetInv, SafeInv, AtTarget
<1>2. \A denied : RebootWaiting(denied) = {} =>
        status.rebooting \subseteq status.failed \cup RebootBad(denied) \cup OnTarget
  BY <1>0, <1>1 DEF RebootWaiting, Rebooted, Resolved
<1>3. CASE ProcessReboots
  <2>1. PICK denied \in SUBSET MayBeDenied, lost \in Losses(status.rebooting) :
          LET bad == RebootBad(denied)
              waiting == RebootWaiting(denied)
              outcome == Outcome(RebootGood, bad, {}, lost) IN
          /\ Record(RebootGood, bad, lost)
          /\ status' = [outcome EXCEPT
                          !.rebooting = @ \ (Resolved \ lost.track),
                          !.phase = IF waiting # {} THEN "Rebooting" ELSE @]
          /\ unsaved' = IF waiting # {} THEN {} ELSE status'.rebooting
    BY <1>3 DEF ProcessReboots, JudgeReboots
  <2>2. /\ status'.completed = status.completed \cup RebootGood
        /\ status'.failed = status.failed \cup RebootBad(denied)
        /\ status'.rebooting \subseteq status.rebooting
    BY <2>1, OutcomeFields DEF Outcome, TargetInv, SafeInv, TypeOK, Status
  <2>3. UNCHANGED <<node, spec>> /\ \E S : job' = Without(S)
    BY <1>3, <2>1 DEF ProcessReboots, JudgeReboots, users, Record
  <2>4. unsaved' \subseteq status'.failed \cup OnTarget
    BY <1>2, <2>1, <2>2
  <2>5. status'.completed \subseteq status.completed \cup OnTarget
    BY <1>1, <2>2
  <2> QED
    BY <2>3, <2>4, <2>5, PassAtTarget DEF TargetInv
<1>4. CASE InterruptReboots
  <2>1. PICK denied, done : \E cut :
          Landed(done \cap RebootGood, done \ RebootGood, {}, cut, status.phase)
    BY <1>4 DEF InterruptReboots
  <2>2. unsaved' = unsaved
    BY <1>4 DEF InterruptReboots
  <2>3. done \cap RebootGood \in SUBSET OnTarget
    BY <1>1
  <2> QED
    BY <2>1, <2>2, <2>3, LandedAtTarget
<1>5. ASSUME NEW n \in Node, OutcomeUnsaved(n) PROVE AtTarget'
  <2>1. PICK denied \in SUBSET MayBeDenied : \E phase :
          /\ Landed(RebootGood \ {n}, RebootBad(denied) \ {n}, {}, {n}, phase)
          /\ \/ unsaved' = {}
             \/ /\ unsaved' = status'.rebooting
                /\ RebootWaiting(denied) = {}
                /\ status.failed \cup RebootBad(denied) = {}
    BY <1>5 DEF OutcomeUnsaved
  <2>2. PICK phase :
          /\ Landed(RebootGood \ {n}, RebootBad(denied) \ {n}, {}, {n}, phase)
          /\ \/ unsaved' = {}
             \/ /\ unsaved' = status'.rebooting
                /\ RebootWaiting(denied) = {}
                /\ status.failed \cup RebootBad(denied) = {}
    BY <2>1
  <2>3. status'.rebooting \subseteq status.rebooting
    <3>1. status' = [Outcome(RebootGood \ {n}, RebootBad(denied) \ {n}, {}, NoLoss)
                       EXCEPT !.phase = phase]
      BY <2>2 DEF Landed
    <3> QED
      BY <3>1 DEF Outcome, TargetInv, SafeInv, TypeOK, Status
  <2>4. unsaved' \subseteq OnTarget
    BY <1>2, <2>2, <2>3
  <2>5. RebootGood \ {n} \in SUBSET OnTarget
    BY <1>1
  <2> QED
    BY <2>2, <2>4, <2>5, LandedAtTarget
<1> QED
  BY <1>3, <1>4, <1>5

LEMMA StartAtTarget ==
    ASSUME TargetInv, StartBatch \/ InterruptStartBatch
    PROVE  AtTarget'
<1>1. PICK batch, created : \E labelled : StartJobs(batch, created, labelled)
  BY DEF StartBatch, InterruptStartBatch
<1>2. status' = status \/ \E p : status' = InPhase(p)
  BY DEF StartBatch, InterruptStartBatch
<1>3. status'.completed = status.completed
  BY <1>2 DEF InPhase, TargetInv, SafeInv, TypeOK, Status
<1>4. /\ UNCHANGED <<node, spec>> /\ unsaved' = {}
      /\ \A n \in Node : \/ job'[n] = job[n]
                         \/ job'[n] = [state |-> "running", target |-> spec.target]
  BY <1>1 DEF StartJobs, users
<1>5. \A n \in Node : job'[n].state = "running" => job'[n].target = spec'.target
  BY <1>4 DEF TargetInv, AtTarget
<1>6. OnTarget' = OnTarget
  BY <1>4 DEF OnTarget
<1> QED
  BY <1>3, <1>4, <1>5, <1>6 DEF TargetInv, AtTarget

LEMMA FinishAtTarget ==
    ASSUME TargetInv, FinishRun \/ FinishWaits \/ InterruptFinishRun
    PROVE  AtTarget'
<1>1. UnreachableNodes = {} /\ PendingNodes = {} /\ status.failed = {}
  BY DEF FinishRun, FinishWaits, InterruptFinishRun, NothingPending, Selecting
<1>2. UNCHANGED <<node, spec, job>> /\ unsaved' = {}
  BY DEF FinishRun, FinishWaits, InterruptFinishRun, RecordOutOfBand, users
<1>3. OutOfBand \cup unsaved \subseteq OnTarget
  BY <1>1, VerifiedOnTarget DEF TargetInv, SafeInv, AtTarget
<1>4. /\ WithOutOfBand \in Status
      /\ WithOutOfBand.completed \subseteq status.completed \cup OnTarget
  BY <1>3, OutOfBandType DEF WithOutOfBand, TargetInv, SafeInv, TypeOK, Status
<1>5. \/ status' \in {Finalized(WithOutOfBand), WithOutOfBand, Finalized(status)}
      \/ status' = InPhase("HealthChecking")
      \/ status' = [WithOutOfBand EXCEPT !.phase = "HealthChecking"]
  BY DEF FinishRun, FinishWaits, InterruptFinishRun
<1>6. status'.completed \subseteq status.completed \cup OnTarget
  BY <1>4, <1>5 DEF Finalized, InPhase, TargetInv, SafeInv, TypeOK, Status
<1> QED
  BY <1>2, <1>6, PassAtTarget DEF TargetInv

LEMMA ClusterAtTarget ==
    ASSUME TargetInv, Cluster
    PROVE  AtTarget'
<1>0. UNCHANGED <<status, unsaved, spec>>
  BY DEF Cluster, JobAccepted, JobSucceeds, JobFails, JobExpires, Reboot, InstallFails,
         Return, Rejoin, Outage, DeadlinePasses, NodeActs, OnlyNode, OnlyJob, HookFinishes,
         HookExpires, HookActs, WindowMoves, users, inPass
<1>1. /\ node \in [Node -> [version : Version, boot : Version, state : NodeState]]
      /\ job \in [Node -> [state : JobState, target : Version]]
  BY DEF TargetInv, SafeInv, TypeOK
<1>2. ASSUME \A n \in Node : /\ job'[n].state = "running" => job'[n] = job[n]
                             /\ n \in OnTarget => /\ node'[n].version = spec.target
                                                  /\ node'[n].boot = spec.target
                             /\ node'[n].version = spec.target => node'[n].boot = spec.target
      PROVE  AtTarget'
  <2>1. OnTarget \subseteq OnTarget'
    BY <1>0, <1>2 DEF OnTarget
  <2> QED
    BY <1>0, <1>2, <2>1 DEF TargetInv, AtTarget, OnTarget
<1>3. CASE UNCHANGED <<node, job>>
  BY <1>3, <1>2 DEF TargetInv, AtTarget, OnTarget
<1>4. ASSUME NEW n \in Node,
             JobSucceeds(n) \/ JobFails(n) \/ JobExpires(n)
      PROVE  AtTarget'
  <2>1. UNCHANGED node
    BY <1>4 DEF JobSucceeds, JobFails, JobExpires, OnlyJob
  <2>2. \A m \in Node : job'[m].state = "running" => job'[m] = job[m]
    BY <1>1, <1>4 DEF JobSucceeds, JobFails, JobExpires, JobActs, NoJob
  <2> QED
    BY <1>2, <2>1, <2>2 DEF TargetInv, AtTarget, OnTarget
<1>5. ASSUME NEW n \in Node, JobAccepted(n)
      PROVE  AtTarget'
  <2>1. /\ job[n].target = spec.target
        /\ node' = [node EXCEPT ![n].state = "staged", ![n].boot = job[n].target]
    BY <1>5 DEF JobAccepted, TargetInv, AtTarget
  <2>2. \A m \in Node : job'[m].state = "running" => job'[m] = job[m]
    BY <1>1, <1>5 DEF JobAccepted, JobActs
  <2>3. \A m \in Node : /\ node'[m].version = node[m].version
                        /\ node'[m].boot \in {node[m].boot, spec.target}
    BY <1>1, <2>1
  <2> QED
    BY <1>2, <2>2, <2>3 DEF TargetInv, AtTarget, OnTarget
<1>6. ASSUME NEW n \in Node,
             Reboot(n) \/ InstallFails(n) \/ Return(n) \/ Rejoin(n) \/ Outage(n)
      PROVE  AtTarget'
  <2>1. UNCHANGED job
    BY <1>6 DEF Reboot, InstallFails, Return, Rejoin, Outage, OnlyNode, objects
  <2>2. /\ \A m \in Node \ {n} : node'[m] = node[m]
        /\ \/ /\ node'[n].version = node[n].version
              /\ node'[n].boot \in {node[n].boot, node[n].version}
           \/ node'[n].version = node[n].boot /\ node'[n].boot = node[n].boot
    BY <1>1, <1>6 DEF Reboot, InstallFails, Return, Rejoin, Outage, NodeActs
  <2> QED
    BY <1>2, <2>1, <2>2 DEF TargetInv, AtTarget, OnTarget
<1>7. CASE \/ \E n \in Node : DeadlinePasses(n)
           \/ \E h \in Hook : HookFinishes(h) \/ HookExpires(h)
           \/ WindowMoves
  <2>1. UNCHANGED <<node, job>>
    BY <1>7 DEF DeadlinePasses, HookFinishes, HookExpires, HookActs, WindowMoves, objects
  <2> QED
    BY <1>3, <2>1
<1> QED
  BY <1>4, <1>5, <1>6, <1>7 DEF Cluster

\* The target changes only by an edit.
LEMMA UsersAtTarget ==
    ASSUME AtTarget, TargetStands, Users
    PROVE  AtTarget'
BY DEF Users, TargetStands, ToggleSuspend, RequestReset, EditSpec, JoinNode, OnlyUsers,
       inPass, objects, AtTarget, OnTarget

LEMMA TargetHolds == TargetStands /\ Spec => [](SafeInv /\ AtTarget)
<1>1. SUFFICES ASSUME TargetStands PROVE Spec => [](SafeInv /\ AtTarget)
  OBVIOUS
<1>2. Init => SafeInv /\ AtTarget
  <2>1. Init => AtTarget
    BY TargetsAssumption DEF Init, AtTarget, OnTarget, NoJob
  <2> QED
    BY <2>1, InitType, InitSafe DEF SafeInv
<1>3. SafeInv /\ AtTarget /\ [Next]_vars => (SafeInv /\ AtTarget)'
  <2> SUFFICES ASSUME SafeInv, AtTarget, [Next]_vars PROVE SafeInv' /\ AtTarget'
    OBVIOUS
  <2>1. SafeInv'
    BY NextType, NextSafe DEF SafeInv
  <2>2. TargetInv
    BY DEF TargetInv
  <2>3. CASE UNCHANGED vars
    BY <2>1, <2>3 DEF vars, AtTarget, OnTarget, users, objects, inPass
  <2>4. CASE Pass
    BY <2>1, <2>2, <2>4, OtherPassesAtTarget, BatchAtTarget, RebootsAtTarget, StartAtTarget,
       FinishAtTarget
    DEF Pass, BatchJobs, Reboots, StartOfBatch, EndOfRun
  <2>5. CASE Cluster
    BY <2>1, <2>2, <2>5, ClusterAtTarget
  <2>6. CASE Users
    BY <2>1, <1>1, <2>6, UsersAtTarget
  <2> QED
    BY <2>1, <2>3, <2>4, <2>5, <2>6 DEF Next
<1> QED
  BY <1>2, <1>3, PTL DEF Spec

(***************************************************************************)
(* Unless a user edits the spec, every node a run has recorded as          *)
(* completed runs the target: whatever fails, whoever suspends or resets   *)
(* the run, and although the outcome is read from a machine that may have  *)
(* accepted an upgrade and be about to reboot (verifyNodeUpgrade).         *)
(***************************************************************************)
THEOREM CompletedMeansUpgraded == TargetStands /\ Spec => []CompletedAtTarget
<1>1. SafeInv /\ AtTarget => CompletedAtTarget
  BY DEF AtTarget, OnTarget, CompletedAtTarget
<1> QED
  BY <1>1, TargetHolds, PTL

-------------------------------------------------------------------------------
(***************************************************************************)
(* Runs in which no write is lost and no process dies. Whatever users do,  *)
(* the nodes with a mark (a label, a cordon) are selected nodes without an *)
(* outcome: a run that ends well has recorded an outcome for every         *)
(* selected node, and cleared its marks as it did.                         *)
(***************************************************************************)
NoFaults == MaxFaults = 0

Marks ==
    /\ unsaved = {}
    /\ draining \subseteq joined
    /\ label \cup cordoned \subseteq joined \ status.completed
    /\ ~DrainOwned => cordoned = {}
    /\ EndsWell(status) => cordoned = {} /\ label = {} /\ status.rebooting = {}

MarksInv == CampaignInv /\ Marks /\ NoFaults

LEMMA NoFault ==
    ASSUME TypeOK, NoFaults
    PROVE  ~Fault /\ \A lost : Spend(lost) => lost = NoLoss
<1>1. ~Fault
  BY DEF Fault, TypeOK, NoFaults
<1> QED
  BY <1>1 DEF Spend

\* The passes that only a fault makes do not happen.
FaultyPass ==
    \/ RecheckFails \/ JobsUnreadable \/ InterruptFinishedBatch \/ InterruptReboots
    \/ CrashInDrain \/ InterruptStartBatch \/ InterruptFinishRun
    \/ \E n \in Node : OutcomeUnsaved(n) \/ Outage(n)

LEMMA NoFaultyPass ==
    ASSUME TypeOK, NoFaults
    PROVE  ~FaultyPass
BY NoFault DEF FaultyPass, RecheckFails, JobsUnreadable, InterruptFinishedBatch,
     InterruptReboots, CrashInDrain, InterruptStartBatch, InterruptFinishRun,
     OutcomeUnsaved, Outage

LEMMA MarksKept ==
    ASSUME Marks, unsaved' = {}, draining' \subseteq draining,
           label' \subseteq label, cordoned' \subseteq cordoned, joined \subseteq joined',
           status'.completed \subseteq status.completed,
           EndsWell(status') => EndsWell(status) /\ status'.rebooting = status.rebooting
    PROVE  Marks'
BY DEF Marks

\* The passes that go nowhere near the end of a run, or start it over.
LEMMA OtherPassesMarks ==
    ASSUME MarksInv,
           \/ Annotations \/ Campaign \/ Checks \/ ParkForClosedWindow \/ ParkInPending
           \/ WaitForJobs \/ AwaitHealth \/ EnterPreHook \/ DrainFails \/ FinalizeFailed
    PROVE  Marks'
<1>0. status \in Status /\ unsaved = {} /\ ~Fault /\ ~RecheckFails
  BY NoFault, NoFaultyPass DEF MarksInv, CampaignInv, SafeInv, TypeOK, Marks, FaultyPass
<1>1. UNCHANGED <<label, joined>> /\ unsaved' = {} /\ draining' \subseteq draining
  BY <1>0
  DEF Annotations, PassSuspended, PassReset, PassSpecChange, Campaign, RestartCampaign,
      GiveUp, Checks, ParkOutsideWindow, WaitForOtherUpgrade, ParkForClosedWindow,
      ParkInPending, WaitForJobs, AwaitHealth, EnterPreHook, DrainFails, FinalizeFailed,
      WriteStatus, inPass, objects, users
<1>2. cordoned' \subseteq cordoned
  BY <1>0
  DEF Annotations, PassSuspended, PassReset, PassSpecChange, Campaign, RestartCampaign,
      GiveUp, Checks, ParkOutsideWindow, WaitForOtherUpgrade, ParkForClosedWindow,
      ParkInPending, WaitForJobs, AwaitHealth, EnterPreHook, DrainFails, FinalizeFailed,
      WriteStatus, objects
<1>3. \/ UNCHANGED status
      \/ status' = Restarted(0)
      \/ status' = Restarted(status.cycles + 1)
      \/ status' = Stamped(InPhase("Pending"))
      \/ \E p \in Phase \ {"PostHook", "Completed"} : status' = InPhase(p)
      \/ status' = Finalized(status) /\ status.failed # {}
  BY <1>0
  DEF Annotations, PassSuspended, PassReset, PassSpecChange, Campaign, RestartCampaign,
      GiveUp, Checks, ParkOutsideWindow, WaitForOtherUpgrade, ParkForClosedWindow,
      ParkInPending, WaitForJobs, AwaitHealth, EnterPreHook, DrainFails, FinalizeFailed,
      WriteStatus, Phase
<1>4. /\ status'.completed \subseteq status.completed
      /\ EndsWell(status') => UNCHANGED status
  <2>1. CASE status' = Restarted(0) \/ status' = Restarted(status.cycles + 1)
    BY <2>1 DEF Restarted, EndsWell
  <2>2. CASE \E p \in Phase \ {"PostHook", "Completed"} : status' = InPhase(p)
    BY <1>0, <2>2 DEF InPhase, Status, EndsWell
  <2>3. CASE status' = Stamped(InPhase("Pending"))
    BY <1>0, <2>3 DEF InPhase, Stamped, Status, EndsWell
  <2>4. CASE status' = Finalized(status) /\ status.failed # {}
    BY <1>0, <2>4 DEF Finalized, Status, EndsWell
  <2> QED
    BY <1>3, <2>1, <2>2, <2>3, <2>4
<1> QED
  BY <1>1, <1>2, <1>4, MarksKept DEF MarksInv

LEMMA HooksMarks ==
    ASSUME MarksInv, Hooks
    PROVE  Marks'
<1>0. status \in Status /\ unsaved = {}
  BY DEF MarksInv, CampaignInv, SafeInv, TypeOK, Marks
<1>1. UNCHANGED <<label, cordoned, joined, draining>> /\ unsaved' = {}
  BY <1>0
  DEF Hooks, StartHook, HandleHook, LeavePreHooks, LeavePostHooks, WriteStatus, inPass,
      objects, users
<1>2. \/ UNCHANGED status
      \/ status' = InPhase("Pending")
      \/ \E k, i : status' = AtIndex(k, i)
      \/ status' = [status EXCEPT !.preHookFailed = TRUE, !.preHook = PreHooks]
      \/ status' = Finalized(status) /\ status.preHookFailed
      \/ status' = InPhase(FinalPhase(status)) /\ status.phase = "PostHook"
  BY DEF Hooks, StartHook, HandleHook, LeavePreHooks, LeavePostHooks, WriteStatus,
         InHookPhase, HookPhase
<1>3. /\ status'.completed = status.completed /\ status'.rebooting = status.rebooting
      /\ EndsWell(status') => EndsWell(status)
  BY <1>0, <1>2 DEF InPhase, Finalized, FinalPhase, AtIndex, Status, EndsWell
<1> QED
  BY <1>1, <1>3, MarksKept DEF MarksInv

LEMMA ElsewhereMarks ==
    ASSUME MarksInv, Cluster \/ Users
    PROVE  Marks'
<1>1. UNCHANGED <<status, draining, unsaved>>
  BY ElsewhereRests DEF MarksInv, CampaignInv
<1>2. UNCHANGED <<label, cordoned>> /\ joined \subseteq joined'
  BY DEF inPass, Cluster, JobAccepted, JobSucceeds, JobFails, JobExpires, OnlyJob, Reboot,
         InstallFails, Return, Rejoin, OnlyNode, Outage, DeadlinePasses, HookFinishes,
         HookExpires, HookActs, WindowMoves, Users, ToggleSuspend, RequestReset,
         EditSpec, JoinNode, OnlyUsers, objects, users
<1> QED
  BY <1>1, <1>2, MarksKept DEF MarksInv, Marks

\* Every write of a pass that records outcomes lands.
LEMMA BatchRecorded ==
    ASSUME MarksInv, HandleFinishedBatch
    PROVE  \E offTarget \in SUBSET MayHaveFailed :
             /\ Record(BatchGood, BatchBad(offTarget), NoLoss)
             /\ status' = [Outcome(BatchGood, BatchBad(offTarget), BatchWaiting(offTarget),
                                   NoLoss) EXCEPT !.phase = BatchPhase(offTarget)]
BY NoFault DEF HandleFinishedBatch, MarksInv, CampaignInv, SafeInv

LEMMA RebootsRecorded ==
    ASSUME MarksInv, ProcessReboots
    PROVE  \E denied \in SUBSET MayBeDenied :
             /\ Record(RebootGood, RebootBad(denied), NoLoss)
             /\ status' = [Outcome(RebootGood, RebootBad(denied), {}, NoLoss) EXCEPT
                             !.rebooting = @ \ Resolved,
                             !.phase = IF RebootWaiting(denied) # {} THEN "Rebooting" ELSE @]
             /\ unsaved' = IF RebootWaiting(denied) # {} THEN {} ELSE status'.rebooting
<1>1. PICK denied \in SUBSET MayBeDenied, lost \in Losses(status.rebooting) :
        LET bad == RebootBad(denied)
            waiting == RebootWaiting(denied)
            outcome == Outcome(RebootGood, bad, {}, lost) IN
        /\ Record(RebootGood, bad, lost)
        /\ status' = [outcome EXCEPT
                        !.rebooting = @ \ (Resolved \ lost.track),
                        !.phase = IF waiting # {} THEN "Rebooting" ELSE @]
        /\ Spend(lost)
        /\ unsaved' = IF waiting # {} THEN {} ELSE status'.rebooting
  BY DEF ProcessReboots, JudgeReboots
<1>2. lost = NoLoss
  BY <1>1, NoFault DEF MarksInv, CampaignInv, SafeInv
<1>3. Resolved \ NoLoss.track = Resolved
  BY DEF NoLoss
<1> QED
  BY <1>1, <1>2, <1>3

LEMMA RecordMarks ==
    ASSUME MarksInv, NEW good, NEW bad, Record(good, bad, NoLoss),
           UNCHANGED <<draining, joined>>, unsaved' = {},
           status'.completed = status.completed \cup good, ~EndsWell(status')
    PROVE  Marks'
<1>1. /\ label' = label \ (good \cup bad)
      /\ cordoned' = Uncordoned(good)
  BY DEF Record, NoLoss
<1>2. ~DrainOwned => cordoned = {}
  BY DEF MarksInv, Marks
<1>3. (label \cup cordoned)' \subseteq joined' \ status'.completed
  BY <1>1, <1>2 DEF MarksInv, Marks, Uncordoned
<1>4. ~DrainOwned => cordoned' = {}
  BY <1>1, <1>2 DEF Uncordoned
<1> QED
  BY <1>3, <1>4 DEF MarksInv, Marks

LEMMA OutcomesMarks ==
    ASSUME MarksInv, HandleFinishedBatch \/ ProcessReboots
    PROVE  Marks'
<1>0. status \in Status /\ unsaved = {} /\ SafeInv
  BY DEF MarksInv, CampaignInv, SafeInv, TypeOK, Marks
<1>1. CASE HandleFinishedBatch
  <2>1. PICK offTarget \in SUBSET MayHaveFailed :
          /\ Record(BatchGood, BatchBad(offTarget), NoLoss)
          /\ status' = [Outcome(BatchGood, BatchBad(offTarget), BatchWaiting(offTarget), NoLoss)
                          EXCEPT !.phase = BatchPhase(offTarget)]
    BY <1>1, BatchRecorded
  <2>2. status.phase \notin {"Completed", "PostHook"}
    BY <1>1 DEF HandleFinishedBatch, BatchFinished, Admitted, Working
  <2>3. status'.completed = status.completed \cup BatchGood
    BY <1>0, <2>1, OutcomeFields DEF Status
  <2>4. status'.phase = BatchPhase(offTarget)
    BY <1>0, <2>1, OutcomeFields DEF Status
  <2>5. ~EndsWell(status')
    BY <2>2, <2>4 DEF BatchPhase, EndsWell
  <2>6. UNCHANGED <<draining, joined, unsaved>>
    BY <1>1 DEF HandleFinishedBatch, users, inPass
  <2> QED
    BY <1>0, <2>1, <2>3, <2>5, <2>6, RecordMarks
<1>2. CASE ProcessReboots
  <2>1. PICK denied \in SUBSET MayBeDenied :
          /\ Record(RebootGood, RebootBad(denied), NoLoss)
          /\ status' = [Outcome(RebootGood, RebootBad(denied), {}, NoLoss) EXCEPT
                          !.rebooting = @ \ Resolved,
                          !.phase = IF RebootWaiting(denied) # {} THEN "Rebooting" ELSE @]
          /\ unsaved' = IF RebootWaiting(denied) # {} THEN {} ELSE status'.rebooting
    BY <1>2, RebootsRecorded
  <2>2. status.phase \notin {"Completed", "PostHook"} /\ unsaved = {}
    BY <1>2 DEF ProcessReboots, JudgeReboots, AwaitingReboots, Idle, Admitted, Working
  <2>3. status'.completed = status.completed \cup RebootGood
    BY <1>0, <2>1, OutcomeFields DEF Status
  <2>4. status'.phase \in {"Rebooting", status.phase}
    BY <1>0, <2>1, OutcomeFields DEF Status
  <2>5. ~EndsWell(status')
    BY <2>2, <2>4 DEF EndsWell
  <2>6. status'.rebooting = RebootWaiting(denied)
    <3>1. status'.rebooting =
            (status.rebooting \ (RebootGood \cup RebootBad(denied))) \ Resolved
      BY <1>0, <2>1 DEF Outcome, NoLoss, Status
    <3> QED
      BY <3>1 DEF RebootWaiting, Rebooted
  <2>7. UNCHANGED <<draining, joined>> /\ unsaved' = {}
    BY <1>2, <2>1, <2>6 DEF ProcessReboots, JudgeReboots, users
  <2> QED
    BY <2>1, <2>3, <2>5, <2>7, RecordMarks
<1> QED
  BY <1>1, <1>2

LEMMA PendingSelected == NextBatchOf(PendingNodes) \subseteq joined
BY DEF NextBatchOf, PendingNodes

LEMMA StartMarks ==
    ASSUME MarksInv, BeginDrain \/ StartBatch
    PROVE  Marks'
<1>0. status \in Status /\ SafeInv
  BY DEF MarksInv, CampaignInv, SafeInv, TypeOK
<1>1. CASE BeginDrain
  <2>1. /\ UNCHANGED <<label, cordoned, joined>> /\ unsaved' = {}
        /\ draining' \subseteq joined
        /\ status' = InPhase("Draining")
    BY <1>1, PendingSelected DEF BeginDrain, objects, users
  <2> QED
    BY <1>0, <2>1 DEF MarksInv, Marks, InPhase, Status, EndsWell
<1>2. CASE StartBatch
  <2>1. StartJobs(StartableBatch, StartableBatch, StartableBatch)
    BY <1>2, NoFault DEF StartBatch, MarksInv, CampaignInv, SafeInv
  <2>2. StartableBatch \subseteq joined /\ StartableBatch \cap Resolved = {}
    BY <1>0, <1>2, PendingSelected, StartableBatchSafe
    DEF StartBatch, StartableBatch, MarksInv, Marks
  <2>3. /\ label' = label \cup StartableBatch
        /\ cordoned' = IF DrainOwned THEN cordoned \cup StartableBatch ELSE cordoned
        /\ draining' = {} /\ unsaved' = {} /\ joined' = joined
    BY <2>1 DEF StartJobs, users
  <2>4. status'.phase = "Upgrading" /\ status'.completed = status.completed
    BY <1>0, <1>2 DEF StartBatch, InPhase, Status
  <2> QED
    BY <2>2, <2>3, <2>4 DEF MarksInv, Marks, Resolved, EndsWell
<1> QED
  BY <1>1, <1>2

LEMMA FinishMarks ==
    ASSUME MarksInv, FinishRun \/ FinishWaits
    PROVE  Marks'
<1>0. status \in Status /\ unsaved = {} /\ ~Fault
  BY NoFault DEF MarksInv, CampaignInv, SafeInv, TypeOK, Marks
<1>1. RecordOutOfBand({}) /\ status.failed = {} /\ status.rebooting = {}
  BY <1>0 DEF FinishRun, FinishWaits, NothingPending, Selecting
<1>2. /\ WithOutOfBand.completed = status.completed \cup OutOfBand
      /\ WithOutOfBand.rebooting = status.rebooting /\ WithOutOfBand \in Status
  BY <1>0, OutOfBandType DEF WithOutOfBand, Status, MarksInv, CampaignInv, SafeInv
<1>3. /\ status'.completed = status.completed \cup OutOfBand
      /\ status'.rebooting = {}
  BY <1>1, <1>2 DEF FinishRun, FinishWaits, Finalized, Status
<1>4. OutOfBand = joined \ status.completed
  BY <1>0, <1>1 DEF OutOfBand, Resolved
<1>5. label' = {} /\ cordoned' = {}
  <2>1. label' = label \ OutOfBand /\ cordoned' = Uncordoned(OutOfBand)
    BY <1>1 DEF RecordOutOfBand
  <2> QED
    BY <1>4, <2>1 DEF MarksInv, Marks, Uncordoned
<1>6. UNCHANGED <<draining, joined>> /\ unsaved' = {}
  BY <1>1 DEF RecordOutOfBand, users
<1> QED
  BY <1>3, <1>5, <1>6 DEF MarksInv, Marks

LEMMA MarksHold == NoFaults /\ Spec => []MarksInv
<1>1. SUFFICES ASSUME NoFaults PROVE Spec => []MarksInv
  OBVIOUS
<1>2. Init => MarksInv
  <2>1. Init => Marks
    BY DEF Init, Marks, EndsWell, NoPhase
  <2> QED
    BY <1>1, <2>1, InitType, InitSafe, InitCampaign DEF MarksInv, CampaignInv, SafeInv
<1>3. MarksInv /\ [Next]_vars => MarksInv'
  <2> SUFFICES ASSUME MarksInv, [Next]_vars PROVE Marks' /\ CampaignInv'
    BY DEF MarksInv, NoFaults
  <2>1. CampaignInv'
    BY NextType, NextSafe, NextCampaign DEF MarksInv, CampaignInv, SafeInv
  <2>2. CASE UNCHANGED vars
    BY <2>1, <2>2 DEF vars, objects, users, inPass, Marks, MarksInv
  <2>3. CASE Cluster \/ Users
    BY <2>1, <2>3, ElsewhereMarks
  <2>4. ~FaultyPass /\ ~EndPass
    BY NoFaultyPass DEF MarksInv, CampaignInv, SafeInv, Marks, EndPass
  <2>5. CASE Pass
    BY <2>1, <2>4, <2>5, OtherPassesMarks, HooksMarks, OutcomesMarks, StartMarks, FinishMarks
    DEF Pass, BatchJobs, Reboots, StartOfBatch, EndOfRun, FaultyPass
  <2> QED
    BY <2>1, <2>2, <2>3, <2>5 DEF Next
<1> QED
  BY <1>2, <1>3, PTL DEF Spec

(***************************************************************************)
(* Without faults a run that ends Completed leaves no node cordoned,       *)
(* labelled or waited for (completeNodeUpgrade for the nodes a pass judges,*)
(* finishRun for those whose Job expired before a pass could look at it),  *)
(* whatever users do to the run on its way.                                *)
(***************************************************************************)
THEOREM CompletedIsClean == NoFaults /\ Spec => []CompletedLeavesNoMarks
<1>1. MarksInv => CompletedLeavesNoMarks
  BY DEF MarksInv, CampaignInv, SafeInv, Safe, CompletedHidesNoFailure, Marks, EndsWell,
         CompletedLeavesNoMarks
<1> QED
  BY <1>1, MarksHold, PTL

-------------------------------------------------------------------------------
(***************************************************************************)
(* Machines that are away. A node is exposed while its Job is unfinished   *)
(* or its machine is anything but up: the next batch finds nothing         *)
(* exposed, because the health gate waits for every machine that has gone  *)
(* down, and a machine that has accepted an upgrade and not rebooted yet   *)
(* still has its Job or belongs to a run that has failed. A reset or an    *)
(* edit forgets that Job's run, and so does an expired Job whose machine   *)
(* takes longer than the Job's TTL to reboot.                              *)
(***************************************************************************)
RunsOut == PromptReboots /\ "reset" \notin UserActions /\ "edit" \notin UserActions

Exposed == {n \in Node : Unfinished(job[n]) \/ node[n].state # "up"}
Staged == {n \in Node : node[n].state = "staged"}

\* A Job that runs has its machine before it, which is not at the target yet.
JobsAhead ==
    \A n \in Node :
        job[n].state = "running" => node[n].state = "up" /\ node[n].version # spec.target

\* A staged machine is not at the target, and its run knows of it.
StagedKnown ==
    \A n \in Staged : /\ node[n].version # spec.target
                      /\ (job[n] # NoJob /\ n \notin Resolved) \/ status.failed # {}

\* What is exposed is one batch of selected nodes, labelled until they have an
\* outcome.
ExposedAreBatch ==
    /\ IsBatch(Exposed)
    /\ Exposed \subseteq joined \cap (label \cup Resolved)

\* Nothing is exposed where a batch starts, where a run starts over or ends well.
ExposedNowhere ==
    /\ draining # {} => Exposed = {} /\ \A n \in draining : node[n].version # spec.target
    /\ status.observed # spec.generation => Exposed = {} /\ draining = {}
    /\ EndsWell(status) => Exposed = {}

Exposure ==
    /\ ~annotation.reset
    /\ JobsAhead /\ StagedKnown /\ ExposedAreBatch /\ ExposedNowhere

ExposureInv == MarksInv /\ Exposure /\ RunsOut

LEMMA PartOfExposed ==
    ASSUME ExposureInv, Exposed' \subseteq Exposed
    PROVE  IsBatch(Exposed)'
<1>1. Exposed \in SUBSET Node /\ IsBatch(Exposed) /\ Exposed' \in SUBSET Exposed
  BY DEF Exposed, ExposureInv, Exposure, ExposedAreBatch
<1>2. \A S \in SUBSET Exposed : IsBatch(S)
  BY <1>1, PartOfBatch
<1>3. IsBatch(Exposed')
  BY <1>1, <1>2
<1> QED
  BY <1>3 DEF IsBatch

\* A pass that records nothing and starts nothing.
LEMMA SteadyExposure ==
    ASSUME ExposureInv, UNCHANGED <<node, spec, annotation, joined, job, label, unsaved>>,
           draining' \subseteq draining,
           status'.completed = status.completed, status'.failed = status.failed,
           status'.observed \in {status.observed, spec.generation},
           EndsWell(status') => EndsWell(status)
    PROVE  Exposure'
<1>1. Exposed' = Exposed /\ Staged' = Staged /\ Resolved' = Resolved
  BY DEF Exposed, Staged, Resolved
<1>2. JobsAhead' /\ StagedKnown'
  BY <1>1 DEF ExposureInv, Exposure, JobsAhead, StagedKnown
<1>3. ExposedAreBatch'
  BY <1>1, PartOfExposed DEF ExposureInv, Exposure, ExposedAreBatch
<1>4. ExposedNowhere'
  BY <1>1 DEF ExposureInv, Exposure, ExposedNowhere
<1> QED
  BY <1>2, <1>3, <1>4 DEF ExposureInv, Exposure

\* A pass that finds nothing exposed and starts nothing.
LEMMA RestingExposure ==
    ASSUME ExposureInv, Exposed = {}, UNCHANGED <<node, spec, annotation, job>>, draining' = {}
    PROVE  Exposure'
<1>1. Exposed' = {}
  BY DEF Exposed
<1>2. Staged' = {} /\ \A n \in Node : ~Unfinished(job'[n])
  BY <1>1 DEF Exposed, Staged
<1>3. JobsAhead' /\ StagedKnown'
  BY <1>2 DEF JobsAhead, StagedKnown, Unfinished
<1>4. IsBatch(Exposed)'
  BY <1>1, PartOfExposed
<1> QED
  BY <1>1, <1>3, <1>4 DEF ExposureInv, Exposure, ExposedAreBatch, ExposedNowhere

\* Nothing is exposed when the health gate lets a batch of a run without
\* failures start.
LEMMA HealthyRests ==
    ASSUME ExposureInv, ActiveJobs = {}, status.failed = {}
    PROVE  /\ Staged = {} /\ BusyNodes = {}
           /\ Healthy => Exposed = {}
<1>1. BusyNodes = {}
  BY NothingBusy DEF ExposureInv, MarksInv, CampaignInv
<1>2. Staged = {}
  BY DEF Staged, ActiveJobs, ExposureInv, Exposure, StagedKnown
<1>3. Exposed \subseteq joined
  BY DEF ExposureInv, Exposure, ExposedAreBatch
<1>4. Healthy => Exposed = {}
  BY <1>1, <1>2, <1>3 DEF Healthy, Exposed, Staged, BusyNodes
<1> QED
  BY <1>1, <1>2, <1>4

LEMMA BatchReadyRests ==
    ASSUME ExposureInv, BatchReady
    PROVE  Exposed = {}
BY HealthyRests DEF BatchReady, BatchChosen, Selecting

LEMMA OtherPassesExposure ==
    ASSUME ExposureInv,
           \/ PassSuspended \/ GiveUp \/ Hooks \/ Checks \/ ParkForClosedWindow
           \/ ParkInPending \/ WaitForJobs \/ AwaitHealth \/ EnterPreHook \/ DrainFails
           \/ FinalizeFailed
    PROVE  Exposure'
<1>0. status \in Status /\ unsaved = {}
  BY DEF ExposureInv, MarksInv, CampaignInv, SafeInv, TypeOK, Marks
<1>1. /\ UNCHANGED <<node, spec, annotation, joined, job, label>> /\ unsaved' = {}
      /\ draining' \subseteq draining
  BY <1>0
  DEF PassSuspended, GiveUp, Hooks, StartHook, HandleHook, LeavePreHooks, LeavePostHooks,
      Checks, ParkOutsideWindow, WaitForOtherUpgrade, ParkForClosedWindow, ParkInPending,
      WaitForJobs, AwaitHealth, EnterPreHook, DrainFails, FinalizeFailed, WriteStatus,
      inPass, objects, users
<1>2. \/ UNCHANGED status
      \/ status' = Stamped(InPhase("Pending"))
      \/ \E p \in Phase \ {"PostHook", "Completed"} : status' = InPhase(p)
      \/ \E k, i : status' = AtIndex(k, i)
      \/ status' = [status EXCEPT !.preHookFailed = TRUE, !.preHook = PreHooks]
      \/ status' = Finalized(status) /\ (status.preHookFailed \/ status.failed # {})
      \/ status' = InPhase(FinalPhase(status)) /\ status.phase = "PostHook"
  BY DEF PassSuspended, GiveUp, Hooks, StartHook, HandleHook, LeavePreHooks,
         LeavePostHooks, Checks, ParkOutsideWindow, WaitForOtherUpgrade,
         ParkForClosedWindow, ParkInPending, WaitForJobs, AwaitHealth, EnterPreHook,
         DrainFails, FinalizeFailed, WriteStatus, InHookPhase, HookPhase, Phase
<1>3. /\ status'.completed = status.completed /\ status'.failed = status.failed
      /\ status'.observed \in {status.observed, spec.generation}
      /\ EndsWell(status') => EndsWell(status)
  <2>1. CASE \E p \in Phase \ {"PostHook", "Completed"} :
               status' \in {InPhase(p), Stamped(InPhase(p))}
    BY <1>0, <2>1 DEF InPhase, Stamped, Status, EndsWell
  <2>2. CASE \E k, i : status' = AtIndex(k, i)
    BY <1>0, <2>2 DEF AtIndex, Status, EndsWell
  <2>3. CASE \/ UNCHANGED status
             \/ status' = [status EXCEPT !.preHookFailed = TRUE, !.preHook = PreHooks]
             \/ status' = Finalized(status) /\ (status.preHookFailed \/ status.failed # {})
             \/ status' = InPhase(FinalPhase(status)) /\ status.phase = "PostHook"
    BY <1>0, <2>3 DEF InPhase, Finalized, FinalPhase, Status, EndsWell
  <2> QED
    BY <1>2, <2>1, <2>2, <2>3 DEF Phase
<1> QED
  BY <1>0, <1>1, <1>3, SteadyExposure

\* A run starts over on a new spec, or when all its machines are up.
LEMMA RestartsExposure ==
    ASSUME ExposureInv, PassReset \/ PassSpecChange \/ RestartCampaign
    PROVE  Exposure'
<1>1. ~PassReset
  BY DEF PassReset, ExposureInv, Exposure
<1>2. Exposed = {} /\ draining = {}
  <2>1. CASE PassSpecChange
    <3>1. status.observed # spec.generation
      BY <2>1, BoundsAssumption
      DEF PassSpecChange, ExposureInv, MarksInv, CampaignInv, SafeInv, TypeOK, Status
    <3> QED
      BY <2>1, <3>1 DEF ExposureInv, Exposure, ExposedNowhere
  <2>2. CASE RestartCampaign
    <3>1. status.phase = "Completed" /\ draining = {}
      BY <2>2 DEF RestartCampaign, Recheck, Settled
    <3>2. EndsWell(status)
      BY <3>1 DEF EndsWell, CompletedHidesNoFailure, ExposureInv, MarksInv, CampaignInv,
                  SafeInv, Safe
    <3> QED
      BY <3>1, <3>2 DEF ExposureInv, Exposure, ExposedNowhere
  <2> QED
    BY <1>1, <2>1, <2>2
<1>3. UNCHANGED <<node, spec, annotation, job>> /\ draining' = {}
  BY <1>1, <1>2 DEF PassSpecChange, RestartCampaign, WriteStatus, objects, users
<1> QED
  BY <1>2, <1>3, RestingExposure

\* Recording outcomes leaves every Job at work and every staged machine known.
LEMMA RecordExposure ==
    ASSUME ExposureInv, NEW good \in SUBSET Node, NEW bad \in SUBSET Node,
           Record(good, bad, NoLoss), good \cap Staged = {},
           UNCHANGED <<node, spec, annotation, joined, draining>>, unsaved' = {},
           status'.completed = status.completed \cup good,
           status'.failed = status.failed \cup bad,
           status'.observed = status.observed, ~EndsWell(status')
    PROVE  Exposure'
<1>1. /\ job' = Without(good \cup bad)
      /\ label' = label \ (good \cup bad)
  BY DEF Record, NoLoss
<1>2. /\ \A n \in Node \ (good \cup bad) : job'[n] = job[n]
      /\ \A n \in Node : job'[n].state = "running" => job'[n] = job[n]
      /\ \A n \in Node : Unfinished(job'[n]) <=> Unfinished(job[n])
  BY <1>1 DEF Without, NoJob, Finished, Unfinished
<1>3. Exposed' = Exposed /\ Staged' = Staged
  BY <1>2 DEF Exposed, Staged
<1>4. Resolved' = Resolved \cup good \cup bad
  BY DEF Resolved, ExposureInv, MarksInv, Marks
<1>5. JobsAhead'
  BY <1>2 DEF ExposureInv, Exposure, JobsAhead
<1>6. StagedKnown'
  <2> SUFFICES ASSUME NEW n \in Staged
               PROVE  /\ node[n].version # spec.target
                      /\ (job'[n] # NoJob /\ n \notin Resolved') \/ status'.failed # {}
    BY <1>3 DEF StagedKnown
  <2>1. node[n].version # spec.target
    BY DEF ExposureInv, Exposure, StagedKnown
  <2>2. ASSUME status'.failed = {} PROVE job'[n] # NoJob /\ n \notin Resolved'
    <3>1. status.failed = {} /\ bad = {} /\ n \in Node \ good
      BY <2>2 DEF Staged
    <3>2. job[n] # NoJob /\ n \notin Resolved
      BY <3>1 DEF ExposureInv, Exposure, StagedKnown
    <3> QED
      BY <1>2, <1>4, <3>1, <3>2
  <2> QED
    BY <2>1, <2>2
<1>7. ExposedAreBatch'
  BY <1>1, <1>3, <1>4, PartOfExposed DEF ExposureInv, Exposure, ExposedAreBatch
<1>8. ExposedNowhere'
  BY <1>3 DEF ExposureInv, Exposure, ExposedNowhere
<1> QED
  BY <1>5, <1>6, <1>7, <1>8 DEF ExposureInv, Exposure

LEMMA OutcomesExposure ==
    ASSUME ExposureInv, HandleFinishedBatch \/ ProcessReboots
    PROVE  Exposure'
<1>0. status \in Status /\ unsaved = {} /\ SafeInv /\ MarksInv
  BY DEF ExposureInv, MarksInv, CampaignInv, SafeInv, TypeOK, Marks
<1>1. unsaved' = {}
  <2>1. Marks'
    BY <1>0, OutcomesMarks
  <2> QED
    BY <2>1 DEF Marks
<1>2. UNCHANGED <<node, spec, annotation, joined, draining>>
  BY DEF HandleFinishedBatch, ProcessReboots, JudgeReboots, users, inPass
<1>3. status.phase \notin {"Completed", "PostHook"}
  BY DEF HandleFinishedBatch, BatchFinished, ProcessReboots, JudgeReboots, AwaitingReboots,
         Admitted, Working
<1>4. Staged \cap (BatchGood \cup RebootGood) = {}
  BY DEF Staged, BatchGood, RebootGood, Verified, ExposureInv, Exposure, StagedKnown
<1>5. CASE HandleFinishedBatch
  <2>1. PICK offTarget \in SUBSET MayHaveFailed :
          /\ Record(BatchGood, BatchBad(offTarget), NoLoss)
          /\ status' = [Outcome(BatchGood, BatchBad(offTarget), BatchWaiting(offTarget), NoLoss)
                          EXCEPT !.phase = BatchPhase(offTarget)]
    BY <1>0, <1>5, BatchRecorded
  <2>2. /\ status'.completed = status.completed \cup BatchGood
        /\ status'.failed = status.failed \cup BatchBad(offTarget)
        /\ status'.phase = BatchPhase(offTarget)
        /\ status'.observed = status.observed
    BY <1>0, <2>1, OutcomeFields DEF Status, Outcome
  <2>3. ~EndsWell(status')
    BY <1>3, <2>2 DEF BatchPhase, EndsWell
  <2>4. BatchGood \in SUBSET Node /\ BatchBad(offTarget) \in SUBSET Node
    BY <1>5, FinishedBatch DEF HandleFinishedBatch, ExposureInv, MarksInv
  <2> QED
    BY <1>1, <1>2, <1>4, <2>1, <2>2, <2>3, <2>4, RecordExposure
<1>6. CASE ProcessReboots
  <2>1. PICK denied \in SUBSET MayBeDenied :
          /\ Record(RebootGood, RebootBad(denied), NoLoss)
          /\ status' = [Outcome(RebootGood, RebootBad(denied), {}, NoLoss) EXCEPT
                          !.rebooting = @ \ Resolved,
                          !.phase = IF RebootWaiting(denied) # {} THEN "Rebooting" ELSE @]
    BY <1>0, <1>6, RebootsRecorded
  <2>2. /\ status'.completed = status.completed \cup RebootGood
        /\ status'.failed = status.failed \cup RebootBad(denied)
        /\ status'.phase \in {"Rebooting", status.phase}
        /\ status'.observed = status.observed
    BY <1>0, <2>1, OutcomeFields DEF Status, Outcome
  <2>3. ~EndsWell(status')
    BY <1>3, <2>2 DEF EndsWell
  <2>4. RebootGood \in SUBSET Node /\ RebootBad(denied) \in SUBSET Node
    BY <1>6, JudgedReboots DEF ProcessReboots, JudgeReboots, ExposureInv, MarksInv
  <2> QED
    BY <1>1, <1>2, <1>4, <2>1, <2>2, <2>3, <2>4, RecordExposure
<1> QED
  BY <1>5, <1>6

LEMMA StartExposure ==
    ASSUME ExposureInv, BeginDrain \/ StartBatch
    PROVE  Exposure'
<1>0. status \in Status /\ SafeInv /\ MarksInv /\ draining \in SUBSET Node
  BY DEF ExposureInv, MarksInv, CampaignInv, SafeInv, TypeOK
<1>1. \A n \in PendingNodes : node[n].version # spec.target
  BY DEF PendingNodes, Mismatched
<1>2. \A S : S \subseteq NextBatchOf(PendingNodes) => \A n \in S : node[n].version # spec.target
  BY <1>1 DEF NextBatchOf
<1>3. CASE BeginDrain
  <2>1. Exposed = {}
    BY <1>3, BatchReadyRests DEF BeginDrain
  <2>2. /\ UNCHANGED <<node, spec, annotation, job>>
        /\ draining' = NextBatchOf(PendingNodes)
        /\ status' = InPhase("Draining")
        /\ status.observed = spec.generation
    BY <1>3 DEF BeginDrain, objects, users, BatchReady, BatchChosen, Selecting, Admitted,
                Working, Settled
  <2>3. Exposed' = {} /\ Staged' = {}
    BY <2>1, <2>2 DEF Exposed, Staged
  <2>4. JobsAhead' /\ StagedKnown'
    BY <2>2, <2>3 DEF ExposureInv, Exposure, JobsAhead, StagedKnown
  <2>5. ExposedAreBatch'
    BY <2>1, <2>3, PartOfExposed DEF ExposedAreBatch
  <2>6. /\ status'.observed = spec'.generation
        /\ \A n \in draining' : node'[n].version # spec'.target
    BY <1>0, <1>2, <2>2 DEF InPhase, Status
  <2>7. ExposedNowhere'
    BY <2>3, <2>6 DEF ExposedNowhere
  <2> QED
    BY <2>2, <2>4, <2>5, <2>7 DEF ExposureInv, Exposure
<1>4. CASE StartBatch
  <2> DEFINE batch == StartableBatch
  <2>1. /\ StartJobs(batch, batch, batch)
        /\ batch # {} /\ status' = InPhase("Upgrading")
    BY <1>0, <1>4, NoFault DEF StartBatch, MarksInv, SafeInv
  <2>2. /\ batch \in SUBSET Node /\ IsBatch(batch)
        /\ batch \cap Resolved = {} /\ batch \subseteq joined
    BY <1>0, <2>1, StartableBatchSafe, PendingSelected
    DEF StartableBatch, ExposureInv, MarksInv, Marks
  <2>3. /\ Exposed = {} /\ status.observed = spec.generation
        /\ \A n \in batch : node[n].version # spec.target
    <3>1. CASE draining # {}
      BY <3>1 DEF StartableBatch, ExposureInv, Exposure, ExposedNowhere
    <3>2. CASE draining = {}
      <4>1. BatchReady /\ batch = NextBatchOf(PendingNodes)
        BY <2>1, <3>2 DEF StartableBatch
      <4> QED
        BY <1>2, <4>1, BatchReadyRests
        DEF BatchReady, BatchChosen, Selecting, Admitted, Working, Settled
    <3> QED
      BY <3>1, <3>2
  <2>4. /\ job' = [n \in Node |-> IF n \in batch
                                  THEN [state |-> "running", target |-> spec.target]
                                  ELSE job[n]]
        /\ label' = label \cup batch /\ draining' = {}
        /\ UNCHANGED <<node, spec, annotation, joined>>
    BY <2>1 DEF StartJobs, users
  <2> HIDE DEF batch
  <2>5. \A n \in Node : node[n].state = "up" /\ ~Unfinished(job[n])
    BY <2>3 DEF Exposed
  <2>6. Exposed' = batch
    BY <2>2, <2>4, <2>5 DEF Exposed, Unfinished
  <2>7. JobsAhead'
    BY <2>3, <2>4, <2>5 DEF JobsAhead, Unfinished
  <2>8. StagedKnown'
    BY <2>4, <2>5 DEF StagedKnown, Staged
  <2>9. ExposedAreBatch'
    <3>1. IsBatch(Exposed')
      BY <2>2, <2>6
    <3> QED
      BY <2>2, <2>4, <2>6, <3>1 DEF ExposedAreBatch, IsBatch
  <2>10. status'.phase = "Upgrading" /\ status'.observed = spec'.generation
    BY <1>0, <2>1, <2>3, <2>4 DEF InPhase, Status
  <2>11. ExposedNowhere'
    BY <2>4, <2>10 DEF ExposedNowhere, EndsWell
  <2> QED
    BY <2>4, <2>7, <2>8, <2>9, <2>11 DEF ExposureInv, Exposure
<1> QED
  BY <1>3, <1>4

\* A run ends only when nothing is exposed: either the health gate applies, or
\* the run has neither completed a node nor left a label.
LEMMA FinishExposure ==
    ASSUME ExposureInv, FinishRun \/ FinishWaits
    PROVE  Exposure'
<1>0. status \in Status /\ unsaved = {} /\ SafeInv /\ ~Fault
  BY NoFault DEF ExposureInv, MarksInv, CampaignInv, SafeInv, TypeOK, Marks
<1>1. /\ RecordOutOfBand({}) /\ status.failed = {} /\ ActiveJobs = {} /\ draining = {}
      /\ status.observed = spec.generation
  BY <1>0 DEF FinishRun, FinishWaits, NothingPending, Selecting, Admitted, Working, Settled
<1>2. /\ UNCHANGED <<node, spec, annotation, job, joined>> /\ draining' = {} /\ unsaved' = {}
      /\ label' = label \ OutOfBand
  BY <1>1 DEF RecordOutOfBand, users
<1>3. Staged = {} /\ (Healthy => Exposed = {})
  BY <1>1, HealthyRests
<1>4. CASE FinishRun
  <2>1. FinishGated => Exposed = {}
    BY <1>3, <1>4 DEF FinishRun
  <2>2. ~FinishGated => Exposed = {}
    <3> SUFFICES ASSUME ~FinishGated PROVE Exposed = {}
      OBVIOUS
    <3>1. Resolved = {} /\ OutOfBand = joined /\ joined \cap label = {}
      BY <1>0, <1>1 DEF FinishGated, UpgradedNodes, Resolved, OutOfBand
    <3> QED
      BY <3>1 DEF ExposureInv, Exposure, ExposedAreBatch
  <2> QED
    BY <1>2, <2>1, <2>2, RestingExposure
<1>5. CASE FinishWaits
  <2>1. status' = [WithOutOfBand EXCEPT !.phase = "HealthChecking"]
    BY <1>5 DEF FinishWaits
  <2>2. /\ status'.completed = status.completed \cup OutOfBand
        /\ status'.observed = status.observed
        /\ status'.phase = "HealthChecking"
    BY <1>0, <2>1 DEF WithOutOfBand, Status
  <2>3. Exposed' = Exposed /\ Staged' = {}
    BY <1>2, <1>3 DEF Exposed, Staged
  <2>4. JobsAhead' /\ StagedKnown'
    BY <1>2, <2>3 DEF ExposureInv, Exposure, JobsAhead, StagedKnown
  <2>5. label \cup Resolved \subseteq label' \cup Resolved'
    BY <1>0, <1>1, <1>2, <2>2 DEF Resolved
  <2>6. ExposedAreBatch'
    BY <1>2, <2>3, <2>5, PartOfExposed DEF ExposureInv, Exposure, ExposedAreBatch
  <2>7. ExposedNowhere'
    BY <1>1, <1>2, <2>2 DEF ExposedNowhere, EndsWell
  <2> QED
    BY <1>2, <2>4, <2>6, <2>7 DEF ExposureInv, Exposure
<1> QED
  BY <1>4, <1>5

\* What a step of one machine or its Job has to respect.
LEMMA MachineExposure ==
    ASSUME ExposureInv,
           UNCHANGED <<status, spec, annotation, joined, label, draining, unsaved>>,
           NEW n \in Node, \A m \in Node \ {n} : node'[m] = node[m] /\ job'[m] = job[m],
           n \in Exposed' => n \in Exposed,
           job'[n].state = "running" => job[n].state = "running" /\ node'[n] = node[n],
           node'[n].state = "staged" =>
               /\ node'[n].version = node[n].version
               /\ (job[n].state = "running" /\ job'[n].state = "accepted")
                    \/ (node[n].state = "staged" /\ (job[n] # NoJob => job'[n] # NoJob)),
           node'[n].version = node[n].version \/ n \in Exposed
    PROVE  Exposure'
<1>1. Exposed' \subseteq Exposed
  BY DEF Exposed
<1>2. Resolved' = Resolved
  BY DEF Resolved
<1>3. JobsAhead'
  BY DEF ExposureInv, Exposure, JobsAhead
<1>4. StagedKnown'
  <2> SUFFICES ASSUME NEW m \in Staged'
               PROVE  /\ node'[m].version # spec.target
                      /\ (job'[m] # NoJob /\ m \notin Resolved) \/ status.failed # {}
    BY <1>2 DEF StagedKnown
  <2>1. CASE m # n
    BY <2>1 DEF Staged, ExposureInv, Exposure, StagedKnown
  <2>2. CASE m = n /\ job[n].state = "running" /\ job'[n].state = "accepted"
    <3>1. node[n].version # spec.target
      BY <2>2 DEF ExposureInv, Exposure, JobsAhead
    <3>2. n \notin Resolved
      BY <2>2 DEF ExposureInv, MarksInv, CampaignInv, SafeInv, Safe, OutcomesAreSettled,
                  BusyNodes, Unfinished
    <3> QED
      BY <2>2, <3>1, <3>2 DEF Staged, NoJob
  <2>3. CASE m = n /\ ~(job[n].state = "running" /\ job'[n].state = "accepted")
    BY <2>3 DEF Staged, ExposureInv, Exposure, StagedKnown
  <2> QED
    BY <2>1, <2>2, <2>3
<1>5. ExposedAreBatch'
  BY <1>1, <1>2, PartOfExposed DEF ExposureInv, Exposure, ExposedAreBatch
<1>6. ExposedNowhere'
  <2>1. draining \in SUBSET Node
    BY DEF ExposureInv, MarksInv, CampaignInv, SafeInv, TypeOK
  <2> QED
    BY <1>1, <2>1 DEF ExposureInv, Exposure, ExposedNowhere
<1> QED
  BY <1>3, <1>4, <1>5, <1>6 DEF ExposureInv, Exposure

LEMMA ClusterExposure ==
    ASSUME ExposureInv, Cluster
    PROVE  Exposure'
<1>0. /\ node \in [Node -> [version : Version, boot : Version, state : NodeState]]
      /\ job \in [Node -> [state : JobState, target : Version]]
  BY DEF ExposureInv, MarksInv, CampaignInv, SafeInv, TypeOK
<1>1. UNCHANGED <<status, spec, annotation, joined, label, draining, unsaved>>
  BY DEF Cluster, JobAccepted, JobSucceeds, JobFails, JobExpires, Reboot, InstallFails,
         Return, Rejoin, Outage, DeadlinePasses, NodeActs, OnlyNode, OnlyJob, HookFinishes,
         HookExpires, HookActs, WindowMoves, users, inPass, objects
<1>2. ~ \E n \in Node : Outage(n)
  BY NoFaultyPass DEF FaultyPass, ExposureInv, MarksInv, CampaignInv, SafeInv
<1>3. CASE UNCHANGED <<node, job>>
  <2>1. unsaved = {}
    BY DEF ExposureInv, MarksInv, Marks
  <2> QED
    BY <1>1, <1>3, <2>1, SteadyExposure
<1>4. ASSUME NEW n \in Node, JobAccepted(n) PROVE Exposure'
  <2>1. /\ \A m \in Node \ {n} : node'[m] = node[m] /\ job'[m] = job[m]
        /\ job[n].state = "running" /\ job'[n].state = "accepted"
        /\ node'[n].version = node[n].version
    BY <1>0, <1>4 DEF JobAccepted, JobActs
  <2>2. n \in Exposed
    BY <2>1 DEF Exposed, Unfinished
  <2> QED
    BY <1>1, <2>1, <2>2, MachineExposure
<1>5. ASSUME NEW n \in Node, JobSucceeds(n) \/ JobFails(n) PROVE Exposure'
  <2>1. /\ \A m \in Node : node'[m] = node[m]
        /\ \A m \in Node \ {n} : job'[m] = job[m]
        /\ Unfinished(job[n]) /\ job'[n].state \in {"succeeded", "failed"}
    BY <1>0, <1>5 DEF JobSucceeds, JobFails, JobActs, OnlyJob, Unfinished
  <2>2. n \in Exposed /\ job'[n] # NoJob
    BY <2>1 DEF Exposed, NoJob
  <2> QED
    BY <1>1, <2>1, <2>2, MachineExposure
<1>6. ASSUME NEW n \in Node, JobExpires(n) PROVE Exposure'
  <2>1. /\ \A m \in Node : node'[m] = node[m]
        /\ \A m \in Node \ {n} : job'[m] = job[m]
        /\ job'[n] = NoJob /\ node[n].state # "staged"
    BY <1>0, <1>6 DEF JobExpires, OnlyJob, ExposureInv, RunsOut
  <2>2. n \in Exposed' => n \in Exposed
    BY <2>1 DEF Exposed, Unfinished, NoJob
  <2> QED
    BY <1>1, <2>1, <2>2, MachineExposure DEF NoJob
<1>7. ASSUME NEW n \in Node,
             Reboot(n) \/ InstallFails(n) \/ Return(n) \/ Rejoin(n)
      PROVE  Exposure'
  <2>1. /\ \A m \in Node \ {n} : node'[m] = node[m]
        /\ UNCHANGED job
        /\ node[n].state # "up" /\ node'[n].state # "staged"
    BY <1>0, <1>7 DEF Reboot, InstallFails, Return, Rejoin, NodeActs, OnlyNode, objects
  <2>2. n \in Exposed /\ job[n].state # "running"
    BY <2>1 DEF Exposed, ExposureInv, Exposure, JobsAhead
  <2> QED
    BY <1>1, <2>1, <2>2, MachineExposure
<1>8. CASE \/ \E n \in Node : DeadlinePasses(n)
           \/ \E h \in Hook : HookFinishes(h) \/ HookExpires(h)
           \/ WindowMoves
  <2>1. UNCHANGED <<node, job>>
    BY <1>8 DEF DeadlinePasses, HookFinishes, HookExpires, HookActs, WindowMoves, objects
  <2> QED
    BY <1>3, <2>1
<1> QED
  BY <1>2, <1>4, <1>5, <1>6, <1>7, <1>8 DEF Cluster

LEMMA UsersExposure ==
    ASSUME ExposureInv, Users
    PROVE  Exposure'
<1>1. /\ UNCHANGED <<status, node, spec, job, label, draining, unsaved>>
      /\ joined \subseteq joined' /\ ~annotation'.reset
  BY DEF Users, ToggleSuspend, RequestReset, EditSpec, JoinNode, OnlyUsers, inPass, objects,
         ExposureInv, Exposure, RunsOut, MarksInv, CampaignInv, SafeInv, TypeOK
<1>2. Exposed' = Exposed /\ Staged' = Staged /\ Resolved' = Resolved
  BY <1>1 DEF Exposed, Staged, Resolved
<1>3. IsBatch(Exposed)'
  BY <1>2, PartOfExposed
<1> QED
  BY <1>1, <1>2, <1>3
  DEF ExposureInv, Exposure, JobsAhead, StagedKnown, ExposedAreBatch, ExposedNowhere

LEMMA ExposureHolds == NoFaults /\ RunsOut /\ Spec => []ExposureInv
<1>1. SUFFICES ASSUME NoFaults, RunsOut PROVE Spec => []ExposureInv
  OBVIOUS
<1>2. ASSUME Init, MarksInv PROVE ExposureInv
  <2>1. Exposed = {} /\ Staged = {}
    BY <1>2 DEF Init, Exposed, Staged, NoJob, Unfinished
  <2>2. IsBatch(Exposed)
    BY <2>1, FS_EmptySet, ParallelismAssumption DEF IsBatch
  <2>3. draining = {} /\ ~annotation.reset /\ \A n \in Node : job[n].state = "none"
    BY <1>2 DEF Init, NoJob
  <2> QED
    BY <1>1, <1>2, <2>1, <2>2, <2>3
    DEF ExposureInv, Exposure, JobsAhead, StagedKnown, ExposedAreBatch, ExposedNowhere
<1>3. ExposureInv /\ MarksInv' /\ [Next]_vars => ExposureInv'
  <2> SUFFICES ASSUME ExposureInv, [Next]_vars PROVE Exposure'
    BY <1>1 DEF ExposureInv, RunsOut
  <2>1. CASE UNCHANGED vars
    <3>1. /\ UNCHANGED <<node, spec, annotation, joined, job, label, unsaved, draining, status>>
          /\ unsaved = {}
      BY <2>1 DEF vars, objects, users, inPass, ExposureInv, MarksInv, Marks
    <3> QED
      BY <3>1, SteadyExposure
  <2>2. CASE Cluster
    BY <2>2, ClusterExposure
  <2>3. CASE Users
    BY <2>3, UsersExposure
  <2>4. ~FaultyPass /\ ~EndPass
    BY NoFaultyPass DEF ExposureInv, MarksInv, CampaignInv, SafeInv, Marks, EndPass
  <2>5. CASE Pass
    BY <2>4, <2>5, OtherPassesExposure, RestartsExposure, OutcomesExposure, StartExposure,
       FinishExposure
    DEF Pass, Annotations, Campaign, BatchJobs, Reboots, StartOfBatch, EndOfRun, FaultyPass
  <2> QED
    BY <2>1, <2>2, <2>3, <2>5 DEF Next
<1>4. Spec => []MarksInv
  BY <1>1, MarksHold
<1> QED
  BY <1>2, <1>3, <1>4, PTL DEF Spec

(***************************************************************************)
(* At most one control-plane machine is away at a time, and with it at     *)
(* most one etcd member, as long as no fault, reset or edit disturbs the   *)
(* runs and machines reboot before their Job's TTL: whichever nodes a      *)
(* batch holds, however long the controller is away, and whoever suspends  *)
(* the run (controlPlaneUpgradeInFlight and the health gate before         *)
(* processNextBatch).                                                      *)
(***************************************************************************)
THEOREM ControlPlaneStays == NoFaults /\ RunsOut /\ Spec => []OneControlPlaneDown
<1>1. ASSUME ExposureInv PROVE OneControlPlaneDown
  <2> DEFINE away == {c \in ControlPlane : node[c].state \in {"down", "joining"}}
  <2>1. away \subseteq ControlPlane \cap Exposed
    BY ControlPlaneAssumption DEF Exposed, Node
  <2>2. \A c \in away : away = {c}
    BY <1>1, <2>1 DEF ExposureInv, Exposure, ExposedAreBatch, IsBatch
  <2>3. CASE away = {}
    BY <2>3, FS_EmptySet DEF OneControlPlaneDown
  <2>4. CASE away # {}
    <3>1. PICK c \in away : away = {c}
      BY <2>2, <2>4
    <3> QED
      BY <3>1, FS_Singleton DEF OneControlPlaneDown
  <2> QED
    BY <2>3, <2>4
<1> QED
  BY <1>1, ExposureHolds, PTL

(***************************************************************************)
(* Under the same assumptions a run ends well, and unblocks its post-hooks *)
(* and the queued upgrades, only when every machine it selects has         *)
(* rejoined the cluster: finishRun skips the health gate only for a run    *)
(* that has upgraded nothing.                                              *)
(***************************************************************************)
THEOREM RunsEndHealthy == NoFaults /\ RunsOut /\ Spec => EndsHealthy
<1>1. ExposureInv /\ ExposureInv' /\ [Next]_vars =>
        [EndsWell(status') /\ ~EndsWell(status) => Rejoined]_vars
  <2> SUFFICES ASSUME ExposureInv, ExposureInv', [Next]_vars,
                      EndsWell(status'), ~EndsWell(status)
               PROVE  Rejoined
    OBVIOUS
  <2>1. Exposed' = {}
    BY DEF ExposureInv, Exposure, ExposedNowhere
  <2>2. Pass
    BY ElsewhereRests
    DEF Next, vars, ExposureInv, MarksInv, CampaignInv
  <2>3. UNCHANGED node
    BY <2>2
    DEF Pass, Annotations, PassSuspended, PassReset, PassSpecChange, Campaign,
        RestartCampaign, GiveUp, RecheckFails, Hooks, StartHook, HandleHook,
        LeavePreHooks, LeavePostHooks, Checks, ParkOutsideWindow, WaitForOtherUpgrade,
        ParkForClosedWindow, ParkInPending, WriteStatus, BatchJobs, WaitForJobs,
        JobsUnreadable, HandleFinishedBatch, InterruptFinishedBatch, Landed, Reboots,
        ProcessReboots, JudgeReboots, InterruptReboots, EndPass, OutcomeUnsaved,
        StartOfBatch, AwaitHealth, EnterPreHook, BeginDrain, DrainFails, CrashInDrain,
        StartBatch, InterruptStartBatch, StartJobs, EndOfRun, FinalizeFailed, FinishRun,
        FinishWaits, InterruptFinishRun, RecordOutOfBand
  <2>4. \A n \in Node : node[n].state = "up"
    BY <2>1, <2>3 DEF Exposed
  <2> QED
    BY <2>4 DEF Rejoined, ExposureInv, MarksInv, CampaignInv, SafeInv, TypeOK
<1> QED
  BY <1>1, ExposureHolds, PTL DEF Spec, EndsHealthy
===============================================================================
