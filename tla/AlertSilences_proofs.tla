-------------------------- MODULE AlertSilences_proofs -------------------------
(***************************************************************************)
(* Theorems of AlertSilences for every spec, every set of IDs and all      *)
(* times: silences lapse when nobody holds them, do not while syncs come   *)
(* in time, and have the scopes the spec asks for.                         *)
(***************************************************************************)
EXTENDS AlertSilences, SequenceTheorems, TLAPS

Lease == [scope : Scope \cup {NoScope}, left : 0..SilenceTTL]
StatusIds == Seq(Id \cup {NoId})

-------------------------------------------------------------------------------
(***************************************************************************)
(* Time and leases.                                                        *)
(***************************************************************************)
LEMMA Times ==
    /\ SilenceTTL \in Nat /\ LongestHold \in Nat
    /\ SilenceTail \in Nat \ {0} /\ SilenceTail <= SilenceTTL
    /\ RenewLeeway \in Nat \ {0} /\ RenewLeeway < SilenceTTL
    /\ Horizon = LongestHold + SilenceTTL + SilenceTail /\ Horizon \in Nat
    /\ NoHold = Horizon + 1
    /\ GapHorizon \in Nat /\ GapHorizon = SilenceTTL - RenewLeeway + 1
BY TimeAssumption DEF Horizon, NoHold, GapHorizon

LEMMA IdleHorizonType == IdleHorizon \in Nat
<1>1. MaxFaults * SilenceTail \in Nat
  BY Times, BoundsAssumption
<1> QED
  BY <1>1, Times DEF IdleHorizon

LEMMA OlderType ==
    ASSUME NEW horizon \in Nat, NEW age \in 0..horizon
    PROVE  /\ Older(age, horizon) \in 0..horizon
           /\ age < horizon => Older(age, horizon) = age + 1
           /\ age = horizon => Older(age, horizon) = age
BY DEF Older

LEMMA LongerType ==
    ASSUME NEW hour \in 0..NoHold
    PROVE  /\ Longer(hour) \in 0..NoHold
           /\ Longer(hour) = NoHold <=> hour = NoHold
           /\ hour < Horizon => Longer(hour) = hour + 1
           /\ hour = Horizon => Longer(hour) = hour
BY Times DEF Longer, Older

LEMMA LapsedType == Lapsed \in Lease /\ Lapsed.left = 0
BY Times DEF Lapsed, Lease

LEMMA ScopeType ==
    ASSUME spec \in Specs, NEW i \in DOMAIN spec
    PROVE  spec[i] \in Scope
BY DEF Scope

LEMMA DurationType ==
    ASSUME NEW scope \in Scope
    PROVE  MaxDuration[scope] \in Nat /\ MaxDuration[scope] <= LongestHold
BY DurationAssumption, Times

\* The domain of a sequence.
LEMMA Positions ==
    /\ spec \in Specs => Len(spec) \in Nat /\ DOMAIN spec = 1..Len(spec)
    /\ ids \in StatusIds => Len(ids) \in Nat /\ DOMAIN ids = 1..Len(ids)
    /\ spec \in Specs /\ spec # <<>> => 1 \in DOMAIN spec
    /\ ids \in StatusIds /\ ids # <<>> => 1 \in DOMAIN ids
<1>1. spec \in Specs => spec \in Seq(STRING)
  BY SpecsAssumption
<1> QED
  BY <1>1, LenProperties, EmptySeq DEF StatusIds

LEMMA IdOfType ==
    ASSUME ids \in StatusIds, NEW i
    PROVE  /\ IdOf(i) \in Id \cup {NoId}
           /\ IdOf(i) # NoId => i \in DOMAIN ids /\ IdOf(i) = ids[i] /\ IdOf(i) \in InStatus
BY LenProperties DEF IdOf, StatusIds, InStatus

LEMMA NoIdIsNotLive == ~Live(NoId)
BY IdAssumption DEF Live

LEMMA ExpireAllIs ==
    ASSUME lease \in [Id -> Lease], NEW S, NEW x \in Id
    PROVE  /\ ExpireAll(lease, S)[x] \in Lease
           /\ ExpireAll(lease, S)[x].scope = lease[x].scope
           /\ x \notin S \/ ~Live(x) => ExpireAll(lease, S)[x] = lease[x]
           /\ x \in S /\ Live(x) => ExpireAll(lease, S)[x].left = SilenceTail
<1>1. ExpireAll(lease, S)[x] = IF x \in S /\ Live(x) THEN [lease[x] EXCEPT !.left = SilenceTail]
                               ELSE lease[x]
  BY DEF ExpireAll, Live
<1>2. SilenceTail \in 0..SilenceTTL
  BY Times
<1> QED
  BY <1>1, <1>2 DEF Lease

LEMMA ExpireAllType ==
    ASSUME lease \in [Id -> Lease], NEW S
    PROVE  ExpireAll(lease, S) \in [Id -> Lease]
<1>1. \A x \in Id : ExpireAll(lease, S)[x] \in Lease
  BY ExpireAllIs
<1>2. ExpireAll(lease, S) = [x \in Id |-> ExpireAll(lease, S)[x]]
  BY DEF ExpireAll
<1> QED
  BY <1>1, <1>2

-------------------------------------------------------------------------------
(***************************************************************************)
(* What a sync does to a silence.                                          *)
(***************************************************************************)
LEMMA TargetIs ==
    ASSUME NEW p, NEW target \in Targets(p), NEW i \in Served(p)
    PROVE  /\ target[i] \in Id
           /\ IF Created(i) THEN target[i] \in Unused ELSE target[i] = IdOf(i)
           /\ \A j \in Served(p) : target[i] = target[j] => i = j
BY DEF Targets

LEMMA ServedIs ==
    ASSUME NEW p, NEW i \in Served(p)
    PROVE  i \in DOMAIN spec /\ ~Overdue(i) /\ (IdOf(i) # NoId \/ IsInFlight(p))
BY DEF Served

Posted(done, target, x) == \E i \in done : ~Fresh(i) /\ target[i] = x
Replaced(done, x) == \E i \in done : Created(i) /\ IdOf(i) = x

\* A silence is posted, replaced, or left to expire if it is.
LEMMA LeasedIs ==
    ASSUME NEW p, NEW done \in SUBSET Served(p), NEW target \in Targets(p), NEW S,
           NEW x \in Id
    PROVE  /\ \A i \in done : ~Fresh(i) /\ target[i] = x
                => Leased(done, target, S)[x] = [scope |-> spec[i], left |-> SilenceTTL]
           /\ ~Posted(done, target, x) /\ Replaced(done, x)
                => Leased(done, target, S)[x] = Lapsed
           /\ ~Posted(done, target, x) /\ ~Replaced(done, x)
                => Leased(done, target, S)[x] = ExpireAll(lease, S)[x]
<1> DEFINE posted == {i \in done : ~Fresh(i)}
           replaced == {IdOf(i) : i \in {j \in done : Created(j)}}
           chosen == CHOOSE i \in posted : target[i] = x
           hit == \E i \in posted : target[i] = x
           fresh == [scope |-> spec[chosen], left |-> SilenceTTL]
           after == ExpireAll(lease, S)[x]
<1>1. /\ hit => Leased(done, target, S)[x] = fresh
      /\ ~hit /\ x \in replaced => Leased(done, target, S)[x] = Lapsed
      /\ ~hit /\ x \notin replaced => Leased(done, target, S)[x] = after
  <2>1. Leased(done, target, S)[x] =
           IF hit THEN fresh ELSE IF x \in replaced THEN Lapsed ELSE after
    BY DEF Leased, Renewed
  <2> HIDE DEF posted, replaced, chosen, hit, fresh, after
  <2> QED
    BY <2>1
<1>2. Posted(done, target, x) <=> \E i \in posted : target[i] = x
  BY DEF Posted
<1>3. Replaced(done, x) <=> x \in replaced
  BY DEF Replaced
<1>4. ASSUME NEW i \in posted, target[i] = x
      PROVE  Leased(done, target, S)[x] = [scope |-> spec[i], left |-> SilenceTTL]
  <2>1. chosen \in posted /\ target[chosen] = x
    BY <1>4
  <2>2. chosen = i
    BY <1>4, <2>1, TargetIs
  <2> QED
    BY <1>1, <1>4, <2>2
<1> QED
  BY <1>1, <1>2, <1>3, <1>4

LEMMA LeasedType ==
    ASSUME lease \in [Id -> Lease], spec \in Specs,
           NEW p, NEW done \in SUBSET Served(p), NEW target \in Targets(p), NEW S
    PROVE  Leased(done, target, S) \in [Id -> Lease]
<1>1. ASSUME NEW x \in Id PROVE Leased(done, target, S)[x] \in Lease
  <2>1. CASE Posted(done, target, x)
    <3>1. PICK i \in done : ~Fresh(i) /\ target[i] = x
      BY <2>1 DEF Posted
    <3>2. Leased(done, target, S)[x] = [scope |-> spec[i], left |-> SilenceTTL]
      BY <3>1, LeasedIs
    <3>3. spec[i] \in Scope
      BY ServedIs, ScopeType
    <3> QED
      BY <3>2, <3>3, Times DEF Lease
  <2>2. CASE ~Posted(done, target, x)
    <3>1. Leased(done, target, S)[x] \in {Lapsed, ExpireAll(lease, S)[x]}
      BY <2>2, LeasedIs
    <3>2. ExpireAll(lease, S)[x] \in Lease
      BY ExpireAllIs
    <3> QED
      BY <3>1, <3>2, LapsedType
  <2> QED
    BY <2>1, <2>2
<1>2. Leased(done, target, S) = [x \in Id |-> Leased(done, target, S)[x]]
  BY DEF Leased
<1> QED
  BY <1>1, <1>2

\* An expiration that fails makes a difference for a silence only.
LEMMA LeasedKept ==
    ASSUME NEW done, NEW target, NEW S, NEW kept, kept \ {NoId} = {}
    PROVE  Leased(done, target, S \ kept) = Leased(done, target, S)
<1>1. \A x \in Id : x \in S \ kept <=> x \in S
  BY IdAssumption
<1>2. ExpireAll(lease, S \ kept) = ExpireAll(lease, S)
  BY <1>1 DEF ExpireAll
<1> QED
  BY <1>2 DEF Leased

\* What the status says after a sync that got an answer for these entries.
Answered(answered, target) ==
    [i \in DOMAIN spec |-> IF i \in answered THEN target[i] ELSE IdOf(i)]
Kept(new) == IF \A i \in DOMAIN new : new[i] = NoId THEN <<>> ELSE new
Leftover == {ids[i] : i \in DOMAIN ids \ DOMAIN spec}

LEMMA AnsweredType ==
    ASSUME spec \in Specs, ids \in StatusIds,
           NEW p, NEW answered \in SUBSET Served(p), NEW target \in Targets(p)
    PROVE  /\ Answered(answered, target) \in StatusIds
           /\ Kept(Answered(answered, target)) \in StatusIds
<1>1. \A i \in DOMAIN spec : Answered(answered, target)[i] \in Id \cup {NoId}
  BY TargetIs, IdOfType DEF Answered
<1>2. Answered(answered, target) \in [1..Len(spec) -> Id \cup {NoId}] /\ Len(spec) \in Nat
  BY <1>1, Positions DEF Answered
<1>3. Answered(answered, target) \in StatusIds
  BY <1>2, SeqDef DEF StatusIds
<1> QED
  BY <1>3, EmptySeq DEF Kept, StatusIds

LEMMA PatchIs ==
    ASSUME ids \in StatusIds, since \in 0..NoHold, NEW new \in StatusIds, NEW lost \in BOOLEAN,
           Patch(new, lost)
    PROVE  /\ ids' \in StatusIds /\ since' \in 0..NoHold /\ unobserved' = unobserved
           /\ ids' = new \/ (lost /\ UNCHANGED status)
<1>1. CASE new = ids \/ lost
  BY <1>1 DEF Patch, status
<1>2. CASE ~(new = ids \/ lost)
  BY <1>2, Times DEF Patch, PinGeneration
<1> QED
  BY <1>1, <1>2

LEMMA FaultType ==
    ASSUME faults \in 0..MaxFaults, NEW lost \in BOOLEAN, FaultIf(lost)
    PROVE  /\ faults' \in 0..MaxFaults /\ faults' \in {faults, faults + 1}
           /\ lost => faults' = faults + 1
           /\ ~lost => faults' = faults
BY BoundsAssumption DEF FaultIf, Fault

\* A sync that holds silences, with the calls that fail and those that took effect.
Sync(p, failed, silent, lost, kept, target) ==
    /\ silent \subseteq failed
    /\ FaultIf(failed # {} \/ kept \ {NoId} # {} \/ lost)
    /\ lease' = Leased((Served(p) \ failed) \cup silent, target, Leftover \ kept)
    /\ Patch(Kept(Answered(Served(p) \ failed, target)), lost)
    /\ found' = p /\ served' = spec
    /\ hold' = IF hold = NoHold /\ \E i \in (Served(p) \ failed) \cup silent : Created(i)
               THEN 0 ELSE hold
    /\ idle' = 0

LEMMA ExtendLeasesIs ==
    ASSUME NEW p, ExtendLeases(p)
    PROVE  \E failed \in SUBSET Served(p), silent \in SUBSET Served(p), lost \in BOOLEAN,
              kept \in SUBSET Leftover, target \in Targets(p) :
                 Sync(p, failed, silent, lost, kept, target)
BY Zenon DEF ExtendLeases, Sync, Kept, Answered, Leftover

LEMMA ExtendLeasesType ==
    ASSUME TypeOK, NEW p \in Shown, ExtendLeases(p)
    PROVE  /\ ids' \in StatusIds /\ since' \in 0..NoHold /\ unobserved' = unobserved
           /\ lease' \in [Id -> Lease]
           /\ found' = p /\ served' = spec /\ hold' \in 0..NoHold /\ idle' = 0
           /\ faults' \in 0..MaxFaults /\ faults' \in {faults, faults + 1}
<1>1. PICK failed \in SUBSET Served(p), silent \in SUBSET Served(p), lost \in BOOLEAN,
           kept \in SUBSET Leftover, target \in Targets(p) :
             Sync(p, failed, silent, lost, kept, target)
  BY ExtendLeasesIs
<1>2. lease' \in [Id -> Lease]
  <2>1. lease \in [Id -> Lease] /\ spec \in Specs
    BY DEF TypeOK, Lease
  <2>2. (Served(p) \ failed) \cup silent \in SUBSET Served(p)
    OBVIOUS
  <2> QED
    BY <1>1, <2>1, <2>2, LeasedType DEF Sync
<1>3. ids' \in StatusIds /\ since' \in 0..NoHold /\ unobserved' = unobserved
  <2>1. Served(p) \ failed \in SUBSET Served(p) /\ ids \in StatusIds /\ spec \in Specs
    BY DEF TypeOK, StatusIds
  <2>2. Kept(Answered(Served(p) \ failed, target)) \in StatusIds
    BY <2>1, AnsweredType
  <2> QED
    BY <1>1, <2>1, <2>2, PatchIs DEF TypeOK, Sync
<1>4. faults' \in 0..MaxFaults /\ faults' \in {faults, faults + 1}
  <2>1. (failed # {} \/ kept \ {NoId} # {} \/ lost) \in BOOLEAN
    OBVIOUS
  <2> QED
    BY <1>1, <2>1, FaultType DEF TypeOK, Sync
<1>5. found' = p /\ served' = spec /\ hold' \in 0..NoHold /\ idle' = 0
  BY <1>1, Times DEF Sync, TypeOK
<1> QED
  BY <1>2, <1>3, <1>4, <1>5

\* A sync that holds silences and meets no fault.
LEMMA ExtendLeasesWell ==
    ASSUME TypeOK, NEW p, ExtendLeases(p), faults' = 0
    PROVE  \E target \in Targets(p) :
              /\ lease' = Leased(Served(p), target, Leftover)
              /\ Patch(Kept(Answered(Served(p), target)), FALSE)
              /\ hold' = IF hold = NoHold /\ \E i \in Served(p) : Created(i) THEN 0 ELSE hold
<1>1. PICK failed \in SUBSET Served(p), silent \in SUBSET Served(p), lost \in BOOLEAN,
           kept \in SUBSET Leftover, target \in Targets(p) :
             Sync(p, failed, silent, lost, kept, target)
  BY ExtendLeasesIs
<1>2. failed = {} /\ kept \ {NoId} = {} /\ lost = FALSE
  <2>1. ~(failed # {} \/ kept \ {NoId} # {} \/ lost)
    BY <1>1 DEF Sync, FaultIf, Fault, TypeOK
  <2> QED
    BY <2>1
<1>3. Served(p) \ failed = Served(p) /\ (Served(p) \ failed) \cup silent = Served(p)
  BY <1>1, <1>2 DEF Sync
<1>4. Leased(Served(p), target, Leftover \ kept) = Leased(Served(p), target, Leftover)
  BY <1>2, LeasedKept
<1> QED
  BY <1>1, <1>2, <1>3, <1>4 DEF Sync

\* A sync that gives silences up, and the cleanup of a deleted resource.
GivesUp ==
    /\ GiveUp
    /\ lease' \in [Id -> Lease]
    /\ \A x \in Id : \/ lease'[x] = lease[x]
                     \/ x \in InStatus /\ Live(x) /\ lease'[x].left = SilenceTail
    /\ \A x \in Id : lease'[x].scope = lease[x].scope
    /\ \/ ids' = <<>> /\ since' = NoHold
       \/ UNCHANGED status /\ (ids = <<>> \/ faults' = faults + 1)
    /\ faults' \in {faults, faults + 1} /\ faults' \in 0..MaxFaults
    /\ gap' \in {0, gap}
    /\ connected /\ faults' = 0
         => \A x \in Id \cap InStatus : Live(x) => lease'[x].left = SilenceTail

LEMMA ExpiresSome ==
    ASSUME TypeOK, NEW failed \in SUBSET InStatus, NEW after,
           after = ExpireAll(lease, InStatus \ failed)
    PROVE  /\ after \in [Id -> Lease]
           /\ \A x \in Id : \/ after[x] = lease[x]
                            \/ x \in InStatus /\ Live(x) /\ after[x].left = SilenceTail
           /\ \A x \in Id : after[x].scope = lease[x].scope
           /\ failed \ {NoId} = {}
                => \A x \in Id \cap InStatus : Live(x) => after[x].left = SilenceTail
<1>1. lease \in [Id -> Lease]
  BY DEF TypeOK, Lease
<1>2. after \in [Id -> Lease]
      /\ \A x \in Id : /\ x \notin InStatus \ failed \/ ~Live(x) => after[x] = lease[x]
                       /\ x \in InStatus \ failed /\ Live(x) => after[x].left = SilenceTail
                       /\ after[x].scope = lease[x].scope
  BY <1>1, ExpireAllIs, ExpireAllType
<1>3. failed \ {NoId} = {} => \A x \in Id : x \notin failed
  BY IdAssumption
<1> QED
  BY <1>2, <1>3

LEMMA PatchNothing ==
    ASSUME TypeOK, NEW lost \in BOOLEAN, Patch(<<>>, lost)
    PROVE  /\ (ids' = <<>> /\ since' = NoHold) \/ (UNCHANGED status /\ (ids = <<>> \/ lost))
           /\ unobserved' = unobserved
<1>1. CASE <<>> = ids \/ lost
  BY <1>1 DEF Patch, status
<1>2. CASE ~(<<>> = ids \/ lost)
  BY <1>2 DEF Patch, PinGeneration
<1> QED
  BY <1>1, <1>2

LEMMA ReleaseGivesUp ==
    ASSUME TypeOK, IF connected THEN ReleaseLeases ELSE ForgetLeases, GiveUp, gap' = 0
    PROVE  GivesUp /\ unobserved' = unobserved
<1>1. CASE connected
  <2>1. PICK failed \in SUBSET InStatus, lost \in BOOLEAN :
          /\ FaultIf(failed \ {NoId} # {} \/ lost)
          /\ lease' = ExpireAll(lease, InStatus \ failed)
          /\ Patch(<<>>, lost)
    BY <1>1 DEF ReleaseLeases
  <2>2. /\ faults' \in {faults, faults + 1} /\ faults' \in 0..MaxFaults
        /\ lost => faults' = faults + 1
        /\ faults' = 0 => failed \ {NoId} = {}
    BY <2>1, BoundsAssumption DEF FaultIf, Fault, TypeOK
  <2>3. (ids' = <<>> /\ since' = NoHold) \/ (UNCHANGED status /\ (ids = <<>> \/ lost))
    BY <2>1, PatchNothing
  <2>4. unobserved' = unobserved
    BY <2>1, PatchNothing
  <2>5. lease' \in [Id -> Lease]
    BY <2>1, ExpiresSome
  <2>6. \A x \in Id : \/ lease'[x] = lease[x]
                      \/ x \in InStatus /\ Live(x) /\ lease'[x].left = SilenceTail
    BY <2>1, ExpiresSome
  <2>7. faults' = 0 => \A x \in Id \cap InStatus : Live(x) => lease'[x].left = SilenceTail
    BY <2>1, <2>2, ExpiresSome
  <2>8. \A x \in Id : lease'[x].scope = lease[x].scope
    BY <2>1, ExpiresSome
  <2> QED
    BY <2>2, <2>3, <2>4, <2>5, <2>6, <2>7, <2>8 DEF GivesUp
<1>2. CASE ~connected
  <2>1. PICK lost \in BOOLEAN : FaultIf(lost) /\ Patch(<<>>, lost) /\ UNCHANGED lease
    BY <1>2 DEF ForgetLeases
  <2>2. /\ faults' \in {faults, faults + 1} /\ faults' \in 0..MaxFaults
        /\ lost => faults' = faults + 1
    BY <2>1, FaultType DEF TypeOK
  <2>3. (ids' = <<>> /\ since' = NoHold) \/ (UNCHANGED status /\ (ids = <<>> \/ lost))
    BY <2>1, PatchNothing
  <2>4. unobserved' = unobserved
    BY <2>1, PatchNothing
  <2>5. lease' \in [Id -> Lease]
    BY <2>1 DEF TypeOK, Lease
  <2> QED
    BY <1>2, <2>1, <2>2, <2>3, <2>4, <2>5 DEF GivesUp
<1> QED
  BY <1>1, <1>2

LEMMA CleanupGivesUp ==
    ASSUME TypeOK, Cleanup
    PROVE  GivesUp
<1>1. PICK failed \in SUBSET InStatus, kept \in BOOLEAN :
        /\ FaultIf(failed \ {NoId} # {} \/ kept)
        /\ lease' = IF connected THEN ExpireAll(lease, InStatus \ failed) ELSE lease
        /\ IF kept THEN UNCHANGED status ELSE ids' = <<>> /\ since' = NoHold
  BY DEF Cleanup
<1>2. /\ faults' \in {faults, faults + 1} /\ faults' \in 0..MaxFaults
      /\ kept => faults' = faults + 1
      /\ faults' = 0 => failed \ {NoId} = {}
  BY <1>1, BoundsAssumption DEF FaultIf, Fault, TypeOK
<1>3. lease' \in [Id -> Lease]
  BY <1>1, ExpiresSome DEF TypeOK, Lease
<1>4. \A x \in Id : \/ lease'[x] = lease[x]
                    \/ x \in InStatus /\ Live(x) /\ lease'[x].left = SilenceTail
  BY <1>1, ExpiresSome
<1>5. connected /\ faults' = 0
        => \A x \in Id \cap InStatus : Live(x) => lease'[x].left = SilenceTail
  BY <1>1, <1>2, ExpiresSome
<1>6. (ids' = <<>> /\ since' = NoHold) \/ (UNCHANGED status /\ (ids = <<>> \/ faults' = faults + 1))
  BY <1>1, <1>2
<1>7. \A x \in Id : lease'[x].scope = lease[x].scope
  BY <1>1, ExpiresSome
<1> QED
  BY <1>2, <1>3, <1>4, <1>5, <1>6, <1>7 DEF Cleanup, GivesUp

-------------------------------------------------------------------------------
(***************************************************************************)
(* The steps by what they do to silences.                                  *)
(***************************************************************************)
Holding == BeginPass /\ connected /\ Holds(phase) /\ ExtendLeases(phase)
Standing ==
    /\ UNCHANGED <<status, lease, history, gap>>
    /\ faults' \in {faults, faults + 1} /\ faults' \in 0..MaxFaults

LEMMA StandingSteps ==
    ASSUME TypeOK,
           \/ PassSuspended \/ ResetRun \/ Park \/ Advance \/ EndPass \/ Crash \/ Restart
           \/ ToggleSuspend \/ EditSpec \/ UNCHANGED vars
    PROVE  Standing
<1>1. UNCHANGED <<status, lease, history, gap>>
  BY DEF PassSuspended, ResetRun, Park, Advance, EndPass, Crash, Restart, ToggleSuspend,
         EditSpec, ByUser, Writes, vars
<1>2. UNCHANGED faults \/ Fault
  BY DEF PassSuspended, ResetRun, Park, Advance, EndPass, Crash, Restart, ToggleSuspend,
         EditSpec, ByUser, vars
<1>3. faults' \in {faults, faults + 1} /\ faults' \in 0..MaxFaults
  BY <1>2, BoundsAssumption DEF Fault, TypeOK
<1> QED
  BY <1>1, <1>3 DEF Standing

LEMMA BeginPassSteps ==
    ASSUME TypeOK, BeginPass
    PROVE  Holding \/ (GivesUp /\ ~(connected /\ Holds(phase)) /\ unobserved' = unobserved)
BY ReleaseGivesUp DEF BeginPass, SyncAlertSilences, Holding

LEMMA Steps ==
    ASSUME TypeOK, [Next]_vars
    PROVE  Holding \/ GivesUp \/ Standing \/ LoseSilence \/ Tick
<1>1. SyncSuspended => GivesUp
  BY ReleaseGivesUp DEF SyncSuspended
<1> QED
  BY <1>1, StandingSteps, BeginPassSteps, CleanupGivesUp DEF Next

-------------------------------------------------------------------------------
(***************************************************************************)
(* Types.                                                                  *)
(***************************************************************************)
SilenceTypes ==
    /\ ids \in StatusIds /\ since \in 0..NoHold /\ hold \in 0..NoHold
    /\ lease \in [Id -> Lease]
    /\ found \in Shown /\ idle \in 0..IdleHorizon /\ gap \in 0..GapHorizon
    /\ served \in Specs \cup {<<>>} /\ faults \in 0..MaxFaults

RunTypes ==
    /\ phase \in Shown
    /\ spec \in Specs /\ edits \in 0..MaxEdits
    /\ unobserved \in BOOLEAN /\ suspended \in BOOLEAN /\ gone \in BOOLEAN
    /\ pass \in {"idle", "suspended", "resetting", "running", "down"}
    /\ connected \in BOOLEAN

LEMMA TypesAre == TypeOK <=> SilenceTypes /\ RunTypes
BY DEF TypeOK, SilenceTypes, RunTypes, StatusIds, Lease

LEMMA Shows == Shown = {"Pending", "HealthChecking", "Draining", "Upgrading", "Completed"}
BY DEF Shown

LEMMA TickIs ==
    ASSUME TypeOK, Tick
    PROVE  /\ lease' \in [Id -> Lease]
           /\ \A x \in Id : \/ lease'[x] = Lapsed
                            \/ /\ Live(x) /\ lease'[x].scope = lease[x].scope
                               /\ lease'[x].left = lease[x].left - 1
           /\ \A x \in Id : lease'[x].left > 0 => lease[x].left > 1
<1>1. ASSUME NEW x \in Id
      PROVE  lease'[x] = IF lease[x].left <= 1 THEN Lapsed ELSE [lease[x] EXCEPT !.left = @ - 1]
  BY DEF Tick
<1>2. lease \in [Id -> Lease] /\ \A x \in Id : lease[x].left \in 0..SilenceTTL
  BY DEF TypeOK, Lease
<1>3. ASSUME NEW x \in Id
      PROVE  /\ lease'[x] \in Lease
             /\ \/ lease'[x] = Lapsed
                \/ /\ Live(x) /\ lease'[x].scope = lease[x].scope
                   /\ lease'[x].left = lease[x].left - 1
             /\ lease'[x].left > 0 => lease[x].left > 1
  <2>1. CASE lease[x].left <= 1
    <3>1. lease'[x] = Lapsed
      BY <1>1, <2>1
    <3> QED
      BY <3>1, LapsedType
  <2>2. CASE ~(lease[x].left <= 1)
    <3>1. lease'[x] = [lease[x] EXCEPT !.left = @ - 1]
      BY <1>1, <2>2
    <3>2. lease[x].left \in 0..SilenceTTL /\ lease[x].left > 1
      BY <1>2, <2>2, Times
    <3> QED
      BY <1>2, <3>1, <3>2, Times DEF Lease, Live
  <2> QED
    BY <2>1, <2>2
<1>4. lease' = [x \in Id |-> lease'[x]]
  BY DEF Tick
<1> QED
  BY <1>3, <1>4

LEMMA InitTypes == Init => TypeOK
<1> SUFFICES ASSUME Init PROVE TypeOK
  OBVIOUS
<1>1. lease \in [Id -> Lease]
  BY LapsedType DEF Init
<1>2. ids \in StatusIds
  BY EmptySeq DEF Init, StatusIds
<1>3. SilenceTypes
  BY <1>1, <1>2, Times, IdleHorizonType, BoundsAssumption, Shows DEF Init, SilenceTypes
<1>4. RunTypes
  <2>1. phase \in Shown /\ edits \in 0..MaxEdits
    BY BoundsAssumption, Shows DEF Init
  <2>2. unobserved \in BOOLEAN /\ suspended \in BOOLEAN /\ gone \in BOOLEAN
        /\ connected \in BOOLEAN /\ spec \in Specs
    BY DEF Init
  <2> QED
    BY <2>1, <2>2 DEF Init, RunTypes
<1> QED
  BY <1>3, <1>4, TypesAre

LEMMA NextSilenceTypes ==
    ASSUME TypeOK, [Next]_vars
    PROVE  SilenceTypes'
<1>1. CASE Holding
  BY <1>1, ExtendLeasesType, Times, IdleHorizonType
  DEF Holding, BeginPass, SilenceTypes, TypeOK
<1>2. CASE GivesUp
  <2>1. ids' \in StatusIds /\ since' \in 0..NoHold
    <3>1. <<>> \in StatusIds /\ ids \in StatusIds /\ since \in 0..NoHold /\ NoHold \in 0..NoHold
      BY Times, EmptySeq, TypesAre DEF SilenceTypes, StatusIds
    <3> QED
      BY <1>2, <3>1 DEF GivesUp, status
  <2> QED
    BY <1>2, <2>1, Times, IdleHorizonType, Shows DEF GivesUp, GiveUp, SilenceTypes, TypeOK
<1>3. CASE Standing
  BY <1>3, TypesAre DEF Standing, SilenceTypes, status, history
<1>4. CASE LoseSilence
  <2>1. lease' \in [Id -> Lease]
    BY <1>4, LapsedType DEF LoseSilence, TypeOK, Lease
  <2> QED
    BY <1>4, <2>1, TypesAre, BoundsAssumption
    DEF LoseSilence, SilenceTypes, Fault, status, history
<1>5. CASE Tick
  <2>1. since' \in 0..NoHold /\ hold' \in 0..NoHold
    BY <1>5, LongerType DEF Tick, TypeOK
  <2>2. gap' \in 0..GapHorizon /\ idle' \in 0..IdleHorizon
    BY <1>5, OlderType, Times, IdleHorizonType DEF Tick, TypeOK
  <2> QED
    BY <1>5, <2>1, <2>2, TickIs, TypesAre DEF Tick, SilenceTypes
<1> QED
  BY <1>1, <1>2, <1>3, <1>4, <1>5, Steps

LEMMA NextRunTypes ==
    ASSUME TypeOK, [Next]_vars
    PROVE  RunTypes'
<1>1. CASE BeginPass \/ SyncSuspended \/ Cleanup
  <2>1. unobserved' \in BOOLEAN
    BY <1>1, BeginPassSteps, ExtendLeasesType, ReleaseGivesUp, TypesAre
    DEF SyncSuspended, Cleanup, Holding, RunTypes, TypeOK
  <2> QED
    BY <1>1, <2>1, TypesAre DEF BeginPass, SyncSuspended, Cleanup, RunTypes, users
<1>2. CASE PassSuspended \/ ResetRun \/ Park \/ Advance \/ EndPass \/ Crash \/ Restart
  BY <1>2, TypesAre, Shows
  DEF PassSuspended, ResetRun, Park, Advance, EndPass, Crash, Restart, Writes, RunTypes, users
<1>3. CASE ToggleSuspend
  <2>1. suspended' \in BOOLEAN
    BY <1>3, Zenon DEF ToggleSuspend
  <2> QED
    BY <1>3, <2>1, TypesAre DEF ToggleSuspend, ByUser, RunTypes
<1>4. CASE EditSpec
  BY <1>4, TypesAre, BoundsAssumption DEF EditSpec, ByUser, RunTypes
<1>5. CASE LoseSilence \/ Tick \/ UNCHANGED vars
  BY <1>5, TypesAre DEF LoseSilence, Tick, vars, RunTypes, users
<1> QED
  BY <1>1, <1>2, <1>3, <1>4, <1>5 DEF Next

LEMMA TypesHold == Spec => []TypeOK
<1>1. TypeOK /\ [Next]_vars => TypeOK'
  <2> SUFFICES ASSUME TypeOK, [Next]_vars PROVE TypeOK'
    OBVIOUS
  <2>1. SilenceTypes' /\ RunTypes'
    BY NextSilenceTypes, NextRunTypes
  <2> QED
    BY <2>1 DEF TypeOK, SilenceTypes, RunTypes, StatusIds, Lease
<1> QED
  BY InitTypes, <1>1, PTL DEF Spec

\* Every variable keeps its type.
THEOREM TypeCorrect == Spec => []TypeOK
BY TypesHold

-------------------------------------------------------------------------------
(***************************************************************************)
(* Silences that nobody holds. A silence that is given up but still in the *)
(* status, as its release failed or was not recorded, may get the tail     *)
(* once more: then a fault has paid for it.                                *)
(***************************************************************************)
Allowance == SilenceTTL + faults * SilenceTail

Lapsing ==
    /\ \A x \in Id : Live(x) => lease[x].left + idle <= Allowance
    /\ ~IsActive(found)
         => \A x \in Id \cap InStatus :
               Live(x) => lease[x].left + idle + SilenceTail <= Allowance

LEMMA AllowanceIs ==
    ASSUME TypeOK
    PROVE  Allowance \in Nat /\ SilenceTTL <= Allowance /\ Allowance < IdleHorizon
<1>1. faults \in Nat /\ MaxFaults - faults \in Nat /\ SilenceTail \in Nat /\ SilenceTTL \in Nat
  BY Times, BoundsAssumption DEF TypeOK
<1>2. faults * SilenceTail \in Nat /\ (MaxFaults - faults) * SilenceTail \in Nat
  BY <1>1
<1>3. MaxFaults * SilenceTail = faults * SilenceTail + (MaxFaults - faults) * SilenceTail
  BY <1>1, BoundsAssumption
<1> QED
  BY <1>1, <1>2, <1>3 DEF Allowance, IdleHorizon

LEMMA AllowanceGrows ==
    ASSUME TypeOK, faults' \in {faults, faults + 1}
    PROVE  /\ Allowance' \in {Allowance, Allowance + SilenceTail}
           /\ faults' = faults + 1 => Allowance' = Allowance + SilenceTail
<1>1. faults \in Nat /\ SilenceTail \in Nat /\ SilenceTTL \in Nat
  BY Times, BoundsAssumption DEF TypeOK
<1>2. (faults + 1) * SilenceTail = faults * SilenceTail + SilenceTail
  BY <1>1
<1>3. faults * SilenceTail \in Nat
  BY <1>1
<1>4. CASE faults' = faults
  BY <1>1, <1>4 DEF Allowance
<1>5. CASE faults' = faults + 1
  <2>1. Allowance' = SilenceTTL + (faults + 1) * SilenceTail
    BY <1>5 DEF Allowance
  <2>2. Allowance' = SilenceTTL + (faults * SilenceTail + SilenceTail)
    BY <1>2, <2>1
  <2>3. PICK product \in Nat : product = faults * SilenceTail
    BY <1>3
  <2>4. Allowance = SilenceTTL + product /\ Allowance' = SilenceTTL + (product + SilenceTail)
    BY <2>2, <2>3 DEF Allowance
  <2> QED
    BY <1>1, <2>4
<1> QED
  BY <1>1, <1>4, <1>5

LEMMA LeftType ==
    ASSUME TypeOK, NEW x \in Id
    PROVE  lease[x].left \in Nat /\ lease[x].left <= SilenceTTL /\ idle \in Nat
BY Times, IdleHorizonType DEF TypeOK

\* A hold is an active run's.
LEMMA HoldsActive ==
    ASSUME Holding
    PROVE  IsActive(found')
BY ExtendLeasesIs DEF Holding, Holds, Sync

LEMMA PendingIsIdle == ~IsActive("Pending") /\ ~IsActive("Completed")
BY DEF IsActive

LEMMA HoldingLapses == TypeOK /\ TypeOK' /\ Lapsing /\ Holding => Lapsing'
<1> SUFFICES ASSUME TypeOK, TypeOK', Lapsing, Holding PROVE Lapsing'
  OBVIOUS
<1>1. idle' = 0 /\ IsActive(found')
  BY HoldsActive, ExtendLeasesType DEF Holding, TypeOK
<1>2. SilenceTTL <= Allowance' /\ Allowance' \in Nat
  <2>1. faults' \in {faults, faults + 1}
    BY ExtendLeasesType DEF Holding, TypeOK
  <2> QED
    BY <2>1, AllowanceIs, AllowanceGrows, Times
<1>3. \A x \in Id : lease'[x].left \in Nat /\ lease'[x].left <= SilenceTTL
  BY Times DEF TypeOK
<1>4. \A x \in Id : lease'[x].left + idle' <= Allowance'
  BY <1>1, <1>2, <1>3, Times
<1> QED
  BY <1>1, <1>4 DEF Lapsing

LEMMA GivesUpLapses == TypeOK /\ Lapsing /\ GivesUp => Lapsing'
<1> SUFFICES ASSUME TypeOK, Lapsing, GivesUp PROVE Lapsing'
  OBVIOUS
<1>1. found' = "Pending" /\ idle' = IF IsActive(found) THEN 0 ELSE idle
  BY DEF GivesUp, GiveUp
<1>2. Allowance \in Nat /\ SilenceTTL <= Allowance
  BY AllowanceIs
<1>3. /\ Allowance' \in {Allowance, Allowance + SilenceTail}
      /\ faults' = faults + 1 => Allowance' = Allowance + SilenceTail
  BY AllowanceGrows DEF GivesUp
<1>4. ASSUME NEW x \in Id, lease'[x].left > 0
      PROVE  /\ lease'[x].left + idle' <= Allowance'
             /\ x \in InStatus' => lease'[x].left + idle' + SilenceTail <= Allowance'
  <2>1. lease[x].left \in Nat /\ lease[x].left <= SilenceTTL /\ idle \in Nat
    BY LeftType
  <2>2. x \in InStatus' => Allowance' = Allowance + SilenceTail
    BY <1>3 DEF GivesUp, InStatus, status
  <2>3. CASE lease'[x] = lease[x]
    <3>1. lease'[x].left + idle' <= Allowance
      BY <1>1, <1>2, <1>4, <2>1, <2>3 DEF Lapsing, Live
    <3> QED
      BY <1>1, <1>2, <1>3, <2>1, <2>2, <2>3, <3>1, Times
  <2>4. CASE x \in InStatus /\ Live(x) /\ lease'[x].left = SilenceTail
    <3>1. lease'[x].left + idle' <= Allowance
      BY <1>1, <1>2, <2>1, <2>4, Times DEF Lapsing
    <3> QED
      BY <1>1, <1>2, <1>3, <2>1, <2>2, <2>4, <3>1, Times
  <2> QED
    BY <2>3, <2>4 DEF GivesUp
<1> QED
  BY <1>4 DEF Lapsing, Live

LEMMA NextLapsing == TypeOK /\ TypeOK' /\ Lapsing /\ [Next]_vars => Lapsing'
<1> SUFFICES ASSUME TypeOK, TypeOK', Lapsing, [Next]_vars PROVE Lapsing'
  OBVIOUS
<1>1. Allowance \in Nat /\ Allowance < IdleHorizon
  BY AllowanceIs
<1>2. CASE Standing \/ LoseSilence
  <2>1. faults' \in {faults, faults + 1} /\ UNCHANGED <<ids, found, idle>>
    BY <1>2 DEF Standing, LoseSilence, Fault, status, history
  <2>2. Allowance' >= Allowance /\ Allowance' \in Nat
    BY <1>1, <2>1, AllowanceGrows, Times
  <2>3. \A x \in Id : lease'[x].left > 0 => lease'[x] = lease[x]
    BY <1>2, LapsedType DEF Standing, LoseSilence, TypeOK
  <2>4. InStatus' = InStatus
    BY <2>1 DEF InStatus
  <2> QED
    BY <1>1, <2>1, <2>2, <2>3, <2>4, LeftType, Times DEF Lapsing, Live
<1>3. CASE Tick
  <2>1. UNCHANGED <<ids, found, faults>> /\ idle' = Older(idle, IdleHorizon)
    BY <1>3 DEF Tick
  <2>2. Allowance' = Allowance /\ InStatus' = InStatus
    BY <2>1 DEF Allowance, InStatus
  <2>3. ASSUME NEW x \in Id, lease'[x].left > 0
        PROVE  Live(x) /\ lease'[x].left + idle' = lease[x].left + idle
    <3>1. Live(x) /\ lease'[x].left = lease[x].left - 1
      BY <1>3, <2>3, TickIs, LapsedType
    <3>2. idle < IdleHorizon /\ idle \in 0..IdleHorizon
      <4>1. idle \in 0..IdleHorizon
        BY DEF TypeOK
      <4>2. lease[x].left + idle <= Allowance
        BY <3>1 DEF Lapsing
      <4>3. lease[x].left \in Nat /\ lease[x].left > 0
        BY <3>1, LeftType, Times DEF Live
      <4> QED
        BY <1>1, <4>1, <4>2, <4>3, IdleHorizonType
    <3>3. idle' = idle + 1
      BY <2>1, <3>2, OlderType, IdleHorizonType
    <3> QED
      BY <3>1, <3>2, <3>3, LeftType
  <2> QED
    BY <2>1, <2>2, <2>3, LeftType, Times DEF Lapsing, Live
<1> QED
  BY <1>2, <1>3, HoldingLapses, GivesUpLapses, Steps

\* Whatever fails, silences that no pass has held for a lease are gone, at most a
\* tail later for every fault: a crashed operator or a broken Alertmanager leaves
\* none behind for good.
THEOREM SilencesLapse == Spec => []EverythingLapses
<1>1. Init => Lapsing
  BY LapsedType DEF Init, Lapsing, Live
<1>2. TypeOK /\ Lapsing => EverythingLapses
  <2> SUFFICES ASSUME TypeOK, Lapsing, idle > Allowance, NEW x \in Id, Live(x)
               PROVE  FALSE
    BY DEF EverythingLapses, NoneLive, Allowance
  <2> QED
    BY LeftType, AllowanceIs DEF Lapsing
<1> QED
  BY TypesHold, NextLapsing, <1>1, <1>2, PTL DEF Spec

-------------------------------------------------------------------------------
(***************************************************************************)
(* What the status says. An entry's ID is its own, and a hold is known by  *)
(* its IDs: status.alertSilencesSince is set as long as there are any.     *)
(***************************************************************************)
Distinct == \A i, j \in DOMAIN ids : ids[i] = ids[j] /\ ids[i] # NoId => i = j
Dated == ids = <<>> <=> since = NoHold

LEMMA OwnId ==
    ASSUME TypeOK, Distinct, NEW i, NEW j, IdOf(i) = IdOf(j), IdOf(i) # NoId
    PROVE  i = j
BY IdOfType DEF Distinct, TypeOK, StatusIds

LEMMA KeptIs ==
    ASSUME NEW answered, NEW target
    PROVE  /\ \A i \in DOMAIN Kept(Answered(answered, target)) :
                 /\ i \in DOMAIN spec
                 /\ Kept(Answered(answered, target))[i]
                      = IF i \in answered THEN target[i] ELSE IdOf(i)
           /\ \A i \in DOMAIN spec :
                 (IF i \in answered THEN target[i] ELSE IdOf(i)) # NoId
                   => i \in DOMAIN Kept(Answered(answered, target))
           /\ Kept(Answered(answered, target)) = <<>>
                \/ Kept(Answered(answered, target)) = Answered(answered, target)
<1> DEFINE new == Answered(answered, target)
<1>1. DOMAIN new = DOMAIN spec
      /\ \A i \in DOMAIN spec : new[i] = IF i \in answered THEN target[i] ELSE IdOf(i)
  BY DEF Answered
<1>2. Kept(new) = IF \A i \in DOMAIN new : new[i] = NoId THEN <<>> ELSE new
  BY DEF Kept
<1> HIDE DEF new
<1>3. CASE \A i \in DOMAIN new : new[i] = NoId
  <2>1. Kept(new) = <<>>
    BY <1>2, <1>3
  <2> QED
    BY <1>1, <1>3, <2>1 DEF new
<1>4. CASE ~(\A i \in DOMAIN new : new[i] = NoId)
  BY <1>1, <1>2, <1>4 DEF new
<1> QED
  BY <1>3, <1>4

LEMMA AnsweredDistinct ==
    ASSUME TypeOK, Distinct, NEW p, NEW answered \in SUBSET Served(p), NEW target \in Targets(p),
           NEW new, new = Kept(Answered(answered, target))
    PROVE  \A i, j \in DOMAIN new : new[i] = new[j] /\ new[i] # NoId => i = j
<1> SUFFICES ASSUME NEW i \in DOMAIN new, NEW j \in DOMAIN new, new[i] = new[j], new[i] # NoId
             PROVE  i = j
  OBVIOUS
<1>1. /\ new[i] = IF i \in answered THEN target[i] ELSE IdOf(i)
      /\ new[j] = IF j \in answered THEN target[j] ELSE IdOf(j)
  BY KeptIs
<1>2. ASSUME NEW k \in answered, NEW l, target[k] = IdOf(l), IdOf(l) # NoId
      PROVE  k = l
  <2>1. IdOf(l) \in InStatus
    BY <1>2, IdOfType DEF TypeOK, StatusIds
  <2>2. target[k] = IdOf(k)
    BY <1>2, <2>1, TargetIs DEF Unused
  <2> QED
    BY <1>2, <2>2, OwnId
<1>3. CASE i \in answered /\ j \in answered
  BY <1>1, <1>3, TargetIs
<1>4. CASE i \in answered /\ j \notin answered
  BY <1>1, <1>2, <1>4
<1>5. CASE i \notin answered /\ j \in answered
  BY <1>1, <1>2, <1>5
<1>6. CASE i \notin answered /\ j \notin answered
  BY <1>1, <1>6, OwnId
<1> QED
  BY <1>3, <1>4, <1>5, <1>6

LEMMA PatchDates ==
    ASSUME Dated, NEW new, NEW lost \in BOOLEAN, Patch(new, lost)
    PROVE  Dated'
<1>1. CASE new = ids \/ lost
  BY <1>1 DEF Patch, Dated, status
<1>2. CASE ~(new = ids \/ lost)
  <2>1. NoHold # 0
    BY Times
  <2> QED
    BY <1>2, <2>1 DEF Patch, Dated
<1> QED
  BY <1>1, <1>2

LEMMA NextIds == TypeOK /\ Distinct /\ Dated /\ [Next]_vars => Distinct' /\ Dated'
<1> SUFFICES ASSUME TypeOK, Distinct, Dated, [Next]_vars PROVE Distinct' /\ Dated'
  OBVIOUS
<1>1. CASE Holding
  <2>1. PICK failed \in SUBSET Served(phase), silent \in SUBSET Served(phase),
             lost \in BOOLEAN, kept \in SUBSET Leftover, target \in Targets(phase) :
               Sync(phase, failed, silent, lost, kept, target)
    BY <1>1, ExtendLeasesIs DEF Holding
  <2>2. PICK new : new = Kept(Answered(Served(phase) \ failed, target))
    OBVIOUS
  <2>3. Patch(new, lost)
    BY <2>1, <2>2 DEF Sync
  <2>4. ids' \in {ids, new}
    BY <2>3 DEF Patch, status
  <2>5. \A i, j \in DOMAIN new : new[i] = new[j] /\ new[i] # NoId => i = j
    <3>1. Served(phase) \ failed \in SUBSET Served(phase)
      OBVIOUS
    <3> QED
      BY <2>2, <3>1, AnsweredDistinct
  <2> QED
    BY <2>3, <2>4, <2>5, PatchDates DEF Distinct
<1>2. CASE GivesUp
  BY <1>2 DEF GivesUp, Distinct, Dated, status
<1>3. CASE Standing \/ LoseSilence
  BY <1>3 DEF Standing, LoseSilence, Distinct, Dated, status
<1>4. CASE Tick
  <2>1. since' = NoHold <=> since = NoHold
    BY <1>4, LongerType DEF Tick, TypeOK
  <2> QED
    BY <1>4, <2>1 DEF Tick, Distinct, Dated
<1> QED
  BY <1>1, <1>2, <1>3, <1>4, Steps

-------------------------------------------------------------------------------
(***************************************************************************)
(* A sync that meets no fault, for the silences and for the status.        *)
(***************************************************************************)
Well(target) ==
    /\ target \in Targets(phase)
    /\ lease' = Leased(Served(phase), target, Leftover)
    /\ Patch(Kept(Answered(Served(phase), target)), FALSE)
    /\ hold' = IF hold = NoHold /\ \E i \in Served(phase) : Created(i) THEN 0 ELSE hold

LEMMA HoldsWell ==
    ASSUME TypeOK, Holding, faults' = 0
    PROVE  \E target : Well(target)
BY ExtendLeasesWell DEF Holding, Well

LEMMA WellIds ==
    ASSUME TypeOK, NEW target, Well(target)
    PROVE  /\ \A i \in DOMAIN ids' : /\ i \in DOMAIN spec
                                     /\ ids'[i] = IF i \in Served(phase) THEN target[i] ELSE IdOf(i)
           /\ \A i \in DOMAIN spec : (IF i \in Served(phase) THEN target[i] ELSE IdOf(i)) # NoId
                                        => i \in DOMAIN ids'
           /\ since' = IF ids' = ids THEN since
                       ELSE IF ids' = <<>> THEN NoHold ELSE IF since = NoHold THEN 0 ELSE since
<1>1. PICK new : new = Kept(Answered(Served(phase), target))
  OBVIOUS
<1>2. ids' = new
  BY <1>1 DEF Well, Patch, status
<1>3. since' = IF new = ids THEN since
               ELSE IF new = <<>> THEN NoHold ELSE IF since = NoHold THEN 0 ELSE since
  BY <1>1 DEF Well, Patch, status
<1> QED
  BY <1>1, <1>2, <1>3, KeptIs

LEMMA PostedIs ==
    ASSUME TypeOK, NEW target, Well(target), NEW i \in Served(phase)
    PROVE  i \in DOMAIN spec /\ i \in DOMAIN ids' /\ ids'[i] = target[i] /\ target[i] \in Id
<1>1. target[i] \in Id /\ i \in DOMAIN spec
  BY TargetIs, ServedIs DEF Well
<1> QED
  BY <1>1, WellIds, IdAssumption

\* A silence the sync does not post: one that is left alone stays in the status, and
\* one that is given up leaves it.
LEMMA NotPosted ==
    ASSUME TypeOK, Distinct, NEW target, Well(target), NEW x \in Id,
           ~Posted(Served(phase), target, x), lease'[x].left > 0
    PROVE  /\ Live(x) /\ lease'[x].scope = lease[x].scope
           /\ \/ x \in InStatus /\ x \notin InStatus' /\ lease'[x].left = SilenceTail
              \/ (x \in InStatus <=> x \in InStatus') /\ lease'[x] = lease[x]
<1>1. lease \in [Id -> Lease] /\ ids \in StatusIds
  BY DEF TypeOK, Lease, StatusIds
<1>2. ~Replaced(Served(phase), x) /\ lease'[x] = ExpireAll(lease, Leftover)[x]
  BY LeasedIs, LapsedType DEF Well
<1>3. /\ lease'[x].scope = lease[x].scope
      /\ x \notin Leftover \/ ~Live(x) => lease'[x] = lease[x]
      /\ x \in Leftover /\ Live(x) => lease'[x].left = SilenceTail
  BY <1>1, <1>2, ExpireAllIs
<1>4. Live(x)
  BY <1>3 DEF Live
<1>5. ASSUME NEW i \in DOMAIN spec, i \in DOMAIN ids', ids'[i] = x
      PROVE  IdOf(i) = x /\ x \in InStatus
  <2>1. CASE i \in Served(phase)
    <3>1. target[i] = x
      BY <1>5, <2>1, WellIds
    <3>2. Fresh(i)
      BY <2>1, <3>1 DEF Posted
    <3>3. target[i] = IdOf(i)
      BY <2>1, <3>2, TargetIs DEF Created, Well
    <3> QED
      BY <1>1, <3>1, <3>3, IdOfType, IdAssumption
  <2>2. CASE i \notin Served(phase)
    BY <1>1, <1>5, <2>2, WellIds, IdOfType, IdAssumption
  <2> QED
    BY <2>1, <2>2
<1>6. x \in InStatus' => x \in InStatus /\ \E i \in DOMAIN spec : IdOf(i) = x
  <2> SUFFICES ASSUME NEW i \in DOMAIN ids', ids'[i] = x
               PROVE  x \in InStatus /\ \E k \in DOMAIN spec : IdOf(k) = x
    BY DEF InStatus
  <2>1. i \in DOMAIN spec
    BY WellIds
  <2> QED
    BY <1>5, <2>1
<1>7. CASE x \in Leftover
  <2>1. PICK j \in DOMAIN ids \ DOMAIN spec : ids[j] = x
    BY <1>7 DEF Leftover
  <2>2. IdOf(j) = x /\ x # NoId
    BY <2>1, IdAssumption DEF IdOf
  <2>3. x \notin InStatus'
    BY <1>6, <2>1, <2>2, OwnId
  <2> QED
    BY <1>3, <1>4, <1>7, <2>1, <2>3 DEF InStatus
<1>8. CASE x \notin Leftover
  <2>1. ASSUME x \in InStatus PROVE x \in InStatus'
    <3>1. PICK k \in DOMAIN ids : ids[k] = x
      BY <2>1 DEF InStatus
    <3>2. k \in DOMAIN spec /\ IdOf(k) = x /\ x # NoId
      BY <1>8, <3>1, IdAssumption DEF Leftover, IdOf
    <3>3. k \in Served(phase) => Fresh(k) /\ target[k] = x
      <4> SUFFICES ASSUME k \in Served(phase) PROVE Fresh(k) /\ target[k] = x
        OBVIOUS
      <4>1. ~Created(k)
        BY <1>2, <3>2 DEF Replaced
      <4>2. target[k] = x
        BY <3>2, <4>1, TargetIs DEF Well
      <4> QED
        BY <4>2 DEF Posted
    <3>4. k \in DOMAIN ids' /\ ids'[k] = x
      BY <3>2, <3>3, WellIds
    <3> QED
      BY <3>4 DEF InStatus
  <2> QED
    BY <1>3, <1>4, <1>6, <1>8, <2>1
<1> QED
  BY <1>7, <1>8

-------------------------------------------------------------------------------
(***************************************************************************)
(* Without a fault the operator is up and connected.                       *)
(***************************************************************************)
Up ==
    /\ pass = "down" => faults > 0
    /\ faults = 0 => connected

LEMMA FaultsStay ==
    ASSUME TypeOK, [Next]_vars
    PROVE  /\ faults \in Nat /\ faults' \in {faults, faults + 1}
           /\ faults' = 0 => faults = 0
<1>1. faults \in Nat
  BY BoundsAssumption DEF TypeOK
<1>2. faults' \in {faults, faults + 1}
  <2>1. CASE Holding
    BY <2>1, ExtendLeasesType DEF Holding, TypeOK
  <2>2. CASE ~Holding
    BY <2>2, Steps DEF GivesUp, Standing, LoseSilence, Fault, Tick
  <2> QED
    BY <2>1, <2>2
<1> QED
  BY <1>1, <1>2

LEMMA NextUp == TypeOK /\ Up /\ [Next]_vars => Up'
<1> SUFFICES ASSUME TypeOK, Up, [Next]_vars PROVE Up'
  OBVIOUS
<1>1. faults \in Nat /\ faults' \in {faults, faults + 1} /\ (faults' = 0 => faults = 0)
  BY FaultsStay
<1>2. pass' = "down" => faults' > 0
  <2>1. Crash \/ pass' = pass \/ pass' # "down"
    BY DEF Next, PassSuspended, SyncSuspended, BeginPass, ResetRun, Park, Advance, EndPass,
           Cleanup, Restart, ToggleSuspend, EditSpec, LoseSilence, Tick, ByUser, vars
  <2>2. Crash => faults' = faults + 1
    BY DEF Crash, Fault
  <2> QED
    BY <1>1, <2>1, <2>2 DEF Up
<1>3. faults' = 0 => connected'
  <2>1. Restart \/ connected' = connected
    BY DEF Next, PassSuspended, SyncSuspended, BeginPass, ResetRun, Park, Advance, EndPass,
           Cleanup, Crash, ToggleSuspend, EditSpec, LoseSilence, Tick, ByUser, Writes, vars
  <2>2. Restart /\ faults' = 0 => pass = "down" /\ faults = 0
    BY <1>1 DEF Restart
  <2>3. faults = 0 => connected /\ pass # "down"
    BY DEF Up
  <2>4. CASE Restart
    BY <2>2, <2>3, <2>4
  <2>5. CASE connected' = connected
    BY <1>1, <2>3, <2>5
  <2> QED
    BY <2>1, <2>4, <2>5
<1> QED
  BY <1>2, <1>3 DEF Up

-------------------------------------------------------------------------------
(***************************************************************************)
(* Silences that are given up. Without a fault a sync that does not hold   *)
(* silences gives all of them up, and the first entry of a hold has an ID: *)
(* the sync that began it called Ensure for every entry.                   *)
(***************************************************************************)
First == faults = 0 /\ ids # <<>> => ids[1] \in Id
Known == faults = 0 => \A x \in Id : Live(x) => x \in InStatus \/ lease[x].left <= SilenceTail
Released ==
    faults = 0 /\ ~IsActive(found)
        => ids = <<>> /\ \A x \in Id : Live(x) => lease[x].left + idle <= SilenceTail

LEMMA NextFirst == TypeOK /\ First /\ Dated /\ [Next]_vars => First'
<1> SUFFICES ASSUME TypeOK, First, Dated, [Next]_vars, faults' = 0, ids' # <<>>
             PROVE  ids'[1] \in Id
  BY DEF First
<1>1. faults = 0
  BY FaultsStay
<1>2. CASE Holding
  <2>1. PICK target : Well(target)
    BY <1>2, HoldsWell
  <2>2. 1 \in DOMAIN ids'
    <3>1. ids' \in StatusIds
      BY <1>2, ExtendLeasesType DEF Holding, TypeOK
    <3> QED
      BY <3>1, LenProperties, EmptySeq DEF StatusIds
  <2>3. 1 \in DOMAIN spec /\ ids'[1] = IF 1 \in Served(phase) THEN target[1] ELSE IdOf(1)
    BY <2>1, <2>2, WellIds
  <2>4. CASE 1 \in Served(phase)
    BY <2>1, <2>3, <2>4, PostedIs
  <2>5. CASE 1 \notin Served(phase) /\ ids # <<>>
    <3>1. 1 \in DOMAIN ids
      BY <2>5, Positions DEF TypeOK, StatusIds
    <3> QED
      BY <1>1, <2>3, <2>5, <3>1 DEF First, IdOf
  <2>6. CASE 1 \notin Served(phase) /\ ids = <<>>
    <3>1. ~Overdue(1)
      BY <2>6 DEF Dated, Overdue
    <3>2. ~IsInFlight(phase)
      BY <2>3, <2>6, <3>1 DEF Served
    <3>3. \A i \in DOMAIN spec : IdOf(i) = NoId
      BY <2>6 DEF IdOf
    <3>4. PICK i \in DOMAIN ids' : ids'[i] # NoId
      <4>1. Kept(Answered(Served(phase), target)) # <<>>
        BY <2>1, <2>6 DEF Well, Patch, status
      <4>2. ids' = Kept(Answered(Served(phase), target))
        BY <2>1 DEF Well, Patch, status
      <4> QED
        BY <4>1, <4>2 DEF Kept
    <3>5. i \in DOMAIN spec /\ i \in Served(phase)
      BY <2>1, <3>3, <3>4, WellIds
    <3> QED
      BY <3>2, <3>3, <3>5 DEF Served
  <2> QED
    BY <2>4, <2>5, <2>6
<1>3. CASE ~Holding
  <2>1. ids' = ids
    BY <1>3, Steps DEF GivesUp, Standing, LoseSilence, Tick, status
  <2> QED
    BY <1>1, <2>1 DEF First
<1> QED
  BY <1>2, <1>3

LEMMA NextKnown == TypeOK /\ Up /\ Distinct /\ Known /\ [Next]_vars => Known'
<1> SUFFICES ASSUME TypeOK, Up, Distinct, Known, [Next]_vars, faults' = 0,
                    NEW x \in Id, lease'[x].left > 0
             PROVE  x \in InStatus' \/ lease'[x].left <= SilenceTail
  BY DEF Known, Live
<1>1. faults = 0 /\ connected
  BY FaultsStay DEF Up
<1>2. Live(x) => x \in InStatus \/ lease[x].left <= SilenceTail
  BY <1>1 DEF Known
<1>3. CASE Holding
  <2>1. PICK target : Well(target)
    BY <1>3, HoldsWell
  <2>2. CASE Posted(Served(phase), target, x)
    BY <2>1, <2>2, PostedIs DEF Posted, InStatus
  <2>3. CASE ~Posted(Served(phase), target, x)
    BY <1>2, <2>1, <2>3, NotPosted, Times
  <2> QED
    BY <2>2, <2>3
<1>4. CASE GivesUp
  BY <1>1, <1>2, <1>4, Times DEF GivesUp, Live
<1>5. CASE Standing \/ LoseSilence
  <2>1. lease'[x] = lease[x] /\ InStatus' = InStatus
    BY <1>5, LapsedType DEF Standing, LoseSilence, InStatus, status, TypeOK
  <2> QED
    BY <1>2, <2>1 DEF Live
<1>6. CASE Tick
  <2>1. InStatus' = InStatus
    BY <1>6 DEF Tick, InStatus
  <2>2. Live(x) /\ lease'[x].left = lease[x].left - 1
    BY <1>6, TickIs, LapsedType
  <2> QED
    BY <1>2, <2>1, <2>2, LeftType, Times
<1> QED
  BY <1>3, <1>4, <1>5, <1>6, Steps

LEMMA NextReleased == TypeOK /\ TypeOK' /\ Up /\ Known /\ Released /\ [Next]_vars => Released'
<1> SUFFICES ASSUME TypeOK, TypeOK', Up, Known, Released, [Next]_vars, faults' = 0, ~IsActive(found')
             PROVE  /\ ids' = <<>>
                    /\ \A x \in Id : lease'[x].left > 0 => lease'[x].left + idle' <= SilenceTail
  BY DEF Released, Live
<1>1. faults = 0 /\ connected
  BY FaultsStay DEF Up
<1>2. ~Holding
  BY HoldsActive
<1>3. CASE GivesUp
  <2>1. ids' = <<>>
    BY <1>1, <1>3 DEF GivesUp, status
  <2>2. ASSUME NEW x \in Id, lease'[x].left > 0
        PROVE  lease'[x].left + idle' <= SilenceTail
    <3>1. idle' = IF IsActive(found) THEN 0 ELSE idle
      BY <1>3 DEF GivesUp, GiveUp
    <3>2. \/ lease'[x] = lease[x] /\ Live(x) /\ x \notin InStatus
          \/ lease'[x] = lease[x] /\ Live(x) /\ lease[x].left = SilenceTail /\ x \in InStatus
          \/ x \in InStatus /\ lease'[x].left = SilenceTail
      BY <1>1, <1>3, <2>2 DEF GivesUp, Live
    <3>3. CASE IsActive(found)
      BY <1>1, <3>1, <3>2, <3>3, LeftType, Times DEF Known
    <3>4. CASE ~IsActive(found)
      <4>1. InStatus = {} /\ (Live(x) => lease[x].left + idle <= SilenceTail)
        BY <1>1, <3>4 DEF Released, InStatus
      <4> QED
        BY <3>1, <3>2, <3>4, <4>1
    <3> QED
      BY <3>3, <3>4
  <2> QED
    BY <2>1, <2>2
<1>4. CASE Standing \/ LoseSilence
  <2>1. UNCHANGED <<ids, found, idle>>
    BY <1>4 DEF Standing, LoseSilence, status, history
  <2>2. \A x \in Id : lease'[x].left > 0 => lease'[x] = lease[x]
    BY <1>4, LapsedType DEF Standing, LoseSilence, TypeOK
  <2> QED
    BY <1>1, <2>1, <2>2 DEF Released, Live
<1>5. CASE Tick
  <2>1. UNCHANGED <<ids, found>> /\ idle' = Older(idle, IdleHorizon)
    BY <1>5 DEF Tick
  <2>2. ASSUME NEW x \in Id, lease'[x].left > 0
        PROVE  lease'[x].left + idle' <= lease[x].left + idle /\ Live(x)
    <3>1. Live(x) /\ lease'[x].left = lease[x].left - 1
      BY <1>5, <2>2, TickIs, LapsedType
    <3>2. idle' \in {idle, idle + 1}
      BY <2>1 DEF Older
    <3> QED
      BY <3>1, <3>2, LeftType
  <2>3. ids = <<>> /\ \A x \in Id : Live(x) => lease[x].left + idle <= SilenceTail
    BY <1>1, <2>1 DEF Released
  <2>4. ASSUME NEW x \in Id, lease'[x].left > 0
        PROVE  lease'[x].left + idle' <= SilenceTail
    <3>1. lease'[x].left \in Nat /\ idle' \in Nat /\ lease[x].left \in Nat /\ idle \in Nat
      BY Times, IdleHorizonType DEF TypeOK
    <3> QED
      BY <2>2, <2>3, <2>4, <3>1, Times
  <2> QED
    BY <2>1, <2>3, <2>4
<1> QED
  BY <1>2, <1>3, <1>4, <1>5, Steps

Calm == Up /\ Distinct /\ Dated /\ First /\ Known /\ Released

LEMMA CalmHolds == Spec => []Calm
<1>1. Init => Calm
  <2> SUFFICES ASSUME Init PROVE Calm
    OBVIOUS
  <2>1. ids = <<>> /\ since = NoHold /\ \A x \in Id : ~Live(x)
    BY LapsedType DEF Init, Live
  <2> QED
    BY <2>1, PendingIsIdle DEF Init, Calm, Up, Distinct, Dated, First, Known, Released
<1>2. TypeOK /\ TypeOK' /\ Calm /\ [Next]_vars => Calm'
  BY NextUp, NextIds, NextFirst, NextKnown, NextReleased DEF Calm
<1> QED
  BY TypesHold, <1>1, <1>2, PTL DEF Spec

\* Without a fault, the tail after a sync found the run parked, ended, suspended or
\* deleted, Alertmanager has no silence of it any more.
THEOREM SilencesAreReleased == Spec => []ReleasedAfterTail
<1>1. TypeOK /\ Calm => ReleasedAfterTail
  <2> SUFFICES ASSUME TypeOK, Calm, faults = 0, ~IsActive(found), idle > SilenceTail,
                      NEW x \in Id, Live(x)
               PROVE  FALSE
    BY DEF ReleasedAfterTail, NoneLive
  <2>1. lease[x].left + idle <= SilenceTail
    BY DEF Calm, Released
  <2>2. lease[x].left > 0
    BY DEF Live
  <2> QED
    BY <2>1, <2>2, LeftType, Times
<1> QED
  BY TypesHold, CalmHolds, <1>1, PTL

-------------------------------------------------------------------------------
(***************************************************************************)
(* The length of a hold. No sync extends a lease once the hold is older    *)
(* than the entry's maxDuration; what an entry that leaves the spec gets   *)
(* is the tail.                                                            *)
(***************************************************************************)
Named == \A x \in Id : Live(x) => lease[x].scope \in Scope
HeldUntil(x) == MaxDuration[lease[x].scope] + SilenceTTL
Stuck ==
    faults = 0 =>
        /\ hold = since
        /\ since # NoHold =>
             \A x \in Id : Live(x) =>
                /\ x \in InStatus => lease[x].left + since <= HeldUntil(x)
                /\ lease[x].left + since < HeldUntil(x) + SilenceTail

\* A silence is posted with the matchers of an entry, and keeps them.
LEMMA NextNamed == TypeOK /\ Named /\ [Next]_vars => Named'
<1> SUFFICES ASSUME TypeOK, Named, [Next]_vars, NEW x \in Id, lease'[x].left > 0
             PROVE  lease'[x].scope \in Scope
  BY DEF Named, Live
<1>1. Live(x) => lease[x].scope \in Scope
  BY DEF Named
<1>2. ASSUME NEW S
      PROVE  /\ ExpireAll(lease, S)[x].scope = lease[x].scope
             /\ ExpireAll(lease, S)[x].left > 0 => Live(x)
  <2>1. lease \in [Id -> Lease]
    BY DEF TypeOK, Lease
  <2> QED
    BY <2>1, ExpireAllIs DEF Live
<1>3. CASE Holding
  <2>1. PICK failed \in SUBSET Served(phase), silent \in SUBSET Served(phase),
             lost \in BOOLEAN, kept \in SUBSET Leftover, target \in Targets(phase) :
               Sync(phase, failed, silent, lost, kept, target)
    BY <1>3, ExtendLeasesIs DEF Holding
  <2>2. PICK done \in SUBSET Served(phase) : done = (Served(phase) \ failed) \cup silent
    OBVIOUS
  <2>3. lease'[x] = Leased(done, target, Leftover \ kept)[x]
    BY <2>1, <2>2 DEF Sync
  <2>4. CASE Posted(done, target, x)
    <3>1. PICK i \in done : ~Fresh(i) /\ target[i] = x
      BY <2>4 DEF Posted
    <3>2. Leased(done, target, Leftover \ kept)[x] = [scope |-> spec[i], left |-> SilenceTTL]
      BY <3>1, LeasedIs
    <3>3. lease'[x].scope = spec[i]
      BY <2>3, <3>2
    <3> QED
      BY <3>1, <3>3, ServedIs, ScopeType DEF TypeOK
  <2>5. CASE ~Posted(done, target, x)
    <3>1. Leased(done, target, Leftover \ kept)[x]
            \in {Lapsed, ExpireAll(lease, Leftover \ kept)[x]}
      BY <2>5, LeasedIs
    <3>2. lease'[x] = ExpireAll(lease, Leftover \ kept)[x]
      BY <2>3, <3>1, LapsedType
    <3> QED
      BY <1>1, <1>2, <3>2
  <2> QED
    BY <2>4, <2>5
<1>4. CASE GivesUp
  BY <1>1, <1>4 DEF GivesUp, Live
<1>5. CASE Standing \/ LoseSilence
  <2>1. lease'[x] = lease[x]
    BY <1>5, LapsedType DEF Standing, LoseSilence, TypeOK
  <2> QED
    BY <1>1, <2>1 DEF Live
<1>6. CASE Tick
  BY <1>1, <1>6, TickIs, LapsedType
<1> QED
  BY <1>3, <1>4, <1>5, <1>6, Steps

\* A sync that meets no fault begins and ends a hold with the IDs.
LEMMA HoldFollows ==
    ASSUME TypeOK, Dated, First, NEW target, Well(target), faults = 0, hold = since,
           spec # <<>>
    PROVE  hold' = since'
<1>1. CASE since = NoHold
  <2>1. ids = <<>> /\ \A i : IdOf(i) = NoId
    BY <1>1 DEF Dated, IdOf
  <2>2. \A i \in DOMAIN spec : Created(i)
    BY <2>1, NoIdIsNotLive DEF Created, Fresh, Extended
  <2>3. CASE \E i : i \in Served(phase)
    <3>1. PICK i : i \in Served(phase)
      BY <2>3
    <3>2. i \in DOMAIN ids' /\ i \in DOMAIN spec
      BY <3>1, PostedIs
    <3>3. ids' # <<>>
      BY <3>2
    <3>4. since' = 0
      BY <1>1, <2>1, <3>3, WellIds
    <3> QED
      BY <1>1, <2>2, <3>1, <3>2, <3>4 DEF Well
  <2>4. CASE ~\E i : i \in Served(phase)
    <3>1. hold' = hold
      BY <2>4 DEF Well
    <3>2. Kept(Answered(Served(phase), target)) = <<>>
      BY <2>1, <2>4 DEF Kept, Answered
    <3>3. since' = NoHold
      BY <1>1, <2>1, <3>2 DEF Well, Patch, status
    <3> QED
      BY <1>1, <3>1, <3>3
  <2> QED
    BY <2>3, <2>4
<1>2. CASE since # NoHold
  <2>1. hold' = hold
    BY <1>2 DEF Well
  <2>2. ids # <<>> /\ ids[1] \in Id /\ 1 \in DOMAIN ids
    BY <1>2, Positions DEF Dated, First, TypeOK, StatusIds
  <2>3. 1 \in DOMAIN spec
    BY Positions DEF TypeOK
  <2>4. 1 \in DOMAIN ids'
    <3>1. IdOf(1) # NoId
      BY <2>2, IdAssumption DEF IdOf
    <3> QED
      BY <2>3, <3>1, PostedIs, WellIds
  <2>5. ids' # <<>>
    BY <2>4
  <2> QED
    BY <1>2, <2>1, <2>5, WellIds
<1> QED
  BY <1>1, <1>2

\* The end of what a silence may last is a time that a hold is told apart by.
LEMMA HeldUntilType ==
    ASSUME NEW x \in Id, lease[x].scope \in Scope
    PROVE  HeldUntil(x) \in Nat /\ HeldUntil(x) >= SilenceTTL
           /\ HeldUntil(x) + SilenceTail <= Horizon
BY DurationType, Times DEF HeldUntil

LEMMA HoldingStuck ==
    ASSUME TypeOK, TypeOK', Calm, Named, Named', Stuck, Holding, faults = 0, faults' = 0
    PROVE  Stuck'
<1>1. PICK target : Well(target)
  BY HoldsWell
<1>2. hold = since
  BY DEF Stuck
<1>3. hold' = since'
  BY <1>1, <1>2, HoldFollows DEF Calm, Holding, Holds
<1>4. ASSUME since' # NoHold
      PROVE  IF since = NoHold THEN since' = 0 ELSE since' = since
  BY <1>1, <1>4, WellIds
<1>5. ASSUME since' # NoHold, NEW x \in Id, lease'[x].left > 0
      PROVE  /\ x \in InStatus' => lease'[x].left + since' <= HeldUntil(x)'
             /\ lease'[x].left + since' < HeldUntil(x)' + SilenceTail
  <2>1. lease'[x].left \in Nat /\ lease'[x].left <= SilenceTTL /\ since' \in Nat /\ since \in Nat
    BY Times DEF TypeOK
  <2>2. PICK most : most = MaxDuration[lease'[x].scope]
    OBVIOUS
  <2>3. most \in Nat /\ HeldUntil(x)' = most + SilenceTTL
    <3>1. lease'[x].scope \in Scope
      BY <1>5 DEF Named, Live
    <3> QED
      BY <2>2, <3>1, DurationType DEF HeldUntil
  <2>4. CASE since' <= most
    BY <2>1, <2>3, <2>4, Times
  <2>5. CASE ~(since' <= most)
    <3>1. since # NoHold /\ since' = since
      BY <1>4, <1>5, <2>1, <2>3, <2>5, Times
    <3>2. ~Posted(Served(phase), target, x)
      <4> SUFFICES ASSUME NEW i \in Served(phase), ~Fresh(i), target[i] = x PROVE FALSE
        BY DEF Posted
      <4>1. lease'[x] = [scope |-> spec[i], left |-> SilenceTTL]
        BY <1>1, LeasedIs DEF Well
      <4>2. most = MaxDuration[spec[i]]
        BY <2>2, <4>1
      <4>3. ~Overdue(i)
        BY ServedIs
      <4> QED
        BY <2>1, <2>3, <2>5, <3>1, <4>2, <4>3 DEF Overdue
    <3>3. /\ Live(x) /\ lease'[x].scope = lease[x].scope
          /\ \/ x \in InStatus /\ x \notin InStatus' /\ lease'[x].left = SilenceTail
             \/ (x \in InStatus <=> x \in InStatus') /\ lease'[x] = lease[x]
      BY <1>1, <1>5, <3>2, NotPosted DEF Calm
    <3>4. HeldUntil(x) = most + SilenceTTL
      BY <2>2, <3>3 DEF HeldUntil
    <3>5. /\ x \in InStatus => lease[x].left + since <= HeldUntil(x)
          /\ lease[x].left + since < HeldUntil(x) + SilenceTail
      BY <3>1, <3>3 DEF Stuck
    <3>6. lease[x].left > 0
      BY <3>3 DEF Live
    <3> QED
      BY <2>1, <2>3, <3>1, <3>3, <3>4, <3>5, <3>6, LeftType, Times
  <2> QED
    BY <2>1, <2>3, <2>4, <2>5
<1> QED
  BY <1>3, <1>5 DEF Stuck, Live

LEMMA NextStuck ==
    TypeOK /\ TypeOK' /\ Calm /\ Named /\ Named' /\ Stuck /\ [Next]_vars => Stuck'
<1> SUFFICES ASSUME TypeOK, TypeOK', Calm, Named, Named', Stuck, [Next]_vars, faults' = 0
             PROVE  Stuck'
  BY DEF Stuck
<1>1. faults = 0 /\ hold = since
  BY FaultsStay DEF Stuck
<1>2. CASE GivesUp
  <2>1. since' = NoHold
    BY <1>1, <1>2 DEF GivesUp, status, Calm, Dated
  <2> QED
    BY <1>2, <2>1 DEF GivesUp, GiveUp, Stuck
<1>3. CASE Standing \/ LoseSilence
  <2>1. since' = since /\ hold' = hold /\ InStatus' = InStatus
    BY <1>3 DEF Standing, LoseSilence, status, history, InStatus
  <2>2. \A x \in Id : lease'[x].left > 0 => lease'[x] = lease[x]
    BY <1>3, LapsedType DEF Standing, LoseSilence, TypeOK
  <2> QED
    BY <1>1, <2>1, <2>2 DEF Stuck, HeldUntil, Live
<1>4. CASE Tick
  <2>1. hold' = since' /\ since' = Longer(since) /\ InStatus' = InStatus
    BY <1>1, <1>4 DEF Tick, InStatus
  <2>2. ASSUME since' # NoHold, NEW x \in Id, lease'[x].left > 0
        PROVE  /\ x \in InStatus' => lease'[x].left + since' <= HeldUntil(x)'
               /\ lease'[x].left + since' < HeldUntil(x)' + SilenceTail
    <3>1. Live(x) /\ lease'[x].left = lease[x].left - 1 /\ lease'[x].scope = lease[x].scope
      BY <1>4, <2>2, TickIs, LapsedType
    <3>2. since \in 0..NoHold
      BY DEF TypeOK
    <3>3. since # NoHold /\ since' \in {since, since + 1}
      BY <2>1, <2>2, <3>2, LongerType, Times
    <3>4. /\ x \in InStatus => lease[x].left + since <= HeldUntil(x)
          /\ lease[x].left + since < HeldUntil(x) + SilenceTail
      BY <1>1, <3>1, <3>3 DEF Stuck
    <3>5. HeldUntil(x)' = HeldUntil(x) /\ HeldUntil(x) \in Nat
      BY <3>1, HeldUntilType DEF HeldUntil, Named
    <3> QED
      BY <2>1, <3>1, <3>2, <3>3, <3>4, <3>5, LeftType, Times
  <2> QED
    BY <2>1, <2>2 DEF Stuck, Live
<1> QED
  BY <1>1, <1>2, <1>3, <1>4, HoldingStuck, Steps

\* Without a fault a run that is stuck while active alerts again: whatever the passes
\* and the edits of its spec are, what an entry silences is silenced no longer than
\* its own maxDuration, a lease and the tail after the hold began.
THEOREM StuckRunsAreSeen == Spec => []StuckRunsAlert
<1>1. Init => Named /\ Stuck
  BY LapsedType DEF Init, Named, Live, Stuck
<1>2. TypeOK /\ Named /\ Stuck => StuckRunsAlert
  <2> SUFFICES ASSUME TypeOK, Named, Stuck, faults = 0, NEW x \in Id, Live(x),
                      hold \in MaxDuration[lease[x].scope] + SilenceTTL + SilenceTail..Horizon
               PROVE  FALSE
    BY DEF StuckRunsAlert
  <2>1. HeldUntil(x) \in Nat /\ hold \in HeldUntil(x) + SilenceTail..Horizon
    BY HeldUntilType DEF HeldUntil, Named
  <2>2. since = hold /\ since # NoHold /\ since \in Nat
    BY <2>1, Times DEF Stuck
  <2>3. lease[x].left + since < HeldUntil(x) + SilenceTail
    BY <2>2 DEF Stuck
  <2>4. lease[x].left > 0
    BY DEF Live
  <2> QED
    BY <2>1, <2>2, <2>3, <2>4, LeftType, Times
<1> QED
  BY TypesHold, CalmHolds, NextNamed, NextStuck, <1>1, <1>2, PTL DEF Spec

-------------------------------------------------------------------------------
(***************************************************************************)
(* Silences that are held. A sync leaves every entry that is not overdue   *)
(* more than TTL - leeway, of which time takes what it takes; so a lease   *)
(* lasts that long, and until the next sync if it comes by then.           *)
(***************************************************************************)
InTime == gap <= SilenceTTL - RenewLeeway
Leases ==
    faults = 0 /\ IsInFlight(found)
        => /\ ids # <<>> /\ served # <<>>
           /\ \A i \in DOMAIN ids :
                 /\ i \in DOMAIN served
                 /\ since <= MaxDuration[served[i]]
                      => /\ ids[i] \in Id
                         /\ InTime => lease[ids[i]].left + gap > SilenceTTL - RenewLeeway

\* The silence of an entry whose lease is fresh is not touched.
LEMMA FreshStays ==
    ASSUME TypeOK, Distinct, NEW target, Well(target), NEW i \in Served(phase), Fresh(i)
    PROVE  target[i] \in Id /\ Live(target[i]) /\ lease'[target[i]] = lease[target[i]]
           /\ lease[target[i]].left > SilenceTTL - RenewLeeway
<1> DEFINE x == target[i]
<1>1. x = IdOf(i) /\ x \in Id /\ Live(x) /\ lease[x].left > SilenceTTL - RenewLeeway
  BY TargetIs DEF Well, Created, Fresh
<1>2. IdOf(i) # NoId /\ i \in DOMAIN spec
  BY <1>1, IdAssumption, ServedIs
<1>3. ~Posted(Served(phase), target, x)
  BY TargetIs DEF Well, Posted
<1>4. ~Replaced(Served(phase), x)
  BY <1>1, <1>2, OwnId DEF Replaced, Created
<1>5. x \notin Leftover
  <2> SUFFICES ASSUME NEW k \in DOMAIN ids \ DOMAIN spec, ids[k] = x PROVE FALSE
    BY DEF Leftover
  <2> QED
    BY <1>1, <1>2, OwnId DEF IdOf
<1>6. lease \in [Id -> Lease]
  BY DEF TypeOK, Lease
<1>7. lease'[x] = ExpireAll(lease, Leftover)[x]
  BY <1>1, <1>3, <1>4, LeasedIs DEF Well
<1>8. ExpireAll(lease, Leftover)[x] = lease[x]
  BY <1>1, <1>5, <1>6, ExpireAllIs
<1> QED
  BY <1>1, <1>7, <1>8

\* The first entry has an ID after a sync of a run in flight.
LEMMA HoldingFirst ==
    ASSUME TypeOK, Calm, Holding, faults = 0, IsInFlight(phase), NEW target, Well(target)
    PROVE  ids' # <<>>
<1>1. 1 \in DOMAIN spec
  BY Positions DEF Holding, Holds, TypeOK
<1>2. CASE 1 \in Served(phase)
  <2>1. 1 \in DOMAIN ids'
    BY <1>2, PostedIs
  <2> QED
    BY <2>1
<1>3. CASE 1 \notin Served(phase)
  <2>1. since # NoHold
    BY <1>1, <1>3 DEF Served, Overdue
  <2>2. ids # <<>>
    BY <2>1 DEF Calm, Dated
  <2>3. ids[1] \in Id /\ 1 \in DOMAIN ids
    BY <2>2, Positions DEF Calm, First, TypeOK, StatusIds
  <2>4. IdOf(1) # NoId
    BY <2>3, IdAssumption DEF IdOf
  <2>5. 1 \in DOMAIN ids'
    BY <1>1, <1>3, <2>4, WellIds
  <2> QED
    BY <2>5
<1> QED
  BY <1>2, <1>3

LEMMA HoldingLeases ==
    ASSUME TypeOK, Calm, Holding, faults = 0, faults' = 0, IsInFlight(phase)
    PROVE  Leases'
<1>1. PICK target : Well(target)
  BY HoldsWell
<1>2. ids' # <<>>
  BY <1>1, HoldingFirst
<1>3. gap' = 0 /\ served' = spec /\ spec # <<>>
  BY ExtendLeasesType DEF Holding, BeginPass, Holds, TypeOK
<1>4. ASSUME NEW i \in DOMAIN ids', since' <= MaxDuration[spec[i]]
      PROVE  i \in Served(phase)
  <2>1. i \in DOMAIN spec
    BY <1>1, WellIds
  <2>2. since = NoHold \/ since' = since
    BY <1>1, <1>2, WellIds
  <2>3. MaxDuration[spec[i]] \in Nat /\ since \in Nat
    BY <2>1, ScopeType, DurationType, Times DEF TypeOK
  <2>4. ~Overdue(i)
    BY <1>4, <2>2, <2>3 DEF Overdue
  <2> QED
    BY <2>1, <2>4 DEF Served
<1>5. ASSUME NEW i \in Served(phase)
      PROVE  ids'[i] \in Id /\ lease'[ids'[i]].left + gap' > SilenceTTL - RenewLeeway
  <2>1. ids'[i] = target[i] /\ target[i] \in Id
    BY <1>1, PostedIs
  <2>2. CASE Fresh(i)
    <3>1. lease[target[i]].left > SilenceTTL - RenewLeeway
          /\ lease'[target[i]] = lease[target[i]]
      BY <1>1, <2>2, FreshStays DEF Calm
    <3>2. lease[target[i]].left \in Nat
      BY <2>1, LeftType
    <3> QED
      BY <1>3, <2>1, <3>1, <3>2
  <2>3. CASE ~Fresh(i)
    <3>1. lease'[target[i]] = [scope |-> spec[i], left |-> SilenceTTL]
      BY <1>1, <2>1, <2>3, LeasedIs DEF Well
    <3>2. lease'[target[i]].left = SilenceTTL
      BY <3>1
    <3> QED
      BY <1>3, <2>1, <3>2, Times
  <2> QED
    BY <2>2, <2>3
<1>6. \A i \in DOMAIN ids' : i \in DOMAIN spec
  BY <1>1, WellIds
<1> QED
  BY <1>2, <1>3, <1>4, <1>5, <1>6 DEF Leases

LEMMA TickLeases ==
    ASSUME TypeOK, TypeOK', Calm, Leases, Tick, faults = 0, IsInFlight(found)
    PROVE  Leases'
<1>1. /\ UNCHANGED <<found, served, ids>> /\ since' = Longer(since)
      /\ gap' = Older(gap, GapHorizon)
  BY DEF Tick
<1>2. /\ ids # <<>> /\ served # <<>>
      /\ \A i \in DOMAIN ids : i \in DOMAIN served
  BY DEF Leases
<1>3. since' >= since /\ since \in Nat /\ since' \in Nat
  <2>1. since # NoHold /\ since \in 0..NoHold
    BY <1>2 DEF Calm, Dated, TypeOK
  <2> QED
    BY <1>1, <2>1, LongerType, Times
<1>4. gap \in 0..GapHorizon /\ gap \in Nat
  BY Times DEF TypeOK
<1>5. InTime' => InTime /\ gap' = gap + 1
  BY <1>1, <1>4, OlderType, Times DEF InTime
<1>6. ASSUME NEW x \in Id PROVE lease'[x].left + 1 >= lease[x].left /\ lease'[x].left \in Nat
  <2>1. lease'[x].left \in Nat
    BY Times DEF TypeOK
  <2>2. lease'[x] = IF lease[x].left <= 1 THEN Lapsed ELSE [lease[x] EXCEPT !.left = @ - 1]
    BY DEF Tick
  <2>3. CASE lease[x].left <= 1
    BY <2>1, <2>3, LeftType, Times
  <2>4. CASE ~(lease[x].left <= 1)
    <3>1. lease'[x].left = lease[x].left - 1
      BY <2>2, <2>4, TickIs, LapsedType DEF TypeOK
    <3> QED
      BY <3>1, <2>1, LeftType
  <2> QED
    BY <2>3, <2>4
<1>7. ASSUME NEW i \in DOMAIN ids, since' <= MaxDuration[served[i]]
      PROVE  /\ ids[i] \in Id
             /\ InTime' => lease'[ids[i]].left + gap' > SilenceTTL - RenewLeeway
  <2>1. MaxDuration[served[i]] \in Nat
    <3>1. served \in Specs /\ i \in DOMAIN served
      BY <1>2 DEF TypeOK
    <3>2. served[i] \in Scope
      BY <3>1 DEF Scope
    <3> QED
      BY <3>2, DurationType
  <2>2. since <= MaxDuration[served[i]]
    BY <1>3, <1>7, <2>1
  <2>3. ids[i] \in Id /\ (InTime => lease[ids[i]].left + gap > SilenceTTL - RenewLeeway)
    BY <2>2 DEF Leases
  <2> QED
    BY <1>4, <1>5, <1>6, <2>3, LeftType, Times
<1> QED
  BY <1>1, <1>2, <1>7 DEF Leases, InTime

LEMMA NextLeases == TypeOK /\ TypeOK' /\ Calm /\ Leases /\ [Next]_vars => Leases'
<1> SUFFICES ASSUME TypeOK, TypeOK', Calm, Leases, [Next]_vars, faults' = 0,
                    IsInFlight(found')
             PROVE  Leases'
  BY DEF Leases
<1>1. faults = 0
  BY FaultsStay
<1>2. CASE Holding
  <2>1. found' = phase
    BY <1>2, ExtendLeasesType DEF Holding, TypeOK
  <2> QED
    BY <1>1, <1>2, <2>1, HoldingLeases
<1>3. CASE GivesUp
  BY <1>3, PendingIsIdle DEF GivesUp, GiveUp, IsInFlight
<1>4. CASE Standing
  BY <1>1, <1>4 DEF Standing, Leases, InTime, status, history
<1>5. CASE LoseSilence
  BY <1>1, <1>5 DEF LoseSilence, Fault
<1>6. CASE Tick
  BY <1>1, <1>6, TickLeases DEF Tick
<1> QED
  BY <1>2, <1>3, <1>4, <1>5, <1>6, Steps

\* Without a fault every entry of a run in flight stays silenced until its own
\* maxDuration for as long as the last sync is at most the lease less the leeway ago,
\* whatever the syncs before it left alone. How late the next sync is is not bounded.
THEOREM LeasesHold == Spec => []LeasesDoNotLapse
<1>1. Init => Leases
  BY PendingIsIdle DEF Init, Leases, IsInFlight
<1>2. TypeOK /\ Leases => LeasesDoNotLapse
  <2> SUFFICES ASSUME TypeOK, Leases, IsInFlight(found), faults = 0,
                      gap <= SilenceTTL - RenewLeeway
               PROVE  /\ ids # <<>>
                      /\ \A i \in DOMAIN ids :
                            since <= MaxDuration[served[i]] => Live(ids[i])
    BY DEF LeasesDoNotLapse
  <2>1. ids # <<>>
    BY DEF Leases
  <2>2. ASSUME NEW i \in DOMAIN ids, since <= MaxDuration[served[i]] PROVE Live(ids[i])
    <3>1. ids[i] \in Id /\ lease[ids[i]].left + gap > SilenceTTL - RenewLeeway
      BY <2>2 DEF Leases, InTime
    <3>2. gap \in Nat
      BY Times DEF TypeOK
    <3>3. lease[ids[i]].left > 0
      BY <3>1, <3>2, LeftType, Times
    <3> QED
      BY <3>1, <3>3 DEF Live
  <2> QED
    BY <2>1, <2>2
<1> QED
  BY TypesHold, CalmHolds, NextLeases, <1>1, <1>2, PTL DEF Spec

-------------------------------------------------------------------------------
(***************************************************************************)
(* The scopes of the silences. A renewal that finds a lease fresh does not *)
(* look at its matchers; but an edit has the run parked first, and a pass  *)
(* that finds it parked gives its silences up.                             *)
(***************************************************************************)
Scoped ==
    /\ faults = 0 /\ ~unobserved /\ phase # "Pending"
         => \A i \in DOMAIN ids :
               i \in DOMAIN spec /\ (Live(ids[i]) => lease[ids[i]].scope = spec[i])
    /\ faults = 0 /\ pass = "running" /\ phase = "Pending" => ids = <<>>

\* A silence in the status is posted for its own entry only.
LEMMA PostedOwn ==
    ASSUME TypeOK, Distinct, NEW target, Well(target), NEW i, IdOf(i) \in Id,
           Posted(Served(phase), target, IdOf(i))
    PROVE  i \in Served(phase)
<1>1. PICK j \in Served(phase) : ~Fresh(j) /\ target[j] = IdOf(i)
  BY DEF Posted
<1>2. IdOf(i) # NoId
  BY IdAssumption
<1>3. IdOf(i) \in InStatus
  BY <1>2, IdOfType DEF TypeOK, StatusIds
<1>4. target[j] = IdOf(j)
  BY <1>1, <1>3, TargetIs DEF Well, Unused
<1> QED
  BY <1>1, <1>2, <1>4, OwnId

LEMMA HoldingScoped ==
    ASSUME TypeOK, Calm, Scoped, Holding, faults = 0, faults' = 0, ~unobserved,
           NEW i \in DOMAIN ids'
    PROVE  i \in DOMAIN spec
           /\ (ids'[i] \in Id /\ lease'[ids'[i]].left > 0 => lease'[ids'[i]].scope = spec[i])
<1>1. PICK target : Well(target)
  BY HoldsWell
<1>2. i \in DOMAIN spec /\ ids'[i] = IF i \in Served(phase) THEN target[i] ELSE IdOf(i)
  BY <1>1, WellIds
<1>3. \A k \in DOMAIN ids : Live(ids[k]) => lease[ids[k]].scope = spec[k]
  BY PendingIsIdle DEF Scoped, Holding, Holds
<1>4. ASSUME ids'[i] \in Id, lease'[ids'[i]].left > 0, ids'[i] = IdOf(i),
             ~Posted(Served(phase), target, ids'[i])
      PROVE  lease'[ids'[i]].scope = spec[i]
  <2>1. Live(ids'[i]) /\ lease'[ids'[i]].scope = lease[ids'[i]].scope
    BY <1>1, <1>4, NotPosted DEF Calm
  <2>2. i \in DOMAIN ids /\ ids'[i] = ids[i]
    BY <1>4, IdOfType, IdAssumption DEF TypeOK, StatusIds
  <2> QED
    BY <1>3, <2>1, <2>2
<1>5. ASSUME ids'[i] \in Id, lease'[ids'[i]].left > 0
      PROVE  lease'[ids'[i]].scope = spec[i]
  <2>1. CASE i \in Served(phase) /\ ~Fresh(i)
    <3>1. lease'[ids'[i]] = [scope |-> spec[i], left |-> SilenceTTL]
      BY <1>1, <1>2, <1>5, <2>1, LeasedIs DEF Well
    <3> QED
      BY <3>1
  <2>2. CASE i \in Served(phase) /\ Fresh(i)
    <3>1. ids'[i] = target[i] /\ target[i] = IdOf(i)
      BY <1>1, <1>2, <2>2, TargetIs DEF Well, Created
    <3>2. ~Posted(Served(phase), target, ids'[i])
      BY <1>1, <2>2, <3>1, TargetIs DEF Posted, Well
    <3> QED
      BY <1>4, <1>5, <3>1, <3>2
  <2>3. CASE i \notin Served(phase)
    <3>1. ids'[i] = IdOf(i)
      BY <1>2, <2>3
    <3>2. ~Posted(Served(phase), target, ids'[i])
      BY <1>1, <1>5, <2>3, <3>1, PostedOwn DEF Calm
    <3> QED
      BY <1>4, <1>5, <3>1, <3>2
  <2> QED
    BY <2>1, <2>2, <2>3
<1> QED
  BY <1>2, <1>5

LEMMA NextScoped == TypeOK /\ TypeOK' /\ Calm /\ Scoped /\ [Next]_vars => Scoped'
<1> SUFFICES ASSUME TypeOK, TypeOK', Calm, Scoped, [Next]_vars, faults' = 0
             PROVE  Scoped'
  BY DEF Scoped
<1>1. faults = 0 /\ ~Fault
  BY FaultsStay DEF Fault
<1>2. CASE Holding
  <2>1. UNCHANGED <<phase, spec>> /\ unobserved' = unobserved /\ phase # "Pending"
    BY <1>2, ExtendLeasesType, PendingIsIdle DEF Holding, BeginPass, Holds, users, TypeOK
  <2> QED
    BY <1>1, <1>2, <2>1, HoldingScoped DEF Scoped, Live
<1>3. CASE GivesUp
  <2>1. ids' = <<>>
    BY <1>1, <1>3 DEF GivesUp, status
  <2> QED
    BY <2>1 DEF Scoped
<1>4. CASE PassSuspended \/ ResetRun \/ Park
  BY <1>1, <1>4 DEF PassSuspended, ResetRun, Park, Writes, Scoped
<1>5. CASE Advance
  <2>1. phase' # "Pending" /\ unobserved' = unobserved /\ UNCHANGED <<spec, ids, lease>>
    BY <1>5 DEF Advance, Writes, users, status
  <2>2. phase = "Pending" => ids = <<>>
    BY <1>1, <1>5 DEF Advance, Scoped
  <2> QED
    BY <1>1, <2>1, <2>2 DEF Scoped, Live
<1>6. CASE EndPass \/ Restart
  BY <1>1, <1>6 DEF EndPass, Restart, Writes, Scoped, Live, users, status
<1>7. CASE ToggleSuspend \/ EditSpec
  BY <1>1, <1>7 DEF ToggleSuspend, EditSpec, ByUser, Scoped, Live, status
<1>8. CASE Crash \/ LoseSilence
  BY <1>1, <1>8 DEF Crash, LoseSilence
<1>9. CASE Tick
  <2>1. UNCHANGED <<phase, spec, unobserved, ids, pass>>
    BY <1>9 DEF Tick, users
  <2>2. ASSUME NEW x \in Id, lease'[x].left > 0
        PROVE  Live(x) /\ lease'[x].scope = lease[x].scope
    BY <1>9, <2>2, TickIs, LapsedType
  <2> QED
    BY <1>1, <2>1, <2>2 DEF Scoped, Live
<1>10. CASE UNCHANGED vars
  BY <1>1, <1>10 DEF vars, Scoped, Live, users, status
<1>11. BeginPass => Holding \/ GivesUp
  BY BeginPassSteps
<1>12. SyncSuspended => GivesUp
  BY ReleaseGivesUp DEF SyncSuspended
<1> QED
  BY <1>2, <1>3, <1>4, <1>5, <1>6, <1>7, <1>8, <1>9, <1>10, <1>11, <1>12, CleanupGivesUp
  DEF Next

\* Without a fault the silences in place while nodes are upgraded have the scopes
\* the spec asks for, whatever edits came before.
THEOREM ScopesAreCurrent == Spec => []ScopesFollowSpec
<1>1. Init => Scoped
  BY DEF Init, Scoped
<1>2. Scoped => ScopesFollowSpec
  BY PendingIsIdle DEF Scoped, ScopesFollowSpec, IsInFlight
<1> QED
  BY TypesHold, CalmHolds, NextScoped, <1>1, <1>2, PTL DEF Spec
================================================================================
