----------------------------- MODULE AlertSilences -----------------------------
(***************************************************************************)
(* The Alertmanager silences a TalosUpgrade holds while it runs. Each is a *)
(* lease: every pass extends it, and it lapses by itself when no pass does *)
(* so. The run is seen through the phases its passes write; it never waits *)
(* for Alertmanager.                                                       *)
(*                                                                         *)
(* Time is counted in steps of some minutes. Phases that syncAlertSilences *)
(* treats alike are represented by one: Pending for a parked run, Draining *)
(* and Upgrading for one in flight, Completed for one that ended.          *)
(***************************************************************************)
EXTENDS JobPhase, Naturals, Sequences

CONSTANTS Id,             \* silence IDs; one is reused when nothing knows it
          NoId,           \* a silence not created yet
          Specs,          \* what users may write in spec.silences
          MaxDuration,    \* maxDuration of each entry
          LongestHold,    \* the longest of them
          SilenceTTL,            \* silenceTTL
          SilenceTail,           \* silenceTail
          RenewLeeway,    \* renewLeeway
          MaxEdits,       \* bound: edits of spec.silences
          MaxFaults       \* bound: failed calls and writes, crashes, lost silences

ASSUME IdAssumption == NoId \notin Id
ASSUME SpecsAssumption == \A s \in Specs : s \in Seq(STRING)
ASSUME TimeAssumption ==
    /\ SilenceTTL \in Nat /\ SilenceTail \in 1..SilenceTTL /\ RenewLeeway \in 1..SilenceTTL - 1
    /\ LongestHold \in Nat
ASSUME BoundsAssumption == MaxEdits \in Nat /\ MaxFaults \in Nat

VARIABLES phase,       \* status.phase
          spec,        \* spec.silences: a scope (its matchers) for each entry
          edits,       \* how often it was edited
          unobserved,  \* is an edit newer than status.observedGeneration?
          suspended,   \* the suspend annotation
          gone,        \* is the resource deleted?
          ids,         \* status.alertSilenceIDs
          since,       \* the age of status.alertSilencesSince
          lease,       \* Alertmanager: the scope of a silence, and what is left
          pass,        \* where the pass under way is
          connected,   \* has the operator an Alertmanager connection?
          found,       \* the phase the last sync found, Pending if it held nothing
          served,      \* the entries the last sync found, none if it held nothing
          hold,        \* how long silences have been held without a break
          gap,         \* time since the last sync
          idle,        \* time since a sync held silences, or gave them up
          faults       \* how many faults have happened

users == <<spec, edits, suspended>>
status == <<ids, since>>
history == <<found, served, hold, idle>>
vars == <<phase, users, unobserved, gone, status, lease, pass, connected, history,
          gap, faults>>

-------------------------------------------------------------------------------
Shown == {"Pending", "HealthChecking", "Draining", "Upgrading", "Completed"}
\* An entry is named by its matchers.
Scope == UNION {{s[i] : i \in DOMAIN s} : s \in Specs}
ASSUME DurationAssumption == MaxDuration \in [Scope -> 0..LongestHold]
NoScope == "none"
Lapsed == [scope |-> NoScope, left |-> 0]

\* Ages are told apart as far as the properties look.
Horizon == LongestHold + SilenceTTL + SilenceTail
IdleHorizon == SilenceTTL + MaxFaults * SilenceTail + 1
GapHorizon == SilenceTTL - RenewLeeway + 1
Older(age, horizon) == IF age < horizon THEN age + 1 ELSE age

\* The age of a hold that has not begun.
NoHold == Horizon + 1
Longer(hour) == IF hour = NoHold THEN NoHold ELSE Older(hour, Horizon)

\* The types of all the state.
TypeOK ==
    /\ phase \in Shown /\ found \in Shown /\ served \in Specs \cup {<<>>}
    /\ spec \in Specs /\ edits \in 0..MaxEdits
    /\ unobserved \in BOOLEAN /\ suspended \in BOOLEAN /\ gone \in BOOLEAN
    /\ ids \in Seq(Id \cup {NoId})
    /\ since \in 0..NoHold /\ hold \in 0..NoHold
    /\ lease \in [Id -> [scope : Scope \cup {NoScope}, left : 0..SilenceTTL]]
    /\ pass \in {"idle", "suspended", "resetting", "running", "down"}
    /\ connected \in BOOLEAN
    /\ gap \in 0..GapHorizon /\ idle \in 0..IdleHorizon
    /\ faults \in 0..MaxFaults

Init ==
    /\ phase = "Pending" /\ found = "Pending" /\ served = <<>>
    /\ spec \in Specs /\ edits = 0
    /\ unobserved = FALSE /\ suspended = FALSE /\ gone = FALSE
    /\ ids = <<>>
    /\ since = NoHold /\ hold = NoHold
    /\ lease = [x \in Id |-> Lapsed]
    /\ pass = "idle" /\ connected = TRUE
    /\ gap = 0 /\ idle = IdleHorizon
    /\ faults = 0

Fault == faults < MaxFaults /\ faults' = faults + 1
FaultIf(lost) == IF lost THEN Fault ELSE UNCHANGED faults

-------------------------------------------------------------------------------
(***************************************************************************)
(* Alertmanager. Unknown and expired silences are treated alike.           *)
(***************************************************************************)
Live(x) == x \in Id /\ lease[x].left > 0
InStatus == {ids[i] : i \in DOMAIN ids}
Unused == {x \in Id \ InStatus : ~Live(x)}

\* Expire: a silence that is live ends after the tail. The check of what
\* Alertmanager says of it keeps one that ended from coming back.
ExpireBlindly(live, S) ==
    [x \in Id |-> IF x \in S THEN [scope |-> CHOOSE s \in Scope : TRUE, left |-> SilenceTail]
                  ELSE live[x]]
ExpireAll(live, S) ==
    [x \in Id |-> IF x \in S /\ live[x].left > 0
                  THEN [live[x] EXCEPT !.left = SilenceTail] ELSE live[x]]

-------------------------------------------------------------------------------
(***************************************************************************)
(* syncAlertSilences, near the start of every pass. p is the phase it      *)
(* finds.                                                                  *)
(***************************************************************************)
Holds(p) == spec # <<>> /\ IsActive(p) /\ ~suspended

IdOf(i) == IF i \in DOMAIN ids THEN ids[i] ELSE NoId
NeverOverdue(i) == FALSE
Overdue(i) == since # NoHold /\ since > MaxDuration[spec[i]]

\* The entries a sync calls Ensure for.
Served(p) == {i \in DOMAIN spec : (IdOf(i) # NoId \/ IsInFlight(p)) /\ ~Overdue(i)}

\* What Ensure makes of an entry: a fresh lease is left alone, a live one is
\* extended in place when its matchers are the same, and otherwise a new
\* silence is created, in place of a live one.
FreshForever(i) == Live(IdOf(i))
Fresh(i) == Live(IdOf(i)) /\ lease[IdOf(i)].left > SilenceTTL - RenewLeeway
Extended(i) == Live(IdOf(i)) /\ ~Fresh(i) /\ lease[IdOf(i)].scope = spec[i]
Created(i) == ~Fresh(i) /\ ~Extended(i)

\* The end of an extended lease does not depend on the old one.
RenewedOnTop(left) == left + SilenceTTL
Renewed(left) == SilenceTTL

\* The calls for the entries of "failed" fail: those of "silent" after they took
\* effect, the others before. target says which silence each call is about.
Targets(p) ==
    {t \in [Served(p) -> Id] :
        /\ \A i \in Served(p) : IF Created(i) THEN t[i] \in Unused ELSE t[i] = IdOf(i)
        /\ \A i, j \in Served(p) : t[i] = t[j] => i = j}
Leased(done, target, leftover) ==
    LET posted == {i \in done : ~Fresh(i)}
        replaced == {IdOf(i) : i \in {j \in done : Created(j)}}
        after == ExpireAll(lease, leftover) IN
    [x \in Id |->
        IF \E i \in posted : target[i] = x
        THEN [scope |-> spec[CHOOSE i \in posted : target[i] = x],
              left |-> Renewed(lease[x].left)]
        ELSE IF x \in replaced THEN Lapsed ELSE after[x]]

\* patchSilenceIDs. A hold begins with the first ID and ends with the last one.
\* The generation stays as it was. A write that fails is only logged.
StampGeneration == unobserved' = FALSE
PinGeneration == UNCHANGED unobserved
Patch(new, lost) ==
    IF new = ids \/ lost THEN UNCHANGED <<status, unobserved>>
    ELSE /\ ids' = new
         /\ since' = IF new = <<>> THEN NoHold ELSE IF since = NoHold THEN 0 ELSE since
         /\ PinGeneration

\* The calls for the entries of "failed" fail, those of "silent" after they took
\* effect. The silences beyond the spec are expired, except those of "kept",
\* whose call fails too.
ExtendLeases(p) ==
    \E failed \in SUBSET Served(p), silent \in SUBSET Served(p), lost \in BOOLEAN,
       kept \in SUBSET {ids[i] : i \in DOMAIN ids \ DOMAIN spec},
       target \in Targets(p) :
       LET answered == Served(p) \ failed
           done == answered \cup silent
           new == [i \in DOMAIN spec |-> IF i \in answered THEN target[i] ELSE IdOf(i)]
           leftover == {ids[i] : i \in DOMAIN ids \ DOMAIN spec} \ kept IN
       /\ silent \subseteq failed
       /\ FaultIf(failed # {} \/ kept \ {NoId} # {} \/ lost)
       /\ lease' = Leased(done, target, leftover)
       /\ Patch(IF \A i \in DOMAIN new : new[i] = NoId THEN <<>> ELSE new, lost)
       /\ found' = p /\ served' = spec
       /\ hold' = IF hold = NoHold /\ \E i \in done : Created(i) THEN 0 ELSE hold
       /\ idle' = 0

\* Nothing can be expired without a connection.
ForgetLeases ==
    \E lost \in BOOLEAN : FaultIf(lost) /\ Patch(<<>>, lost) /\ UNCHANGED lease

\* The IDs are cleared even when Alertmanager does not answer.
ReleaseLeases ==
    \E failed \in SUBSET InStatus, lost \in BOOLEAN :
       /\ FaultIf(failed \ {NoId} # {} \/ lost)
       /\ lease' = ExpireAll(lease, InStatus \ failed)
       /\ Patch(<<>>, lost)

GiveUp ==
    /\ found' = "Pending" /\ served' = <<>> /\ hold' = NoHold
    /\ idle' = IF IsActive(found) THEN 0 ELSE idle

SyncAlertSilences(p) ==
    \/ connected /\ Holds(p) /\ ExtendLeases(p)
    \/ /\ ~(connected /\ Holds(p))
       /\ IF connected THEN ReleaseLeases ELSE ForgetLeases
       /\ GiveUp

-------------------------------------------------------------------------------
(***************************************************************************)
(* Passes. What they read of the resource is what it was at their start.   *)
(***************************************************************************)
\* handleSuspendAnnotation comes first, and its write stamps the generation.
\* Whether it succeeds or not the pass goes on to the sync and ends with it.
PassSuspended ==
    /\ pass = "idle" /\ ~gone /\ suspended
    /\ pass' = "suspended"
    /\ \/ /\ phase' = "Pending"
          /\ unobserved' \in {unobserved, FALSE}
          /\ UNCHANGED faults
       \/ Fault /\ UNCHANGED <<phase, unobserved>>
    /\ UNCHANGED <<users, gone, status, lease, connected, history, gap>>

SyncSuspended ==
    /\ pass = "suspended"
    /\ IF connected THEN ReleaseLeases ELSE ForgetLeases
    /\ pass' = "idle" /\ gap' = 0
    /\ GiveUp
    /\ UNCHANGED <<phase, users, gone, connected>>

\* A pass that finds an edit goes on to reset the run.
BeginPass ==
    /\ pass = "idle" /\ ~gone /\ ~suspended
    /\ SyncAlertSilences(phase)
    /\ pass' = IF unobserved' THEN "resetting" ELSE "running"
    /\ gap' = 0
    /\ UNCHANGED <<phase, users, gone, connected>>

Writes(p) ==
    /\ phase' = p
    /\ UNCHANGED <<users, gone, status, lease, connected, history, gap>>

ResetRun ==
    /\ pass = "resetting" /\ pass' = "idle"
    /\ \/ Writes("Pending") /\ unobserved' = FALSE
          /\ UNCHANGED faults
       \/ Fault /\ Writes(phase) /\ UNCHANGED unobserved

\* A wait, an error, a closed window, a reset, a node that joined a completed
\* plan, and the end of a batch.
Park ==
    /\ pass = "running" /\ pass' = "idle"
    /\ Writes("Pending")
    /\ UNCHANGED <<unobserved, faults>>

\* The checks before a batch, its drain, its Jobs, and the end of the run. A pass
\* goes on after the first two.
Advance ==
    /\ pass = "running" /\ phase # "Completed"
    /\ \E p \in Shown \ {"Pending"} :
         /\ Writes(p)
         /\ pass' = IF p \in {"HealthChecking", "Draining"} THEN "running" ELSE "idle"
    /\ UNCHANGED <<unobserved, faults>>

EndPass ==
    /\ pass = "running" /\ pass' = "idle"
    /\ Writes(phase) /\ UNCHANGED <<unobserved, faults>>

\* cleanup of a deleted resource. When the finalizer stays it comes again.
Cleanup ==
    /\ pass = "idle" /\ ~gone
    /\ \E failed \in SUBSET InStatus, kept \in BOOLEAN :
         /\ FaultIf(failed \ {NoId} # {} \/ kept)
         /\ lease' = IF connected THEN ExpireAll(lease, InStatus \ failed) ELSE lease
         /\ gone' = ~kept
         /\ IF kept THEN UNCHANGED status ELSE ids' = <<>> /\ since' = NoHold
    /\ GiveUp
    /\ UNCHANGED <<phase, users, unobserved, pass, connected, gap>>

Crash ==
    /\ pass # "down" /\ pass' = "down"
    /\ Fault
    /\ Writes(phase) /\ UNCHANGED unobserved

\* The operator comes back, maybe redeployed with or without the connection.
Restart ==
    /\ pass = "down" /\ pass' = "idle"
    /\ connected' \in BOOLEAN
    /\ UNCHANGED <<phase, users, unobserved, gone, status, lease, history,
                   gap, faults>>

-------------------------------------------------------------------------------
(***************************************************************************)
(* Users, Alertmanager and time.                                           *)
(***************************************************************************)
ByUser == UNCHANGED <<phase, gone, status, lease, pass, connected, history,
                      gap, faults>>

ToggleSuspend ==
    /\ ~gone
    /\ suspended' = ~suspended
    /\ ByUser /\ UNCHANGED <<spec, edits, unobserved>>

\* The admission webhook refuses edits of a run in flight.
EditSpec ==
    /\ ~gone /\ ~IsInFlight(phase)
    /\ edits < MaxEdits /\ edits' = edits + 1
    /\ spec' \in Specs \ {spec}
    /\ unobserved' = TRUE
    /\ ByUser /\ UNCHANGED suspended

\* Alertmanager restarts without its state, or a user removes a silence.
LoseSilence ==
    /\ Fault
    /\ \E x \in Id : Live(x) /\ lease' = [lease EXCEPT ![x] = Lapsed]
    /\ UNCHANGED <<phase, users, unobserved, gone, status, pass, connected, history,
                   gap>>

\* Time passes, however long the pass under way takes or the next one is away.
Tick ==
    /\ lease' = [x \in Id |->
                   IF lease[x].left <= 1 THEN Lapsed ELSE [lease[x] EXCEPT !.left = @ - 1]]
    /\ since' = Longer(since) /\ hold' = Longer(hold)
    /\ gap' = Older(gap, GapHorizon) /\ idle' = Older(idle, IdleHorizon)
    /\ UNCHANGED <<phase, users, unobserved, gone, ids, pass, connected, found,
                   served, faults>>

Next ==
    \/ PassSuspended \/ SyncSuspended \/ BeginPass \/ ResetRun \/ Park \/ Advance
    \/ EndPass \/ Cleanup \/ Crash \/ Restart
    \/ ToggleSuspend \/ EditSpec \/ LoseSilence \/ Tick

Spec == Init /\ [][Next]_vars

-------------------------------------------------------------------------------
(***************************************************************************)
(* Properties.                                                             *)
(***************************************************************************)
NoneLive == \A x \in Id : ~Live(x)

\* Syncs renew a lease only when little of it has elapsed. Every entry of a run
\* found in flight stays silenced all the same, until its maxDuration, for as
\* long as the last sync is at most the lease less the leeway ago: then the
\* silences bridge the time to the next one. A pass may take longer than that,
\* with its drains and pulls, and nothing in the code keeps the lease for it.
LeasesDoNotLapse ==
    IsInFlight(found) /\ faults = 0 /\ gap <= SilenceTTL - RenewLeeway
        => /\ ids # <<>>
           /\ \A i \in DOMAIN ids : since <= MaxDuration[served[i]] => Live(ids[i])

\* What silences are in place while nodes are upgraded is what the spec asks
\* for, also after an edit that a skipped renewal did not carry over.
ScopesFollowSpec ==
    IsInFlight(phase) /\ phase = found /\ ~unobserved /\ faults = 0
        => \A i \in DOMAIN ids :
               Live(ids[i]) => i \in DOMAIN spec /\ lease[ids[i]].scope = spec[i]

\* A run that is stuck while active alerts again: what an entry silences is
\* silenced no longer than its maxDuration and a lease after the hold began, and
\* the tail that a silence gets, however little of it is left, when the spec
\* drops its entry. The other entries may still be held.
StuckRunsAlert ==
    faults = 0 =>
        \A x \in Id : Live(x) =>
            hold \notin MaxDuration[lease[x].scope] + SilenceTTL + SilenceTail..Horizon

\* The sync that finds a run parked, ended, suspended or deleted leaves its
\* silences the tail, and no more.
ReleasedAfterTail ==
    faults = 0 /\ ~IsActive(found) /\ idle > SilenceTail => NoneLive

\* Every failure ends in silences that lapse. A release that fails halfway and is
\* repeated renews the tail.
EverythingLapses == idle > SilenceTTL + faults * SilenceTail => NoneLive
===============================================================================
