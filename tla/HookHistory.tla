----------------------------- MODULE HookHistory ------------------------------
(***************************************************************************)
(* TalosUpgrade with a memory of the pre-hooks of the current run. A hook  *)
(* Job carries its resource, phase and index but not its run, so that a    *)
(* pass cannot tell a Job of this run from one an earlier run left behind  *)
(* (findActiveHookJob). The two variables can: no code has them, they only *)
(* record what happened.                                                   *)
(***************************************************************************)
EXTENDS TalosUpgrade

VARIABLES leftHooks,  \* pre-hooks whose Job was there when the run began, and
                      \* still is or has moved the index on
          hooksRun    \* pre-hooks that succeeded in a Job this run created

hookHistory == <<leftHooks, hooksRun>>

PreHook == 0..PreHooks - 1
PreHookJob(i) == hookJob[<<"pre", i>>]

HistoryTypeOK == leftHooks \in SUBSET PreHook /\ hooksRun \in SUBSET PreHook

\* The passes that clear the status and with it the hook indices. A reset does
\* unless its second write is lost.
RunBegins == (PassReset /\ UNCHANGED faults) \/ PassSpecChange \/ RestartCampaign

LeftBefore(i) ==
    IF RunBegins THEN PreHookJob(i)' # "none"
    ELSE i \in leftHooks /\ (PreHookJob(i)' # "none" \/ i < status'.preHook)

HasRun(i) ==
    /\ ~RunBegins
    /\ \/ i \in hooksRun
       \/ i \notin leftHooks /\ PreHookJob(i) = "running" /\ PreHookJob(i)' = "succeeded"

Remember ==
    /\ leftHooks' = {i \in PreHook : LeftBefore(i)}
    /\ hooksRun' = {i \in PreHook : HasRun(i)}

HistoryInit == Init /\ leftHooks = {} /\ hooksRun = {}
HistoryNext == Next /\ Remember
HistorySpec == HistoryInit /\ [][HistoryNext]_<<vars, hookHistory>>

-------------------------------------------------------------------------------
\* An upgrade Job starts only after every pre-hook of the run: each has
\* succeeded in a Job of this run. The one exception the code has is a Job that
\* an earlier run could not delete (handleHookJobStatus goes on after the
\* error) and that still is there when its index comes up: its old result counts
\* again. It takes a lost deletion; edits, cycles and expiring Jobs never do it.
UpgradeOnlyAfterPreHooks ==
    [][(\E n \in Node : JobStarts(n)) =>
           /\ ~status.preHookFailed
           /\ \A i \in PreHook :
                 i \in hooksRun \/ (i \in leftHooks /\ faults > 0)]_<<vars, hookHistory>>
===============================================================================
