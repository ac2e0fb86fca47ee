---------------------------- MODULE UpgradeCampaign ----------------------------
(***************************************************************************)
(* What a TalosUpgrade promises of a fleet: machines are upgraded one      *)
(* batch after the other. The outcome of a machine is settled once, when   *)
(* its whole batch is at rest, and stays until the run starts over. No     *)
(* batch starts after a failure, a run that has ended touches no machine,  *)
(* it has not failed if it says that it completed, and it starts over by   *)
(* itself a bounded number of times.                                       *)
(***************************************************************************)
EXTENDS Naturals

CONSTANTS Node,                \* the machines of the fleet
          Batches,             \* the sets of them that may be away together
          MaxCompletionCycles  \* upgradeaudit.MaxCompletionCycles

VARIABLES working,   \* machines an upgrade Job may act on
          completed, failed,   \* the nodes with an outcome
          verdict,   \* "Completed" or "Failed" once the run has ended
          cycles     \* how often the run has started over by itself

vars == <<working, completed, failed, verdict, cycles>>

Settled == completed \cup failed

Init ==
    /\ working = {} /\ completed = {} /\ failed = {}
    /\ verdict = "none" /\ cycles = 0

StartBatch ==
    /\ working = {} /\ failed = {} /\ verdict = "none"
    /\ working' \in Batches /\ working' \cap Settled = {}
    /\ UNCHANGED <<completed, failed, verdict, cycles>>

MachinesRest ==
    /\ working' \in SUBSET working
    /\ UNCHANGED <<completed, failed, verdict, cycles>>

\* Outcomes are recorded; the run may end with it, or end with no more of them.
Settle ==
    /\ working = {} /\ verdict = "none"
    /\ \E good \in SUBSET (Node \ Settled) : completed' = completed \cup good
    /\ \E bad \in SUBSET (Node \ Settled) : failed' = failed \cup bad
    /\ completed' \cap failed' = {}
    /\ verdict' \in {"none", "Completed", "Failed"}
    /\ verdict' = "Completed" => failed' = {}
    /\ UNCHANGED <<working, cycles>>

\* A suspend or a failed read takes the verdict back, and the outcomes stay.
Reopen ==
    /\ verdict' = "none"
    /\ UNCHANGED <<working, completed, failed, cycles>>

\* A completed run has a node at the wrong version after all.
StartOver ==
    /\ verdict = "Completed" /\ cycles < MaxCompletionCycles
    /\ completed' = {} /\ failed' = {}
    /\ verdict' = "none" /\ cycles' = cycles + 1
    /\ UNCHANGED working

GiveUp ==
    /\ verdict = "Completed" /\ cycles = MaxCompletionCycles
    /\ verdict' = "Failed"
    /\ UNCHANGED <<working, completed, failed, cycles>>

\* A user resets the run or edits its spec. Machines at work go on.
Restart ==
    /\ completed' = {} /\ failed' = {} /\ verdict' = "none" /\ cycles' = 0
    /\ UNCHANGED working

Next ==
    \/ StartBatch \/ MachinesRest \/ Settle
    \/ Reopen \/ StartOver \/ GiveUp \/ Restart

Spec == Init /\ [][Next]_vars
===============================================================================
