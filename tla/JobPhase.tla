------------------------------- MODULE JobPhase -------------------------------
(***************************************************************************)
(* The phases of an upgrade resource and the predicates on them that every *)
(* controller, the coordination check and the admission webhook share.     *)
(***************************************************************************)

\* The enum of status.phase. NoPhase is the empty string of a resource whose
\* status was never written.
NoPhase == "NoPhase"

Phase == {NoPhase, "Pending", "HealthChecking", "PreHook", "Draining",
          "Upgrading", "Rebooting", "PostHook", "Completed", "Failed",
          "MaintenanceWindow"}

\* An active upgrade operation: it skips the window and coordination checks.
IsActive(p) ==
    p \in {"HealthChecking", "PreHook", "Draining", "Upgrading", "Rebooting",
           "PostHook"}

\* The active phases during which a spec edit is refused.
IsInFlight(p) == IsActive(p) /\ p # "HealthChecking"

IsTerminal(p) == p \in {"Completed", "Failed"}
===============================================================================
