---------------------------- MODULE MCCoordination ----------------------------
(***************************************************************************)
(* The plans TLC checks Coordination with, and the check of the windows    *)
(* whose opening and closing it leaves open: lastFireTime's walk from      *)
(* start to start finds what MaintenanceWindow defines by sets.            *)
(***************************************************************************)
EXTENDS Coordination, MaintenanceWindow

CONSTANTS p, q

\* p upgrades the last node, q all of them, to the same version.
LastAndAll == [r \in {p, q} |-> IF r = p THEN {N} ELSE Node]
SameTarget == [r \in {p, q} |-> 1]

\* Each plan has a node and a version of its own.
Apart == [r \in {p, q} |-> IF r = p THEN {1} ELSE {2}]
OwnTarget == [r \in {p, q} |-> IF r = p THEN 1 ELSE 2]

-------------------------------------------------------------------------------
Never == 0 - 1   \* the zero time

RECURSIVE LastFireFrom(_, _, _, _)
LastFireFrom(fires, cursor, last, now) ==
    IF cursor > now THEN last
    ELSE LastFireFrom(fires, NextFire(fires, cursor), cursor, now)

LastFireWalk(fires, now) ==
    LastFireFrom(fires, NextFire(fires, now - LookBack), Never, now)

IsOpenByWalk(window, now) ==
    LET last == LastFireWalk(window.fires, now) IN
    last # Never /\ now < last + window.duration

\* Starts and times around the ends of a week, with one start far ahead.
Edges == {0, 1, LookBack - 1, LookBack, LookBack + 1, 2 * LookBack}
Schedules == {fires \cup {9 * LookBack} : fires \in SUBSET Edges}
Durations == {1, RequeueCap, LookBack - 1, LookBack}

ASSUME WalkAssumption ==
    \A fires \in Schedules, duration \in Durations, now \in Edges :
        LET window == [fires |-> fires, duration |-> duration] IN
        /\ IsOpenByWalk(window, now) <=> IsOpen(window, now)
        /\ IsOpen(window, now) <=> Covers(window, now)

\* A pass that is turned away by two windows comes back within the cap, and in
\* time for the first of them.
ASSUME RequeueAssumption ==
    \A fires, others \in Schedules, now \in Edges :
        LET windows == {[fires |-> f, duration |-> RequeueCap] : f \in {fires, others}}
            delay == RequeueAfter(windows, now, now) IN
        ~Allowed(windows, now) =>
            /\ delay \in 1..RequeueCap
            /\ \A f \in fires \cup others : f > now => now + delay <= f
===============================================================================
