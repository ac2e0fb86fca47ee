--------------------------- MODULE MaintenanceWindow ---------------------------
(***************************************************************************)
(* The arithmetic of maintenance windows: whether a spec's windows are     *)
(* open, when the next one starts and when a pass that is turned away      *)
(* comes back. Times are seconds. A window is given by the times at which  *)
(* its cron schedule fires and by how long it stays open from each.        *)
(***************************************************************************)
EXTENDS Integers

LookBack == 7 * 24 * 60 * 60   \* how far back a start is searched for
RequeueCap == 5 * 60

\* The webhook admits windows that stay open for at most a week.
Window == [fires : SUBSET Int, duration : 1..LookBack]

\* cron's Schedule.Next: the first time after t.
NextFire(fires, t) ==
    CHOOSE f \in fires : f > t /\ \A g \in fires : g > t => f <= g

\* lastFireTime walks from start to start, from LookBack ago until now.
Recent(fires, now) == {f \in fires : now - LookBack < f /\ f <= now}
LastFire(fires, now) ==
    CHOOSE f \in Recent(fires, now) : \A g \in Recent(fires, now) : g <= f

\* checkSingleWindow
IsOpen(window, now) ==
    /\ Recent(window.fires, now) # {}
    /\ now < LastFire(window.fires, now) + window.duration

\* CheckWindow's verdict, and the next start it reports when that is no.
Allowed(windows, now) == windows = {} \/ \E window \in windows : IsOpen(window, now)

NextStarts(windows, now) == {NextFire(window.fires, now) : window \in windows}
NextWindowStart(windows, now) ==
    CHOOSE s \in NextStarts(windows, now) : \A r \in NextStarts(windows, now) : s <= r

\* When a pass comes back that read the windows at one time and asks for the
\* delay at a later one.
RequeueAfter(windows, checked, now) ==
    LET delay == NextWindowStart(windows, checked) - now IN
    IF Allowed(windows, checked) THEN 0
    ELSE IF delay > RequeueCap THEN RequeueCap ELSE delay

-------------------------------------------------------------------------------
\* What a window means to its user: it is open for its duration from each of
\* its starts.
Covers(window, t) ==
    \E f \in window.fires : f <= t /\ t < f + window.duration

\* A schedule that fires again at any time, as every cron expression that names
\* an existing date does.
Recurs(window) == \A t \in Int : \E f \in window.fires : f > t
===============================================================================
