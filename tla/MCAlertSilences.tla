---------------------------- MODULE MCAlertSilences ----------------------------
(***************************************************************************)
(* Constants for model checking AlertSilences. A step is five minutes.     *)
(***************************************************************************)
EXTENDS AlertSilences, TLC

CONSTANTS s1, s2, s3, s4

\* Nothing, one entry, and two of which the other spec keeps the last one.
ShrinkingSpecs == {<<>>, <<"ceph", "nodes">>, <<"nodes">>}

\* The entries may be held for different times.
Durations == [entry \in {"ceph", "nodes"} |-> IF entry = "ceph" THEN 2 ELSE 5]

\* IDs mean nothing but themselves.
Interchangeable == Permutations({s1, s2, s3, s4})
===============================================================================
