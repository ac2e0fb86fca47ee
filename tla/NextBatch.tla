------------------------------- MODULE NextBatch ------------------------------
(***************************************************************************)
(* How a TalosUpgrade run picks the nodes of its next batch. Nodes are     *)
(* numbered in queue order: getSortedNodes puts the controller's own node  *)
(* first and sorts the others by name, so that "the first pending node" is *)
(* the smallest number.                                                    *)
(***************************************************************************)
EXTENDS Naturals, FiniteSets

CONSTANTS N,              \* how many nodes the plan can select
          ControlPlane,   \* those with the control-plane role label
          Parallelism     \* spec.parallelism, at least 1

ASSUME NAssumption == N \in Nat \ {0}
ASSUME ControlPlaneAssumption == ControlPlane \subseteq 1..N
ASSUME ParallelismAssumption == Parallelism \in Nat \ {0}

Node == 1..N

\* A set of nodes that may be upgraded together.
IsBatch(nodes) ==
    /\ Cardinality(nodes) <= Parallelism
    /\ \A c \in ControlPlane \cap nodes : nodes = {c}

\* The front of the queue.
IsFirst(n, pending) == n \in pending /\ \A m \in pending : n <= m

\* The workers ahead of n in the queue.
WorkersAhead(n, pending) == {m \in pending \ ControlPlane : m < n}

\* The first pending node alone when it is a control-plane node, otherwise the
\* first Parallelism pending workers: a control-plane node that is not at the
\* front is passed over.
NextBatchOf(pending) ==
    {n \in pending :
        IF n \in ControlPlane
        THEN IsFirst(n, pending)
        ELSE /\ \A c \in ControlPlane : ~IsFirst(c, pending)
             /\ Cardinality(WorkersAhead(n, pending)) < Parallelism}
===============================================================================
