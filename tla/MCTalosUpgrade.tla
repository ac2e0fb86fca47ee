---------------------------- MODULE MCTalosUpgrade ----------------------------
(***************************************************************************)
(* What TLC checks of TalosUpgrade. The configurations give the constants  *)
(* their values; the assumption below is evaluated for each of them.       *)
(***************************************************************************)
EXTENDS TalosUpgrade
LOCAL INSTANCE SequencesExt

\* nextBatch as the code computes it: one walk along the queue, which ends at a
\* control-plane node at the front or when the batch is full.
NextBatchWalk(queue) ==
    LET Over(batch) == batch \cap ControlPlane # {} \/ Cardinality(batch) = Parallelism
        Step(batch, n) ==
            IF Over(batch) \/ (n \in ControlPlane /\ batch # {}) THEN batch
            ELSE batch \cup {n}
    IN FoldLeft(Step, {}, queue)

Queue(pending) == SetToSortSeq(pending, LAMBDA m, n : m < n)

\* The definition by sets that the model and the proofs use is that walk.
ASSUME NextBatchAssumption ==
    \A pending \in SUBSET Node : NextBatchOf(pending) = NextBatchWalk(Queue(pending))
===============================================================================
