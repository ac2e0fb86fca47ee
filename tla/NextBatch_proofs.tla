---------------------------- MODULE NextBatch_proofs --------------------------
(***************************************************************************)
(* nextBatch returns a set of nodes that may be upgraded together, and one *)
(* whenever a node is pending.                                             *)
(***************************************************************************)
EXTENDS NextBatch, FiniteSetTheorems, WellFoundedInduction, TLAPS

LEMMA NodeFinite == IsFiniteSet(Node)
BY NAssumption, FS_Interval DEF Node

LEMMA NodesAreNumbers == Node \subseteq Nat \ {0}
BY NAssumption DEF Node

\* What may be upgraded together may be upgraded in part.
LEMMA PartOfBatch ==
    ASSUME NEW S \in SUBSET Node, IsBatch(S), NEW T \in SUBSET S
    PROVE  IsBatch(T)
<1>1. IsFiniteSet(S)
  BY NodeFinite, FS_Subset
<1>2. Cardinality(T) <= Cardinality(S) /\ Cardinality(T) \in Nat /\ Cardinality(S) \in Nat
  BY <1>1, FS_Subset, FS_CardinalityType
<1>3. Cardinality(T) <= Parallelism
  BY <1>2, ParallelismAssumption DEF IsBatch
<1>4. \A c \in ControlPlane \cap T : T = {c}
  BY DEF IsBatch
<1> QED
  BY <1>3, <1>4 DEF IsBatch

LEMMA EmptyBatch == IsBatch({})
BY FS_EmptySet, ParallelismAssumption DEF IsBatch

LEMMA Smallest ==
    ASSUME NEW S \in SUBSET Nat, S # {}
    PROVE  \E n \in S : \A m \in S : n <= m
<1> DEFINE Less == {p \in Nat \X Nat : p[1] < p[2]}
<1>1. IsWellFoundedOn(Less, Nat)
  BY NatLessThanWellFounded, Zenon DEF OpToRel
<1> HIDE DEF Less
<1>2. PICK n \in S : \A m \in S : ~ (<<m, n>> \in Less)
  BY <1>1, WFMin
<1>3. \A m \in S : ~ (m < n)
  BY <1>2 DEF Less
<1> QED
  BY <1>3

LEMMA FirstExists ==
    ASSUME NEW S \in SUBSET Node, S # {}
    PROVE  \E n \in S : IsFirst(n, S)
<1>1. S \in SUBSET Nat
  BY NodesAreNumbers
<1> QED
  BY <1>1, Smallest DEF IsFirst

LEMMA LastExists ==
    ASSUME NEW S \in SUBSET Node, S # {}
    PROVE  \E n \in S : \A m \in S : m <= n
<1> DEFINE Bounds == {x \in Nat : \A m \in S : m <= x}
<1>1. N \in Bounds
  BY NAssumption DEF Node
<1>2. PICK u \in Bounds : \A x \in Bounds : u <= x
  <2>1. Bounds \in SUBSET Nat /\ Bounds # {}
    BY <1>1
  <2> HIDE DEF Bounds
  <2> QED
    BY <2>1, Smallest
<1>3. u \in S
  <2> SUFFICES ASSUME u \notin S PROVE FALSE
    OBVIOUS
  <2>1. \A m \in S : m \in Nat /\ m # 0 /\ m <= u /\ m # u
    BY NodesAreNumbers
  <2>2. u - 1 \in Nat /\ \A m \in S : m <= u - 1
    BY <2>1
  <2> QED
    BY <1>2, <2>2
<1> QED
  BY <1>2, <1>3

\* nextBatch never returns more than spec.parallelism nodes, nor a
\* control-plane node together with another node.
THEOREM NextBatchIsBatch ==
    ASSUME NEW pending \in SUBSET Node
    PROVE  NextBatchOf(pending) \in SUBSET pending /\ IsBatch(NextBatchOf(pending))
<1> DEFINE B == NextBatchOf(pending)
<1>1. B \in SUBSET pending
  BY DEF NextBatchOf
<1>0. \A n \in pending : n \in Nat
  BY NodesAreNumbers
<1>2. ASSUME NEW c \in ControlPlane \cap B
      PROVE  B = {c}
  <2>1. IsFirst(c, pending)
    BY DEF NextBatchOf
  <2>2. \A n \in B : n \in ControlPlane /\ IsFirst(n, pending)
    BY <2>1 DEF NextBatchOf
  <2>3. ASSUME NEW n \in B PROVE n = c
    <3>1. n \in Nat /\ c \in Nat
      BY <1>0, <1>1
    <3>2. n <= c /\ c <= n
      BY <1>1, <2>1, <2>2 DEF IsFirst
    <3> QED
      BY <3>1, <3>2
  <2> QED
    BY <2>3
<1>3. Cardinality(B) <= Parallelism
  <2>1. CASE B = {}
    BY <2>1, FS_EmptySet, ParallelismAssumption
  <2>2. CASE B \cap ControlPlane # {}
    <3>1. PICK c : B = {c}
      BY <1>2, <2>2
    <3> QED
      BY <3>1, FS_Singleton, ParallelismAssumption
  <2>3. CASE B # {} /\ B \cap ControlPlane = {}
    <3>1. PICK n \in B : \A m \in B : m <= n
      BY <1>1, <2>3, LastExists
    <3>0. n \in Nat
      BY <1>0, <1>1
    <3> DEFINE ahead == WorkersAhead(n, pending)
    <3>2. B \subseteq ahead \cup {n}
      <4> SUFFICES ASSUME NEW m \in B, m # n PROVE m \in WorkersAhead(n, pending)
        OBVIOUS
      <4>1. m \in Nat /\ m <= n
        BY <1>0, <1>1, <3>1
      <4>2. m < n
        BY <3>0, <4>1
      <4> QED
        BY <1>1, <2>3, <4>2 DEF WorkersAhead
    <3>3. Cardinality(ahead) < Parallelism
      BY <2>3, <3>1 DEF NextBatchOf
    <3>4. IsFiniteSet(ahead) /\ Cardinality(ahead) \in Nat
      BY NodeFinite, FS_Subset, FS_CardinalityType DEF WorkersAhead
    <3>5. n \notin ahead
      <4>1. ~ (n < n)
        BY <3>0
      <4> QED
        BY <4>1 DEF WorkersAhead
    <3>6. IsFiniteSet(ahead \cup {n}) /\ Cardinality(ahead \cup {n}) = Cardinality(ahead) + 1
      BY <3>4, <3>5, FS_AddElement
    <3>7. Cardinality(B) <= Cardinality(ahead \cup {n}) /\ Cardinality(B) \in Nat
      BY <3>2, <3>6, FS_Subset, FS_CardinalityType
    <3> QED
      BY <3>3, <3>4, <3>6, <3>7, ParallelismAssumption
  <2> QED
    BY <2>1, <2>2, <2>3
<1> QED
  BY <1>1, <1>2, <1>3 DEF IsBatch

\* A run with pending nodes always finds one to go on with: the front of the
\* queue is in the batch.
THEOREM NextBatchHasFront ==
    ASSUME NEW pending \in SUBSET Node, pending # {}
    PROVE  \E n \in NextBatchOf(pending) : IsFirst(n, pending)
<1>0. \A n \in pending : n \in Nat
  BY NodesAreNumbers
<1>1. PICK n \in pending : IsFirst(n, pending)
  BY FirstExists
<1>2. CASE n \in ControlPlane
  BY <1>1, <1>2 DEF NextBatchOf
<1>3. CASE n \notin ControlPlane
  <2>1. \A m \in pending : m \in Nat /\ n \in Nat /\ n <= m
    BY <1>0, <1>1 DEF IsFirst
  <2>2. \A m \in pending : ~ (m < n)
    BY <2>1
  <2>3. \A m \in pending : m <= n => m = n
    BY <2>1
  <2>4. WorkersAhead(n, pending) = {}
    BY <2>2 DEF WorkersAhead
  <2>5. \A c \in ControlPlane : ~IsFirst(c, pending)
    BY <1>1, <1>3, <2>3 DEF IsFirst
  <2>6. Cardinality(WorkersAhead(n, pending)) < Parallelism
    BY <2>4, FS_EmptySet, ParallelismAssumption
  <2> QED
    BY <1>1, <1>3, <2>5, <2>6 DEF NextBatchOf
<1> QED
  BY <1>1, <1>2, <1>3
===============================================================================
