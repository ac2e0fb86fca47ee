----------------------------- MODULE MCPreparation -----------------------------
(***************************************************************************)
(* Constants for model checking Preparation: two workers in one batch or   *)
(* in two, a pod with a volume on the first, one on the second, and one    *)
(* that is to be scheduled. And the check of the images that Preparation   *)
(* leaves open: what a node resolves to keeps its extensions.              *)
(***************************************************************************)
EXTENDS Preparation, InstallerImage, TLC

CONSTANTS a, b, db, web, late

Homes == db :> {1} @@ web :> {2} @@ late :> Node

-------------------------------------------------------------------------------
\* The generic installer, a mirror of it, and Factory images with the node's
\* schematic, another one and the empty one, on registries with or without a port.
Mirror == <<"mirror", "siderolabs", "installer">>
Paths ==
    {GenericInstallerRepo, Mirror} \cup
    {<<Factory, "metal-installer", s>> : s \in {"s1", "s2", DefaultSchematic}}
Facts ==
    [factoryURL : {Refused, <<"mirror", "metal-installer">>},
     annotated : {NoSchematic, "s2"}, schematic : {NoSchematic, "s1"},
     extensions : BOOLEAN, platform : {"", "metal-installer"},
     install : [path : Paths, colon : {0, 1, 3}]]

ASSUME ImageAssumption ==
    \A n \in Facts, since114 \in BOOLEAN :
        /\ KeepsExtensions(n, since114)
        /\ HonoursOverride(n, since114)
        /\ KeepsRepository(n, since114)
===============================================================================
