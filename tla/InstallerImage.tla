---------------------------- MODULE InstallerImage -----------------------------
(***************************************************************************)
(* Which installer a node is upgraded with (buildTalosUpgradeImage). A     *)
(* repository is the sequence of the parts of its path; the tag, which is  *)
(* always the target version, is left out. Installing from a repository    *)
(* that does not carry the node's schematic wipes its system extensions.   *)
(***************************************************************************)
EXTENDS Naturals, Sequences

Refused == <<>>       \* no repository: the pass reports an error
NoSchematic == ""
DefaultSchematic == "376567988ad370138ad8b2698212367b"   \* has no extensions
GenericInstallerRepo == <<"ghcr.io", "siderolabs", "installer">>
Factory == "factory.talos.dev"

\* A schematic is a digest, never the name of a repository.
Schematic == STRING \ {"installer"}

\* .machine.install.image: its first colon stands after a part of the path, the
\* last one when it is the tag's and an earlier one when a registry has a port.
InstallImage ==
    {i \in [path : Seq(STRING) \ {<<>>}, colon : Nat] : i.colon <= Len(i.path)}

\* What a pass reads of a node. A platform without an installer in the Image
\* Factory, or one that could not be read, is "".
NodeFacts ==
    [factoryURL : Seq(STRING), annotated : Schematic,         \* annotations
     schematic : Schematic, extensions : BOOLEAN,             \* runtime state
     platform : STRING, install : InstallImage]

-------------------------------------------------------------------------------
\* Two repositories that differ in the last part of their paths at most.
SameParent(repo, other) ==
    Len(repo) = Len(other) /\ \A i \in 1..Len(repo) - 1 : repo[i] = other[i]

Carries(repo, schematic) == Len(repo) > 1 /\ repo[Len(repo)] = schematic
LooksLikeGenericInstaller(repo) ==
    Len(repo) > 2 /\ repo[Len(repo) - 1] = "siderolabs" /\ repo[Len(repo)] = "installer"

\* strings.Cut(currentImage, ":")
Repo(n) == SubSeq(n.install.path, 1, n.install.colon)

FactoryRepo(n, schematic) ==
    IF n.platform = "" THEN Refused ELSE <<Factory, n.platform, schematic>>

\* The factory-url annotation, with its own schematic or the node's.
Overridden(n) ==
    LET schematic == IF n.annotated # NoSchematic THEN n.annotated ELSE n.schematic
    IN  IF schematic = NoSchematic THEN Refused ELSE Append(n.factoryURL, schematic)

\* The install image says nothing of the schematic that the node runs.
Mismatched(n) == n.schematic # NoSchematic /\ ~Carries(Repo(n), n.schematic)

FromRuntime(n) ==
    CASE Repo(n) = GenericInstallerRepo -> FactoryRepo(n, n.schematic)
      [] Carries(Repo(n), DefaultSchematic) ->
            Append(SubSeq(Repo(n), 1, Len(Repo(n)) - 1), n.schematic)
      [] OTHER -> Refused

\* Extensions that no schematic accounts for would be wiped.
Wipes(n) ==
    /\ n.schematic = NoSchematic /\ n.extensions
    /\ LooksLikeGenericInstaller(Repo(n))

\* From 1.14 on the generic installer is published no more.
Unpublished(n, since114) == since114 /\ Repo(n) = GenericInstallerRepo

\* The repository of the target image, since114 when the target is 1.14 or later.
TargetRepo(n, since114) ==
    CASE n.factoryURL # <<>> -> Overridden(n)
      [] n.factoryURL = <<>> /\ Mismatched(n) -> FromRuntime(n)
      [] n.factoryURL = <<>> /\ ~Mismatched(n) ->
            IF n.install.colon = 0 \/ Wipes(n) THEN Refused
            ELSE IF Unpublished(n, since114) THEN FactoryRepo(n, DefaultSchematic)
            ELSE Repo(n)

-------------------------------------------------------------------------------
\* Without an override, a node that runs a schematic gets an installer with that
\* schematic, and a node with other extensions never gets a generic one in place
\* of what it has (the "safety net" of the documentation).
KeepsExtensions(n, since114) ==
    LET repo == TargetRepo(n, since114) IN
    n.factoryURL = <<>> /\ repo # Refused =>
        /\ n.schematic # NoSchematic => Carries(repo, n.schematic)
        /\ n.schematic = NoSchematic /\ n.extensions =>
              repo = Repo(n) /\ ~LooksLikeGenericInstaller(repo)

\* With an override, the node gets the schematic it is annotated with, or keeps
\* its own.
HonoursOverride(n, since114) ==
    LET repo == TargetRepo(n, since114) IN
    n.factoryURL # <<>> /\ repo # Refused =>
        Carries(repo, IF n.annotated # NoSchematic THEN n.annotated ELSE n.schematic)

\* Without an override, an install image from a registry without a port stays in
\* its repository. What leaves it moves from the generic installer to the Image
\* Factory, or from the schematic that says nothing to the node's own.
KeepsRepository(n, since114) ==
    LET repo == TargetRepo(n, since114)
        path == n.install.path IN
    n.factoryURL = <<>> /\ n.install.colon = Len(path) /\ repo \notin {Refused, path} =>
        \/ path = GenericInstallerRepo /\ repo[1] = Factory
        \/ /\ Carries(path, DefaultSchematic) /\ Carries(repo, n.schematic)
           /\ SameParent(repo, path)
===============================================================================
