------------------------- MODULE Calculations_proofs --------------------------
(***************************************************************************)
(* Theorems of the calculations that keep no state: what the arithmetic of *)
(* maintenance windows computes, and what the installer image of a node    *)
(* preserves.                                                              *)
(***************************************************************************)
EXTENDS MaintenanceWindow, InstallerImage, WellFoundedInduction, SequenceTheorems,
        TLAPS

-------------------------------------------------------------------------------
(***************************************************************************)
(* The window arithmetic, for every schedule and every time.               *)
(***************************************************************************)
\* A set of integers that is bounded below has a least element.
LEMMA LeastInteger ==
    ASSUME NEW S \in SUBSET Int, S # {}, NEW low \in Int, \A x \in S : low <= x
    PROVE  \E x \in S : \A y \in S : x <= y
<1> DEFINE Offsets == {n \in Nat : low + n \in S}
           Less == {p \in Nat \X Nat : p[1] < p[2]}
<1>1. \A x \in S : x - low \in Offsets
  <2> SUFFICES ASSUME NEW x \in S PROVE x - low \in Offsets
    OBVIOUS
  <2>1. x - low \in Nat /\ low + (x - low) = x
    OBVIOUS
  <2> QED
    BY <2>1
<1>2. Offsets \subseteq Nat /\ Offsets # {}
  <2>1. PICK x \in S : TRUE
    OBVIOUS
  <2> QED
    BY <1>1, <2>1
<1>3. IsWellFoundedOn(Less, Nat)
  BY NatLessThanWellFounded, Zenon DEF OpToRel
<1> HIDE DEF Less
<1>4. PICK d \in Offsets : \A e \in Offsets : <<e, d>> \notin Less
  <2> HIDE DEF Offsets
  <2> QED
    BY <1>2, <1>3, WFMin
<1>5. ASSUME NEW e \in Offsets PROVE d <= e
  <2>1. d \in Nat /\ e \in Nat /\ <<e, d>> \notin Less
    BY <1>2, <1>4
  <2> HIDE DEF Offsets
  <2> QED
    BY <2>1 DEF Less
<1>6. ASSUME NEW y \in S PROVE low + d <= y
  <2>1. d <= y - low /\ d \in Nat
    BY <1>1, <1>5
  <2> HIDE DEF Offsets
  <2> QED
    BY <2>1
<1> QED
  BY <1>6

\* One that is bounded above has a greatest element.
LEMMA GreatestInteger ==
    ASSUME NEW S \in SUBSET Int, S # {}, NEW high \in Int, \A x \in S : x <= high
    PROVE  \E x \in S : \A y \in S : y <= x
<1> DEFINE Mirror == {n \in Int : 0 - n \in S}
<1>1. \A x \in S : 0 - x \in Mirror
  <2> SUFFICES ASSUME NEW x \in S PROVE 0 - x \in Mirror
    OBVIOUS
  <2>1. 0 - x \in Int /\ 0 - (0 - x) = x
    OBVIOUS
  <2> QED
    BY <2>1
<1>2. /\ Mirror \in SUBSET Int /\ Mirror # {} /\ 0 - high \in Int
      /\ \A x \in Mirror : 0 - high <= x
  <2>1. PICK x \in S : TRUE
    OBVIOUS
  <2> QED
    BY <1>1, <2>1
<1>3. PICK m \in Mirror : \A n \in Mirror : m <= n
  <2> HIDE DEF Mirror
  <2> QED
    BY <1>2, LeastInteger
<1>4. ASSUME NEW y \in S PROVE y <= 0 - m
  <2>1. m <= 0 - y /\ m \in Int
    BY <1>1, <1>3
  <2> HIDE DEF Mirror
  <2> QED
    BY <2>1
<1> QED
  BY <1>3, <1>4

LEMMA WindowType ==
    ASSUME NEW w \in Window
    PROVE  w.fires \in SUBSET Int /\ w.duration \in Int /\ w.duration <= LookBack
<1>1. LookBack \in Int
  BY DEF LookBack
<1> QED
  BY <1>1 DEF Window

-------------------------------------------------------------------------------
(***************************************************************************)
(* The CHOOSEs of the arithmetic find what they look for.                  *)
(***************************************************************************)
LEMMA NextFireIsNext ==
    ASSUME NEW w \in Window, Recurs(w), NEW t \in Int
    PROVE  LET next == NextFire(w.fires, t) IN
           /\ next \in w.fires /\ next \in Int /\ next > t
           /\ \A g \in w.fires : g > t => next <= g
<1> DEFINE After == {f \in w.fires : f > t}
<1>1. w.fires \in SUBSET Int
  BY DEF Window
<1>2. After \in SUBSET Int /\ After # {} /\ \A x \in After : t <= x
  BY <1>1 DEF Recurs
<1>3. \E f \in After : \A g \in After : f <= g
  <2> HIDE DEF After
  <2> QED
    BY <1>2, LeastInteger
<1>4. \E f \in w.fires : f > t /\ \A g \in w.fires : g > t => f <= g
  BY <1>3
<1> QED
  BY <1>1, <1>4 DEF NextFire

LEMMA LastFireIsLast ==
    ASSUME NEW w \in Window, NEW now \in Int, Recent(w.fires, now) # {}
    PROVE  LET last == LastFire(w.fires, now) IN
           /\ last \in w.fires /\ last \in Int /\ last <= now
           /\ \A g \in Recent(w.fires, now) : g <= last
<1>1. Recent(w.fires, now) \in SUBSET Int
  BY DEF Recent, Window
<1>2. \A x \in Recent(w.fires, now) : x <= now
  BY DEF Recent
<1>3. \E f \in Recent(w.fires, now) : \A g \in Recent(w.fires, now) : g <= f
  BY <1>1, <1>2, GreatestInteger
<1>4. /\ LastFire(w.fires, now) \in Recent(w.fires, now)
      /\ \A g \in Recent(w.fires, now) : g <= LastFire(w.fires, now)
  BY <1>3 DEF LastFire
<1> QED
  BY <1>1, <1>4 DEF Recent

LEMMA NextStartIsNext ==
    ASSUME NEW windows \in SUBSET Window, windows # {}, \A w \in windows : Recurs(w),
           NEW t \in Int
    PROVE  LET next == NextWindowStart(windows, t) IN
           /\ next \in Int /\ next > t
           /\ \A w \in windows : \A g \in w.fires : g > t => next <= g
<1>1. \A w \in windows : /\ NextFire(w.fires, t) \in Int /\ NextFire(w.fires, t) > t
                         /\ \A g \in w.fires : g > t => NextFire(w.fires, t) <= g
  BY NextFireIsNext
<1>2. /\ NextStarts(windows, t) \in SUBSET Int /\ NextStarts(windows, t) # {}
      /\ \A s \in NextStarts(windows, t) : t <= s
  BY <1>1 DEF NextStarts
<1>3. \E s \in NextStarts(windows, t) : \A r \in NextStarts(windows, t) : s <= r
  BY <1>2, LeastInteger
<1>4. /\ NextWindowStart(windows, t) \in NextStarts(windows, t)
      /\ \A r \in NextStarts(windows, t) : NextWindowStart(windows, t) <= r
  BY <1>3 DEF NextWindowStart
<1>5. NextWindowStart(windows, t) \in Int /\ NextWindowStart(windows, t) > t
  BY <1>1, <1>4 DEF NextStarts
<1>6. ASSUME NEW w \in windows, NEW g \in w.fires, g > t
      PROVE  NextWindowStart(windows, t) <= g
  <2>1. NextFire(w.fires, t) \in NextStarts(windows, t)
    BY DEF NextStarts
  <2>2. NextWindowStart(windows, t) <= NextFire(w.fires, t) /\ NextFire(w.fires, t) <= g
    BY <1>1, <1>4, <1>6, <2>1
  <2>3. g \in Int /\ NextFire(w.fires, t) \in Int
    BY <1>1 DEF Window
  <2> QED
    BY <1>5, <2>2, <2>3
<1> QED
  BY <1>5, <1>6

-------------------------------------------------------------------------------
\* checkSingleWindow looks at the last start only, and no further back than a
\* week. It finds a window open exactly when some start of it, however long
\* ago and however many came after it, covers the time.
THEOREM WindowIsExact ==
    ASSUME NEW w \in Window, NEW now \in Int
    PROVE  IsOpen(w, now) <=> Covers(w, now)
<1>1. w.fires \in SUBSET Int /\ w.duration \in Int /\ w.duration <= LookBack
  BY WindowType
<1>2. ASSUME IsOpen(w, now) PROVE Covers(w, now)
  BY <1>2, LastFireIsLast DEF IsOpen, Covers
<1>3. ASSUME Covers(w, now) PROVE IsOpen(w, now)
  <2>1. PICK f \in w.fires : f <= now /\ now < f + w.duration
    BY <1>3 DEF Covers
  <2>2. f \in Recent(w.fires, now)
    BY <1>1, <2>1 DEF Recent, LookBack
  <2>3. f <= LastFire(w.fires, now) /\ LastFire(w.fires, now) \in Int
    BY <2>2, LastFireIsLast
  <2>4. now < LastFire(w.fires, now) + w.duration
    BY <1>1, <2>1, <2>3
  <2> QED
    BY <2>2, <2>4 DEF IsOpen
<1> QED
  BY <1>2, <1>3

\* A pass that is turned away comes back before any of the windows opens: none
\* opens while it waits.
THEOREM NoOpeningIsMissed ==
    ASSUME NEW windows \in SUBSET Window, \A w \in windows : Recurs(w),
           NEW now \in Int, ~Allowed(windows, now),
           NEW t \in Int, now <= t, t < now + RequeueAfter(windows, now, now)
    PROVE  ~Allowed(windows, t)
<1>1. windows # {}
  BY DEF Allowed
<1> DEFINE next == NextWindowStart(windows, now)
<1>2. next \in Int /\ next > now /\ \A w \in windows : \A g \in w.fires : g > now => next <= g
  BY <1>1, NextStartIsNext
<1>3. t < next
  <2> HIDE DEF next
  <2>1. RequeueAfter(windows, now, now) = IF next - now > RequeueCap THEN RequeueCap
                                          ELSE next - now
    BY DEF RequeueAfter, next
  <2> QED
    BY <1>2, <2>1 DEF RequeueCap
<1> HIDE DEF next
<1>4. ASSUME NEW w \in windows, Covers(w, t) PROVE FALSE
  <2>1. PICK f \in w.fires : f <= t /\ t < f + w.duration
    BY <1>4 DEF Covers
  <2>2. f \in Int /\ w.duration \in Int
    BY WindowType
  <2>3. f <= now
    BY <1>2, <1>3, <2>1, <2>2
  <2>4. Covers(w, now)
    BY <2>1, <2>2, <2>3 DEF Covers
  <2> QED
    BY <2>4, WindowIsExact DEF Allowed
<1> QED
  BY <1>1, <1>4, WindowIsExact DEF Allowed

\* It always comes back: the delay is positive when the clock is read once.
THEOREM TurnedAwayComesBack ==
    ASSUME NEW windows \in SUBSET Window, \A w \in windows : Recurs(w),
           NEW now \in Int, ~Allowed(windows, now)
    PROVE  RequeueAfter(windows, now, now) \in 1..RequeueCap
<1>1. windows # {}
  BY DEF Allowed
<1>2. NextWindowStart(windows, now) \in Int /\ NextWindowStart(windows, now) > now
  BY <1>1, NextStartIsNext
<1> QED
  BY <1>2 DEF RequeueAfter, RequeueCap

-------------------------------------------------------------------------------
(***************************************************************************)
(* The installer image, for every node, install image and annotation.      *)
(***************************************************************************)
LEMMA RepoType ==
    ASSUME NEW n \in NodeFacts
    PROVE  /\ Repo(n) \in Seq(STRING)
           /\ Len(Repo(n)) = n.install.colon
           /\ n.install.colon = Len(n.install.path) => Repo(n) = n.install.path
<1>1. n.install.path \in Seq(STRING) /\ n.install.colon \in Nat
      /\ n.install.colon <= Len(n.install.path)
  BY DEF NodeFacts, InstallImage
<1>. QED BY <1>1 DEF Repo

\* A repository with another schematic in place of its last part.
LEMMA Swapped ==
    ASSUME NEW repo \in Seq(STRING), NEW s \in STRING, Len(repo) > 1,
           NEW swapped, swapped = Append(SubSeq(repo, 1, Len(repo) - 1), s)
    PROVE  Carries(swapped, s) /\ SameParent(swapped, repo)
<1>. DEFINE front == SubSeq(repo, 1, Len(repo) - 1)
<1>1. /\ front \in Seq(STRING) /\ Len(front) = Len(repo) - 1
      /\ \A i \in 1..Len(repo) - 1 : front[i] = repo[i]
  OBVIOUS
<1>. HIDE DEF front
<1>2. /\ Len(Append(front, s)) = Len(repo)
      /\ Append(front, s)[Len(repo)] = s
      /\ \A i \in 1..Len(repo) - 1 : Append(front, s)[i] = front[i]
  <2>1. Len(Append(front, s)) = Len(front) + 1 /\ Append(front, s)[Len(front) + 1] = s
        /\ \A i \in 1..Len(front) : Append(front, s)[i] = front[i]
    BY <1>1, AppendProperties
  <2>2. Len(repo) \in Nat
    OBVIOUS
  <2>3. Len(front) + 1 = Len(repo) /\ 1..Len(front) = 1..Len(repo) - 1
    BY <1>1, <2>2
  <2>. QED BY <2>1, <2>3, Zenon
<1>3. swapped = Append(front, s)
  BY DEF front
<1>. QED BY <1>1, <1>2, <1>3 DEF Carries, SameParent

LEMMA FactoryCarries ==
    ASSUME NEW n \in NodeFacts, NEW s, FactoryRepo(n, s) # Refused
    PROVE  /\ FactoryRepo(n, s) = <<Factory, n.platform, s>>
           /\ Carries(FactoryRepo(n, s), s)
           /\ FactoryRepo(n, s)[1] = Factory
<1>1. FactoryRepo(n, s) = <<Factory, n.platform, s>>
  BY DEF FactoryRepo
<1>. HIDE DEF Factory
<1>. QED BY <1>1 DEF Carries

\* The cases of a node without an override.
LEMMA FromRuntimeKeeps ==
    ASSUME NEW n \in NodeFacts, FromRuntime(n) # Refused
    PROVE  /\ Carries(FromRuntime(n), n.schematic)
           /\ \/ Repo(n) = GenericInstallerRepo /\ FromRuntime(n)[1] = Factory
              \/ /\ Carries(Repo(n), DefaultSchematic)
                 /\ SameParent(FromRuntime(n), Repo(n))
<1>1. n.schematic \in STRING /\ Repo(n) \in Seq(STRING)
  BY RepoType DEF NodeFacts, Schematic
<1>2. CASE Repo(n) = GenericInstallerRepo
  <2>1. FromRuntime(n) = FactoryRepo(n, n.schematic)
    BY <1>2 DEF FromRuntime, Carries, GenericInstallerRepo, DefaultSchematic
  <2>. QED BY <1>2, <2>1, FactoryCarries
<1>3. CASE Repo(n) # GenericInstallerRepo /\ Carries(Repo(n), DefaultSchematic)
  <2>1. FromRuntime(n) = Append(SubSeq(Repo(n), 1, Len(Repo(n)) - 1), n.schematic)
    BY <1>3 DEF FromRuntime
  <2>2. Len(Repo(n)) > 1
    BY <1>3 DEF Carries
  <2>. QED BY <1>1, <1>3, <2>1, <2>2, Swapped
<1>4. CASE Repo(n) # GenericInstallerRepo /\ ~Carries(Repo(n), DefaultSchematic)
  BY <1>4 DEF FromRuntime
<1>. QED BY <1>2, <1>3, <1>4

LEMMA NoOverride ==
    ASSUME NEW n \in NodeFacts, NEW v \in BOOLEAN, n.factoryURL = <<>>,
           TargetRepo(n, v) # Refused
    PROVE  \/ Mismatched(n) /\ TargetRepo(n, v) = FromRuntime(n)
           \/ /\ ~Mismatched(n) /\ ~Wipes(n) /\ Unpublished(n, v)
              /\ TargetRepo(n, v) = FactoryRepo(n, DefaultSchematic)
           \/ /\ ~Mismatched(n) /\ ~Wipes(n) /\ ~Unpublished(n, v)
              /\ TargetRepo(n, v) = Repo(n)
<1>1. CASE Mismatched(n)
  BY <1>1 DEF TargetRepo
<1>2. CASE ~Mismatched(n)
  BY <1>2 DEF TargetRepo
<1>. QED BY <1>1, <1>2

-------------------------------------------------------------------------------
\* No reinstallation by tuppr wipes a node's extensions unnoticed: an installer
\* carries the schematic that the node runs, or is the one it has and not generic.
THEOREM ExtensionsSurvive ==
    \A n \in NodeFacts, v \in BOOLEAN : KeepsExtensions(n, v)
<1>. SUFFICES ASSUME NEW n \in NodeFacts, NEW v \in BOOLEAN, n.factoryURL = <<>>,
                     TargetRepo(n, v) # Refused
              PROVE  /\ n.schematic # NoSchematic => Carries(TargetRepo(n, v), n.schematic)
                     /\ n.schematic = NoSchematic /\ n.extensions =>
                           /\ TargetRepo(n, v) = Repo(n)
                           /\ ~LooksLikeGenericInstaller(TargetRepo(n, v))
  BY DEF KeepsExtensions
<1>1. CASE Mismatched(n) /\ TargetRepo(n, v) = FromRuntime(n)
  BY <1>1, FromRuntimeKeeps DEF Mismatched
<1>2. CASE /\ ~Mismatched(n) /\ ~Wipes(n) /\ Unpublished(n, v)
           /\ TargetRepo(n, v) = FactoryRepo(n, DefaultSchematic)
  <2>1. Repo(n) = GenericInstallerRepo
    BY <1>2 DEF Unpublished
  <2>2. LooksLikeGenericInstaller(Repo(n))
    BY <2>1 DEF LooksLikeGenericInstaller, GenericInstallerRepo
  <2>3. n.schematic = NoSchematic
    BY <1>2, <2>1 DEF Mismatched, Carries, GenericInstallerRepo, NodeFacts, Schematic
  <2>. QED BY <1>2, <2>2, <2>3 DEF Wipes
<1>3. CASE ~Mismatched(n) /\ ~Wipes(n) /\ TargetRepo(n, v) = Repo(n)
  BY <1>3 DEF Mismatched, Wipes
<1>. QED BY <1>1, <1>2, <1>3, NoOverride

\* Whoever overrides a node's repository, the schematic named beside it or the
\* node's own goes with it.
THEOREM OverrideIsHonoured ==
    \A n \in NodeFacts, v \in BOOLEAN : HonoursOverride(n, v)
<1>. SUFFICES ASSUME NEW n \in NodeFacts, NEW v \in BOOLEAN, n.factoryURL # <<>>,
                     TargetRepo(n, v) # Refused
              PROVE  Carries(TargetRepo(n, v),
                             IF n.annotated # NoSchematic THEN n.annotated ELSE n.schematic)
  BY DEF HonoursOverride
<1>1. /\ n.factoryURL \in Seq(STRING) /\ Len(n.factoryURL) > 0
      /\ n.annotated \in STRING /\ n.schematic \in STRING
  BY DEF NodeFacts, Schematic
<1>2. TargetRepo(n, v) = Append(n.factoryURL,
          IF n.annotated # NoSchematic THEN n.annotated ELSE n.schematic)
  BY DEF TargetRepo, Overridden
<1>. QED BY <1>1, <1>2, AppendProperties DEF Carries

\* An install image on a registry without a port is upgraded in its repository,
\* but for the two moves that the safety of extensions or of the release asks for.
THEOREM RepositoryIsKept ==
    \A n \in NodeFacts, v \in BOOLEAN : KeepsRepository(n, v)
<1>. SUFFICES ASSUME NEW n \in NodeFacts, NEW v \in BOOLEAN, n.factoryURL = <<>>,
                     n.install.colon = Len(n.install.path),
                     TargetRepo(n, v) # Refused, TargetRepo(n, v) # n.install.path
              PROVE  \/ /\ n.install.path = GenericInstallerRepo
                        /\ TargetRepo(n, v)[1] = Factory
                     \/ /\ Carries(n.install.path, DefaultSchematic)
                        /\ Carries(TargetRepo(n, v), n.schematic)
                        /\ SameParent(TargetRepo(n, v), n.install.path)
  BY DEF KeepsRepository
<1>1. Repo(n) = n.install.path
  BY RepoType
<1>2. CASE Mismatched(n) /\ TargetRepo(n, v) = FromRuntime(n)
  BY <1>1, <1>2, FromRuntimeKeeps
<1>3. CASE Unpublished(n, v) /\ TargetRepo(n, v) = FactoryRepo(n, DefaultSchematic)
  BY <1>1, <1>3, FactoryCarries DEF Unpublished, DefaultSchematic
<1>. QED BY <1>1, <1>2, <1>3, NoOverride
===============================================================================
