-------------------------- MODULE AppCatalogProofs --------------------------
(***************************************************************************)
(* Proofs about AppCatalog, for every set of profile identifiers.          *)
(***************************************************************************)
EXTENDS AppCatalog, FiniteSetTheorems, WellFoundedInduction, TLAPS

USE CatalogAssumption

\* A set of numbers that is not empty has a least one.
LEMMA HasLeast ==
  ASSUME NEW S, S \subseteq Nat, S # {}
  PROVE  \E i \in S : \A j \in S : i <= j
<1> DEFINE T == {0 .. i : i \in S}
<1>1. T \subseteq FiniteSubsetsOf(Nat)
  <2> SUFFICES ASSUME NEW i \in S PROVE 0 .. i \in FiniteSubsetsOf(Nat)
    OBVIOUS
  <2>1. i \in Int /\ 0 \in Int
    OBVIOUS
  <2>2. IsFiniteSet(0 .. i)
    BY <2>1, FS_Interval
  <2>3. 0 .. i \subseteq Nat
    OBVIOUS
  <2> QED
    BY <2>2, <2>3 DEF FiniteSubsetsOf
<1>2. T # {}
  OBVIOUS
<1> HIDE DEF T
<1>3. PICK x \in T : \A y \in T : ~ (<<y, x>> \in StrictSubsetOrdering(Nat))
  BY <1>1, <1>2, FS_StrictSubsetOrderingWellFounded, WFMin
<1> USE DEF T
<1>4. PICK i \in S : x = 0 .. i
  OBVIOUS
<1>5. ASSUME NEW j \in S PROVE i <= j
  <2>1. ~ (<<0 .. j, 0 .. i>> \in StrictSubsetOrdering(Nat))
    BY <1>3, <1>4
  <2>2. 0 .. j \subseteq Nat /\ 0 .. i \subseteq Nat
    OBVIOUS
  <2>3. ~ (0 .. j \subseteq 0 .. i /\ 0 .. j # 0 .. i)
    BY <2>1, <2>2 DEF StrictSubsetOrdering
  <2>4. SUFFICES ASSUME j < i PROVE FALSE
    OBVIOUS
  <2>5. 0 .. j \subseteq 0 .. i /\ i \notin 0 .. j /\ i \in 0 .. i
    BY <2>4
  <2> QED
    BY <2>3, <2>5
<1> QED
  BY <1>4, <1>5

\* find on a sorted, non-empty list of identifiers finds one of them.
LEMMA FirstIsMember ==
  ASSUME NEW S, S \subseteq Nat, S # {}
  PROVE  First(S) \in S
BY HasLeast DEF First

\* What is kept of a selection is a profile of the list, if there is one.
LEMMA KeepIsMember ==
  ASSUME NEW S, S \subseteq Nat, NEW selected
  PROVE  /\ S # {} => Keep(selected, S) \in S
         /\ Keep(selected, S) \in S \cup {0}
         /\ selected \in S => Keep(selected, S) = selected
<1>1. CASE S = {}
  BY <1>1 DEF Keep, First
<1>2. CASE S # {}
  BY <1>2, FirstIsMember DEF Keep
<1> QED
  BY <1>1, <1>2

\* No selected Proton node is missing, and one is selected if there is any.
Linked(c) ==
  /\ c.proton \in c.protons \cup {0}
  /\ c.protons # {} => c.proton # 0

\* The part of the invariant that a single catalog satisfies.
Sound(c) ==
  /\ Configured(c) => Validates(c)
  /\ ~ Configured(c) => c.firstHops = {} /\ c.protons = {} /\ c.mode = "single"
  /\ Linked(c)

\* A catalog is the record of its fields.
LEMMA Fields ==
  ASSUME NEW c \in Settings
  PROVE  c = [revision |-> c.revision, mode |-> c.mode,
              firstHops |-> c.firstHops, protons |-> c.protons,
              firstHop |-> c.firstHop, proton |-> c.proton]
  BY DEF Settings

\* merge_imports builds a valid state.
LEMMA ImportedIsSound ==
  ASSUME NEW c \in Settings, Sound(c), NEW r \in Request, r.command = "import", CanImport(c, r)
  PROVE  /\ Imported(c, r) \in Settings
         /\ Validates(Imported(c, r))
         /\ Linked(Imported(c, r))
<1> DEFINE d == Imported(c, r)
           F == IF r.role = "first-hop" THEN c.firstHops \cup r.files ELSE c.firstHops
           S == IF r.role = "proton" THEN c.protons \cup r.files ELSE c.protons
           f == IF c.firstHop \notin c.firstHops /\ r.role = "first-hop" THEN r.last
                ELSE c.firstHop
           h == IF f \in F THEN f ELSE First(F)
           p == Keep(c.proton, S)
           m == IF p = 0 THEN "single" ELSE c.mode
<1>1. d = [revision |-> c.revision, mode |-> m, firstHops |-> F, protons |-> S,
           firstHop |-> h, proton |-> p]
  BY DEF Imported, Merged
<1>2. /\ r.role = "first-hop" => r.files \subseteq FirstHop /\ r.files # {}
      /\ r.role = "proton" => r.files \subseteq Proton /\ Configured(c)
  BY DEF Request, CanImport
<1>3. F \subseteq FirstHop /\ F # {}
  BY <1>2 DEF Settings, CanImport, Sound, Validates
<1>4. S \subseteq Proton /\ S \subseteq Nat /\ 0 \notin S
  BY <1>2 DEF Settings
<1>5. h \in F
  <2>1. F \subseteq Nat
    BY <1>3
  <2> HIDE DEF F, f
  <2> QED
    BY <1>3, <2>1, FirstIsMember
<1>6. p \in S \cup {0} /\ (S # {} => p # 0)
  <2> HIDE DEF S
  <2>1. /\ S # {} => Keep(c.proton, S) \in S
        /\ Keep(c.proton, S) \in S \cup {0}
    BY <1>4, KeepIsMember, Zenon
  <2> QED
    BY <1>4, <2>1
<1>7. m \in Mode /\ (m = "double" => p # 0)
  BY DEF Mode, Settings
<1> HIDE DEF d, F, S, f, h, p, m
<1>8. d \in Settings
  BY <1>1, <1>3, <1>4, <1>5, <1>6, <1>7 DEF Settings
<1>9. Validates(d) /\ Linked(d)
  BY <1>1, <1>5, <1>6, <1>7 DEF Validates, Linked
<1> QED
  BY <1>8, <1>9 DEF d

\* delete_profile builds a valid state.
LEMMA DeletedIsSound ==
  ASSUME NEW c \in Settings, Sound(c), NEW r \in Request, r.command = "delete", CanDelete(c, r)
  PROVE  /\ Deleted(c, r) \in Settings
         /\ Validates(Deleted(c, r))
         /\ Linked(Deleted(c, r))
<1> DEFINE d == Deleted(c, r)
<1>0. c = [revision |-> c.revision, mode |-> c.mode,
           firstHops |-> c.firstHops, protons |-> c.protons,
           firstHop |-> c.firstHop, proton |-> c.proton]
  BY Fields
<1>1. Validates(c) /\ Linked(c)
  BY DEF Sound, CanDelete
<1>2. CASE r.role = "first-hop"
  <2> DEFINE S == c.firstHops \ {r.id}
             h == Keep(c.firstHop, S)
  <2>1. S \subseteq FirstHop /\ S \subseteq Nat /\ S # {}
    BY <1>2 DEF Settings, CanDelete
  <2>2. h \in S
    BY <2>1, KeepIsMember
  <2>3. d = [revision |-> c.revision, mode |-> c.mode,
             firstHops |-> S, protons |-> c.protons,
             firstHop |-> h, proton |-> c.proton]
    BY <1>2, <1>0 DEF Deleted
  <2> HIDE DEF d, h, S
  <2>4. d \in Settings
    BY <2>1, <2>2, <2>3 DEF Settings
  <2>5. Validates(d) /\ Linked(d)
    BY <1>1, <2>2, <2>3 DEF Validates, Linked
  <2> QED
    BY <2>4, <2>5 DEF d
<1>3. CASE r.role = "proton"
  <2> DEFINE S == c.protons \ {r.id}
             p == IF c.proton = r.id THEN First(S) ELSE c.proton
             m == IF p = 0 THEN "single" ELSE c.mode
  <2>1. S \subseteq Proton /\ S \subseteq Nat /\ 0 \notin S
    BY DEF Settings
  <2>2. p \in S \cup {0} /\ (S # {} => p # 0)
    <3>1. CASE c.proton = r.id
      <4>1. S # {} => First(S) \in S
        BY <2>1, FirstIsMember
      <4>2. S = {} => First(S) = 0
        BY DEF First
      <4> QED
        BY <2>1, <3>1, <4>1, <4>2
    <3>2. CASE c.proton # r.id
      BY <1>1, <3>2 DEF Linked
    <3> QED
      BY <3>1, <3>2
  <2>3. d = [revision |-> c.revision, mode |-> m,
             firstHops |-> c.firstHops, protons |-> S,
             firstHop |-> c.firstHop, proton |-> p]
    BY <1>3, <1>0 DEF Deleted
  <2>4. m \in Mode /\ (m = "double" => p # 0)
    BY DEF Mode, Settings
  <2> HIDE DEF d, m, p, S
  <2>5. d \in Settings
    BY <2>1, <2>2, <2>3, <2>4 DEF Settings
  <2>6. Validates(d) /\ Linked(d)
    BY <1>1, <2>2, <2>3, <2>4 DEF Validates, Linked
  <2> QED
    BY <2>5, <2>6 DEF d
<1> QED
  BY <1>2, <1>3 DEF CanDelete

\* update_selection builds a valid state.
LEMMA SelectedIsSound ==
  ASSUME NEW c \in Settings, Sound(c), NEW r \in Request, r.command = "select", CanSelect(c, r)
  PROVE  /\ Selected(c, r) \in Settings
         /\ Validates(Selected(c, r))
         /\ Linked(Selected(c, r))
<1> DEFINE d == Selected(c, r)
           p == IF r.proton = 0 THEN c.proton ELSE r.proton
<1>0. c = [revision |-> c.revision, mode |-> c.mode,
           firstHops |-> c.firstHops, protons |-> c.protons,
           firstHop |-> c.firstHop, proton |-> c.proton]
  BY Fields
<1>1. /\ r.firstHop \in c.firstHops
      /\ r.proton \in c.protons \cup {0}
      /\ r.mode = "double" => r.proton # 0
  BY DEF CanSelect
<1>2. r.mode \in Mode
  BY DEF Request
<1>3. Linked(c)
  BY DEF Sound
<1>4. d = [revision |-> c.revision, mode |-> r.mode,
           firstHops |-> c.firstHops, protons |-> c.protons,
           firstHop |-> r.firstHop, proton |-> p]
  <2>1. d = [c EXCEPT !.mode = r.mode, !.firstHop = r.firstHop, !.proton = p]
    BY DEF Selected
  <2> HIDE DEF d, p
  <2> QED
    BY <1>0, <2>1
<1>5. /\ p \in c.protons \cup {0}
      /\ c.protons # {} => p # 0
      /\ r.mode = "double" => p \in c.protons
  BY <1>1, <1>3 DEF Linked
<1> HIDE DEF d, p
<1>6. d \in Settings
  BY <1>1, <1>2, <1>4, <1>5 DEF Settings
<1>7. Validates(d) /\ Linked(d)
  BY <1>1, <1>4, <1>5 DEF Validates, Linked
<1> QED
  BY <1>6, <1>7 DEF d

\* Whatever a command accepts, it builds a valid state.
LEMMA ResultIsSound ==
  ASSUME NEW c \in Settings, Sound(c), NEW r \in Request, Accepted(c, r)
  PROVE  /\ Result(c, r) \in Settings
         /\ Validates(Result(c, r))
         /\ Linked(Result(c, r))
<1>1. CASE r.command = "import"
  BY <1>1, ImportedIsSound DEF Accepted, Result
<1>2. CASE r.command = "delete"
  BY <1>2, DeletedIsSound DEF Accepted, Result
<1>3. CASE r.command = "select"
  BY <1>3, SelectedIsSound DEF Accepted, Result
<1> QED
  BY <1>1, <1>2, <1>3 DEF Accepted

\* A commit gives a valid state its revision and changes nothing else.
LEMMA CommittedIsSound ==
  ASSUME NEW d \in Settings, Validates(d), Linked(d), NEW n \in 1 .. MaxRevision
  PROVE  /\ [d EXCEPT !.revision = n] \in Settings
         /\ Sound([d EXCEPT !.revision = n])
<1> DEFINE e == [d EXCEPT !.revision = n]
<1>1. e = [revision |-> n, mode |-> d.mode,
           firstHops |-> d.firstHops, protons |-> d.protons,
           firstHop |-> d.firstHop, proton |-> d.proton]
  BY Fields
<1> HIDE DEF e
<1>2. e \in Settings
  BY <1>1 DEF Settings
<1>3. Sound(e)
  BY <1>1 DEF Sound, Validates, Linked, Configured
<1> QED
  BY <1>2, <1>3 DEF e

CatalogInvariant == CatalogTypeOK /\ Sound(catalog)

\* No command, and nothing that happens to the core, breaks the invariant.
LEMMA CatalogStep == CatalogInvariant /\ [Next]_service => CatalogInvariant'
<1> SUFFICES ASSUME CatalogInvariant, [Next]_service
             PROVE  CatalogInvariant'
  OBVIOUS
<1> USE DEF CatalogInvariant, CatalogTypeOK
<1>1. ASSUME NEW r \in Request, Change(r)
      PROVE  CatalogInvariant'
  <2>1. CASE UNCHANGED service
    BY <2>1 DEF service, Sound, Linked, Configured, Validates
  <2>2. CASE /\ catalog.revision < MaxRevision
             /\ catalog' = [Result(catalog, r) EXCEPT !.revision = catalog.revision + 1]
             /\ shown' = "disconnected"
             /\ UNCHANGED core
    <3> DEFINE d == Result(catalog, r)
               n == catalog.revision + 1
    <3>1. d \in Settings /\ Validates(d) /\ Linked(d)
      BY <1>1, ResultIsSound DEF Change
    <3>2. n \in 1 .. MaxRevision
      BY <2>2 DEF Settings
    <3>3. catalog' = [d EXCEPT !.revision = n]
      BY <2>2
    <3> HIDE DEF d, n
    <3>4. catalog' \in Settings /\ Sound(catalog')
      BY <3>1, <3>2, <3>3, CommittedIsSound
    <3>5. Sound(catalog)'
      BY <3>4 DEF Sound, Configured, Validates, Linked
    <3> QED
      BY <2>2, <3>4, <3>5 DEF Shown
  <2> QED
    BY <1>1, <2>1, <2>2 DEF Change
<1>2. CASE Connect \/ Disconnect \/ Poll \/ Measure \/ CoreExits
  BY <1>2 DEF Connect, Disconnect, Poll, Measure, CoreExits, Core, Shown, Sound,
     Linked, Configured, Validates
<1>3. CASE Open
  <2>1. CASE UNCHANGED catalog
    BY <1>3, <2>1 DEF Open, Core, Shown, Sound, Linked, Configured, Validates
  <2>2. CASE /\ Configured(catalog) /\ Validates(catalog)
             /\ catalog.revision < MaxRevision
             /\ catalog' = [catalog EXCEPT !.revision = @ + 1]
    <3> DEFINE n == catalog.revision + 1
    <3>1. catalog \in Settings /\ Validates(catalog) /\ Linked(catalog)
      BY <2>2 DEF Sound
    <3>2. n \in 1 .. MaxRevision
      BY <2>2 DEF Settings
    <3>3. catalog' = [catalog EXCEPT !.revision = n]
      BY <2>2
    <3> HIDE DEF n
    <3>4. catalog' \in Settings /\ Sound(catalog')
      BY <3>1, <3>2, <3>3, CommittedIsSound
    <3>5. Sound(catalog)'
      BY <3>4 DEF Sound, Configured, Validates, Linked
    <3> QED
      BY <1>3, <3>4, <3>5 DEF Open, Core, Shown
  <2> QED
    BY <1>3, <2>1, <2>2 DEF Open
<1>4. CASE UNCHANGED service
  BY <1>4 DEF service, Sound, Linked, Configured, Validates
<1> QED
  BY <1>1, <1>2, <1>3, <1>4 DEF Next

\* The unconfigured state satisfies the invariant.
LEMMA CatalogInit == Init => CatalogInvariant
  BY DEF Init, CatalogInvariant, CatalogTypeOK, Sound, Linked, Unconfigured, Settings, Configured,
         Core, Shown, Mode

\* In every reachable state the invariant holds.
LEMMA CatalogInvariantHolds == Spec => []CatalogInvariant
<1>1. Init => CatalogInvariant
  BY CatalogInit
<1>2. CatalogInvariant /\ [Next]_service => CatalogInvariant'
  BY CatalogStep
<1> QED
  BY <1>1, <1>2, PTL DEF Spec

\* Whatever is imported, deleted and selected in whatever order, a configured
\* state has a first hop, an exit when it needs one, and no dangling selection.
THEOREM SelectionsAlwaysExist == Spec => []SelectionsExist
<1>1. CatalogInvariant => SelectionsExist
  BY DEF CatalogInvariant, Sound, Linked, SelectionsExist
<1> QED
  BY <1>1, CatalogInvariantHolds, PTL

\* The checks of the commands imply those of AppState::validate: no accepted
\* request is refused when its candidate is built.
THEOREM AcceptedRequestsValidate == Spec => []ValidationNeverRefuses
<1>1. CatalogInvariant => ValidationNeverRefuses
  <2> SUFFICES ASSUME CatalogInvariant, NEW r \in Request, Accepted(catalog, r)
               PROVE  Validates(Result(catalog, r))
    BY DEF ValidationNeverRefuses
  <2> QED
    BY ResultIsSound DEF CatalogInvariant, CatalogTypeOK
<1> QED
  BY <1>1, CatalogInvariantHolds, PTL

\* Imports, and deletes of profiles that carry no traffic, leave the route alone.
THEOREM RouteIsAlwaysStable == Spec => []RouteIsStable
<1>1. CatalogInvariant => RouteIsStable
  <2> SUFFICES ASSUME CatalogInvariant, NEW r \in Request,
                      Configured(catalog), Accepted(catalog, r),
                      r.command = "import" \/ (r.command = "delete" /\ ~ OnRoute(catalog, r))
               PROVE  Route(Result(catalog, r)) = Route(catalog)
    BY DEF RouteIsStable
  <2> DEFINE c == catalog
             d == Result(catalog, r)
  <2>1. c \in Settings /\ Validates(c)
    BY DEF CatalogInvariant, CatalogTypeOK, Sound
  <2>2. SUFFICES /\ d.mode = c.mode
                 /\ d.firstHop = c.firstHop
                 /\ c.mode = "double" => d.proton = c.proton
    BY DEF Route
  <2>3. CASE r.command = "import"
    <3> DEFINE F == IF r.role = "first-hop" THEN c.firstHops \cup r.files ELSE c.firstHops
               S == IF r.role = "proton" THEN c.protons \cup r.files ELSE c.protons
               p == Keep(c.proton, S)
    <3>1. c.firstHop \in c.firstHops /\ (c.mode = "double" => c.proton \in c.protons)
      BY <2>1 DEF Validates
    <3>2. d = [revision |-> c.revision, mode |-> IF p = 0 THEN "single" ELSE c.mode,
               firstHops |-> F, protons |-> S, firstHop |-> c.firstHop, proton |-> p]
      <4>1. d = Imported(c, r)
        BY <2>3 DEF Result
      <4>2. c.firstHop \in F
        BY <3>1
      <4> QED
        BY <3>1, <4>1, <4>2 DEF Imported, Merged
    <3>3. c.mode = "double" => p = c.proton /\ p # 0
      BY <2>1, <3>1 DEF Keep, Settings
    <3>4. c.mode \in {"single", "double"}
      BY <2>1 DEF Settings, Mode
    <3> HIDE DEF F, S, p
    <3> QED
      BY <3>2, <3>3, <3>4
  <2>4. CASE r.command = "delete" /\ r.role = "first-hop"
    <3> DEFINE h == Keep(c.firstHop, c.firstHops \ {r.id})
    <3>0. d = Deleted(c, r)
      BY <2>4 DEF Result
    <3>1. r.id # c.firstHop
      BY <2>4 DEF OnRoute
    <3>2. h = c.firstHop
      BY <2>1, <3>1 DEF Validates, Keep
    <3>3. d = [revision |-> c.revision, mode |-> c.mode,
               firstHops |-> c.firstHops \ {r.id}, protons |-> c.protons,
               firstHop |-> h, proton |-> c.proton]
      BY <2>1, <2>4, <3>0, Fields DEF Deleted
    <3> HIDE DEF h
    <3> QED
      BY <3>2, <3>3
  <2>5. CASE r.command = "delete" /\ r.role = "proton"
    <3> DEFINE p == IF c.proton = r.id THEN First(c.protons \ {r.id}) ELSE c.proton
               m == IF p = 0 THEN "single" ELSE c.mode
    <3>0. d = Deleted(c, r)
      BY <2>5 DEF Result
    <3>1. d = [revision |-> c.revision, mode |-> m,
               firstHops |-> c.firstHops, protons |-> c.protons \ {r.id},
               firstHop |-> c.firstHop, proton |-> p]
      BY <2>1, <2>5, <3>0, Fields DEF Deleted
    <3>2. c.mode = "double" => r.id # c.proton /\ c.proton # 0
      BY <2>1, <2>5 DEF OnRoute, Validates, Settings
    <3>3. c.mode = "double" => p = c.proton
      BY <3>2
    <3>4. c.mode \in {"single", "double"}
      BY <2>1 DEF Settings, Mode
    <3>5. m = c.mode
      BY <3>2, <3>3, <3>4
    <3> HIDE DEF p, m
    <3> QED
      BY <3>1, <3>3, <3>5
  <2> QED
    BY <2>3, <2>4, <2>5 DEF Accepted, CanDelete
<1> QED
  BY <1>1, CatalogInvariantHolds, PTL
=============================================================================
