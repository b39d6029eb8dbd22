----------------------- MODULE ProfileLibraryProofs -----------------------
(***************************************************************************)
(* Proofs about ProfileLibrary for any files, any sets of profiles, any    *)
(* domains and whatever they resolve to.                                   *)
(***************************************************************************)
EXTENDS ProfileLibrary, AppCatalogProofs, SequenceTheorems

----------------------------------------------------------------------------
(* Networks that leave no address out *)

\* There is an address at least, and only so many.
LEMMA SpaceIsNat == 2^Width \in Nat /\ 2^Width > 0
<1> DEFINE S == 1 .. Width
<1>1. IsFiniteSet(S) /\ Cardinality(S) = Width
  BY WidthAssumption, FS_Interval
<1>2. IsFiniteSet(SUBSET S) /\ Cardinality(SUBSET S) = 2^Cardinality(S)
  BY <1>1, FS_SUBSET
<1>3. SUBSET S # {}
  OBVIOUS
<1>4. Cardinality(SUBSET S) \in Nat /\ Cardinality(SUBSET S) # 0
  BY <1>2, <1>3, FS_CardinalityType, FS_EmptySet
<1> QED
  BY <1>1, <1>2, <1>4

\* The networks a WireGuard file may name.
Network == [first : Address, last : Address]

\* Sorted ranges have a last one.
LEMMA FinalIsLast ==
  ASSUME NEW R, R \subseteq Network, R # {}
  PROVE  /\ Final(R) \in R
         /\ \A q \in R : q.first < Final(R).first
                         \/ (q.first = Final(R).first /\ q.last <= Final(R).last)
<1> DEFINE N == 2^Width
           F == {N - r.first : r \in R}
<1>0. N \in Nat
  BY SpaceIsNat
<1> HIDE DEF N
<1>1. \A r \in R : r.first \in 0 .. N - 1 /\ r.last \in 0 .. N - 1
  BY DEF Network, Address, N
<1>2. F \subseteq Nat /\ F # {}
  BY <1>0, <1>1
<1>3. PICK i \in F : \A j \in F : i <= j
  BY <1>2, HasLeast
<1>4. PICK p \in R : i = N - p.first
  BY <1>3
<1>5. \A r \in R : r.first <= p.first
  <2> TAKE r \in R
  <2>1. N - r.first \in F
    OBVIOUS
  <2>2. N - p.first <= N - r.first
    BY <2>1, <1>3, <1>4
  <2> QED
    BY <2>2, <1>0, <1>1
<1> DEFINE L == {N - r.last : r \in {q \in R : q.first = p.first}}
<1>6. L \subseteq Nat /\ L # {}
  BY <1>0, <1>1
<1>7. PICK k \in L : \A j \in L : k <= j
  BY <1>6, HasLeast
<1>8. PICK z \in R : z.first = p.first /\ k = N - z.last
  BY <1>7
<1>9. \A r \in R : r.first < z.first \/ (r.first = z.first /\ r.last <= z.last)
  <2> TAKE r \in R
  <2>1. CASE r.first = p.first
    <3>1. N - r.last \in L
      BY <2>1
    <3>2. N - z.last <= N - r.last
      BY <3>1, <1>7, <1>8
    <3> QED
      BY <2>1, <3>2, <1>0, <1>1, <1>8
  <2> QED
    BY <2>1, <1>5, <1>8, <1>1
<1> QED
  BY <1>8, <1>9 DEF Final

\* next is the first address in none of the ranges.
FirstFree(R, next) ==
  /\ next \in Nat
  /\ ~ IsIn(next, R)
  /\ \A a \in Nat : a < next => IsIn(a, R)

\* What covers_all_ipv4 does with one more range behind the ones it has seen.
Sweep(next, r) == IF r.first <= next /\ r.last >= next THEN r.last + 1 ELSE next

\* One more range behind the ones seen moves it as the sweep does.
LEMMA SweepStep ==
  ASSUME NEW R, R \subseteq Network, R # {}, NEW next, FirstFree(R \ {Final(R)}, next)
  PROVE  FirstFree(R, Sweep(next, Final(R)))
<1> DEFINE x == Final(R)
           Q == R \ {x}
           v == Sweep(next, x)
<1>1. x \in R /\ \A q \in Q : q.first <= x.first
  BY FinalIsLast DEF Network, Address
<1>2. /\ \A q \in R : q.first \in Nat /\ q.last \in Nat
      /\ next \in Nat
  BY SpaceIsNat DEF Network, Address, FirstFree
<1>3. /\ \A q \in Q : ~ (q.first <= next /\ next <= q.last)
      /\ \A a \in Nat : a < next => \E q \in Q : q.first <= a /\ a <= q.last
  BY DEF FirstFree, IsIn
<1> HIDE DEF x
<1>4. CASE x.first <= next /\ x.last >= next
  <2>1. v = x.last + 1
    BY <1>4 DEF Sweep
  <2>2. \A q \in R : ~ (q.first <= v /\ v <= q.last)
    BY <1>1, <1>2, <1>3, <1>4, <2>1
  <2>3. ASSUME NEW a \in Nat, a < v PROVE \E q \in R : q.first <= a /\ a <= q.last
    BY <1>1, <1>2, <1>3, <1>4, <2>1, <2>3
  <2> QED
    BY <1>1, <1>2, <2>1, <2>2, <2>3 DEF FirstFree, IsIn, x
<1>5. CASE ~ (x.first <= next /\ x.last >= next)
  <2>1. v = next
    BY <1>5 DEF Sweep
  <2>2. \A q \in R : ~ (q.first <= v /\ v <= q.last)
    BY <1>2, <1>3, <1>5, <2>1
  <2> QED
    BY <1>2, <1>3, <2>1, <2>2 DEF FirstFree, IsIn, x
<1> QED
  BY <1>4, <1>5

\* There is one.
LEMMA FirstFreeExists ==
  ASSUME NEW R, R \subseteq Network
  PROVE  \E next : FirstFree(R, next)
<1> DEFINE S == {a \in Nat : ~ IsIn(a, R)}
<1>1. 2^Width \in S
  BY SpaceIsNat DEF Network, Address, IsIn
<1>2. PICK next \in S : \A a \in S : next <= a
  BY <1>1, HasLeast
<1>3. FirstFree(R, next)
  BY <1>2 DEF FirstFree
<1> QED
  BY <1>3

\* Two first free addresses are the same.
LEMMA FirstFreeIsOne ==
  ASSUME NEW R, NEW a, NEW b, FirstFree(R, a), FirstFree(R, b)
  PROVE  a = b
BY DEF FirstFree

\* There are only so many networks.
LEMMA NetworksAreFinite ==
  ASSUME NEW R, R \subseteq Network
  PROVE  IsFiniteSet(R)
<1> DEFINE both == [p \in Address \X Address |-> [first |-> p[1], last |-> p[2]]]
<1>1. IsFiniteSet(Address)
  BY SpaceIsNat, FS_Interval DEF Address
<1>2. IsFiniteSet(Address \X Address)
  BY <1>1, FS_Product
<1>3. both \in Surjection(Address \X Address, Network)
  <2>1. both \in [Address \X Address -> Network]
    BY DEF Network
  <2>2. ASSUME NEW r \in Network PROVE \E p \in Address \X Address : both[p] = r
    <3>1. <<r.first, r.last>> \in Address \X Address
      BY DEF Network
    <3>2. both[<<r.first, r.last>>] = r
      BY <3>1 DEF Network
    <3> QED
      BY <3>1, <3>2
  <2> HIDE DEF both
  <2> QED
    BY <2>1, <2>2 DEF Surjection
<1>4. IsFiniteSet(Network)
  BY <1>2, <1>3, FS_Surjection
<1> QED
  BY <1>4, FS_Subset

\* covers_all_ipv4 finds the first address in none of the ranges.
LEMMA SweepFindsFirstFree ==
  ASSUME NEW R, R \subseteq Network
  PROVE  FirstFree(R, InOrder(Sweep, 0, R))
<1> DEFINE Eq(f) == f = [s \in SUBSET R |->
                           IF s = {} THEN 0 ELSE Sweep(f[s \ {Final(s)}], Final(s))]
           w == [s \in SUBSET R |-> CHOOSE next : FirstFree(s, next)]
           f == CHOOSE f : Eq(f)
<1>1. InOrder(Sweep, 0, R) = f[R]
  BY DEF InOrder, MapThenFoldSet
<1>2. \A s \in SUBSET R : FirstFree(s, w[s])
  BY FirstFreeExists
<1>3. \A s \in SUBSET R : s # {} => s \ {Final(s)} \in SUBSET R
  OBVIOUS
<1>4. ASSUME NEW s \in SUBSET R, s # {}
      PROVE  w[s] = Sweep(w[s \ {Final(s)}], Final(s))
  <2>1. FirstFree(s \ {Final(s)}, w[s \ {Final(s)}])
    BY <1>2
  <2>2. FirstFree(s, Sweep(w[s \ {Final(s)}], Final(s)))
    BY <1>4, <2>1, SweepStep
  <2> QED
    BY <1>2, <2>2, FirstFreeIsOne
<1>5. w[{}] = 0
  <2>1. FirstFree({}, w[{}])
    BY <1>2
  <2>2. FirstFree({}, 0)
    BY DEF FirstFree, IsIn
  <2> QED
    BY <2>1, <2>2, FirstFreeIsOne
<1>6. Eq(w)
  <2>1. w = [s \in SUBSET R |-> w[s]]
    OBVIOUS
  <2> HIDE DEF w
  <2> QED
    BY <2>1, <1>4, <1>5
<1>7. Eq(f)
  BY <1>6
<1> HIDE DEF f, w
<1> DEFINE Bad == {n \in Nat : \E s \in SUBSET R : Cardinality(s) = n /\ f[s] # w[s]}
<1>8. Bad = {}
  <2> SUFFICES ASSUME Bad # {} PROVE FALSE
    OBVIOUS
  <2>1. PICK n \in Bad : \A m \in Bad : n <= m
    BY HasLeast
  <2>2. PICK s \in SUBSET R : Cardinality(s) = n /\ f[s] # w[s]
    BY <2>1
  <2>3. s # {}
    BY <1>5, <1>7, <2>2
  <2>4. IsFiniteSet(s) /\ Final(s) \in s
    BY <2>3, NetworksAreFinite, FinalIsLast
  <2> DEFINE q == s \ {Final(s)}
  <2>5. q \in SUBSET R /\ Cardinality(q) = n - 1 /\ n - 1 \in Nat
    <3>1. Cardinality(q) = Cardinality(s) - 1
      BY <2>4, FS_RemoveElement
    <3>2. Cardinality(s) \in Nat /\ Cardinality(s) # 0
      BY <2>3, <2>4, FS_CardinalityType, FS_EmptySet
    <3> QED
      BY <2>2, <3>1, <3>2
  <2>6. f[q] = w[q]
    BY <2>1, <2>5
  <2> QED
    BY <1>4, <1>7, <2>2, <2>3, <2>6
<1>9. IsFiniteSet(R)
  BY NetworksAreFinite
<1>10. f[R] = w[R]
  BY <1>8, <1>9, FS_CardinalityType
<1> QED
  BY <1>1, <1>2, <1>10

\* What covers_all_ipv4 promises: it accepts exactly the networks that leave no
\* IPv4 address out, in whatever order and with whatever overlaps they come.
THEOREM CoverageIsExact ==
  ASSUME NEW R, R \subseteq Network
  PROVE  CoversAllIpv4(R) <=> \A a \in Address : IsIn(a, R)
<1>1. CoversAllIpv4(R) <=> InOrder(Sweep, 0, R) = 2^Width
  BY DEF CoversAllIpv4, Sweep
<1> DEFINE v == InOrder(Sweep, 0, R)
<1>2. FirstFree(R, v)
  BY SweepFindsFirstFree
<1> HIDE DEF v
<1>3. ~ IsIn(2^Width, R)
  BY SpaceIsNat DEF Network, Address, IsIn
<1>4. v = 2^Width <=> \A a \in 0 .. 2^Width - 1 : IsIn(a, R)
  BY <1>2, <1>3, SpaceIsNat DEF FirstFree
<1> QED
  BY <1>1, <1>4 DEF v, Address

----------------------------------------------------------------------------
(* Trails through a document *)

\* The path has the only edge of each of its names, and ends where there is none.
IsTrail(d, path, n) ==
  /\ n \in 1 .. Cardinality(Names(d)) + 1
  /\ path \in Seq(ProxyNames(d) \cup GroupNames(d)) /\ Len(path) = n
  /\ \A i \in 1 .. n - 1 : Successors(d, path[i]) = {path[i + 1]}
  /\ Successors(d, path[n]) = {}

\* How a path grows name by name.
LEMMA Beginnings ==
  ASSUME NEW S, NEW path \in Seq(S), NEW i \in 1 .. Len(path)
  PROVE  /\ SubSeq(path, 1, i) \in Seq(S)
         /\ Last(SubSeq(path, 1, i)) = path[i]
         /\ i = 1 => SubSeq(path, 1, i) = <<path[1]>>
         /\ i < Len(path) => Append(SubSeq(path, 1, i), path[i + 1]) = SubSeq(path, 1, i + 1)
         /\ SubSeq(path, 1, Len(path)) = path
<1>1. /\ SubSeq(path, 1, i) \in Seq(S) /\ Len(SubSeq(path, 1, i)) = i
      /\ \A k \in 1 .. i : SubSeq(path, 1, i)[k] = path[k]
  BY SubSeqProperties
<1>2. Last(SubSeq(path, 1, i)) = path[i]
  BY <1>1 DEF Last
<1>3. i = 1 => SubSeq(path, 1, i) = <<path[1]>>
  <2> SUFFICES ASSUME i = 1 PROVE SubSeq(path, 1, 1) = <<path[1]>>
    OBVIOUS
  <2>1. <<path[1]>> \in Seq(S) /\ Len(<<path[1]>>) = 1 /\ <<path[1]>>[1] = path[1]
    OBVIOUS
  <2> DEFINE s == SubSeq(path, 1, 1)
             t == <<path[1]>>
  <2>2. s \in Seq(S) /\ Len(s) = 1 /\ s[1] = path[1]
    BY <1>1
  <2> HIDE DEF s, t
  <2>3. \A k \in 1 .. Len(s) : s[k] = t[k]
    BY <2>1, <2>2 DEF t
  <2>4. s = t
    BY <2>1, <2>2, <2>3, SeqEqual DEF t
  <2> QED
    BY <2>4 DEF s, t
<1>4. i < Len(path) => Append(SubSeq(path, 1, i), path[i + 1]) = SubSeq(path, 1, i + 1)
  OBVIOUS
<1>5. SubSeq(path, 1, Len(path)) = path
  BY SubSeqFull
<1> QED
  BY <1>1, <1>2, <1>3, <1>4, <1>5

\* One edge more, if there is one.
Onward(d, sofar) ==
  LET next == Successors(d, Last(sofar))
  IN  IF next = {} THEN sofar ELSE Append(sofar, CHOOSE m \in next : TRUE)

\* Following the edges finds the path.
LEMMA TrailIs ==
  ASSUME NEW d, Cardinality(Names(d)) \in Nat, NEW path, NEW n, IsTrail(d, path, n)
  PROVE  Trail(d, path[1]) = path
<1> DEFINE K == Cardinality(Names(d))
           Eq(f) == f = [k \in 0 .. K |-> IF k = 0 THEN <<path[1]>> ELSE Onward(d, f[k - 1])]
           w == [k \in 0 .. K |-> SubSeq(path, 1, IF k < n THEN k + 1 ELSE n)]
           f == CHOOSE f : Eq(f)
<1>1. Trail(d, path[1]) = f[K]
  BY DEF Trail, Onward
<1>2. /\ n \in Nat /\ n >= 1 /\ n <= K + 1 /\ Len(path) = n /\ K \in Nat
      /\ path \in Seq(ProxyNames(d) \cup GroupNames(d))
      /\ \A i \in 1 .. n - 1 : Successors(d, path[i]) = {path[i + 1]}
      /\ Successors(d, path[n]) = {}
  <2>1. K \in Nat
    OBVIOUS
  <2>2. n \in 1 .. K + 1
    BY DEF IsTrail
  <2>3. /\ Len(path) = n /\ path \in Seq(ProxyNames(d) \cup GroupNames(d))
        /\ \A i \in 1 .. n - 1 : Successors(d, path[i]) = {path[i + 1]}
        /\ Successors(d, path[n]) = {}
    BY DEF IsTrail
  <2> HIDE DEF K
  <2>4. n \in Nat /\ n >= 1 /\ n <= K + 1
    BY <2>1, <2>2
  <2> QED
    BY <2>1, <2>3, <2>4
<1> HIDE DEF K
<1>3. w[0] = <<path[1]>>
  BY <1>2, Beginnings
<1>4. ASSUME NEW k \in 1 .. K PROVE w[k] = Onward(d, w[k - 1])
  <2>1. CASE k < n
    <3>1. w[k - 1] = SubSeq(path, 1, k) /\ w[k] = SubSeq(path, 1, k + 1)
      BY <1>2, <2>1
    <3>5. k \in 1 .. Len(path) /\ k < Len(path)
      BY <1>2, <2>1
    <3>6. /\ Last(SubSeq(path, 1, k)) = path[k]
          /\ Append(SubSeq(path, 1, k), path[k + 1]) = SubSeq(path, 1, k + 1)
      BY <1>2, <3>5, Beginnings
    <3>2. Last(w[k - 1]) = path[k] /\ Append(w[k - 1], path[k + 1]) = w[k]
      BY <3>1, <3>6
    <3>3. Successors(d, path[k]) = {path[k + 1]}
      <4>1. k \in 1 .. n - 1
        BY <1>2, <2>1
      <4> QED
        BY <1>2, <4>1
    <3> HIDE DEF w
    <3>4. (CHOOSE m \in {path[k + 1]} : TRUE) = path[k + 1]
      OBVIOUS
    <3> QED
      BY <3>2, <3>3, <3>4 DEF Onward
  <2>2. CASE k >= n
    <3>1. w[k - 1] = SubSeq(path, 1, n) /\ w[k] = SubSeq(path, 1, n)
      BY <1>2, <2>2
    <3>2. Last(w[k - 1]) = path[n]
      BY <1>2, <3>1, Beginnings
    <3> HIDE DEF w
    <3> QED
      BY <1>2, <3>1, <3>2 DEF Onward
  <2>3. k < n \/ k >= n
    BY <1>2
  <2> HIDE DEF w
  <2> QED
    BY <2>1, <2>2, <2>3
<1>5. Eq(w)
  <2>1. w = [k \in 0 .. K |-> w[k]]
    OBVIOUS
  <2> HIDE DEF w
  <2>3. \A k \in 0 .. K : w[k] = IF k = 0 THEN <<path[1]>> ELSE Onward(d, w[k - 1])
    <3> TAKE k \in 0 .. K
    <3>1. k = 0 \/ k \in 1 .. K
      BY <1>2
    <3> QED
      BY <1>3, <1>4, <3>1
  <2>2. w = [k \in 0 .. K |-> IF k = 0 THEN <<path[1]>> ELSE Onward(d, w[k - 1])]
    BY <2>1, <2>3
  <2> QED
    BY <2>2
<1> HIDE DEF w
<1>6. Eq(f)
  BY <1>5
<1> HIDE DEF f
<1> DEFINE Bad == {k \in 0 .. K : f[k] # w[k]}
<1>7. Bad = {}
  <2> SUFFICES ASSUME Bad # {} PROVE FALSE
    OBVIOUS
  <2>1. PICK k \in Bad : \A m \in Bad : k <= m
    <3>1. Bad \subseteq Nat
      BY <1>2
    <3> HIDE DEF Bad
    <3> QED
      BY <3>1, HasLeast
  <2>2. k \in 0 .. K /\ f[k] # w[k]
    BY <2>1
  <2> HIDE DEF Bad
  <2>3. k # 0
    BY <1>3, <1>6, <2>2
  <2>4. k \in 1 .. K /\ k - 1 \in 0 .. K
    BY <1>2, <2>2, <2>3
  <2>5. f[k - 1] = w[k - 1]
    BY <2>1, <2>4, <1>2 DEF Bad
  <2>6. f[k] = Onward(d, f[k - 1])
    BY <1>6, <2>2, <2>3
  <2> QED
    BY <1>4, <2>2, <2>4, <2>5, <2>6
<1>8. w[K] = path
  BY <1>2, Beginnings DEF w
<1> QED
  BY <1>1, <1>2, <1>7, <1>8

\* d has all of the rendered document but perhaps its ports and its TUN.
Describes(d, hops, c) ==
  LET e == Document(hops, c)
  IN  /\ d.proxies = e.proxies /\ d.groups = e.groups /\ d.rules = e.rules
      /\ d.excludes = e.excludes /\ d.nameservers = e.nameservers /\ d.fixed = e.fixed

\* The hops generate_profile accepts, with MTUs the validator accepts.
SoundHops(hops, c) ==
  /\ IsFiniteSet(DOMAIN hops)
  /\ \A name \in DOMAIN hops : \E id : name = FH(id) \/ name = PN(id)
  /\ \A name \in DOMAIN hops :
       /\ hops[name].config.kind \in {"wireguard", "vless"}
       /\ hops[name].config.kind = "wireguard" => hops[name].config.mtu \in {"none", "fits"}
  /\ Renderable(hops, c)
  /\ c.mode \in {"single", "double"}

Selectors(c) ==
  {FIRST_HOP_SELECTOR, OUTLET_SELECTOR} \cup IF c.mode = "double" THEN {PROTON_SELECTOR} ELSE {}

\* Hops, selectors and the absence of a name are told apart.
LEMMA KindsOfNames ==
  ASSUME NEW id
  PROVE  /\ FH(id)[1] = "FH" /\ PN(id)[1] = "PN"
         /\ FH(id) \notin {FIRST_HOP_SELECTOR, PROTON_SELECTOR, OUTLET_SELECTOR, NoName}
         /\ PN(id) \notin {FIRST_HOP_SELECTOR, PROTON_SELECTOR, OUTLET_SELECTOR, NoName}
         /\ FIRST_HOP_SELECTOR # PROTON_SELECTOR /\ FIRST_HOP_SELECTOR # OUTLET_SELECTOR
         /\ PROTON_SELECTOR # OUTLET_SELECTOR
         /\ NoName \notin {FIRST_HOP_SELECTOR, PROTON_SELECTOR, OUTLET_SELECTOR}
<1>1. FH(id)[1] = "FH" /\ PN(id)[1] = "PN"
  BY DEF FH, PN
<1>2. /\ FIRST_HOP_SELECTOR[1] = "selector" /\ PROTON_SELECTOR[1] = "selector"
      /\ OUTLET_SELECTOR[1] = "selector" /\ NoName[1] = "none"
      /\ FIRST_HOP_SELECTOR[2] = "first hop" /\ PROTON_SELECTOR[2] = "proton"
      /\ OUTLET_SELECTOR[2] = "outlet"
  BY DEF FIRST_HOP_SELECTOR, PROTON_SELECTOR, OUTLET_SELECTOR, NoName
<1> QED
  BY <1>1, <1>2

\* The proxies and the groups of a document, and their names.
LEMMA DocumentNames ==
  ASSUME NEW d, NEW hops, NEW c, Describes(d, hops, c), SoundHops(hops, c)
  PROVE  /\ d.proxies = {Proxy(name, hops[name]) : name \in DOMAIN hops}
         /\ d.groups = Groups(DOMAIN hops, c)
         /\ ProxyNames(d) = DOMAIN hops
         /\ GroupNames(d) = Selectors(c)
         /\ DOMAIN hops \cap Selectors(c) = {}
         /\ \A name \in DOMAIN hops : Proxy(name, hops[name]).name = name
<1>1. d.proxies = {Proxy(name, hops[name]) : name \in DOMAIN hops}
      /\ d.groups = Groups(DOMAIN hops, c)
  BY DEF Describes, Document
<1>2. \A name \in DOMAIN hops : Proxy(name, hops[name]).name = name
  BY DEF Proxy
<1>3. ProxyNames(d) = DOMAIN hops
  BY <1>1, <1>2 DEF ProxyNames
<1>4. GroupNames(d) = Selectors(c)
  <2>1. CASE c.mode = "double"
    <3>1. d.groups = {[name |-> FIRST_HOP_SELECTOR, members |-> <<FH(c.firstHop)>>],
                      [name |-> OUTLET_SELECTOR, members |-> <<PROTON_SELECTOR>>],
                      [name |-> PROTON_SELECTOR, members |-> <<PN(c.proton)>>]}
      BY <1>1, <2>1 DEF Groups
    <3> QED
      BY <2>1, <3>1 DEF GroupNames, Selectors
  <2>2. CASE c.mode # "double"
    <3>1. d.groups = {[name |-> FIRST_HOP_SELECTOR, members |-> <<FH(c.firstHop)>>],
                      [name |-> OUTLET_SELECTOR, members |-> <<FIRST_HOP_SELECTOR>>]}
      BY <1>1, <2>2 DEF Groups
    <3> QED
      BY <2>2, <3>1 DEF GroupNames, Selectors
  <2> QED
    BY <2>1, <2>2
<1>5. DOMAIN hops \cap Selectors(c) = {}
  BY KindsOfNames DEF SoundHops, Selectors
<1> QED
  BY <1>1, <1>2, <1>3, <1>4, <1>5

\* There are as many names as proxies and groups.
LEMMA NamesAreDistinct ==
  ASSUME NEW d, NEW hops, NEW c, Describes(d, hops, c), SoundHops(hops, c)
  PROVE  /\ IsFiniteSet(Names(d)) /\ Cardinality(Names(d)) \in Nat
         /\ Cardinality(Names(d)) = Cardinality(d.proxies) + Cardinality(d.groups)
         /\ Cardinality(Names(d)) >= 3
         /\ c.mode = "double" => Cardinality(Names(d)) >= 5
<1> DEFINE N == DOMAIN hops
           f == [name \in N |-> Proxy(name, hops[name])]
<1>1. IsFiniteSet(N) /\ Cardinality(N) \in Nat
  BY FS_CardinalityType DEF SoundHops
<1>2. IsFiniteSet(d.proxies) /\ Cardinality(d.proxies) = Cardinality(N)
  <2>1. /\ f \in [N -> d.proxies]
        /\ \A a, b \in N : f[a] = f[b] => a = b
        /\ \A p \in d.proxies : \E a \in N : f[a] = p
    <3>1. /\ d.proxies = {Proxy(name, hops[name]) : name \in N}
          /\ \A name \in N : Proxy(name, hops[name]).name = name
      BY DocumentNames
    <3> HIDE DEF N
    <3> QED
      BY <3>1
  <2> HIDE DEF f
  <2>2. f \in Bijection(N, d.proxies)
    BY <2>1 DEF Bijection, Injection, Surjection, IsInjective
  <2>3. ExistsBijection(N, d.proxies)
    BY <2>2 DEF ExistsBijection
  <2> QED
    BY <1>1, <2>3, FS_Bijection
<1>3. /\ FH(c.firstHop) \in N
      /\ c.mode = "double" => PN(c.proton) \in N
      /\ FH(c.firstHop) # PN(c.proton)
  BY KindsOfNames DEF SoundHops, Renderable
<1>4. Cardinality(N) >= 1 /\ (c.mode = "double" => Cardinality(N) >= 2)
  <2>1. Cardinality({FH(c.firstHop)}) = 1 /\ IsFiniteSet({FH(c.firstHop)})
    BY FS_Singleton
  <2>2. Cardinality({FH(c.firstHop), PN(c.proton)}) = 2
    <3>1. {FH(c.firstHop), PN(c.proton)} = {FH(c.firstHop)} \cup {PN(c.proton)}
      OBVIOUS
    <3> QED
      BY <1>3, <2>1, <3>1, FS_AddElement
  <2>3. Cardinality({FH(c.firstHop)}) <= Cardinality(N)
    BY <1>1, <1>3, FS_Subset
  <2>4. c.mode = "double" => Cardinality({FH(c.firstHop), PN(c.proton)}) <= Cardinality(N)
    BY <1>1, <1>3, FS_Subset
  <2> QED
    BY <1>1, <2>1, <2>2, <2>3, <2>4
<1>5. /\ IsFiniteSet(d.groups) /\ IsFiniteSet(Selectors(c))
      /\ Cardinality(d.groups) = Cardinality(Selectors(c))
      /\ Cardinality(Selectors(c)) = IF c.mode = "double" THEN 3 ELSE 2
  <2> DEFINE a == [name |-> FIRST_HOP_SELECTOR, members |-> <<FH(c.firstHop)>>]
             b == [name |-> OUTLET_SELECTOR,
                   members |-> <<IF c.mode = "double" THEN PROTON_SELECTOR
                                 ELSE FIRST_HOP_SELECTOR>>]
             e == [name |-> PROTON_SELECTOR, members |-> <<PN(c.proton)>>]
  <2>1. d.groups = {a, b} \cup IF c.mode = "double" THEN {e} ELSE {}
    BY DocumentNames DEF Groups
  <2>2. a # b /\ e \notin {a, b}
    BY KindsOfNames
  <2> HIDE DEF a, b, e
  <2>3. ASSUME NEW x, NEW y, x # y
        PROVE  IsFiniteSet({x, y}) /\ Cardinality({x, y}) = 2
    <3>1. {x, y} = {x} \cup {y} /\ y \notin {x}
      BY <2>3
    <3>2. IsFiniteSet({x}) /\ Cardinality({x}) = 1
      BY FS_Singleton
    <3>3. IsFiniteSet({x} \cup {y}) /\ Cardinality({x} \cup {y}) = Cardinality({x}) + 1
      BY <3>1, <3>2, FS_AddElement
    <3> QED
      BY <3>1, <3>2, <3>3
  <2>4. ASSUME NEW x, NEW y, NEW z, x # y, z \notin {x, y}
        PROVE  IsFiniteSet({x, y} \cup {z}) /\ Cardinality({x, y} \cup {z}) = 3
    <3>1. IsFiniteSet({x, y}) /\ Cardinality({x, y}) = 2
      BY <2>3, <2>4
    <3>2. /\ IsFiniteSet({x, y} \cup {z})
          /\ Cardinality({x, y} \cup {z}) = Cardinality({x, y}) + 1
      BY <2>4, <3>1, FS_AddElement
    <3> QED
      BY <3>1, <3>2
  <2>5. CASE c.mode = "double"
    <3>1. d.groups = {a, b} \cup {e}
      BY <2>1, <2>5
    <3>2. Selectors(c) = {FIRST_HOP_SELECTOR, OUTLET_SELECTOR} \cup {PROTON_SELECTOR}
      BY <2>5 DEF Selectors
    <3>3. /\ FIRST_HOP_SELECTOR # OUTLET_SELECTOR
          /\ PROTON_SELECTOR \notin {FIRST_HOP_SELECTOR, OUTLET_SELECTOR}
      BY KindsOfNames
    <3>4. IsFiniteSet(d.groups) /\ Cardinality(d.groups) = 3
      <4>1. IsFiniteSet({a, b} \cup {e}) /\ Cardinality({a, b} \cup {e}) = 3
        BY <2>2, <2>4, Zenon
      <4> QED
        BY <3>1, <4>1, Zenon
    <3>5. IsFiniteSet(Selectors(c)) /\ Cardinality(Selectors(c)) = 3
      <4>1. /\ IsFiniteSet({FIRST_HOP_SELECTOR, OUTLET_SELECTOR} \cup {PROTON_SELECTOR})
            /\ Cardinality({FIRST_HOP_SELECTOR, OUTLET_SELECTOR} \cup {PROTON_SELECTOR}) = 3
        BY <2>4, <3>3, Zenon
      <4> QED
        BY <3>2, <4>1, Zenon
    <3> QED
      BY <2>5, <3>4, <3>5
  <2>6. CASE c.mode # "double"
    <3>1. d.groups = {a, b}
      BY <2>1, <2>6
    <3>2. Selectors(c) = {FIRST_HOP_SELECTOR, OUTLET_SELECTOR}
      BY <2>6 DEF Selectors
    <3>3. FIRST_HOP_SELECTOR # OUTLET_SELECTOR
      BY KindsOfNames
    <3>4. IsFiniteSet(d.groups) /\ Cardinality(d.groups) = 2
      <4>1. IsFiniteSet({a, b}) /\ Cardinality({a, b}) = 2
        BY <2>2, <2>3, Zenon
      <4> QED
        BY <3>1, <4>1, Zenon
    <3>5. IsFiniteSet(Selectors(c)) /\ Cardinality(Selectors(c)) = 2
      BY <2>3, <3>2, <3>3
    <3> QED
      BY <2>6, <3>4, <3>5
  <2> QED
    BY <2>5, <2>6
<1>6. Names(d) = N \cup Selectors(c) /\ N \cap Selectors(c) = {}
  BY DocumentNames DEF Names
<1>7. IsFiniteSet(Names(d)) /\ Cardinality(Names(d)) = Cardinality(N) + Cardinality(Selectors(c))
  <2> HIDE DEF N
  <2>1. Cardinality(N \cap Selectors(c)) = 0
    BY <1>6, FS_EmptySet
  <2>2. /\ IsFiniteSet(N \cup Selectors(c))
        /\ Cardinality(N \cup Selectors(c)) =
             Cardinality(N) + Cardinality(Selectors(c)) - Cardinality(N \cap Selectors(c))
    BY <1>1, <1>5, FS_Union
  <2>3. Cardinality(Selectors(c)) \in Nat
    BY <1>5, FS_CardinalityType
  <2> QED
    BY <1>1, <1>6, <2>1, <2>2, <2>3
<1> HIDE DEF N
<1> QED
  BY <1>1, <1>2, <1>4, <1>5, <1>7

\* The edges between the names.
LEMMA DocumentEdges ==
  ASSUME NEW d, NEW hops, NEW c, Describes(d, hops, c), SoundHops(hops, c)
  PROVE  /\ \A id : FH(id) \in DOMAIN hops => Successors(d, FH(id)) = {}
         /\ \A id : PN(id) \in DOMAIN hops => Successors(d, PN(id)) = {FIRST_HOP_SELECTOR}
         /\ Successors(d, FIRST_HOP_SELECTOR) = {FH(c.firstHop)}
         /\ c.mode = "double" => Successors(d, PROTON_SELECTOR) = {PN(c.proton)}
         /\ Successors(d, OUTLET_SELECTOR) =
              {IF c.mode = "double" THEN PROTON_SELECTOR ELSE FIRST_HOP_SELECTOR}
<1> DEFINE P(name) == {p.dialer : p \in {q \in d.proxies : q.name = name /\ q.dialer # NoName}}
           G(name) == UNION {ToSet(g.members) : g \in {h \in d.groups : h.name = name}}
<1>1. \A name : Successors(d, name) = P(name) \cup G(name)
  BY DEF Successors
<1>2. /\ d.proxies = {Proxy(name, hops[name]) : name \in DOMAIN hops}
      /\ GroupNames(d) = Selectors(c) /\ DOMAIN hops \cap Selectors(c) = {}
      /\ \A name \in DOMAIN hops : Proxy(name, hops[name]).name = name
  BY DocumentNames
<1>3. \A name \in Selectors(c) : P(name) = {}
  BY <1>2
<1>4. \A name \in DOMAIN hops : G(name) = {}
  <2> TAKE name \in DOMAIN hops
  <2>1. \A g \in d.groups : g.name # name
    BY <1>2 DEF GroupNames
  <2> QED
    BY <2>1
<1>5. \A name \in DOMAIN hops :
        P(name) = IF name[1] = "PN" THEN {FIRST_HOP_SELECTOR} ELSE {}
  <2> TAKE name \in DOMAIN hops
  <2> DEFINE p == Proxy(name, hops[name])
  <2>1. {q \in d.proxies : q.name = name} = {p}
    BY <1>2
  <2>2. p.dialer = IF name[1] = "PN" THEN FIRST_HOP_SELECTOR ELSE NoName
    BY DEF Proxy
  <2>3. FIRST_HOP_SELECTOR # NoName
    BY KindsOfNames
  <2> HIDE DEF p
  <2>4. P(name) = {q.dialer : q \in {r \in {p} : r.dialer # NoName}}
    BY <2>1
  <2> QED
    BY <2>2, <2>3, <2>4
<1>6. \A x : ToSet(<<x>>) = {x}
  BY DEF ToSet
<1>9. ASSUME NEW name, NEW members, NEW x, members = <<x>>,
             {g \in d.groups : g.name = name} = {[name |-> name, members |-> members]}
      PROVE  G(name) = {x}
  <2> DEFINE e == [name |-> name, members |-> members]
  <2>1. G(name) = UNION {ToSet(g.members) : g \in {e}}
    BY <1>9
  <2>2. e.members = members
    OBVIOUS
  <2> HIDE DEF e
  <2>3. UNION {ToSet(g.members) : g \in {e}} = ToSet(e.members)
    OBVIOUS
  <2> QED
    BY <1>6, <1>9, <2>1, <2>2, <2>3
<1>7. CASE c.mode = "double"
  <2>1. d.groups = {[name |-> FIRST_HOP_SELECTOR, members |-> <<FH(c.firstHop)>>],
                    [name |-> OUTLET_SELECTOR, members |-> <<PROTON_SELECTOR>>],
                    [name |-> PROTON_SELECTOR, members |-> <<PN(c.proton)>>]}
    BY <1>7, DocumentNames DEF Groups
  <2>2. /\ {g \in d.groups : g.name = FIRST_HOP_SELECTOR} =
             {[name |-> FIRST_HOP_SELECTOR, members |-> <<FH(c.firstHop)>>]}
        /\ {g \in d.groups : g.name = OUTLET_SELECTOR} =
             {[name |-> OUTLET_SELECTOR, members |-> <<PROTON_SELECTOR>>]}
        /\ {g \in d.groups : g.name = PROTON_SELECTOR} =
             {[name |-> PROTON_SELECTOR, members |-> <<PN(c.proton)>>]}
    BY <2>1, KindsOfNames
  <2> HIDE DEF G
  <2>5. G(FIRST_HOP_SELECTOR) = {FH(c.firstHop)}
    BY <2>2, <1>9
  <2>6. G(OUTLET_SELECTOR) = {PROTON_SELECTOR}
    BY <2>2, <1>9
  <2>7. G(PROTON_SELECTOR) = {PN(c.proton)}
    BY <2>2, <1>9
  <2>3. /\ G(FIRST_HOP_SELECTOR) = {FH(c.firstHop)}
        /\ G(OUTLET_SELECTOR) = {PROTON_SELECTOR}
        /\ G(PROTON_SELECTOR) = {PN(c.proton)}
    BY <2>5, <2>6, <2>7
  <2>4. Selectors(c) = {FIRST_HOP_SELECTOR, OUTLET_SELECTOR, PROTON_SELECTOR}
    BY <1>7 DEF Selectors
  <2> HIDE DEF P, G
  <2> QED
    BY <1>1, <1>3, <1>4, <1>5, <1>7, <2>3, <2>4, KindsOfNames
<1>8. CASE c.mode # "double"
  <2>1. d.groups = {[name |-> FIRST_HOP_SELECTOR, members |-> <<FH(c.firstHop)>>],
                    [name |-> OUTLET_SELECTOR, members |-> <<FIRST_HOP_SELECTOR>>]}
    BY <1>8, DocumentNames DEF Groups
  <2>2. /\ {g \in d.groups : g.name = FIRST_HOP_SELECTOR} =
             {[name |-> FIRST_HOP_SELECTOR, members |-> <<FH(c.firstHop)>>]}
        /\ {g \in d.groups : g.name = OUTLET_SELECTOR} =
             {[name |-> OUTLET_SELECTOR, members |-> <<FIRST_HOP_SELECTOR>>]}
    BY <2>1, KindsOfNames
  <2>3. /\ G(FIRST_HOP_SELECTOR) = {FH(c.firstHop)}
        /\ G(OUTLET_SELECTOR) = {FIRST_HOP_SELECTOR}
    BY <2>2, <1>9
  <2>4. Selectors(c) = {FIRST_HOP_SELECTOR, OUTLET_SELECTOR}
    BY <1>8 DEF Selectors
  <2> HIDE DEF P, G
  <2> QED
    BY <1>1, <1>3, <1>4, <1>5, <1>8, <2>3, <2>4, KindsOfNames
<1> QED
  BY <1>7, <1>8

\* Where the references of a document lead.
LEMMA DocumentTrails ==
  ASSUME NEW d, NEW hops, NEW c, Describes(d, hops, c), SoundHops(hops, c)
  PROVE  /\ \A id : FH(id) \in DOMAIN hops => Trail(d, FH(id)) = <<FH(id)>>
         /\ \A id : PN(id) \in DOMAIN hops =>
              Trail(d, PN(id)) = <<PN(id), FIRST_HOP_SELECTOR, FH(c.firstHop)>>
         /\ Trail(d, FIRST_HOP_SELECTOR) = <<FIRST_HOP_SELECTOR, FH(c.firstHop)>>
         /\ c.mode = "double" =>
              Trail(d, PROTON_SELECTOR) =
                <<PROTON_SELECTOR, PN(c.proton), FIRST_HOP_SELECTOR, FH(c.firstHop)>>
         /\ Trail(d, OUTLET_SELECTOR) = ExpectedActivePath(c)
<1> DEFINE K == Cardinality(Names(d))
           S == ProxyNames(d) \cup GroupNames(d)
<1>1. K \in Nat /\ K >= 3 /\ (c.mode = "double" => K >= 5)
  BY NamesAreDistinct
<1>2. /\ \A id : FH(id) \in DOMAIN hops => Successors(d, FH(id)) = {}
      /\ \A id : PN(id) \in DOMAIN hops => Successors(d, PN(id)) = {FIRST_HOP_SELECTOR}
      /\ Successors(d, FIRST_HOP_SELECTOR) = {FH(c.firstHop)}
      /\ c.mode = "double" => Successors(d, PROTON_SELECTOR) = {PN(c.proton)}
      /\ Successors(d, OUTLET_SELECTOR) =
           {IF c.mode = "double" THEN PROTON_SELECTOR ELSE FIRST_HOP_SELECTOR}
  BY DocumentEdges
<1>3. /\ FH(c.firstHop) \in DOMAIN hops
      /\ c.mode = "double" => PN(c.proton) \in DOMAIN hops
  BY DEF SoundHops, Renderable
<1>4. /\ FH(c.firstHop) \in S /\ FIRST_HOP_SELECTOR \in S /\ OUTLET_SELECTOR \in S
      /\ c.mode = "double" => PN(c.proton) \in S /\ PROTON_SELECTOR \in S
      /\ DOMAIN hops \subseteq S
  BY <1>3, DocumentNames DEF Selectors
<1>5. ASSUME NEW n \in 1 .. 5, n <= K + 1, NEW path \in Seq(S), Len(path) = n,
             \A i \in 1 .. n - 1 : Successors(d, path[i]) = {path[i + 1]},
             Successors(d, path[n]) = {}
      PROVE  Trail(d, path[1]) = path
  <2>1. n \in 1 .. K + 1
    BY <1>1, <1>5
  <2>2. IsTrail(d, path, n)
    BY <2>1, <1>5 DEF IsTrail
  <2> QED
    BY <1>1, <2>2, TrailIs
<1> HIDE DEF K, S
<1>6. ASSUME NEW id, FH(id) \in DOMAIN hops PROVE Trail(d, FH(id)) = <<FH(id)>>
  <2> DEFINE path == <<FH(id)>>
  <2>1. path \in Seq(S) /\ Len(path) = 1 /\ path[1] = FH(id)
    BY <1>4, <1>6
  <2>2. Successors(d, FH(id)) = {}
    BY <1>2, <1>6
  <2> HIDE DEF path
  <2>3. Trail(d, path[1]) = path
    BY <1>1, <1>5, <2>1, <2>2
  <2> QED
    BY <2>1, <2>3 DEF path
<1>7. Trail(d, FIRST_HOP_SELECTOR) = <<FIRST_HOP_SELECTOR, FH(c.firstHop)>>
  <2> DEFINE path == <<FIRST_HOP_SELECTOR, FH(c.firstHop)>>
  <2>1. path \in Seq(S) /\ Len(path) = 2 /\ path[1] = FIRST_HOP_SELECTOR /\ path[2] = FH(c.firstHop)
    BY <1>4
  <2>2. \A i \in 1 .. 1 : i = 1
    OBVIOUS
  <2> HIDE DEF path
  <2>3. /\ \A i \in 1 .. 1 : Successors(d, path[i]) = {path[i + 1]}
        /\ Successors(d, path[2]) = {}
    BY <1>2, <1>3, <2>1, <2>2
  <2>4. Trail(d, path[1]) = path
    BY <1>1, <1>5, <2>1, <2>3
  <2> QED
    BY <2>1, <2>4 DEF path
<1>8. ASSUME NEW id, PN(id) \in DOMAIN hops
      PROVE  Trail(d, PN(id)) = <<PN(id), FIRST_HOP_SELECTOR, FH(c.firstHop)>>
  <2> DEFINE path == <<PN(id), FIRST_HOP_SELECTOR, FH(c.firstHop)>>
  <2>1. /\ path \in Seq(S) /\ Len(path) = 3
        /\ path[1] = PN(id) /\ path[2] = FIRST_HOP_SELECTOR /\ path[3] = FH(c.firstHop)
    BY <1>4, <1>8
  <2>2. \A i \in 1 .. 2 : i = 1 \/ i = 2
    OBVIOUS
  <2> HIDE DEF path
  <2>3. /\ \A i \in 1 .. 2 : Successors(d, path[i]) = {path[i + 1]}
        /\ Successors(d, path[3]) = {}
    BY <1>2, <1>3, <1>8, <2>1, <2>2
  <2>4. Trail(d, path[1]) = path
    BY <1>1, <1>5, <2>1, <2>3
  <2> QED
    BY <2>1, <2>4 DEF path
<1>9. ASSUME c.mode = "double"
      PROVE  Trail(d, PROTON_SELECTOR) =
               <<PROTON_SELECTOR, PN(c.proton), FIRST_HOP_SELECTOR, FH(c.firstHop)>>
  <2> DEFINE path == <<PROTON_SELECTOR, PN(c.proton), FIRST_HOP_SELECTOR, FH(c.firstHop)>>
  <2>1. /\ path \in Seq(S) /\ Len(path) = 4
        /\ path[1] = PROTON_SELECTOR /\ path[2] = PN(c.proton)
        /\ path[3] = FIRST_HOP_SELECTOR /\ path[4] = FH(c.firstHop)
    BY <1>4, <1>9
  <2>2. \A i \in 1 .. 3 : i = 1 \/ i = 2 \/ i = 3
    OBVIOUS
  <2> HIDE DEF path
  <2>3. /\ \A i \in 1 .. 3 : Successors(d, path[i]) = {path[i + 1]}
        /\ Successors(d, path[4]) = {}
    BY <1>2, <1>3, <1>9, <2>1, <2>2
  <2>4. Trail(d, path[1]) = path
    BY <1>1, <1>5, <2>1, <2>3
  <2> QED
    BY <2>1, <2>4 DEF path
<1>10. CASE c.mode = "double"
  <2> DEFINE path == ExpectedActivePath(c)
  <2>1. /\ path \in Seq(S) /\ Len(path) = 5
        /\ path[1] = OUTLET_SELECTOR /\ path[2] = PROTON_SELECTOR /\ path[3] = PN(c.proton)
        /\ path[4] = FIRST_HOP_SELECTOR /\ path[5] = FH(c.firstHop)
    BY <1>4, <1>10 DEF ExpectedActivePath
  <2>2. \A i \in 1 .. 4 : i = 1 \/ i = 2 \/ i = 3 \/ i = 4
    OBVIOUS
  <2> HIDE DEF path
  <2>3. /\ \A i \in 1 .. 4 : Successors(d, path[i]) = {path[i + 1]}
        /\ Successors(d, path[5]) = {}
    BY <1>2, <1>3, <1>10, <2>1, <2>2
  <2>4. Trail(d, path[1]) = path
    BY <1>1, <1>5, <1>10, <2>1, <2>3
  <2> QED
    BY <1>6, <1>7, <1>8, <1>9, <1>10, <2>1, <2>4 DEF path
<1>11. CASE c.mode # "double"
  <2> DEFINE path == ExpectedActivePath(c)
  <2>1. /\ path \in Seq(S) /\ Len(path) = 3
        /\ path[1] = OUTLET_SELECTOR /\ path[2] = FIRST_HOP_SELECTOR /\ path[3] = FH(c.firstHop)
    BY <1>4, <1>11 DEF ExpectedActivePath
  <2>2. \A i \in 1 .. 2 : i = 1 \/ i = 2
    OBVIOUS
  <2> HIDE DEF path
  <2>3. /\ \A i \in 1 .. 2 : Successors(d, path[i]) = {path[i + 1]}
        /\ Successors(d, path[3]) = {}
    BY <1>2, <1>3, <1>11, <2>1, <2>2
  <2>4. Trail(d, path[1]) = path
    BY <1>1, <1>5, <2>1, <2>3
  <2> QED
    BY <1>6, <1>7, <1>8, <1>11, <2>1, <2>4 DEF path
<1> QED
  BY <1>10, <1>11

\* The validator accepts every document generate_profile writes.
LEMMA DocumentIsValid ==
  ASSUME NEW d, NEW hops, NEW c, Describes(d, hops, c), SoundHops(hops, c)
  PROVE  ValidateRenderedProfile(d)
<1>1. /\ d.proxies = {Proxy(name, hops[name]) : name \in DOMAIN hops}
      /\ d.groups = Groups(DOMAIN hops, c)
      /\ ProxyNames(d) = DOMAIN hops /\ GroupNames(d) = Selectors(c)
      /\ Names(d) = DOMAIN hops \cup Selectors(c)
  BY DocumentNames DEF Names
<1>2. /\ FH(c.firstHop) \in DOMAIN hops
      /\ c.mode = "double" => PN(c.proton) \in DOMAIN hops
      /\ \A name \in DOMAIN hops : HopAccepted(hops[name].config)
      /\ \A name \in DOMAIN hops :
           /\ hops[name].config.kind \in {"wireguard", "vless"}
           /\ hops[name].config.kind = "wireguard" => hops[name].config.mtu \in {"none", "fits"}
  BY DEF SoundHops, Renderable
<1>3. /\ d.rules = Rules /\ d.fixed = Fixed
      /\ d.excludes = {Lan, HostRange(hops[FH(c.firstHop)].config.host.at)}
  BY DEF Describes, Document, Excludes
<1> DEFINE egress == IF c.mode = "double" THEN PN(c.proton) ELSE FH(c.firstHop)
<1>4. d.nameservers =
        {[server |-> s, via |-> OUTLET_SELECTOR] : s \in ConfigDns(hops[egress].config)}
  BY DEF Describes, Document
<1>5. ConfigDns(hops[egress].config) # {}
  <2>1. egress \in DOMAIN hops
    BY <1>2
  <2> HIDE DEF egress
  <2> QED
    BY <1>2, <2>1 DEF ConfigDns, HopAccepted, Ipv4WireGuard, Checked
<1>6. ValidateGeneral(d)
  <2>1. d.nameservers # {}
    BY <1>4, <1>5
  <2>2. ASSUME NEW name \in DOMAIN hops
        PROVE  LET p == Proxy(name, hops[name])
               IN  /\ p.kind = "wireguard" => p.dns # {} /\ p.mtu \in {"fits", "1280", "1408"}
                   /\ p.server.form = "IPv4"
    BY <1>2 DEF Proxy, HopAccepted, Ipv4WireGuard
  <2> QED
    BY <1>1, <1>3, <2>1, <2>2 DEF ValidateGeneral
<1>7. ValidateReferences(d)
  <2>1. Cardinality(Names(d)) = Cardinality(d.proxies) + Cardinality(d.groups)
    BY NamesAreDistinct
  <2>2. \A g \in d.groups : Len(g.members) = 1
    BY <1>1 DEF Groups
  <2>3. {FIRST_HOP_SELECTOR, OUTLET_SELECTOR} \subseteq GroupNames(d)
    BY <1>1 DEF Selectors
  <2>4. \A p \in d.proxies :
          /\ p.name[1] = "PN" => p.dialer = FIRST_HOP_SELECTOR
          /\ p.name[1] = "FH" => p.dialer = NoName
    BY <1>1 DEF Proxy
  <2>5. \A name \in Names(d) :
          \/ \E id : name = FH(id) /\ FH(id) \in DOMAIN hops
          \/ \E id : name = PN(id) /\ PN(id) \in DOMAIN hops
          \/ name \in {FIRST_HOP_SELECTOR, OUTLET_SELECTOR}
          \/ name = PROTON_SELECTOR /\ c.mode = "double"
    BY <1>1 DEF SoundHops, Selectors
  <2>6. \A name \in Names(d) : Successors(d, name) \subseteq Names(d)
    BY <1>1, <1>2, <2>5, DocumentEdges DEF Selectors
  <2>7. Successors(d, OUTLET_SELECTOR) \subseteq {FIRST_HOP_SELECTOR, PROTON_SELECTOR}
    BY DocumentEdges
  <2>8. Acyclic(d)
    <3> SUFFICES ASSUME NEW name \in Names(d) PROVE Successors(d, Last(Trail(d, name))) = {}
      BY DEF Acyclic
    <3>1. /\ \A x : Last(<<x>>) = x
          /\ \A x, y : Last(<<x, y>>) = y
          /\ \A x, y, z : Last(<<x, y, z>>) = z
          /\ \A x, y, z, u : Last(<<x, y, z, u>>) = u
          /\ \A x, y, z, u, v : Last(<<x, y, z, u, v>>) = v
      BY DEF Last
    <3>2. \E id : FH(id) \in DOMAIN hops /\ Last(Trail(d, name)) = FH(id)
      <4>1. CASE \E id : name = FH(id) /\ FH(id) \in DOMAIN hops
        BY <4>1, <3>1, DocumentTrails
      <4>2. CASE \E id : name = PN(id) /\ PN(id) \in DOMAIN hops
        BY <4>2, <1>2, <3>1, DocumentTrails
      <4>3. CASE name = FIRST_HOP_SELECTOR
        BY <4>3, <1>2, <3>1, DocumentTrails
      <4>4. CASE name = PROTON_SELECTOR /\ c.mode = "double"
        BY <4>4, <1>2, <3>1, DocumentTrails
      <4>5. CASE name = OUTLET_SELECTOR
        <5>1. Last(ExpectedActivePath(c)) = FH(c.firstHop)
          BY <3>1 DEF ExpectedActivePath
        <5> QED
          BY <4>5, <1>2, <5>1, DocumentTrails
      <4> QED
        BY <2>5, <4>1, <4>2, <4>3, <4>4, <4>5
    <3> QED
      BY <3>2, DocumentEdges
  <2> QED
    BY <2>1, <2>2, <2>3, <2>4, <2>6, <2>7, <2>8 DEF ValidateReferences
<1>8. ValidateRoutes(d)
  <2> DEFINE direct == {r.range : r \in {q \in ToSet(d.rules) :
                                           q.matches = "IPv4" /\ q.target = DIRECT}}
             first == {p \in d.proxies : p.name \in Successors(d, FIRST_HOP_SELECTOR)}
             a == Rule("IPv4", Lan, DIRECT)
             b == Rule("IPv6", Everything, REJECT)
             z == Rule("all", Everything, OUTLET_SELECTOR)
             x == Proxy(FH(c.firstHop), hops[FH(c.firstHop)])
  <2>1. ToSet(d.rules) = {a, b, z} /\ Last(d.rules) = z
    BY <1>3 DEF Rules, ToSet, Last
  <2>2. /\ a.matches = "IPv4" /\ a.target = DIRECT /\ a.range = Lan
        /\ b.matches = "IPv6" /\ z.matches = "all" /\ z.target = OUTLET_SELECTOR
    BY DEF Rule
  <2>3. OUTLET_SELECTOR # DIRECT
    <3>1. OUTLET_SELECTOR[1] = "selector" /\ DIRECT[1] = "core"
      BY DEF OUTLET_SELECTOR, DIRECT
    <3> QED
      BY <3>1
  <2>4. x \in d.proxies /\ x.name = FH(c.firstHop) /\ x.server = hops[FH(c.firstHop)].config.host
    BY <1>1, <1>2 DEF Proxy
  <2>5. Successors(d, FIRST_HOP_SELECTOR) = {FH(c.firstHop)}
    BY DocumentEdges
  <2> HIDE DEF a, b, z, x
  <2>6. direct = {Lan}
    BY <2>1, <2>2
  <2>7. x \in first /\ d.excludes = direct \cup {HostRange(x.server.at)}
    BY <1>3, <2>4, <2>5, <2>6
  <2>8. Lan \in Local
    BY DocumentAssumption
  <2>9. \A r \in ToSet(d.rules) : ~ (r.matches = "all" /\ r.target = DIRECT)
    BY <2>1, <2>2, <2>3
  <2>10. direct \subseteq Local
    BY <2>6, <2>8
  <2> HIDE DEF direct, first
  <2> QED
    BY <2>1, <2>7, <2>9, <2>10 DEF ValidateRoutes, direct, first, z
<1>9. ValidateDns(d)
  BY <1>1, <1>4 DEF ValidateDns, Selectors
<1> QED
  BY <1>6, <1>7, <1>8, <1>9 DEF ValidateRenderedProfile

----------------------------------------------------------------------------
(* Records, secrets and documents of the library *)

\* The profiles of a state.
Profiles(c) == c.firstHops \cup c.protons

\* A record is the one apply_import made from the profile's own file, at a time
\* when the domains resolved to something.
Matching(v, id) ==
  /\ v.key.of = id
  /\ v.key.purpose = Purpose(v.config)
  /\ \E answers \in [Domain -> Answers] : v.config = Resolved(Contents[id], answers)

\* There are no other releases; exactly the profiles of the current state have
\* records, from their own files; their secrets are in the vault; and the
\* document has their proxies.
LibraryInvariant ==
  /\ release \in Releases
  /\ resolver \in [Domain -> Answers]
  /\ \A id \in Ids :
       IF id \in Profiles(catalog) THEN Matching(record[id], id) ELSE record[id] = NoRecord
  /\ Profiles(catalog) \subseteq vault
  /\ document.proxies =
       {Proxy(name, Materialized(record[name[2]])) : name \in HopNames(catalog)}
  /\ \A p \in document.proxies : p.server.form = "IPv4"

----------------------------------------------------------------------------
(* The library is the catalogue with more detail *)

\* What the library adds to the commands never makes one do what the catalogue
\* does not allow: records, secrets, documents and the refresh at the start of
\* the program are details of AppCatalog's actions.
THEOREM LibraryImplementsCatalog == LibrarySpec => Spec
<1>1. LibraryInit => Init
  BY DEF LibraryInit
<1>2. [LibraryNext]_vars => [Next]_service
  BY DEF LibraryNext, Next, Command, Run, Start, Resolve, vars, service
<1> QED
  BY <1>1, <1>2, PTL DEF LibrarySpec, Spec

\* So the profiles that exist are identifiers of the library.
THEOREM LibraryCatalogInvariant == LibrarySpec => []CatalogInvariant
BY LibraryImplementsCatalog, CatalogInvariantHolds, PTL

----------------------------------------------------------------------------
(* Records, secrets and proxies *)

\* A configuration with its domain resolved, field by field.
LEMMA ResolvedFields ==
  ASSUME NEW id \in Ids, NEW answers \in [Domain -> Answers]
  PROVE  LET c == Contents[id]
             d == Resolved(c, answers)
         IN  /\ d.kind = c.kind
             /\ c.host.form # "domain" => d.host = c.host
             /\ c.host.form = "domain" /\ d.host.form = "IPv4" => d.host.at \in Answers
             /\ c.kind = "vless" =>
                  d.servername = IF c.servername = "none" /\ c.tls /\ c.host.form = "domain"
                                 THEN "domain" ELSE c.servername
<1> DEFINE c == Contents[id]
           d == Resolved(c, answers)
<1>1. c \in WireGuardConfig \cup VlessConfig
  BY LibraryAssumption
<1>2. CASE ~ (c.kind = "vless" /\ c.host.form = "domain")
  <2>1. d = c
    BY <1>2 DEF Resolved
  <2> QED
    BY <1>1, <1>2, <2>1
<1>3. CASE c.kind = "vless" /\ c.host.form = "domain"
  <2>1. c \in VlessConfig
    BY <1>1, <1>3 DEF WireGuardConfig
  <2>2. c.host \in Host
    BY <2>1 DEF VlessConfig
  <2>3. c.host.at \in Domain
    BY <1>3, <2>2 DEF Host
  <2>4. d = [c EXCEPT !.host = [form |-> "IPv4", at |-> answers[c.host.at]],
                      !.servername = IF @ = "none" /\ c.tls THEN "domain" ELSE @]
    BY <1>3 DEF Resolved
  <2>5. c \in [kind : {"vless"}, host : Host, dns : SUBSET Address, tls : BOOLEAN,
               servername : {"none", "given"}, reality : SUBSET {"public-key", "short-id"}]
    BY <2>1 DEF VlessConfig
  <2> HIDE DEF c, d
  <2>6. /\ d.kind = c.kind
        /\ d.host = [form |-> "IPv4", at |-> answers[c.host.at]]
        /\ d.servername = IF c.servername = "none" /\ c.tls THEN "domain" ELSE c.servername
    BY <2>4, <2>5
  <2> QED
    BY <1>3, <2>3, <2>6 DEF c, d
<1> QED
  BY <1>2, <1>3

\* The record of a new profile is made from its file.
LEMMA VersionMatches ==
  ASSUME NEW id \in Ids, resolver \in [Domain -> Answers]
  PROVE  Matching(Version(id, Resolved(Contents[id], resolver)), id)
BY DEF Matching, Version

\* The records a command leaves behind.
LEMMA RecordsMatch ==
  ASSUME LibraryInvariant, NEW c, NEW r, NEW id \in Ids
  PROVE  IF id \in Profiles(c) THEN Matching(Records(c, r)[id], id)
         ELSE Records(c, r)[id] = NoRecord
BY VersionMatches DEF LibraryInvariant, Records, Profiles

\* The proxies of a document, whatever release wrote it.
LEMMA WrittenProxies ==
  ASSUME release \in Releases, NEW c, NEW records
  PROVE  /\ Written(c, records).proxies =
              {Proxy(name, Materialized(records[name[2]])) : name \in HopNames(c)}
         /\ Document(Hops(c, records), c).proxies = Written(c, records).proxies
<1> DEFINE d == Document(Hops(c, records), c)
<1>1. d.proxies = {Proxy(name, Hops(c, records)[name]) : name \in DOMAIN Hops(c, records)}
  BY DEF Document
<1>2. /\ DOMAIN Hops(c, records) = HopNames(c)
      /\ \A name \in HopNames(c) : Hops(c, records)[name] = Materialized(records[name[2]])
  BY DEF Hops
<1>3. d.proxies = {Proxy(name, Materialized(records[name[2]])) : name \in HopNames(c)}
  BY <1>1, <1>2
<1>4. Written(c, records).proxies = d.proxies
  BY DEF Written, Releases, Document
<1> QED
  BY <1>3, <1>4

\* A candidate that renders has an IPv4 endpoint in every proxy.
LEMMA RenderedEndpoints ==
  ASSUME NEW c, NEW records, NEW secrets, Renders(c, records, secrets), NEW name \in HopNames(c)
  PROVE  Proxy(name, Materialized(records[name[2]])).server.form = "IPv4"
<1>1. name \in DOMAIN Hops(c, records)
      /\ Hops(c, records)[name] = Materialized(records[name[2]])
  BY DEF Hops
<1>2. HopAccepted(Materialized(records[name[2]]).config)
  BY <1>1 DEF Renders, Renderable
<1> QED
  BY <1>2 DEF HopAccepted, Proxy

\* A committed candidate leaves records, vault and document in order.
LEMMA CommitStep ==
  ASSUME LibraryInvariant, UNCHANGED <<release, resolver>>, NEW c, NEW r,
         Profiles(c) \subseteq Ids, Profiles(catalog') = Profiles(c),
         HopNames(catalog') = HopNames(c), NEW secrets,
         Commit(c, Records(c, r), secrets)
  PROVE  LibraryInvariant'
<1> DEFINE records == Records(c, r)
<1>1. /\ Renders(c, records, secrets) /\ record' = records /\ vault' = secrets
      /\ document' = Written(c, records)
  BY DEF Commit
<1>2. \A id \in Ids : IF id \in Profiles(c) THEN Matching(records[id], id)
                      ELSE records[id] = NoRecord
  BY RecordsMatch
<1> HIDE DEF records
<1>3. Profiles(c) \subseteq vault'
  BY <1>1, <1>2 DEF Renders, SecretKnown, Matching, Profiles
<1>4. document'.proxies = {Proxy(name, Materialized(records[name[2]])) : name \in HopNames(c)}
  BY <1>1, WrittenProxies DEF LibraryInvariant
<1>5. \A p \in document'.proxies : p.server.form = "IPv4"
  BY <1>1, <1>4, RenderedEndpoints
<1> QED
  BY <1>1, <1>2, <1>3, <1>4, <1>5 DEF LibraryInvariant, Matching

\* Every step keeps the library in order.
LEMMA LibraryStep ==
  ASSUME CatalogInvariant, LibraryInvariant, [LibraryNext]_vars
  PROVE  LibraryInvariant'
<1>1. ASSUME NEW r \in Request, Command(r) PROVE LibraryInvariant'
  <2>1. CASE catalog' = catalog
    BY <1>1, <2>1 DEF Command, LibraryInvariant, Profiles, HopNames
  <2>2. CASE catalog' # catalog
    <3> DEFINE c == Result(catalog, r)
    <3>1. /\ Accepted(catalog, r)
          /\ catalog' = [c EXCEPT !.revision = catalog.revision + 1]
      BY <1>1, <2>2 DEF Command, Change, service
    <3>2. c \in Settings
      BY <3>1, ResultIsSound DEF CatalogInvariant, CatalogTypeOK
    <3>3. Commit(c, Records(c, r), vault \cup Pending(r)) /\ UNCHANGED <<release, resolver>>
      BY <1>1, <2>2 DEF Command
    <3> HIDE DEF c
    <3>4. Profiles(c) \subseteq Ids
      BY <3>2 DEF Profiles, Ids, Settings
    <3>5. catalog'.firstHops = c.firstHops /\ catalog'.protons = c.protons
      BY <3>1, <3>2 DEF Settings
    <3> QED
      BY <3>3, <3>4, <3>5, CommitStep DEF Profiles, HopNames
  <2> QED
    BY <2>1, <2>2
<1>2. CASE Start
  <2>1. catalog'.firstHops = catalog.firstHops /\ catalog'.protons = catalog.protons
    BY <1>2 DEF Start, Open, CatalogInvariant, CatalogTypeOK, Settings
  <2>2. UNCHANGED <<record, vault, resolver>> /\ release' \in Releases
    BY <1>2 DEF Start, Releases
  <2>3. document'.proxies = document.proxies
    <3>1. CASE document' = document
      BY <3>1
    <3>2. CASE document' = Document(Hops(catalog, record), catalog)
      BY <3>2, WrittenProxies DEF LibraryInvariant
    <3> QED
      BY <1>2, <3>1, <3>2 DEF Start
  <2> QED
    BY <2>1, <2>2, <2>3 DEF LibraryInvariant, Profiles, HopNames, Matching
<1>3. CASE Run
  <2>1. UNCHANGED <<catalog, library>>
    BY <1>3 DEF Run, Connect, Disconnect, Poll, Measure, CoreExits
  <2> QED
    BY <2>1 DEF library, LibraryInvariant, Profiles, HopNames, Matching
<1>4. CASE Resolve
  <2>1. UNCHANGED <<catalog, record, vault, document, release>>
    BY <1>4 DEF Resolve
  <2>2. resolver' \in [Domain -> Answers]
    BY <1>4 DEF Resolve, LibraryInvariant
  <2> QED
    BY <2>1, <2>2 DEF LibraryInvariant, Profiles, HopNames, Matching
<1>5. CASE UNCHANGED vars
  BY <1>5 DEF vars, library, LibraryInvariant, Profiles, HopNames, Matching
<1> QED
  BY <1>1, <1>2, <1>3, <1>4, <1>5 DEF LibraryNext

\* Whatever was imported, deleted and selected, and whatever release wrote the
\* document: records, secrets and proxies are those of the profiles there are.
THEOREM LibraryInvariantHolds == LibrarySpec => []LibraryInvariant
<1>1. LibraryInit => LibraryInvariant
  BY DEF LibraryInit, Init, Unconfigured, LibraryInvariant, Profiles, HopNames, NoDocument
<1>2. CatalogInvariant /\ LibraryInvariant /\ [LibraryNext]_vars => LibraryInvariant'
  BY LibraryStep
<1> QED
  BY <1>1, <1>2, LibraryCatalogInvariant, PTL DEF LibrarySpec

\* Each proxy of the document is the one its file describes, with the file's own
\* secret, at an address the domain had once.
THEOREM ProxiesAreThoseOfFiles == LibrarySpec => []ProxiesMatchFiles
<1>1. CatalogInvariant /\ LibraryInvariant => ProxiesMatchFiles
  <2> SUFFICES ASSUME CatalogInvariant, LibraryInvariant, NEW p \in document.proxies
               PROVE  LET c == Contents[p.name[2]]
                      IN  /\ p.name[2] \in catalog.firstHops \cup catalog.protons
                          /\ p.key = p.name[2]
                          /\ c.host.form = "domain" => p.server.at \in Answers
                          /\ c.host.form # "domain" => p.server = c.host
                          /\ c.kind = "vless" =>
                               p.servername = IF c.servername = "none" /\ c.tls
                                                 /\ c.host.form = "domain"
                                              THEN "domain" ELSE c.servername
    BY DEF ProxiesMatchFiles
  <2>1. PICK name \in HopNames(catalog) : p = Proxy(name, Materialized(record[name[2]]))
    BY DEF LibraryInvariant
  <2>2. PICK id \in Profiles(catalog) : name[2] = id
    BY DEF HopNames, FH, PN, Profiles
  <2>3. id \in Ids
    BY DEF Profiles, Ids, CatalogInvariant, CatalogTypeOK, Settings
  <2>4. Matching(record[id], id)
    BY <2>3 DEF LibraryInvariant
  <2>5. PICK answers \in [Domain -> Answers] :
          record[id].config = Resolved(Contents[id], answers)
    BY <2>4 DEF Matching
  <2> DEFINE d == Resolved(Contents[id], answers)
  <2>6. /\ p.name[2] = id /\ p.key = id /\ p.server = d.host
        /\ d.kind = "vless" => p.servername = d.servername
    BY <2>1, <2>2, <2>4, <2>5 DEF Proxy, Materialized, Matching
  <2>7. d.host.form = "IPv4"
    BY <2>6 DEF LibraryInvariant
  <2> QED
    BY <2>3, <2>6, <2>7, ResolvedFields DEF Profiles
<1> QED
  BY <1>1, LibraryCatalogInvariant, LibraryInvariantHolds, PTL

----------------------------------------------------------------------------
(* Reconciliation *)

\* Names of hops and names of selectors are told apart.
LEMMA NamesDiffer ==
  ASSUME NEW c, NEW name \in HopNames(c)
  PROVE  name \notin {FIRST_HOP_SELECTOR, PROTON_SELECTOR, OUTLET_SELECTOR}
BY KindsOfNames DEF HopNames

\* What a core reports that runs the document of a state.
LEMMA ReportedView ==
  ASSUME NEW c, NEW records
  PROVE  LET view == ApiView(Document(Hops(c, records), c), FALSE)
         IN  /\ view.fixed = Fixed /\ view.ports = "own"
             /\ view.proxies = ExpectedRuntime(HopNames(c), c).required
             /\ view.now = ExpectedRuntime(HopNames(c), c).selectors
<1> DEFINE d == Document(Hops(c, records), c)
           groups == Groups(HopNames(c), c)
           e == ExpectedRuntime(HopNames(c), c)
<1>1. DOMAIN Hops(c, records) = HopNames(c)
  BY DEF Hops
<1>2. /\ d.fixed = Fixed /\ d.ports = "own" /\ d.groups = groups
      /\ d.proxies = {Proxy(name, Hops(c, records)[name]) : name \in HopNames(c)}
  BY <1>1 DEF Document
<1>3. ProxyNames(d) = HopNames(c)
  <2>1. \A name \in HopNames(c) : Proxy(name, Hops(c, records)[name]).name = name
    BY DEF Proxy
  <2> HIDE DEF d
  <2> QED
    BY <1>2, <2>1 DEF ProxyNames
<1>4. CASE c.mode = "double"
  <2>1. groups = {[name |-> FIRST_HOP_SELECTOR, members |-> <<FH(c.firstHop)>>],
                  [name |-> OUTLET_SELECTOR, members |-> <<PROTON_SELECTOR>>],
                  [name |-> PROTON_SELECTOR, members |-> <<PN(c.proton)>>]}
    BY <1>4 DEF Groups
  <2> HIDE DEF groups
  <2>2. {g.name : g \in groups} = {FIRST_HOP_SELECTOR, OUTLET_SELECTOR, PROTON_SELECTOR}
    BY <2>1
  <2>3. {[name |-> g.name, selected |-> Head(g.members)] : g \in groups} =
          {[name |-> FIRST_HOP_SELECTOR, selected |-> FH(c.firstHop)],
           [name |-> OUTLET_SELECTOR, selected |-> PROTON_SELECTOR],
           [name |-> PROTON_SELECTOR, selected |-> PN(c.proton)]}
    BY <2>1
  <2> HIDE DEF d
  <2> QED
    BY <1>2, <1>3, <1>4, <2>2, <2>3 DEF ApiView, GroupNames, ExpectedRuntime, d
<1>5. CASE c.mode # "double"
  <2>1. groups = {[name |-> FIRST_HOP_SELECTOR, members |-> <<FH(c.firstHop)>>],
                  [name |-> OUTLET_SELECTOR, members |-> <<FIRST_HOP_SELECTOR>>]}
    BY <1>5 DEF Groups
  <2> HIDE DEF groups
  <2>2. {g.name : g \in groups} = {FIRST_HOP_SELECTOR, OUTLET_SELECTOR}
    BY <2>1
  <2>3. {[name |-> g.name, selected |-> Head(g.members)] : g \in groups} =
          {[name |-> FIRST_HOP_SELECTOR, selected |-> FH(c.firstHop)],
           [name |-> OUTLET_SELECTOR, selected |-> FIRST_HOP_SELECTOR]}
    BY <2>1
  <2> QED
    BY <1>2, <1>3, <1>5, <2>2, <2>3 DEF ApiView, GroupNames, ExpectedRuntime
<1> QED
  BY <1>4, <1>5

\* The selectors of a state tell its route from every other one.
LEMMA SelectorsTellTheRoute ==
  ASSUME NEW a \in Settings, NEW b \in Settings
  PROVE  ExpectedRuntime(HopNames(a), a).selectors
           \subseteq ExpectedRuntime(HopNames(b), b).selectors
           <=> Route(a) = Route(b)
<1> USE DEF ExpectedRuntime, Route, FIRST_HOP_SELECTOR, PROTON_SELECTOR, OUTLET_SELECTOR, FH, PN
<1>1. a.mode \in {"single", "double"} /\ b.mode \in {"single", "double"}
  BY DEF Settings, Mode
<1>2. ASSUME Route(a) = Route(b)
      PROVE  /\ a.mode = b.mode /\ a.firstHop = b.firstHop
             /\ a.mode = "double" => a.proton = b.proton
  BY <1>2
<1>3. ASSUME ExpectedRuntime(HopNames(a), a).selectors
               \subseteq ExpectedRuntime(HopNames(b), b).selectors
      PROVE  /\ a.mode = b.mode /\ a.firstHop = b.firstHop
             /\ a.mode = "double" => a.proton = b.proton
  BY <1>1, <1>3
<1> QED
  BY <1>1, <1>2, <1>3

\* The document of a state is recognised by the expectation of another one
\* exactly when both have the same route and the document has all its profiles.
THEOREM ReconciliationIsExact == LibrarySpec => []ReconcileIsExact
<1>1. CatalogInvariant => ReconcileIsExact
  <2> SUFFICES ASSUME CatalogInvariant, NEW r \in Request, Accepted(catalog, r)
               PROVE  LET other == Result(catalog, r)
                      IN  Reconciled(
                            ApiView(Document(Hops(other, Records(other, r)), other), FALSE),
                            ExpectedRuntime(HopNames(catalog), catalog), TRUE)
                          <=> Route(other) = Route(catalog)
                              /\ HopNames(catalog) \subseteq HopNames(other)
    BY DEF ReconcileIsExact
  <2> DEFINE other == Result(catalog, r)
             view == ApiView(Document(Hops(other, Records(other, r)), other), FALSE)
             mine == ExpectedRuntime(HopNames(catalog), catalog)
             theirs == ExpectedRuntime(HopNames(other), other)
  <2>1. catalog \in Settings /\ other \in Settings
    BY ResultIsSound DEF CatalogInvariant, CatalogTypeOK
  <2>2. /\ view.fixed = Fixed /\ view.ports = "own"
        /\ view.proxies = theirs.required /\ view.now = theirs.selectors
    BY ReportedView
  <2>3. mine.selectors \subseteq theirs.selectors <=> Route(catalog) = Route(other)
    BY <2>1, SelectorsTellTheRoute
  <2>4. ASSUME Route(catalog) = Route(other)
        PROVE  mine.required \subseteq theirs.required
                 <=> HopNames(catalog) \subseteq HopNames(other)
    <3>1. catalog.mode = other.mode
      BY <2>4 DEF Route
    <3>2. \A name \in HopNames(catalog) :
            name \notin {FIRST_HOP_SELECTOR, PROTON_SELECTOR, OUTLET_SELECTOR}
      BY NamesDiffer
    <3> HIDE DEF other
    <3> QED
      BY <3>1, <3>2 DEF ExpectedRuntime
  <2> HIDE DEF view, mine, theirs, other
  <2>5. Reconciled(view, mine, TRUE) <=>
          mine.required \subseteq theirs.required /\ mine.selectors \subseteq theirs.selectors
    BY <2>2 DEF Reconciled
  <2> QED
    BY <2>3, <2>4, <2>5 DEF view, mine, theirs, other
<1> QED
  BY <1>1, LibraryCatalogInvariant, PTL

----------------------------------------------------------------------------
(* What is stored can be rendered *)

\* The record of a profile names its own secret and, once it has an IPv4 endpoint,
\* one the resolver knew.
Stored(v, id) ==
  /\ v.key = [of |-> id, purpose |-> Purpose(v.config)]
  /\ v.config.host.form = "IPv4" => v.config.host.at \in Address

\* What is stored has been rendered, and the document is what the release that
\* wrote it makes of it.
RenderInvariant ==
  /\ \A id \in Profiles(catalog) : Stored(record[id], id)
  /\ Configured(catalog) =>
       Renders(catalog, record, vault) /\ document = Written(catalog, record)

\* A configuration some answers resolve is in one of the forms the parsers accept.
LEMMA ResolvedForms ==
  ASSUME NEW c \in WireGuardConfig \cup VlessConfig, NEW answers \in [Domain -> Answers]
  PROVE  LET e == Resolved(c, answers)
         IN  /\ e.kind = c.kind /\ e.kind \in {"wireguard", "vless"}
             /\ e.kind = "wireguard" =>
                  /\ e = c
                  /\ c.host \in Host
                  /\ c.allowed.IPv4 \subseteq Network
                  /\ c.dns.IPv4 \subseteq Address
                  /\ c.mtu \in {"none", "fits", "outside"}
             /\ e.kind = "vless" =>
                  /\ c.host \in Host
                  /\ Checked(c) /\ Checked(e)
                  /\ e.host = IF c.host.form = "domain"
                              THEN [form |-> "IPv4", at |-> answers[c.host.at]] ELSE c.host
<1> DEFINE e == Resolved(c, answers)
<1>1. CASE c \in WireGuardConfig
  <2>1. c.kind = "wireguard"
    BY <1>1 DEF WireGuardConfig
  <2>2. e = c
    BY <2>1 DEF Resolved
  <2>3. /\ c.host \in Host /\ c.allowed.IPv4 \subseteq Network /\ c.dns.IPv4 \subseteq Address
        /\ c.mtu \in {"none", "fits", "outside"}
    BY <1>1 DEF WireGuardConfig, Network
  <2> QED
    BY <2>1, <2>2, <2>3
<1>2. CASE c \in VlessConfig
  <2>1. /\ c \in [kind : {"vless"}, host : Host, dns : SUBSET Address, tls : BOOLEAN,
                  servername : {"none", "given"}, reality : SUBSET {"public-key", "short-id"}]
        /\ Checked(c)
    BY <1>2 DEF VlessConfig
  <2>2. CASE c.host.form # "domain"
    <3>1. e = c
      BY <2>2 DEF Resolved
    <3> QED
      BY <2>1, <2>2, <3>1
  <2>3. CASE c.host.form = "domain"
    <3>1. e = [c EXCEPT !.host = [form |-> "IPv4", at |-> answers[c.host.at]],
                        !.servername = IF @ = "none" /\ c.tls THEN "domain" ELSE @]
      BY <2>1, <2>3 DEF Resolved
    <3> HIDE DEF e
    <3>2. /\ e.kind = c.kind /\ e.host = [form |-> "IPv4", at |-> answers[c.host.at]]
          /\ e.dns = c.dns /\ e.tls = c.tls /\ e.reality = c.reality
          /\ e.servername = IF c.servername = "none" /\ c.tls THEN "domain" ELSE c.servername
      BY <2>1, <3>1
    <3>3. Checked(e)
      BY <2>1, <3>2 DEF Checked
    <3> QED
      BY <2>1, <2>3, <3>2, <3>3 DEF e
  <2> QED
    BY <2>2, <2>3
<1> QED
  BY <1>1, <1>2

\* So is every record.
LEMMA RecordForms ==
  ASSUME NEW v, NEW id \in Ids, Matching(v, id)
  PROVE  /\ v.config.kind \in {"wireguard", "vless"}
         /\ v.config.kind = "wireguard" =>
              /\ v.config.host \in Host
              /\ v.config.allowed.IPv4 \subseteq Network
              /\ v.config.mtu \in {"none", "fits", "outside"}
<1>1. PICK answers \in [Domain -> Answers] : v.config = Resolved(Contents[id], answers)
  BY DEF Matching
<1>2. Contents[id] \in WireGuardConfig \cup VlessConfig
  BY LibraryAssumption
<1>3. LET e == Resolved(Contents[id], answers)
      IN  /\ e.kind \in {"wireguard", "vless"}
          /\ e.kind = "wireguard" =>
               /\ e = Contents[id]
               /\ Contents[id].host \in Host
               /\ Contents[id].allowed.IPv4 \subseteq Network
               /\ Contents[id].mtu \in {"none", "fits", "outside"}
  BY <1>2, ResolvedForms
<1> DEFINE e == Resolved(Contents[id], answers)
<1> HIDE DEF e
<1>4. v.config = e
  BY <1>1 DEF e
<1> QED
  BY <1>3, <1>4 DEF e

\* IPv4 hosts are addresses.
LEMMA HostForms ==
  ASSUME NEW h \in Host
  PROVE  /\ h.form = "IPv4" => h.at \in Address
         /\ h.form = "domain" => h.at \in Domain
         /\ h.form \in {"IPv4", "IPv6", "domain"}
BY DEF Host

\* A record made from a file that resolves has a good address.
LEMMA VersionIsStored ==
  ASSUME NEW id \in Ids, resolver \in [Domain -> Answers], Resolvable(Contents[id], resolver)
  PROVE  Stored(Version(id, Resolved(Contents[id], resolver)), id)
<1> DEFINE c == Contents[id]
           e == Resolved(c, resolver)
<1>1. c \in WireGuardConfig \cup VlessConfig
  BY LibraryAssumption
<1>2. /\ e.kind = c.kind /\ e.kind \in {"wireguard", "vless"}
      /\ e.kind = "wireguard" => e = c /\ c.host \in Host
      /\ e.kind = "vless" =>
           /\ c.host \in Host
           /\ e.host = IF c.host.form = "domain"
                       THEN [form |-> "IPv4", at |-> resolver[c.host.at]] ELSE c.host
  BY <1>1, ResolvedForms
<1>3. c.kind = "vless" /\ c.host.form = "domain" => resolver[c.host.at] \in Address
  BY DEF Resolvable
<1> HIDE DEF c, e
<1>4. e.host.form = "IPv4" => e.host.at \in Address
  BY <1>2, <1>3, HostForms
<1>5. Stored(Version(id, e), id)
  BY <1>4 DEF Stored, Version
<1> QED
  BY <1>5 DEF c, e

\* A stored record is one.
LEMMA StoredIsRecord ==
  ASSUME NEW v, NEW id, Stored(v, id)
  PROVE  v # NoRecord
<1>1. v.key = [of |-> id, purpose |-> Purpose(v.config)]
  BY DEF Stored
<1>2. DOMAIN v.key = {"of", "purpose"}
  BY <1>1
<1>3. NoRecord.key = <<>> /\ DOMAIN <<>> = {}
  BY DEF NoRecord
<1> QED
  BY <1>2, <1>3

\* Only an import brings profiles, those of its files.
LEMMA ResultProfiles ==
  ASSUME NEW c \in Settings, NEW r \in Request, Accepted(c, r), NEW id \in Profiles(Result(c, r))
  PROVE  id \in Profiles(c) \/ (r.command = "import" /\ id \in r.files)
<1>1. CASE r.command = "import"
  <2>1. Result(c, r) = Imported(c, r)
    BY <1>1 DEF Result
  <2> QED
    BY <1>1, <2>1 DEF Imported, Merged, Profiles
<1>2. CASE r.command = "delete"
  <2>1. Result(c, r) = Deleted(c, r)
    BY <1>2 DEF Result
  <2>2. r.role \in {"first-hop", "proton"}
    BY <1>2 DEF Request
  <2>3. CASE r.role = "first-hop"
    BY <2>1, <2>3, Fields DEF Deleted, Profiles, Settings
  <2>4. CASE r.role # "first-hop"
    BY <2>1, <2>4, Fields DEF Deleted, Profiles, Settings
  <2> QED
    BY <2>3, <2>4
<1>3. CASE r.command = "select"
  <2>1. Result(c, r) = Selected(c, r)
    BY <1>3 DEF Result
  <2> QED
    BY <2>1, Fields DEF Selected, Profiles, Settings
<1> QED
  BY <1>1, <1>2, <1>3 DEF Accepted

\* The records a command leaves behind are stored ones; those it found, it keeps.
LEMMA RecordsAreStored ==
  ASSUME CatalogInvariant, LibraryInvariant, RenderInvariant, NEW r \in Request,
         Accepted(catalog, r), Parsed(r), NEW id \in Profiles(Result(catalog, r))
  PROVE  /\ id \in Ids
         /\ Stored(Records(Result(catalog, r), r)[id], id)
         /\ id \in Profiles(catalog) => Records(Result(catalog, r), r)[id] = record[id]
<1> DEFINE c == Result(catalog, r)
<1>1. catalog \in Settings /\ c \in Settings
  BY ResultIsSound DEF CatalogInvariant, CatalogTypeOK
<1>2. id \in Ids
  BY <1>1 DEF Profiles, Ids, Settings
<1>3. Records(c, r)[id] = IF record[id] # NoRecord THEN record[id]
                          ELSE Version(id, Resolved(Contents[id], resolver))
  BY <1>2 DEF Records, Profiles
<1>4. CASE id \in Profiles(catalog)
  <2>1. Stored(record[id], id)
    BY <1>4 DEF RenderInvariant
  <2> QED
    BY <1>2, <1>3, <2>1, StoredIsRecord
<1>5. CASE id \notin Profiles(catalog)
  <2>1. record[id] = NoRecord
    BY <1>2, <1>5 DEF LibraryInvariant
  <2>2. r.command = "import" /\ id \in r.files
    BY <1>1, <1>5, ResultProfiles
  <2>3. Resolvable(Contents[id], resolver)
    BY <2>2 DEF Parsed
  <2>4. resolver \in [Domain -> Answers]
    BY DEF LibraryInvariant
  <2> QED
    BY <1>2, <1>3, <1>5, <2>1, <2>3, <2>4, VersionIsStored
<1> QED
  BY <1>4, <1>5

\* The revision is no part of what is rendered.
LEMMA RevisionIsNotRendered ==
  ASSUME NEW c \in Settings, NEW n, NEW records, NEW secrets
  PROVE  LET e == [c EXCEPT !.revision = n]
         IN  /\ Renders(e, records, secrets) = Renders(c, records, secrets)
             /\ Written(e, records) = Written(c, records)
             /\ Hops(e, records) = Hops(c, records)
             /\ Document(Hops(e, records), e) = Document(Hops(c, records), c)
             /\ Profiles(e) = Profiles(c)
<1> DEFINE e == [c EXCEPT !.revision = n]
<1>1. /\ e.mode = c.mode /\ e.firstHops = c.firstHops /\ e.protons = c.protons
      /\ e.firstHop = c.firstHop /\ e.proton = c.proton
  BY Fields
<1> HIDE DEF e
<1>2. HopNames(e) = HopNames(c) /\ Profiles(e) = Profiles(c)
  BY <1>1 DEF HopNames, Profiles
<1>3. Hops(e, records) = Hops(c, records)
  BY <1>2 DEF Hops
<1>4. \A hops : /\ Document(hops, e) = Document(hops, c)
                /\ Renderable(hops, e) = Renderable(hops, c)
  BY <1>1 DEF Document, Groups, Renderable
<1>5. Validates(e) = Validates(c)
  BY <1>1 DEF Validates
<1>6. Renders(e, records, secrets) = Renders(c, records, secrets)
  BY <1>1, <1>3, <1>4, <1>5 DEF Renders
<1>7. Written(e, records) = Written(c, records)
  BY <1>3, <1>4 DEF Written
<1> QED
  BY <1>2, <1>3, <1>4, <1>6, <1>7 DEF e

\* The profiles of a state and the hops they become.
LEMMA HopsOfState ==
  ASSUME NEW c \in Settings, NEW records, c.firstHops \cup c.protons \subseteq Ids
  PROVE  /\ DOMAIN Hops(c, records) = HopNames(c)
         /\ IsFiniteSet(HopNames(c))
         /\ \A name \in HopNames(c) :
              /\ name[2] \in Profiles(c)
              /\ Hops(c, records)[name].config = records[name[2]].config
              /\ \E id : name = FH(id) \/ name = PN(id)
         /\ \A id : /\ FH(id) \in HopNames(c) <=> id \in c.firstHops
                    /\ PN(id) \in HopNames(c) <=> id \in c.protons
<1>1. DOMAIN Hops(c, records) = HopNames(c)
  BY DEF Hops
<1>2. ASSUME NEW name \in HopNames(c)
      PROVE  /\ name[2] \in Profiles(c)
             /\ Hops(c, records)[name].config = records[name[2]].config
             /\ \E id : name = FH(id) \/ name = PN(id)
  BY <1>2 DEF HopNames, Profiles, FH, PN, Hops, Materialized
<1>3. ASSUME NEW id
      PROVE  /\ FH(id) \in HopNames(c) <=> id \in c.firstHops
             /\ PN(id) \in HopNames(c) <=> id \in c.protons
  BY DEF HopNames, FH, PN
<1>4. IsFiniteSet(HopNames(c))
  <2>1. IsFiniteSet({"FH", "PN"} \X Ids)
    <3>1. IsFiniteSet({"FH", "PN"})
      <4>1. {"FH", "PN"} = {"FH"} \cup {"PN"}
        OBVIOUS
      <4>2. IsFiniteSet({"FH"} \cup {"PN"})
        BY FS_Singleton, FS_AddElement
      <4> QED
        BY <4>1, <4>2, Zenon
    <3> QED
      BY <3>1, LibraryAssumption, FS_Product
  <2>2. HopNames(c) \subseteq {"FH", "PN"} \X Ids
    BY DEF HopNames, FH, PN
  <2> QED
    BY <2>1, <2>2, FS_Subset
<1> QED
  BY <1>1, <1>2, <1>3, <1>4

\* A document whose MTUs pass the validator has hops that generate_profile wrote.
LEMMA ValidatedMtu ==
  ASSUME NEW hops, NEW c, ValidateRenderedProfile(Document(hops, c)), NEW name \in DOMAIN hops,
         hops[name].config.kind = "wireguard"
  PROVE  hops[name].config.mtu # "outside"
<1> DEFINE d == Document(hops, c)
           p == Proxy(name, hops[name])
<1>1. p \in d.proxies
  BY DEF Document
<1>2. p.kind = "wireguard" => p.mtu \in {"fits", "1280", "1408"}
  <2> HIDE DEF p
  <2> QED
    BY <1>1 DEF ValidateRenderedProfile, ValidateGeneral
<1>3. p.kind = "wireguard" /\ (hops[name].config.mtu = "outside" => p.mtu = "outside")
  BY DEF Proxy
<1> QED
  BY <1>2, <1>3

\* The hops of what renders are sound, whatever their records are made from.
LEMMA RenderedHopsAreSound ==
  ASSUME NEW c \in Settings, NEW records, NEW secrets, Renders(c, records, secrets),
         \A id \in Profiles(c) : id \in Ids /\ Matching(records[id], id)
  PROVE  SoundHops(Hops(c, records), c)
<1> DEFINE hops == Hops(c, records)
<1>1. c.firstHops \cup c.protons \subseteq Ids
  BY DEF Profiles
<1>2. /\ DOMAIN hops = HopNames(c)
      /\ IsFiniteSet(HopNames(c))
      /\ \A name \in HopNames(c) :
           /\ name[2] \in Profiles(c)
           /\ hops[name].config = records[name[2]].config
           /\ \E id : name = FH(id) \/ name = PN(id)
  BY <1>1, HopsOfState
<1>3. Renderable(hops, c) /\ ValidateRenderedProfile(Document(hops, c))
  BY DEF Renders
<1>4. c.mode \in {"single", "double"}
  BY DEF Settings, Mode
<1> HIDE DEF hops
<1>5. ASSUME NEW name \in DOMAIN hops
      PROVE  /\ hops[name].config.kind \in {"wireguard", "vless"}
             /\ hops[name].config.kind = "wireguard" => hops[name].config.mtu \in {"none", "fits"}
  <2>1. /\ name[2] \in Ids /\ Matching(records[name[2]], name[2])
        /\ hops[name].config = records[name[2]].config
    BY <1>2
  <2>2. /\ hops[name].config.kind \in {"wireguard", "vless"}
        /\ hops[name].config.kind = "wireguard" =>
             hops[name].config.mtu \in {"none", "fits", "outside"}
    BY <2>1, RecordForms
  <2>3. hops[name].config.kind = "wireguard" => hops[name].config.mtu # "outside"
    BY <1>3, ValidatedMtu
  <2> QED
    BY <2>2, <2>3
<1> QED
  BY <1>2, <1>3, <1>4, <1>5 DEF SoundHops, hops

\* Everything of the current state renders with another selection and with fewer
\* profiles.
LEMMA ChangesRender ==
  ASSUME NEW b \in Settings, NEW c \in Settings, NEW records, NEW kept, NEW secrets,
         Renders(b, records, secrets), Validates(c),
         c.firstHops \subseteq b.firstHops, c.protons \subseteq b.protons,
         \A id \in Profiles(b) :
           id \in Ids /\ Matching(records[id], id) /\ Stored(records[id], id),
         \A id \in Profiles(c) : kept[id] = records[id]
  PROVE  Renders(c, kept, secrets)
<1> DEFINE old == Hops(b, records)
           hops == Hops(c, kept)
<1>0. Profiles(c) \subseteq Profiles(b)
  BY DEF Profiles
<1>1. SoundHops(old, b)
  BY RenderedHopsAreSound
<1>2. /\ DOMAIN old = HopNames(b)
      /\ \A name \in HopNames(b) : old[name].config = records[name[2]].config
  BY HopsOfState DEF Profiles
<1>3. /\ DOMAIN hops = HopNames(c) /\ IsFiniteSet(HopNames(c))
      /\ \A name \in HopNames(c) :
           /\ name[2] \in Profiles(c)
           /\ hops[name].config = kept[name[2]].config
           /\ \E id : name = FH(id) \/ name = PN(id)
      /\ \A id : /\ FH(id) \in HopNames(c) <=> id \in c.firstHops
                 /\ PN(id) \in HopNames(c) <=> id \in c.protons
  <2>1. c.firstHops \cup c.protons \subseteq Ids
    BY <1>0 DEF Profiles
  <2> QED
    BY <2>1, HopsOfState
<1>4. HopNames(c) \subseteq HopNames(b)
  BY DEF HopNames
<1> HIDE DEF old, hops
<1>5. \A name \in HopNames(c) : hops[name].config = old[name].config
  BY <1>2, <1>3, <1>4
<1>6. \A name \in HopNames(c) :
        /\ HopAccepted(hops[name].config)
        /\ hops[name].config.kind \in {"wireguard", "vless"}
        /\ hops[name].config.kind = "wireguard" => hops[name].config.mtu \in {"none", "fits"}
  BY <1>1, <1>2, <1>4, <1>5 DEF SoundHops, Renderable
<1>7. FH(c.firstHop) \in HopNames(c) /\ (c.mode = "double" => PN(c.proton) \in HopNames(c))
  BY <1>3 DEF Validates
<1>8. ASSUME NEW name \in HopNames(c), NEW first \in HopNames(c)
      PROVE  Reaches(hops[first].config, hops[name].config)
  <2> SUFFICES ASSUME hops[first].config.kind = "wireguard", hops[name].config.kind = "wireguard"
               PROVE  IsIn(hops[name].config.host.at, hops[first].config.allowed.IPv4)
    BY DEF Reaches
  <2> DEFINE v == kept[name[2]]
             w == kept[first[2]]
  <2>1. /\ v = records[name[2]] /\ w = records[first[2]]
        /\ name[2] \in Profiles(b) /\ first[2] \in Profiles(b)
    BY <1>0, <1>3
  <2>2. hops[name].config = v.config /\ hops[first].config = w.config
    BY <1>3
  <2>3. Stored(v, name[2]) /\ v.config.host.form = "IPv4"
    BY <1>6, <2>1, <2>2 DEF HopAccepted
  <2>4. v.config.host.at \in Address
    BY <2>3 DEF Stored
  <2>5. first[2] \in Ids /\ Matching(w, first[2]) /\ w.config.kind = "wireguard"
    BY <2>1, <2>2
  <2>6. w.config.allowed.IPv4 \subseteq Network
    BY <2>5, RecordForms
  <2>7. CoversAllIpv4(w.config.allowed.IPv4)
    BY <1>6, <2>2 DEF HopAccepted, Ipv4WireGuard
  <2> QED
    BY <2>2, <2>4, <2>6, <2>7, CoverageIsExact
<1>9. Renderable(hops, c)
  BY <1>3, <1>6, <1>7, <1>8 DEF Renderable
<1>10. SoundHops(hops, c)
  <2>1. c.mode \in {"single", "double"}
    BY DEF Settings, Mode
  <2> QED
    BY <1>3, <1>6, <1>9, <2>1 DEF SoundHops
<1>11. ValidateRenderedProfile(Document(hops, c))
  <2>1. Describes(Document(hops, c), hops, c)
    BY DEF Describes
  <2> QED
    BY <1>10, <2>1, DocumentIsValid
<1>12. \A id \in c.firstHops \cup c.protons :
         RecordValid(kept[id]) /\ SecretKnown(kept[id], secrets)
  BY <1>0 DEF Renders, Profiles
<1> QED
  BY <1>9, <1>11, <1>12 DEF Renders, hops

\* What the current release finds in order, it would write itself.
LEMMA CurrentContractIsOwn ==
  ASSUME NEW c \in Settings, NEW records, NEW secrets, release \in Releases,
         Renders(c, records, secrets),
         \A id \in Profiles(c) : id \in Ids /\ Matching(records[id], id),
         CurrentContract(Written(c, records))
  PROVE  Written(c, records) = Document(Hops(c, records), c)
<1> DEFINE hops == Hops(c, records)
           d == Document(hops, c)
           w == Written(c, records)
<1>1. CASE release = "this"
  BY <1>1 DEF Written
<1>2. CASE release = "other ports"
  <2>1. w = [d EXCEPT !.ports = "older"]
    BY <1>2 DEF Written
  <2>2. w.ports = "older"
    BY <2>1 DEF Document
  <2> QED
    BY <2>2 DEF CurrentContract
<1>3. CASE release = "no exclusion"
  <2>1. w = [d EXCEPT !.excludes = {Lan}]
    BY <1>3 DEF Written
  <2>2. /\ w.excludes = {Lan} /\ w.rules = d.rules /\ w.groups = d.groups
        /\ w.proxies = d.proxies
    BY <2>1 DEF Document
  <2>3. d.excludes = {Lan, HostRange(hops[FH(c.firstHop)].config.host.at)} /\ d.rules = Rules
    BY DEF Document, Excludes
  <2>4. SoundHops(hops, c) /\ Describes(d, hops, c)
    BY RenderedHopsAreSound DEF Describes
  <2>5. Successors(w, FIRST_HOP_SELECTOR) = {FH(c.firstHop)}
    <3>1. Successors(d, FIRST_HOP_SELECTOR) = {FH(c.firstHop)}
      BY <2>4, DocumentEdges
    <3> HIDE DEF d, w
    <3> QED
      BY <2>2, <3>1 DEF Successors
  <2>6. PICK p \in w.proxies : /\ p.name = FH(c.firstHop)
                               /\ HostRange(p.server.at) \in w.excludes
    <3> HIDE DEF w
    <3>1. ValidateRoutes(w)
      BY DEF CurrentContract, ValidateRenderedProfile, w
    <3>2. PICK p \in {q \in w.proxies : q.name \in Successors(w, FIRST_HOP_SELECTOR)} :
            HostRange(p.server.at) \in w.excludes
      BY <3>1 DEF ValidateRoutes
    <3> QED
      BY <2>5, <3>2
  <2>7. p = Proxy(FH(c.firstHop), hops[FH(c.firstHop)])
    <3>1. /\ d.proxies = {Proxy(name, hops[name]) : name \in DOMAIN hops}
          /\ \A name \in DOMAIN hops : Proxy(name, hops[name]).name = name
      BY <2>4, DocumentNames
    <3> QED
      BY <2>2, <2>6, <3>1
  <2>8. HostRange(hops[FH(c.firstHop)].config.host.at) = Lan
    BY <2>2, <2>6, <2>7 DEF Proxy
  <2>9. d.excludes = {Lan}
    BY <2>3, <2>8
  <2>10. [d EXCEPT !.excludes = {Lan}] = d
    BY <2>9 DEF Document
  <2> QED
    BY <2>1, <2>10
<1> QED
  BY <1>1, <1>2, <1>3 DEF Releases

\* Nothing a profile of the current state needs is missing.
LEMMA ProfilesAreKept ==
  ASSUME CatalogInvariant, LibraryInvariant, RenderInvariant
  PROVE  \A id \in Profiles(catalog) :
           id \in Ids /\ Matching(record[id], id) /\ Stored(record[id], id)
<1> TAKE id \in Profiles(catalog)
<1>1. id \in Ids
  BY DEF Profiles, Ids, CatalogInvariant, CatalogTypeOK, Settings
<1> QED
  BY <1>1 DEF LibraryInvariant, RenderInvariant

\* What was stored can be rendered, now and after every further step.
LEMMA RenderStep ==
  ASSUME CatalogInvariant, LibraryInvariant, RenderInvariant, [LibraryNext]_vars
  PROVE  RenderInvariant'
<1>0. catalog \in Settings
  BY DEF CatalogInvariant, CatalogTypeOK
<1>1. ASSUME UNCHANGED <<catalog, record, vault, document, release>>
      PROVE  RenderInvariant'
  BY <1>1 DEF RenderInvariant, Profiles, Stored, Renders, Written, Hops, HopNames
<1>2. ASSUME NEW r \in Request, Command(r) PROVE RenderInvariant'
  <2>1. CASE catalog' = catalog
    BY <1>1, <1>2, <2>1 DEF Command
  <2>2. CASE catalog' # catalog
    <3> DEFINE c == Result(catalog, r)
               records == Records(c, r)
    <3>1. /\ Accepted(catalog, r) /\ Parsed(r)
          /\ catalog' = [c EXCEPT !.revision = catalog.revision + 1]
      BY <1>2, <2>2 DEF Command, Change, service
    <3>2. c \in Settings
      BY <1>0, <3>1, ResultIsSound DEF CatalogInvariant
    <3>3. /\ Renders(c, records, vault \cup Pending(r))
          /\ record' = records /\ vault' = vault \cup Pending(r)
          /\ document' = Written(c, records) /\ release' = release
      BY <1>2, <2>2 DEF Command, Commit
    <3>4. \A id \in Profiles(c) : Stored(records[id], id)
      BY <3>1, RecordsAreStored
    <3> HIDE DEF c, records
    <3>5. /\ Profiles(catalog') = Profiles(c)
          /\ Renders(catalog', records, vault') = Renders(c, records, vault')
          /\ Written(catalog', records) = Written(c, records)
      BY <3>1, <3>2, RevisionIsNotRendered
    <3>6. Written(catalog, record)' = Written(catalog', records)
      BY <3>3 DEF Written
    <3>7. (\A id \in Profiles(catalog) : Stored(record[id], id))'
      BY <3>3, <3>4, <3>5 DEF Profiles
    <3>8. (Renders(catalog, record, vault) /\ document = Written(catalog, record))'
      BY <3>3, <3>5, <3>6
    <3> QED
      BY <3>7, <3>8 DEF RenderInvariant
  <2> QED
    BY <2>1, <2>2
<1>3. CASE Start
  <2> DEFINE d == Document(Hops(catalog, record), catalog)
  <2>1. /\ catalog' = catalog \/ catalog' = [catalog EXCEPT !.revision = @ + 1]
        /\ record' = record /\ vault' = vault /\ release' = "this"
    BY <1>3 DEF Start, Open
  <2>2. /\ Profiles(catalog') = Profiles(catalog)
        /\ Renders(catalog', record, vault) = Renders(catalog, record, vault)
        /\ Document(Hops(catalog', record), catalog') = d
    BY <1>0, <2>1, RevisionIsNotRendered
  <2>3. Configured(catalog') => Renders(catalog, record, vault) /\ document' = d
    <3>1. CASE ~ Configured(catalog)
      <4>1. catalog' = catalog
        BY <1>3, <3>1 DEF Start
      <4> QED
        BY <3>1, <4>1
    <3>2. CASE Configured(catalog) /\ CurrentContract(document)
      <4>1. Renders(catalog, record, vault) /\ document = Written(catalog, record)
        BY <3>2 DEF RenderInvariant
      <4>2. document' = document
        BY <1>3, <3>2 DEF Start
      <4>3. document = d
        BY <1>0, <3>2, <4>1, ProfilesAreKept, CurrentContractIsOwn DEF LibraryInvariant
      <4> QED
        BY <4>1, <4>2, <4>3
    <3>3. CASE Configured(catalog) /\ ~ CurrentContract(document)
      BY <1>3, <3>3 DEF Start
    <3> QED
      BY <3>1, <3>2, <3>3
  <2> HIDE DEF d
  <2>4. (\A id \in Profiles(catalog) : Stored(record[id], id))'
    BY <2>1, <2>2 DEF Profiles, RenderInvariant
  <2>5. Written(catalog, record)' = d
    BY <2>1, <2>2 DEF Written
  <2> QED
    BY <2>1, <2>2, <2>3, <2>4, <2>5 DEF RenderInvariant
<1>4. CASE Run \/ Resolve
  BY <1>1, <1>4 DEF Run, Connect, Disconnect, Poll, Measure, CoreExits, library, Resolve
<1>5. CASE UNCHANGED vars
  BY <1>1, <1>5 DEF vars, library
<1> QED
  BY <1>2, <1>3, <1>4, <1>5 DEF LibraryNext

\* Whatever was imported, deleted and selected, on whatever days, and whatever
\* release wrote the document: the current state renders, and the document is
\* what that release makes of it.
THEOREM RenderInvariantHolds == LibrarySpec => []RenderInvariant
<1>1. LibraryInit => RenderInvariant
  BY DEF LibraryInit, Init, Unconfigured, RenderInvariant, Profiles, Configured
<1>2. CatalogInvariant /\ LibraryInvariant /\ RenderInvariant /\ [LibraryNext]_vars
        => RenderInvariant'
  BY RenderStep
<1> QED
  BY <1>1, <1>2, LibraryCatalogInvariant, LibraryInvariantHolds, PTL DEF LibrarySpec

\* A profile that was accepted on one day never stands in the way of a selection,
\* a deletion or a start on another: they always render (build_candidate,
\* refresh_runtime_contract_if_needed).
THEOREM AcceptedProfilesAlwaysRender == LibrarySpec => []LibraryAlwaysRenders
<1>1. CatalogInvariant /\ LibraryInvariant /\ RenderInvariant => LibraryAlwaysRenders
  <2> SUFFICES ASSUME CatalogInvariant, LibraryInvariant, RenderInvariant, Configured(catalog)
               PROVE  /\ Renders(catalog, record, vault)
                      /\ \A r \in Request :
                           r.command # "import" /\ Accepted(catalog, r) =>
                             Renders(Result(catalog, r), Records(Result(catalog, r), r), vault)
    BY DEF LibraryAlwaysRenders
  <2>1. Renders(catalog, record, vault)
    BY DEF RenderInvariant
  <2>2. ASSUME NEW r \in Request, r.command # "import", Accepted(catalog, r)
        PROVE  Renders(Result(catalog, r), Records(Result(catalog, r), r), vault)
    <3> DEFINE c == Result(catalog, r)
               records == Records(c, r)
    <3>1. catalog \in Settings /\ c \in Settings /\ Validates(c)
      BY <2>2, ResultIsSound DEF CatalogInvariant, CatalogTypeOK
    <3>2. Parsed(r)
      BY <2>2 DEF Parsed
    <3>3. \A id \in Profiles(c) : id \in Profiles(catalog) /\ records[id] = record[id]
      BY <2>2, <3>1, <3>2, ResultProfiles, RecordsAreStored
    <3>4. c.firstHops \subseteq catalog.firstHops /\ c.protons \subseteq catalog.protons
      <4>1. r.command = "delete" \/ r.command = "select"
        BY <2>2 DEF Accepted
      <4>2. CASE r.command = "delete"
        <5>1. c = Deleted(catalog, r)
          BY <4>2 DEF Result
        <5> QED
          BY <3>1, <5>1, Fields DEF Deleted, Settings
      <4>3. CASE r.command = "select"
        <5>1. c = Selected(catalog, r)
          BY <4>3 DEF Result
        <5> QED
          BY <3>1, <5>1, Fields DEF Selected, Settings
      <4> QED
        BY <4>1, <4>2, <4>3
    <3> HIDE DEF c, records
    <3> QED
      BY <2>1, <3>1, <3>3, <3>4, ProfilesAreKept, ChangesRender DEF c, records
  <2> QED
    BY <2>1, <2>2
<1> QED
  BY <1>1, LibraryCatalogInvariant, LibraryInvariantHolds, RenderInvariantHolds, PTL

\* The document of a state, and whatever has its hops and its selection.
LEMMA CurrentDocument ==
  ASSUME CatalogInvariant, LibraryInvariant, RenderInvariant, Ready
  PROVE  /\ document = Document(Hops(catalog, record), catalog)
         /\ SoundHops(Hops(catalog, record), catalog)
         /\ Renders(catalog, record, vault)
<1>1. document = Written(catalog, record) /\ Renders(catalog, record, vault)
  BY DEF RenderInvariant, Ready
<1>2. SoundHops(Hops(catalog, record), catalog)
  BY <1>1, ProfilesAreKept, RenderedHopsAreSound DEF CatalogInvariant, CatalogTypeOK
<1> QED
  BY <1>1, <1>2 DEF Written, Ready

\* What a command stored, the next one finds valid, and the speed test derives a
\* valid document with the same path from it (validate_current, build_probe_yaml).
THEOREM StoredDocumentsStayValid == LibrarySpec => []CurrentDocumentIsValid
<1>1. CatalogInvariant /\ LibraryInvariant /\ RenderInvariant => CurrentDocumentIsValid
  <2> SUFFICES ASSUME CatalogInvariant, LibraryInvariant, RenderInvariant, Ready
               PROVE  /\ ValidateRenderedProfile(document)
                      /\ ActivePath(document) = ExpectedActivePath(catalog)
                      /\ LET probe == ProbeDocument(document)
                         IN  /\ ValidateRenderedProfile(probe) /\ ~ probe.tun
                             /\ probe.ports # document.ports
                             /\ ActivePath(probe) = ExpectedActivePath(catalog)
    BY DEF CurrentDocumentIsValid
  <2> DEFINE hops == Hops(catalog, record)
             d == Document(hops, catalog)
             probe == ProbeDocument(d)
  <2>1. document = d /\ SoundHops(hops, catalog)
    BY CurrentDocument
  <2>2. Describes(d, hops, catalog)
    BY DEF Describes
  <2>3. Describes(probe, hops, catalog) /\ ~ probe.tun /\ probe.ports # d.ports
    BY DEF Describes, ProbeDocument, Document
  <2> HIDE DEF hops, d, probe
  <2>4. /\ ValidateRenderedProfile(d) /\ ActivePath(d) = ExpectedActivePath(catalog)
        /\ ValidateRenderedProfile(probe) /\ ActivePath(probe) = ExpectedActivePath(catalog)
    BY <2>1, <2>2, <2>3, DocumentIsValid, DocumentTrails DEF ActivePath
  <2> QED
    BY <2>1, <2>3, <2>4 DEF probe
<1> QED
  BY <1>1, LibraryCatalogInvariant, LibraryInvariantHolds, RenderInvariantHolds, PTL

----------------------------------------------------------------------------
(* Where traffic goes, and which files can be imported *)

\* The rule that decides is the first one that matches.
LEMMA FirstRule ==
  ASSUME NEW rules, NEW x, NEW n \in DOMAIN rules, DOMAIN rules \subseteq Nat,
         Matches(rules[n], x), \A m \in 1 .. n - 1 : ~ Matches(rules[m], x),
         \A m \in DOMAIN rules : m >= 1
  PROVE  (CHOOSE k \in DOMAIN rules :
            /\ Matches(rules[k], x)
            /\ \A m \in 1 .. k - 1 : ~ Matches(rules[m], x)) = n
<1> DEFINE Is(k) == Matches(rules[k], x) /\ \A m \in 1 .. k - 1 : ~ Matches(rules[m], x)
<1>1. \A k \in DOMAIN rules : Is(k) => k = n
  <2> SUFFICES ASSUME NEW k \in DOMAIN rules, Is(k), k # n PROVE FALSE
    OBVIOUS
  <2>1. k \in Nat /\ n \in Nat /\ k >= 1 /\ n >= 1
    OBVIOUS
  <2>2. k \in 1 .. n - 1 \/ n \in 1 .. k - 1
    BY <2>1
  <2> QED
    BY <2>2
<1>2. Is(n)
  OBVIOUS
<1> HIDE DEF Is
<1>3. (CHOOSE k \in DOMAIN rules : Is(k)) = n
  BY <1>1, <1>2
<1> QED
  BY <1>3 DEF Is

\* Where a document sends a connection.
LEMMA DocumentCarries ==
  ASSUME NEW hops, NEW c, SoundHops(hops, c), NEW x \in Destination,
         NEW outer \in Address, outer = hops[FH(c.firstHop)].config.host.at
  PROVE  Carried(Document(hops, c), x) =
           IF x.family = "IPv6" THEN <<REJECT>>
           ELSE IF x.at = outer \/ IsIn(x.at, {Lan}) THEN <<DIRECT>>
           ELSE ExpectedActivePath(c)
<1> DEFINE d == Document(hops, c)
           a == Rule("IPv4", Lan, DIRECT)
           b == Rule("IPv6", Everything, REJECT)
           z == Rule("all", Everything, OUTLET_SELECTOR)
           captured == ~ (x.family = "IPv4" /\ IsIn(x.at, d.excludes))
           n == CHOOSE k \in DOMAIN d.rules :
                  /\ Matches(d.rules[k], x)
                  /\ \A m \in 1 .. k - 1 : ~ Matches(d.rules[m], x)
           rule == d.rules[n]
<1>1. d.rules = <<a, b, z>> /\ d.excludes = {Lan, HostRange(outer)}
  BY DEF Document, Rules, Excludes
<1>2. Trail(d, OUTLET_SELECTOR) = ExpectedActivePath(c)
  <2>1. Describes(d, hops, c)
    BY DEF Describes
  <2> QED
    BY <2>1, DocumentTrails
<1>3. Carried(d, x) = IF ~ captured \/ rule.target = DIRECT THEN <<DIRECT>>
                      ELSE IF rule.target = REJECT THEN <<REJECT>>
                      ELSE Trail(d, rule.target)
  BY DEF Carried
<1>4. /\ a.matches = "IPv4" /\ a.target = DIRECT /\ a.range = Lan
      /\ b.matches = "IPv6" /\ b.target = REJECT
      /\ z.matches = "all" /\ z.target = OUTLET_SELECTOR
  BY DEF Rule
<1>5. REJECT # DIRECT /\ OUTLET_SELECTOR # DIRECT /\ OUTLET_SELECTOR # REJECT
  <2>1. /\ OUTLET_SELECTOR[1] = "selector" /\ DIRECT[1] = "core" /\ REJECT[1] = "core"
        /\ DIRECT[2] = "direct" /\ REJECT[2] = "reject"
    BY DEF OUTLET_SELECTOR, DIRECT, REJECT
  <2> QED
    BY <2>1
<1> HIDE DEF a, b, z, d
<1>6. /\ DOMAIN d.rules = 1 .. 3
      /\ d.rules[1] = a /\ d.rules[2] = b /\ d.rules[3] = z
  BY <1>1
<1>7. DOMAIN d.rules \subseteq Nat /\ (\A m \in DOMAIN d.rules : m >= 1)
  BY <1>6
<1>8. ASSUME NEW k \in DOMAIN d.rules, Matches(d.rules[k], x),
             \A m \in 1 .. k - 1 : ~ Matches(d.rules[m], x)
      PROVE  n = k
  BY <1>7, <1>8, FirstRule
<1> HIDE DEF n
<1>9. CASE x.family = "IPv6"
  <2>1. ~ Matches(a, x) /\ Matches(b, x)
    BY <1>4, <1>9 DEF Matches
  <2>2. \A m \in 1 .. 1 : m = 1
    OBVIOUS
  <2>3. n = 2
    BY <1>6, <1>8, <2>1, <2>2
  <2> QED
    BY <1>3, <1>4, <1>5, <1>6, <1>9, <2>3 DEF d
<1>10. CASE x.family # "IPv6"
  <2>1. x.family = "IPv4" /\ x.at \in Address
    BY <1>10 DEF Destination
  <2>2. IsIn(x.at, d.excludes) <=> x.at = outer \/ IsIn(x.at, {Lan})
    BY <1>1, <2>1, SpaceIsNat DEF IsIn, HostRange, Address
  <2>3. CASE IsIn(x.at, d.excludes)
    BY <1>3, <1>10, <2>1, <2>2, <2>3 DEF d
  <2>4. CASE ~ IsIn(x.at, d.excludes)
    <3>1. ~ IsIn(x.at, {Lan})
      BY <2>2, <2>4
    <3>2. ~ Matches(a, x) /\ ~ Matches(b, x) /\ Matches(z, x)
      BY <1>4, <2>1, <3>1 DEF Matches, IsIn
    <3>3. \A m \in 1 .. 2 : m = 1 \/ m = 2
      OBVIOUS
    <3>4. n = 3
      BY <1>6, <1>8, <3>2, <3>3
    <3>5. rule = z
      BY <1>6, <3>4
    <3> QED
      BY <1>2, <1>3, <1>4, <1>5, <1>10, <2>1, <2>2, <2>4, <3>5 DEF d
  <2> QED
    BY <2>3, <2>4
<1> QED
  BY <1>9, <1>10

\* Every IPv4 destination but the LAN and the first hop's own address is reached
\* along the selected hops, and so are the name servers; IPv6 goes nowhere; and no
\* document of another release outlives the start of this one (generate_profile,
\* refresh_runtime_contract_if_needed).
THEOREM TrafficNeverStrays == LibrarySpec => []TrafficTakesSelectedPath
<1>1. CatalogInvariant /\ LibraryInvariant /\ RenderInvariant => TrafficTakesSelectedPath
  <2> SUFFICES ASSUME CatalogInvariant, LibraryInvariant, RenderInvariant, Ready
               PROVE  TrafficTakesSelectedPath
    BY DEF TrafficTakesSelectedPath
  <2> DEFINE hops == Hops(catalog, record)
             outer == record[catalog.firstHop].config.host.at
  <2>1. /\ document = Document(hops, catalog) /\ SoundHops(hops, catalog)
        /\ Renders(catalog, record, vault)
    BY CurrentDocument
  <2>2. hops[FH(catalog.firstHop)].config = record[catalog.firstHop].config
    <3>1. FH(catalog.firstHop) \in HopNames(catalog)
      BY <2>1 DEF SoundHops, Renderable, Hops
    <3>2. FH(catalog.firstHop)[2] = catalog.firstHop
      BY DEF FH
    <3> QED
      BY <3>1, <3>2 DEF Hops, Materialized
  <2>3. outer \in Address
    <3>1. catalog.firstHop \in Profiles(catalog)
      BY <2>1 DEF Renders, Validates, Profiles
    <3>2. record[catalog.firstHop].config.host.form = "IPv4"
      BY <2>1, <2>2 DEF SoundHops, Renderable, HopAccepted
    <3> QED
      BY <3>1, <3>2 DEF RenderInvariant, Stored
  <2>4. document.tun /\ document.ports = "own"
    BY <2>1 DEF Document
  <2>5. \A s \in document.nameservers : s.via = OUTLET_SELECTOR
    BY <2>1 DEF Document
  <2>6. Trail(document, OUTLET_SELECTOR) = ExpectedActivePath(catalog)
    <3>1. Describes(document, hops, catalog)
      BY <2>1 DEF Describes
    <3> HIDE DEF hops
    <3> QED
      BY <2>1, <3>1, DocumentTrails
  <2> HIDE DEF hops
  <2>7. \A x \in Destination :
          Carried(document, x) =
            IF x.family = "IPv6" THEN <<REJECT>>
            ELSE IF x.at = outer \/ IsIn(x.at, {Lan}) THEN <<DIRECT>>
            ELSE ExpectedActivePath(catalog)
    BY <2>1, <2>2, <2>3, DocumentCarries
  <2> QED
    BY <2>4, <2>5, <2>6, <2>7 DEF TrafficTakesSelectedPath
<1> QED
  BY <1>1, LibraryCatalogInvariant, LibraryInvariantHolds, RenderInvariantHolds, PTL

\* The hops of the current state and one more.
LEMMA OneMoreHop ==
  ASSUME CatalogInvariant, LibraryInvariant, RenderInvariant, Configured(catalog),
         NEW name \in {FH(0), PN(0)}, NEW e, NEW hops,
         hops = [n \in HopNames(catalog) \cup {name} |->
                   IF n = name THEN [config |-> e, key |-> 0]
                   ELSE Materialized(record[n[2]])],
         e.kind \in {"wireguard", "vless"},
         e.kind = "wireguard" => e.mtu \in {"none", "fits", "outside"},
         HopAccepted(e) => e.host.at \in Address
  PROVE  Renderable(hops, catalog) /\ ValidateRenderedProfile(Document(hops, catalog))
           <=> HopAccepted(e) /\ (e.kind = "wireguard" => e.mtu # "outside")
<1> DEFINE old == Hops(catalog, record)
           first == FH(catalog.firstHop)
<1>1. /\ SoundHops(old, catalog) /\ Renderable(old, catalog)
      /\ catalog \in Settings /\ catalog.firstHop \in catalog.firstHops
      /\ catalog.firstHops \cup catalog.protons \subseteq Ids
  <2>1. Renders(catalog, record, vault)
    BY DEF RenderInvariant
  <2>2. catalog \in Settings
    BY DEF CatalogInvariant, CatalogTypeOK
  <2>3. SoundHops(old, catalog)
    BY <2>1, <2>2, ProfilesAreKept, RenderedHopsAreSound
  <2> QED
    BY <2>1, <2>2, <2>3, ProfilesAreKept DEF Renders, Validates, Profiles
<1>2. /\ DOMAIN old = HopNames(catalog) /\ IsFiniteSet(HopNames(catalog))
      /\ \A n \in HopNames(catalog) : n[2] \in Profiles(catalog)
      /\ \A n \in HopNames(catalog) : \E id : n = FH(id) \/ n = PN(id)
      /\ \A id : FH(id) \in HopNames(catalog) <=> id \in catalog.firstHops
      /\ \A n \in HopNames(catalog) : old[n].config = record[n[2]].config
  BY <1>1, HopsOfState
<1>3. name \notin HopNames(catalog)
  <2>1. name[2] = 0
    BY DEF FH, PN
  <2>2. 0 \notin Ids
    BY CatalogAssumption DEF Ids
  <2> QED
    BY <1>1, <1>2, <2>1, <2>2 DEF Profiles
<1>4. /\ DOMAIN hops = HopNames(catalog) \cup {name} /\ hops[name].config = e
      /\ \A n \in HopNames(catalog) : hops[n].config = old[n].config
  BY <1>3 DEF Hops
<1> HIDE DEF old
<1>5. first \in HopNames(catalog) /\ hops[first].config = old[first].config
  BY <1>1, <1>2, <1>4
<1>6. HopAccepted(e) => Reaches(hops[first].config, e)
  <2> SUFFICES ASSUME HopAccepted(e), hops[first].config.kind = "wireguard"
               PROVE  IsIn(e.host.at, hops[first].config.allowed.IPv4)
    BY DEF Reaches
  <2> DEFINE w == record[first[2]]
  <2>1. first[2] \in Ids /\ Matching(w, first[2]) /\ hops[first].config = w.config
    BY <1>2, <1>5, ProfilesAreKept
  <2>2. w.config.allowed.IPv4 \subseteq Network
    BY <2>1, RecordForms
  <2>3. CoversAllIpv4(w.config.allowed.IPv4)
    <3>1. HopAccepted(old[first].config)
      BY <1>1, <1>2, <1>5 DEF Renderable
    <3> QED
      BY <1>5, <2>1, <3>1 DEF HopAccepted, Ipv4WireGuard
  <2> QED
    BY <2>1, <2>2, <2>3, CoverageIsExact
<1>7. Renderable(hops, catalog) <=> HopAccepted(e)
  <2>1. ASSUME Renderable(hops, catalog) PROVE HopAccepted(e)
    BY <1>4, <2>1 DEF Renderable
  <2>2. ASSUME HopAccepted(e) PROVE Renderable(hops, catalog)
    <3>1. ASSUME NEW n \in DOMAIN hops
          PROVE  /\ HopAccepted(hops[n].config)
                 /\ n[1] = "PN" => Reaches(hops[first].config, hops[n].config)
      <4>1. CASE n = name
        BY <1>4, <1>6, <2>2, <4>1
      <4>2. CASE n \in HopNames(catalog)
        BY <1>1, <1>2, <1>4, <1>5, <4>2 DEF Renderable
      <4> QED
        BY <1>4, <4>1, <4>2
    <3>2. /\ FH(catalog.firstHop) \in DOMAIN hops
          /\ catalog.mode = "double" => PN(catalog.proton) \in DOMAIN hops
      BY <1>1, <1>2, <1>4 DEF Renderable
    <3> QED
      BY <3>1, <3>2 DEF Renderable
  <2> QED
    BY <2>1, <2>2
<1>8. ASSUME ValidateRenderedProfile(Document(hops, catalog)), e.kind = "wireguard"
      PROVE  e.mtu # "outside"
  BY <1>4, <1>8, ValidatedMtu
<1>9. ASSUME HopAccepted(e), e.kind = "wireguard" => e.mtu # "outside"
      PROVE  ValidateRenderedProfile(Document(hops, catalog))
  <2>1. IsFiniteSet(DOMAIN hops)
    BY <1>2, <1>4, FS_AddElement
  <2>2. ASSUME NEW n \in DOMAIN hops
        PROVE  /\ \E id : n = FH(id) \/ n = PN(id)
               /\ hops[n].config.kind \in {"wireguard", "vless"}
               /\ hops[n].config.kind = "wireguard" => hops[n].config.mtu \in {"none", "fits"}
    <3>1. CASE n = name
      BY <1>4, <1>9, <3>1
    <3>2. CASE n \in HopNames(catalog)
      BY <1>1, <1>2, <1>4, <3>2 DEF SoundHops
    <3> QED
      BY <1>4, <3>1, <3>2
  <2>3. SoundHops(hops, catalog)
    BY <1>1, <1>7, <1>9, <2>1, <2>2 DEF SoundHops
  <2>4. Describes(Document(hops, catalog), hops, catalog)
    BY DEF Describes
  <2> QED
    BY <2>3, <2>4, DocumentIsValid
<1> QED
  BY <1>7, <1>8, <1>9

\* The networks leave no IPv4 address out.
LEMMA CoverageInSets ==
  ASSUME NEW R, R \subseteq Network
  PROVE  CoversAllIpv4(R) <=> UNION {r.first .. r.last : r \in R} = Address
<1>1. \A r \in R : r.first \in Nat /\ r.last \in Nat /\ r.first .. r.last \subseteq Address
  BY SpaceIsNat DEF Network, Address
<1>2. \A a \in Address : IsIn(a, R) <=> \E r \in R : a \in r.first .. r.last
  BY <1>1, SpaceIsNat DEF IsIn, Address
<1>3. (\A a \in Address : IsIn(a, R)) <=> UNION {r.first .. r.last : r \in R} = Address
  BY <1>1, <1>2
<1> QED
  BY <1>3, CoverageIsExact

\* Whether a file can be imported depends on the file alone: the renderer and the
\* validator of its output accept exactly the usable ones, as first hop and as
\* Proton node, whatever is in the library (build_candidate).
THEOREM UsableFilesAreAccepted == LibrarySpec => []UsableFilesAreImported
<1>1. CatalogInvariant /\ LibraryInvariant /\ RenderInvariant => UsableFilesAreImported
  <2> SUFFICES ASSUME CatalogInvariant, LibraryInvariant, RenderInvariant, Configured(catalog),
                      NEW c \in Others, NEW name \in {FH(0), PN(0)}
               PROVE  LET hops == [n \in HopNames(catalog) \cup {name} |->
                            IF n = name THEN [config |-> Resolved(c, resolver), key |-> 0]
                            ELSE Materialized(record[n[2]])]
                      IN  Usable(c) <=> /\ Resolvable(c, resolver)
                                        /\ Renderable(hops, catalog)
                                        /\ ValidateRenderedProfile(Document(hops, catalog))
    BY DEF UsableFilesAreImported
  <2> DEFINE e == Resolved(c, resolver)
             hops == [n \in HopNames(catalog) \cup {name} |->
                        IF n = name THEN [config |-> e, key |-> 0]
                        ELSE Materialized(record[n[2]])]
  <2>1. /\ c \in WireGuardConfig \cup VlessConfig
        /\ resolver \in [Domain -> Answers]
    BY LibraryAssumption DEF LibraryInvariant
  <2>2. /\ e.kind = c.kind /\ e.kind \in {"wireguard", "vless"} /\ c.host \in Host
        /\ e.kind = "wireguard" =>
             /\ e = c
             /\ c.allowed.IPv4 \subseteq Network
             /\ c.dns.IPv4 \subseteq Address
             /\ c.mtu \in {"none", "fits", "outside"}
        /\ e.kind = "vless" =>
             /\ Checked(e)
             /\ e.host = IF c.host.form = "domain"
                         THEN [form |-> "IPv4", at |-> resolver[c.host.at]] ELSE c.host
    BY <2>1, ResolvedForms
  <2>3. /\ c.host.form = "IPv4" => c.host.at \in Address
        /\ c.host.form \in {"IPv4", "IPv6", "domain"}
    BY <2>2, HostForms
  <2> HIDE DEF e, hops
  <2>4. e.kind = "wireguard" => e.mtu \in {"none", "fits", "outside"}
    BY <2>2
  <2>5. Resolvable(c, resolver) <=>
          (c.kind = "vless" /\ c.host.form = "domain" => resolver[c.host.at] \in Address)
    BY DEF Resolvable
  <2>6. Resolvable(c, resolver) /\ HopAccepted(e) => e.host.at \in Address
    BY <2>2, <2>3, <2>5 DEF HopAccepted
  <2>7. Usable(c) <=> /\ Resolvable(c, resolver)
                      /\ HopAccepted(e)
                      /\ e.kind = "wireguard" => e.mtu # "outside"
    <3>1. CASE e.kind = "vless"
      BY <2>2, <2>3, <2>5, <3>1 DEF Usable, HopAccepted
    <3>2. CASE e.kind = "wireguard"
      <4>1. CoversAllIpv4(c.allowed.IPv4)
              <=> UNION {r.first .. r.last : r \in c.allowed.IPv4} = Address
        BY <2>2, <3>2, CoverageInSets
      <4>2. CoversAllIpv4(c.allowed.IPv4) =>
              \A server \in c.dns.IPv4 : IsIn(server, c.allowed.IPv4)
        BY <2>2, <3>2, CoverageIsExact
      <4> QED
        BY <2>2, <2>3, <2>5, <3>2, <4>1, <4>2 DEF Usable, HopAccepted, Ipv4WireGuard
    <3> QED
      BY <2>2, <3>1, <3>2
  <2>8. CASE Resolvable(c, resolver)
    <3>1. Renderable(hops, catalog) /\ ValidateRenderedProfile(Document(hops, catalog))
            <=> HopAccepted(e) /\ (e.kind = "wireguard" => e.mtu # "outside")
      BY <2>2, <2>4, <2>6, <2>8, OneMoreHop DEF hops
    <3> QED
      BY <2>7, <2>8, <3>1 DEF hops, e
  <2>9. CASE ~ Resolvable(c, resolver)
    BY <2>7, <2>9 DEF hops, e
  <2> QED
    BY <2>8, <2>9
<1> QED
  BY <1>1, LibraryCatalogInvariant, LibraryInvariantHolds, RenderInvariantHolds, PTL
============================================================================
