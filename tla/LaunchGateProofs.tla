-------------------------- MODULE LaunchGateProofs --------------------------
(***************************************************************************)
(* Proofs about AddressRanges and LaunchGate for any width of addresses,   *)
(* any adapters and any routes.                                            *)
(***************************************************************************)
EXTENDS LaunchGate, FiniteSetTheorems, WellFoundedInduction, TLAPS

USE WidthAssumption

----------------------------------------------------------------------------
(* Numbers and finite sets *)

\* A set of numbers that is not empty has a least one.
LEMMA HasLeast ==
  ASSUME NEW S, S \subseteq Nat, S # {}
  PROVE  \E i \in S : \A j \in S : i <= j
<1> DEFINE T == {0 .. i : i \in S}
<1>1. T \subseteq FiniteSubsetsOf(Nat)
  <2> SUFFICES ASSUME NEW i \in S PROVE 0 .. i \in FiniteSubsetsOf(Nat)
    OBVIOUS
  <2>1. i \in Int /\ 0 \in Int
    OBVIOUS
  <2>2. IsFiniteSet(0 .. i)
    BY <2>1, FS_Interval
  <2>3. 0 .. i \subseteq Nat
    OBVIOUS
  <2> QED
    BY <2>2, <2>3 DEF FiniteSubsetsOf
<1>2. T # {}
  OBVIOUS
<1> HIDE DEF T
<1>3. PICK x \in T : \A y \in T : ~ (<<y, x>> \in StrictSubsetOrdering(Nat))
  BY <1>1, <1>2, FS_StrictSubsetOrderingWellFounded, WFMin
<1> USE DEF T
<1>4. PICK i \in S : x = 0 .. i
  OBVIOUS
<1>5. ASSUME NEW j \in S PROVE i <= j
  <2>1. ~ (<<0 .. j, 0 .. i>> \in StrictSubsetOrdering(Nat))
    BY <1>3, <1>4
  <2>2. 0 .. j \subseteq Nat /\ 0 .. i \subseteq Nat
    OBVIOUS
  <2>3. ~ (0 .. j \subseteq 0 .. i /\ 0 .. j # 0 .. i)
    BY <2>1, <2>2 DEF StrictSubsetOrdering
  <2>4. SUFFICES ASSUME j < i PROVE FALSE
    OBVIOUS
  <2>5. 0 .. j \subseteq 0 .. i /\ i \notin 0 .. j /\ i \in 0 .. i
    BY <2>4
  <2> QED
    BY <2>3, <2>5
<1> QED
  BY <1>4, <1>5

\* Powers of two count subsets.
LEMMA PowerCounts ==
  ASSUME NEW n \in Nat
  PROVE  /\ 2^n \in Nat /\ 2^n > 0
         /\ IsFiniteSet(SUBSET (1 .. n)) /\ Cardinality(SUBSET (1 .. n)) = 2^n
<1> DEFINE S == 1 .. n
<1>1. IsFiniteSet(S) /\ Cardinality(S) = n
  BY FS_Interval
<1>2. IsFiniteSet(SUBSET S) /\ Cardinality(SUBSET S) = 2^Cardinality(S)
  BY <1>1, FS_SUBSET
<1>3. SUBSET S # {}
  OBVIOUS
<1>4. Cardinality(SUBSET S) \in Nat /\ Cardinality(SUBSET S) # 0
  BY <1>2, <1>3, FS_CardinalityType, FS_EmptySet
<1> QED
  BY <1>1, <1>2, <1>4

\* One bit more, twice as many: a set without n + 1 or with it.
LEMMA PowerDoubles ==
  ASSUME NEW n \in Nat
  PROVE  2^(n + 1) = 2 * 2^n
<1> DEFINE A == SUBSET (1 .. n)
           B == {s \cup {n + 1} : s \in A}
           more == [s \in A |-> s \cup {n + 1}]
<1>1. SUBSET (1 .. n + 1) = A \cup B
  <2>1. A \cup B \subseteq SUBSET (1 .. n + 1)
    <3>1. 1 .. n \subseteq 1 .. n + 1 /\ n + 1 \in 1 .. n + 1
      OBVIOUS
    <3> QED
      BY <3>1
  <2>2. ASSUME NEW s \in SUBSET (1 .. n + 1) PROVE s \in A \cup B
    <3>1. s \ {n + 1} \in A
      OBVIOUS
    <3>2. CASE n + 1 \in s
      <4>1. s = (s \ {n + 1}) \cup {n + 1}
        BY <3>2
      <4> QED
        BY <3>1, <4>1
    <3>3. CASE n + 1 \notin s
      <4>1. s = s \ {n + 1}
        BY <3>3
      <4> QED
        BY <3>1, <4>1
    <3> QED
      BY <3>2, <3>3
  <2> QED
    BY <2>1, <2>2
<1>2. \A s \in A : n + 1 \notin s
  OBVIOUS
<1>3. A \cap B = {}
  BY <1>2
<1>4. more \in Bijection(A, B)
  <2>1. \A s \in A : \A t \in A : s \cup {n + 1} = t \cup {n + 1} => s = t
    <3> TAKE s \in A
    <3> TAKE t \in A
    <3>1. s = (s \cup {n + 1}) \ {n + 1} /\ t = (t \cup {n + 1}) \ {n + 1}
      BY <1>2
    <3> QED
      BY <3>1
  <2>2. more \in [A -> B] /\ \A b \in B : \E s \in A : b = s \cup {n + 1}
    OBVIOUS
  <2>3. \A s \in A : more[s] = s \cup {n + 1}
    OBVIOUS
  <2> HIDE DEF A, B, more
  <2>4. \A s \in A : \A t \in A : more[s] = more[t] => s = t
    BY <2>1, <2>3
  <2>5. \A b \in B : \E s \in A : more[s] = b
    BY <2>2, <2>3
  <2> QED
    BY <2>2, <2>4, <2>5 DEF Bijection, Injection, Surjection, IsInjective
<1>5. IsFiniteSet(A) /\ Cardinality(A) = 2^n /\ 2^n \in Nat
  BY PowerCounts
<1>6. IsFiniteSet(B) /\ Cardinality(B) = Cardinality(A)
  BY <1>4, <1>5, FS_Bijection DEF ExistsBijection
<1>7. Cardinality(A \cup B) = Cardinality(A) + Cardinality(B) - Cardinality(A \cap B)
  BY <1>5, <1>6, FS_Union
<1>8. Cardinality(A \cap B) = 0
  BY <1>3, FS_EmptySet
<1>9. Cardinality(SUBSET (1 .. n + 1)) = 2^(n + 1)
  <2>1. n + 1 \in Nat
    OBVIOUS
  <2> QED
    BY <2>1, PowerCounts
<1> HIDE DEF A, B
<1>10. 2^(n + 1) = Cardinality(A \cup B)
  BY <1>1, <1>9
<1>11. Cardinality(A \cup B) = 2^n + 2^n - 0
  BY <1>5, <1>6, <1>7, <1>8, Zenon
<1> QED
  BY <1>5, <1>10, <1>11

\* The space of addresses has four quarters.
LEMMA SpaceIsNat ==
  /\ 2^Width \in Nat /\ 2^Width > 0
  /\ 2^(Width - 2) \in Nat /\ 2^Width = 4 * 2^(Width - 2)
<1> USE GateAssumption
<1>1. Width - 2 \in Nat /\ Width - 1 \in Nat
      /\ Width = (Width - 1) + 1 /\ Width - 1 = (Width - 2) + 1
  OBVIOUS
<1>2. 2^(Width - 1) = 2 * 2^(Width - 2)
  <2>1. 2^((Width - 2) + 1) = 2 * 2^(Width - 2)
    BY <1>1, PowerDoubles
  <2> QED
    BY <1>1, <2>1, Zenon
<1>3. 2^Width = 2 * 2^(Width - 1)
  <2>1. 2^((Width - 1) + 1) = 2 * 2^(Width - 1)
    BY <1>1, PowerDoubles
  <2> QED
    BY <1>1, <2>1, Zenon
<1>4. 2^(Width - 2) \in Nat /\ 2^Width \in Nat /\ 2^Width > 0
  BY <1>1, PowerCounts
<1> QED
  BY <1>2, <1>3, <1>4

\* What holds of no element, and of a set as soon as it holds without one of
\* its elements, holds of every part of a finite set.
LEMMA BuildUp ==
  ASSUME NEW S, IsFiniteSet(S), NEW Good, {} \in Good,
         \A s \in SUBSET S : s # {} => \E x \in s : s \ {x} \in Good => s \in Good
  PROVE  \A s \in SUBSET S : s \in Good
<1> DEFINE Bad == {n \in Nat : \E s \in SUBSET S : Cardinality(s) = n /\ s \notin Good}
<1>1. \A s \in SUBSET S : IsFiniteSet(s) /\ Cardinality(s) \in Nat
  BY FS_Subset, FS_CardinalityType
<1>2. Bad = {}
  <2> SUFFICES ASSUME Bad # {} PROVE FALSE
    OBVIOUS
  <2>1. PICK n \in Bad : \A m \in Bad : n <= m
    BY HasLeast
  <2>2. PICK s \in SUBSET S : Cardinality(s) = n /\ s \notin Good
    BY <2>1
  <2>3. PICK x \in s : s \ {x} \notin Good
    BY <2>2
  <2>4. Cardinality(s \ {x}) = n - 1
    BY <1>1, <2>2, FS_RemoveElement
  <2>5. s \ {x} \in SUBSET S /\ Cardinality(s \ {x}) \in Nat
    BY <1>1
  <2>6. n - 1 \in Bad
    BY <2>3, <2>4, <2>5
  <2> QED
    BY <2>1, <2>6
<1> QED
  BY <1>1, <1>2

\* Up to sets of n elements, f is the fold with step over what pick picks.
Fold(f, n, S, V, base, pick, step) ==
  /\ f \in [SUBSET S -> V]
  /\ \A s \in SUBSET S : Cardinality(s) <= n =>
       f[s] = IF s = {} THEN base ELSE step[pick[s]][f[s \ {pick[s]}]]

Picks(pick, S) == \A s \in SUBSET S : s # {} => pick[s] \in s
Steps(step, S, V) == \A x \in S : \A v \in V : step[x][v] \in V

IsFold(f, S, V, base, pick, step) ==
  /\ f \in [SUBSET S -> V]
  /\ \A s \in SUBSET S : f[s] = IF s = {} THEN base ELSE step[pick[s]][f[s \ {pick[s]}]]

\* A fold over a finite set exists.
LEMMA FoldExists ==
  ASSUME NEW S, IsFiniteSet(S), NEW V, NEW base \in V,
         NEW pick, Picks(pick, S), NEW step, Steps(step, S, V)
  PROVE  \E f : IsFold(f, S, V, base, pick, step)
<1> USE DEF Picks, Steps
<1> DEFINE Bad == {n \in Nat : ~ \E f : Fold(f, n, S, V, base, pick, step)}
<1>1. \A s \in SUBSET S : IsFiniteSet(s) /\ Cardinality(s) \in Nat
                          /\ (Cardinality(s) = 0 <=> s = {})
                          /\ Cardinality(s) <= Cardinality(S)
  BY FS_Subset, FS_CardinalityType, FS_EmptySet
<1>2. ASSUME NEW n \in Nat, NEW g, n = 0 \/ Fold(g, n - 1, S, V, base, pick, step), g \in [SUBSET S -> V]
      PROVE  \E f : Fold(f, n, S, V, base, pick, step)
  <2> DEFINE f == [s \in SUBSET S |-> IF s = {} THEN base ELSE step[pick[s]][g[s \ {pick[s]}]]]
  <2>1. \A s \in SUBSET S : s # {} => pick[s] \in S /\ s \ {pick[s]} \in SUBSET S
    OBVIOUS
  <2>2. f \in [SUBSET S -> V]
    <3>1. \A s \in SUBSET S : s # {} => g[s \ {pick[s]}] \in V
      BY <1>2, <2>1
    <3> QED
      BY <2>1, <3>1
  <2>3. ASSUME NEW s \in SUBSET S, Cardinality(s) <= n, s # {}
        PROVE  f[s] = step[pick[s]][f[s \ {pick[s]}]]
    <3> DEFINE q == s \ {pick[s]}
    <3>1. pick[s] \in s
      BY <2>3
    <3>2. Cardinality(q) = Cardinality(s) - 1
      BY <1>1, <3>1, FS_RemoveElement
    <3>3. Cardinality(s) # 0 /\ Cardinality(s) \in Nat
      BY <1>1, <2>3
    <3>4. n # 0 /\ Cardinality(q) <= n - 1
      <4> HIDE DEF q
      <4> QED
        BY <2>3, <3>2, <3>3
    <3>5. q \in SUBSET S
      OBVIOUS
    <3>6. g[q] = IF q = {} THEN base ELSE step[pick[q]][g[q \ {pick[q]}]]
      BY <1>2, <3>4, <3>5 DEF Fold
    <3>7. f[q] = g[q]
      BY <3>5, <3>6
    <3> QED
      BY <2>3, <3>7
  <2>4. f[{}] = base
    OBVIOUS
  <2> HIDE DEF f
  <2>5. Fold(f, n, S, V, base, pick, step)
    BY <2>2, <2>3, <2>4 DEF Fold
  <2> QED
    BY <2>5
<1>3. Bad = {}
  <2> SUFFICES ASSUME Bad # {} PROVE FALSE
    OBVIOUS
  <2>1. PICK n \in Bad : \A m \in Bad : n <= m
    BY HasLeast
  <2>2. CASE n = 0
    <3>1. [s \in SUBSET S |-> base] \in [SUBSET S -> V]
      OBVIOUS
    <3> QED
      BY <1>2, <2>1, <2>2, <3>1
  <2>3. CASE n # 0
    <3>1. n \in Nat /\ n - 1 \in Nat
      BY <2>3
    <3>4. n - 1 \notin Bad
      <4> HIDE DEF Bad
      <4> QED
        BY <2>1, <3>1
    <3>2. PICK g : Fold(g, n - 1, S, V, base, pick, step)
      BY <3>1, <3>4
    <3>3. g \in [SUBSET S -> V]
      BY <3>2 DEF Fold
    <3> QED
      BY <1>2, <2>1, <3>2, <3>3
  <2> QED
    BY <2>2, <2>3
<1>4. Cardinality(S) \in Nat
  BY FS_CardinalityType
<1>5. PICK f : Fold(f, Cardinality(S), S, V, base, pick, step)
  BY <1>3, <1>4
<1> QED
  BY <1>1, <1>5 DEF Fold, IsFold

----------------------------------------------------------------------------
(* Sorted ranges *)

\* The ranges of routes, and of what the code makes of them.
Span == {r \in [first : Address, last : Address] : r.first <= r.last}

LEMMA SpanFields ==
  ASSUME NEW r \in Span
  PROVE  /\ r.first \in Nat /\ r.last \in Nat /\ r.first <= r.last
         /\ r.first <= 2^Width - 1 /\ r.last <= 2^Width - 1
         /\ r = [first |-> r.first, last |-> r.last]
BY SpaceIsNat DEF Span, Address

LEMMA MakeSpan ==
  ASSUME NEW a \in Nat, NEW b \in Nat, a <= b, b <= 2^Width - 1
  PROVE  [first |-> a, last |-> b] \in Span
BY SpaceIsNat DEF Span, Address

\* There are only so many ranges.
LEMMA SpansAreFinite ==
  ASSUME NEW R, R \subseteq Span
  PROVE  IsFiniteSet(R)
<1> DEFINE Pair == [first : Address, last : Address]
           both == [p \in Address \X Address |-> [first |-> p[1], last |-> p[2]]]
<1>1. IsFiniteSet(Address)
  BY SpaceIsNat, FS_Interval DEF Address
<1>2. IsFiniteSet(Address \X Address)
  BY <1>1, FS_Product
<1>3. both \in Surjection(Address \X Address, Pair)
  <2>1. both \in [Address \X Address -> Pair]
    OBVIOUS
  <2>2. ASSUME NEW r \in Pair PROVE \E p \in Address \X Address : both[p] = r
    <3>1. <<r.first, r.last>> \in Address \X Address
      OBVIOUS
    <3>2. both[<<r.first, r.last>>] = r
      BY <3>1
    <3> QED
      BY <3>1, <3>2
  <2> HIDE DEF both, Pair
  <2> QED
    BY <2>1, <2>2 DEF Surjection
<1>4. IsFiniteSet(Pair)
  BY <1>2, <1>3, FS_Surjection
<1>5. R \subseteq Pair
  BY DEF Span
<1> QED
  BY <1>4, <1>5, FS_Subset

\* Sorted ranges have a last one.
LEMMA FinalIsLast ==
  ASSUME NEW R, R \subseteq Span, R # {}
  PROVE  /\ Final(R) \in R
         /\ \A q \in R : q.first < Final(R).first
                         \/ (q.first = Final(R).first /\ q.last <= Final(R).last)
<1> DEFINE N == 2^Width
           F == {N - r.first : r \in R}
<1>0. N \in Nat
  BY SpaceIsNat
<1> HIDE DEF N
<1>1. \A r \in R : r.first \in 0 .. N - 1 /\ r.last \in 0 .. N - 1
  BY DEF Span, Address, N
<1>2. F \subseteq Nat /\ F # {}
  BY <1>0, <1>1
<1>3. PICK i \in F : \A j \in F : i <= j
  BY <1>2, HasLeast
<1>4. PICK p \in R : i = N - p.first
  BY <1>3
<1>5. \A r \in R : r.first <= p.first
  <2> TAKE r \in R
  <2>1. N - r.first \in F
    OBVIOUS
  <2>2. N - p.first <= N - r.first
    BY <2>1, <1>3, <1>4
  <2> QED
    BY <2>2, <1>0, <1>1
<1> DEFINE L == {N - r.last : r \in {q \in R : q.first = p.first}}
<1>6. L \subseteq Nat /\ L # {}
  BY <1>0, <1>1
<1>7. PICK k \in L : \A j \in L : k <= j
  BY <1>6, HasLeast
<1>8. PICK z \in R : z.first = p.first /\ k = N - z.last
  BY <1>7
<1>9. \A r \in R : r.first < z.first \/ (r.first = z.first /\ r.last <= z.last)
  <2> TAKE r \in R
  <2>1. CASE r.first = p.first
    <3>1. N - r.last \in L
      BY <2>1
    <3>2. N - z.last <= N - r.last
      BY <3>1, <1>7, <1>8
    <3> QED
      BY <2>1, <3>2, <1>0, <1>1, <1>8
  <2> QED
    BY <2>1, <1>5, <1>8, <1>1
<1> QED
  BY <1>8, <1>9 DEF Final

IsIn(a, R) == \E r \in R : r.first <= a /\ a <= r.last

\* An address of a set of ranges is an address in one of them.
LEMMA IsAddress ==
  ASSUME NEW R, R \subseteq Span, NEW a
  PROVE  a \in Addresses(R) <=> a \in Nat /\ IsIn(a, R)
<1>1. \A r \in R : a \in r.first .. r.last <=> a \in Nat /\ r.first <= a /\ a <= r.last
  BY SpanFields
<1> QED
  BY <1>1 DEF Addresses, IsIn

LEMMA IsInUnion ==
  ASSUME NEW R, NEW Q, NEW a
  PROVE  IsIn(a, R \cup Q) <=> IsIn(a, R) \/ IsIn(a, Q)
BY DEF IsIn

LEMMA IsInOne ==
  ASSUME NEW a, NEW p, NEW q
  PROVE  /\ IsIn(a, {[first |-> p, last |-> q]}) <=> p <= a /\ a <= q
         /\ ~ IsIn(a, {})
BY DEF IsIn

----------------------------------------------------------------------------
(* Merging, subtracting, covering and counting ranges *)

\* Ranges that neither overlap nor touch.
Apart(N) == \A p \in N : \A q \in N : p # q => p.last + 1 < q.first \/ q.last + 1 < p.first

\* N has the addresses of R in as few ranges as possible.
Merged(R, N) ==
  /\ N \subseteq Span
  /\ Apart(N)
  /\ \A a \in Nat : IsIn(a, N) <=> IsIn(a, R)
  /\ \A r \in N : \E q \in R : q.first = r.first

\* Merging makes ranges of ranges.
LEMMA ExtendType ==
  ASSUME NEW m, m \subseteq Span, NEW x \in Span
  PROVE  Extend(m, x) \subseteq Span
<1>1. CASE m # {} /\ x.first <= Final(m).last + 1
  <2> DEFINE p == Final(m)
             e == IF x.last > p.last THEN x.last ELSE p.last
  <2>1. p \in Span
    BY <1>1, FinalIsLast
  <2>2. [first |-> p.first, last |-> e] \in Span
    <3>1. /\ p.first \in Nat /\ p.last \in Nat /\ p.first <= p.last
          /\ p.first <= 2^Width - 1 /\ p.last <= 2^Width - 1
      BY <2>1, SpanFields
    <3>2. x.last \in Nat /\ x.last <= 2^Width - 1
      BY SpanFields
    <3> HIDE DEF p
    <3>3. e \in Nat /\ p.first <= e /\ e <= 2^Width - 1
      BY <3>1, <3>2
    <3> HIDE DEF e
    <3> QED
      BY <3>1, <3>3, MakeSpan
  <2> QED
    BY <1>1, <2>2 DEF Extend
<1>2. CASE ~ (m # {} /\ x.first <= Final(m).last + 1)
  BY <1>2 DEF Extend
<1> QED
  BY <1>1, <1>2

\* One more range behind the merged ones.
LEMMA ExtendMerges ==
  ASSUME NEW R, R \subseteq Span, R # {}, NEW m, Merged(R \ {Final(R)}, m)
  PROVE  Merged(R, Extend(m, Final(R)))
<1> DEFINE x == Final(R)
           Q == R \ {x}
           p == Final(m)
           In(a, r) == r.first <= a /\ a <= r.last
<1>1. x \in R /\ \A q \in R : q.first <= x.first
  BY FinalIsLast, SpanFields
<1>2. R = Q \cup {x}
  BY <1>1
<1>3. /\ m \subseteq Span /\ Apart(m)
      /\ \A a \in Nat : (\E r \in m : In(a, r)) <=> \E r \in Q : In(a, r)
      /\ \A r \in m : \E q \in Q : q.first = r.first
  BY DEF Merged, IsIn
<1>4. \A r \in R \cup m : r.first \in Nat /\ r.last \in Nat /\ r.first <= r.last
  BY <1>3, SpanFields
<1>5. \A r \in m : r.first <= x.first
  BY <1>1, <1>3
<1>6. Extend(m, x) \subseteq Span
  BY <1>1, <1>3, ExtendType
<1>7. m # {} => p \in m /\ \A q \in m : q.first <= p.first
  BY <1>3, <1>4, FinalIsLast
<1>8. CASE m # {} /\ x.first <= p.last + 1
  <2> DEFINE e == IF x.last > p.last THEN x.last ELSE p.last
             z == [first |-> p.first, last |-> e]
  <2>1. Extend(m, x) = (m \ {p}) \cup {z}
    BY <1>8 DEF Extend
  <2>2. p \in m /\ \A q \in m : q.first <= p.first
    BY <1>7, <1>8
  <2>3. z.first = p.first /\ z.last = e
    OBVIOUS
  <2> HIDE DEF z, x, p, Q
  <2>4. e \in Nat /\ e >= x.last /\ e >= p.last /\ e \in {x.last, p.last}
    BY <1>1, <1>4, <2>2
  <2> HIDE DEF e
  <2>5. \A q \in m \ {p} : q.last + 1 < p.first
    <3> TAKE q \in m \ {p}
    <3>1. p.last + 1 < q.first \/ q.last + 1 < p.first
      BY <1>3, <2>2 DEF Apart
    <3> QED
      BY <1>4, <2>2, <3>1
  <2>6. Apart((m \ {p}) \cup {z})
    <3>1. \A q \in m \ {p} : \A s \in m \ {p} :
            q # s => q.last + 1 < s.first \/ s.last + 1 < q.first
      BY <1>3 DEF Apart
    <3> QED
      BY <2>3, <2>5, <3>1 DEF Apart
  <2>7. \A a \in Nat : In(a, z) <=> In(a, p) \/ In(a, x)
    BY <1>1, <1>4, <1>5, <1>8, <2>2, <2>3, <2>4
  <2>8. ASSUME NEW a \in Nat
        PROVE  (\E r \in (m \ {p}) \cup {z} : In(a, r)) <=> \E r \in R : In(a, r)
    <3>1. (\E r \in (m \ {p}) \cup {z} : In(a, r))
            <=> (\E r \in m \ {p} : In(a, r)) \/ In(a, z)
      OBVIOUS
    <3>2. (\E r \in m : In(a, r)) <=> (\E r \in m \ {p} : In(a, r)) \/ In(a, p)
      BY <2>2
    <3>3. (\E r \in R : In(a, r)) <=> (\E r \in Q : In(a, r)) \/ In(a, x)
      BY <1>2
    <3> HIDE DEF In
    <3> QED
      BY <1>3, <2>7, <3>1, <3>2, <3>3
  <2>9. \A r \in (m \ {p}) \cup {z} : \E q \in R : q.first = r.first
    BY <1>2, <1>3, <2>2, <2>3
  <2> QED
    BY <1>6, <2>1, <2>6, <2>8, <2>9 DEF Merged, IsIn, x
<1>9. CASE ~ (m # {} /\ x.first <= p.last + 1)
  <2>1. Extend(m, x) = m \cup {x}
    BY <1>9 DEF Extend
  <2> HIDE DEF x, p, Q
  <2>2. \A q \in m : q.last + 1 < x.first
    <3> TAKE q \in m
    <3>1. p \in m /\ q.first <= p.first /\ p.last + 1 < x.first
      BY <1>1, <1>4, <1>7, <1>9
    <3>2. q # p => p.last + 1 < q.first \/ q.last + 1 < p.first
      BY <1>3, <3>1 DEF Apart
    <3> QED
      BY <1>1, <1>4, <3>1, <3>2
  <2>3. Apart(m \cup {x})
    BY <1>3, <2>2 DEF Apart
  <2>4. ASSUME NEW a \in Nat
        PROVE  (\E r \in m \cup {x} : In(a, r)) <=> \E r \in R : In(a, r)
    <3>1. (\E r \in m \cup {x} : In(a, r)) <=> (\E r \in m : In(a, r)) \/ In(a, x)
      OBVIOUS
    <3>2. (\E r \in R : In(a, r)) <=> (\E r \in Q : In(a, r)) \/ In(a, x)
      BY <1>2
    <3> HIDE DEF In
    <3> QED
      BY <1>3, <3>1, <3>2
  <2>5. \A r \in m \cup {x} : \E q \in R : q.first = r.first
    BY <1>1, <1>2, <1>3
  <2> QED
    BY <1>6, <2>1, <2>3, <2>4, <2>5 DEF Merged, IsIn, x
<1> QED
  BY <1>8, <1>9

\* Normalized has the same addresses in as few ranges as possible.
LEMMA NormalizedMerges ==
  ASSUME NEW R, R \subseteq Span
  PROVE  Merged(R, Normalized(R))
<1> DEFINE Eq(h) == h = [s \in SUBSET R |->
                           IF s = {} THEN {} ELSE Extend(h[s \ {Final(s)}], Final(s))]
           f == CHOOSE h : Eq(h)
<1>1. Normalized(R) = f[R]
  BY DEF Normalized, InOrder, MapThenFoldSet
<1>2. \A s \in SUBSET R : s # {} => Final(s) \in s
  BY FinalIsLast
<1>3. IsFiniteSet(R)
  BY SpansAreFinite
<1>4. \E h : Eq(h)
  <2> DEFINE V == SUBSET Span
             pick == [s \in SUBSET R |-> Final(s)]
             step == [x \in R |-> [v \in V |-> Extend(v, x)]]
  <2>1. Picks(pick, R)
    BY <1>2 DEF Picks
  <2>2. Steps(step, R, V)
    BY ExtendType DEF Steps
  <2>3. {} \in V
    OBVIOUS
  <2>4. \A s \in SUBSET R : pick[s] = Final(s)
    OBVIOUS
  <2>5. \A x \in R : \A v \in V : step[x][v] = Extend(v, x)
    OBVIOUS
  <2> HIDE DEF V, pick, step
  <2>6. PICK h : IsFold(h, R, V, {}, pick, step)
    BY <1>3, <2>1, <2>2, <2>3, FoldExists
  <2>7. ASSUME NEW s \in SUBSET R, s # {} PROVE h[s] = Extend(h[s \ {Final(s)}], Final(s))
    <3>1. s \ {Final(s)} \in SUBSET R /\ Final(s) \in R
      BY <1>2, <2>7
    <3>2. h[s] = step[Final(s)][h[s \ {Final(s)}]]
      BY <2>4, <2>6, <2>7 DEF IsFold
    <3> QED
      BY <2>5, <2>6, <3>1, <3>2 DEF IsFold
  <2>8. h = [s \in SUBSET R |-> h[s]] /\ h[{}] = {}
    BY <2>6 DEF IsFold
  <2>9. Eq(h)
    BY <2>7, <2>8
  <2> HIDE DEF Eq
  <2> QED
    BY <2>9
<1>5. Eq(f)
  BY <1>4
<1> HIDE DEF f
<1>6. f[{}] = {}
  BY <1>5
<1>7. \A s \in SUBSET R : s # {} => f[s] = Extend(f[s \ {Final(s)}], Final(s))
  BY <1>5
<1> DEFINE Good == {s \in SUBSET R : Merged(s, f[s])}
<1>8. {} \in Good
  <2>1. Merged({}, {})
    BY DEF Merged, Apart, IsIn
  <2> QED
    BY <1>6, <2>1
<1>9. ASSUME NEW s \in SUBSET R, s # {}, s \ {Final(s)} \in Good PROVE s \in Good
  <2>1. Merged(s, Extend(f[s \ {Final(s)}], Final(s)))
    BY <1>9, ExtendMerges
  <2> QED
    BY <1>7, <1>9, <2>1
<1> HIDE DEF Good
<1>10. \A s \in SUBSET R : s # {} => \E x \in s : s \ {x} \in Good => s \in Good
  BY <1>2, <1>9
<1>11. R \in Good
  BY <1>3, <1>8, <1>10, BuildUp
<1> QED
  BY <1>1, <1>11 DEF Good

\* Skip of Cut: one more excluded range.
Skipped(i, sofar, e) ==
  IF e.last < sofar.cursor \/ e.first > i.last \/ sofar.cursor > i.last
  THEN sofar
  ELSE [parts  |-> sofar.parts \cup
                     IF e.first > sofar.cursor
                     THEN {[first |-> sofar.cursor, last |-> e.first - 1]} ELSE {},
        cursor |-> e.last + 1]

CutState == [parts : SUBSET Span, cursor : 0 .. 2^Width]

\* The parts are what is left of i before the cursor, and behind it nothing is excluded.
CutSoFar(i, E, v) ==
  /\ v \in CutState
  /\ i.first <= v.cursor
  /\ v.cursor = i.first \/ \E e \in E : v.cursor = e.last + 1
  /\ \A a \in Nat : IsIn(a, v.parts) <=> i.first <= a /\ a <= i.last /\ a < v.cursor /\ ~ IsIn(a, E)
  /\ \A a \in Nat : i.first <= a /\ a <= i.last /\ v.cursor <= a => ~ IsIn(a, E)

LEMMA SkippedType ==
  ASSUME NEW i \in Span, NEW v \in CutState, NEW e \in Span
  PROVE  Skipped(i, v, e) \in CutState
<1> DEFINE gap == IF e.first > v.cursor
                  THEN {[first |-> v.cursor, last |-> e.first - 1]} ELSE {}
<1>1. /\ v.parts \subseteq Span /\ v.cursor \in Nat
      /\ e.first \in Nat /\ e.last \in Nat /\ e.first <= e.last
      /\ e.first <= 2^Width - 1 /\ e.last <= 2^Width - 1 /\ 2^Width \in Nat
  BY SpanFields, SpaceIsNat DEF CutState
<1>2. gap \subseteq Span
  <2>1. CASE e.first > v.cursor
    <3>1. e.first - 1 \in Nat /\ v.cursor <= e.first - 1 /\ e.first - 1 <= 2^Width - 1
      BY <1>1, <2>1
    <3>2. [first |-> v.cursor, last |-> e.first - 1] \in Span
      BY <1>1, <3>1, MakeSpan
    <3> QED
      BY <3>2
  <2> QED
    BY <2>1
<1>3. e.last + 1 \in 0 .. 2^Width
  BY <1>1
<1> HIDE DEF gap
<1>4. [parts |-> v.parts \cup gap, cursor |-> e.last + 1] \in CutState
  BY <1>1, <1>2, <1>3 DEF CutState
<1> QED
  BY <1>4 DEF Skipped, gap

LEMMA SkippedStep ==
  ASSUME NEW i \in Span, NEW E, E \subseteq Span, E # {},
         NEW v, CutSoFar(i, E \ {Final(E)}, v)
  PROVE  CutSoFar(i, E, Skipped(i, v, Final(E)))
<1> DEFINE x == Final(E)
           Q == E \ {x}
           w == Skipped(i, v, x)
<1>1. x \in E /\ \A q \in E : q.first <= x.first
  BY FinalIsLast, SpanFields
<1>2. \A a : IsIn(a, E) <=> IsIn(a, Q) \/ (x.first <= a /\ a <= x.last)
  <2>1. E = Q \cup {x}
    BY <1>1
  <2> HIDE DEF x, Q
  <2> QED
    BY <2>1 DEF IsIn
<1>3. \A r \in E \cup {i} : r.first \in Nat /\ r.last \in Nat /\ r.first <= r.last
                           /\ r.last <= 2^Width - 1
  BY SpanFields
<1>4. /\ v \in CutState /\ v.cursor \in Nat
      /\ i.first <= v.cursor
      /\ v.cursor = i.first \/ \E e \in Q : v.cursor = e.last + 1
      /\ \A a \in Nat : IsIn(a, v.parts)
           <=> i.first <= a /\ a <= i.last /\ a < v.cursor /\ ~ IsIn(a, Q)
      /\ \A a \in Nat : i.first <= a /\ a <= i.last /\ v.cursor <= a => ~ IsIn(a, Q)
  <2>1. v \in CutState /\ v.cursor \in Nat
    BY SpaceIsNat DEF CutSoFar, CutState
  <2> QED
    BY <2>1 DEF CutSoFar
<1>5. w \in CutState
  BY <1>1, <1>4, SkippedType
<1>6. ASSUME NEW a \in Nat, i.first <= a, a < v.cursor, ~ IsIn(a, Q)
      PROVE  ~ (x.first <= a /\ a <= x.last)
  <2> SUFFICES ASSUME x.first <= a PROVE FALSE
    OBVIOUS
  <2>1. PICK e \in Q : v.cursor = e.last + 1
    BY <1>3, <1>4, <1>6
  <2>2. e.first <= a /\ a <= e.last
    <3> HIDE DEF x
    <3> QED
      BY <1>1, <1>3, <1>6, <2>1
  <2> QED
    BY <1>6, <2>2 DEF IsIn
<1> HIDE DEF x, Q, w
<1>7. Q \subseteq E
  BY DEF Q
<1>8. CASE x.last < v.cursor \/ x.first > i.last \/ v.cursor > i.last
  <2>1. w = v
    BY <1>8 DEF Skipped, w, x
  <2>2. ASSUME NEW a \in Nat
        PROVE  IsIn(a, v.parts) <=> i.first <= a /\ a <= i.last /\ a < v.cursor /\ ~ IsIn(a, E)
    <3>1. IsIn(a, E) <=> IsIn(a, Q) \/ (x.first <= a /\ a <= x.last)
      BY <1>2
    <3> QED
      BY <1>4, <1>6, <3>1
  <2>3. ASSUME NEW a \in Nat, i.first <= a, a <= i.last, v.cursor <= a
        PROVE  ~ IsIn(a, E)
    BY <1>1, <1>2, <1>3, <1>4, <1>8, <2>3
  <2>4. v.cursor = i.first \/ \E e \in E : v.cursor = e.last + 1
    BY <1>4, <1>7
  <2> QED
    BY <1>4, <2>1, <2>2, <2>3, <2>4 DEF CutSoFar, w, x
<1>9. CASE ~ (x.last < v.cursor \/ x.first > i.last \/ v.cursor > i.last)
  <2> DEFINE gap == IF x.first > v.cursor
                    THEN {[first |-> v.cursor, last |-> x.first - 1]} ELSE {}
  <2>1. w = [parts |-> v.parts \cup gap, cursor |-> x.last + 1]
    BY <1>9 DEF Skipped, w, x
  <2>2. w.parts = v.parts \cup gap /\ w.cursor = x.last + 1
    BY <2>1
  <2>3. ASSUME NEW a \in Nat PROVE  IsIn(a, w.parts) <=> IsIn(a, v.parts) \/ (v.cursor <= a /\ a < x.first)
    <3>1. IsIn(a, gap) <=> v.cursor <= a /\ a < x.first
      <4>1. x.first \in Nat /\ v.cursor \in Nat
        BY <1>1, <1>3, <1>4
      <4>2. CASE x.first > v.cursor
        <5>1. gap = {[first |-> v.cursor, last |-> x.first - 1]}
          BY <4>2
        <5>2. IsIn(a, gap) <=> v.cursor <= a /\ a <= x.first - 1
          BY <5>1, IsInOne
        <5> HIDE DEF gap
        <5> QED
          BY <4>1, <5>2
      <4>3. CASE ~ (x.first > v.cursor)
        <5>1. ~ IsIn(a, gap)
          BY <4>3, IsInOne
        <5> HIDE DEF gap
        <5> QED
          BY <4>1, <4>3, <5>1
      <4> QED
        BY <4>2, <4>3
    <3>2. IsIn(a, w.parts) <=> IsIn(a, v.parts) \/ IsIn(a, gap)
      <4> HIDE DEF gap
      <4> QED
        BY <2>2, IsInUnion
    <3> HIDE DEF gap
    <3> QED
      BY <3>1, <3>2
  <2> HIDE DEF gap
  <2>4. /\ x.first \in Nat /\ x.last \in Nat /\ x.first <= x.last
        /\ v.cursor <= x.last /\ x.first <= i.last /\ v.cursor <= i.last
        /\ i.first \in Nat /\ i.last \in Nat
    BY <1>1, <1>3, <1>4, <1>9
  <2>5. ASSUME NEW a \in Nat
        PROVE  IsIn(a, w.parts) <=> i.first <= a /\ a <= i.last /\ a < w.cursor /\ ~ IsIn(a, E)
    <3>1. IsIn(a, E) <=> IsIn(a, Q) \/ (x.first <= a /\ a <= x.last)
      BY <1>2
    <3>2. IsIn(a, w.parts) <=> IsIn(a, v.parts) \/ (v.cursor <= a /\ a < x.first)
      BY <2>3
    <3>3. IsIn(a, v.parts) <=> i.first <= a /\ a <= i.last /\ a < v.cursor /\ ~ IsIn(a, Q)
      BY <1>4
    <3>4. i.first <= a /\ a <= i.last /\ v.cursor <= a => ~ IsIn(a, Q)
      BY <1>4
    <3>5. i.first <= a /\ a < v.cursor /\ ~ IsIn(a, Q) => ~ (x.first <= a /\ a <= x.last)
      BY <1>6
    <3>6. i.first <= v.cursor /\ v.cursor \in Nat
      BY <1>4
    <3> QED
      BY <2>2, <2>4, <3>1, <3>2, <3>3, <3>4, <3>5, <3>6
  <2>6. ASSUME NEW a \in Nat, i.first <= a, a <= i.last, w.cursor <= a
        PROVE  ~ IsIn(a, E)
    BY <1>2, <1>4, <2>2, <2>4, <2>6
  <2>7. i.first <= w.cursor
    BY <1>4, <2>2, <2>4
  <2> QED
    BY <1>1, <1>5, <2>2, <2>5, <2>6, <2>7 DEF CutSoFar, w, x
<1> QED
  BY <1>8, <1>9

\* Cut leaves of a range exactly what no excluded range has.
LEMMA CutIsExact ==
  ASSUME NEW i \in Span, NEW R, R \subseteq Span
  PROVE  /\ Cut(i, R) \subseteq Span
         /\ \A a \in Nat : IsIn(a, Cut(i, R)) <=> i.first <= a /\ a <= i.last /\ ~ IsIn(a, R)
<1> DEFINE base == [parts |-> {}, cursor |-> i.first]
           Eq(h) == h = [s \in SUBSET R |->
                           IF s = {} THEN base ELSE Skipped(i, h[s \ {Final(s)}], Final(s))]
           f == CHOOSE h : Eq(h)
           end == f[R]
           rest == IF end.cursor <= i.last
                   THEN {[first |-> end.cursor, last |-> i.last]} ELSE {}
<1>1. Cut(i, R) = end.parts \cup rest
  BY DEF Cut, InOrder, MapThenFoldSet, Skipped
<1>2. \A s \in SUBSET R : s # {} => Final(s) \in s
  BY FinalIsLast
<1>3. IsFiniteSet(R)
  BY SpansAreFinite
<1>4. base \in CutState
  BY SpanFields, SpaceIsNat DEF CutState
<1>5. \E h : Eq(h)
  <2> DEFINE pick == [s \in SUBSET R |-> Final(s)]
             step == [x \in R |-> [v \in CutState |-> Skipped(i, v, x)]]
  <2>1. Picks(pick, R)
    BY <1>2 DEF Picks
  <2>2. Steps(step, R, CutState)
    BY SkippedType DEF Steps
  <2>3. \A s \in SUBSET R : pick[s] = Final(s)
    OBVIOUS
  <2>4. \A x \in R : \A v \in CutState : step[x][v] = Skipped(i, v, x)
    OBVIOUS
  <2> HIDE DEF pick, step, base
  <2>5. PICK h : IsFold(h, R, CutState, base, pick, step)
    BY <1>3, <1>4, <2>1, <2>2, FoldExists
  <2>6. ASSUME NEW s \in SUBSET R, s # {}
        PROVE  h[s] = Skipped(i, h[s \ {Final(s)}], Final(s))
    <3>1. s \ {Final(s)} \in SUBSET R /\ Final(s) \in R
      BY <1>2, <2>6
    <3>2. h[s] = step[Final(s)][h[s \ {Final(s)}]]
      BY <2>3, <2>5, <2>6 DEF IsFold
    <3> QED
      BY <2>4, <2>5, <3>1, <3>2 DEF IsFold
  <2>7. h = [s \in SUBSET R |-> h[s]] /\ h[{}] = base
    BY <2>5 DEF IsFold
  <2>8. Eq(h)
    BY <2>6, <2>7
  <2> HIDE DEF Eq
  <2> QED
    BY <2>8
<1>6. Eq(f)
  BY <1>5
<1> HIDE DEF f, base
<1>7. f[{}] = base
  BY <1>6
<1>8. \A s \in SUBSET R : s # {} => f[s] = Skipped(i, f[s \ {Final(s)}], Final(s))
  BY <1>6
<1> DEFINE Good == {s \in SUBSET R : CutSoFar(i, s, f[s])}
<1>9. {} \in Good
  <2>1. base.parts = {} /\ base.cursor = i.first /\ i.first \in Nat
    BY SpanFields DEF base
  <2>2. CutSoFar(i, {}, base)
    BY <1>4, <2>1 DEF CutSoFar, IsIn
  <2> QED
    BY <1>7, <2>2
<1>10. ASSUME NEW s \in SUBSET R, s # {}, s \ {Final(s)} \in Good PROVE s \in Good
  <2>1. CutSoFar(i, s, Skipped(i, f[s \ {Final(s)}], Final(s)))
    BY <1>10, SkippedStep
  <2> QED
    BY <1>8, <1>10, <2>1
<1> HIDE DEF Good
<1>11. \A s \in SUBSET R : s # {} => \E x \in s : s \ {x} \in Good => s \in Good
  BY <1>2, <1>10
<1>12. R \in Good
  BY <1>3, <1>9, <1>11, BuildUp
<1>13. CutSoFar(i, R, end)
  BY <1>12 DEF Good
<1>14. /\ end.parts \subseteq Span /\ end.cursor \in Nat
       /\ i.first \in Nat /\ i.last \in Nat /\ i.last <= 2^Width - 1 /\ i.first <= end.cursor
  BY <1>13, SpanFields, SpaceIsNat DEF CutSoFar, CutState
<1> HIDE DEF end
<1>15. rest \subseteq Span
  <2>1. CASE end.cursor <= i.last
    BY <1>14, <2>1, MakeSpan
  <2> QED
    BY <2>1
<1>16. ASSUME NEW a \in Nat
       PROVE  IsIn(a, Cut(i, R)) <=> i.first <= a /\ a <= i.last /\ ~ IsIn(a, R)
  <2>1. IsIn(a, rest) <=> end.cursor <= a /\ a <= i.last
    <3>1. CASE end.cursor <= i.last
      <4>1. rest = {[first |-> end.cursor, last |-> i.last]}
        BY <3>1
      <4> QED
        BY <4>1, IsInOne
    <3>2. CASE ~ (end.cursor <= i.last)
      <4>1. ~ IsIn(a, rest)
        BY <3>2, IsInOne
      <4> HIDE DEF rest
      <4> QED
        BY <1>14, <3>2, <4>1
    <3> QED
      BY <3>1, <3>2
  <2>2. IsIn(a, Cut(i, R)) <=> IsIn(a, end.parts) \/ IsIn(a, rest)
    <3> HIDE DEF rest
    <3> QED
      BY <1>1, IsInUnion
  <2> HIDE DEF rest
  <2> QED
    BY <1>13, <1>14, <2>1, <2>2 DEF CutSoFar
<1> QED
  BY <1>1, <1>14, <1>15, <1>16

\* What is left of the included ranges without the excluded ones.
LEMMA SubtractIsExact ==
  ASSUME NEW I, I \subseteq Span, NEW R, R \subseteq Span
  PROVE  /\ Subtract(I, R) \subseteq Span
         /\ \A a \in Nat : IsIn(a, Subtract(I, R)) <=> IsIn(a, I) /\ ~ IsIn(a, R)
<1>1. Subtract(I, R) \subseteq Span
  BY CutIsExact DEF Subtract
<1>2. ASSUME NEW a \in Nat
      PROVE  IsIn(a, Subtract(I, R)) <=> \E i \in I : IsIn(a, Cut(i, R))
  BY DEF Subtract, IsIn
<1>3. ASSUME NEW a \in Nat
      PROVE  (\E i \in I : IsIn(a, Cut(i, R))) <=> IsIn(a, I) /\ ~ IsIn(a, R)
  <2>1. \A i \in I : IsIn(a, Cut(i, R)) <=> i.first <= a /\ a <= i.last /\ ~ IsIn(a, R)
    BY CutIsExact
  <2>2. IsIn(a, I) <=> \E i \in I : i.first <= a /\ a <= i.last
    BY DEF IsIn
  <2> QED
    BY <2>1, <2>2
<1> QED
  BY <1>1, <1>2, <1>3

\* Reach of Covers: one more actual range.
Reached(e, sofar, a) ==
  IF sofar.verdict # "open" \/ a.last < sofar.cursor THEN sofar
  ELSE IF a.first > sofar.cursor THEN [sofar EXCEPT !.verdict = "gap"]
  ELSE IF a.last >= e.last THEN [sofar EXCEPT !.verdict = "covered"]
  ELSE [sofar EXCEPT !.cursor = a.last + 1]

CoverState == [verdict : {"open", "gap", "covered"}, cursor : 0 .. 2^Width]

\* The cursor is the first address of e that the ranges seen do not have; it is
\* a gap once a range begins behind it.
CoveredSoFar(e, A, v) ==
  /\ v \in CoverState
  /\ v.verdict = "covered" => \A b \in Nat : e.first <= b /\ b <= e.last => IsIn(b, A)
  /\ v.verdict # "covered" => e.first <= v.cursor /\ v.cursor <= e.last /\ ~ IsIn(v.cursor, A)
  /\ v.verdict = "gap" => \E a \in A : v.cursor < a.first
  /\ v.verdict = "open" =>
       /\ \A b \in Nat : e.first <= b /\ b < v.cursor => IsIn(b, A)
       /\ \A a \in A : a.last < v.cursor

LEMMA ReachedType ==
  ASSUME NEW e \in Span, NEW v \in CoverState, NEW a \in Span
  PROVE  Reached(e, v, a) \in CoverState
<1>1. a.last + 1 \in 0 .. 2^Width
  BY SpanFields, SpaceIsNat
<1> QED
  BY <1>1 DEF Reached, CoverState

LEMMA ReachedStep ==
  ASSUME NEW e \in Span, NEW A, A \subseteq Span, A # {},
         NEW v, CoveredSoFar(e, A \ {Final(A)}, v)
  PROVE  CoveredSoFar(e, A, Reached(e, v, Final(A)))
<1> DEFINE x == Final(A)
           Q == A \ {x}
           w == Reached(e, v, x)
<1>1. x \in A /\ \A q \in A : q.first <= x.first
  BY FinalIsLast, SpanFields
<1>2. A = Q \cup {x} /\ CoveredSoFar(e, Q, v)
  BY <1>1
<1>3. \A r \in A \cup {e} : r.first \in Nat /\ r.last \in Nat /\ r.first <= r.last
  BY SpanFields
<1>4. w \in CoverState
  BY <1>1, ReachedType DEF CoveredSoFar
<1> HIDE DEF x, Q
<1>5. \A b : IsIn(b, A) <=> IsIn(b, Q) \/ (x.first <= b /\ b <= x.last)
  BY <1>2 DEF IsIn
<1>6. v.cursor \in Nat /\ v.verdict \in {"open", "gap", "covered"}
  BY <1>2, SpaceIsNat DEF CoveredSoFar, CoverState
<1>7. v = [verdict |-> v.verdict, cursor |-> v.cursor]
  BY <1>2 DEF CoveredSoFar, CoverState
<1>8. x.first \in Nat /\ x.last \in Nat /\ x.first <= x.last
      /\ e.first \in Nat /\ e.last \in Nat /\ e.first <= e.last
  BY <1>1, <1>3
<1>9. CASE v.verdict = "covered"
  <2>1. w = v
    BY <1>9 DEF Reached
  <2>2. \A b \in Nat : e.first <= b /\ b <= e.last => IsIn(b, A)
    BY <1>2, <1>5, <1>9 DEF CoveredSoFar
  <2> HIDE DEF w
  <2> QED
    BY <1>4, <1>9, <2>1, <2>2 DEF CoveredSoFar, w, x
<1>10. CASE v.verdict = "gap"
  <2>1. w = v
    BY <1>10 DEF Reached
  <2>2. /\ e.first <= v.cursor /\ v.cursor <= e.last /\ ~ IsIn(v.cursor, Q)
        /\ \E a \in Q : v.cursor < a.first
    BY <1>2, <1>10 DEF CoveredSoFar
  <2>3. v.cursor < x.first
    BY <1>1, <1>2, <1>3, <1>6, <2>2
  <2>4. ~ IsIn(v.cursor, A)
    BY <1>5, <1>6, <1>8, <2>2, <2>3
  <2> HIDE DEF w
  <2> QED
    BY <1>1, <1>4, <1>10, <2>1, <2>2, <2>3, <2>4 DEF CoveredSoFar, w, x
<1>11. CASE v.verdict = "open"
  <2>1. /\ e.first <= v.cursor /\ v.cursor <= e.last /\ ~ IsIn(v.cursor, Q)
        /\ \A b \in Nat : e.first <= b /\ b < v.cursor => IsIn(b, Q)
        /\ \A a \in Q : a.last < v.cursor
    BY <1>2, <1>11 DEF CoveredSoFar
  <2>2. CASE x.last < v.cursor
    <3>1. w = v
      BY <2>2 DEF Reached
    <3>2. ~ IsIn(v.cursor, A)
      BY <1>5, <1>6, <1>8, <2>1, <2>2
    <3>3. /\ \A b \in Nat : e.first <= b /\ b < v.cursor => IsIn(b, A)
          /\ \A a \in A : a.last < v.cursor
      BY <1>2, <1>5, <2>1, <2>2
    <3> HIDE DEF w
    <3> QED
      BY <1>4, <1>11, <2>1, <3>1, <3>2, <3>3 DEF CoveredSoFar, w, x
  <2>3. CASE ~ (x.last < v.cursor) /\ x.first > v.cursor
    <3>1. w = [verdict |-> "gap", cursor |-> v.cursor]
      BY <1>7, <1>11, <2>3 DEF Reached
    <3>2. w.verdict = "gap" /\ w.cursor = v.cursor
      BY <3>1
    <3>3. ~ IsIn(v.cursor, A)
      BY <1>5, <1>6, <1>8, <2>1, <2>3
    <3> HIDE DEF w
    <3> QED
      BY <1>1, <1>4, <2>1, <2>3, <3>2, <3>3 DEF CoveredSoFar, w, x
  <2>4. CASE ~ (x.last < v.cursor) /\ ~ (x.first > v.cursor) /\ x.last >= e.last
    <3>1. w = [verdict |-> "covered", cursor |-> v.cursor]
      BY <1>7, <1>11, <2>4 DEF Reached
    <3>2. w.verdict = "covered"
      BY <3>1
    <3>3. ASSUME NEW b \in Nat, e.first <= b, b <= e.last PROVE IsIn(b, A)
      <4>1. b < v.cursor => IsIn(b, Q)
        BY <2>1, <3>3
      <4>2. ~ (b < v.cursor) => x.first <= b /\ b <= x.last
        BY <1>6, <1>8, <2>4, <3>3
      <4> QED
        BY <1>5, <4>1, <4>2
    <3> HIDE DEF w
    <3> QED
      BY <1>4, <3>2, <3>3 DEF CoveredSoFar, w, x
  <2>5. CASE ~ (x.last < v.cursor) /\ ~ (x.first > v.cursor) /\ ~ (x.last >= e.last)
    <3>1. w = [verdict |-> "open", cursor |-> x.last + 1]
      BY <1>7, <1>11, <2>5 DEF Reached
    <3>2. w.verdict = "open" /\ w.cursor = x.last + 1
      BY <3>1
    <3>3. ASSUME NEW b \in Nat, e.first <= b, b < x.last + 1 PROVE IsIn(b, A)
      <4>1. b < v.cursor => IsIn(b, Q)
        BY <2>1, <3>3
      <4>2. ~ (b < v.cursor) => x.first <= b /\ b <= x.last
        BY <1>6, <1>8, <2>5, <3>3
      <4> QED
        BY <1>5, <4>1, <4>2
    <3>4. \A a \in A : a.last < x.last + 1
      <4>1. \A a \in Q : a.last < x.last + 1
        BY <1>2, <1>3, <1>6, <1>8, <2>1, <2>5
      <4>2. x.last < x.last + 1
        BY <1>8
      <4> QED
        BY <1>2, <4>1, <4>2
    <3>5. ~ IsIn(x.last + 1, A)
      <4>1. \A a \in A : a.last \in Nat
        BY <1>3
      <4> QED
        BY <1>8, <3>4, <4>1 DEF IsIn
    <3>6. e.first <= x.last + 1 /\ x.last + 1 <= e.last
      BY <1>6, <1>8, <2>1, <2>5
    <3> HIDE DEF w
    <3> QED
      BY <1>4, <3>2, <3>3, <3>4, <3>5, <3>6 DEF CoveredSoFar, w, x
  <2> QED
    BY <2>2, <2>3, <2>4, <2>5
<1> QED
  BY <1>6, <1>9, <1>10, <1>11

\* The fold inside Covers.
Follows(e, actual) ==
  InOrder(LAMBDA sofar, a : Reached(e, sofar, a), [verdict |-> "open", cursor |-> e.first], actual)

\* Covers follows one expected range through the actual ones.
LEMMA FollowsIsExact ==
  ASSUME NEW e \in Span, NEW R, R \subseteq Span
  PROVE  CoveredSoFar(e, R, Follows(e, R))
<1> DEFINE base == [verdict |-> "open", cursor |-> e.first]
           Eq(h) == h = [s \in SUBSET R |->
                           IF s = {} THEN base ELSE Reached(e, h[s \ {Final(s)}], Final(s))]
           f == CHOOSE h : Eq(h)
<1>1. Follows(e, R) = f[R]
  BY DEF Follows, InOrder, MapThenFoldSet
<1>2. \A s \in SUBSET R : s # {} => Final(s) \in s
  BY FinalIsLast
<1>3. IsFiniteSet(R)
  BY SpansAreFinite
<1>4. base \in CoverState
  BY SpanFields, SpaceIsNat DEF CoverState
<1>5. \E h : Eq(h)
  <2> DEFINE pick == [s \in SUBSET R |-> Final(s)]
             step == [x \in R |-> [v \in CoverState |-> Reached(e, v, x)]]
  <2>1. Picks(pick, R)
    BY <1>2 DEF Picks
  <2>2. Steps(step, R, CoverState)
    BY ReachedType DEF Steps
  <2>3. \A s \in SUBSET R : pick[s] = Final(s)
    OBVIOUS
  <2>4. \A x \in R : \A v \in CoverState : step[x][v] = Reached(e, v, x)
    OBVIOUS
  <2> HIDE DEF pick, step, base
  <2>5. PICK h : IsFold(h, R, CoverState, base, pick, step)
    BY <1>3, <1>4, <2>1, <2>2, FoldExists
  <2>6. ASSUME NEW s \in SUBSET R, s # {}
        PROVE  h[s] = Reached(e, h[s \ {Final(s)}], Final(s))
    <3>1. s \ {Final(s)} \in SUBSET R /\ Final(s) \in R
      BY <1>2, <2>6
    <3>2. h[s] = step[Final(s)][h[s \ {Final(s)}]]
      BY <2>3, <2>5, <2>6 DEF IsFold
    <3> QED
      BY <2>4, <2>5, <3>1, <3>2 DEF IsFold
  <2>7. h = [s \in SUBSET R |-> h[s]] /\ h[{}] = base
    BY <2>5 DEF IsFold
  <2>8. Eq(h)
    BY <2>6, <2>7
  <2> HIDE DEF Eq
  <2> QED
    BY <2>8
<1>6. Eq(f)
  BY <1>5
<1> HIDE DEF f, base
<1>7. f[{}] = base
  BY <1>6
<1>8. \A s \in SUBSET R : s # {} => f[s] = Reached(e, f[s \ {Final(s)}], Final(s))
  BY <1>6
<1> DEFINE Good == {s \in SUBSET R : CoveredSoFar(e, s, f[s])}
<1>9. {} \in Good
  <2>1. /\ base.verdict = "open" /\ base.cursor = e.first
        /\ e.first \in Nat /\ e.last \in Nat /\ e.first <= e.last
    BY SpanFields DEF base
  <2>2. CoveredSoFar(e, {}, base)
    BY <1>4, <2>1 DEF CoveredSoFar, IsIn
  <2> QED
    BY <1>7, <2>2
<1>10. ASSUME NEW s \in SUBSET R, s # {}, s \ {Final(s)} \in Good PROVE s \in Good
  <2>1. CoveredSoFar(e, s, Reached(e, f[s \ {Final(s)}], Final(s)))
    BY <1>10, ReachedStep
  <2> QED
    BY <1>8, <1>10, <2>1
<1> HIDE DEF Good
<1>11. \A s \in SUBSET R : s # {} => \E x \in s : s \ {x} \in Good => s \in Good
  BY <1>2, <1>10
<1>12. R \in Good
  BY <1>3, <1>9, <1>11, BuildUp
<1> QED
  BY <1>1, <1>12 DEF Good

\* Covers holds exactly when no expected address is missing.
LEMMA CoversIsExact ==
  ASSUME NEW A, A \subseteq Span, NEW E, E \subseteq Span
  PROVE  Covers(A, E) <=> \A a \in Nat : IsIn(a, E) => IsIn(a, A)
<1>1. Covers(A, E) <=> \A e \in E : Follows(e, A).verdict = "covered"
  BY DEF Covers, Follows, Reached
<1>2. ASSUME NEW e \in E
      PROVE  Follows(e, A).verdict = "covered"
               <=> \A a \in Nat : e.first <= a /\ a <= e.last => IsIn(a, A)
  <2> DEFINE v == Follows(e, A)
  <2>1. CoveredSoFar(e, A, v)
    BY FollowsIsExact
  <2>2. e.first \in Nat /\ e.last \in Nat
    BY SpanFields
  <2> HIDE DEF v
  <2>3. CASE v.verdict = "covered"
    BY <2>1, <2>3 DEF CoveredSoFar, v
  <2>4. CASE v.verdict # "covered"
    <3>1. v.cursor \in Nat /\ e.first <= v.cursor /\ v.cursor <= e.last /\ ~ IsIn(v.cursor, A)
      BY <2>1, <2>4, SpaceIsNat DEF CoveredSoFar, CoverState
    <3> QED
      BY <2>4, <3>1 DEF v
  <2> QED
    BY <2>3, <2>4
<1>3. (\A a \in Nat : IsIn(a, E) => IsIn(a, A))
        <=> \A e \in E : \A a \in Nat : e.first <= a /\ a <= e.last => IsIn(a, A)
  BY DEF IsIn
<1> QED
  BY <1>1, <1>2, <1>3

\* The length of a range is the number of its addresses.
LEMMA LengthCounts ==
  ASSUME NEW r \in Span
  PROVE  /\ IsFiniteSet(r.first .. r.last)
         /\ Cardinality(r.first .. r.last) = Length(r) /\ Length(r) \in Nat
<1>1. r.first \in Int /\ r.last \in Int /\ ~ (r.first > r.last)
  BY SpanFields
<1>2. IsFiniteSet(r.first .. r.last) /\ Cardinality(r.first .. r.last) = r.last - r.first + 1
  BY <1>1, FS_Interval
<1>3. Length(r) = r.last - r.first + 1 /\ Length(r) \in Nat
  BY SpanFields DEF Length
<1> QED
  BY <1>2, <1>3

\* Ranges that are apart share no address, so the sum of their lengths counts them.
LEMMA SumCounts ==
  ASSUME NEW N, N \subseteq Span, Apart(N)
  PROVE  /\ IsFiniteSet(Addresses(N))
         /\ MapThenFoldSet(+, 0, Length, Final, N) = Cardinality(Addresses(N))
<1> DEFINE Eq(h) == h = [s \in SUBSET N |->
                           IF s = {} THEN 0 ELSE Length(Final(s)) + h[s \ {Final(s)}]]
           f == CHOOSE h : Eq(h)
<1>1. MapThenFoldSet(+, 0, Length, Final, N) = f[N]
  BY DEF MapThenFoldSet
<1>2. \A s \in SUBSET N : s # {} => Final(s) \in s
  BY FinalIsLast
<1>3. IsFiniteSet(N)
  BY SpansAreFinite
<1>4. \E h : Eq(h)
  <2> DEFINE pick == [s \in SUBSET N |-> Final(s)]
             step == [x \in N |-> [v \in Nat |-> Length(x) + v]]
  <2>1. Picks(pick, N)
    BY <1>2 DEF Picks
  <2>2. Steps(step, N, Nat)
    BY LengthCounts DEF Steps
  <2>3. \A s \in SUBSET N : pick[s] = Final(s)
    OBVIOUS
  <2>4. \A x \in N : \A v \in Nat : step[x][v] = Length(x) + v
    OBVIOUS
  <2>5. 0 \in Nat
    OBVIOUS
  <2> HIDE DEF pick, step
  <2>6. PICK h : IsFold(h, N, Nat, 0, pick, step)
    BY <1>3, <2>1, <2>2, <2>5, FoldExists
  <2>7. ASSUME NEW s \in SUBSET N, s # {}
        PROVE  h[s] = Length(Final(s)) + h[s \ {Final(s)}]
    <3>1. s \ {Final(s)} \in SUBSET N /\ Final(s) \in N
      BY <1>2, <2>7
    <3>2. h[s] = step[Final(s)][h[s \ {Final(s)}]]
      BY <2>3, <2>6, <2>7 DEF IsFold
    <3> QED
      BY <2>4, <2>6, <3>1, <3>2 DEF IsFold
  <2>8. h = [s \in SUBSET N |-> h[s]] /\ h[{}] = 0
    BY <2>6 DEF IsFold
  <2>9. Eq(h)
    BY <2>7, <2>8
  <2> HIDE DEF Eq
  <2> QED
    BY <2>9
<1>5. Eq(f)
  BY <1>4
<1> HIDE DEF f
<1>6. f[{}] = 0
  BY <1>5
<1>7. \A s \in SUBSET N : s # {} => f[s] = Length(Final(s)) + f[s \ {Final(s)}]
  BY <1>5
<1> DEFINE Good == {s \in SUBSET N : /\ IsFiniteSet(Addresses(s))
                                     /\ f[s] = Cardinality(Addresses(s))}
<1>8. {} \in Good
  <2>1. Addresses({}) = {}
    BY DEF Addresses
  <2> QED
    BY <1>6, <2>1, FS_EmptySet
<1>9. ASSUME NEW s \in SUBSET N, s # {}, s \ {Final(s)} \in Good PROVE s \in Good
  <2> DEFINE x == Final(s)
             q == s \ {x}
             X == x.first .. x.last
  <2>1. x \in s /\ x \in Span /\ q \subseteq Span
    BY <1>2, <1>9
  <2>2. Addresses(s) = Addresses(q) \cup X
    BY <2>1 DEF Addresses
  <2>3. Addresses(q) \cap X = {}
    <3> SUFFICES ASSUME NEW a \in Addresses(q), a \in X PROVE FALSE
      OBVIOUS
    <3>1. PICK r \in q : a \in r.first .. r.last
      BY DEF Addresses
    <3>2. r.last + 1 < x.first \/ x.last + 1 < r.first
      BY <2>1 DEF Apart
    <3>3. r.first \in Nat /\ r.last \in Nat /\ x.first \in Nat /\ x.last \in Nat
      BY <2>1, SpanFields
    <3> HIDE DEF x, q
    <3> QED
      BY <3>1, <3>2, <3>3
  <2>4. IsFiniteSet(X) /\ Cardinality(X) = Length(x) /\ Length(x) \in Nat
    BY <2>1, LengthCounts
  <2>5. IsFiniteSet(Addresses(q)) /\ f[q] = Cardinality(Addresses(q))
    BY <1>9
  <2>6. /\ IsFiniteSet(Addresses(q) \cup X)
        /\ Cardinality(Addresses(q) \cup X)
             = Cardinality(Addresses(q)) + Cardinality(X) - Cardinality(Addresses(q) \cap X)
    BY <2>4, <2>5, FS_Union
  <2>7. Cardinality(Addresses(q) \cap X) = 0
    BY <2>3, FS_EmptySet
  <2>8. f[s] = Length(x) + f[q]
    BY <1>7, <1>9
  <2>9. Cardinality(Addresses(q)) \in Nat
    BY <2>5, FS_CardinalityType
  <2> HIDE DEF X, q, x
  <2>10. f[s] = Cardinality(Addresses(q) \cup X)
    BY <2>4, <2>5, <2>6, <2>7, <2>8, <2>9
  <2> QED
    BY <1>9, <2>2, <2>6, <2>10
<1> HIDE DEF Good
<1>10. \A s \in SUBSET N : s # {} => \E x \in s : s \ {x} \in Good => s \in Good
  BY <1>2, <1>9
<1>11. N \in Good
  BY <1>3, <1>8, <1>10, BuildUp
<1> QED
  BY <1>1, <1>11 DEF Good

\* Coverage counts every address once, however the ranges overlap.
THEOREM CoverageCountsAddresses ==
  ASSUME NEW R, R \subseteq Span
  PROVE  Coverage(R) = Cardinality(Addresses(R))
<1>1. Merged(R, Normalized(R))
  BY NormalizedMerges
<1>2. Normalized(R) \subseteq Span /\ Apart(Normalized(R))
  BY <1>1 DEF Merged
<1>3. Coverage(R) = Cardinality(Addresses(Normalized(R)))
  BY <1>2, SumCounts DEF Coverage
<1>4. Addresses(Normalized(R)) = Addresses(R)
  BY <1>1, <1>2, IsAddress DEF Merged
<1> QED
  BY <1>3, <1>4

----------------------------------------------------------------------------
(* What is in the way *)

\* Routes stand for ranges.
LEMMA RoutesAreSpans ==
  ASSUME NEW rs, rs \subseteq Route, NEW family
  PROVE  Of(rs, family) \subseteq Span
<1> SUFFICES ASSUME NEW r \in rs PROVE [first |-> r.first, last |-> r.last] \in Span
  BY DEF Of
<1>1. r.first \in Address /\ r.last \in Address /\ r.first <= r.last
  BY DEF Route
<1> QED
  BY <1>1 DEF Span

\* Half of the addresses, or a quarter of IPv6 in one route, are counted exactly.
LEMMA CaptureIsExact ==
  ASSUME NEW rs, rs \subseteq Route
  PROVE  PublicCapture(rs) <=>
           \/ 2 * Cardinality(Addresses(Of(rs, 4))) >= Cardinality(Address)
           \/ \E r \in Of(rs, 6) : 4 * Cardinality(Addresses({r})) >= Cardinality(Address)
<1>1. Cardinality(Address) = 2^Width
  <2>1. 0 \in Int /\ 2^Width - 1 \in Int /\ ~ (0 > 2^Width - 1)
    BY SpaceIsNat
  <2>2. Cardinality(0 .. 2^Width - 1) = 2^Width - 1 - 0 + 1
    BY <2>1, FS_Interval
  <2> QED
    BY <2>2, SpaceIsNat DEF Address
<1>2. Coverage(Of(rs, 4)) = Cardinality(Addresses(Of(rs, 4)))
  BY RoutesAreSpans, CoverageCountsAddresses
<1>3. ASSUME NEW r \in Of(rs, 6)
      PROVE  Length(r) >= 2^(Width - 2) <=> 4 * Cardinality(Addresses({r})) >= 2^Width
  <2>1. r \in Span
    BY RoutesAreSpans
  <2>2. Addresses({r}) = r.first .. r.last
    BY DEF Addresses
  <2>3. Cardinality(Addresses({r})) = Length(r) /\ Length(r) \in Nat
    BY <2>1, <2>2, LengthCounts
  <2> QED
    BY <2>3, SpaceIsNat
<1> QED
  BY <1>1, <1>2, <1>3 DEF PublicCapture, CapturesGlobalIpv6

\* What evaluate_conflicts looks for in one reading.
Harmless(l, rs) ==
  /\ \A a \in Owned : l[a] # "up"
  /\ \A a \in Virtual : l[a] = "up" => ~ PublicCapture(rs[a])

Conflicting(b) == b.address \in {Required, "any"}

Unbound(listeners) == \A b \in listeners : ~ Conflicting(b)

LEMMA ObstructedIs ==
  ASSUME NEW s \in Reading
  PROVE  ~ Obstructed(s) <=> Harmless(s.life, s.routes) /\ Unbound(s.bound)
<1>1. \A a \in Virtual : s.routes[a] \subseteq Route
  BY DEF Reading, Adapter
<1> QED
  BY <1>1, CaptureIsExact DEF Obstructed, Harmless, Unbound, Conflicting

LEMMA ConflictsAre ==
  ASSUME NEW s
  PROVE  ConflictingListeners(s) = {} <=> Unbound(s.bound)
BY DEF ConflictingListeners, AddressesConflict, Unbound, Conflicting, Required

\* An adapter that is not there has no routes.
Tidy(s) == \A a \in Adapter : s.life[a] = "absent" => s.routes[a] = {}

----------------------------------------------------------------------------
(* Types *)

LEMMA NoTablesType == NoTables \in Reading
BY DEF NoTables, NoAdapters, NoRoutes, Reading

LEMMA TablesType ==
  Tables \in Reading <=>
    /\ life \in [Adapter -> {"absent", "down", "up"}]
    /\ routes \in [Adapter -> SUBSET Route]
    /\ bound \in SUBSET Listener
BY DEF Tables, Reading

LEMMA TablesTypeNext ==
  Tables' \in Reading <=>
    /\ life' \in [Adapter -> {"absent", "down", "up"}]
    /\ routes' \in [Adapter -> SUBSET Route]
    /\ bound' \in SUBSET Listener
BY DEF Tables, Reading

\* Other software leaves the tables well-formed.
LEMMA ChangeType ==
  ASSUME GateTypeOK, Change
  PROVE  Tables' \in Reading /\ Tidy(Tables')
<1>1. /\ life \in [Adapter -> {"absent", "down", "up"}]
      /\ routes \in [Adapter -> SUBSET Route]
      /\ bound \in SUBSET Listener
      /\ \A a \in Adapter : life[a] = "absent" => routes[a] = {}
  BY TablesType DEF GateTypeOK
<1> DEFINE Good == /\ life' \in [Adapter -> {"absent", "down", "up"}]
                   /\ routes' \in [Adapter -> SUBSET Route]
                   /\ bound' \in SUBSET Listener
                   /\ \A a \in Adapter : life'[a] = "absent" => routes'[a] = {}
<1>2. Good
  <2>1. CASE \E b \in Listener :
               /\ bound' = IF b \in bound THEN bound \ {b} ELSE bound \cup {b}
               /\ UNCHANGED <<life, routes>>
    BY <1>1, <2>1
  <2>2. ASSUME NEW a \in Adapter, NEW l \in {"absent", "down", "up"},
               NEW rs \in RouteSets[a] \cup {{}}, l = "absent" => rs = {},
               life' = [life EXCEPT ![a] = l], routes' = [routes EXCEPT ![a] = rs], bound' = bound
        PROVE  Good
    <3>1. rs \subseteq Route
      BY GateAssumption
    <3> QED
      BY <1>1, <2>2, <3>1
  <2> QED
    BY <2>1, <2>2 DEF Change
<1>3. Tables' = [life |-> life', routes |-> routes', bound |-> bound']
  BY DEF Tables
<1> QED
  BY <1>2, <1>3, TablesTypeNext DEF Tidy

\* One more table of a reading.
LEMMA ReadType ==
  ASSUME NEW s \in Reading, NEW table, Tables \in Reading
  PROVE  Read(s, table) \in Reading
BY TablesType DEF Read, Reading

LEMMA TypeInit == Init => GateTypeOK
<1> SUFFICES ASSUME Init PROVE GateTypeOK
  OBVIOUS
<1>1. Tables = NoTables
  BY DEF Init, Tables, NoTables
<1>2. Tables \in Reading /\ first \in Reading /\ second \in Reading
  BY <1>1, NoTablesType DEF Init
<1>3. \A a \in Adapter : life[a] = "absent" => routes[a] = {}
  BY DEF Init, NoAdapters, NoRoutes
<1>4. changes \in 0 .. MaxChanges
  BY GateAssumption DEF Init
<1>5. needs6 \in BOOLEAN /\ ~ needs6 /\ whole \in BOOLEAN
  BY DEF Init
<1>6. /\ phase = "idle" /\ reads = 0 /\ first = NoTables /\ second = NoTables
      /\ excluded = {}
  BY DEF Init
<1> QED
  BY <1>2, <1>3, <1>4, <1>5, <1>6 DEF GateTypeOK

\* What Mihomo and Windows do to the own adapter.
LEMMA TunChangeType ==
  ASSUME GateTypeOK, TunChanges
  PROVE  Tables' \in Reading /\ Tidy(Tables')
<1>1. /\ life \in [Adapter -> {"absent", "down", "up"}]
      /\ routes \in [Adapter -> SUBSET Route]
      /\ bound \in SUBSET Listener
      /\ \A a \in Adapter : life[a] = "absent" => routes[a] = {}
  BY TablesType DEF GateTypeOK
<1> DEFINE Good == /\ life' \in [Adapter -> {"absent", "down", "up"}]
                   /\ routes' \in [Adapter -> SUBSET Route]
                   /\ bound' \in SUBSET Listener
                   /\ \A a \in Adapter : life'[a] = "absent" => routes'[a] = {}
<1>2. bound' = bound /\ Owned \subseteq Adapter
  BY DEF TunChanges, Adapter
<1>3. ASSUME NEW a \in Owned, NEW l \in {"absent", "down", "up"},
             life' = [life EXCEPT ![a] = l],
             routes' = IF l = "absent" THEN [routes EXCEPT ![a] = {}] ELSE routes,
             life[a] # l
      PROVE  Good
  <2>1. CASE l = "absent"
    <3>1. routes' = [routes EXCEPT ![a] = {}]
      BY <1>3, <2>1
    <3> QED
      BY <1>1, <1>2, <1>3, <2>1, <3>1
  <2>2. CASE l # "absent"
    <3>1. routes' = routes
      BY <1>3, <2>2
    <3> QED
      BY <1>1, <1>2, <1>3, <2>2, <3>1
  <2> QED
    BY <2>1, <2>2
<1>4. ASSUME NEW a \in Owned, life[a] = "up", UNCHANGED life, NEW r \in TunRoutes,
             routes' = [routes EXCEPT ![a] =
                          IF r \in routes[a] THEN routes[a] \ {r} ELSE routes[a] \cup {r}]
      PROVE  Good
  <2>1. routes[a] \subseteq Route /\ r \in Route
    BY <1>1, <1>2, GateAssumption
  <2> QED
    BY <1>1, <1>2, <1>4, <2>1
<1>5. Good
  BY <1>3, <1>4 DEF TunChanges
<1>6. Tables' = [life |-> life', routes |-> routes', bound |-> bound']
  BY DEF Tables
<1> QED
  BY <1>5, <1>6, TablesTypeNext DEF Tidy

LEMMA TypeStep == GateTypeOK /\ [Next]_vars => GateTypeOK'
<1> SUFFICES ASSUME GateTypeOK, [Next]_vars PROVE GateTypeOK'
  OBVIOUS
<1> USE GateAssumption DEF GateTypeOK
<1>1. CASE ChangeBefore
  <2>1. Tables' \in Reading /\ Tidy(Tables')
    BY <1>1, ChangeType DEF ChangeBefore
  <2>2. \A a \in Adapter : life'[a] = "absent" => routes'[a] = {}
    BY <2>1 DEF Tidy, Tables
  <2> QED
    BY <1>1, <2>1, <2>2 DEF ChangeBefore, Change, history
<1>2. CASE ChangeDuring
  <2>1. Tables' \in Reading /\ Tidy(Tables')
    BY <1>2, ChangeType DEF ChangeDuring
  <2>2. \A a \in Adapter : life'[a] = "absent" => routes'[a] = {}
    BY <2>1 DEF Tidy, Tables
  <2> QED
    BY <1>2, <2>1, <2>2 DEF ChangeDuring, Change
<1>3. CASE BeginCapture
  BY <1>3 DEF BeginCapture, tables, Tables
<1>4. CASE ReadFirst
  <2>1. first' \in Reading
    BY <1>4, ReadType DEF ReadFirst
  <2>2. Tables' = Tables
    BY <1>4 DEF ReadFirst, tables, Tables
  <2> QED
    BY <1>4, <2>1, <2>2 DEF ReadFirst, tables, history
<1>5. CASE ReadSecond
  <2>1. second' \in Reading
    BY <1>5, ReadType DEF ReadSecond
  <2>2. Tables' = Tables
    BY <1>5 DEF ReadSecond, tables, Tables
  <2> QED
    BY <1>5, <2>1, <2>2 DEF ReadSecond, tables, history
<1>6. CASE Evaluate
  <2>1. Tables' = Tables
    BY <1>6 DEF Evaluate, tables, Tables
  <2> QED
    BY <1>6, <2>1, NoTablesType DEF Evaluate, tables, history
<1>7. CASE LaunchCore
  <2>1. Tables' = NoTables
    BY <1>7 DEF LaunchCore, Tables, NoTables
  <2> QED
    BY <1>7, <2>1, NoTablesType DEF LaunchCore, NoAdapters, NoRoutes
<1>8. CASE TunChanges
  <2>1. Tables' \in Reading /\ Tidy(Tables')
    BY <1>8, TunChangeType
  <2>2. \A a \in Adapter : life'[a] = "absent" => routes'[a] = {}
    BY <2>1 DEF Tidy, Tables
  <2>3. whole' \in BOOLEAN
    BY <1>8 DEF TunChanges
  <2>4. UNCHANGED <<phase, reads, first, second, needs6, excluded, changes>>
    BY <1>8 DEF TunChanges
  <2> QED
    BY <2>1, <2>2, <2>3, <2>4
<1>9. CASE LookAtTun
  <2>1. first' \in Reading
    BY <1>9, ReadType DEF LookAtTun
  <2>2. Tables' = Tables
    BY <1>9 DEF LookAtTun, tables, Tables
  <2>3. whole' \in BOOLEAN
    BY <1>9 DEF LookAtTun, TunTakesAll
  <2> QED
    BY <1>9, <2>1, <2>2, <2>3 DEF LookAtTun, tables
<1>10. CASE EndLook
  <2>1. Tables' = Tables /\ UNCHANGED <<life, routes>>
    BY <1>10 DEF EndLook, tables, Tables
  <2>2. /\ phase = "wait" /\ phase' \in {"wait", "connected"}
        /\ first' = NoTables /\ reads' = 0 /\ whole' \in BOOLEAN
        /\ UNCHANGED <<second, needs6, excluded, changes>>
    BY <1>10 DEF EndLook
  <2>3. needs6' \in BOOLEAN /\ (phase' \notin {"approved", "wait", "connected"} => ~ needs6')
    BY <2>2
  <2> QED
    BY <2>1, <2>2, <2>3, NoTablesType
<1>11. CASE Over
  <2>1. Tables' = NoTables
    BY <1>11 DEF Over, Tables, NoTables
  <2>2. needs6' \in BOOLEAN /\ ~ needs6' /\ whole' \in BOOLEAN
    BY <1>11 DEF Over
  <2>3. /\ phase' = "idle" /\ reads' = 0 /\ first' = NoTables /\ second' = NoTables
        /\ excluded' = {} /\ changes' = 0
    BY <1>11 DEF Over
  <2>4. \A a \in Adapter : life'[a] = "absent" => routes'[a] = {}
    BY <1>11 DEF Over, NoAdapters, NoRoutes
  <2> QED
    BY <2>1, <2>2, <2>3, <2>4, NoTablesType
<1>12. CASE UNCHANGED vars
  <2>1. Tables' = Tables
    BY <1>12 DEF vars, tables, Tables
  <2> QED
    BY <1>12, <2>1 DEF vars, tables, history
<1> QED
  BY <1>1, <1>2, <1>3, <1>4, <1>5, <1>6, <1>7, <1>8, <1>9, <1>10, <1>11, <1>12 DEF Next

\* A reading, and what was concluded from it, lives no longer than its attempt.
THEOREM GateTypeCorrect == Spec => []GateTypeOK
BY TypeInit, TypeStep, PTL DEF Spec

----------------------------------------------------------------------------
(* The TUN *)

\* The comparison of one family's addresses.
LEMMA ReadyIsExact ==
  ASSUME NEW included, included \subseteq Span, NEW without, without \subseteq Span,
         NEW actual, actual \subseteq Span
  PROVE  Covers(Normalized(actual), Subtract(Normalized(included), Normalized(without)))
           <=> Addresses(included) \ Addresses(without) \subseteq Addresses(actual)
<1>1. /\ Merged(included, Normalized(included)) /\ Merged(without, Normalized(without))
      /\ Merged(actual, Normalized(actual))
  BY NormalizedMerges
<1> DEFINE I == Normalized(included)
           W == Normalized(without)
           A == Normalized(actual)
           E == Subtract(I, W)
<1>2. I \subseteq Span /\ W \subseteq Span /\ A \subseteq Span
  BY <1>1 DEF Merged
<1>3. \A a \in Nat : /\ IsIn(a, I) <=> IsIn(a, included)
                     /\ IsIn(a, W) <=> IsIn(a, without)
                     /\ IsIn(a, A) <=> IsIn(a, actual)
  BY <1>1 DEF Merged
<1> HIDE DEF I, W, A
<1>4. E \subseteq Span /\ \A a \in Nat : IsIn(a, E) <=> IsIn(a, I) /\ ~ IsIn(a, W)
  BY <1>2, SubtractIsExact
<1> HIDE DEF E
<1>5. Covers(A, E) <=> \A a \in Nat : IsIn(a, E) => IsIn(a, A)
  BY <1>2, <1>4, CoversIsExact
<1>6. Addresses(included) \ Addresses(without) \subseteq Addresses(actual)
        <=> \A a \in Nat : IsIn(a, included) /\ ~ IsIn(a, without) => IsIn(a, actual)
  <2>1. \A a : /\ a \in Addresses(included) <=> a \in Nat /\ IsIn(a, included)
               /\ a \in Addresses(without) <=> a \in Nat /\ IsIn(a, without)
               /\ a \in Addresses(actual) <=> a \in Nat /\ IsIn(a, actual)
    BY IsAddress
  <2> QED
    BY <2>1
<1> QED
  BY <1>3, <1>4, <1>5, <1>6 DEF I, W, A, E

\* The comparison of the routes with what the configuration asks for.
LEMMA CompleteIsExact ==
  ASSUME GateTypeOK, NEW rs, rs \subseteq Route
  PROVE  HasCompletePublicCapture(rs) <=> TakesAll(rs)
<1>1. excluded \subseteq Route /\ RouteAddress \subseteq Route
  BY GateAssumption DEF GateTypeOK
<1>2. ASSUME NEW family \in {4, 6}
      PROVE  ( /\ Normalized(Of(RouteAddress, family)) # {}
               /\ Covers(Normalized(Of(rs, family)),
                         Subtract(Normalized(Of(RouteAddress, family)),
                                  Normalized(Of(excluded, family)))) )
             <=> Addresses(Of(RouteAddress, family)) \ Addresses(Of(excluded, family))
                   \subseteq Addresses(Of(rs, family))
  <2>1. /\ Of(RouteAddress, family) \subseteq Span /\ Of(excluded, family) \subseteq Span
        /\ Of(rs, family) \subseteq Span
    BY <1>1, RoutesAreSpans
  <2>2. Normalized(Of(RouteAddress, family)) # {}
    <3>1. PICK r \in Of(RouteAddress, family) : TRUE
      BY GateAssumption
    <3>2. r.first \in Nat /\ r.first <= r.first /\ r.first <= r.last
      BY <2>1, SpanFields
    <3>3. IsIn(r.first, Of(RouteAddress, family))
      BY <3>2 DEF IsIn
    <3>4. IsIn(r.first, Normalized(Of(RouteAddress, family)))
      BY <2>1, <3>2, <3>3, NormalizedMerges DEF Merged
    <3> QED
      BY <3>4 DEF IsIn
  <2> QED
    BY <2>1, <2>2, ReadyIsExact
<1> DEFINE Ready(family) ==
             /\ Normalized(Of(RouteAddress, family)) # {}
             /\ Covers(Normalized(Of(rs, family)),
                       Subtract(Normalized(Of(RouteAddress, family)),
                                Normalized(Of(excluded, family))))
<1>3. HasCompletePublicCapture(rs)
        <=> \A family \in {4, 6} : (family = 6 /\ ~ needs6) \/ Ready(family)
  BY DEF HasCompletePublicCapture
<1>4. HasCompletePublicCapture(rs)
        <=> \A family \in IF needs6 THEN {4, 6} ELSE {4} : Ready(family)
  <2> HIDE DEF Ready
  <2> QED
    BY <1>3 DEF GateTypeOK
<1> QED
  BY <1>2, <1>4 DEF TakesAll

\* Who takes all addresses without any route takes them with every one.
LEMMA NoneTakesLess ==
  ASSUME NEW rs, TakesAll({})
  PROVE  TakesAll(rs)
<1>1. \A family : Addresses(Of({}, family)) = {}
  BY DEF Addresses, Of
<1> QED
  BY <1>1 DEF TakesAll

\* Since the look began the TUN was once as it should be, if it was up then and
\* has all routes now: it gets a route only while it is up.
LookInvariant ==
  /\ GateTypeOK
  /\ phase = "wait" /\ reads = 1 =>
       /\ TunTakesAll(Tables) => whole
       /\ \A a \in Owned : first.life[a] = "up" /\ TakesAll(routes[a]) => whole

LEMMA LookStep == LookInvariant /\ [Next]_vars => LookInvariant'
<1> SUFFICES ASSUME LookInvariant, [Next]_vars PROVE LookInvariant'
  OBVIOUS
<1>1. GateTypeOK /\ GateTypeOK'
  BY TypeStep DEF LookInvariant
<1>2. CASE TunChanges /\ reads = 1
  <2>1. /\ phase = "wait" /\ UNCHANGED <<first, needs6, excluded>>
        /\ whole' <=> whole \/ TunTakesAll(Tables')
    BY <1>2 DEF TunChanges
  <2>2. \A rs : TakesAll(rs)' <=> TakesAll(rs)
    BY <2>1 DEF TakesAll
  <2>3. /\ TunTakesAll(Tables)' <=> TunTakesAll(Tables')
        /\ TunTakesAll(Tables') <=> \E a \in Owned : life'[a] = "up" /\ TakesAll(routes'[a])
    BY <2>1 DEF TunTakesAll, TakesAll, Tables
  <2>4. ASSUME NEW a \in Owned, first.life[a] = "up", TakesAll(routes'[a])
        PROVE  whole'
    <3>1. TakesAll(routes[a]) => whole
      BY <1>2, <2>1, <2>4 DEF LookInvariant
    <3>2. CASE routes'[a] = routes[a]
      BY <2>1, <2>4, <3>1, <3>2
    <3>3. CASE routes'[a] = {}
      BY <2>1, <2>4, <3>1, <3>3, NoneTakesLess
    <3>4. CASE life'[a] = "up"
      BY <2>1, <2>3, <2>4, <3>4
    <3>5. routes'[a] = routes[a] \/ routes'[a] = {} \/ life'[a] = "up"
      <4>1. routes \in [Adapter -> SUBSET Route] /\ a \in Adapter
        BY <1>1, TablesType DEF GateTypeOK, Adapter
      <4>2. PICK b \in Owned :
              \/ routes' = routes \/ routes' = [routes EXCEPT ![b] = {}]
              \/ /\ life[b] = "up" /\ UNCHANGED life
                 /\ \E r \in TunRoutes :
                      routes' = [routes EXCEPT ![b] =
                                   IF r \in routes[b] THEN routes[b] \ {r}
                                                      ELSE routes[b] \cup {r}]
        BY <1>2 DEF TunChanges
      <4>3. CASE a = b
        BY <4>1, <4>2, <4>3
      <4>4. CASE a # b
        BY <4>1, <4>2, <4>4
      <4> QED
        BY <4>3, <4>4
    <3> QED
      BY <3>2, <3>3, <3>4, <3>5
  <2>5. TunTakesAll(Tables)' => whole'
    BY <2>1, <2>3
  <2>6. \A a \in Owned : first'.life[a] = "up" /\ TakesAll(routes[a])' => whole'
    <3>1. \A a \in Owned : TakesAll(routes[a])' <=> TakesAll(routes'[a])
      BY <2>1 DEF TakesAll
    <3> QED
      BY <2>1, <2>4, <3>1
  <2> QED
    BY <1>1, <2>5, <2>6 DEF LookInvariant
<1>3. CASE LookAtTun
  <2>1. /\ UNCHANGED <<life, routes, needs6, excluded>>
        /\ first'.life = life /\ whole' = TunTakesAll(Tables)
    BY <1>3 DEF LookAtTun, Read, tables
  <2>2. \A a \in Owned : TakesAll(routes[a])' <=> TakesAll(routes[a])
    BY <2>1 DEF TakesAll
  <2>3. /\ TunTakesAll(Tables)' <=> TunTakesAll(Tables)
        /\ TunTakesAll(Tables) <=> \E a \in Owned : life[a] = "up" /\ TakesAll(routes[a])
    BY <2>1 DEF TunTakesAll, TakesAll, Tables
  <2> QED
    BY <1>1, <2>1, <2>2, <2>3 DEF LookInvariant
<1>4. CASE UNCHANGED vars
  <2>1. /\ UNCHANGED <<phase, reads, first, whole, life, routes, needs6, excluded>>
    BY <1>4 DEF vars, tables, history
  <2>2. \A a \in Owned : TakesAll(routes[a])' <=> TakesAll(routes[a])
    BY <2>1 DEF TakesAll
  <2>3. TunTakesAll(Tables)' <=> TunTakesAll(Tables)
    BY <2>1 DEF TunTakesAll, TakesAll, Tables
  <2> QED
    BY <1>1, <2>1, <2>2, <2>3 DEF LookInvariant
<1>5. CASE ~ (TunChanges /\ reads = 1) /\ ~ LookAtTun /\ ~ UNCHANGED vars
  <2>1. ~ (phase' = "wait" /\ reads' = 1)
    <3>1. CASE TunChanges
      BY <1>5, <3>1 DEF TunChanges
    <3>2. CASE LaunchCore
      BY <1>1, <3>2 DEF LaunchCore, GateTypeOK
    <3>3. CASE EndLook
      BY <3>3 DEF EndLook
    <3>4. CASE ChangeBefore \/ ChangeDuring \/ BeginCapture \/ ReadFirst \/ ReadSecond
               \/ Evaluate \/ Over
      BY <3>4 DEF ChangeBefore, ChangeDuring, Change, BeginCapture, ReadFirst, ReadSecond,
           Evaluate, Over
    <3> QED
      BY <1>5, <3>1, <3>2, <3>3, <3>4 DEF Next
  <2> QED
    BY <1>1, <2>1 DEF LookInvariant
<1> QED
  BY <1>2, <1>3, <1>4, <1>5

\* Interfaces and routes are read one after the other, and still the TUN counts
\* as ready only if at one moment it took every address it should, for any
\* configuration of routes and exclusions and however Mihomo cut the ranges.
THEOREM TunIsReadyExactly == Spec => []TunReadyIsExact
<1>1. Init => LookInvariant
  BY TypeInit DEF Init, LookInvariant
<1>2. LookInvariant => TunReadyIsExact
  <2> SUFFICES ASSUME LookInvariant PROVE TunReadyIsExact
    OBVIOUS
  <2>1. ASSUME NEW a \in Owned
        PROVE  HasCompletePublicCapture(routes[a]) <=> TakesAll(routes[a])
    <3>1. routes[a] \subseteq Route
      BY TablesType DEF LookInvariant, GateTypeOK, Adapter
    <3> QED
      BY <3>1, CompleteIsExact DEF LookInvariant
  <2> QED
    BY <2>1 DEF LookInvariant, TunReadyIsExact, OwnedTunReady
<1> QED
  BY <1>1, <1>2, LookStep, PTL DEF Spec

----------------------------------------------------------------------------
(* The capture: tables that change while they are read *)

\* One adapter, or one listener, changed.
OneChange(s, t) ==
  \/ s.bound = t.bound
     /\ \E a \in Adapter : \A b \in Adapter \ {a} :
          s.life[b] = t.life[b] /\ s.routes[b] = t.routes[b]
  \/ s.life = t.life /\ s.routes = t.routes /\ \E x : s.bound \ {x} = t.bound \ {x}

\* What the readings say, when h[at[k]] is the state the k-th read has found.
Known(h, at) ==
  /\ reads >= 1 => first.life = h[at[1]].life
  /\ reads >= 2 => first.routes = h[at[2]].routes
  /\ reads >= 7 => second.life = h[at[7]].life
  /\ reads >= 8 => second.routes = h[at[8]].routes
  /\ \A x \in Listener :
       /\ reads >= x.table => (x \in first.bound <=> x \in h[at[x.table]].bound)
       /\ reads >= x.table + 6 => (x \in second.bound <=> x \in h[at[x.table + 6]].bound)

\* While tables are captured, h has the states they have been in and at the
\* state at which each of the twelve was, or is going to be, read.
Recorded(h, at) ==
  /\ h \in [0 .. MaxChanges -> Reading] /\ at \in [1 .. 12 -> 0 .. MaxChanges]
  /\ \A i \in 0 .. MaxChanges : i >= changes => h[i] = Tables
  /\ \A i \in 0 .. MaxChanges : i < MaxChanges => OneChange(h[i], h[i + 1])
  /\ \A k \in 1 .. 12 : at[k] <= changes /\ (k > reads => at[k] = changes)
  /\ \A k \in 1 .. 12 : \A l \in 1 .. 12 : k <= l => at[k] <= at[l]
  /\ free <=> \E i \in 0 .. MaxChanges : ~ Obstructed(h[i])
  /\ steady6 <=> \A i \in 0 .. MaxChanges : NeedsIpv6(h[i])
  /\ Known(h, at)

\* The listeners are read in the last four tables of a reading.
LEMMA ListenerTables == \A x \in Listener : x.table \in 3 .. 6
BY GateAssumption

CaptureInvariant ==
  /\ GateTypeOK
  /\ phase = "capture" => \E h, at : Recorded(h, at)
  /\ QuietNetworkIsJudgedRightly

LEMMA ChangeIsOne ==
  ASSUME GateTypeOK, Change
  PROVE  OneChange(Tables, Tables')
<1>1. life \in [Adapter -> {"absent", "down", "up"}] /\ routes \in [Adapter -> SUBSET Route]
  BY TablesType DEF GateTypeOK
<1>2. /\ Tables.life = life /\ Tables.routes = routes /\ Tables.bound = bound
      /\ Tables'.life = life' /\ Tables'.routes = routes' /\ Tables'.bound = bound'
  BY DEF Tables
<1>3. CASE \E b \in Listener :
             /\ bound' = IF b \in bound THEN bound \ {b} ELSE bound \cup {b}
             /\ UNCHANGED <<life, routes>>
  <2>1. PICK b \in Listener :
          /\ bound' = IF b \in bound THEN bound \ {b} ELSE bound \cup {b}
          /\ UNCHANGED <<life, routes>>
    BY <1>3
  <2>2. bound \ {b} = bound' \ {b}
    BY <2>1
  <2> QED
    BY <1>2, <2>1, <2>2 DEF OneChange
<1>4. CASE \E a \in Adapter : \E l, rs : /\ life' = [life EXCEPT ![a] = l]
                                        /\ routes' = [routes EXCEPT ![a] = rs]
                                        /\ UNCHANGED bound
  <2>1. PICK a \in Adapter : \E l, rs : /\ life' = [life EXCEPT ![a] = l]
                                        /\ routes' = [routes EXCEPT ![a] = rs]
                                        /\ UNCHANGED bound
    BY <1>4
  <2>2. \A b \in Adapter \ {a} : life[b] = life'[b] /\ routes[b] = routes'[b]
    BY <1>1, <2>1
  <2> QED
    BY <1>2, <2>1, <2>2 DEF OneChange
<1> QED
  BY <1>3, <1>4 DEF Change

\* The record begins with the capture.
LEMMA RecordBegins ==
  ASSUME GateTypeOK, BeginCapture
  PROVE  \E h, at : Recorded(h, at)'
<1>a. PICK h : h = [i \in 0 .. MaxChanges |-> Tables]
  OBVIOUS
<1>b. PICK at : at = [k \in 1 .. 12 |-> 0]
  OBVIOUS
<1>1. /\ MaxChanges \in Nat /\ Tables \in Reading /\ phase = "idle" /\ reads = 0
  BY GateAssumption DEF GateTypeOK, BeginCapture
<1>2. /\ Tables' = Tables /\ reads' = 0 /\ changes' = 0
      /\ free' = ~ Obstructed(Tables) /\ steady6' = NeedsIpv6(Tables)
  BY <1>1 DEF BeginCapture, Tables, tables
<1>c. \A x \in Listener : ~ (reads' >= x.table) /\ ~ (reads' >= x.table + 6)
  BY <1>2, ListenerTables
<1>3. h \in [0 .. MaxChanges -> Reading] /\ at \in [1 .. 12 -> 0 .. MaxChanges]
  BY <1>1, <1>a, <1>b
<1>4. \A i \in 0 .. MaxChanges : h[i] = Tables
  BY <1>a
<1>5. \A k \in 1 .. 12 : at[k] = 0
  BY <1>b
<1>6. OneChange(Tables, Tables)
  BY DEF OneChange
<1>7. \A i \in 0 .. MaxChanges : i < MaxChanges => OneChange(h[i], h[i + 1])
  BY <1>1, <1>4, <1>6
<1>8. 0 \in 0 .. MaxChanges
  BY <1>1
<1>9. free' <=> \E i \in 0 .. MaxChanges : ~ Obstructed(h[i])
  BY <1>2, <1>4, <1>8
<1>10. steady6' <=> \A i \in 0 .. MaxChanges : NeedsIpv6(h[i])
  BY <1>2, <1>4, <1>8
<1>11. \A i \in 0 .. MaxChanges : i >= changes' => h[i] = Tables'
  BY <1>2, <1>4
<1>12. \A k \in 1 .. 12 : at[k] <= changes' /\ (k > reads' => at[k] = changes')
  BY <1>2, <1>5
<1>13. \A k \in 1 .. 12 : \A l \in 1 .. 12 : k <= l => at[k] <= at[l]
  BY <1>5
<1>14. Known(h, at)'
  BY <1>2, <1>c DEF Known
<1> QED
  BY <1>3, <1>7, <1>9, <1>10, <1>11, <1>12, <1>13, <1>14 DEF Recorded

\* A change adds a state to the record.
LEMMA RecordGrows ==
  ASSUME GateTypeOK, ChangeDuring, NEW h, NEW at, Recorded(h, at)
  PROVE  \E g, to : Recorded(g, to)'
<1>a. PICK n : n = changes + 1
  OBVIOUS
<1>b. PICK g : g = [i \in 0 .. MaxChanges |-> IF i < n THEN h[i] ELSE Tables']
  OBVIOUS
<1>c. PICK to : to = [k \in 1 .. 12 |-> IF k <= reads THEN at[k] ELSE n]
  OBVIOUS
<1>1. /\ MaxChanges \in Nat /\ changes \in Nat /\ changes < MaxChanges
      /\ n = changes + 1 /\ changes' = n
      /\ reads \in 0 .. 12 /\ Change
      /\ UNCHANGED <<reads, first, second>>
  <2>1. MaxChanges \in Nat /\ changes \in 0 .. MaxChanges /\ reads \in 0 .. 12
    BY GateAssumption DEF GateTypeOK
  <2>2. changes < MaxChanges /\ changes' = changes + 1 /\ Change
    BY DEF ChangeDuring
  <2>3. UNCHANGED <<reads, first, second>>
    BY <2>2 DEF Change
  <2> QED
    BY <2>1, <2>2, <2>3, <1>a
<1>2. Tables' \in Reading /\ OneChange(Tables, Tables')
  BY <1>1, ChangeType, ChangeIsOne
<1>3. /\ h \in [0 .. MaxChanges -> Reading] /\ at \in [1 .. 12 -> 0 .. MaxChanges]
      /\ \A i \in 0 .. MaxChanges : i >= changes => h[i] = Tables
      /\ \A i \in 0 .. MaxChanges : i < MaxChanges => OneChange(h[i], h[i + 1])
      /\ \A k \in 1 .. 12 : at[k] <= changes /\ (k > reads => at[k] = changes)
      /\ \A k \in 1 .. 12 : \A l \in 1 .. 12 : k <= l => at[k] <= at[l]
  BY DEF Recorded
<1>4. g \in [0 .. MaxChanges -> Reading] /\ to \in [1 .. 12 -> 0 .. MaxChanges]
  <2>1. n \in 0 .. MaxChanges
    BY <1>1
  <2> QED
    BY <1>2, <1>3, <1>b, <1>c, <2>1
<1>5. \A i \in 0 .. MaxChanges : g[i] = IF i < n THEN h[i] ELSE Tables'
  BY <1>b
<1>6. \A k \in 1 .. 12 : to[k] = IF k <= reads THEN at[k] ELSE n
  BY <1>c
<1>7. \A i \in 0 .. MaxChanges : i >= n => g[i] = Tables'
  <2> TAKE i \in 0 .. MaxChanges
  <2>1. i >= n => ~ (i < n)
    BY <1>1
  <2> QED
    BY <1>5, <2>1
<1>8. ASSUME NEW i \in 0 .. MaxChanges, i < MaxChanges PROVE OneChange(g[i], g[i + 1])
  <2>1. i + 1 \in 0 .. MaxChanges
    BY <1>1, <1>8
  <2>2. CASE i + 1 < n
    <3>1. g[i] = h[i] /\ g[i + 1] = h[i + 1]
      BY <1>1, <1>5, <2>1, <2>2
    <3> QED
      BY <1>3, <1>8, <3>1
  <2>3. CASE i + 1 = n
    <3>1. i < n /\ i >= changes /\ ~ (i + 1 < n)
      BY <1>1, <2>3
    <3>2. g[i] = h[i] /\ g[i + 1] = Tables' /\ h[i] = Tables
      BY <1>3, <1>5, <2>1, <3>1
    <3> QED
      BY <1>2, <3>2
  <2>4. CASE i + 1 > n
    <3>1. g[i] = Tables' /\ g[i + 1] = Tables'
      BY <1>1, <1>5, <2>1, <2>4
    <3> QED
      BY <3>1 DEF OneChange
  <2> QED
    BY <1>1, <2>2, <2>3, <2>4
<1>d. \A k \in 1 .. 12 : at[k] \in 0 .. MaxChanges /\ at[k] < n
  <2> TAKE k \in 1 .. 12
  <2>1. at[k] \in 0 .. MaxChanges /\ at[k] <= changes
    BY <1>3
  <2> QED
    BY <1>1, <2>1
<1>9. \A k \in 1 .. 12 : to[k] <= n /\ (k > reads => to[k] = n)
  BY <1>1, <1>6, <1>d
<1>10. \A k \in 1 .. 12 : \A l \in 1 .. 12 : k <= l => to[k] <= to[l]
  <2> TAKE k \in 1 .. 12
  <2> TAKE l \in 1 .. 12
  <2>1. at[k] \in Nat /\ at[l] \in Nat /\ at[k] < n /\ at[l] < n /\ n \in Nat /\ reads \in Nat
    BY <1>1, <1>d
  <2>2. k <= l => at[k] <= at[l]
    BY <1>3
  <2>3. to[k] = (IF k <= reads THEN at[k] ELSE n) /\ to[l] = (IF l <= reads THEN at[l] ELSE n)
    BY <1>6
  <2> QED
    BY <2>1, <2>2, <2>3
<1>11. \A k \in 1 .. 12 : k <= reads => g[to[k]] = h[at[k]]
  BY <1>5, <1>6, <1>d
<1>12. \A i \in 0 .. MaxChanges : g[i] \in {h[i], Tables'}
  BY <1>5
<1>13. g[n] = Tables' /\ n \in 0 .. MaxChanges
  BY <1>1, <1>5
<1>14. \A i \in 0 .. MaxChanges : \E j \in 0 .. MaxChanges : h[i] = g[j]
  <2> TAKE i \in 0 .. MaxChanges
  <2>1. CASE i < n
    BY <1>5, <2>1
  <2>2. CASE ~ (i < n)
    <3>1. h[i] = Tables /\ h[changes] = Tables /\ changes \in 0 .. MaxChanges
      BY <1>1, <1>3, <2>2
    <3>2. g[changes] = h[changes]
      BY <1>1, <1>5, <3>1
    <3> QED
      BY <3>1, <3>2
  <2> QED
    BY <2>1, <2>2
<1>15. free' <=> \E i \in 0 .. MaxChanges : ~ Obstructed(g[i])
  <2>1. free' <=> free \/ ~ Obstructed(Tables')
    BY DEF ChangeDuring
  <2>2. free <=> \E i \in 0 .. MaxChanges : ~ Obstructed(h[i])
    BY DEF Recorded
  <2>3. (\E i \in 0 .. MaxChanges : ~ Obstructed(g[i]))
          <=> (\E i \in 0 .. MaxChanges : ~ Obstructed(h[i])) \/ ~ Obstructed(Tables')
    BY <1>12, <1>13, <1>14
  <2> QED
    BY <2>1, <2>2, <2>3
<1>16. steady6' <=> \A i \in 0 .. MaxChanges : NeedsIpv6(g[i])
  <2>1. steady6' <=> steady6 /\ NeedsIpv6(Tables')
    BY DEF ChangeDuring
  <2>2. steady6 <=> \A i \in 0 .. MaxChanges : NeedsIpv6(h[i])
    BY DEF Recorded
  <2>3. (\A i \in 0 .. MaxChanges : NeedsIpv6(g[i]))
          <=> (\A i \in 0 .. MaxChanges : NeedsIpv6(h[i])) /\ NeedsIpv6(Tables')
    BY <1>12, <1>13, <1>14
  <2> QED
    BY <2>1, <2>2, <2>3
<1>17. /\ reads >= 1 => first.life = g[to[1]].life
       /\ reads >= 2 => first.routes = g[to[2]].routes
       /\ reads >= 7 => second.life = g[to[7]].life
       /\ reads >= 8 => second.routes = g[to[8]].routes
  <2>1. {1, 2, 7, 8} \subseteq 1 .. 12 /\ reads \in Nat
    BY <1>1
  <2>2. \A k \in {1, 2, 7, 8} : reads >= k => g[to[k]] = h[at[k]]
    BY <1>11, <2>1
  <2>3. /\ reads >= 1 => first.life = h[at[1]].life
        /\ reads >= 2 => first.routes = h[at[2]].routes
        /\ reads >= 7 => second.life = h[at[7]].life
        /\ reads >= 8 => second.routes = h[at[8]].routes
    BY DEF Recorded, Known
  <2> QED
    BY <2>2, <2>3
<1>19. ASSUME NEW x \in Listener
       PROVE  /\ reads >= x.table => (x \in first.bound <=> x \in g[to[x.table]].bound)
              /\ reads >= x.table + 6 => (x \in second.bound <=> x \in g[to[x.table + 6]].bound)
  <2>1. x.table \in 1 .. 12 /\ x.table + 6 \in 1 .. 12
    BY ListenerTables
  <2>2. /\ reads >= x.table => g[to[x.table]] = h[at[x.table]]
        /\ reads >= x.table + 6 => g[to[x.table + 6]] = h[at[x.table + 6]]
    BY <1>1, <1>11, <2>1
  <2>3. /\ reads >= x.table => (x \in first.bound <=> x \in h[at[x.table]].bound)
        /\ reads >= x.table + 6 => (x \in second.bound <=> x \in h[at[x.table + 6]].bound)
    BY DEF Recorded, Known
  <2> QED
    BY <2>2, <2>3
<1>18. Known(g, to)'
  BY <1>1, <1>17, <1>19 DEF Known
<1>20. \A i \in 0 .. MaxChanges : i >= changes' => g[i] = Tables'
  BY <1>1, <1>7
<1>21. \A k \in 1 .. 12 : to[k] <= changes' /\ (k > reads' => to[k] = changes')
  BY <1>1, <1>9
<1> QED
  BY <1>4, <1>8, <1>10, <1>15, <1>16, <1>18, <1>20, <1>21 DEF Recorded

\* A read adds the state at hand to what is known.
LEMMA RecordRead ==
  ASSUME GateTypeOK, ReadFirst \/ ReadSecond, NEW h, NEW at, Recorded(h, at)
  PROVE  Recorded(h, at)'
<1>1. /\ reads \in 0 .. 11 /\ reads' = reads + 1 /\ Tables' = Tables
      /\ UNCHANGED <<changes, free, steady6>>
      /\ Tables.life = life /\ Tables.routes = routes /\ Tables.bound = bound
  BY DEF GateTypeOK, ReadFirst, ReadSecond, Tables, tables, history
<1>2. /\ h \in [0 .. MaxChanges -> Reading] /\ at \in [1 .. 12 -> 0 .. MaxChanges]
      /\ \A i \in 0 .. MaxChanges : i >= changes => h[i] = Tables
      /\ \A i \in 0 .. MaxChanges : i < MaxChanges => OneChange(h[i], h[i + 1])
      /\ \A k \in 1 .. 12 : at[k] <= changes /\ (k > reads => at[k] = changes)
      /\ \A k \in 1 .. 12 : \A l \in 1 .. 12 : k <= l => at[k] <= at[l]
  BY DEF Recorded
<1>3. MaxChanges \in Nat /\ changes \in 0 .. MaxChanges
  BY GateAssumption DEF GateTypeOK
<1>4. \A k \in 1 .. 12 : k > reads => h[at[k]] = Tables
  BY <1>2, <1>3
<1>9. /\ reads >= 1 => first.life = h[at[1]].life
      /\ reads >= 2 => first.routes = h[at[2]].routes
      /\ reads >= 7 => second.life = h[at[7]].life
      /\ reads >= 8 => second.routes = h[at[8]].routes
  BY DEF Recorded, Known
<1>10. \A k \in {1, 2, 7, 8} : k > reads => h[at[k]] = Tables
  <2>1. {1, 2, 7, 8} \subseteq 1 .. 12
    OBVIOUS
  <2> QED
    BY <1>4, <2>1
<1>5. /\ reads' >= 1 => first'.life = h[at[1]].life
      /\ reads' >= 2 => first'.routes = h[at[2]].routes
      /\ reads' >= 7 => second'.life = h[at[7]].life
      /\ reads' >= 8 => second'.routes = h[at[8]].routes
  <2>1. CASE ReadFirst
    <3>1. reads \in 0 .. 5 /\ first' = Read(first, reads + 1) /\ second' = second
      BY <1>1, <2>1 DEF ReadFirst
    <3>2. /\ first'.life = IF reads = 0 THEN life ELSE first.life
          /\ first'.routes = IF reads = 1 THEN routes ELSE first.routes
      BY <3>1 DEF Read
    <3> QED
      BY <1>1, <1>9, <1>10, <3>1, <3>2
  <2>2. CASE ReadSecond
    <3>1. reads \in 6 .. 11 /\ second' = Read(second, reads - 5) /\ first' = first
      BY <1>1, <2>2 DEF ReadSecond
    <3>2. /\ second'.life = IF reads = 6 THEN life ELSE second.life
          /\ second'.routes = IF reads = 7 THEN routes ELSE second.routes
      BY <3>1 DEF Read
    <3> QED
      BY <1>1, <1>9, <1>10, <3>1, <3>2
  <2> QED
    BY <2>1, <2>2
<1>8. ASSUME NEW x \in Listener
      PROVE  /\ reads' >= x.table => (x \in first'.bound <=> x \in h[at[x.table]].bound)
             /\ reads' >= x.table + 6
                  => (x \in second'.bound <=> x \in h[at[x.table + 6]].bound)
  <2>1. x.table \in 3 .. 6
    BY ListenerTables
  <2>2. /\ reads >= x.table => (x \in first.bound <=> x \in h[at[x.table]].bound)
        /\ reads >= x.table + 6 => (x \in second.bound <=> x \in h[at[x.table + 6]].bound)
    BY DEF Recorded, Known
  <2>3. /\ x.table > reads => h[at[x.table]] = Tables
        /\ x.table + 6 > reads => h[at[x.table + 6]] = Tables
    <3>1. x.table \in 1 .. 12 /\ x.table + 6 \in 1 .. 12
      BY <2>1
    <3> QED
      BY <1>4, <3>1
  <2>4. CASE ReadFirst
    <3>1. reads \in 0 .. 5 /\ first' = Read(first, reads + 1) /\ second' = second
      BY <1>1, <2>4 DEF ReadFirst
    <3>2. x \in first'.bound <=> IF reads + 1 = x.table THEN x \in bound ELSE x \in first.bound
      BY <3>1 DEF Read
    <3> QED
      BY <1>1, <2>1, <2>2, <2>3, <3>1, <3>2
  <2>5. CASE ReadSecond
    <3>1. reads \in 6 .. 11 /\ second' = Read(second, reads - 5) /\ first' = first
      BY <1>1, <2>5 DEF ReadSecond
    <3>2. x \in second'.bound
            <=> IF reads - 5 = x.table THEN x \in bound ELSE x \in second.bound
      BY <3>1 DEF Read
    <3> QED
      BY <1>1, <2>1, <2>2, <2>3, <3>1, <3>2
  <2> QED
    BY <2>4, <2>5
<1>6. \A k \in 1 .. 12 : at[k] <= changes /\ (k > reads' => at[k] = changes)
  <2> TAKE k \in 1 .. 12
  <2>1. at[k] <= changes /\ (k > reads => at[k] = changes)
    BY <1>2
  <2>2. k > reads' => k > reads
    BY <1>1
  <2> QED
    BY <2>1, <2>2
<1>7. /\ free' <=> \E i \in 0 .. MaxChanges : ~ Obstructed(h[i])
      /\ steady6' <=> \A i \in 0 .. MaxChanges : NeedsIpv6(h[i])
  BY <1>1 DEF Recorded
<1>11. Known(h, at)'
  BY <1>5, <1>8 DEF Known
<1>12. \A i \in 0 .. MaxChanges : i >= changes' => h[i] = Tables'
  BY <1>1, <1>2
<1>13. \A k \in 1 .. 12 : at[k] <= changes' /\ (k > reads' => at[k] = changes')
  BY <1>1, <1>6
<1> QED
  BY <1>2, <1>7, <1>11, <1>12, <1>13 DEF Recorded

\* States of the tables, one change after the other.
Story(h, m) ==
  /\ h \in [0 .. m -> Reading]
  /\ \A i \in 0 .. m : i < m => OneChange(h[i], h[i + 1])

\* What a capture has read of a story, and found harmless: the routes rs at b
\* and at e, in between the interfaces at d, and no listener of table k in the
\* way at c[k] and at f[k].
Seen(h, m, rs, b, c, d, e, f) ==
  /\ {b, d, e} \subseteq 0 .. m /\ d <= e
  /\ h[b].routes = rs /\ h[e].routes = rs
  /\ Harmless(h[d].life, rs)
  /\ \A k \in 3 .. 6 : /\ c[k] \in 0 .. m /\ f[k] \in 0 .. m
                       /\ b <= c[k] /\ c[k] <= d /\ e <= f[k]
  /\ \A x \in Listener :
       Conflicting(x) => x \notin h[c[x.table]].bound /\ x \notin h[f[x.table]].bound

Grounded(h, m, rs, d) ==
  /\ \E i \in 0 .. m : Harmless(h[i].life, h[i].routes) /\ Unbound(h[i].bound)
  /\ (\A i \in 0 .. m : NeedsIpv6(h[i])) => NeedsIpv6([life |-> h[d].life, routes |-> rs])

\* A state next to d with the routes that were read differs from d in one
\* adapter: with what d has of the interfaces it was harmless itself, or d was.
LEMMA NextToHarmless ==
  ASSUME NEW m \in Nat, NEW h, Story(h, m), NEW rs, NEW d \in 0 .. m, NEW g \in 0 .. m,
         OneChange(h[g], h[d]) \/ OneChange(h[d], h[g]),
         h[g].routes = rs, h[d].routes # rs, Harmless(h[d].life, rs)
  PROVE  /\ h[g].bound = h[d].bound
         /\ Unbound(h[d].bound) => Grounded(h, m, rs, d)
<1> DEFINE Default(q) == \E r \in Of(q, 6) : Length(r) = 2^Width
<1>1. \A l, q : NeedsIpv6([life |-> l, routes |-> q])
                  <=> \E a \in Physical : l[a] = "up" /\ Default(q[a])
  BY DEF NeedsIpv6
<1>2. \A i \in 0 .. m : NeedsIpv6(h[i])
                        <=> \E a \in Physical : h[i].life[a] = "up" /\ Default(h[i].routes[a])
  BY DEF NeedsIpv6
<1> HIDE DEF Default
<1>3. h[g].bound = h[d].bound
      /\ \E y \in Adapter : \A x \in Adapter \ {y} :
           h[g].life[x] = h[d].life[x] /\ h[g].routes[x] = h[d].routes[x]
  BY DEF OneChange
<1>4. PICK y \in Adapter : \A x \in Adapter \ {y} :
        h[g].life[x] = h[d].life[x] /\ h[g].routes[x] = h[d].routes[x]
  BY <1>3
<1>5. \A x \in Adapter \ {y} : h[g].life[x] = h[d].life[x] /\ h[d].routes[x] = rs[x]
  BY <1>4
<1>6. Owned \subseteq Adapter /\ Virtual \subseteq Adapter /\ Physical \subseteq Adapter
  BY DEF Adapter
<1>7. CASE h[d].life[y] = "up"
  <2>1. Harmless(h[g].life, h[g].routes)
    BY <1>5, <1>6, <1>7 DEF Harmless
  <2>2. NeedsIpv6(h[g]) => NeedsIpv6([life |-> h[d].life, routes |-> rs])
    BY <1>1, <1>2, <1>5, <1>6, <1>7
  <2> QED
    BY <1>3, <2>1, <2>2 DEF Grounded
<1>8. CASE h[d].life[y] # "up"
  <2>1. Harmless(h[d].life, h[d].routes)
    BY <1>5, <1>6, <1>8 DEF Harmless
  <2>2. NeedsIpv6(h[d]) => NeedsIpv6([life |-> h[d].life, routes |-> rs])
    BY <1>1, <1>2, <1>5, <1>6, <1>8
  <2> QED
    BY <1>3, <2>1, <2>2 DEF Grounded
<1> QED
  BY <1>7, <1>8

\* Three changes are too few to make the tables look like a state of the
\* network that never was: before d or after it there was one change at most,
\* and two listeners in the way at d neither came nor went in one change.
LEMMA ThreeChangesDeceiveNobody ==
  ASSUME NEW m \in 0 .. 3, NEW h, Story(h, m),
         NEW rs, NEW b, NEW c, NEW d, NEW e, NEW f, Seen(h, m, rs, b, c, d, e, f)
  PROVE  Grounded(h, m, rs, d)
<1>1. /\ b \in 0 .. m /\ d \in 0 .. m /\ e \in 0 .. m /\ d <= e
      /\ \A k \in 3 .. 6 : /\ c[k] \in 0 .. m /\ f[k] \in 0 .. m
                           /\ b <= c[k] /\ c[k] <= d /\ e <= f[k]
  BY DEF Seen
<1>2. /\ h[b].routes = rs /\ h[e].routes = rs
      /\ Harmless(h[d].life, rs)
      /\ \A x \in Listener :
           Conflicting(x) => x \notin h[c[x.table]].bound /\ x \notin h[f[x.table]].bound
  BY DEF Seen
<1>3. \A i \in 0 .. m : \A j \in 0 .. m : j = i + 1 => OneChange(h[i], h[j])
  BY DEF Story
<1>4. \A i \in 0 .. m : \A x \in h[i].bound : x \in Listener /\ x.table \in 3 .. 6
  BY ListenerTables DEF Story, Reading
<1>5. ASSUME NEW i \in 0 .. m, NEW j \in 0 .. m, j = i + 1,
             NEW x, (x \in h[i].bound) # (x \in h[j].bound)
      PROVE  /\ h[i].life = h[j].life /\ h[i].routes = h[j].routes
             /\ \A y : y # x => (y \in h[i].bound <=> y \in h[j].bound)
  BY <1>3, <1>5 DEF OneChange
<1>6. CASE h[d].routes = rs
  <2>1. NeedsIpv6(h[d]) => NeedsIpv6([life |-> h[d].life, routes |-> rs])
    BY <1>6 DEF NeedsIpv6
  <2>2. CASE Unbound(h[d].bound)
    BY <1>1, <1>2, <1>6, <2>1, <2>2 DEF Grounded
  <2>3. ASSUME NEW x \in h[d].bound, Conflicting(x)
        PROVE  Grounded(h, m, rs, d)
    <3> DEFINE k == x.table
    <3>1. x \in Listener /\ k \in 3 .. 6
      BY <1>1, <1>4
    <3>2. x \notin h[c[k]].bound /\ x \notin h[f[k]].bound
      BY <1>2, <2>3, <3>1
    <3>3. /\ c[k] \in 0 .. m /\ f[k] \in 0 .. m /\ c[k] < d /\ d < f[k]
      <4>1. c[k] # d /\ f[k] # d
        BY <3>2
      <4> QED
        BY <1>1, <3>1, <4>1
    \* Another listener in the way at d, of a table read at the same moments or
    \* at others.
    <3>4. ASSUME NEW y \in h[d].bound, Conflicting(y), y # x
          PROVE  /\ c[y.table] \in 0 .. m /\ f[y.table] \in 0 .. m
                 /\ c[y.table] < d /\ d < f[y.table]
                 /\ y \notin h[c[y.table]].bound /\ y \notin h[f[y.table]].bound
      <4>1. y \in Listener /\ y.table \in 3 .. 6
        BY <1>1, <1>4
      <4>2. y \notin h[c[y.table]].bound /\ y \notin h[f[y.table]].bound
        BY <1>2, <3>4, <4>1
      <4>3. c[y.table] # d /\ f[y.table] # d
        BY <4>2
      <4> QED
        BY <1>1, <4>1, <4>2, <4>3
    <3>5. CASE d = c[k] + 1
      <4>1. /\ h[c[k]].life = h[d].life /\ h[c[k]].routes = h[d].routes
            /\ \A y : y # x => (y \in h[c[k]].bound <=> y \in h[d].bound)
        BY <1>1, <1>5, <3>2, <3>3, <3>5
      <4>2. ASSUME NEW y \in h[c[k]].bound, Conflicting(y)
            PROVE  FALSE
        <5>1. y # x /\ y \in h[d].bound
          BY <3>2, <4>1
        <5>2. /\ c[y.table] \in 0 .. m /\ f[y.table] \in 0 .. m
              /\ c[y.table] < d /\ d < f[y.table]
              /\ y \notin h[c[y.table]].bound /\ y \notin h[f[y.table]].bound
          BY <3>4, <4>2, <5>1
        <5>3. c[y.table] # c[k]
          BY <4>2, <5>2
        <5>4. d = 2 /\ f[k] = 3 /\ f[y.table] = 3
          BY <1>1, <3>3, <3>5, <5>2, <5>3
        <5>5. x \notin h[f[k]].bound /\ y \notin h[f[k]].bound /\ f[k] = d + 1
          BY <3>2, <5>2, <5>4
        <5> QED
          BY <1>1, <1>5, <3>3, <5>1, <5>5
      <4>3. Unbound(h[c[k]].bound)
        BY <4>2 DEF Unbound
      <4> QED
        BY <1>1, <1>2, <1>6, <2>1, <3>3, <4>1, <4>3 DEF Grounded
    <3>6. CASE f[k] = d + 1
      <4>1. /\ h[f[k]].life = h[d].life /\ h[f[k]].routes = h[d].routes
            /\ \A y : y # x => (y \in h[d].bound <=> y \in h[f[k]].bound)
        BY <1>1, <1>5, <3>2, <3>3, <3>6
      <4>2. ASSUME NEW y \in h[f[k]].bound, Conflicting(y)
            PROVE  FALSE
        <5>1. y # x /\ y \in h[d].bound
          BY <3>2, <4>1
        <5>2. /\ c[y.table] \in 0 .. m /\ f[y.table] \in 0 .. m
              /\ c[y.table] < d /\ d < f[y.table]
              /\ y \notin h[c[y.table]].bound /\ y \notin h[f[y.table]].bound
          BY <3>4, <4>2, <5>1
        <5>3. f[y.table] # f[k]
          BY <4>2, <5>2
        <5>4. d = 1 /\ c[k] = 0 /\ c[y.table] = 0
          BY <1>1, <3>3, <3>6, <5>2, <5>3
        <5>5. x \notin h[c[k]].bound /\ y \notin h[c[k]].bound /\ d = c[k] + 1
          BY <3>2, <5>2, <5>4
        <5> QED
          BY <1>1, <1>5, <3>3, <5>1, <5>5
      <4>3. Unbound(h[f[k]].bound)
        BY <4>2 DEF Unbound
      <4> QED
        BY <1>1, <1>2, <1>6, <2>1, <3>3, <4>1, <4>3 DEF Grounded
    <3>7. d = c[k] + 1 \/ f[k] = d + 1
      BY <1>1, <3>3
    <3> QED
      BY <3>5, <3>6, <3>7
  <2> QED
    BY <2>2, <2>3 DEF Unbound
<1>7. CASE h[d].routes # rs
  <2>1. b # d /\ d # e
    BY <1>2, <1>7
  <2>2. m \in Nat /\ 3 \in 3 .. 6
    OBVIOUS
  <2>3. CASE d = b + 1
    <3>1. OneChange(h[b], h[d])
      BY <1>1, <1>3, <2>3
    <3>2. /\ h[b].bound = h[d].bound
          /\ Unbound(h[d].bound) => Grounded(h, m, rs, d)
      BY <1>1, <1>2, <1>7, <2>2, <3>1, NextToHarmless
    <3>3. \A k \in 3 .. 6 : c[k] = b \/ c[k] = d
      BY <1>1, <2>3
    <3>4. ASSUME NEW x \in h[d].bound, Conflicting(x) PROVE FALSE
      <4>1. x \in Listener /\ x.table \in 3 .. 6
        BY <1>1, <1>4
      <4>2. x \notin h[c[x.table]].bound /\ c[x.table] \in {b, d}
        BY <1>2, <3>3, <3>4, <4>1
      <4> QED
        BY <3>2, <4>2
    <3> QED
      BY <3>2, <3>4 DEF Unbound
  <2>4. CASE e = d + 1 /\ e = m
    <3>1. OneChange(h[d], h[e])
      BY <1>1, <1>3, <2>4
    <3>2. /\ h[e].bound = h[d].bound
          /\ Unbound(h[d].bound) => Grounded(h, m, rs, d)
      BY <1>1, <1>2, <1>7, <2>2, <3>1, NextToHarmless
    <3>3. \A k \in 3 .. 6 : f[k] = e
      BY <1>1, <2>4
    <3>4. ASSUME NEW x \in h[d].bound, Conflicting(x) PROVE FALSE
      <4>1. x \in Listener /\ x.table \in 3 .. 6
        BY <1>1, <1>4
      <4>2. x \notin h[f[x.table]].bound /\ f[x.table] = e
        BY <1>2, <3>3, <3>4, <4>1
      <4> QED
        BY <3>2, <4>2
    <3> QED
      BY <3>2, <3>4 DEF Unbound
  <2>5. d = b + 1 \/ (e = d + 1 /\ e = m)
    BY <1>1, <2>1, <2>2
  <2> QED
    BY <2>3, <2>4, <2>5
<1> QED
  BY <1>6, <1>7

\* A verdict on tables that held still is the one they deserve.
LEMMA QuietVerdict ==
  ASSUME GateTypeOK, Evaluate, changes = 0, NEW h, NEW at, Recorded(h, at)
  PROVE  CanStart <=> free
<1>1. 0 \in 0 .. MaxChanges /\ MaxChanges \in Nat
  BY GateAssumption
<1>2. /\ \A i \in 0 .. MaxChanges : h[i] = Tables
      /\ \A k \in 1 .. 12 : at[k] \in 0 .. MaxChanges
  BY <1>1 DEF Recorded
<1>3. free <=> ~ Obstructed(Tables)
  BY <1>1, <1>2 DEF Recorded
<1>4. \A k \in 1 .. 12 : h[at[k]] = Tables
  BY <1>2
<1>5. reads = 12
  BY DEF Evaluate
<1>6. /\ first.life = life /\ first.routes = routes /\ first.bound = bound
      /\ second.life = life /\ second.routes = routes /\ second.bound = bound
  <2>1. /\ first.life = life /\ first.routes = routes
        /\ second.life = life /\ second.routes = routes
    <3>1. {1, 2, 7, 8} \subseteq 1 .. 12
      OBVIOUS
    <3>2. \A k \in {1, 2, 7, 8} : h[at[k]].life = life /\ h[at[k]].routes = routes
      BY <1>4, <3>1 DEF Tables
    <3>3. /\ first.life = h[at[1]].life /\ first.routes = h[at[2]].routes
          /\ second.life = h[at[7]].life /\ second.routes = h[at[8]].routes
      BY <1>5 DEF Recorded, Known
    <3> QED
      BY <3>2, <3>3
  <2>2. \A x \in Listener : (x \in first.bound <=> x \in bound)
                            /\ (x \in second.bound <=> x \in bound)
    <3> TAKE x \in Listener
    <3>1. /\ 12 >= x.table /\ 12 >= x.table + 6
          /\ x.table \in 1 .. 12 /\ x.table + 6 \in 1 .. 12
      BY ListenerTables
    <3>2. /\ x \in first.bound <=> x \in h[at[x.table]].bound
          /\ x \in second.bound <=> x \in h[at[x.table + 6]].bound
      BY <1>5, <3>1 DEF Recorded, Known
    <3> QED
      BY <1>4, <3>1, <3>2 DEF Tables
  <2>3. first.bound \subseteq Listener /\ second.bound \subseteq Listener /\ bound \subseteq Listener
    BY TablesType DEF GateTypeOK, Reading
  <2> QED
    BY <2>1, <2>2, <2>3
<1>7. AssociationsComplete(first) /\ AssociationsComplete(second)
  BY <1>6 DEF AssociationsComplete, GateTypeOK
<1>8. HeldStill
  BY <1>6 DEF HeldStill, ConflictingListeners
<1>9. CanStart <=> Harmless(life, routes) /\ Unbound(bound)
  BY <1>6, <1>7, <1>8, ConflictsAre DEF CanStart, Harmless
<1>10. ~ Obstructed(Tables) <=> Harmless(life, routes) /\ Unbound(bound)
  BY ObstructedIs DEF GateTypeOK, Tables
<1> QED
  BY <1>3, <1>9, <1>10

LEMMA CaptureStep == CaptureInvariant /\ [Next]_vars => CaptureInvariant'
<1> SUFFICES ASSUME CaptureInvariant, [Next]_vars PROVE CaptureInvariant'
  OBVIOUS
<1>1. GateTypeOK /\ GateTypeOK'
  BY TypeStep DEF CaptureInvariant
<1>2. phase = "capture" => \E h, at : Recorded(h, at)
  BY DEF CaptureInvariant
<1>3. QuietNetworkIsJudgedRightly
  BY DEF CaptureInvariant
<1> DEFINE Kept == /\ (phase = "capture" => \E h, at : Recorded(h, at))'
                   /\ QuietNetworkIsJudgedRightly'
<1>4. CASE BeginCapture
  <2>1. \E h, at : Recorded(h, at)'
    BY <1>1, <1>4, RecordBegins
  <2>2. phase' = "capture"
    BY <1>4 DEF BeginCapture
  <2> QED
    BY <1>1, <2>1, <2>2 DEF CaptureInvariant, QuietNetworkIsJudgedRightly
<1>5. CASE ChangeDuring
  <2>1. phase = "capture" /\ phase' = "capture"
    BY <1>5 DEF ChangeDuring, Change
  <2>2. \E h, at : Recorded(h, at)'
    BY <1>1, <1>2, <1>5, <2>1, RecordGrows
  <2> QED
    BY <1>1, <2>1, <2>2 DEF CaptureInvariant, QuietNetworkIsJudgedRightly
<1>6. CASE ReadFirst \/ ReadSecond
  <2>1. phase = "capture" /\ phase' = "capture"
    BY <1>6 DEF ReadFirst, ReadSecond
  <2>2. \E h, at : Recorded(h, at)'
    BY <1>1, <1>2, <1>6, <2>1, RecordRead
  <2> QED
    BY <1>1, <2>1, <2>2 DEF CaptureInvariant, QuietNetworkIsJudgedRightly
<1>7. CASE Evaluate
  <2>1. PICK h, at : Recorded(h, at)
    BY <1>2, <1>7 DEF Evaluate
  <2>2. changes = 0 => (CanStart <=> free)
    BY <1>1, <1>7, <2>1, QuietVerdict
  <2>3. phase' \in {"approved", "refused"} /\ (phase' = "refused" => ~ CanStart)
    BY <1>7 DEF Evaluate
  <2>4. changes' = changes /\ free' = free
    BY <1>7 DEF Evaluate, history
  <2> QED
    BY <1>1, <2>2, <2>3, <2>4 DEF CaptureInvariant, QuietNetworkIsJudgedRightly
<1>8. CASE ChangeBefore \/ LaunchCore \/ TunChanges \/ LookAtTun \/ EndLook \/ Over
  <2>1. phase' \in {"idle", "wait", "connected"}
    BY <1>8 DEF ChangeBefore, Change, LaunchCore, TunChanges, LookAtTun,
         EndLook, Over
  <2> QED
    BY <1>1, <2>1 DEF CaptureInvariant, QuietNetworkIsJudgedRightly
<1>9. CASE UNCHANGED vars
  <2>1. /\ phase' = phase /\ changes' = changes /\ free' = free /\ steady6' = steady6
        /\ reads' = reads /\ first' = first /\ second' = second /\ Tables' = Tables
    BY <1>9 DEF vars, tables, history, Tables
  <2>2. \A h, at : Recorded(h, at)' <=> Recorded(h, at)
    BY <2>1 DEF Recorded, Known
  <2> QED
    BY <1>1, <1>2, <1>3, <2>1, <2>2 DEF CaptureInvariant, QuietNetworkIsJudgedRightly
<1> QED
  BY <1>4, <1>5, <1>6, <1>7, <1>8, <1>9 DEF Next

LEMMA CaptureInvariantHolds == Spec => []CaptureInvariant
<1>1. Init => CaptureInvariant
  BY TypeInit DEF Init, CaptureInvariant, QuietNetworkIsJudgedRightly
<1> QED
  BY <1>1, CaptureStep, PTL DEF Spec

\* On a network that holds still nothing is refused without a reason.
THEOREM QuietNetworksAreJudgedRightly == Spec => []QuietNetworkIsJudgedRightly
<1>1. CaptureInvariant => QuietNetworkIsJudgedRightly
  BY DEF CaptureInvariant
<1> QED
  BY <1>1, CaptureInvariantHolds, PTL

\* Twelve reads and not more than three changes: what was approved was there.
LEMMA ApprovalStep ==
  ASSUME MaxChanges <= 3, CaptureInvariant, ApprovalIsGrounded, [Next]_vars
  PROVE  ApprovalIsGrounded'
<1>1. CASE Evaluate
  <2> SUFFICES ASSUME CanStart PROVE free /\ (steady6 => NeedsIpv6(second))
    BY <1>1 DEF Evaluate, ApprovalIsGrounded, history
  <2>1. PICK h, at : Recorded(h, at)
    BY <1>1 DEF CaptureInvariant, Evaluate
  <2>2. reads = 12
    BY <1>1 DEF Evaluate
  <2>3. MaxChanges \in 0 .. 3
    BY GateAssumption
  <2>4. Story(h, MaxChanges)
    BY <2>1 DEF Recorded, Story
  <2>5. \A k \in 1 .. 12 : at[k] \in 0 .. MaxChanges
    BY <2>1 DEF Recorded
  <2>6. /\ first.routes = h[at[2]].routes
        /\ second.life = h[at[7]].life /\ second.routes = h[at[8]].routes
        /\ at[7] <= at[8]
    BY <2>1, <2>2 DEF Recorded, Known
  <2>7. /\ first.routes = second.routes /\ Harmless(second.life, second.routes)
        /\ Unbound(first.bound) /\ Unbound(second.bound)
    BY ConflictsAre DEF CanStart, HeldStill, Harmless
  <2>a. PICK f : f = [k \in 3 .. 6 |-> at[k + 6]]
    OBVIOUS
  <2>b. ASSUME NEW k \in 3 .. 6
        PROVE  /\ at[k] \in 0 .. MaxChanges /\ f[k] \in 0 .. MaxChanges
               /\ at[2] <= at[k] /\ at[k] <= at[7] /\ at[8] <= f[k]
    <3>1. k \in 1 .. 12 /\ k + 6 \in 1 .. 12 /\ 2 <= k /\ k <= 7 /\ 8 <= k + 6
      OBVIOUS
    <3>2. f[k] = at[k + 6]
      BY <2>a
    <3>3. \A i \in 1 .. 12 : \A j \in 1 .. 12 : i <= j => at[i] <= at[j]
      BY <2>1 DEF Recorded
    <3> QED
      BY <2>5, <3>1, <3>2, <3>3
  <2>c. ASSUME NEW x \in Listener, Conflicting(x)
        PROVE  x \notin h[at[x.table]].bound /\ x \notin h[f[x.table]].bound
    <3>1. x.table \in 3 .. 6 /\ 12 >= x.table /\ 12 >= x.table + 6
      BY ListenerTables
    <3>2. x \notin first.bound /\ x \notin second.bound
      BY <2>7, <2>c DEF Unbound
    <3>3. /\ x \in first.bound <=> x \in h[at[x.table]].bound
          /\ x \in second.bound <=> x \in h[at[x.table + 6]].bound
      BY <2>1, <2>2, <3>1 DEF Recorded, Known
    <3>4. f[x.table] = at[x.table + 6]
      BY <2>a, <3>1
    <3> QED
      BY <3>2, <3>3, <3>4
  <2>8. Seen(h, MaxChanges, second.routes, at[2], at, at[7], at[8], f)
    BY <2>5, <2>6, <2>7, <2>b, <2>c DEF Seen
  <2>9. Grounded(h, MaxChanges, second.routes, at[7])
    BY <2>3, <2>4, <2>8, ThreeChangesDeceiveNobody
  <2>10. free
    <3>1. PICK i \in 0 .. MaxChanges : Harmless(h[i].life, h[i].routes) /\ Unbound(h[i].bound)
      BY <2>9 DEF Grounded
    <3>2. h[i] \in Reading
      BY <2>4 DEF Story
    <3>3. ~ Obstructed(h[i])
      BY <3>1, <3>2, ObstructedIs
    <3> QED
      BY <2>1, <3>3 DEF Recorded
  <2>11. steady6 => NeedsIpv6(second)
    BY <2>1, <2>6, <2>9 DEF Recorded, Grounded, NeedsIpv6
  <2> QED
    BY <2>10, <2>11
<1>2. CASE ~ Evaluate
  <2>1. phase' = "approved" => UNCHANGED <<phase, free, steady6, needs6>>
    BY <1>2 DEF Next, ChangeBefore, ChangeDuring, Change, BeginCapture, ReadFirst, ReadSecond,
         LaunchCore, TunChanges, LookAtTun, EndLook, Over, vars, history
  <2> QED
    BY <2>1 DEF ApprovalIsGrounded
<1> QED
  BY <1>1, <1>2

\* Though six tables cannot be read at once, a connect goes on only if the
\* network was as it saw it, for any adapters, routes and width of addresses, as
\* long as other software changes it not more than three times meanwhile.  Four
\* changes deceive it: a listener is there while an adapter is not.
THEOREM ApprovalsAreGrounded ==
  ASSUME MaxChanges <= 3
  PROVE  Spec => []ApprovalIsGrounded
<1>1. Init => ApprovalIsGrounded
  BY DEF Init, ApprovalIsGrounded
<1>2. CaptureInvariant /\ ApprovalIsGrounded /\ [Next]_vars => ApprovalIsGrounded'
  BY ApprovalStep
<1> QED
  BY <1>1, <1>2, CaptureInvariantHolds, PTL DEF Spec

=============================================================================
