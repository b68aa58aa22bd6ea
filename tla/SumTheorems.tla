----------------------------- MODULE SumTheorems -----------------------------
(***************************************************************************)
(* Sums of the values of a function over a finite set, as the community    *)
(* modules define them (Functions.SumFunctionOnSet): the facts the proofs  *)
(* about money and days need, for every finite set.                        *)
(*                                                                         *)
(* The sum is a recursive function on the subsets of the set.  The         *)
(* induction on the size of a set is by a smallest counterexample, which   *)
(* WFMin provides: it quantifies over sets, so the provers can instantiate *)
(* it, as they cannot the induction theorems, which take an operator.  So  *)
(* is the existence of a function defined by recursion on 0..n.            *)
(***************************************************************************)
EXTENDS Functions, FiniteSets, FiniteSetTheorems, WellFoundedInduction, TLAPS

Less == {ss \in Nat \X Nat : ss[1] < ss[2]}

\* A set of natural numbers that holds 0 and with each number the next holds all.
LEMMA NatInductiveSet ==
    ASSUME NEW T, T \subseteq Nat, 0 \in T, \A n \in Nat : n \in T => n + 1 \in T
    PROVE  T = Nat
<1>1. SUFFICES ASSUME T # Nat PROVE FALSE
  OBVIOUS
<1>2. PICK m \in Nat \ T : \A k \in Nat \ T : <<k, m>> \notin Less
  <2>1. IsWellFoundedOn(Less, Nat)
    BY NatLessThanWellFounded DEF OpToRel, Less
  <2>2. Nat \ T \subseteq Nat /\ Nat \ T # {}
    BY <1>1
  <2>. QED  BY <2>1, <2>2, WFMin
<1>3. m - 1 \in Nat /\ m = (m - 1) + 1
  OBVIOUS
<1>4. <<m - 1, m>> \in Less
  BY <1>3 DEF Less
<1>5. m - 1 \in T
  BY <1>2, <1>3, <1>4
<1>. QED  BY <1>3, <1>5

-----------------------------------------------------------------------------
Pick(s) == CHOOSE x \in s : TRUE

LEMMA PickIsMember ==
    ASSUME NEW s, s # {}
    PROVE  Pick(s) \in s
BY DEF Pick

\* One element less.
LEMMA OneLess ==
    ASSUME NEW S, IsFiniteSet(S), NEW x \in S
    PROVE  /\ IsFiniteSet(S \ {x})
           /\ Cardinality(S) \in Nat /\ Cardinality(S \ {x}) \in Nat
           /\ Cardinality(S) = Cardinality(S \ {x}) + 1
BY FS_RemoveElement, FS_CardinalityType

\* g is the sum of f on every set of D, a set of sets closed under Pick's removal.
Sums(f, g, D) ==
    g = [s \in D |-> IF s = {} THEN 0 ELSE f[Pick(s)] + g[s \ {Pick(s)}]]

LEMMA SumIsChosen ==
    ASSUME NEW f, NEW S
    PROVE  SumFunctionOnSet(f, S) = (CHOOSE g : Sums(f, g, SUBSET S))[S]
BY DEF SumFunctionOnSet, FoldFunctionOnSet, MapThenFoldSet, Pick, Sums

\* The recursion has a solution, built up over the sizes of the subsets.
LEMMA SumsExist ==
    ASSUME NEW f, NEW S, IsFiniteSet(S)
    PROVE  \E g : Sums(f, g, SUBSET S)
<1>. DEFINE Small(n) == {s \in SUBSET S : Cardinality(s) <= n}
            T == {n \in Nat : \E g : Sums(f, g, Small(n))}
<1>1. \A s \in SUBSET S : IsFiniteSet(s) /\ Cardinality(s) \in Nat /\ Cardinality(s) <= Cardinality(S)
  BY FS_Subset, FS_CardinalityType
<1>2. Cardinality(S) \in Nat
  BY FS_CardinalityType
<1>3. \A s \in SUBSET S : s # {} => /\ s \ {Pick(s)} \in SUBSET S
                                    /\ Cardinality(s) = Cardinality(s \ {Pick(s)}) + 1
  BY <1>1, OneLess, PickIsMember
<1>4. 0 \in T
  <2>1. \A s \in SUBSET S : Cardinality(s) <= 0 => s = {}
    BY <1>1, FS_EmptySet
  <2>2. \A s \in Small(0) : s = {}
    BY <2>1
  <2>3. [s \in Small(0) |-> 0] = [s \in Small(0) |-> IF s = {} THEN 0 ELSE f[Pick(s)] + [t \in Small(0) |-> 0][s \ {Pick(s)}]]
    BY <2>2
  <2>. QED  BY <2>3 DEF Sums
<1>5. ASSUME NEW n \in Nat, n \in T
      PROVE  n + 1 \in T
  <2>1. PICK g : Sums(f, g, Small(n))
    BY <1>5
  <2>. DEFINE h == [s \in Small(n + 1) |->
                       IF s = {} THEN 0 ELSE f[Pick(s)] + g[s \ {Pick(s)}]]
  <2>2. \A s \in Small(n) : s \in Small(n + 1) /\ h[s] = g[s]
    <3>1. \A s \in Small(n) : s \in Small(n + 1)
      BY <1>1
    <3>2. \A s \in Small(n) : g[s] = IF s = {} THEN 0 ELSE f[Pick(s)] + g[s \ {Pick(s)}]
      BY <2>1 DEF Sums
    <3>. QED  BY <3>1, <3>2
  <2>3. \A s \in Small(n + 1) : s # {} => s \ {Pick(s)} \in Small(n)
    BY <1>1, <1>3
  <2>4. \A s \in Small(n + 1) : s # {} => h[s \ {Pick(s)}] = g[s \ {Pick(s)}]
    BY <2>2, <2>3
  <2>5. h = [s \in Small(n + 1) |-> IF s = {} THEN 0 ELSE f[Pick(s)] + h[s \ {Pick(s)}]]
    BY <2>4
  <2>6. Sums(f, h, Small(n + 1))
    BY <2>5 DEF Sums
  <2>7. n + 1 \in Nat /\ \E k : Sums(f, k, Small(n + 1))
    <3>. HIDE DEF h, Small
    <3>. QED  BY <2>6
  <2>. QED  BY <2>7
<1>6. T = Nat
  <2>. HIDE DEF T
  <2>1. T \subseteq Nat
    BY DEF T
  <2>. QED  BY <1>4, <1>5, <2>1, NatInductiveSet
<1>7. Small(Cardinality(S)) = SUBSET S
  BY <1>1
<1>. QED  BY <1>2, <1>6, <1>7

\* ... and only one, on the sets two solutions share.
LEMMA SumsAgree ==
    ASSUME NEW f, NEW S, IsFiniteSet(S), NEW U \in SUBSET S, NEW g, NEW h,
           Sums(f, g, SUBSET S), Sums(f, h, SUBSET U)
    PROVE  \A s \in SUBSET U : g[s] = h[s]
<1>. DEFINE T == {n \in Nat : \A s \in SUBSET U : Cardinality(s) = n => g[s] = h[s]}
<1>1. \A s \in SUBSET U : IsFiniteSet(s) /\ Cardinality(s) \in Nat
  BY FS_Subset, FS_CardinalityType
<1>2. \A s \in SUBSET U :
         /\ g[s] = IF s = {} THEN 0 ELSE f[Pick(s)] + g[s \ {Pick(s)}]
         /\ h[s] = IF s = {} THEN 0 ELSE f[Pick(s)] + h[s \ {Pick(s)}]
  BY DEF Sums
<1>3. 0 \in T
  BY <1>1, <1>2, FS_EmptySet
<1>4. ASSUME NEW n \in Nat, n \in T
      PROVE  n + 1 \in T
  <2>1. ASSUME NEW s \in SUBSET U, Cardinality(s) = n + 1
        PROVE  g[s] = h[s]
    <3>1. s # {}
      <4>1. Cardinality({}) = 0 /\ n + 1 # 0
        BY FS_EmptySet
      <4>. QED  BY <2>1, <4>1
    <3>2. s \ {Pick(s)} \in SUBSET U /\ Cardinality(s \ {Pick(s)}) = n
      BY <1>1, <2>1, <3>1, OneLess, PickIsMember
    <3>3. g[s \ {Pick(s)}] = h[s \ {Pick(s)}]
      BY <1>4, <3>2
    <3>. QED  BY <1>2, <3>1, <3>3
  <2>. QED  BY <2>1
<1>5. T = Nat
  <2>. HIDE DEF T
  <2>1. T \subseteq Nat
    BY DEF T
  <2>. QED  BY <1>3, <1>4, <2>1, NatInductiveSet
<1>. QED  BY <1>1, <1>5

-----------------------------------------------------------------------------
LEMMA SumEmpty ==
    ASSUME NEW f
    PROVE  SumFunctionOnSet(f, {}) = 0
<1>1. Sums(f, CHOOSE g : Sums(f, g, SUBSET {}), SUBSET {})
  BY SumsExist, FS_EmptySet
<1>. QED  BY <1>1, SumIsChosen DEF Sums

\* The element that the definition takes out first.
LEMMA SumPick ==
    ASSUME NEW f, NEW S, IsFiniteSet(S), S # {}
    PROVE  SumFunctionOnSet(f, S) = f[Pick(S)] + SumFunctionOnSet(f, S \ {Pick(S)})
<1>. DEFINE U == S \ {Pick(S)}
            g == CHOOSE k : Sums(f, k, SUBSET S)
            h == CHOOSE k : Sums(f, k, SUBSET U)
<1>1. U \in SUBSET S /\ IsFiniteSet(U)
  BY FS_Subset
<1>2. Sums(f, g, SUBSET S)
  BY SumsExist
<1>3. Sums(f, h, SUBSET U)
  BY <1>1, SumsExist
<1>. HIDE DEF g, h
<1>4. g[U] = h[U]
  <2>. HIDE DEF U
  <2>1. \A s \in SUBSET U : g[s] = h[s]
    BY <1>1, <1>2, <1>3, SumsAgree
  <2>. QED  BY <2>1
<1>5. g[S] = f[Pick(S)] + g[U]
  BY <1>2 DEF Sums
<1>6. SumFunctionOnSet(f, S) = g[S]
  BY SumIsChosen DEF g
<1>7. SumFunctionOnSet(f, U) = h[U]
  BY SumIsChosen DEF h
<1>. QED  BY <1>4, <1>5, <1>6, <1>7

-----------------------------------------------------------------------------
LEMMA SumType ==
    ASSUME NEW f, NEW S, IsFiniteSet(S), \A x \in S : f[x] \in Int
    PROVE  SumFunctionOnSet(f, S) \in Int
<1>. DEFINE T == {n \in Nat : \A s \in SUBSET S :
                                 Cardinality(s) = n => SumFunctionOnSet(f, s) \in Int}
<1>1. \A s \in SUBSET S : IsFiniteSet(s) /\ Cardinality(s) \in Nat
  BY FS_Subset, FS_CardinalityType
<1>2. 0 \in T
  <2>1. \A s \in SUBSET S : Cardinality(s) = 0 => s = {}
    BY <1>1, FS_EmptySet
  <2>2. SumFunctionOnSet(f, {}) \in Int
    BY SumEmpty
  <2>. QED  BY <2>1, <2>2
<1>3. ASSUME NEW n \in Nat, n \in T
      PROVE  n + 1 \in T
  <2>1. ASSUME NEW s \in SUBSET S, Cardinality(s) = n + 1
        PROVE  SumFunctionOnSet(f, s) \in Int
    <3>1. s # {}
      <4>1. Cardinality({}) = 0 /\ n + 1 # 0
        BY FS_EmptySet
      <4>. QED  BY <2>1, <4>1
    <3>2. /\ Pick(s) \in s /\ s \ {Pick(s)} \in SUBSET S
          /\ Cardinality(s \ {Pick(s)}) = n
      BY <1>1, <2>1, <3>1, OneLess, PickIsMember
    <3>3. SumFunctionOnSet(f, s \ {Pick(s)}) \in Int
      BY <1>3, <3>2
    <3>4. SumFunctionOnSet(f, s) = f[Pick(s)] + SumFunctionOnSet(f, s \ {Pick(s)})
      BY <1>1, <3>1, SumPick
    <3>. QED  BY <3>2, <3>3, <3>4
  <2>. QED  BY <2>1
<1>4. T = Nat
  <2>. HIDE DEF T
  <2>1. T \subseteq Nat
    BY DEF T
  <2>. QED  BY <1>2, <1>3, <2>1, NatInductiveSet
<1>. QED  BY <1>1, <1>4

\* Any element may be taken out.
LEMMA SumRemove ==
    ASSUME NEW f, NEW S, IsFiniteSet(S), \A x \in S : f[x] \in Int, NEW a \in S
    PROVE  SumFunctionOnSet(f, S) = f[a] + SumFunctionOnSet(f, S \ {a})
<1>. DEFINE Sum(s) == SumFunctionOnSet(f, s)
            Good(s) == \A x \in s : Sum(s) = f[x] + Sum(s \ {x})
            T == {n \in Nat : \A s \in SUBSET S : Cardinality(s) = n => Good(s)}
<1>1. \A s \in SUBSET S : IsFiniteSet(s) /\ Cardinality(s) \in Nat
  BY FS_Subset, FS_CardinalityType
<1>0. \A s \in SUBSET S : Sum(s) \in Int
  BY <1>1, SumType
<1>2. 0 \in T
  <2>1. \A s \in SUBSET S : Cardinality(s) = 0 => s = {}
    BY <1>1, FS_EmptySet
  <2>. HIDE DEF Sum
  <2>. QED  BY <2>1
<1>3. ASSUME NEW n \in Nat, n \in T
      PROVE  n + 1 \in T
  <2>1. ASSUME NEW s \in SUBSET S, Cardinality(s) = n + 1, NEW x \in s
        PROVE  Sum(s) = f[x] + Sum(s \ {x})
    <3>. DEFINE p == Pick(s)
    <3>1. p \in s
      BY PickIsMember
    <3>2. Sum(s) = f[p] + Sum(s \ {p})
      BY <1>1, SumPick
    <3>. HIDE DEF p, Sum
    <3>3. CASE x = p
      BY <3>2, <3>3
    <3>4. CASE x # p
      <4>1. \A y \in s : s \ {y} \in SUBSET S /\ Cardinality(s \ {y}) = n
        BY <1>1, <2>1, OneLess
      <4>2. x \in s \ {p} /\ p \in s \ {x}
        BY <3>1, <3>4
      <4>3. Sum(s \ {p}) = f[x] + Sum((s \ {p}) \ {x})
        BY <1>3, <3>1, <4>1, <4>2
      <4>4. Sum(s \ {x}) = f[p] + Sum((s \ {x}) \ {p})
        BY <1>3, <4>1, <4>2
      <4>5. PICK v \in Int : v = Sum((s \ {x}) \ {p})
        <5>1. (s \ {x}) \ {p} \in SUBSET S
          OBVIOUS
        <5>. QED  BY <1>0, <5>1
      <4>6. (s \ {p}) \ {x} = (s \ {x}) \ {p}
        OBVIOUS
      <4>7. Sum(s \ {p}) = f[x] + v
        BY <4>3, <4>5, <4>6
      <4>8. Sum(s \ {x}) = f[p] + v
        BY <4>4, <4>5
      <4>9. f[x] \in Int /\ f[p] \in Int
        BY <3>1
      <4>10. f[p] + (f[x] + v) = f[x] + (f[p] + v)
        BY <4>9
      <4>. QED  BY <3>2, <4>7, <4>8, <4>10
    <3>. QED  BY <3>3, <3>4
  <2>. HIDE DEF Sum
  <2>. QED  BY <2>1
<1>4. T = Nat
  <2>. HIDE DEF T
  <2>1. T \subseteq Nat
    BY DEF T
  <2>. QED  BY <1>2, <1>3, <2>1, NatInductiveSet
<1>. QED  BY <1>1, <1>4

\* The sum depends on the values on the set only, and grows with them.
LEMMA SumMonotone ==
    ASSUME NEW f, NEW g, NEW S, IsFiniteSet(S),
           \A x \in S : f[x] \in Int /\ g[x] \in Int /\ f[x] <= g[x]
    PROVE  SumFunctionOnSet(f, S) <= SumFunctionOnSet(g, S)
<1>. DEFINE Good(s) == SumFunctionOnSet(f, s) <= SumFunctionOnSet(g, s)
            T == {n \in Nat : \A s \in SUBSET S : Cardinality(s) = n => Good(s)}
<1>1. \A s \in SUBSET S : IsFiniteSet(s) /\ Cardinality(s) \in Nat
  BY FS_Subset, FS_CardinalityType
<1>2. 0 \in T
  <2>1. \A s \in SUBSET S : Cardinality(s) = 0 => s = {}
    BY <1>1, FS_EmptySet
  <2>2. Good({})
    BY SumEmpty
  <2>. HIDE DEF Good
  <2>. QED  BY <2>1, <2>2
<1>3. ASSUME NEW n \in Nat, n \in T
      PROVE  n + 1 \in T
  <2>1. ASSUME NEW s \in SUBSET S, Cardinality(s) = n + 1
        PROVE  Good(s)
    <3>. DEFINE p == Pick(s)
                u == s \ {p}
    <3>1. s # {}
      <4>1. Cardinality({}) = 0 /\ n + 1 # 0
        BY FS_EmptySet
      <4>. QED  BY <2>1, <4>1
    <3>2. p \in s /\ u \in SUBSET S /\ Cardinality(u) = n
      BY <1>1, <2>1, <3>1, OneLess, PickIsMember
    <3>3. SumFunctionOnSet(f, s) = f[p] + SumFunctionOnSet(f, u)
      BY <1>1, <3>1, SumPick
    <3>4. SumFunctionOnSet(g, s) = g[p] + SumFunctionOnSet(g, u)
      BY <1>1, <3>1, SumPick
    <3>. HIDE DEF p, u
    <3>5. SumFunctionOnSet(f, u) \in Int /\ SumFunctionOnSet(g, u) \in Int
      <4>1. IsFiniteSet(u) /\ \A x \in u : f[x] \in Int /\ g[x] \in Int
        BY <1>1, <3>2
      <4>. QED  BY <4>1, SumType
    <3>6. Good(u)
      BY <1>3, <3>2
    <3>7. f[p] \in Int /\ g[p] \in Int /\ f[p] <= g[p]
      BY <3>2
    <3>. QED  BY <3>3, <3>4, <3>5, <3>6, <3>7
  <2>. HIDE DEF Good
  <2>. QED  BY <2>1
<1>4. T = Nat
  <2>. HIDE DEF T
  <2>1. T \subseteq Nat
    BY DEF T
  <2>. QED  BY <1>2, <1>3, <2>1, NatInductiveSet
<1>. QED  BY <1>1, <1>4

LEMMA SumExtensional ==
    ASSUME NEW f, NEW g, NEW S, IsFiniteSet(S),
           \A x \in S : f[x] \in Int /\ g[x] = f[x]
    PROVE  SumFunctionOnSet(g, S) = SumFunctionOnSet(f, S)
<1>1. SumFunctionOnSet(g, S) \in Int /\ SumFunctionOnSet(f, S) \in Int
  BY SumType
<1>2. SumFunctionOnSet(f, S) <= SumFunctionOnSet(g, S)
  BY SumMonotone
<1>3. SumFunctionOnSet(g, S) <= SumFunctionOnSet(f, S)
  BY SumMonotone
<1>. QED  BY <1>1, <1>2, <1>3

LEMMA SumOfZeros ==
    ASSUME NEW f, NEW S, IsFiniteSet(S), \A x \in S : f[x] = 0
    PROVE  SumFunctionOnSet(f, S) = 0
<1>. DEFINE T == {n \in Nat : \A s \in SUBSET S : Cardinality(s) = n => SumFunctionOnSet(f, s) = 0}
<1>1. \A s \in SUBSET S : IsFiniteSet(s) /\ Cardinality(s) \in Nat
  BY FS_Subset, FS_CardinalityType
<1>2. 0 \in T
  <2>1. \A s \in SUBSET S : Cardinality(s) = 0 => s = {}
    BY <1>1, FS_EmptySet
  <2>2. SumFunctionOnSet(f, {}) = 0
    BY SumEmpty
  <2>. QED  BY <2>1, <2>2
<1>3. ASSUME NEW n \in Nat, n \in T
      PROVE  n + 1 \in T
  <2>1. ASSUME NEW s \in SUBSET S, Cardinality(s) = n + 1
        PROVE  SumFunctionOnSet(f, s) = 0
    <3>1. s # {}
      <4>1. Cardinality({}) = 0 /\ n + 1 # 0
        BY FS_EmptySet
      <4>. QED  BY <2>1, <4>1
    <3>2. /\ Pick(s) \in s /\ s \ {Pick(s)} \in SUBSET S
          /\ Cardinality(s \ {Pick(s)}) = n
      BY <1>1, <2>1, <3>1, OneLess, PickIsMember
    <3>3. SumFunctionOnSet(f, s \ {Pick(s)}) = 0
      BY <1>3, <3>2
    <3>4. SumFunctionOnSet(f, s) = f[Pick(s)] + SumFunctionOnSet(f, s \ {Pick(s)})
      BY <1>1, <3>1, SumPick
    <3>. QED  BY <3>2, <3>3, <3>4
  <2>. QED  BY <2>1
<1>4. T = Nat
  <2>. HIDE DEF T
  <2>1. T \subseteq Nat
    BY DEF T
  <2>. QED  BY <1>2, <1>3, <2>1, NatInductiveSet
<1>. QED  BY <1>1, <1>4

\* A sum of numbers that are not negative is not negative, and at least each.
LEMMA SumOfNaturals ==
    ASSUME NEW f, NEW S, IsFiniteSet(S), \A x \in S : f[x] \in Nat
    PROVE  /\ SumFunctionOnSet(f, S) \in Nat
           /\ \A x \in S : SumFunctionOnSet(f, S) >= f[x]
<1>1. ASSUME NEW s \in SUBSET S
      PROVE  SumFunctionOnSet(f, s) \in Nat
  <2>. DEFINE zero == [x \in s |-> 0]
  <2>1. IsFiniteSet(s)
    BY FS_Subset
  <2>2. SumFunctionOnSet(zero, s) = 0
    BY <2>1, SumOfZeros
  <2>3. SumFunctionOnSet(zero, s) <= SumFunctionOnSet(f, s)
    BY <2>1, SumMonotone
  <2>4. SumFunctionOnSet(f, s) \in Int
    BY <2>1, SumType
  <2>. HIDE DEF zero
  <2>. QED  BY <2>2, <2>3, <2>4
<1>2. ASSUME NEW a \in S
      PROVE  SumFunctionOnSet(f, S) >= f[a]
  <2>1. SumFunctionOnSet(f, S) = f[a] + SumFunctionOnSet(f, S \ {a})
    BY SumRemove
  <2>2. SumFunctionOnSet(f, S \ {a}) \in Nat
    BY <1>1
  <2>. QED  BY <2>1, <2>2
<1>. QED  BY <1>1, <1>2

\* One value changes.
LEMMA SumUpdate ==
    ASSUME NEW f, NEW g, NEW S, IsFiniteSet(S), NEW a \in S,
           \A x \in S : f[x] \in Int, g[a] \in Int,
           \A x \in S \ {a} : g[x] = f[x]
    PROVE  SumFunctionOnSet(g, S) = SumFunctionOnSet(f, S) - f[a] + g[a]
<1>1. IsFiniteSet(S \ {a})
  BY FS_Subset
<1>2. SumFunctionOnSet(f, S) = f[a] + SumFunctionOnSet(f, S \ {a})
  BY SumRemove
<1>3. SumFunctionOnSet(g, S) = g[a] + SumFunctionOnSet(g, S \ {a})
  <2>1. \A x \in S : g[x] \in Int
    OBVIOUS
  <2>. QED  BY <2>1, SumRemove
<1>4. SumFunctionOnSet(g, S \ {a}) = SumFunctionOnSet(f, S \ {a})
  BY <1>1, SumExtensional
<1>5. SumFunctionOnSet(f, S \ {a}) \in Int
  BY <1>1, SumType
<1>. QED  BY <1>2, <1>3, <1>4, <1>5

-----------------------------------------------------------------------------
\* f is defined by recursion on 0..n from base, by F.
Recursive(f, base, F, n) == f[0] = base /\ \A k \in 1..n : f[k] = F[<<k, f[k - 1]>>]

\* What a recursive function is chosen from exists.
LEMMA RecursionExists ==
    ASSUME NEW V, NEW base \in V, NEW F \in [Nat \X V -> V], NEW n \in Nat
    PROVE  \E f \in [0..n -> V] : Recursive(f, base, F, n)
<1>. DEFINE Good(m, f) == f[0] = base /\ \A k \in 1..m : f[k] = F[<<k, f[k - 1]>>]
            T == {m \in Nat : \E f \in [0..m -> V] : Good(m, f)}
<1>1. 0 \in T
  <2>. DEFINE f == [k \in 0..0 |-> base]
  <2>1. f \in [0..0 -> V] /\ Good(0, f)
    OBVIOUS
  <2>. QED  BY <2>1
<1>2. ASSUME NEW m \in Nat, m \in T
      PROVE  m + 1 \in T
  <2>1. PICK f \in [0..m -> V] : Good(m, f)
    BY <1>2
  <2>. DEFINE g == [k \in 0..(m + 1) |-> IF k = m + 1 THEN F[<<m + 1, f[m]>>] ELSE f[k]]
  <2>2. f[m] \in V /\ F[<<m + 1, f[m]>>] \in V
    OBVIOUS
  <2>3. g \in [0..(m + 1) -> V]
    BY <2>2
  <2>4. g[0] = base
    BY <2>1
  <2>5. ASSUME NEW k \in 1..(m + 1)
        PROVE  g[k] = F[<<k, g[k - 1]>>]
    <3>1. CASE k = m + 1
      <4>1. k - 1 = m /\ m \in 0..(m + 1) /\ m # m + 1 /\ m + 1 \in 0..(m + 1)
        BY <3>1
      <4>2. g[m] = f[m] /\ g[m + 1] = F[<<m + 1, f[m]>>]
        BY <4>1
      <4>. HIDE DEF g
      <4>. QED  BY <3>1, <4>1, <4>2
    <3>2. CASE k # m + 1
      <4>1. k \in 1..m /\ k - 1 \in 0..m /\ k \in 0..m
        BY <3>2
      <4>2. g[k] = f[k] /\ g[k - 1] = f[k - 1]
        BY <4>1
      <4>. QED  BY <2>1, <4>1, <4>2
    <3>. QED  BY <3>1, <3>2
  <2>. HIDE DEF g
  <2>. QED  BY <2>3, <2>4, <2>5
<1>3. T = Nat
  <2>. HIDE DEF T
  <2>1. T \subseteq Nat
    BY DEF T
  <2>. QED  BY <1>1, <1>2, <2>1, NatInductiveSet
<1>. QED  BY <1>3 DEF Recursive

LEMMA SumNext ==
    ASSUME NEW n \in Nat, NEW f, \A k \in 1..n : f[k] \in Int, NEW k \in 1..n
    PROVE  SumFunctionOnSet(f, 1..k) = SumFunctionOnSet(f, 1..(k - 1)) + f[k]
<1>1. IsFiniteSet(1..k) /\ IsFiniteSet(1..(k - 1)) /\ (1..k) \ {k} = 1..(k - 1)
  BY FS_Interval
<1>2. SumFunctionOnSet(f, 1..k) = f[k] + SumFunctionOnSet(f, (1..k) \ {k})
  BY <1>1, SumRemove
<1>3. SumFunctionOnSet(f, 1..(k - 1)) \in Int
  BY <1>1, SumType
<1>4. SumFunctionOnSet(f, 1..k) = f[k] + SumFunctionOnSet(f, 1..(k - 1))
  BY <1>1, <1>2
<1>5. f[k] \in Int
  OBVIOUS
<1>. QED  BY <1>3, <1>4, <1>5

\* A sum whose partial sums are known.
LEMMA SumBySteps ==
    ASSUME NEW n \in Nat, NEW f, NEW s \in [0..n -> Int],
           s[0] = 0, \A k \in 1..n : f[k] \in Int /\ s[k] = s[k - 1] + f[k]
    PROVE  SumFunctionOnSet(f, 1..n) = s[n]
<1>. DEFINE T == {m \in Nat : m <= n => SumFunctionOnSet(f, 1..m) = s[m]}
<1>1. 0 \in T
  <2>1. 1..0 = {}
    OBVIOUS
  <2>. QED  BY <2>1, SumEmpty
<1>2. ASSUME NEW m \in Nat, m \in T
      PROVE  m + 1 \in T
  <2>1. CASE m + 1 <= n
    <3>1. m + 1 \in 1..n /\ (m + 1) - 1 = m /\ m <= n
      BY <2>1
    <3>2. SumFunctionOnSet(f, 1..(m + 1)) = SumFunctionOnSet(f, 1..m) + f[m + 1]
      BY <3>1, SumNext
    <3>3. s[m + 1] = s[m] + f[m + 1]
      BY <3>1
    <3>. QED  BY <1>2, <3>1, <3>2, <3>3
  <2>. QED  BY <2>1
<1>3. T = Nat
  <2>. HIDE DEF T
  <2>1. T \subseteq Nat
    BY DEF T
  <2>. QED  BY <1>1, <1>2, <2>1, NatInductiveSet
<1>. QED  BY <1>3

LEMMA SumPlus ==
    ASSUME NEW n \in Nat, NEW f, NEW g, NEW h,
           \A k \in 1..n : f[k] \in Int /\ g[k] \in Int /\ h[k] = f[k] + g[k]
    PROVE  SumFunctionOnSet(h, 1..n) = SumFunctionOnSet(f, 1..n) + SumFunctionOnSet(g, 1..n)
<1>. DEFINE a == [k \in 0..n |-> SumFunctionOnSet(f, 1..k)]
            b == [k \in 0..n |-> SumFunctionOnSet(g, 1..k)]
            s == [k \in 0..n |-> a[k] + b[k]]
<1>1. ASSUME NEW k \in 0..n
      PROVE  a[k] \in Int /\ b[k] \in Int
  <2>1. IsFiniteSet(1..k) /\ 1..k \subseteq 1..n
    BY FS_Interval
  <2>. QED  BY <2>1, SumType
<1>2. s[0] = 0
  <2>1. 1..0 = {}
    OBVIOUS
  <2>. QED  BY <2>1, SumEmpty
<1>3. ASSUME NEW k \in 1..n
      PROVE  h[k] \in Int /\ s[k] = s[k - 1] + h[k]
  <2>1. k \in 0..n /\ k - 1 \in 0..n
    OBVIOUS
  <2>2. a[k] = a[k - 1] + f[k] /\ b[k] = b[k - 1] + g[k]
    BY <2>1, SumNext
  <2>3. s[k] = a[k] + b[k] /\ s[k - 1] = a[k - 1] + b[k - 1]
    BY <2>1
  <2>4. a[k - 1] \in Int /\ b[k - 1] \in Int
    BY <1>1, <2>1
  <2>. HIDE DEF a, b, s
  <2>. QED  BY <2>2, <2>3, <2>4
<1>4. n \in 0..n /\ s[n] = a[n] + b[n]
  OBVIOUS
<1>5. SumFunctionOnSet(h, 1..n) = s[n]
  <2>1. s \in [0..n -> Int]
    BY <1>1
  <2>2. \A k \in 1..n : h[k] \in Int /\ s[k] = s[k - 1] + h[k]
    BY <1>3
  <2>. HIDE DEF a, b, s
  <2>. QED  BY <1>2, <2>1, <2>2, SumBySteps
<1>. QED  BY <1>4, <1>5

\* s grows by at least what f adds to c times its sum.
Bounds(s, c, f, n) ==
    /\ s \in [0..n -> Int]
    /\ s[0] >= 0
    /\ \A k \in 1..n : f[k] \in Int /\ c * f[k] <= s[k] - s[k - 1]

LEMMA SumWithin ==
    ASSUME NEW n \in Nat, NEW f, NEW c \in Nat, NEW s, Bounds(s, c, f, n)
    PROVE  c * SumFunctionOnSet(f, 1..n) <= s[n]
<1>0. /\ s \in [0..n -> Int] /\ s[0] >= 0
      /\ \A k \in 1..n : f[k] \in Int /\ c * f[k] <= s[k] - s[k - 1]
  BY DEF Bounds
<1>. DEFINE Sum(m) == SumFunctionOnSet(f, 1..m)
            T == {m \in Nat : m <= n => c * Sum(m) <= s[m]}
<1>1. 0 \in T
  <2>1. 1..0 = {}
    OBVIOUS
  <2>2. Sum(0) = 0
    BY <2>1, SumEmpty
  <2>. HIDE DEF Sum
  <2>. QED  BY <1>0, <2>2
<1>2. ASSUME NEW m \in Nat, m \in T
      PROVE  m + 1 \in T
  <2>1. CASE m + 1 <= n
    <3>1. m + 1 \in 1..n /\ (m + 1) - 1 = m /\ m <= n /\ m \in 0..n /\ m + 1 \in 0..n
      BY <2>1
    <3>2. Sum(m + 1) = Sum(m) + f[m + 1]
      BY <1>0, <3>1, SumNext
    <3>3. Sum(m) \in Int
      <4>1. IsFiniteSet(1..m)
        BY FS_Interval
      <4>2. \A k \in 1..m : k \in 1..n
        BY <3>1
      <4>. QED  BY <1>0, <4>1, <4>2, SumType
    <3>. HIDE DEF Sum
    <3>4. c * (Sum(m) + f[m + 1]) = c * Sum(m) + c * f[m + 1]
      BY <1>0, <3>1, <3>3
    <3>5. c * f[m + 1] \in Int /\ c * Sum(m) \in Int /\ s[m] \in Int /\ s[m + 1] \in Int
      BY <1>0, <3>1, <3>3
    <3>6. c * f[m + 1] <= s[m + 1] - s[m] /\ c * Sum(m) <= s[m]
      BY <1>0, <1>2, <3>1
    <3>7. c * Sum(m + 1) <= s[m + 1]
      BY <1>0, <3>1, <3>2, <3>4, <3>5, <3>6
    <3>. QED  BY <3>7
  <2>. QED  BY <2>1
<1>3. T = Nat
  <2>. HIDE DEF T
  <2>1. T \subseteq Nat
    BY DEF T
  <2>. QED  BY <1>1, <1>2, <2>1, NatInductiveSet
<1>4. c * Sum(n) <= s[n]
  <2>. HIDE DEF Sum
  <2>. QED  BY <1>3
<1>. QED  BY <1>4

=============================================================================
