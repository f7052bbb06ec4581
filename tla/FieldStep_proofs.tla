-------------------------- MODULE FieldStep_proofs --------------------------
(***************************************************************************)
(* Proofs about the field part of a time step, for any number of ranks in  *)
(* one to three dimensions, any topology, extents and number of steps.     *)
(***************************************************************************)
EXTENDS FieldStep, CartesianDomain_proofs, FiniteSetTheorems, WellFoundedInduction, TLAPS

-----------------------------------------------------------------------------
(* Sums over finite sets *)

\* A non-empty set of numbers has a least one.
LEMMA LeastOf ==
  ASSUME NEW S \in SUBSET Nat, S # {}
  PROVE  \E n \in S : \A k \in S : n <= k
<1> DEFINE R == OpToRel(<, Nat)
<1>1. \A k, n \in Nat : k < n => <<k, n>> \in R
  BY DEF OpToRel
<1>2. IsWellFoundedOn(R, Nat)
  BY NatLessThanWellFounded
<1> HIDE DEF R
<1>3. \E n \in S : \A k \in S : ~ (<<k, n>> \in R)
  BY <1>2, WFMin
<1>4. PICK n \in S : \A k \in S : ~ (<<k, n>> \in R)
  BY <1>3, Zenon
<1>5. ASSUME NEW k \in S PROVE n <= k
  <2>1. k \in Nat /\ n \in Nat
    OBVIOUS
  <2>2. ~ (k < n)
    BY <1>1, <1>4, <2>1, Zenon
  <2> QED
    BY <2>1, <2>2
<1> QED
  BY <1>5

\* The local function of MapThenSumSet, for summands that are a function.
Summing(w, S, h) ==
  h = [s \in SUBSET S |->
         IF s = {} THEN 0
         ELSE w[CHOOSE e \in s : TRUE] + h[s \ {CHOOSE e \in s : TRUE}]]
Sum(w, S) == (CHOOSE h : Summing(w, S, h))[S]

\* Taking the chosen element out of a finite set.
LEMMA Smaller ==
  ASSUME NEW S, IsFiniteSet(S), S # {}
  PROVE  /\ (CHOOSE e \in S : TRUE) \in S
         /\ Cardinality(S) \in Nat /\ Cardinality(S) # 0
         /\ \A e \in S : /\ IsFiniteSet(S \ {e})
                         /\ Cardinality(S \ {e}) = Cardinality(S) - 1
<1>1. Cardinality(S) \in Nat /\ Cardinality(S) # 0
  BY FS_CardinalityType, FS_EmptySet
<1>2. ASSUME NEW e \in S
      PROVE  IsFiniteSet(S \ {e}) /\ Cardinality(S \ {e}) = Cardinality(S) - 1
  BY <1>2, FS_RemoveElement
<1> QED
  BY <1>1, <1>2

\* There is such a function.
LEMMA SummingExists ==
  ASSUME NEW S, IsFiniteSet(S), NEW w
  PROVE  \E h : Summing(w, S, h)
<1> DEFINE Val(h, s) ==
             IF s = {} THEN 0
             ELSE w[CHOOSE e \in s : TRUE] + h[s \ {CHOOSE e \in s : TRUE}]
           Upto(n, h) == \A s \in SUBSET S : Cardinality(s) <= n => h[s] = Val(h, s)
           Bad == {n \in Nat : ~ \E h : Upto(n, h)}
<1>1. \A s \in SUBSET S : /\ IsFiniteSet(s) /\ Cardinality(s) \in Nat
                          /\ Cardinality(s) <= Cardinality(S)
                          /\ Cardinality(s) = 0 <=> s = {}
  BY FS_Subset, FS_CardinalityType, FS_EmptySet
<1>2. Cardinality(S) \in Nat
  BY FS_CardinalityType
<1>3. Bad = {}
  <2> SUFFICES ASSUME Bad # {} PROVE FALSE
    OBVIOUS
  <2>1. Bad \in SUBSET Nat
    OBVIOUS
  <2> HIDE DEF Bad
  <2>2. PICK n \in Bad : \A i \in Bad : n <= i
    BY <2>1, LeastOf, Zenon
  <2>3. n \in Nat /\ ~ \E h : Upto(n, h)
    BY <2>2 DEF Bad
  <2>4. CASE n = 0
    <3> DEFINE h0 == [s \in SUBSET S |-> 0]
    <3>1. Upto(0, h0)
      <4> SUFFICES ASSUME NEW s \in SUBSET S, Cardinality(s) <= 0 PROVE h0[s] = Val(h0, s)
        OBVIOUS
      <4>1. s = {}
        BY <1>1
      <4> QED
        BY <4>1
    <3> QED
      BY <2>3, <2>4, <3>1
  <2>5. CASE n # 0
    <3>1. n - 1 \in Nat /\ n - 1 \notin Bad
      BY <2>2, <2>3, <2>5
    <3>2. PICK h : Upto(n - 1, h)
      BY <3>1 DEF Bad
    <3> DEFINE g == [s \in SUBSET S |-> Val(h, s)]
    <3>3. Upto(n, g)
      <4> SUFFICES ASSUME NEW s \in SUBSET S, Cardinality(s) <= n PROVE g[s] = Val(g, s)
        OBVIOUS
      <4>1. CASE s = {}
        BY <4>1
      <4>2. CASE s # {}
        <5> DEFINE e == CHOOSE e \in s : TRUE
                   t == s \ {e}
        <5>1. IsFiniteSet(s)
          BY <1>1
        <5>2. e \in s /\ Cardinality(t) = Cardinality(s) - 1
          BY <5>1, <4>2, Smaller
        <5>3. t \in SUBSET S
          OBVIOUS
        <5>4. Cardinality(s) \in Nat
          BY <1>1
        <5>5. Cardinality(t) <= n - 1
          BY <5>2, <5>4, <2>3
        <5> HIDE DEF t
        <5>6. h[t] = Val(h, t)
          BY <3>2, <5>3, <5>5
        <5>7. g[t] = Val(h, t)
          BY <5>3
        <5>8. g[s] = w[e] + h[t]
          BY <4>2 DEF t
        <5>9. Val(g, s) = w[e] + g[t]
          BY <4>2 DEF t
        <5> QED
          BY <5>6, <5>7, <5>8, <5>9
      <4> QED
        BY <4>1, <4>2
    <3> HIDE DEF g, Upto
    <3> QED
      BY <2>3, <3>3
  <2> QED
    BY <2>4, <2>5
<1>4. PICK h : Upto(Cardinality(S), h)
  <2> HIDE DEF Upto
  <2> QED
    BY <1>2, <1>3
<1> DEFINE g == [s \in SUBSET S |-> h[s]]
<1>5. \A s \in SUBSET S : h[s] = Val(h, s)
  BY <1>1, <1>4
<1>6. \A s \in SUBSET S : Val(h, s) = Val(g, s)
  <2> SUFFICES ASSUME NEW s \in SUBSET S PROVE Val(h, s) = Val(g, s)
    OBVIOUS
  <2>1. s \ {CHOOSE e \in s : TRUE} \in SUBSET S
    OBVIOUS
  <2> QED
    BY <2>1
<1>7. g = [s \in SUBSET S |-> Val(g, s)]
  BY <1>5, <1>6
<1>8. Summing(w, S, g)
  BY <1>7 DEF Summing
<1> QED
  BY <1>8

\* On the subsets on which summands agree, so do the sums.
LEMMA SummingAgrees ==
  ASSUME NEW w, NEW S, NEW g, Summing(w, S, g),
         NEW v, NEW T, NEW h, Summing(v, T, h),
         NEW U \in (SUBSET S) \cap (SUBSET T), IsFiniteSet(U), \A u \in U : w[u] = v[u]
  PROVE  g[U] = h[U]
<1> DEFINE Bad == {n \in Nat : \E s \in SUBSET U : Cardinality(s) = n /\ g[s] # h[s]}
<1>1. \A s \in SUBSET U : IsFiniteSet(s) /\ Cardinality(s) \in Nat
  BY FS_Subset, FS_CardinalityType
<1>2. Bad = {}
  <2> SUFFICES ASSUME Bad # {} PROVE FALSE
    OBVIOUS
  <2>1. Bad \in SUBSET Nat
    OBVIOUS
  <2> HIDE DEF Bad
  <2>2. PICK n \in Bad : \A i \in Bad : n <= i
    BY <2>1, LeastOf, Zenon
  <2>3. PICK s \in SUBSET U : Cardinality(s) = n /\ g[s] # h[s]
    BY <2>2 DEF Bad
  <2>4. CASE s = {}
    BY <2>3, <2>4 DEF Summing
  <2>5. CASE s # {}
    <3> DEFINE e == CHOOSE e \in s : TRUE
               t == s \ {e}
    <3>1. e \in s /\ Cardinality(t) = Cardinality(s) - 1 /\ Cardinality(s) \in Nat
      BY <1>1, <2>5, Smaller
    <3>2. t \in SUBSET U
      OBVIOUS
    <3>3. g[s] = w[e] + g[t] /\ h[s] = v[e] + h[t]
      BY <2>5 DEF Summing
    <3>4. w[e] = v[e]
      BY <3>1
    <3> HIDE DEF t, e
    <3>5. Cardinality(t) \in Nat /\ ~ (n <= Cardinality(t))
      BY <1>1, <2>3, <3>1, <3>2
    <3>6. Cardinality(t) \notin Bad
      BY <2>2, <3>5
    <3>7. g[t] = h[t]
      BY <3>2, <3>5, <3>6 DEF Bad
    <3> QED
      BY <2>3, <3>3, <3>4, <3>7
  <2> QED
    BY <2>4, <2>5
<1> QED
  BY <1>1, <1>2

\* Sum is that function's value,
LEMMA SumIs ==
  ASSUME NEW S, NEW U, IsFiniteSet(S), U \subseteq S, NEW w, NEW h, Summing(w, S, h)
  PROVE  Sum(w, U) = h[U]
<1>1. IsFiniteSet(U)
  BY FS_Subset
<1>2. Summing(w, U, CHOOSE g : Summing(w, U, g))
  BY <1>1, SummingExists, Zenon
<1>3. U \in (SUBSET U) \cap (SUBSET S)
  OBVIOUS
<1>4. (CHOOSE g : Summing(w, U, g))[U] = h[U]
  BY <1>1, <1>2, <1>3, SummingAgrees
<1> QED
  BY <1>4 DEF Sum

\* it depends on the summands only,
LEMMA SumSame ==
  ASSUME NEW S, IsFiniteSet(S), NEW w, NEW v, \A e \in S : w[e] = v[e]
  PROVE  Sum(w, S) = Sum(v, S)
<1>1. PICK g : Summing(w, S, g)
  BY SummingExists
<1>2. PICK h : Summing(v, S, h)
  BY SummingExists
<1>3. S \in (SUBSET S) \cap (SUBSET S) /\ S \subseteq S
  OBVIOUS
<1>4. g[S] = h[S]
  BY <1>1, <1>2, <1>3, SummingAgrees
<1>5. Sum(w, S) = g[S] /\ Sum(v, S) = h[S]
  BY <1>1, <1>2, <1>3, SumIs
<1> QED
  BY <1>4, <1>5

\* and takes one summand after another.
LEMMA SumFirst ==
  ASSUME NEW S, IsFiniteSet(S), NEW w
  PROVE  /\ Sum(w, {}) = 0
         /\ S # {} =>
              LET e == CHOOSE e \in S : TRUE IN
              /\ e \in S
              /\ Sum(w, S) = w[e] + Sum(w, S \ {e})
<1>1. PICK g : Summing(w, S, g)
  BY SummingExists
<1>2. \A U \in SUBSET S : Sum(w, U) = g[U]
  BY <1>1, SumIs
<1>3. g[{}] = 0
  BY <1>1 DEF Summing
<1>4. ASSUME S # {}
      PROVE  g[S] = w[CHOOSE e \in S : TRUE] + g[S \ {CHOOSE e \in S : TRUE}]
  BY <1>1, <1>4 DEF Summing
<1> QED
  BY <1>2, <1>3, <1>4

\* A sum of integers is one.
LEMMA SumType ==
  ASSUME NEW S, IsFiniteSet(S), NEW w, \A e \in S : w[e] \in Int
  PROVE  Sum(w, S) \in Int
<1> DEFINE Bad == {n \in Nat : \E s \in SUBSET S : Cardinality(s) = n /\ Sum(w, s) \notin Int}
<1>1. \A s \in SUBSET S : IsFiniteSet(s) /\ Cardinality(s) \in Nat
  BY FS_Subset, FS_CardinalityType
<1>2. Bad = {}
  <2> SUFFICES ASSUME Bad # {} PROVE FALSE
    OBVIOUS
  <2>1. Bad \in SUBSET Nat
    OBVIOUS
  <2> HIDE DEF Bad
  <2>2. PICK n \in Bad : \A i \in Bad : n <= i
    BY <2>1, LeastOf, Zenon
  <2>3. PICK s \in SUBSET S : Cardinality(s) = n /\ Sum(w, s) \notin Int
    BY <2>2 DEF Bad
  <2>4. IsFiniteSet(s)
    BY <1>1
  <2>5. CASE s = {}
    BY <2>3, <2>4, <2>5, SumFirst
  <2>6. CASE s # {}
    <3>1. PICK e \in s : Sum(w, s) = w[e] + Sum(w, s \ {e})
      BY <2>4, <2>6, SumFirst, Zenon
    <3> DEFINE t == s \ {e}
    <3>2. Cardinality(t) = Cardinality(s) - 1 /\ Cardinality(s) \in Nat
      BY <1>1, <2>6, Smaller
    <3>3. t \in SUBSET S
      OBVIOUS
    <3> HIDE DEF t
    <3>4. Cardinality(t) \in Nat /\ ~ (n <= Cardinality(t))
      BY <1>1, <2>3, <3>2, <3>3
    <3>5. Sum(w, t) \in Int
      BY <2>2, <3>3, <3>4 DEF Bad
    <3>6. w[e] \in Int
      OBVIOUS
    <3> QED
      BY <2>3, <3>1, <3>5, <3>6 DEF t
  <2> QED
    BY <2>5, <2>6
<1> QED
  BY <1>1, <1>2

\* Any summand can be taken first.
LEMMA SumTake ==
  ASSUME NEW S, IsFiniteSet(S), NEW w, \A e \in S : w[e] \in Int, NEW f \in S
  PROVE  Sum(w, S) = w[f] + Sum(w, S \ {f})
<1> DEFINE Good(s) == \A d \in s : Sum(w, s) = w[d] + Sum(w, s \ {d})
           Bad == {n \in Nat : \E s \in SUBSET S : Cardinality(s) = n /\ ~ Good(s)}
<1>1. \A s \in SUBSET S : IsFiniteSet(s) /\ Cardinality(s) \in Nat /\ Sum(w, s) \in Int
  BY FS_Subset, FS_CardinalityType, SumType
<1>2. Bad = {}
  <2> SUFFICES ASSUME Bad # {} PROVE FALSE
    OBVIOUS
  <2>1. Bad \in SUBSET Nat
    OBVIOUS
  <2> HIDE DEF Bad
  <2>2. PICK n \in Bad : \A i \in Bad : n <= i
    BY <2>1, LeastOf, Zenon
  <2>3. PICK s \in SUBSET S : Cardinality(s) = n /\ ~ Good(s)
    BY <2>2 DEF Bad
  <2>4. PICK d \in s : Sum(w, s) # w[d] + Sum(w, s \ {d})
    BY <2>3
  <2>5. IsFiniteSet(s) /\ s # {}
    BY <1>1
  <2>6. PICK e \in s : Sum(w, s) = w[e] + Sum(w, s \ {e})
    BY <2>5, SumFirst, Zenon
  <2>7. e # d
    BY <2>4, <2>6
  <2>8. ASSUME NEW t \in SUBSET S, Cardinality(t) = Cardinality(s) - 1 PROVE Good(t)
    <3>1. Cardinality(t) \in Nat /\ ~ (n <= Cardinality(t))
      BY <1>1, <2>3, <2>8
    <3> HIDE DEF Good
    <3> QED
      BY <2>2, <3>1 DEF Bad
  <2>9. /\ Cardinality(s \ {e}) = Cardinality(s) - 1
        /\ Cardinality(s \ {d}) = Cardinality(s) - 1
    BY <2>5, Smaller
  <2>10. Good(s \ {e}) /\ Good(s \ {d})
    <3> HIDE DEF Good
    <3>1. s \ {e} \in SUBSET S /\ s \ {d} \in SUBSET S
      OBVIOUS
    <3> QED
      BY <2>8, <2>9, <3>1
  <2> DEFINE t == (s \ {e}) \ {d}
  <2>11. t = (s \ {d}) \ {e} /\ t \in SUBSET S
    OBVIOUS
  <2>12. Sum(w, s \ {e}) = w[d] + Sum(w, t)
    BY <2>7, <2>10
  <2>13. Sum(w, s \ {d}) = w[e] + Sum(w, t)
    <3>1. e \in s \ {d}
      BY <2>7
    <3>2. Sum(w, s \ {d}) = w[e] + Sum(w, (s \ {d}) \ {e})
      BY <2>10, <3>1
    <3> QED
      BY <2>11, <3>2, Zenon
  <2> HIDE DEF t
  <2>14. w[d] \in Int /\ w[e] \in Int /\ Sum(w, t) \in Int
    BY <1>1, <2>11
  <2> QED
    BY <2>4, <2>6, <2>12, <2>13, <2>14
<1>3. Good(S)
  <2> HIDE DEF Good
  <2>1. S \in SUBSET S
    OBVIOUS
  <2> QED
    BY <1>1, <1>2, <2>1
<1> QED
  BY <1>3

\* Nothing sums up to nothing.
LEMMA SumZero ==
  ASSUME NEW S, IsFiniteSet(S), NEW w, \A e \in S : w[e] = 0
  PROVE  Sum(w, S) = 0
<1> DEFINE Bad == {n \in Nat : \E s \in SUBSET S : Cardinality(s) = n /\ Sum(w, s) # 0}
<1>1. \A s \in SUBSET S : IsFiniteSet(s) /\ Cardinality(s) \in Nat
  BY FS_Subset, FS_CardinalityType
<1>2. Bad = {}
  <2> SUFFICES ASSUME Bad # {} PROVE FALSE
    OBVIOUS
  <2>1. Bad \in SUBSET Nat
    OBVIOUS
  <2> HIDE DEF Bad
  <2>2. PICK n \in Bad : \A i \in Bad : n <= i
    BY <2>1, LeastOf, Zenon
  <2>3. PICK s \in SUBSET S : Cardinality(s) = n /\ Sum(w, s) # 0
    BY <2>2 DEF Bad
  <2>4. IsFiniteSet(s)
    BY <1>1
  <2>5. s # {}
    BY <2>3, <2>4, SumFirst
  <2>6. PICK e \in s : Sum(w, s) = w[e] + Sum(w, s \ {e})
    BY <2>4, <2>5, SumFirst, Zenon
  <2> DEFINE t == s \ {e}
  <2>7. Cardinality(t) = Cardinality(s) - 1 /\ Cardinality(s) \in Nat
    BY <1>1, <2>5, Smaller
  <2>8. t \in SUBSET S
    OBVIOUS
  <2> HIDE DEF t
  <2>9. Cardinality(t) \in Nat /\ ~ (n <= Cardinality(t))
    BY <1>1, <2>3, <2>7, <2>8
  <2>10. Sum(w, t) = 0
    BY <2>2, <2>8, <2>9 DEF Bad
  <2> QED
    BY <2>3, <2>6, <2>10 DEF t
<1> QED
  BY <1>1, <1>2

\* Summands can be counted by another set, which may have further ones that
\* are zero.
LEMMA SumOver ==
  ASSUME NEW S, IsFiniteSet(S), NEW T, IsFiniteSet(T), NEW w, NEW v, NEW f \in [S -> T],
         \A d, e \in S : f[d] = f[e] => d = e,
         \A e \in S : w[e] = v[f[e]],
         \A u \in T : v[u] \in Int /\ ((\A e \in S : f[e] # u) => v[u] = 0)
  PROVE  Sum(w, S) = Sum(v, T)
<1> DEFINE Covers(s, t) == /\ \A e \in s : f[e] \in t
                           /\ \A u \in t : (\A e \in s : f[e] # u) => v[u] = 0
           Good(s) == \A t \in SUBSET T : Covers(s, t) => Sum(w, s) = Sum(v, t)
           Bad == {n \in Nat : \E s \in SUBSET S : Cardinality(s) = n /\ ~ Good(s)}
<1>1. /\ \A s \in SUBSET S : IsFiniteSet(s) /\ Cardinality(s) \in Nat
      /\ \A t \in SUBSET T : IsFiniteSet(t)
  BY FS_Subset, FS_CardinalityType
<1>2. Bad = {}
  <2> SUFFICES ASSUME Bad # {} PROVE FALSE
    OBVIOUS
  <2>1. Bad \in SUBSET Nat
    OBVIOUS
  <2> HIDE DEF Bad
  <2>2. PICK n \in Bad : \A i \in Bad : n <= i
    BY <2>1, LeastOf, Zenon
  <2>3. PICK s \in SUBSET S : Cardinality(s) = n /\ ~ Good(s)
    BY <2>2 DEF Bad
  <2>4. PICK t \in SUBSET T : Covers(s, t) /\ Sum(w, s) # Sum(v, t)
    BY <2>3
  <2>5. IsFiniteSet(s) /\ IsFiniteSet(t)
    BY <1>1
  <2>6. CASE s = {}
    <3>1. Sum(w, s) = 0
      BY <2>5, <2>6, SumFirst
    <3>2. \A u \in t : v[u] = 0
      BY <2>4, <2>6
    <3>3. Sum(v, t) = 0
      BY <2>5, <3>2, SumZero
    <3> QED
      BY <2>4, <3>1, <3>3
  <2>7. CASE s # {}
    <3>1. PICK e \in s : Sum(w, s) = w[e] + Sum(w, s \ {e})
      BY <2>5, <2>7, SumFirst, Zenon
    <3> DEFINE r == s \ {e}
               u == t \ {f[e]}
    <3>2. f[e] \in t
      BY <2>4
    <3>3. Sum(v, t) = v[f[e]] + Sum(v, u)
      <4>1. \A i \in t : v[i] \in Int
        OBVIOUS
      <4> QED
        BY <2>5, <3>2, <4>1, SumTake
    <3>4. Cardinality(r) = Cardinality(s) - 1 /\ Cardinality(s) \in Nat
      BY <1>1, <2>7, Smaller
    <3>5. r \in SUBSET S /\ u \in SUBSET T
      OBVIOUS
    <3>6. Covers(r, u)
      <4>1. \A d \in r : f[d] \in u
        BY <2>4
      <4>2. ASSUME NEW i \in u, \A d \in r : f[d] # i PROVE v[i] = 0
        BY <2>4, <4>2
      <4> QED
        BY <4>1, <4>2
    <3> HIDE DEF r, u
    <3>7. Cardinality(r) \in Nat /\ ~ (n <= Cardinality(r))
      BY <1>1, <2>3, <3>4, <3>5
    <3>8. Good(r)
      <4> HIDE DEF Good
      <4> QED
        BY <2>2, <3>5, <3>7 DEF Bad
    <3>9. Sum(w, r) = Sum(v, u)
      BY <3>5, <3>6, <3>8
    <3> QED
      BY <2>4, <3>1, <3>3, <3>9 DEF r
  <2> QED
    BY <2>6, <2>7
<1>3. Good(S)
  <2> HIDE DEF Good
  <2>1. S \in SUBSET S
    OBVIOUS
  <2> QED
    BY <1>1, <1>2, <2>1
<1>4. Covers(S, T) /\ T \in SUBSET T
  OBVIOUS
<1> QED
  BY <1>3, <1>4

-----------------------------------------------------------------------------
(* Finite sets of offsets and copies *)

\* There are finitely many functions from the axes to a finite set.
LEMMA FiniteOffsets ==
  ASSUME NEW T, IsFiniteSet(T)
  PROVE  IsFiniteSet([Axis -> T])
<1> DEFINE Graph(f) == {<<d, f[d]>> : d \in Axis}
           g == [f \in [Axis -> T] |-> Graph(f)]
<1>1. IsFiniteSet(Axis)
  BY DimAssumption, FS_Interval DEF Axis
<1>2. IsFiniteSet(SUBSET (Axis \X T))
  BY <1>1, FS_Product, FS_SUBSET
<1>3. ASSUME NEW f \in [Axis -> T] PROVE Graph(f) \in SUBSET (Axis \X T)
  OBVIOUS
<1>4. ASSUME NEW f \in [Axis -> T], NEW h \in [Axis -> T], Graph(f) = Graph(h) PROVE f = h
  <2>1. ASSUME NEW d \in Axis PROVE f[d] = h[d]
    <3>1. <<d, f[d]>> \in Graph(h)
      BY <1>4
    <3>2. PICK e \in Axis : <<d, f[d]>> = <<e, h[e]>>
      BY <3>1
    <3> QED
      BY <3>2
  <2> QED
    BY <2>1
<1> HIDE DEF Graph
<1>5. g \in Injection([Axis -> T], SUBSET (Axis \X T))
  BY <1>3, <1>4 DEF Injection, IsInjective
<1> QED
  BY <1>2, <1>5, FS_Injection

\* Copies of a position are sums of summands.
LEMMA FoldedSum ==
  ASSUME NEW f, NEW S, IsFiniteSet(S)
  PROVE  MapThenSumSet(LAMBDA y : f[y[1]][y[2]], S) = Sum([y \in S |-> f[y[1]][y[2]]], S)
<1> DEFINE w == [y \in S |-> f[y[1]][y[2]]]
           P(g) == g = [s \in SUBSET S |->
                     IF s = {} THEN 0
                     ELSE f[(CHOOSE e \in s : TRUE)[1]][(CHOOSE e \in s : TRUE)[2]]
                            + g[s \ {CHOOSE e \in s : TRUE}]]
<1>1. ASSUME NEW g PROVE P(g) <=> Summing(w, S, g)
  BY DEF Summing
<1>2. MapThenSumSet(LAMBDA y : f[y[1]][y[2]], S) = (CHOOSE g : P(g))[S]
  BY DEF MapThenSumSet, MapThenFoldSet
<1> HIDE DEF P, w
<1>3. P(CHOOSE g : P(g))
  BY <1>1, SummingExists, Zenon
<1>4. Summing(w, S, CHOOSE g : P(g))
  BY <1>1, <1>3
<1>5. Sum(w, S) = (CHOOSE g : P(g))[S]
  BY <1>4, SumIs
<1> QED
  BY <1>2, <1>5 DEF w

-----------------------------------------------------------------------------
(* Local cells and global positions *)

\* Sizes along one axis.
LEMMA Extent ==
  ASSUME NEW d \in Axis
  PROVE  /\ N \in Nat \ {0} /\ G \in Nat \ {0} /\ G <= N /\ W = N + 2 * G
         /\ Dims[d] \in Nat \ {0}
         /\ Dims[d] * N \in Nat /\ N <= Dims[d] * N
<1>1. /\ N \in Nat \ {0} /\ G \in Nat \ {0} /\ G <= N /\ Dims[d] \in Nat \ {0}
  BY CellAssumption, DimsAssumption
<1>2. /\ 1 * N <= Dims[d] * N /\ Dims[d] * N \in Nat
  BY <1>1, ScaleMonotone
<1> QED
  BY <1>1, <1>2 DEF W

\* The part of an axis that a rank has.
LEMMA Span ==
  ASSUME NEW d \in Axis, NEW i \in 0..(Dims[d] - 1)
  PROVE  /\ i * N \in Nat /\ i * N + N <= Dims[d] * N
         /\ i # 0 => N <= i * N
         /\ i = 0 => i * N = 0
         /\ i # Dims[d] - 1 => i * N + N + N <= Dims[d] * N
         /\ i = Dims[d] - 1 => i * N + N = Dims[d] * N
<1>1. N \in Nat /\ Dims[d] \in Nat
  BY Extent
<1>2. \A a \in Int : a * N \in Int /\ (a + 1) * N = a * N + N /\ (a + 2) * N = a * N + N + N
  BY <1>1
<1>3. 0 * N = 0 /\ 1 * N = N
  BY <1>1
<1>4. 0 * N <= i * N /\ (i + 1) * N <= Dims[d] * N
  BY <1>1, ScaleMonotone
<1>5. i # 0 => 1 * N <= i * N
  BY <1>1, ScaleMonotone
<1>6. i # Dims[d] - 1 => (i + 2) * N <= Dims[d] * N
  BY <1>1, ScaleMonotone
<1>7. i = Dims[d] - 1 => i + 1 = Dims[d]
  BY <1>1
<1> QED
  BY <1>1, <1>2, <1>3, <1>4, <1>5, <1>6, <1>7

\* The rank and the cell in it of a position of an axis.
LEMMA Divided ==
  ASSUME NEW d \in Axis, NEW n \in Nat, n < Dims[d] * N
  PROVE  /\ n \div N \in 0..(Dims[d] - 1)
         /\ n % N \in 0..(N - 1)
         /\ (n \div N) * N + (n % N) = n
<1>1. N \in Nat \ {0} /\ Dims[d] \in Nat \ {0}
  BY Extent
<1>2. /\ n \div N \in Nat /\ n % N \in 0..(N - 1)
      /\ (n \div N) * N + (n % N) = n
  BY <1>1, SMT
<1>3. ASSUME Dims[d] <= n \div N PROVE FALSE
  <2>1. Dims[d] * N <= (n \div N) * N
    BY <1>1, <1>2, <1>3, ScaleMonotone
  <2>2. (n \div N) * N \in Int /\ Dims[d] * N \in Int
    BY <1>1, <1>2
  <2> QED
    BY <1>1, <1>2, <2>1, <2>2
<1> QED
  BY <1>1, <1>2, <1>3

\* They are the only ones.
LEMMA DividedOnce ==
  ASSUME NEW i \in Nat, NEW e \in 0..(N - 1)
  PROVE  (i * N + e) \div N = i /\ (i * N + e) % N = e
<1>1. N \in Nat \ {0}
  BY CellAssumption
<1> DEFINE n == i * N + e
           q == n \div N
<1>2. i * N \in Nat
  BY <1>1
<1>3. n \in Nat
  BY <1>1, <1>2
<1>4. q \in Nat /\ n % N \in 0..(N - 1) /\ q * N + (n % N) = n
  <2> HIDE DEF n
  <2> QED
    BY <1>1, <1>3, SMT
<1> HIDE DEF q
<1>5. q * N \in Nat /\ (q + 1) * N = q * N + N /\ (i + 1) * N = i * N + N
  BY <1>1, <1>4
<1>6. ASSUME q + 1 <= i PROVE FALSE
  <2>1. (q + 1) * N <= i * N
    BY <1>1, <1>4, <1>6, ScaleMonotone
  <2> QED
    BY <1>1, <1>2, <1>4, <1>5, <2>1
<1>7. ASSUME i + 1 <= q PROVE FALSE
  <2>1. (i + 1) * N <= q * N
    BY <1>1, <1>4, <1>7, ScaleMonotone
  <2> QED
    BY <1>1, <1>2, <1>4, <1>5, <2>1
<1>8. q = i
  BY <1>4, <1>6, <1>7
<1> QED
  BY <1>1, <1>2, <1>4, <1>8 DEF q

\* The position of a cell before it is wrapped.
At(r, c) == [d \in Axis |-> r[d] * N + c[d] - G]

\* Wrapping it once brings it into a periodic domain.
LEMMA GlobalAlong ==
  ASSUME NEW r \in Rank, NEW c \in Cell, NEW d \in Axis
  PROVE  /\ At(r, c)[d] \in Int /\ Global(r, c)[d] \in Int
         /\ c[d] \in 0..(W - 1) /\ r[d] \in 0..(Dims[d] - 1)
         /\ At(r, c)[d] = r[d] * N + c[d] - G
         /\ ~Periodic[d] => Global(r, c)[d] = At(r, c)[d]
         /\ Periodic[d] => Global(r, c)[d] \in 0..(Dims[d] * N - 1)
         /\ At(r, c)[d] \in 0..(Dims[d] * N - 1) => Global(r, c)[d] = At(r, c)[d]
<1> DEFINE L == Dims[d] * N
           p == r[d] * N
           y == At(r, c)[d]
<1>1. r[d] \in 0..(Dims[d] - 1)
  BY RankCoord
<1>2. /\ N \in Nat \ {0} /\ G \in Nat \ {0} /\ G <= N /\ W = N + 2 * G
      /\ L \in Nat /\ N <= L /\ p \in Nat /\ p + N <= L
  BY <1>1, Extent, Span
<1>3. c[d] \in 0..(W - 1)
  BY DEF Cell
<1>4. y = p + c[d] - G
  BY DEF At
<1>5. Global(r, c)[d] = IF ~Periodic[d] THEN y
                        ELSE IF y < 0 THEN y + L ELSE IF y >= L THEN y - L ELSE y
  BY DEF Global, Wrap, At
<1> HIDE DEF L, p, y
<1>6. y \in Int /\ -G <= y /\ y < L + G
  BY <1>2, <1>3, <1>4
<1>7. /\ Global(r, c)[d] \in Int
      /\ ~Periodic[d] => Global(r, c)[d] = y
      /\ Periodic[d] => Global(r, c)[d] \in 0..(L - 1)
      /\ y \in 0..(L - 1) => Global(r, c)[d] = y
  BY <1>2, <1>5, <1>6
<1> QED
  BY <1>1, <1>3, <1>4, <1>6, <1>7 DEF L, p, y

\* The home of a cell along one axis.
LEMMA HomeAlong ==
  ASSUME NEW r \in Rank, NEW c \in Cell, NEW d \in Axis
  PROVE  LET n == Global(r, c)[d]
             i == HomeRank(r, c)[d]
             e == HomeCell(r, c)[d] IN
         /\ i \in 0..(Dims[d] - 1) /\ e \in 0..(W - 1)
         /\ n \in 0..(Dims[d] * N - 1) =>
              /\ e \in G..(N + G - 1) /\ i * N + e - G = n
              /\ i = n \div N /\ e = n - i * N + G
         /\ n \notin 0..(Dims[d] * N - 1) => i = r[d] /\ e = c[d]
<1> DEFINE n == Global(r, c)[d]
           i == HomeRank(r, c)[d]
           e == HomeCell(r, c)[d]
           L == Dims[d] * N
<1>1. n \in Int /\ c[d] \in 0..(W - 1) /\ r[d] \in 0..(Dims[d] - 1)
  BY GlobalAlong
<1>2. i = IF n \in 0..(L - 1) THEN n \div N ELSE r[d]
  BY DEF HomeRank
<1>3. e = IF n \in 0..(L - 1) THEN (n % N) + G ELSE c[d]
  BY DEF HomeCell
<1>4. L \in Nat /\ N \in Nat /\ G \in Nat /\ W = N + 2 * G
  BY Extent
<1> HIDE DEF n, i, e
<1>5. CASE n \in 0..(L - 1)
  <2>1. n \in Nat /\ n < L
    BY <1>4, <1>5
  <2>2. /\ n \div N \in 0..(Dims[d] - 1) /\ n % N \in 0..(N - 1)
        /\ (n \div N) * N + (n % N) = n
    BY <2>1, Divided
  <2>3. i = n \div N /\ e = (n % N) + G /\ i * N \in Int
    BY <1>2, <1>3, <1>4, <1>5, <2>2, Span
  <2> DEFINE p == i * N
             q == n % N
  <2>4. p + q = n /\ p \in Int /\ q \in 0..(N - 1) /\ e = q + G
    BY <2>2, <2>3
  <2> HIDE DEF p, q
  <2>5. p + e - G = n /\ e \in G..(N + G - 1) /\ e = n - p + G /\ e \in 0..(W - 1)
    BY <1>4, <2>4
  <2> QED
    BY <1>5, <2>2, <2>3, <2>5 DEF n, i, e, p
<1>6. CASE n \notin 0..(L - 1)
  BY <1>1, <1>2, <1>3, <1>6 DEF n, i, e
<1> QED
  BY <1>5, <1>6

\* A position given axis by axis is a cell, a rank.
LEMMA Assembled ==
  ASSUME NEW f, f = [d \in Axis |-> f[d]]
  PROVE  /\ (\A d \in Axis : f[d] \in 0..(W - 1)) => f \in Cell
         /\ (\A d \in Axis : f[d] \in G..(N + G - 1)) => f \in Interior
         /\ (\A d \in Axis : f[d] \in 0..(Dims[d] - 1)) => f \in Rank
         /\ (\A d \in Axis : f[d] \in 0..(Dims[d] * N - 1)) => f \in Domain
<1>1. ASSUME \A d \in Axis : f[d] \in 0..(Dims[d] - 1) PROVE f \in Rank
  <2>1. \A d \in Axis : f[d] \in Coord /\ f[d] < Dims[d]
    BY <1>1, DimsAssumption DEF Coord
  <2> QED
    BY <2>1 DEF Rank
<1>2. ASSUME \A d \in Axis : f[d] \in 0..(Dims[d] * N - 1) PROVE f \in Domain
  <2>1. \A d \in Axis : f[d] < Dims[d] * N
    BY <1>2, Extent
  <2>2. f \in [Axis -> UNION {0..(Dims[d] * N - 1) : d \in Axis}]
    BY <1>2
  <2> QED
    BY <2>1, <2>2 DEF Domain
<1> QED
  BY <1>1, <1>2 DEF Cell, Interior

\* The interior is part of the array.
LEMMA InteriorCell == Interior \subseteq Cell
<1>1. W = N + 2 * G /\ N \in Nat /\ G \in Nat
  BY CellAssumption DEF W
<1>2. G..(N + G - 1) \subseteq 0..(W - 1)
  BY <1>1
<1> QED
  BY <1>2 DEF Interior, Cell

\* A home has itself as home.
LEMMA HomeFacts ==
  ASSUME NEW r \in Rank, NEW c \in Cell
  PROVE  /\ HomeRank(r, c) \in Rank /\ HomeCell(r, c) \in Cell
         /\ Global(HomeRank(r, c), HomeCell(r, c)) = Global(r, c)
         /\ HomeRank(HomeRank(r, c), HomeCell(r, c)) = HomeRank(r, c)
         /\ HomeCell(HomeRank(r, c), HomeCell(r, c)) = HomeCell(r, c)
<1> DEFINE q == HomeRank(r, c)
           h == HomeCell(r, c)
<1>1. q = [d \in Axis |-> q[d]] /\ h = [d \in Axis |-> h[d]]
  BY DEF HomeRank, HomeCell
<1>2. \A d \in Axis : q[d] \in 0..(Dims[d] - 1) /\ h[d] \in 0..(W - 1)
  BY HomeAlong
<1>3. q \in Rank /\ h \in Cell
  <2> HIDE DEF q, h
  <2> QED
    BY <1>1, <1>2, Assembled
<1>4. ASSUME NEW d \in Axis
      PROVE  Global(q, h)[d] = Global(r, c)[d]
  <2> DEFINE n == Global(r, c)[d]
  <2>1. CASE n \in 0..(Dims[d] * N - 1)
    <3>1. q[d] * N + h[d] - G = n
      BY <2>1, HomeAlong
    <3> HIDE DEF n, q, h
    <3>2. At(q, h)[d] = n
      BY <1>3, <3>1, GlobalAlong
    <3> QED
      BY <1>3, <2>1, <3>2, GlobalAlong DEF n
  <2>2. CASE n \notin 0..(Dims[d] * N - 1)
    <3>1. q[d] = r[d] /\ h[d] = c[d]
      BY <2>2, HomeAlong
    <3> HIDE DEF n, q, h
    <3> QED
      BY <3>1 DEF Global, Wrap
  <2> QED
    BY <2>1, <2>2
<1>5. Global(q, h) = Global(r, c)
  <2>1. \A a, b : Global(a, b) = [d \in Axis |-> Global(a, b)[d]]
    BY DEF Global, Wrap
  <2> HIDE DEF q, h
  <2> QED
    BY <1>4, <2>1
<1>6. HomeRank(q, h) = q /\ HomeCell(q, h) = h
  <2>1. /\ \A d \in Axis : Global(r, c)[d] \notin 0..(Dims[d] * N - 1) =>
                             q[d] = r[d] /\ h[d] = c[d]
    BY HomeAlong
  <2>2. \A d \in Axis :
          /\ q[d] = IF Global(r, c)[d] \in 0..(Dims[d] * N - 1)
                    THEN Global(r, c)[d] \div N ELSE r[d]
          /\ h[d] = IF Global(r, c)[d] \in 0..(Dims[d] * N - 1)
                    THEN (Global(r, c)[d] % N) + G ELSE c[d]
    BY DEF HomeRank, HomeCell
  <2> HIDE DEF q, h
  <2>3. HomeRank(q, h) = [d \in Axis |-> q[d]] /\ HomeCell(q, h) = [d \in Axis |-> h[d]]
    BY <1>5, <2>1, <2>2 DEF HomeRank, HomeCell
  <2> QED
    BY <1>1, <2>3
<1> QED
  BY <1>3, <1>5, <1>6

\* An interior cell is its own home and inside the domain.
LEMMA InteriorFacts ==
  ASSUME NEW r \in Rank, NEW c \in Interior
  PROVE  /\ c \in Cell
         /\ HomeRank(r, c) = r /\ HomeCell(r, c) = c
         /\ Global(r, c) = At(r, c) /\ Global(r, c) \in Domain
         /\ Owner(Global(r, c)) = r /\ LocalCell(r, Global(r, c)) = c
         /\ ~Outside(Global(r, c))
<1> DEFINE g == Global(r, c)
<1>1. c \in Cell
  BY InteriorCell
<1>2. g = [d \in Axis |-> g[d]] /\ At(r, c) = [d \in Axis |-> At(r, c)[d]]
  BY DEF Global, Wrap, At
<1>3. c = [d \in Axis |-> c[d]] /\ r = [d \in Axis |-> r[d]]
  BY DEF Interior, Rank
<1>4. ASSUME NEW d \in Axis
      PROVE  /\ g[d] \in 0..(Dims[d] * N - 1) /\ g[d] = At(r, c)[d]
             /\ g[d] \div N = r[d] /\ (g[d] % N) + G = c[d]
             /\ g[d] - r[d] * N + G = c[d]
  <2> DEFINE p == r[d] * N
             e == c[d] - G
             L == Dims[d] * N
  <2>1. /\ r[d] \in 0..(Dims[d] - 1) /\ c[d] \in G..(N + G - 1)
        /\ N \in Nat /\ G \in Nat
    BY RankCoord, CellAssumption DEF Interior
  <2>2. p \in Nat /\ L \in Nat /\ p + N <= L
    BY <2>1, Span, Extent
  <2>3. e \in 0..(N - 1) /\ r[d] \in Nat /\ c[d] = e + G
    BY <2>1
  <2>4. At(r, c)[d] = p + c[d] - G
    BY <1>1, GlobalAlong
  <2>5. (p + e) \div N = r[d] /\ (p + e) % N = e
    <3> HIDE DEF e
    <3> QED
      BY <2>3, DividedOnce
  <2> HIDE DEF p, e, L
  <2>6. At(r, c)[d] = p + e /\ p + e \in 0..(L - 1) /\ p + e - p + G = c[d]
    BY <2>1, <2>2, <2>3, <2>4
  <2>7. g[d] = At(r, c)[d]
    BY <1>1, <2>6, GlobalAlong DEF L
  <2> HIDE DEF g
  <2>8. g[d] = p + e /\ g[d] \in 0..(L - 1) /\ g[d] - p + G = c[d]
    BY <2>1, <2>2, <2>3, <2>4, <2>6, <2>7
  <2>9. g[d] \div N = r[d] /\ g[d] % N = e
    BY <2>5, <2>8, Zenon
  <2>10. (g[d] % N) + G = c[d]
    BY <2>3, <2>9
  <2> QED
    BY <2>7, <2>8, <2>9, <2>10 DEF p, L
<1> HIDE DEF g
<1>5. g = At(r, c)
  BY <1>2, <1>4
<1>6. g \in Domain
  BY <1>2, <1>4, Assembled
<1>7. HomeRank(r, c) = [d \in Axis |-> r[d]] /\ HomeCell(r, c) = [d \in Axis |-> c[d]]
  BY <1>4 DEF HomeRank, HomeCell, g
<1>8. Owner(g) = [d \in Axis |-> r[d]] /\ LocalCell(r, g) = [d \in Axis |-> c[d]]
  BY <1>4 DEF Owner, LocalCell
<1>9. ~Outside(g)
  BY <1>4, Extent DEF Outside
<1> QED
  BY <1>1, <1>3, <1>5, <1>6, <1>7, <1>8, <1>9 DEF g

\* A position of the domain is that of an interior cell of its owner.
LEMMA OwnerFacts ==
  ASSUME NEW g \in Domain
  PROVE  /\ Owner(g) \in Rank /\ LocalCell(Owner(g), g) \in Interior
         /\ LocalCell(Owner(g), g) \in Cell
         /\ At(Owner(g), LocalCell(Owner(g), g)) = g
         /\ Global(Owner(g), LocalCell(Owner(g), g)) = g
<1> DEFINE r == Owner(g)
           c == LocalCell(r, g)
<1>1. r = [d \in Axis |-> r[d]] /\ c = [d \in Axis |-> c[d]]
  BY DEF Owner, LocalCell
<1>2. g = [d \in Axis |-> g[d]]
  BY DEF Domain
<1>3. ASSUME NEW d \in Axis
      PROVE  /\ r[d] \in 0..(Dims[d] - 1) /\ c[d] \in G..(N + G - 1)
             /\ r[d] * N + c[d] - G = g[d]
  <2>1. g[d] \in Nat /\ g[d] < Dims[d] * N
    BY Extent DEF Domain
  <2>2. r[d] = g[d] \div N /\ c[d] = g[d] - r[d] * N + G
    BY DEF Owner, LocalCell
  <2>3. /\ r[d] \in 0..(Dims[d] - 1) /\ g[d] % N \in 0..(N - 1)
        /\ r[d] * N + (g[d] % N) = g[d]
    BY <2>1, <2>2, Divided
  <2> DEFINE p == r[d] * N
             e == g[d] % N
  <2>4. /\ p \in Int /\ e \in 0..(N - 1) /\ p + e = g[d] /\ c[d] = g[d] - p + G
        /\ N \in Nat /\ G \in Nat
    BY <2>2, <2>3, Span, Extent
  <2> HIDE DEF p, e
  <2>5. c[d] \in G..(N + G - 1) /\ p + c[d] - G = g[d]
    BY <2>1, <2>4
  <2> QED
    BY <2>3, <2>5 DEF p
<1>4. r \in Rank /\ c \in Interior
  <2> HIDE DEF r, c
  <2> QED
    BY <1>1, <1>3, Assembled
<1>5. At(r, c) = g
  BY <1>2, <1>3 DEF At
<1> QED
  BY <1>4, <1>5, InteriorFacts

\* Any other cell inside the domain has the owner of its position as home.
LEMMA HomeOwner ==
  ASSUME NEW r \in Rank, NEW c \in Cell, ~Outside(Global(r, c))
  PROVE  /\ Global(r, c) \in Domain
         /\ HomeRank(r, c) = Owner(Global(r, c))
         /\ HomeCell(r, c) = LocalCell(Owner(Global(r, c)), Global(r, c))
         /\ HomeCell(r, c) \in Interior
<1> DEFINE g == Global(r, c)
<1>1. g = [d \in Axis |-> g[d]]
  BY DEF Global, Wrap
<1>2. \A d \in Axis : g[d] \in 0..(Dims[d] * N - 1)
  <2> SUFFICES ASSUME NEW d \in Axis PROVE g[d] \in 0..(Dims[d] * N - 1)
    OBVIOUS
  <2>1. Periodic[d] => g[d] \in 0..(Dims[d] * N - 1)
    BY GlobalAlong
  <2>2. ~Periodic[d] => ~(g[d] < 0) /\ ~(g[d] >= Dims[d] * N)
    BY DEF Outside
  <2>3. g[d] \in Int /\ Dims[d] * N \in Nat
    BY GlobalAlong, Extent
  <2> QED
    BY <2>1, <2>2, <2>3
<1>3. g \in Domain
  <2> HIDE DEF g
  <2> QED
    BY <1>1, <1>2, Assembled
<1>4. \A d \in Axis : /\ HomeCell(r, c)[d] \in G..(N + G - 1)
                      /\ HomeRank(r, c)[d] = g[d] \div N
                      /\ HomeCell(r, c)[d] = g[d] - HomeRank(r, c)[d] * N + G
  BY <1>2, HomeAlong
<1>5. /\ HomeRank(r, c) = [d \in Axis |-> HomeRank(r, c)[d]]
      /\ HomeCell(r, c) = [d \in Axis |-> HomeCell(r, c)[d]]
  BY DEF HomeRank, HomeCell
<1>6. HomeRank(r, c) = Owner(g)
  BY <1>4, <1>5 DEF Owner
<1>7. HomeCell(r, c) = LocalCell(Owner(g), g)
  BY <1>4, <1>5, <1>6 DEF LocalCell
<1>8. HomeCell(r, c) \in Interior
  BY <1>4, <1>5, Assembled
<1> QED
  BY <1>3, <1>6, <1>7, <1>8

-----------------------------------------------------------------------------
(* The lattice of Maxwell is the one of FieldStep *)

LEMMA SameSpace ==
  /\ M!Axis = Axis /\ M!Comp = Comp /\ M!Domain = Domain
  /\ \A g : M!Wrap(g) = Wrap(g)
  /\ \A g : M!Outside(g) = Outside(g)
  /\ \A g, v : M!Add(g, v) = Add(g, v)
  /\ \A g, d, n : M!Shift(g, d, n) = Shift(g, d, n)
<1>1. M!Axis = Axis /\ M!Comp = Comp
  BY DEF M!Axis, Axis, M!Comp, Comp
<1>2. M!Domain = Domain
  BY <1>1 DEF M!Domain, Domain
<1>3. \A g : M!Wrap(g) = Wrap(g)
  BY <1>1 DEF M!Wrap, Wrap
<1>4. \A g : M!Outside(g) = Outside(g)
  BY <1>1 DEF M!Outside, Outside
<1>5. \A g, v : M!Add(g, v) = Add(g, v)
  BY <1>1 DEF M!Add, Add
<1>6. \A g, d, n : M!Shift(g, d, n) = Shift(g, d, n)
  BY DEF M!Shift, Shift
<1> QED
  BY <1>1, <1>2, <1>3, <1>4, <1>5, <1>6

LEMMA SameLattice ==
  /\ \A k : M!Next3(k) = Next3(k)
  /\ M!StaggerE = StaggerE /\ M!StaggerB = StaggerB
  /\ \A f, st, g, d : M!Diff(f, st, g, d) = Diff(f, st, g, d)
  /\ \A V, St, k, g : M!CurlPlus(V, St, k, g) = CurlPlus(V, St, k, g)
  /\ \A V, St, k, g : M!CurlMinus(V, St, k, g) = CurlMinus(V, St, k, g)
  /\ \A lo, hi, layers : M!Box(lo, hi, layers) = Box(lo, hi, layers)
  /\ \A box, c, d, half : M!Depth(box, c, d, half) = Depth(box, c, d, half)
<1>1. \A k : M!Next3(k) = Next3(k)
  BY DEF M!Next3, Next3
<1>2. M!StaggerE = StaggerE /\ M!StaggerB = StaggerB
  BY SameSpace DEF M!StaggerE, StaggerE, M!StaggerB, StaggerB
<1>3. \A f, st, g, d : M!Diff(f, st, g, d) = Diff(f, st, g, d)
  BY SameSpace DEF M!Diff, Diff
<1>4. \A V, St, k, g : M!CurlPlus(V, St, k, g) = CurlPlus(V, St, k, g)
  BY <1>1, <1>3 DEF M!CurlPlus, CurlPlus
<1>5. \A V, St, k, g : M!CurlMinus(V, St, k, g) = CurlMinus(V, St, k, g)
  BY <1>1, <1>3 DEF M!CurlMinus, CurlMinus
<1>6. \A lo, hi, layers : M!Box(lo, hi, layers) = Box(lo, hi, layers)
  BY DEF M!Box, Box
<1>7. \A box, c, d, half : M!Depth(box, c, d, half) = Depth(box, c, d, half)
  BY DEF M!Depth, Depth
<1> QED
  BY <1>1, <1>2, <1>3, <1>4, <1>5, <1>6, <1>7

LEMMA SameDeposit ==
  /\ \A p, q, v, k, o : M!DepositJ(p, q, v, k, o) = DepositJ(p, q, v, k, o)
  /\ \A f, e, g : M!Filtered(f, e, g) = Filtered(f, e, g)
<1>1. \A p, q, i : M!S0(p, i) = S0(p, i) /\ M!S1(p, q, i) = S1(p, q, i)
  BY DEF M!S0, S0, M!S1, S1, M!Spline, Spline
<1>2. \A p, q, D, o : M!Mean(p, q, D, o) = Mean(p, q, D, o)
  BY <1>1 DEF M!Mean, Mean
<1>3. ASSUME NEW p, NEW q, NEW v, NEW k, NEW o
      PROVE  M!DepositJ(p, q, v, k, o) = DepositJ(p, q, v, k, o)
  <2>1. M!MapThenSumSet(LAMBDA i : M!S1(p[k], q[k], i) - M!S0(p[k], i),
                        {i \in M!Offsets(p[k], q[k]) : i <= o[k]})
        = MapThenSumSet(LAMBDA i : S1(p[k], q[k], i) - S0(p[k], i),
                        {i \in Offsets(p[k], q[k]) : i <= o[k]})
    BY DEF M!MapThenSumSet, MapThenSumSet, M!MapThenFoldSet, MapThenFoldSet, M!S0, S0, M!S1,
       S1, M!Spline, Spline, M!Offsets, Offsets, M!CellsMoved, CellsMoved
  <2>2. M!Mean(p, q, M!Axis \ {k}, o) = Mean(p, q, Axis \ {k}, o)
    BY <1>2, SameSpace
  <2>3. M!Mean(p, q, M!Axis, o) = Mean(p, q, Axis, o)
    BY <1>2, SameSpace
  <2> QED
    BY <2>1, <2>2, <2>3, SameSpace, Zenon DEF M!DepositJ, DepositJ, M!FilterScale, FilterScale
<1>4. ASSUME NEW f, NEW e, NEW g
      PROVE  M!Filtered(f, e, g) = Filtered(f, e, g)
  BY SameSpace DEF M!Filtered, Filtered, M!MapThenSumSet, MapThenSumSet,
     M!MapThenFoldSet, MapThenFoldSet, M!Cardinality, Cardinality
<1> QED
  BY <1>3, <1>4

-----------------------------------------------------------------------------
(* Fields with guard cells up to date *)

\* Every cell holds what its home holds.
Alike(F) ==
  \A r \in Rank, k \in Comp, c \in Cell : F[r][k][c] = F[HomeRank(r, c)][k][HomeCell(r, c)]

\* Beyond an open end of the domain there is nothing.
Nought(F) ==
  \A r \in Rank, k \in Comp, c \in Cell : Outside(Global(r, c)) => F[r][k][c] = 0

\* send_guard_cells component by component.
LEMMA EachRefreshed ==
  ASSUME NEW F, NEW r \in Rank, NEW k \in Comp, NEW c \in Cell
  PROVE  Each(Refreshed, F)[r][k][c] = F[HomeRank(r, c)][k][HomeCell(r, c)]
  BY HomeFacts DEF Each, Refreshed

LEMMA RefreshedAlike ==
  ASSUME NEW F
  PROVE  Alike(Each(Refreshed, F))
<1> SUFFICES ASSUME NEW r \in Rank, NEW k \in Comp, NEW c \in Cell
             PROVE  Each(Refreshed, F)[r][k][c]
                      = Each(Refreshed, F)[HomeRank(r, c)][k][HomeCell(r, c)]
  BY DEF Alike
<1>1. HomeRank(r, c) \in Rank /\ HomeCell(r, c) \in Cell
  BY HomeFacts
<1>2. Each(Refreshed, F)[r][k][c] = F[HomeRank(r, c)][k][HomeCell(r, c)]
  BY EachRefreshed
<1>3. Each(Refreshed, F)[HomeRank(r, c)][k][HomeCell(r, c)]
        = F[HomeRank(HomeRank(r, c), HomeCell(r, c))][k][HomeCell(HomeRank(r, c), HomeCell(r, c))]
  BY <1>1, EachRefreshed
<1> QED
  BY <1>2, <1>3, HomeFacts

\* What is nothing beyond the ends stays so.
LEMMA RefreshedNought ==
  ASSUME NEW F, Nought(F)
  PROVE  Nought(Each(Refreshed, F))
<1> SUFFICES ASSUME NEW r \in Rank, NEW k \in Comp, NEW c \in Cell, Outside(Global(r, c))
             PROVE  Each(Refreshed, F)[r][k][c] = 0
  BY DEF Nought
<1>1. /\ HomeRank(r, c) \in Rank /\ HomeCell(r, c) \in Cell
      /\ Outside(Global(HomeRank(r, c), HomeCell(r, c)))
  BY HomeFacts
<1> QED
  BY <1>1, EachRefreshed DEF Nought

\* The cells next to an interior one.
LEMMA Nearby ==
  ASSUME NEW g \in Domain, NEW n \in [Axis -> -1..1]
  PROVE  LET r == Owner(g)
             c == Add(LocalCell(r, g), n) IN
         /\ r \in Rank /\ c \in Cell
         /\ Add(g, n) \in M!Ring
         /\ At(r, c) = Add(g, n) /\ Global(r, c) = Wrap(Add(g, n))
         /\ Outside(Global(r, c)) <=> Outside(Add(g, n))
<1> DEFINE r == Owner(g)
           b == LocalCell(r, g)
           c == Add(b, n)
           y == Add(g, n)
<1>1. r \in Rank /\ b \in Interior /\ At(r, b) = g
  BY OwnerFacts
<1>2. ASSUME NEW d \in Axis
      PROVE  c[d] \in 0..(W - 1) /\ At(r, c)[d] = y[d]
  <2>1. /\ b[d] \in G..(N + G - 1) /\ n[d] \in -1..1
        /\ r[d] * N \in Int /\ r[d] * N + b[d] - G = g[d]
        /\ N \in Nat /\ G \in Nat \ {0} /\ W = N + 2 * G
    <3>1. r[d] \in 0..(Dims[d] - 1)
      BY <1>1, RankCoord
    <3>2. At(r, b)[d] = r[d] * N + b[d] - G
      BY DEF At
    <3> QED
      BY <1>1, <3>1, <3>2, Span, Extent DEF Interior
  <2>2. c[d] = b[d] + n[d] /\ y[d] = g[d] + n[d]
    BY DEF Add
  <2>3. At(r, c)[d] = r[d] * N + c[d] - G
    BY DEF At
  <2> HIDE DEF r, b, c, y
  <2> DEFINE p == r[d] * N
  <2>4. p \in Int /\ p + b[d] - G = g[d] /\ At(r, c)[d] = p + c[d] - G
    BY <2>1, <2>3
  <2> HIDE DEF p
  <2> QED
    BY <2>1, <2>2, <2>4
<1>3. c \in Cell
  BY <1>2, Assembled DEF Add
<1>4. At(r, c) = [d \in Axis |-> At(r, c)[d]] /\ y = [d \in Axis |-> y[d]]
  BY DEF At, Add
<1>5. At(r, c) = y
  BY <1>2, <1>4
<1>6. Global(r, c) = Wrap(At(r, c))
  BY DEF Global, At
<1>7. y \in M!Ring
  BY SameSpace DEF M!Ring, Add
<1>8. Outside(Global(r, c)) <=> Outside(y)
  <2>1. \A d \in Axis : ~Periodic[d] => Global(r, c)[d] = y[d]
    BY <1>1, <1>3, <1>5, GlobalAlong
  <2> HIDE DEF y, c, r
  <2> QED
    BY <2>1 DEF Outside
<1> QED
  BY <1>1, <1>3, <1>5, <1>6, <1>7, <1>8

\* Next to an interior cell a local array holds what the global lattice does.
LEMMA PaddedNearby ==
  ASSUME NEW F, Alike(F), Nought(F), NEW g \in Domain, NEW n \in [Axis -> -1..1],
         NEW k \in Comp
  PROVE  M!Padded(Glued(F))[k][Add(g, n)]
           = F[Owner(g)][k][Add(LocalCell(Owner(g), g), n)]
<1> DEFINE r == Owner(g)
           c == Add(LocalCell(r, g), n)
           y == Add(g, n)
<1>1. /\ r \in Rank /\ c \in Cell /\ y \in M!Ring /\ Global(r, c) = Wrap(y)
      /\ Outside(Global(r, c)) <=> Outside(y)
  BY Nearby
<1> HIDE DEF r, c, y
<1>2. M!Padded(Glued(F))[k][y] = IF Outside(y) THEN 0 ELSE Glued(F)[k][Wrap(y)]
  BY <1>1, SameSpace DEF M!Padded
<1>3. CASE Outside(y)
  BY <1>1, <1>2, <1>3 DEF Nought, r, c, y
<1>4. CASE ~Outside(y)
  <2> DEFINE h == Wrap(y)
  <2>1. /\ h \in Domain
        /\ HomeRank(r, c) = Owner(h) /\ HomeCell(r, c) = LocalCell(Owner(h), h)
    BY <1>1, <1>4, HomeOwner
  <2>2. Glued(F)[k][h] = F[Owner(h)][k][LocalCell(Owner(h), h)]
    BY <2>1 DEF Glued
  <2>3. F[r][k][c] = F[Owner(h)][k][LocalCell(Owner(h), h)]
    BY <1>1, <2>1 DEF Alike
  <2> QED
    BY <1>2, <1>4, <2>2, <2>3 DEF r, c, y
<1> QED
  BY <1>3, <1>4

\* And in it, whatever the guard cells hold.
LEMMA PaddedAt ==
  ASSUME NEW F, NEW g \in Domain, NEW k \in Comp
  PROVE  /\ Glued(F)[k][g] = F[Owner(g)][k][LocalCell(Owner(g), g)]
         /\ M!Padded(Glued(F))[k][g] = F[Owner(g)][k][LocalCell(Owner(g), g)]
<1>1. Glued(F)[k][g] = F[Owner(g)][k][LocalCell(Owner(g), g)]
  BY DEF Glued
<1> DEFINE n == [d \in Axis |-> 0]
<1>2. g = [d \in Axis |-> g[d]] /\ \A d \in Axis : g[d] + 0 = g[d]
  BY Extent DEF Domain
<1>3. n \in [Axis -> -1..1] /\ Add(g, n) = g
  BY <1>2 DEF Add
<1>4. g \in M!Ring /\ (Outside(Wrap(g)) <=> Outside(g))
  <2>1. Add(g, n) \in M!Ring
    BY <1>3, Nearby
  <2>2. \A d \in Axis : ~Periodic[d] => Wrap(g)[d] = g[d]
    BY DEF Wrap
  <2> QED
    BY <1>3, <2>1, <2>2 DEF Outside
<1>5. ~Outside(g) /\ Wrap(g) = g
  <2>1. \A d \in Axis : 0 <= g[d] /\ g[d] < Dims[d] * N /\ g[d] \in Int /\ Dims[d] * N \in Int
    BY Extent DEF Domain
  <2>2. \A d \in Axis : ~(g[d] < 0) /\ ~(g[d] >= Dims[d] * N)
    BY <2>1
  <2> QED
    BY <1>2, <2>2 DEF Outside, Wrap
<1>6. M!Padded(Glued(F))[k][g] = Glued(F)[k][g]
  BY <1>4, <1>5, SameSpace DEF M!Padded
<1> QED
  BY <1>1, <1>6

-----------------------------------------------------------------------------
(* Solving for one cell *)

\* A rank lies at an end of the domain.
LEMMA AtEnd ==
  ASSUME NEW r \in Rank, NEW d \in Axis, NEW s \in {-1, 1}
  PROVE  Neighbor(r, d, s) = PROC_NULL <=> ~Periodic[d] /\ r[d] + s \notin 0..(Dims[d] - 1)
<1>1. Dims[d] \in Nat \ {0} /\ r[d] \in 0..(Dims[d] - 1)
  BY RankCoord
<1>2. ASSUME NEW i \in 0..(Dims[d] - 1) PROVE [r EXCEPT ![d] = i] # PROC_NULL
  <2>1. [r EXCEPT ![d] = i] \in Rank
    BY RankExcept
  <2> QED
    BY <2>1, NullIsNoRank
<1>3. Dims[d] - 1 \in 0..(Dims[d] - 1) /\ 0 \in 0..(Dims[d] - 1)
  BY <1>1
<1> QED
  BY <1>2, <1>3 DEF Neighbor

\* The layers of an end of the domain are not wider than the domain of a rank.
LayersFit == PmlLength <= N

\* Then a cell is as deep in a layer as its position.
LEMMA DepthSame ==
  ASSUME LayersFit, NEW g \in Domain, NEW d \in Axis, NEW half \in {0, 1}
  PROVE  Depth(BoxOf(Owner(g)), LocalCell(Owner(g), g), d, half)
           = M!Depth(M!Whole, g, d, half)
<1> DEFINE r == Owner(g)
           c == LocalCell(r, g)
           p == r[d] * N
           L == Dims[d] * N
           Low == <<d, -1>> \in Damping /\ ~Periodic[d]
           High == <<d, 1>> \in Damping /\ ~Periodic[d]
<1>1. r \in Rank /\ c \in Interior
  BY OwnerFacts
<1>2. r[d] \in 0..(Dims[d] - 1) /\ c[d] \in G..(N + G - 1)
  BY <1>1, RankCoord DEF Interior
<1>3. /\ p \in Nat /\ p + N <= L
      /\ r[d] # 0 => N <= p
      /\ r[d] = 0 => p = 0
      /\ r[d] # Dims[d] - 1 => p + N + N <= L
      /\ r[d] = Dims[d] - 1 => p + N = L
  BY <1>2, Span
<1>4. /\ N \in Nat /\ G \in Nat /\ L \in Nat /\ PmlLength \in Nat /\ PmlLength <= N
      /\ Dims[d] \in Nat
  BY Extent, LatticeAssumption DEF LayersFit
<1>5. g[d] \in Int /\ g[d] = p + c[d] - G
  <2>1. At(r, c)[d] = p + c[d] - G
    BY DEF At
  <2>2. At(r, c) = g
    BY OwnerFacts
  <2>3. g[d] \in Nat
    BY Extent DEF Domain
  <2> QED
    BY <2>1, <2>2, <2>3
<1>6. /\ <<d, -1>> \in Damped(r) <=> Low /\ r[d] = 0
      /\ <<d, 1>> \in Damped(r) <=> High /\ r[d] = Dims[d] - 1
  <2>0. /\ r[d] + -1 \notin 0..(Dims[d] - 1) <=> r[d] = 0
        /\ r[d] + 1 \notin 0..(Dims[d] - 1) <=> r[d] = Dims[d] - 1
    <3> HIDE DEF r
    <3> QED
      BY <1>2, <1>4
  <2>1. Neighbor(r, d, -1) = PROC_NULL <=> ~Periodic[d] /\ r[d] = 0
    BY <1>1, <2>0, AtEnd
  <2>2. Neighbor(r, d, 1) = PROC_NULL <=> ~Periodic[d] /\ r[d] = Dims[d] - 1
    BY <1>1, <2>0, AtEnd
  <2> QED
    BY <2>1, <2>2 DEF Damped
<1>7. BoxOf(r).lo[d] = G /\ BoxOf(r).hi[d] = N + G - 1 /\ BoxOf(r).layers = Damped(r)
  BY DEF BoxOf, Box
<1>8. /\ M!Whole.lo[d] = 0 /\ M!Whole.hi[d] = L - 1
      /\ <<d, -1>> \in M!Whole.layers <=> Low
      /\ <<d, 1>> \in M!Whole.layers <=> High
  BY SameSpace DEF M!Whole, M!Box
<1>9. Depth(BoxOf(r), c, d, half)
        = IF Low /\ r[d] = 0 /\ c[d] < G + PmlLength THEN 2 * (G + PmlLength - c[d]) - half
          ELSE IF High /\ r[d] = Dims[d] - 1 /\ c[d] > N + G - 1 - PmlLength
          THEN 2 * (c[d] - (N + G - 1 + 1 - PmlLength)) + half ELSE 0
  <2> DEFINE b == BoxOf(r)
  <2> HIDE DEF b, r, c, Low, High
  <2>1. /\ b.lo[d] = G /\ b.hi[d] = N + G - 1
        /\ <<d, -1>> \in b.layers <=> Low /\ r[d] = 0
        /\ <<d, 1>> \in b.layers <=> High /\ r[d] = Dims[d] - 1
    BY <1>6, <1>7 DEF b
  <2>2. Depth(b, c, d, half)
        = IF Low /\ r[d] = 0 /\ c[d] < G + PmlLength THEN 2 * (G + PmlLength - c[d]) - half
          ELSE IF High /\ r[d] = Dims[d] - 1 /\ c[d] > N + G - 1 - PmlLength
          THEN 2 * (c[d] - (N + G - 1 + 1 - PmlLength)) + half ELSE 0
    BY <1>2, <1>4, <2>1 DEF Depth
  <2> QED
    BY <2>2 DEF b
<1>10. M!Depth(M!Whole, g, d, half)
         = IF Low /\ g[d] < 0 + PmlLength THEN 2 * (0 + PmlLength - g[d]) - half
           ELSE IF High /\ g[d] > L - 1 - PmlLength
           THEN 2 * (g[d] - (L - 1 + 1 - PmlLength)) + half ELSE 0
  BY <1>8 DEF M!Depth
<1> HIDE DEF r, c, p, L, Low, High
<1>11. Low /\ g[d] < 0 + PmlLength <=> Low /\ r[d] = 0 /\ c[d] < G + PmlLength
  BY <1>2, <1>3, <1>4, <1>5
<1>12. High /\ g[d] > L - 1 - PmlLength
         <=> High /\ r[d] = Dims[d] - 1 /\ c[d] > N + G - 1 - PmlLength
  BY <1>2, <1>3, <1>4, <1>5
<1>13. r[d] = 0 => 2 * (0 + PmlLength - g[d]) - half = 2 * (G + PmlLength - c[d]) - half
  BY <1>2, <1>3, <1>4, <1>5
<1>14. r[d] = Dims[d] - 1 =>
         2 * (g[d] - (L - 1 + 1 - PmlLength)) + half
           = 2 * (c[d] - (N + G - 1 + 1 - PmlLength)) + half
  <2> SUFFICES ASSUME r[d] = Dims[d] - 1
               PROVE  g[d] - (L - 1 + 1 - PmlLength) = c[d] - (N + G - 1 + 1 - PmlLength)
    OBVIOUS
  <2> QED
    BY <1>2, <1>3, <1>4, <1>5
<1>15. Depth(BoxOf(r), c, d, half) = M!Depth(M!Whole, g, d, half)
  BY <1>9, <1>10, <1>11, <1>12, <1>13, <1>14
<1> QED
  BY <1>15 DEF r, c

\* Differences and curls next to an interior cell are those of the lattice.
LEMMA DiffSame ==
  ASSUME NEW F, Alike(F), Nought(F), NEW g \in Domain, NEW i \in Comp, NEW d,
         NEW st \in {0, 1}
  PROVE  Diff(F[Owner(g)][i], st, LocalCell(Owner(g), g), d)
           = Diff(M!Padded(Glued(F))[i], st, g, d)
<1> DEFINE r == Owner(g)
           c == LocalCell(r, g)
<1>1. ASSUME NEW n \in -1..1, d \in Axis
      PROVE  F[r][i][Shift(c, d, n)] = M!Padded(Glued(F))[i][Shift(g, d, n)]
  <2> DEFINE v == [e \in Axis |-> IF e = d THEN n ELSE 0]
  <2>1. v \in [Axis -> -1..1]
    OBVIOUS
  <2>2. c = [e \in Axis |-> c[e]] /\ g = [e \in Axis |-> g[e]]
    BY DEF LocalCell, Domain
  <2>3. \A e \in Axis : c[e] \in Int /\ g[e] \in Int
    BY OwnerFacts, Extent DEF Interior, Domain
  <2> HIDE DEF c
  <2>4. /\ Shift(c, d, n) = [e \in Axis |-> IF e = d THEN c[e] + n ELSE c[e]]
        /\ Shift(g, d, n) = [e \in Axis |-> IF e = d THEN g[e] + n ELSE g[e]]
    BY <1>1, <2>2 DEF Shift
  <2>6. /\ Add(c, v) = [e \in Axis |-> IF e = d THEN c[e] + n ELSE c[e]]
        /\ Add(g, v) = [e \in Axis |-> IF e = d THEN g[e] + n ELSE g[e]]
    BY <2>3 DEF Add
  <2>5. M!Padded(Glued(F))[i][Add(g, v)] = F[r][i][Add(c, v)]
    BY <2>1, PaddedNearby DEF c
  <2> QED
    BY <2>4, <2>5, <2>6
<1>2. st \in -1..1 /\ st - 1 \in -1..1
  OBVIOUS
<1>3. CASE d \in Axis
  BY <1>1, <1>2, <1>3 DEF Diff
<1>4. CASE d \notin Axis
  BY <1>4 DEF Diff
<1> QED
  BY <1>3, <1>4

LEMMA CurlSame ==
  ASSUME NEW F, Alike(F), Nought(F), NEW g \in Domain, NEW k \in Comp,
         NEW St \in {StaggerE, StaggerB}
  PROVE  /\ CurlPlus(F[Owner(g)], St, k, LocalCell(Owner(g), g))
              = M!CurlPlus(M!Padded(Glued(F)), St, k, g)
         /\ CurlMinus(F[Owner(g)], St, k, LocalCell(Owner(g), g))
              = M!CurlMinus(M!Padded(Glued(F)), St, k, g)
<1> DEFINE i == Next3(k)
           j == Next3(i)
<1>1. i \in Comp /\ j \in Comp
  BY DEF Next3, Comp
<1>2. St[j][i] \in {0, 1} /\ St[i][j] \in {0, 1}
  BY <1>1 DEF StaggerE, StaggerB
<1> HIDE DEF i, j
<1>3. /\ Diff(F[Owner(g)][j], St[j][i], LocalCell(Owner(g), g), i)
           = Diff(M!Padded(Glued(F))[j], St[j][i], g, i)
      /\ Diff(F[Owner(g)][i], St[i][j], LocalCell(Owner(g), g), j)
           = Diff(M!Padded(Glued(F))[i], St[i][j], g, j)
  BY <1>1, <1>2, DiffSame
<1> QED
  BY <1>3, SameLattice DEF CurlPlus, CurlMinus, i, j

\* No layer lies along what is not an axis of the grid.
LEMMA DepthOff ==
  ASSUME NEW g \in Domain, NEW d, d \notin Axis, NEW half
  PROVE  /\ Depth(BoxOf(Owner(g)), LocalCell(Owner(g), g), d, half) = 0
         /\ M!Depth(M!Whole, g, d, half) = 0
<1>1. \A e : e \in Damping => e[1] \in Axis
  BY LatticeAssumption
<1>2. \A n : <<d, n>> \notin Damping
  <2> SUFFICES ASSUME NEW n, <<d, n>> \in Damping PROVE FALSE
    OBVIOUS
  <2>1. <<d, n>>[1] \in Axis
    BY <1>1, Zenon
  <2> QED
    BY <2>1
<1>3. /\ BoxOf(Owner(g)).layers \subseteq Damping
      /\ M!Whole.layers \subseteq Damping
  BY DEF BoxOf, Box, Damped, M!Whole, M!Box
<1> QED
  BY <1>2, <1>3 DEF Depth, M!Depth

\* One value of a field, and its halves, in the array of its rank and on the
\* lattice: B,
LEMMA AdvanceBSame ==
  ASSUME LayersFit, Alike(E), Nought(E), NEW g \in Domain, NEW k \in Comp
  PROVE  AdvanceB(Fields(Owner(g)), BoxOf(Owner(g)), k, LocalCell(Owner(g), g))
           = M!AdvanceB(M!Fields, M!Whole, k, g)
<1> DEFINE r == Owner(g)
           c == LocalCell(r, g)
           i == Next3(k)
           j == Next3(i)
           f == Fields(r)
           h == M!Fields
<1>1. f.B = B[r] /\ f.B1 = B1[r] /\ f.B2 = B2[r] /\ f.E = E[r]
  BY DEF Fields
<1>2. /\ h.B = M!Padded(Glued(B)) /\ h.B1 = Glued(B1) /\ h.B2 = Glued(B2)
      /\ h.E = M!Padded(Glued(E))
  BY DEF M!Fields
<1>3. /\ h.B[k][g] = B[r][k][c] /\ h.B1[k][g] = B1[r][k][c] /\ h.B2[k][g] = B2[r][k][c]
  BY <1>2, PaddedAt
<1>4. /\ CurlPlus(f.E, StaggerE, k, c) = M!CurlPlus(h.E, M!StaggerE, k, g)
      /\ CurlMinus(f.E, StaggerE, k, c) = M!CurlMinus(h.E, M!StaggerE, k, g)
  <2> HIDE DEF f, h
  <2> QED
    BY <1>1, <1>2, CurlSame, SameLattice
<1>5. \A d \in {i, j} : Depth(BoxOf(r), c, d, 1) = M!Depth(M!Whole, g, d, 1)
  BY DepthSame, DepthOff
<1>6. M!Next3(k) = i /\ M!Next3(i) = j
  BY SameLattice
<1> HIDE DEF r, c, i, j, f, h
<1>7. AdvanceB(f, BoxOf(r), k, c)
        = Advanced(f.B[k][c], f.B1[k][c], f.B2[k][c], -CurlPlus(f.E, StaggerE, k, c),
                   -CurlMinus(f.E, StaggerE, k, c), 0, Depth(BoxOf(r), c, i, 1) > 0,
                   Depth(BoxOf(r), c, j, 1) > 0)
  BY DEF AdvanceB, i, j
<1>8. M!AdvanceB(h, M!Whole, k, g)
        = M!Advanced(h.B[k][g], h.B1[k][g], h.B2[k][g], -M!CurlPlus(h.E, M!StaggerE, k, g),
                     -M!CurlMinus(h.E, M!StaggerE, k, g), 0, M!Depth(M!Whole, g, i, 1) > 0,
                     M!Depth(M!Whole, g, j, 1) > 0)
  BY <1>6 DEF M!AdvanceB
<1>9. AdvanceB(f, BoxOf(r), k, c) = M!AdvanceB(h, M!Whole, k, g)
  BY <1>1, <1>3, <1>4, <1>5, <1>7, <1>8 DEF Advanced, M!Advanced
<1> QED
  BY <1>9 DEF r, c, f, h

\* and E.
LEMMA AdvanceESame ==
  ASSUME LayersFit, Alike(B), Nought(B), stage # "fold", NEW g \in Domain, NEW k \in Comp
  PROVE  AdvanceE(Fields(Owner(g)), BoxOf(Owner(g)), k, LocalCell(Owner(g), g))
           = M!AdvanceE(M!Fields, M!Whole, k, g)
<1> DEFINE r == Owner(g)
           c == LocalCell(r, g)
           i == Next3(k)
           j == Next3(i)
           f == Fields(r)
           h == M!Fields
           half(d) == IF d = k THEN 1 ELSE 0
           kept == \A d \in Axis : Depth(BoxOf(r), c, d, half(d)) = 0
           whole == \A d \in M!Axis : M!Depth(M!Whole, g, d, half(d)) = 0
<1>1. f.E = E[r] /\ f.E1 = E1[r] /\ f.E2 = E2[r] /\ f.B = B[r] /\ f.J = J[r]
  BY DEF Fields
<1>2. /\ h.E = M!Padded(Glued(E)) /\ h.E1 = Glued(E1) /\ h.E2 = Glued(E2)
      /\ h.B = M!Padded(Glued(B)) /\ h.J = Glued(J)
  BY DEF M!Fields
<1>3. /\ h.E[k][g] = E[r][k][c] /\ h.E1[k][g] = E1[r][k][c] /\ h.E2[k][g] = E2[r][k][c]
      /\ h.J[k][g] = J[r][k][c]
  BY <1>2, PaddedAt
<1>4. /\ CurlPlus(f.B, StaggerB, k, c) = M!CurlPlus(h.B, M!StaggerB, k, g)
      /\ CurlMinus(f.B, StaggerB, k, c) = M!CurlMinus(h.B, M!StaggerB, k, g)
  <2> HIDE DEF f, h
  <2> QED
    BY <1>1, <1>2, CurlSame, SameLattice
<1>5. \A d \in {i, j} : Depth(BoxOf(r), c, d, 0) = M!Depth(M!Whole, g, d, 0)
  BY DepthSame, DepthOff
<1>6. kept <=> whole
  BY DepthSame, SameSpace
<1>7. M!Next3(k) = i /\ M!Next3(i) = j
  BY SameLattice
<1> HIDE DEF r, c, i, j, f, h
<1>8. AdvanceE(f, BoxOf(r), k, c)
        = Advanced(f.E[k][c], f.E1[k][c], f.E2[k][c], CurlPlus(f.B, StaggerB, k, c),
                   CurlMinus(f.B, StaggerB, k, c), IF kept THEN f.J[k][c] ELSE 0,
                   Depth(BoxOf(r), c, i, 0) > 0, Depth(BoxOf(r), c, j, 0) > 0)
  BY DEF AdvanceE, i, j
<1>9. M!AdvanceE(h, M!Whole, k, g)
        = M!Advanced(h.E[k][g], h.E1[k][g], h.E2[k][g], M!CurlPlus(h.B, M!StaggerB, k, g),
                     M!CurlMinus(h.B, M!StaggerB, k, g), IF whole THEN h.J[k][g] ELSE 0,
                     M!Depth(M!Whole, g, i, 0) > 0, M!Depth(M!Whole, g, j, 0) > 0)
  BY <1>7 DEF M!AdvanceE
<1> HIDE DEF kept, whole
<1>10. AdvanceE(f, BoxOf(r), k, c) = M!AdvanceE(h, M!Whole, k, g)
  BY <1>1, <1>3, <1>4, <1>5, <1>6, <1>8, <1>9 DEF Advanced, M!Advanced
<1> QED
  BY <1>10 DEF r, c, f, h

-----------------------------------------------------------------------------
(* Copies of a position *)

\* There are finitely many ranks,
LEMMA FiniteRank == IsFiniteSet(Rank)
<1>1. \E n \in Nat : \A d \in Axis : Dims[d] <= n
  <2>1. CASE Dim = 1
    <3>1. Dims[1] \in Nat /\ \A d \in Axis : d = 1
      BY <2>1, DimsAssumption DEF Axis
    <3> QED
      BY <3>1
  <2>2. CASE Dim = 2
    <3>1. Dims[1] \in Nat /\ Dims[2] \in Nat /\ \A d \in Axis : d = 1 \/ d = 2
      BY <2>2, DimsAssumption DEF Axis
    <3>2. Dims[1] + Dims[2] \in Nat /\ \A d \in Axis : Dims[d] <= Dims[1] + Dims[2]
      BY <3>1
    <3> QED
      BY <3>2
  <2>3. CASE Dim = 3
    <3>1. /\ Dims[1] \in Nat /\ Dims[2] \in Nat /\ Dims[3] \in Nat
          /\ \A d \in Axis : d = 1 \/ d = 2 \/ d = 3
      BY <2>3, DimsAssumption DEF Axis
    <3>2. /\ Dims[1] + Dims[2] + Dims[3] \in Nat
          /\ \A d \in Axis : Dims[d] <= Dims[1] + Dims[2] + Dims[3]
      BY <3>1
    <3> QED
      BY <3>2
  <2> QED
    BY <2>1, <2>2, <2>3, DimAssumption
<1>2. PICK n \in Nat : \A d \in Axis : Dims[d] <= n
  BY <1>1
<1>3. Rank \subseteq [Axis -> 0..n]
  <2>1. \A r \in Rank : r = [d \in Axis |-> r[d]]
    BY DEF Rank
  <2>2. \A r \in Rank, d \in Axis : r[d] \in 0..n
    BY <1>2, RankCoord
  <2> QED
    BY <2>1, <2>2
<1>4. IsFiniteSet([Axis -> 0..n])
  <2>1. n \in Int /\ 0 \in Int
    OBVIOUS
  <2>2. IsFiniteSet(0..n)
    BY <2>1, FS_Interval
  <2> QED
    BY <2>2, FiniteOffsets
<1> QED
  BY <1>3, <1>4, FS_Subset

\* and cells,
LEMMA FiniteCell == IsFiniteSet(Cell)
<1>1. W \in Int
  BY CellAssumption DEF W
<1>2. IsFiniteSet(0..(W - 1))
  BY <1>1, FS_Interval
<1> QED
  BY <1>2, FiniteOffsets DEF Cell

\* and the copies of a position are all cells at it.
LEMMA CopiesAre ==
  ASSUME NEW q \in Rank, NEW b \in Cell
  PROVE  LET g == Global(q, b) IN
         /\ \A y \in Copies(g) : y[1] \in Rank /\ y[2] \in Cell /\ Global(y[1], y[2]) = g
                                 /\ y = <<y[1], y[2]>>
         /\ \A r \in Rank, c \in Cell : Global(r, c) = g => <<r, c>> \in Copies(g)
         /\ IsFiniteSet(Copies(g))
<1> DEFINE g == Global(q, b)
           Shown(r, p) == [d \in Axis |-> g[d] - r[d] * N + G + p[d] * Dims[d] * N]
<1>1. Copies(g) = {y \in {<<r, Shown(r, p)>> : r \in Rank, p \in [Axis -> -1..1]} :
                     y[2] \in Cell /\ Global(y[1], y[2]) = g}
  BY DEF Copies
<1>2. ASSUME NEW y \in Copies(g)
      PROVE  /\ y[1] \in Rank /\ y[2] \in Cell /\ Global(y[1], y[2]) = g
             /\ y = <<y[1], y[2]>>
  <2>1. PICK r \in Rank, p \in [Axis -> -1..1] : y = <<r, Shown(r, p)>>
    BY <1>1
  <2>2. y[2] \in Cell /\ Global(y[1], y[2]) = g
    BY <1>1
  <2> HIDE DEF Shown
  <2> QED
    BY <2>1, <2>2
<1>3. ASSUME NEW r \in Rank, NEW c \in Cell, Global(r, c) = g
      PROVE  <<r, c>> \in Copies(g)
  <2> DEFINE p == [d \in Axis |-> IF At(r, c)[d] = g[d] THEN 0
                                  ELSE IF At(r, c)[d] < g[d] THEN -1 ELSE 1]
  <2>1. p \in [Axis -> -1..1]
    OBVIOUS
  <2>2. ASSUME NEW d \in Axis PROVE c[d] = g[d] - r[d] * N + G + p[d] * Dims[d] * N
    <3> DEFINE y == At(r, c)[d]
               L == Dims[d] * N
               z == r[d] * N
    <3>1. /\ y \in Int /\ y = z + c[d] - G /\ g[d] \in Int /\ c[d] \in Int
          /\ r[d] \in 0..(Dims[d] - 1)
      BY <1>3, GlobalAlong
    <3>2. L \in Nat /\ z \in Int /\ G \in Int /\ Dims[d] \in Int /\ N \in Int
      BY <3>1, Span, Extent
    <3>3. g[d] = IF ~Periodic[d] THEN y
                 ELSE IF y < 0 THEN y + L ELSE IF y >= L THEN y - L ELSE y
      BY <1>3 DEF Global, Wrap, At
    <3>4. p[d] = IF y = g[d] THEN 0 ELSE IF y < g[d] THEN -1 ELSE 1
      OBVIOUS
    <3>5. 0 * Dims[d] * N = 0 /\ (-1) * Dims[d] * N = -L /\ 1 * Dims[d] * N = L
      BY <3>2
    <3> HIDE DEF y, L, z, p, g
    <3>6. /\ y = g[d] => p[d] = 0
          /\ y = g[d] - L /\ y # g[d] => p[d] = -1
          /\ y = g[d] + L /\ y # g[d] => p[d] = 1
      BY <3>1, <3>2, <3>4
    <3>7. y = g[d] \/ y = g[d] - L \/ y = g[d] + L
      BY <3>1, <3>2, <3>3
    <3>8. \/ p[d] * Dims[d] * N = 0 /\ y = g[d]
          \/ p[d] * Dims[d] * N = -L /\ y = g[d] - L
          \/ p[d] * Dims[d] * N = L /\ y = g[d] + L
      BY <3>5, <3>6, <3>7
    <3> DEFINE v == p[d] * Dims[d] * N
    <3>9. v = y - g[d] /\ v \in Int
      BY <3>1, <3>2, <3>8
    <3> HIDE DEF v
    <3>10. c[d] = g[d] - z + G + v
      BY <3>1, <3>2, <3>9
    <3> QED
      BY <3>10 DEF v, z
  <2>3. c = [d \in Axis |-> c[d]]
    BY DEF Cell
  <2> HIDE DEF p
  <2>4. c = Shown(r, p)
    BY <2>2, <2>3
  <2> HIDE DEF Shown, g
  <2> QED
    BY <1>1, <1>3, <2>1, <2>4
<1>4. IsFiniteSet(Copies(g))
  <2>1. IsFiniteSet(Rank \X Cell)
    BY FiniteRank, FiniteCell, FS_Product
  <2> HIDE DEF g
  <2>2. Copies(g) \subseteq Rank \X Cell
    BY <1>2
  <2> QED
    BY <2>1, <2>2, FS_Subset
<1> QED
  BY <1>2, <1>3, <1>4

-----------------------------------------------------------------------------
(* The deposit of a particle *)

LEMMA ShapeType ==
  ASSUME NEW p \in Int, NEW q \in Int, NEW i \in Int
  PROVE  S0(p, i) \in Int /\ S1(p, q, i) \in Int
<1>1. K \in Nat \ {0}
  BY LatticeAssumption
<1>2. \A n \in Int : Spline(n) \in Int
  BY <1>1 DEF Spline
<1>3. i * K - p \in Int /\ i * K - p - q \in Int
  BY <1>1
<1> QED
  BY <1>2, <1>3 DEF S0, S1

LEMMA MeanType ==
  ASSUME NEW p \in [Axis -> Int], NEW q \in [Axis -> Int], NEW o \in [Axis -> Int],
         NEW D \in SUBSET Axis
  PROVE  Mean(p, q, D, o) \in Int
<1> DEFINE s0(d) == S0(p[d], o[d])
           s1(d) == S1(p[d], q[d], o[d])
           a == CHOOSE d \in D : TRUE
           b == CHOOSE d \in D \ {a} : TRUE
<1>1. \A d \in Axis : s0(d) \in Int /\ s1(d) \in Int
  BY ShapeType
<1>2. Mean(p, q, D, o) =
        IF D = {} THEN 6
        ELSE IF D = {a} THEN 3 * (s0(a) + s1(a))
        ELSE 2 * s1(a) * s1(b) + s0(a) * s1(b) + s1(a) * s0(b) + 2 * s0(a) * s0(b)
  BY DEF Mean
<1>3. D # {} => a \in Axis
  OBVIOUS
<1>4. D # {} /\ D # {a} => b \in Axis
  OBVIOUS
<1> HIDE DEF s0, s1, a, b
<1>5. \A d, e \in Axis : s1(d) * s1(e) \in Int /\ s0(d) * s1(e) \in Int
                         /\ s1(d) * s0(e) \in Int /\ s0(d) * s0(e) \in Int
  BY <1>1
<1>6. CASE D = {}
  BY <1>2, <1>6
<1>7. CASE D # {} /\ D = {a}
  <2>1. s0(a) \in Int /\ s1(a) \in Int
    BY <1>1, <1>3, <1>7
  <2> QED
    BY <1>2, <1>7, <2>1
<1>8. CASE D # {} /\ D # {a}
  <2>1. /\ s0(a) \in Int /\ s1(a) \in Int /\ s0(b) \in Int /\ s1(b) \in Int
    BY <1>1, <1>3, <1>4, <1>8
  <2> QED
    BY <1>2, <1>8, <2>1
<1> QED
  BY <1>6, <1>7, <1>8

LEMMA ScaleType == FilterScale \in Int
<1> DEFINE n == 2 * Dim * FilterTimes
<1>1. n \in Nat
  BY LatticeAssumption, DimAssumption
<1> HIDE DEF n
<1>2. 2^n \in Int
  BY <1>1
<1> QED
  BY <1>2 DEF FilterScale, n

\* The shape changes up to an offset.
LEMMA ChangeSum ==
  ASSUME NEW p, NEW q, NEW S, IsFiniteSet(S)
  PROVE  MapThenSumSet(LAMBDA i : S1(p, q, i) - S0(p, i), S)
           = Sum([i \in S |-> S1(p, q, i) - S0(p, i)], S)
<1> DEFINE w == [i \in S |-> S1(p, q, i) - S0(p, i)]
           P(g) == g = [s \in SUBSET S |->
                     IF s = {} THEN 0
                     ELSE (S1(p, q, CHOOSE e \in s : TRUE) - S0(p, CHOOSE e \in s : TRUE))
                            + g[s \ {CHOOSE e \in s : TRUE}]]
<1>1. ASSUME NEW g PROVE P(g) <=> Summing(w, S, g)
  BY DEF Summing
<1>2. MapThenSumSet(LAMBDA i : S1(p, q, i) - S0(p, i), S) = (CHOOSE g : P(g))[S]
  BY DEF MapThenSumSet, MapThenFoldSet
<1> HIDE DEF P, w
<1>3. P(CHOOSE g : P(g))
  BY <1>1, SummingExists, Zenon
<1>4. Summing(w, S, CHOOSE g : P(g))
  BY <1>1, <1>3
<1>5. Sum(w, S) = (CHOOSE g : P(g))[S]
  BY <1>4, SumIs
<1> QED
  BY <1>2, <1>5 DEF w

LEMMA DepositJType ==
  ASSUME NEW p \in [Axis -> Int], NEW q \in [Axis -> Int], NEW o \in [Axis -> Int],
         NEW k \in Comp
  PROVE  DepositJ(p, q, Across, k, o) \in Int
<1>1. \A D \in SUBSET Axis : Mean(p, q, D, o) \in Int
  BY MeanType
<1> DEFINE h == FilterScale
<1>2. h \in Int /\ Across \in Int
  BY ScaleType, ParticleAssumption
<1>3. CASE k \in Axis
  <2> DEFINE S == {i \in Offsets(p[k], q[k]) : i <= o[k]}
             v == MapThenSumSet(LAMBDA i : S1(p[k], q[k], i) - S0(p[k], i), S)
             w == [i \in S |-> S1(p[k], q[k], i) - S0(p[k], i)]
  <2>1. S \subseteq -1..2
    BY DEF Offsets
  <2>2. IsFiniteSet(S)
    <3>1. -1 \in Int /\ 2 \in Int
      OBVIOUS
    <3>2. IsFiniteSet(-1..2)
      BY <3>1, FS_Interval
    <3> HIDE DEF S
    <3> QED
      BY <2>1, <3>2, FS_Subset
  <2>3. \A i \in S : w[i] \in Int
    <3>1. p[k] \in Int /\ q[k] \in Int
      BY <1>3
    <3>2. ASSUME NEW i \in S PROVE S1(p[k], q[k], i) - S0(p[k], i) \in Int
      <4>1. i \in Int
        BY <2>1
      <4> HIDE DEF S
      <4>2. S1(p[k], q[k], i) \in Int /\ S0(p[k], i) \in Int
        BY <3>1, <4>1, ShapeType, Zenon
      <4> QED
        BY <4>2
    <3> HIDE DEF S
    <3> QED
      BY <3>2
  <2>4. v = Sum(w, S)
    <3> HIDE DEF S
    <3> QED
      BY <2>2, ChangeSum
  <2>5. v \in Int
    <3> HIDE DEF S, w, v
    <3> QED
      BY <2>2, <2>3, <2>4, SumType
  <2>6. DepositJ(p, q, Across, k, o) = -v * Mean(p, q, Axis \ {k}, o) * h
    BY <1>3 DEF DepositJ
  <2>7. Mean(p, q, Axis \ {k}, o) \in Int
    BY <1>1
  <2> HIDE DEF v, h
  <2> QED
    BY <1>2, <2>5, <2>6, <2>7
<1>4. CASE k \notin Axis
  <2>1. DepositJ(p, q, Across, k, o) = Across * Mean(p, q, Axis, o) * h
    BY <1>4 DEF DepositJ
  <2>2. Mean(p, q, Axis, o) \in Int
    BY <1>1
  <2> HIDE DEF h
  <2> QED
    BY <1>2, <2>1, <2>2
<1> QED
  BY <1>3, <1>4

\* The cell of a position of the domain.
LEMMA CellOfFacts ==
  ASSUME NEW p \in [Axis -> Nat], \A d \in Axis : p[d] < Dims[d] * N * K
  PROVE  /\ M!CellOf(p) \in Domain
         /\ \A d \in Axis : M!Within(p)[d] \in 0..(K - 1)
         /\ M!Within(p) \in [Axis -> Int]
<1> DEFINE g == M!CellOf(p)
<1>1. K \in Nat \ {0}
  BY LatticeAssumption
<1>2. \A d \in Axis : g[d] = p[d] \div K /\ M!Within(p)[d] = p[d] % K
  BY SameSpace DEF M!CellOf, M!Within
<1>3. ASSUME NEW d \in Axis
      PROVE  g[d] \in 0..(Dims[d] * N - 1) /\ M!Within(p)[d] \in 0..(K - 1)
  <2> DEFINE L == Dims[d] * N
             n == p[d]
             q == n \div K
  <2>1. L \in Nat /\ n \in Nat /\ n < L * K
    BY Extent
  <2> HIDE DEF L, n
  <2>2. q \in Nat /\ n % K \in 0..(K - 1) /\ q * K + (n % K) = n
    BY <1>1, <2>1, SMT
  <2> HIDE DEF q
  <2>3. ASSUME L <= q PROVE FALSE
    <3>1. L * K <= q * K
      BY <1>1, <2>1, <2>2, <2>3, ScaleMonotone
    <3>2. L * K \in Int /\ q * K \in Int
      BY <1>1, <2>1, <2>2
    <3> QED
      BY <2>1, <2>2, <3>1, <3>2
  <2>4. q \in 0..(L - 1)
    BY <2>1, <2>2, <2>3
  <2> QED
    BY <1>2, <2>2, <2>4 DEF L, n, q
<1>4. g = [d \in Axis |-> g[d]] /\ M!Within(p) = [d \in Axis |-> M!Within(p)[d]]
  BY SameSpace DEF M!CellOf, M!Within
<1> HIDE DEF g
<1>5. g \in Domain
  BY <1>3, <1>4, Assembled
<1>6. M!Within(p) \in [Axis -> Int]
  <2>1. \A d \in Axis : M!Within(p)[d] \in Int
    BY <1>1, <1>3
  <2> QED
    BY <1>4, <2>1
<1> QED
  BY <1>3, <1>5, <1>6 DEF g

\* The cells that a deposit reaches.
LEMMA Reached ==
  ASSUME NEW g \in Domain, NEW o \in [Axis -> -1..2]
  PROVE  LET r == Owner(g)
             b == LocalCell(r, g) IN
         /\ Add(b, o) \in Cell
         /\ [d \in Axis |-> Add(b, o)[d] - b[d]] = o
         /\ Global(r, Add(b, o)) = Wrap(Add(g, o))
<1> DEFINE r == Owner(g)
           b == LocalCell(r, g)
           c == Add(b, o)
<1>1. r \in Rank /\ b \in Interior /\ At(r, b) = g
  BY OwnerFacts
<1>2. ASSUME NEW d \in Axis
      PROVE  c[d] \in 0..(W - 1) /\ c[d] - b[d] = o[d] /\ At(r, c)[d] = Add(g, o)[d]
  <2>1. /\ b[d] \in G..(N + G - 1) /\ o[d] \in -1..2
        /\ r[d] * N \in Int /\ r[d] * N + b[d] - G = g[d]
        /\ N \in Nat /\ G \in Nat /\ G >= 2 /\ W = N + 2 * G
    <3>1. r[d] \in 0..(Dims[d] - 1)
      BY <1>1, RankCoord
    <3>2. At(r, b)[d] = r[d] * N + b[d] - G
      BY DEF At
    <3> QED
      BY <1>1, <3>1, <3>2, Span, Extent, DepositAssumption DEF Interior
  <2>2. c[d] = b[d] + o[d] /\ Add(g, o)[d] = g[d] + o[d]
    BY DEF Add
  <2>3. At(r, c)[d] = r[d] * N + c[d] - G
    BY DEF At
  <2> HIDE DEF r, b, c
  <2> DEFINE p == r[d] * N
             y == Add(g, o)[d]
  <2>4. /\ p \in Int /\ p + b[d] - G = g[d] /\ At(r, c)[d] = p + c[d] - G
        /\ y = g[d] + o[d]
    BY <2>1, <2>2, <2>3
  <2> HIDE DEF p, y
  <2>5. c[d] \in 0..(W - 1) /\ c[d] - b[d] = o[d] /\ At(r, c)[d] = y
    BY <2>1, <2>2, <2>4
  <2> QED
    BY <2>5 DEF y
<1>3. /\ At(r, c) = [d \in Axis |-> At(r, c)[d]]
      /\ Add(g, o) = [d \in Axis |-> Add(g, o)[d]]
      /\ c = [d \in Axis |-> c[d]] /\ o = [d \in Axis |-> o[d]]
  BY DEF At, Add
<1>4. At(r, c) = Add(g, o)
  BY <1>2, <1>3
<1>5. Global(r, c) = Wrap(At(r, c))
  BY DEF Global, At
<1>6. c \in Cell
  BY <1>2, <1>3, Assembled
<1>7. [d \in Axis |-> c[d] - b[d]] = o
  BY <1>2, <1>3
<1> QED
  BY <1>4, <1>5, <1>6, <1>7

\* The deposits at a position of the lattice.
LEMMA LatticeSum ==
  ASSUME NEW p, NEW q, NEW k, NEW S, IsFiniteSet(S)
  PROVE  M!MapThenSumSet(LAMBDA o : M!DepositJ(p, q, Across, k, o), S)
           = Sum([o \in S |-> DepositJ(p, q, Across, k, o)], S)
<1> DEFINE D(o) == M!DepositJ(p, q, Across, k, o)
           w == [o \in S |-> DepositJ(p, q, Across, k, o)]
           P(g) == g = [s \in SUBSET S |->
                     IF s = {} THEN 0
                     ELSE M!DepositJ(p, q, Across, k, CHOOSE e \in s : TRUE)
                            + g[s \ {CHOOSE e \in s : TRUE}]]
<1>1. ASSUME NEW g PROVE P(g) <=> Summing(w, S, g)
  <2>1. \A e \in S : w[e] = M!DepositJ(p, q, Across, k, e)
    BY SameDeposit
  <2>2. \A s \in SUBSET S : s # {} => (CHOOSE e \in s : TRUE) \in S
    OBVIOUS
  <2> HIDE DEF w
  <2> QED
    BY <2>1, <2>2 DEF Summing
<1>2. M!MapThenSumSet(LAMBDA o : M!DepositJ(p, q, Across, k, o), S) = (CHOOSE g : P(g))[S]
  BY DEF M!MapThenSumSet, M!MapThenFoldSet
<1> HIDE DEF P, w
<1>3. P(CHOOSE g : P(g))
  BY <1>1, SummingExists, Zenon
<1>4. Summing(w, S, CHOOSE g : P(g))
  BY <1>1, <1>3
<1>5. Sum(w, S) = (CHOOSE g : P(g))[S]
  BY <1>4, SumIs
<1> QED
  BY <1>2, <1>5 DEF w

\* The offsets within which a deposit stays.
Near == [Axis -> -1..2]

\* A deposit of v[o] in every cell at an offset o from that of the particle.
Spread(p, q, v) ==
  [r \in Rank |-> [c \in Cell |->
     IF r = Holder(p) /\ FromPtc(p, c) \in M!OffsetSet(p, q) THEN v[FromPtc(p, c)] ELSE 0]]

\* The offsets that lead to a position of the domain.
Landing(p, q, g) == {o \in M!OffsetSet(p, q) : Wrap(Add(M!CellOf(p), o)) = g}

LEMMA LandingFinite ==
  ASSUME NEW p, NEW q, NEW g
  PROVE  /\ IsFiniteSet(Near) /\ M!OffsetSet(p, q) \subseteq Near
         /\ IsFiniteSet(Landing(p, q, g)) /\ Landing(p, q, g) \subseteq Near
<1>1. M!OffsetSet(p, q) \subseteq Near
  BY SameSpace DEF M!OffsetSet, Near
<1>2. IsFiniteSet(Near)
  <2>1. -1 \in Int /\ 2 \in Int
    OBVIOUS
  <2> QED
    BY <2>1, FS_Interval, FiniteOffsets DEF Near
<1>3. Landing(p, q, g) \subseteq Near
  BY <1>1 DEF Landing
<1> QED
  BY <1>1, <1>2, <1>3, FS_Subset

\* Added up over all copies, the local deposits of a particle give at every
\* position what it deposits there on the lattice.
LEMMA FoldedSpread ==
  ASSUME NEW p \in [Axis -> Nat], \A d \in Axis : p[d] < Dims[d] * N * K, NEW q,
         NEW g \in Domain, NEW w, \A o \in Near : w[o] \in Int
  PROVE  Folded(Spread(p, q, w))[Owner(g)][LocalCell(Owner(g), g)] = Sum(w, Landing(p, q, g))
<1> DEFINE a == M!CellOf(p)
           r == Owner(a)
           b == LocalCell(r, a)
           S == Landing(p, q, g)
           T == Copies(g)
           F == Spread(p, q, w)
           at == [o \in S |-> <<r, Add(b, o)>>]
           v == [y \in T |-> F[y[1]][y[2]]]
           Hit(s, c) == s = r /\ FromPtc(p, c) \in M!OffsetSet(p, q)
<1>1. a \in Domain /\ r \in Rank /\ b \in Interior
  BY CellOfFacts, OwnerFacts
<1>2. M!OffsetSet(p, q) \subseteq Near
  BY LandingFinite
<1>3. ASSUME NEW o \in Near
      PROVE  /\ Add(b, o) \in Cell /\ FromPtc(p, Add(b, o)) = o
             /\ Global(r, Add(b, o)) = Wrap(Add(a, o))
  <2>1. /\ Add(b, o) \in Cell /\ [d \in Axis |-> Add(b, o)[d] - b[d]] = o
        /\ Global(r, Add(b, o)) = Wrap(Add(a, o))
    BY <1>1, Reached DEF Near
  <2> QED
    BY <2>1 DEF FromPtc, Holder
<1>4. \A s \in Rank, c \in Cell :
        F[s][c] = IF Hit(s, c) THEN w[FromPtc(p, c)] ELSE 0
  BY DEF Spread, Holder
<1>5. ASSUME NEW c \in Cell PROVE Add(b, FromPtc(p, c)) = c
  <2>1. FromPtc(p, c) = [d \in Axis |-> c[d] - b[d]]
    BY DEF FromPtc, Holder
  <2>2. c = [d \in Axis |-> c[d]]
    BY DEF Cell
  <2>3. \A d \in Axis : c[d] \in Int /\ b[d] \in Int
    BY <1>1, InteriorCell DEF Cell
  <2> HIDE DEF b
  <2>4. \A d \in Axis : b[d] + (c[d] - b[d]) = c[d]
    BY <2>3
  <2>5. Add(b, FromPtc(p, c)) = [d \in Axis |-> b[d] + (c[d] - b[d])]
    BY <2>1 DEF Add
  <2> QED
    BY <2>2, <2>4, <2>5
<1>6. /\ \A y \in T : y[1] \in Rank /\ y[2] \in Cell /\ Global(y[1], y[2]) = g
                        /\ y = <<y[1], y[2]>>
      /\ \A s \in Rank, c \in Cell : Global(s, c) = g => <<s, c>> \in T
      /\ IsFiniteSet(T)
  <2> DEFINE s == Owner(g)
             c == LocalCell(s, g)
  <2>1. s \in Rank /\ c \in Cell /\ Global(s, c) = g
    BY OwnerFacts
  <2> HIDE DEF s, c
  <2> QED
    BY <2>1, CopiesAre
<1>7. /\ S \subseteq Near /\ IsFiniteSet(S)
      /\ \A o : o \in S <=> o \in M!OffsetSet(p, q) /\ Wrap(Add(a, o)) = g
  BY LandingFinite DEF Landing
<1> HIDE DEF a, r, b, S, T, F, Hit
<1>8. at \in [S -> T]
  <2> SUFFICES ASSUME NEW o \in S PROVE <<r, Add(b, o)>> \in T
    OBVIOUS
  <2>1. Add(b, o) \in Cell /\ Global(r, Add(b, o)) = g
    BY <1>3, <1>7
  <2> QED
    BY <1>1, <1>6, <2>1
<1>9. ASSUME NEW d \in S, NEW e \in S, at[d] = at[e] PROVE d = e
  <2>1. Add(b, d) = Add(b, e)
    BY <1>9
  <2>2. FromPtc(p, Add(b, d)) = d /\ FromPtc(p, Add(b, e)) = e
    BY <1>3, <1>7
  <2> QED
    BY <2>1, <2>2
<1>10. ASSUME NEW o \in S PROVE w[o] = v[at[o]]
  <2>1. at[o] = <<r, Add(b, o)>> /\ at[o] \in T
    BY <1>8
  <2>2. o \in Near /\ o \in M!OffsetSet(p, q)
    BY <1>7
  <2>3. Add(b, o) \in Cell /\ FromPtc(p, Add(b, o)) = o
    BY <1>3, <2>2
  <2>4. Hit(r, Add(b, o))
    BY <2>2, <2>3 DEF Hit
  <2>5. F[r][Add(b, o)] = w[o]
    BY <1>1, <1>4, <2>3, <2>4
  <2> HIDE DEF at
  <2>6. v[at[o]] = F[r][Add(b, o)]
    BY <2>1
  <2> QED
    BY <2>5, <2>6
<1>11. ASSUME NEW y \in T
       PROVE  v[y] \in Int /\ ((\A o \in S : at[o] # y) => v[y] = 0)
  <2>1. y[1] \in Rank /\ y[2] \in Cell /\ Global(y[1], y[2]) = g /\ y = <<y[1], y[2]>>
    BY <1>6
  <2> DEFINE o == FromPtc(p, y[2])
  <2>2. v[y] = IF Hit(y[1], y[2]) THEN w[o] ELSE 0
    BY <1>4, <2>1
  <2>3. CASE Hit(y[1], y[2])
    <3>1. y[1] = r /\ o \in M!OffsetSet(p, q) /\ o \in Near
      BY <1>2, <2>3 DEF Hit
    <3>2. Add(b, o) = y[2]
      BY <1>5, <2>1
    <3> HIDE DEF o
    <3>3. Wrap(Add(a, o)) = g /\ w[o] \in Int
      BY <1>3, <2>1, <3>1, <3>2
    <3>4. o \in S
      BY <1>7, <3>1, <3>3
    <3>5. at[o] = y
      BY <2>1, <3>1, <3>2, <3>4
    <3> QED
      BY <2>2, <2>3, <3>3, <3>4, <3>5
  <2>4. CASE ~Hit(y[1], y[2])
    BY <2>2, <2>4
  <2> QED
    BY <2>3, <2>4
<1>12. Sum(w, S) = Sum(v, T)
  <2> HIDE DEF at, v
  <2>1. \A d, e \in S : at[d] = at[e] => d = e
    BY <1>9
  <2>2. \A e \in S : w[e] = v[at[e]]
    BY <1>10
  <2>3. \A y \in T : v[y] \in Int /\ ((\A e \in S : at[e] # y) => v[y] = 0)
    BY <1>11
  <2>4. IsFiniteSet(T)
    BY <1>6
  <2> QED
    BY <1>7, <1>8, <2>1, <2>2, <2>3, <2>4, SumOver, SMTT(20)
<1>13. Folded(F)[Owner(g)][LocalCell(Owner(g), g)] = Sum(v, T)
  <2> DEFINE s == Owner(g)
             c == LocalCell(s, g)
  <2>1. s \in Rank /\ c \in Cell /\ Global(s, c) = g
    BY OwnerFacts
  <2> HIDE DEF s, c
  <2>2. Folded(F)[s][c] = MapThenSumSet(LAMBDA y : F[y[1]][y[2]], T)
    BY <2>1 DEF Folded, T
  <2>3. MapThenSumSet(LAMBDA y : F[y[1]][y[2]], T) = Sum([y \in T |-> F[y[1]][y[2]]], T)
    BY <1>6, FoldedSum
  <2> QED
    BY <2>2, <2>3 DEF s, c
<1> QED
  BY <1>12, <1>13 DEF F, S

LEMMA FoldedDeposit ==
  ASSUME NEW p \in [Axis -> Nat], \A d \in Axis : p[d] < Dims[d] * N * K, NEW q \in Moves,
         NEW g \in Domain, NEW k \in Comp
  PROVE  /\ Each(Folded, DepositedJ(p, q))[Owner(g)][k][LocalCell(Owner(g), g)]
              = M!MapThenSumSet(LAMBDA o : M!DepositJ(M!Within(p), q, Across, k, o),
                              {o \in M!OffsetSet(p, q) : M!Wrap(M!Add(M!CellOf(p), o)) = g})
         /\ Each(Folded, DepositedJ(p, q))[Owner(g)][k][LocalCell(Owner(g), g)]
              = Sum([o \in Near |-> DepositJ(M!Within(p), q, Across, k, o)], Landing(p, q, g))
<1> DEFINE u == M!Within(p)
           D(o) == DepositJ(u, q, Across, k, o)
           w == [o \in Near |-> D(o)]
           S == Landing(p, q, g)
           F == DepositedJ(p, q)
           f == [s \in Rank |-> F[s][k]]
<1>1. u \in [Axis -> Int] /\ q \in [Axis -> Int]
  <2>1. q \in [Axis -> (-K)..K] /\ K \in Nat
    BY ParticleAssumption, LatticeAssumption
  <2> QED
    BY <2>1, CellOfFacts
<1>2. \A o \in Near : w[o] \in Int
  <2> SUFFICES ASSUME NEW o \in Near PROVE D(o) \in Int
    OBVIOUS
  <2>1. o \in [Axis -> Int]
    BY DEF Near
  <2> QED
    BY <1>1, <2>1, DepositJType
<1>3. IsFiniteSet(S) /\ S \subseteq Near /\ M!OffsetSet(p, q) \subseteq Near
  BY LandingFinite
<1>4. f = Spread(p, q, w)
  <2>1. \A s \in Rank, c \in Cell :
          F[s][k][c] = IF s = Holder(p) /\ FromPtc(p, c) \in M!OffsetSet(p, q)
                       THEN D(FromPtc(p, c)) ELSE 0
    BY DEF DepositedJ
  <2>2. \A s \in Rank : F[s][k] = [c \in Cell |-> F[s][k][c]]
    BY DEF DepositedJ
  <2> HIDE DEF D, F
  <2>3. \A s \in Rank, c \in Cell :
          F[s][k][c] = IF s = Holder(p) /\ FromPtc(p, c) \in M!OffsetSet(p, q)
                       THEN w[FromPtc(p, c)] ELSE 0
    BY <1>3, <2>1
  <2> HIDE DEF w
  <2> QED
    BY <2>2, <2>3 DEF Spread
<1>5. Each(Folded, F)[Owner(g)][k][LocalCell(Owner(g), g)]
        = Folded(f)[Owner(g)][LocalCell(Owner(g), g)]
  BY OwnerFacts DEF Each
<1>6. {o \in M!OffsetSet(p, q) : M!Wrap(M!Add(M!CellOf(p), o)) = g} = S
  BY SameSpace DEF Landing
<1>7. M!MapThenSumSet(LAMBDA o : M!DepositJ(u, q, Across, k, o), S) = Sum(w, S)
  <2> DEFINE z == [o \in S |-> D(o)]
  <2>1. M!MapThenSumSet(LAMBDA o : M!DepositJ(u, q, Across, k, o), S) = Sum(z, S)
    <3> HIDE DEF S, u
    <3> QED
      BY <1>3, LatticeSum
  <2>2. \A o \in S : z[o] = w[o]
    BY <1>3
  <2> HIDE DEF z, w, S
  <2>3. Sum(z, S) = Sum(w, S)
    BY <1>3, <2>2, SumSame
  <2> QED
    BY <2>1, <2>3
<1>8. Folded(f)[Owner(g)][LocalCell(Owner(g), g)] = Sum(w, S)
  <2> HIDE DEF w
  <2>1. Folded(Spread(p, q, w))[Owner(g)][LocalCell(Owner(g), g)] = Sum(w, S)
    BY <1>2, FoldedSpread
  <2> QED
    BY <1>4, <2>1
<1>9. M!MapThenSumSet(LAMBDA o : M!DepositJ(u, q, Across, k, o),
                      {o \in M!OffsetSet(p, q) : M!Wrap(M!Add(M!CellOf(p), o)) = g})
        = Sum(w, S)
  <2> HIDE DEF S, w, u
  <2> QED
    BY <1>6, <1>7, Zenon
<1>10. Each(Folded, F)[Owner(g)][k][LocalCell(Owner(g), g)] = Sum(w, S)
  <2> HIDE DEF F, f, w, S
  <2> QED
    BY <1>5, <1>8
<1> QED
  BY <1>9, <1>10

\* Every copy takes the same sum.
LEMMA FoldedAlike ==
  ASSUME NEW F
  PROVE  Alike(Each(Folded, F))
<1> SUFFICES ASSUME NEW r \in Rank, NEW k \in Comp, NEW c \in Cell
             PROVE  Each(Folded, F)[r][k][c]
                      = Each(Folded, F)[HomeRank(r, c)][k][HomeCell(r, c)]
  BY DEF Alike
<1> DEFINE f == [s \in Rank |-> F[s][k]]
           s == HomeRank(r, c)
           b == HomeCell(r, c)
<1>1. s \in Rank /\ b \in Cell /\ Global(s, b) = Global(r, c)
  BY HomeFacts
<1> HIDE DEF s, b
<1>2. Each(Folded, F)[r][k][c] = Folded(f)[r][c] /\ Each(Folded, F)[s][k][b] = Folded(f)[s][b]
  BY <1>1 DEF Each
<1> HIDE DEF f
<1>3. Folded(f)[r][c] = Folded(f)[s][b]
  BY <1>1 DEF Folded
<1> QED
  BY <1>2, <1>3 DEF s, b

-----------------------------------------------------------------------------
(* The filter *)

\* Next to an interior cell, but not beyond an end, only Alike is needed.
LEMMA PaddedInside ==
  ASSUME NEW F, Alike(F), NEW g \in Domain, NEW n \in [Axis -> -1..1], NEW k \in Comp,
         ~Outside(Add(g, n))
  PROVE  M!Padded(Glued(F))[k][Add(g, n)]
           = F[Owner(g)][k][Add(LocalCell(Owner(g), g), n)]
<1> DEFINE r == Owner(g)
           c == Add(LocalCell(r, g), n)
           y == Add(g, n)
           h == Wrap(y)
<1>1. /\ r \in Rank /\ c \in Cell /\ y \in M!Ring /\ Global(r, c) = h
      /\ ~Outside(Global(r, c))
  BY Nearby
<1> HIDE DEF r, c, y
<1>2. ~Outside(y)
  BY DEF y
<1>3. M!Padded(Glued(F))[k][y] = Glued(F)[k][h]
  BY <1>1, <1>2, SameSpace DEF M!Padded
<1>4. /\ h \in Domain
      /\ HomeRank(r, c) = Owner(h) /\ HomeCell(r, c) = LocalCell(Owner(h), h)
  BY <1>1, HomeOwner
<1>5. Glued(F)[k][h] = F[Owner(h)][k][LocalCell(Owner(h), h)]
  BY <1>4 DEF Glued
<1>6. F[r][k][c] = F[Owner(h)][k][LocalCell(Owner(h), h)]
  BY <1>1, <1>4 DEF Alike
<1> QED
  BY <1>3, <1>5, <1>6 DEF r, c, y

\* An interior cell lies at the ends at which its position lies.
LEMMA EndsSame ==
  ASSUME NEW g \in Domain
  PROVE  /\ Ends(Owner(g), LocalCell(Owner(g), g)) = M!Ends(g)
         /\ M!Ends(g) \subseteq Axis \X {-1, 1}
         /\ \A d \in Axis, s \in {-1, 1} :
              <<d, s>> \in M!Ends(g) <=>
                ~Periodic[d] /\ g[d] = IF s = -1 THEN 0 ELSE Dims[d] * N - 1
<1> DEFINE r == Owner(g)
           c == LocalCell(r, g)
<1>1. r \in Rank /\ c \in Interior /\ At(r, c) = g
  BY OwnerFacts
<1>2. ASSUME NEW d \in Axis, NEW s \in {-1, 1}
      PROVE  /\ <<d, s>> \in Ends(r, c) <=> <<d, s>> \in M!Ends(g)
             /\ <<d, s>> \in M!Ends(g) <=>
                  ~Periodic[d] /\ g[d] = IF s = -1 THEN 0 ELSE Dims[d] * N - 1
  <2> DEFINE p == r[d] * N
             L == Dims[d] * N
  <2>1. /\ r[d] \in 0..(Dims[d] - 1) /\ c[d] \in G..(N + G - 1)
        /\ N \in Nat /\ G \in Nat /\ L \in Nat /\ Dims[d] \in Nat \ {0}
    BY <1>1, RankCoord, Extent DEF Interior
  <2>2. /\ p \in Nat /\ p + N <= L
        /\ r[d] # 0 => N <= p
        /\ r[d] = 0 => p = 0
        /\ r[d] # Dims[d] - 1 => p + N + N <= L
        /\ r[d] = Dims[d] - 1 => p + N = L
    BY <2>1, Span
  <2>3. g[d] = p + c[d] - G /\ g[d] \in Int
    BY <1>1, Extent DEF At, Domain
  <2>4. Neighbor(r, d, s) = PROC_NULL <=> ~Periodic[d] /\ r[d] + s \notin 0..(Dims[d] - 1)
    BY <1>1, AtEnd
  <2>5. /\ <<d, s>> \in Ends(r, c) <=>
             Neighbor(r, d, s) = PROC_NULL /\ c[d] = IF s = -1 THEN G ELSE N + G - 1
        /\ <<d, s>> \in M!Ends(g) <=>
             ~Periodic[d] /\ g[d] = IF s = -1 THEN 0 ELSE L - 1
    BY SameSpace DEF Ends, M!Ends
  <2> HIDE DEF r, c, p, L
  <2>6. CASE s = -1
    <3>1. r[d] + s \notin 0..(Dims[d] - 1) <=> r[d] = 0
      BY <2>1, <2>6
    <3>2. r[d] = 0 /\ c[d] = G => g[d] = 0
      BY <2>1, <2>2, <2>3
    <3>3. r[d] # 0 => g[d] # 0
      BY <2>1, <2>2, <2>3
    <3>4. ASSUME r[d] = 0, g[d] = 0 PROVE c[d] = G
      <4>1. p = 0
        BY <2>2, <3>4
      <4>2. c[d] \in Int /\ G \in Int /\ c[d] - G = 0
        BY <2>1, <2>3, <3>4, <4>1
      <4>3. \A u, v \in Int : u - v = 0 => u = v
        OBVIOUS
      <4> QED
        BY <4>2, <4>3, Zenon
    <3> QED
      BY <2>4, <2>5, <2>6, <3>1, <3>2, <3>3, <3>4 DEF L
  <2>7. CASE s = 1
    <3>1. r[d] + s \notin 0..(Dims[d] - 1) <=> r[d] = Dims[d] - 1
      BY <2>1, <2>7
    <3>2. r[d] = Dims[d] - 1 /\ c[d] = N + G - 1 <=> g[d] = L - 1
      BY <2>1, <2>2, <2>3
    <3> QED
      BY <2>4, <2>5, <2>7, <3>1, <3>2 DEF L
  <2> QED
    BY <2>6, <2>7
<1>3. Ends(r, c) \subseteq Axis \X {-1, 1} /\ M!Ends(g) \subseteq Axis \X {-1, 1}
  BY SameSpace DEF Ends, M!Ends
<1> HIDE DEF r, c
<1>4. Ends(r, c) = M!Ends(g)
  <2>1. ASSUME NEW e \in Axis \X {-1, 1} PROVE e \in Ends(r, c) <=> e \in M!Ends(g)
    <3>1. PICK d \in Axis, s \in {-1, 1} : e = <<d, s>>
      OBVIOUS
    <3> QED
      BY <1>2, <3>1
  <2> QED
    BY <1>3, <2>1
<1> QED
  BY <1>2, <1>3, <1>4 DEF r, c

\* One filter pass at a cell as a sum of weighted values.
Weighted(n) == 2^Cardinality({d \in Axis : n[d] = 0})
Beside(n, ends, c) ==
  [d \in Axis |-> IF <<d, n[d]>> \in ends THEN c[d] ELSE c[d] + n[d]]

LEMMA FiniteSteps == IsFiniteSet([Axis -> -1..1])
<1>1. -1 \in Int /\ 1 \in Int
  OBVIOUS
<1> QED
  BY <1>1, FS_Interval, FiniteOffsets

LEMMA FilteredSum ==
  ASSUME NEW f, NEW ends, NEW c
  PROVE  Filtered(f, ends, c)
           = Sum([n \in [Axis -> -1..1] |-> Weighted(n) * f[Beside(n, ends, c)]],
                 [Axis -> -1..1]) \div 4^Dim
<1> DEFINE S == [Axis -> -1..1]
           w == [n \in S |-> Weighted(n) * f[Beside(n, ends, c)]]
           P(g) == g = [s \in SUBSET S |->
                     IF s = {} THEN 0
                     ELSE Weighted(CHOOSE e \in s : TRUE)
                            * f[Beside(CHOOSE e \in s : TRUE, ends, c)]
                            + g[s \ {CHOOSE e \in s : TRUE}]]
<1>1. ASSUME NEW g PROVE P(g) <=> Summing(w, S, g)
  BY DEF Summing
<1>2. Filtered(f, ends, c) = (CHOOSE g : P(g))[S] \div 4^Dim
  BY DEF Filtered, MapThenSumSet, MapThenFoldSet, Weighted, Beside
<1> HIDE DEF P, w
<1>3. P(CHOOSE g : P(g))
  BY <1>1, SummingExists, FiniteSteps, Zenon
<1>4. Summing(w, S, CHOOSE g : P(g))
  BY <1>1, <1>3
<1>5. Sum(w, S) = (CHOOSE g : P(g))[S]
  BY <1>4, FiniteSteps, SumIs
<1> QED
  BY <1>2, <1>5 DEF w

\* No neighbour that the filter reads is beyond an end of the domain.
Inward(n, ends) == [d \in Axis |-> IF <<d, n[d]>> \in ends THEN 0 ELSE n[d]]

LEMMA InwardFacts ==
  ASSUME NEW g \in Domain, NEW n \in [Axis -> -1..1]
  PROVE  LET z == Inward(n, M!Ends(g)) IN
         /\ z \in [Axis -> -1..1] /\ ~Outside(Add(g, z))
         /\ Beside(n, M!Ends(g), g) = Add(g, z)
         /\ Beside(n, M!Ends(g), LocalCell(Owner(g), g)) = Add(LocalCell(Owner(g), g), z)
<1> DEFINE e == M!Ends(g)
           z == Inward(n, e)
           c == LocalCell(Owner(g), g)
<1>1. z \in [Axis -> -1..1]
  BY DEF Inward
<1>2. \A d \in Axis : c[d] \in Int /\ g[d] \in Int
  BY OwnerFacts, Extent DEF Interior, Domain
<1>3. Beside(n, e, c) = Add(c, z) /\ Beside(n, e, g) = Add(g, z)
  <2> HIDE DEF c, e
  <2> QED
    BY <1>2 DEF Beside, Add, Inward
<1>4. ~Outside(Add(g, z))
  <2> SUFFICES ASSUME NEW d \in Axis, ~Periodic[d]
               PROVE  ~(Add(g, z)[d] < 0) /\ ~(Add(g, z)[d] >= Dims[d] * N)
    BY DEF Outside
  <2> DEFINE L == Dims[d] * N
  <2>1. g[d] \in 0..(L - 1) /\ L \in Nat /\ n[d] \in -1..1
    BY Extent DEF Domain
  <2>2. Add(g, z)[d] = g[d] + IF <<d, n[d]>> \in e THEN 0 ELSE n[d]
    BY DEF Add, Inward
  <2>3. /\ <<d, -1>> \in e <=> g[d] = 0
        /\ <<d, 1>> \in e <=> g[d] = L - 1
    BY EndsSame
  <2> HIDE DEF e, L, z
  <2>4. CASE n[d] = -1
    BY <2>1, <2>2, <2>3, <2>4 DEF L
  <2>5. CASE n[d] = 0
    BY <2>1, <2>2, <2>5 DEF L
  <2>6. CASE n[d] = 1
    BY <2>1, <2>2, <2>3, <2>6 DEF L
  <2> QED
    BY <2>1, <2>4, <2>5, <2>6
<1> QED
  BY <1>1, <1>3, <1>4

\* A filter pass at an interior cell is that at its position.
LEMMA FilterSame ==
  ASSUME NEW F, Alike(F), NEW g \in Domain, NEW k \in Comp
  PROVE  Filtered(F[Owner(g)][k], Ends(Owner(g), LocalCell(Owner(g), g)),
                  LocalCell(Owner(g), g))
           = M!Filtered(M!Padded(Glued(F))[k], M!Ends(g), g)
<1> DEFINE r == Owner(g)
           c == LocalCell(r, g)
           e == M!Ends(g)
           f == F[r][k]
           h == M!Padded(Glued(F))[k]
           S == [Axis -> -1..1]
           w == [n \in S |-> Weighted(n) * f[Beside(n, e, c)]]
           v == [n \in S |-> Weighted(n) * h[Beside(n, e, g)]]
<1>1. ASSUME NEW n \in S PROVE f[Beside(n, e, c)] = h[Beside(n, e, g)]
  <2> DEFINE z == Inward(n, e)
  <2>1. /\ z \in S /\ ~Outside(Add(g, z))
        /\ Beside(n, e, c) = Add(c, z) /\ Beside(n, e, g) = Add(g, z)
    BY InwardFacts
  <2> HIDE DEF z, e
  <2>2. h[Add(g, z)] = f[Add(c, z)]
    BY <2>1, PaddedInside
  <2> QED
    BY <2>1, <2>2
<1>2. e = Ends(r, c)
  BY EndsSame
<1>3. \A n \in S : w[n] = v[n]
  BY <1>1
<1> HIDE DEF e, f, h, w, v, r, c
<1>4. Sum(w, S) = Sum(v, S)
  BY <1>3, FiniteSteps, SumSame
<1>5. Filtered(f, e, c) = Sum(w, S) \div 4^Dim
  BY FilteredSum DEF w
<1>6. M!Filtered(h, e, g) = Sum(v, S) \div 4^Dim
  BY FilteredSum, SameDeposit DEF v
<1> QED
  BY <1>2, <1>4, <1>5, <1>6 DEF r, c, e, f, h

-----------------------------------------------------------------------------
(* The time step implements that of the global lattice *)

\* The particle is in the domain or has left it.
Inside(p) == p \in [Axis -> Nat] /\ \A d \in Axis : p[d] < Dims[d] * N * K

FieldInv ==
  /\ stage \in {"push", "fold", "filter", "b", "e"}
  /\ x = Gone \/ Inside(x)
  /\ stage # "push" /\ x # Gone => m \in Moves
  /\ stage = "fold" => J = IF x = Gone THEN BlankVector ELSE DepositedJ(x, m)
  /\ stage = "filter" => Alike(J)
  /\ Alike(E) /\ Alike(B)
  /\ Nought(E) /\ Nought(B)

\* A move ends inside the domain or beyond an open end.
LEMMA LandedInside ==
  ASSUME NEW p, p = Gone \/ Inside(p), NEW q, p # Gone => q \in Moves
  PROVE  M!Landed(p, q) = Gone \/ Inside(M!Landed(p, q))
<1> DEFINE to == [d \in Axis |-> p[d] + q[d]]
           g == M!CellOf(to)
           v == [d \in Axis |-> Wrap(g)[d] * K + M!Within(to)[d]]
<1>1. M!Landed(p, q) = IF p = Gone \/ Outside(g) THEN Gone ELSE v
  BY SameSpace DEF M!Landed, Gone
<1>2. CASE p = Gone \/ Outside(g)
  BY <1>1, <1>2
<1>3. CASE ~(p = Gone \/ Outside(g))
  <2>1. /\ p \in [Axis -> Nat] /\ \A d \in Axis : p[d] < Dims[d] * N * K
        /\ q \in [Axis -> (-K)..K] /\ K \in Nat \ {0}
    BY <1>3, ParticleAssumption, LatticeAssumption DEF Inside
  <2>2. ASSUME NEW d \in Axis PROVE v[d] \in Nat /\ v[d] < Dims[d] * N * K
    <3> DEFINE L == Dims[d] * N
               n == p[d] + q[d]
               c == n \div K
               e == n % K
               s == Wrap(g)[d]
    <3>1. L \in Nat /\ N \in Nat \ {0} /\ N <= L /\ p[d] \in Nat /\ q[d] \in (-K)..K
      BY <2>1, Extent
    <3>2. p[d] < L * K
      BY <2>1
    <3>3. g[d] = c /\ M!Within(to)[d] = e
      BY SameSpace DEF M!CellOf, M!Within
    <3>4. v[d] = s * K + e
      BY <3>3
    <3>5. s = IF ~Periodic[d] THEN c
              ELSE IF c < 0 THEN c + L ELSE IF c >= L THEN c - L ELSE c
      BY <3>3 DEF Wrap
    <3>6. ~Periodic[d] => ~(c < 0) /\ ~(c >= L)
      BY <1>3, <3>3 DEF Outside
    <3> HIDE DEF L, s, v, g, to
    <3>7. n \in Int /\ L * K \in Int
      BY <2>1, <3>1
    <3> HIDE DEF n
    <3>8. c \in Int /\ e \in 0..(K - 1) /\ c * K + e = n /\ c * K \in Int
      BY <2>1, <3>7, SMT
    <3> HIDE DEF c, e
    <3>9. -K <= n /\ n < L * K + K
      BY <2>1, <3>1, <3>2 DEF n
    <3>10. -1 <= c
      <4> SUFFICES ASSUME c <= -2 PROVE FALSE
        BY <3>8
      <4>1. c * K <= (-2) * K
        BY <2>1, <3>8, ScaleMonotone
      <4> QED
        BY <2>1, <3>7, <3>8, <3>9, <4>1
    <3>11. c <= L
      <4> SUFFICES ASSUME L + 1 <= c PROVE FALSE
        BY <3>1, <3>8
      <4>1. (L + 1) * K <= c * K /\ (L + 1) * K = L * K + K
        BY <2>1, <3>1, <3>8, ScaleMonotone
      <4> QED
        BY <2>1, <3>7, <3>8, <3>9, <4>1
    <3>12. s \in 0..(L - 1)
      BY <3>1, <3>5, <3>6, <3>8, <3>10, <3>11
    <3>13. 0 * K <= s * K /\ (s + 1) * K <= L * K
      BY <2>1, <3>1, <3>12, ScaleMonotone
    <3>14. 0 * K = 0 /\ (s + 1) * K = s * K + K /\ s * K \in Int
      BY <2>1, <3>12
    <3>15. s * K + e \in Nat /\ s * K + e < L * K
      BY <2>1, <3>7, <3>8, <3>13, <3>14
    <3> QED
      BY <3>4, <3>15 DEF L
  <2> HIDE DEF g, to
  <2>3. v \in [Axis -> Nat]
    BY <2>2
  <2> HIDE DEF v
  <2>4. Inside(v)
    BY <2>2, <2>3 DEF Inside
  <2> QED
    BY <1>1, <1>3, <2>4
<1> QED
  BY <1>2, <1>3

LEMMA BlankFacts == Alike(BlankVector) /\ Nought(BlankVector)
<1>1. \A r \in Rank, k \in Comp, c \in Cell : BlankVector[r][k][c] = 0
  BY DEF BlankVector
<1> QED
  BY <1>1, HomeFacts DEF Alike, Nought

LEMMA GluedBlank == Glued(BlankVector) = M!Zero
<1>1. \A r \in Rank, k \in Comp, c \in Cell : BlankVector[r][k][c] = 0
  BY DEF BlankVector
<1>2. Glued(BlankVector) = [k \in Comp |-> [g \in Domain |-> 0]]
  BY <1>1, OwnerFacts DEF Glued
<1> QED
  BY <1>2, SameSpace DEF M!Zero

LEMMA FieldInit == Init => FieldInv /\ M!Init
<1> SUFFICES ASSUME Init PROVE FieldInv /\ M!Init
  OBVIOUS
<1>1. Inside(x)
  BY ParticleAssumption DEF Init, Inside
<1>2. FieldInv
  BY <1>1, BlankFacts DEF Init, FieldInv
<1>3. M!Init
  BY GluedBlank, SameSpace DEF Init, M!Init, Origin
<1> QED
  BY <1>2, <1>3

LEMMA PushMaps ==
  ASSUME FieldInv, UpdateParticles
  PROVE  FieldInv' /\ M!Push
<1>1. FieldInv'
  BY DEF FieldInv, UpdateParticles, Alike, Nought
<1>2. M!Push
  BY SameSpace DEF UpdateParticles, M!Push, M!Zero, Glued, Gone, Origin
<1> QED
  BY <1>1, <1>2

\* Deposits of no particle, too, are folded into nothing.
LEMMA FoldedBlank ==
  ASSUME NEW g \in Domain, NEW k \in Comp
  PROVE  Each(Folded, BlankVector)[Owner(g)][k][LocalCell(Owner(g), g)] = 0
<1> DEFINE r == Owner(g)
           c == LocalCell(r, g)
           f == [s \in Rank |-> BlankVector[s][k]]
           T == Copies(g)
           v == [y \in T |-> f[y[1]][y[2]]]
<1>1. r \in Rank /\ c \in Cell /\ Global(r, c) = g
  BY OwnerFacts
<1> HIDE DEF r, c
<1>2. IsFiniteSet(T) /\ \A y \in T : y[1] \in Rank /\ y[2] \in Cell
  BY <1>1, CopiesAre
<1>3. Each(Folded, BlankVector)[r][k][c] = Folded(f)[r][c]
  BY <1>1 DEF Each
<1>4. \A y \in T : v[y] = 0
  BY <1>2 DEF BlankVector
<1>5. Folded(f)[r][c] = MapThenSumSet(LAMBDA y : f[y[1]][y[2]], T)
  BY <1>1 DEF Folded
<1> HIDE DEF f, T
<1>6. MapThenSumSet(LAMBDA y : f[y[1]][y[2]], T) = Sum(v, T)
  BY <1>2, FoldedSum
<1>7. Sum(v, T) = 0
  <2> HIDE DEF v
  <2> QED
    BY <1>2, <1>4, SumZero
<1> QED
  BY <1>3, <1>5, <1>6, <1>7 DEF r, c

LEMMA DepositMaps ==
  ASSUME FieldInv, ExchangeDeposits
  PROVE  FieldInv' /\ M!Deposit
<1>1. FieldInv'
  <2>1. Alike(J')
    BY FoldedAlike DEF ExchangeDeposits
  <2> QED
    BY <2>1 DEF FieldInv, ExchangeDeposits, Alike, Nought
<1>2. stage = "fold" /\ stage' # "fold" /\ J' = Each(Folded, J)
  BY DEF ExchangeDeposits
<1>3. Glued(J') = [k \in Comp |-> [g \in Domain |->
                      Each(Folded, J)[Owner(g)][k][LocalCell(Owner(g), g)]]]
  BY <1>2 DEF Glued
<1>4. Glued(J') = IF x = M!Gone THEN M!Zero
          ELSE [k \in M!Comp |-> [g \in M!Domain |->
                 M!MapThenSumSet(
                   LAMBDA o : M!DepositJ(M!Within(x), m, Across, k, o),
                   {o \in M!OffsetSet(x, m) : M!Wrap(M!Add(M!CellOf(x), o)) = g})]]
  <2>1. CASE x = Gone
    <3>1. J = BlankVector
      BY <1>2, <2>1 DEF FieldInv
    <3>2. Glued(J') = [k \in Comp |-> [g \in Domain |-> 0]]
      BY <1>3, <3>1, FoldedBlank
    <3> QED
      BY <2>1, <3>2, SameSpace DEF M!Zero, Gone
  <2>2. CASE x # Gone
    <3>1. J = DepositedJ(x, m) /\ m \in Moves
      BY <1>2, <2>2 DEF FieldInv
    <3>2. x \in [Axis -> Nat] /\ \A d \in Axis : x[d] < Dims[d] * N * K
      BY <2>2 DEF FieldInv, Inside
    <3>3. \A k \in Comp, g \in Domain :
            Each(Folded, J)[Owner(g)][k][LocalCell(Owner(g), g)]
              = M!MapThenSumSet(LAMBDA o : M!DepositJ(M!Within(x), m, Across, k, o),
                             {o \in M!OffsetSet(x, m) : M!Wrap(M!Add(M!CellOf(x), o)) = g})
      BY <3>1, <3>2, FoldedDeposit
    <3> QED
      BY <1>3, <2>2, <3>3, SameSpace DEF Gone
  <2> QED
    BY <2>1, <2>2
<1>5. M!Deposit
  BY <1>2, <1>4 DEF ExchangeDeposits, M!Deposit, Glued
<1> QED
  BY <1>1, <1>5

LEMMA FilterMaps ==
  ASSUME FieldInv, FilterCurrent
  PROVE  FieldInv' /\ M!Filter
<1> DEFINE f == Each(FilteredField, J)
<1>1. stage = "filter" /\ stage' # "fold" /\ J' = Each(Refreshed, f) /\ Alike(J)
  BY DEF FilterCurrent, FieldInv
<1>2. FieldInv'
  <2>1. Alike(J')
    BY <1>1, RefreshedAlike
  <2> QED
    BY <2>1 DEF FieldInv, FilterCurrent, Alike, Nought
<1>3. ASSUME NEW k \in Comp, NEW g \in Domain
      PROVE  Glued(J')[k][g] = M!Filtered(M!Padded(Glued(J))[k], M!Ends(g), g)
  <2> DEFINE r == Owner(g)
             c == LocalCell(r, g)
  <2>1. r \in Rank /\ c \in Interior /\ c \in Cell
    BY OwnerFacts
  <2>2. Glued(J')[k][g] = J'[r][k][c]
    BY PaddedAt
  <2>3. HomeRank(r, c) = r /\ HomeCell(r, c) = c
    BY <2>1, InteriorFacts
  <2>4. Filtered(J[r][k], Ends(r, c), c)
          = M!Filtered(M!Padded(Glued(J))[k], M!Ends(g), g)
    BY <1>1, FilterSame
  <2> HIDE DEF f, r, c
  <2>5. J'[r][k][c] = f[r][k][c]
    BY <1>1, <2>1, <2>3, EachRefreshed
  <2>6. f[r][k][c] = Filtered(J[r][k], Ends(r, c), c)
    BY <2>1 DEF f, Each, FilteredField
  <2> QED
    BY <2>2, <2>4, <2>5, <2>6
<1>4. Glued(J') = [k \in M!Comp |-> [g \in M!Domain |->
                     M!Filtered(M!Padded(Glued(J))[k], M!Ends(g), g)]]
  <2>1. Glued(J') = [k \in Comp |-> [g \in Domain |-> Glued(J')[k][g]]]
    BY DEF Glued
  <2> QED
    BY <1>3, <2>1, SameSpace
<1> HIDE DEF f
<1>5. M!Filter
  BY <1>1, <1>4 DEF FilterCurrent, M!Filter, Glued
<1> QED
  BY <1>2, <1>5

\* A solver writes in interior cells only, and the halo follows.
LEMMA PartFacts ==
  ASSUME NEW new, NEW F, NEW i, NEW k \in Comp, NEW g \in Domain
  PROVE  LET v == new[Owner(g)][k][LocalCell(Owner(g), g)][i] IN
         /\ Glued(Part(new, F, i))[k][g] = v
         /\ Glued(Each(Refreshed, Part(new, F, i)))[k][g] = v
<1> DEFINE r == Owner(g)
           c == LocalCell(r, g)
           f == Part(new, F, i)
<1>1. r \in Rank /\ c \in Interior /\ c \in Cell
  BY OwnerFacts
<1>2. HomeRank(r, c) = r /\ HomeCell(r, c) = c
  BY <1>1, InteriorFacts
<1>3. Glued(f)[k][g] = f[r][k][c] /\ Glued(Each(Refreshed, f))[k][g] = Each(Refreshed, f)[r][k][c]
  BY PaddedAt
<1> HIDE DEF r, c
<1>4. f[r][k][c] = new[r][k][c][i]
  BY <1>1 DEF Part
<1> HIDE DEF f
<1>5. Each(Refreshed, f)[r][k][c] = f[r][k][c]
  BY <1>1, <1>2, EachRefreshed
<1> QED
  BY <1>3, <1>4, <1>5 DEF f, r, c

LEMMA PartNought ==
  ASSUME NEW new, NEW F, Nought(F), NEW i
  PROVE  Nought(Part(new, F, i))
<1> SUFFICES ASSUME NEW r \in Rank, NEW k \in Comp, NEW c \in Cell, Outside(Global(r, c))
             PROVE  Part(new, F, i)[r][k][c] = 0
  BY DEF Nought
<1>1. c \notin Interior
  BY InteriorFacts
<1>2. Part(new, F, i)[r][k][c] = F[r][k][c]
  BY <1>1 DEF Part
<1> QED
  BY <1>2 DEF Nought

\* The solvers keep the invariant.
LEMMA UpdateBKeeps ==
  ASSUME FieldInv, UpdateB
  PROVE  FieldInv'
<1> DEFINE new == [r \in Rank |-> [k \in Comp |-> [c \in Interior |->
                     AdvanceB(Fields(r), BoxOf(r), k, c)]]]
<1>1. /\ stage' = "e" /\ B' = Each(Refreshed, Part(new, B, 1))
      /\ UNCHANGED <<x, m, J, E>> /\ stage = "b"
  BY DEF UpdateB
<1> HIDE DEF new
<1>2. Alike(B') /\ Nought(B')
  BY <1>1, PartNought, RefreshedNought, RefreshedAlike DEF FieldInv
<1> QED
  BY <1>1, <1>2 DEF FieldInv, Alike, Nought

LEMMA UpdateEKeeps ==
  ASSUME FieldInv, UpdateE
  PROVE  FieldInv'
<1> DEFINE new == [r \in Rank |-> [k \in Comp |-> [c \in Interior |->
                     AdvanceE(Fields(r), BoxOf(r), k, c)]]]
<1>1. /\ stage = "e" /\ stage' = "push" /\ x' = M!Landed(x, m)
      /\ E' = Each(Refreshed, Part(new, E, 1))
      /\ UNCHANGED <<m, J, B>>
  BY DEF UpdateE
<1> HIDE DEF new
<1>2. Alike(E') /\ Nought(E')
  BY <1>1, PartNought, RefreshedNought, RefreshedAlike DEF FieldInv
<1>3. x' = Gone \/ Inside(x')
  BY <1>1, LandedInside DEF FieldInv
<1> QED
  BY <1>1, <1>2, <1>3 DEF FieldInv, Alike, Nought, Inside

LEMMA UpdateBMaps ==
  ASSUME LayersFit, FieldInv, UpdateB
  PROVE  FieldInv' /\ M!UpdateB
<1> DEFINE new == [r \in Rank |-> [k \in Comp |-> [c \in Interior |->
                     AdvanceB(Fields(r), BoxOf(r), k, c)]]]
           all == [k \in M!Comp |-> [g \in M!Domain |->
                     M!AdvanceB(M!Fields, M!Whole, k, g)]]
<1>1. /\ stage = "b" /\ stage' = "e"
      /\ B' = Each(Refreshed, Part(new, B, 1))
      /\ B1' = Part(new, B1, 2) /\ B2' = Part(new, B2, 3)
      /\ UNCHANGED <<pass, step, x, m, J, Rho, E, E1, E2, bound>>
  BY DEF UpdateB
<1>2. Alike(E) /\ Nought(E) /\ Nought(B)
  BY DEF FieldInv
<1>3. \A k \in Comp, g \in Domain :
        new[Owner(g)][k][LocalCell(Owner(g), g)] = all[k][g]
  <2> SUFFICES ASSUME NEW k \in Comp, NEW g \in Domain
               PROVE  new[Owner(g)][k][LocalCell(Owner(g), g)] = all[k][g]
    OBVIOUS
  <2>1. Owner(g) \in Rank /\ LocalCell(Owner(g), g) \in Interior
    BY OwnerFacts
  <2>2. AdvanceB(Fields(Owner(g)), BoxOf(Owner(g)), k, LocalCell(Owner(g), g))
          = M!AdvanceB(M!Fields, M!Whole, k, g)
    BY <1>2, AdvanceBSame
  <2> QED
    BY <2>1, <2>2, SameSpace
<1> HIDE DEF new, all
<1>4. FieldInv'
  BY UpdateBKeeps
<1>5. /\ Glued(B') = [k \in M!Comp |-> [g \in M!Domain |-> all[k][g][1]]]
      /\ Glued(B1') = [k \in M!Comp |-> [g \in M!Domain |-> all[k][g][2]]]
      /\ Glued(B2') = [k \in M!Comp |-> [g \in M!Domain |-> all[k][g][3]]]
  <2>1. \A F : Glued(F) = [k \in Comp |-> [g \in Domain |-> Glued(F)[k][g]]]
    BY DEF Glued
  <2>2. \A k \in Comp, g \in Domain :
          /\ Glued(B')[k][g] = all[k][g][1]
          /\ Glued(B1')[k][g] = all[k][g][2]
          /\ Glued(B2')[k][g] = all[k][g][3]
    BY <1>1, <1>3, PartFacts
  <2> QED
    BY <2>1, <2>2, SameSpace
<1>6. /\ Glued(B') = M!Part(all, 1) /\ Glued(B1') = M!Part(all, 2)
      /\ Glued(B2') = M!Part(all, 3)
  BY <1>5 DEF M!Part
<1>7. M!UpdateB
  BY <1>1, <1>6 DEF M!UpdateB, Glued, all
<1> QED
  BY <1>4, <1>7

LEMMA UpdateEMaps ==
  ASSUME LayersFit, FieldInv, UpdateE
  PROVE  FieldInv' /\ M!UpdateE
<1> DEFINE new == [r \in Rank |-> [k \in Comp |-> [c \in Interior |->
                     AdvanceE(Fields(r), BoxOf(r), k, c)]]]
           all == [k \in M!Comp |-> [g \in M!Domain |->
                     M!AdvanceE(M!Fields, M!Whole, k, g)]]
<1>1. /\ stage = "e" /\ stage' = "push" /\ x' = M!Landed(x, m)
      /\ E' = Each(Refreshed, Part(new, E, 1))
      /\ E1' = Part(new, E1, 2) /\ E2' = Part(new, E2, 3)
      /\ UNCHANGED <<pass, m, J, Rho, B, B1, B2>>
  BY DEF UpdateE
<1>2. Alike(B) /\ Nought(B) /\ Nought(E)
  BY DEF FieldInv
<1>3. \A k \in Comp, g \in Domain :
        new[Owner(g)][k][LocalCell(Owner(g), g)] = all[k][g]
  <2> SUFFICES ASSUME NEW k \in Comp, NEW g \in Domain
               PROVE  new[Owner(g)][k][LocalCell(Owner(g), g)] = all[k][g]
    OBVIOUS
  <2>1. Owner(g) \in Rank /\ LocalCell(Owner(g), g) \in Interior
    BY OwnerFacts
  <2>2. AdvanceE(Fields(Owner(g)), BoxOf(Owner(g)), k, LocalCell(Owner(g), g))
          = M!AdvanceE(M!Fields, M!Whole, k, g)
    BY <1>1, <1>2, AdvanceESame
  <2> QED
    BY <2>1, <2>2, SameSpace
<1> HIDE DEF new, all
<1>4. FieldInv'
  BY UpdateEKeeps
<1>5. /\ Glued(E') = [k \in M!Comp |-> [g \in M!Domain |-> all[k][g][1]]]
      /\ Glued(E1') = [k \in M!Comp |-> [g \in M!Domain |-> all[k][g][2]]]
      /\ Glued(E2') = [k \in M!Comp |-> [g \in M!Domain |-> all[k][g][3]]]
  <2>1. \A F : Glued(F) = [k \in Comp |-> [g \in Domain |-> Glued(F)[k][g]]]
    BY DEF Glued
  <2>2. \A k \in Comp, g \in Domain :
          /\ Glued(E')[k][g] = all[k][g][1]
          /\ Glued(E1')[k][g] = all[k][g][2]
          /\ Glued(E2')[k][g] = all[k][g][3]
    BY <1>1, <1>3, PartFacts
  <2> QED
    BY <2>1, <2>2, SameSpace
<1>6. /\ Glued(E') = M!Part(all, 1) /\ Glued(E1') = M!Part(all, 2)
      /\ Glued(E2') = M!Part(all, 3)
  BY <1>5 DEF M!Part
<1>7. M!UpdateE
  BY <1>1, <1>6 DEF M!UpdateE, Glued, all
<1> QED
  BY <1>4, <1>7

LEMMA StillMaps ==
  ASSUME FieldInv, UNCHANGED vars
  PROVE  FieldInv' /\ UNCHANGED M!mvars
<1>1. FieldInv'
  BY DEF FieldInv, vars, Alike, Nought
<1>2. UNCHANGED M!mvars
  BY DEF vars, M!mvars, Glued
<1> QED
  BY <1>1, <1>2

LEMMA StepMaps ==
  ASSUME LayersFit, FieldInv, [Next]_vars
  PROVE  FieldInv' /\ [M!Next]_(M!mvars)
<1>1. CASE UpdateParticles
  BY <1>1, PushMaps DEF M!Next
<1>2. CASE ExchangeDeposits
  BY <1>2, DepositMaps DEF M!Next
<1>3. CASE FilterCurrent
  BY <1>3, FilterMaps DEF M!Next
<1>4. CASE UpdateB
  BY <1>4, UpdateBMaps DEF M!Next
<1>5. CASE UpdateE
  BY <1>5, UpdateEMaps DEF M!Next
<1>6. CASE UNCHANGED vars
  BY <1>6, StillMaps
<1> QED
  BY <1>1, <1>2, <1>3, <1>4, <1>5, <1>6 DEF Next, Finished

\* The decomposition is invisible: whatever the number of ranks, their
\* topology and the width of the guard cells, the interiors of all ranks
\* (ptc_updater::update, field_solver::update_explicit) evolve as one global
\* lattice, as long as no absorbing layer reaches beyond the ranks at its end.
THEOREM Decomposition ==
  ASSUME LayersFit
  PROVE  Spec => ImplementsMaxwell
<1>1. Init => FieldInv /\ M!Init
  BY FieldInit
<1>2. FieldInv /\ [Next]_vars => FieldInv' /\ [M!Next]_(M!mvars)
  BY StepMaps
<1> QED
  BY <1>1, <1>2, PTL DEF Spec, ImplementsMaxwell, M!Spec

-----------------------------------------------------------------------------
(* All values are integers *)

Numeric(F) == \A r \in Rank, k \in Comp, c \in Cell : F[r][k][c] \in Int

NumberInv ==
  /\ Numeric(J)
  /\ Numeric(E) /\ Numeric(E1) /\ Numeric(E2)
  /\ Numeric(B) /\ Numeric(B1) /\ Numeric(B2)

LEMMA RefreshedNumeric ==
  ASSUME NEW F, Numeric(F)
  PROVE  Numeric(Each(Refreshed, F))
  BY EachRefreshed, HomeFacts DEF Numeric

LEMMA FoldedNumeric ==
  ASSUME NEW F, Numeric(F)
  PROVE  Numeric(Each(Folded, F))
<1> SUFFICES ASSUME NEW r \in Rank, NEW k \in Comp, NEW c \in Cell
             PROVE  Each(Folded, F)[r][k][c] \in Int
  BY DEF Numeric
<1> DEFINE f == [s \in Rank |-> F[s][k]]
           T == Copies(Global(r, c))
           v == [y \in T |-> f[y[1]][y[2]]]
<1>1. IsFiniteSet(T) /\ \A y \in T : y[1] \in Rank /\ y[2] \in Cell
  BY CopiesAre
<1>2. Each(Folded, F)[r][k][c] = Folded(f)[r][c]
  BY DEF Each
<1>3. Folded(f)[r][c] = MapThenSumSet(LAMBDA y : f[y[1]][y[2]], T)
  BY DEF Folded
<1>4. \A y \in T : v[y] \in Int
  BY <1>1 DEF Numeric
<1> HIDE DEF f, T
<1>5. MapThenSumSet(LAMBDA y : f[y[1]][y[2]], T) = Sum(v, T)
  BY <1>1, FoldedSum
<1>6. Sum(v, T) \in Int
  <2> HIDE DEF v
  <2> QED
    BY <1>1, <1>4, SumType
<1> QED
  BY <1>2, <1>3, <1>5, <1>6

LEMMA DepositNumeric ==
  ASSUME NEW p \in [Axis -> Nat], \A d \in Axis : p[d] < Dims[d] * N * K, NEW q \in Moves
  PROVE  Numeric(DepositedJ(p, q))
<1> SUFFICES ASSUME NEW r \in Rank, NEW k \in Comp, NEW c \in Cell
             PROVE  DepositedJ(p, q)[r][k][c] \in Int
  BY DEF Numeric
<1> DEFINE o == FromPtc(p, c)
           u == M!Within(p)
<1>1. u \in [Axis -> Int]
  BY CellOfFacts
<1>2. q \in [Axis -> Int]
  <2>1. q \in [Axis -> (-K)..K] /\ K \in Nat
    BY ParticleAssumption, LatticeAssumption
  <2> QED
    BY <2>1
<1>3. o \in M!OffsetSet(p, q) => o \in [Axis -> Int]
  BY SameSpace DEF M!OffsetSet
<1>4. DepositedJ(p, q)[r][k][c]
        = IF r = Holder(p) /\ o \in M!OffsetSet(p, q)
          THEN DepositJ(u, q, Across, k, o) ELSE 0
  BY DEF DepositedJ
<1> HIDE DEF o, u
<1> QED
  BY <1>1, <1>2, <1>3, <1>4, DepositJType

\* The cells next to an interior one are cells.
LEMMA BesideCell ==
  ASSUME NEW c \in Interior, NEW n \in [Axis -> -1..1], NEW ends
  PROVE  Beside(n, ends, c) \in Cell
<1>1. ASSUME NEW d \in Axis PROVE Beside(n, ends, c)[d] \in 0..(W - 1)
  <2>1. /\ c[d] \in G..(N + G - 1) /\ n[d] \in -1..1
        /\ N \in Nat /\ G \in Nat \ {0} /\ W = N + 2 * G
    BY Extent DEF Interior
  <2>2. Beside(n, ends, c)[d] = IF <<d, n[d]>> \in ends THEN c[d] ELSE c[d] + n[d]
    BY DEF Beside
  <2> QED
    BY <2>1, <2>2
<1>2. Beside(n, ends, c) = [d \in Axis |-> Beside(n, ends, c)[d]]
  BY DEF Beside
<1> QED
  BY <1>1, <1>2, Assembled

LEMMA WeightedType ==
  ASSUME NEW n
  PROVE  Weighted(n) \in Int
<1> DEFINE i == Cardinality({d \in Axis : n[d] = 0})
<1>1. IsFiniteSet(Axis)
  BY DimAssumption, FS_Interval DEF Axis
<1>2. i \in Nat
  BY <1>1, FS_Subset, FS_CardinalityType
<1> HIDE DEF i
<1>3. 2^i \in Int
  BY <1>2
<1> QED
  BY <1>3 DEF Weighted, i

LEMMA FilteredNumeric ==
  ASSUME NEW F, Numeric(F)
  PROVE  Numeric(Each(FilteredField, F))
<1> SUFFICES ASSUME NEW r \in Rank, NEW k \in Comp, NEW c \in Cell
             PROVE  Each(FilteredField, F)[r][k][c] \in Int
  BY DEF Numeric
<1> DEFINE e == Ends(r, c)
           f == F[r][k]
           S == [Axis -> -1..1]
           w == [n \in S |-> Weighted(n) * f[Beside(n, e, c)]]
<1>1. Each(FilteredField, F)[r][k][c]
        = IF c \in Interior THEN Filtered(f, e, c) ELSE 0
  BY DEF Each, FilteredField
<1>2. CASE c \in Interior
  <2>1. ASSUME NEW n \in S PROVE w[n] \in Int
    <3>1. Weighted(n) \in Int
      BY WeightedType
    <3>2. Beside(n, e, c) \in Cell
      BY <1>2, BesideCell
    <3>3. f[Beside(n, e, c)] \in Int
      BY <3>2 DEF Numeric
    <3> QED
      BY <3>1, <3>3
  <2>2. Filtered(f, e, c) = Sum(w, S) \div 4^Dim
    <3> HIDE DEF f, e
    <3> QED
      BY FilteredSum
  <2> HIDE DEF w, f, e
  <2>3. Sum(w, S) \in Int
    BY <2>1, FiniteSteps, SumType
  <2> DEFINE z == Sum(w, S)
  <2>4. z \div 4 \in Int /\ z \div 16 \in Int /\ z \div 64 \in Int
    <3> HIDE DEF z
    <3>1. z \in Int
      BY <2>3 DEF z
    <3> QED
      BY <3>1, SMT
  <2>5. 4^1 = 4 /\ 4^2 = 16 /\ 4^3 = 64
    OBVIOUS
  <2> HIDE DEF z
  <2>6. z \div 4^Dim \in Int
    <3>1. CASE Dim = 1
      BY <2>4, <2>5, <3>1
    <3>2. CASE Dim = 2
      BY <2>4, <2>5, <3>2
    <3>3. CASE Dim = 3
      BY <2>4, <2>5, <3>3
    <3> QED
      BY <3>1, <3>2, <3>3, DimAssumption
  <2> QED
    BY <1>1, <1>2, <2>2, <2>6 DEF z
<1>3. CASE c \notin Interior
  BY <1>1, <1>3
<1> QED
  BY <1>2, <1>3

\* One step from an interior cell stays in the array.
LEMMA ShiftCell ==
  ASSUME NEW c \in Interior, NEW d \in Axis, NEW n \in -1..1
  PROVE  Shift(c, d, n) \in Cell
<1>1. c = [e \in Axis |-> c[e]] /\ \A e \in Axis : c[e] \in G..(N + G - 1)
  BY DEF Interior
<1>2. Shift(c, d, n) = [e \in Axis |-> IF e = d THEN c[e] + n ELSE c[e]]
  BY <1>1 DEF Shift
<1>3. N \in Nat /\ G \in Nat \ {0} /\ W = N + 2 * G
  BY Extent
<1>4. \A e \in Axis : Shift(c, d, n)[e] \in 0..(W - 1)
  BY <1>1, <1>2, <1>3
<1> QED
  BY <1>2, <1>4, Assembled

LEMMA CurlType ==
  ASSUME NEW F, Numeric(F), NEW r \in Rank, NEW c \in Interior, NEW k \in Comp,
         NEW St \in {StaggerE, StaggerB}
  PROVE  CurlPlus(F[r], St, k, c) \in Int /\ CurlMinus(F[r], St, k, c) \in Int
<1>1. ASSUME NEW i \in Comp, NEW d, NEW st \in {0, 1}
      PROVE  Diff(F[r][i], st, c, d) \in Int
  <2>1. CASE d \in Axis
    <3>1. Shift(c, d, st) \in Cell /\ Shift(c, d, st - 1) \in Cell
      <4>1. st \in -1..1 /\ st - 1 \in -1..1
        OBVIOUS
      <4> QED
        BY <2>1, <4>1, ShiftCell
    <3>2. F[r][i][Shift(c, d, st)] \in Int /\ F[r][i][Shift(c, d, st - 1)] \in Int
      BY <3>1 DEF Numeric
    <3> QED
      BY <2>1, <3>2 DEF Diff
  <2>2. CASE d \notin Axis
    BY <2>2 DEF Diff
  <2> QED
    BY <2>1, <2>2
<1> DEFINE i == Next3(k)
           j == Next3(i)
<1>2. i \in Comp /\ j \in Comp
  BY DEF Next3, Comp
<1>3. St[j][i] \in {0, 1} /\ St[i][j] \in {0, 1}
  BY <1>2 DEF StaggerE, StaggerB
<1> HIDE DEF i, j
<1>4. Diff(F[r][j], St[j][i], c, i) \in Int /\ Diff(F[r][i], St[i][j], c, j) \in Int
  BY <1>1, <1>2, <1>3
<1> QED
  BY <1>4 DEF CurlPlus, CurlMinus, i, j

LEMMA AdvancedType ==
  ASSUME NEW f \in Int, NEW h1 \in Int, NEW h2 \in Int, NEW p \in Int, NEW q \in Int,
         NEW s \in Int, NEW d1 \in BOOLEAN, NEW d2 \in BOOLEAN, NEW i \in 1..3
  PROVE  Advanced(f, h1, h2, p, q, s, d1, d2)[i] \in Int
  BY DEF Advanced

LEMMA AdvanceType ==
  ASSUME NumberInv, NEW r \in Rank, NEW k \in Comp, NEW c \in Interior, NEW i \in 1..3
  PROVE  /\ AdvanceB(Fields(r), BoxOf(r), k, c)[i] \in Int
         /\ AdvanceE(Fields(r), BoxOf(r), k, c)[i] \in Int
<1>1. c \in Cell
  BY InteriorCell
<1>2. /\ E[r][k][c] \in Int /\ E1[r][k][c] \in Int /\ E2[r][k][c] \in Int
      /\ B[r][k][c] \in Int /\ B1[r][k][c] \in Int /\ B2[r][k][c] \in Int
      /\ J[r][k][c] \in Int
  BY <1>1 DEF NumberInv, Numeric
<1>3. /\ CurlPlus(E[r], StaggerE, k, c) \in Int /\ CurlMinus(E[r], StaggerE, k, c) \in Int
      /\ CurlPlus(B[r], StaggerB, k, c) \in Int /\ CurlMinus(B[r], StaggerB, k, c) \in Int
  BY CurlType DEF NumberInv
<1> DEFINE f == Fields(r)
<1>4. /\ f.E = E[r] /\ f.E1 = E1[r] /\ f.E2 = E2[r]
      /\ f.B = B[r] /\ f.B1 = B1[r] /\ f.B2 = B2[r] /\ f.J = J[r]
  BY DEF Fields
<1> HIDE DEF f
<1>5. AdvanceB(f, BoxOf(r), k, c)[i] \in Int
  <2> DEFINE d1 == Depth(BoxOf(r), c, Next3(k), 1) > 0
             d2 == Depth(BoxOf(r), c, Next3(Next3(k)), 1) > 0
             p == -CurlPlus(E[r], StaggerE, k, c)
             q == -CurlMinus(E[r], StaggerE, k, c)
  <2>1. AdvanceB(f, BoxOf(r), k, c)
          = Advanced(B[r][k][c], B1[r][k][c], B2[r][k][c], p, q, 0, d1, d2)
    BY <1>4 DEF AdvanceB
  <2>2. p \in Int /\ q \in Int /\ 0 \in Int /\ d1 \in BOOLEAN /\ d2 \in BOOLEAN
    BY <1>3
  <2> HIDE DEF p, q, d1, d2
  <2> QED
    BY <1>2, <2>1, <2>2, AdvancedType
<1>6. AdvanceE(f, BoxOf(r), k, c)[i] \in Int
  <2> DEFINE d1 == Depth(BoxOf(r), c, Next3(k), 0) > 0
             d2 == Depth(BoxOf(r), c, Next3(Next3(k)), 0) > 0
             p == CurlPlus(B[r], StaggerB, k, c)
             q == CurlMinus(B[r], StaggerB, k, c)
             s == IF \A d \in Axis : Depth(BoxOf(r), c, d, IF d = k THEN 1 ELSE 0) = 0
                  THEN J[r][k][c] ELSE 0
  <2>1. AdvanceE(f, BoxOf(r), k, c)
          = Advanced(E[r][k][c], E1[r][k][c], E2[r][k][c], p, q, s, d1, d2)
    BY <1>4 DEF AdvanceE
  <2>2. p \in Int /\ q \in Int /\ s \in Int /\ d1 \in BOOLEAN /\ d2 \in BOOLEAN
    BY <1>2, <1>3
  <2> HIDE DEF p, q, s, d1, d2
  <2> QED
    BY <1>2, <2>1, <2>2, AdvancedType
<1> QED
  BY <1>5, <1>6 DEF f

LEMMA PartNumeric ==
  ASSUME NEW new, NEW F, NEW i, Numeric(F),
         \A r \in Rank, k \in Comp, c \in Interior : new[r][k][c][i] \in Int
  PROVE  Numeric(Part(new, F, i))
  BY DEF Numeric, Part

\* At first all fields are zero.
LEMMA NumberInit ==
  ASSUME Init
  PROVE  NumberInv
<1>1. Numeric(BlankVector)
  BY DEF Numeric, BlankVector
<1> QED
  BY <1>1 DEF Init, NumberInv

LEMMA NumberNext ==
  ASSUME FieldInv, NumberInv, [Next]_vars
  PROVE  NumberInv'
<1>1. CASE UpdateParticles
  <2>1. Numeric(J')
    <3>1. Numeric(BlankVector)
      BY DEF Numeric, BlankVector
    <3>2. x # Gone => Numeric(DepositedJ(x, m'))
      BY <1>1, DepositNumeric DEF UpdateParticles, FieldInv, Inside
    <3> QED
      BY <1>1, <3>1, <3>2 DEF UpdateParticles
  <2> QED
    BY <1>1, <2>1 DEF UpdateParticles, NumberInv, Numeric
<1>2. CASE ExchangeDeposits
  <2>1. Numeric(J')
    BY <1>2, FoldedNumeric DEF ExchangeDeposits, NumberInv
  <2> QED
    BY <1>2, <2>1 DEF ExchangeDeposits, NumberInv, Numeric
<1>3. CASE FilterCurrent
  <2>1. Numeric(J')
    BY <1>3, FilteredNumeric, RefreshedNumeric DEF FilterCurrent, NumberInv
  <2> QED
    BY <1>3, <2>1 DEF FilterCurrent, NumberInv, Numeric
<1>4. CASE UpdateB
  <2> DEFINE new == [r \in Rank |-> [k \in Comp |-> [c \in Interior |->
                       AdvanceB(Fields(r), BoxOf(r), k, c)]]]
  <2>1. \A i \in 1..3 : \A r \in Rank, k \in Comp, c \in Interior : new[r][k][c][i] \in Int
    BY AdvanceType
  <2>2. /\ B' = Each(Refreshed, Part(new, B, 1))
        /\ B1' = Part(new, B1, 2) /\ B2' = Part(new, B2, 3)
    BY <1>4 DEF UpdateB
  <2> HIDE DEF new
  <2>3. Numeric(B') /\ Numeric(B1') /\ Numeric(B2')
    BY <2>1, <2>2, PartNumeric, RefreshedNumeric DEF NumberInv
  <2> QED
    BY <1>4, <2>3 DEF UpdateB, NumberInv, Numeric
<1>5. CASE UpdateE
  <2> DEFINE new == [r \in Rank |-> [k \in Comp |-> [c \in Interior |->
                       AdvanceE(Fields(r), BoxOf(r), k, c)]]]
  <2>1. \A i \in 1..3 : \A r \in Rank, k \in Comp, c \in Interior : new[r][k][c][i] \in Int
    BY AdvanceType
  <2>2. /\ E' = Each(Refreshed, Part(new, E, 1))
        /\ E1' = Part(new, E1, 2) /\ E2' = Part(new, E2, 3)
    BY <1>5 DEF UpdateE
  <2> HIDE DEF new
  <2>3. Numeric(E') /\ Numeric(E1') /\ Numeric(E2')
    BY <2>1, <2>2, PartNumeric, RefreshedNumeric DEF NumberInv
  <2> QED
    BY <1>5, <2>3 DEF UpdateE, NumberInv, Numeric
<1>6. CASE UNCHANGED vars
  BY <1>6 DEF vars, NumberInv, Numeric
<1> QED
  BY <1>1, <1>2, <1>3, <1>4, <1>5, <1>6 DEF Next, Finished

-----------------------------------------------------------------------------
(* No magnetic charge appears *)

\* The sum over the axes, as one over all components.
LEMMA DivSum ==
  ASSUME NEW V, NEW c, NEW St, NEW st, \A d \in Comp : St[d][d] = st,
         \A d \in Axis : Diff(V[d], st, c, d) \in Int
  PROVE  /\ \A d \in Comp : Diff(V[d], st, c, d) \in Int
         /\ Div(V, St, c)
              = Diff(V[1], st, c, 1) + Diff(V[2], st, c, 2) + Diff(V[3], st, c, 3)
<1> DEFINE w == [d \in Axis |-> Diff(V[d], St[d][d], c, d)]
           P(g) == g = [s \in SUBSET Axis |->
                     IF s = {} THEN 0
                     ELSE Diff(V[CHOOSE e \in s : TRUE],
                               St[CHOOSE e \in s : TRUE][CHOOSE e \in s : TRUE], c,
                               CHOOSE e \in s : TRUE)
                            + g[s \ {CHOOSE e \in s : TRUE}]]
<1>1. IsFiniteSet(Axis)
  BY DimAssumption, FS_Interval DEF Axis
<1>2. ASSUME NEW g PROVE P(g) <=> Summing(w, Axis, g)
  BY DEF Summing
<1>3. Div(V, St, c) = (CHOOSE g : P(g))[Axis]
  BY DEF Div, MapThenSumSet, MapThenFoldSet
<1>4. \A d \in Comp : St[d][d] = st
  OBVIOUS
<1>5. Axis \subseteq Comp
  BY DimAssumption DEF Axis, Comp
<1>6. \A d \in Axis : w[d] = Diff(V[d], st, c, d) /\ w[d] \in Int
  BY <1>4, <1>5
<1>7. \A d : d \notin Axis => Diff(V[d], st, c, d) = 0
  BY DEF Diff
<1> HIDE DEF P, w
<1>8. P(CHOOSE g : P(g))
  BY <1>1, <1>2, SummingExists, Zenon
<1>9. Summing(w, Axis, CHOOSE g : P(g))
  BY <1>2, <1>8
<1>10. Div(V, St, c) = Sum(w, Axis)
  BY <1>1, <1>3, <1>9, SumIs
<1>11. ASSUME NEW S \in SUBSET Axis, NEW d \in S
       PROVE  Sum(w, S) = w[d] + Sum(w, S \ {d})
  <2>1. IsFiniteSet(S) /\ \A e \in S : w[e] \in Int
    BY <1>1, <1>6, FS_Subset
  <2> QED
    BY <2>1, SumTake
<1>12. Sum(w, {}) = 0
  <2>1. IsFiniteSet({})
    BY FS_EmptySet
  <2> QED
    BY <2>1, SumFirst
<1>13. CASE Dim = 1
  <2>1. Axis = {1}
    BY <1>13 DEF Axis
  <2>2. Sum(w, Axis) = w[1] + Sum(w, {})
    <3>1. Axis \ {1} = {}
      BY <2>1
    <3> QED
      BY <1>11, <2>1, <3>1
  <2>3. w[1] = Diff(V[1], st, c, 1) /\ w[1] \in Int
    BY <1>6, <2>1
  <2>4. Diff(V[2], st, c, 2) = 0 /\ Diff(V[3], st, c, 3) = 0
    BY <1>7, <2>1
  <2>5. \A d \in Comp : d = 1 \/ d = 2 \/ d = 3
    BY DEF Comp
  <2> QED
    BY <1>10, <1>12, <2>2, <2>3, <2>4, <2>5
<1>14. CASE Dim = 2
  <2>1. Axis = {1, 2}
    BY <1>14 DEF Axis
  <2>2. Sum(w, Axis) = w[1] + Sum(w, {2}) /\ Sum(w, {2}) = w[2] + Sum(w, {})
    <3>1. Axis \ {1} = {2} /\ {2} \ {2} = {} /\ {2} \in SUBSET Axis
      BY <2>1
    <3> QED
      BY <1>11, <2>1, <3>1
  <2>3. /\ w[1] = Diff(V[1], st, c, 1) /\ w[1] \in Int
        /\ w[2] = Diff(V[2], st, c, 2) /\ w[2] \in Int
    BY <1>6, <2>1
  <2>4. Diff(V[3], st, c, 3) = 0
    BY <1>7, <2>1
  <2>5. \A d \in Comp : d = 1 \/ d = 2 \/ d = 3
    BY DEF Comp
  <2> QED
    BY <1>10, <1>12, <2>2, <2>3, <2>4, <2>5
<1>15. CASE Dim = 3
  <2>1. Axis = {1, 2, 3}
    BY <1>15 DEF Axis
  <2>2. /\ Sum(w, Axis) = w[1] + Sum(w, {2, 3})
        /\ Sum(w, {2, 3}) = w[2] + Sum(w, {3})
        /\ Sum(w, {3}) = w[3] + Sum(w, {})
    <3>1. /\ Axis \ {1} = {2, 3} /\ {2, 3} \ {2} = {3} /\ {3} \ {3} = {}
          /\ {2, 3} \in SUBSET Axis /\ {3} \in SUBSET Axis
      BY <2>1
    <3> QED
      BY <1>11, <2>1, <3>1
  <2>3. /\ w[1] = Diff(V[1], st, c, 1) /\ w[1] \in Int
        /\ w[2] = Diff(V[2], st, c, 2) /\ w[2] \in Int
        /\ w[3] = Diff(V[3], st, c, 3) /\ w[3] \in Int
    BY <1>6, <2>1
  <2>4. \A d \in Comp : d = 1 \/ d = 2 \/ d = 3
    BY DEF Comp
  <2> QED
    BY <1>10, <1>12, <2>2, <2>3, <2>4
<1> QED
  BY <1>13, <1>14, <1>15, DimAssumption

LEMMA DivIs ==
  ASSUME NEW V, NEW c, \A d \in Axis : Diff(V[d], 1, c, d) \in Int
  PROVE  /\ \A d \in Comp : Diff(V[d], 1, c, d) \in Int
         /\ Div(V, StaggerB, c)
              = Diff(V[1], 1, c, 1) + Diff(V[2], 1, c, 2) + Diff(V[3], 1, c, 3)
<1> DEFINE St == StaggerB
           st == 1
<1>1. (\A d \in Comp : St[d][d] = st) /\ \A d \in Axis : Diff(V[d], st, c, d) \in Int
  BY DEF StaggerB
<1> HIDE DEF St, st
<1>2. /\ \A d \in Comp : Diff(V[d], st, c, d) \in Int
      /\ Div(V, St, c) = Diff(V[1], st, c, 1) + Diff(V[2], st, c, 2) + Diff(V[3], st, c, 3)
  BY <1>1, DivSum
<1> QED
  BY <1>2 DEF St, st

\* A cell with room for a further step above it along every axis.
Roomy(c) ==
  /\ c = [d \in Axis |-> c[d]]
  /\ \A d \in Axis : c[d] \in 0..(W - 2)

LEMMA RoomyShift ==
  ASSUME NEW c, Roomy(c), NEW d \in Axis
  PROVE  /\ c \in Cell
         /\ Shift(c, d, 1) = [e \in Axis |-> IF e = d THEN c[e] + 1 ELSE c[e]]
         /\ Shift(c, d, 1) \in Cell
<1>1. W \in Nat /\ \A e \in Axis : c[e] \in 0..(W - 2)
  BY Extent DEF Roomy
<1>2. Shift(c, d, 1) = [e \in Axis |-> IF e = d THEN c[e] + 1 ELSE c[e]]
  BY DEF Roomy, Shift
<1>3. c \in Cell
  BY <1>1, Assembled DEF Roomy
<1>4. \A e \in Axis : Shift(c, d, 1)[e] \in 0..(W - 1)
  BY <1>1, <1>2
<1> QED
  BY <1>2, <1>3, <1>4, Assembled

\* A step from a cell and one from its home lead to the same value.
LEMMA HomeStep ==
  ASSUME NEW F, Alike(F), NEW r \in Rank, NEW y, Roomy(y), NEW d \in Axis, NEW k \in Comp,
         ~Outside(Global(r, y)), ~Outside(Global(r, Shift(y, d, 1)))
  PROVE  F[HomeRank(r, y)][k][Shift(HomeCell(r, y), d, 1)] = F[r][k][Shift(y, d, 1)]
<1> DEFINE z == Shift(y, d, 1)
           g == Global(r, y)
           h == Owner(g)
           b == LocalCell(h, g)
           u == Shift(b, d, 1)
           v == [e \in Axis |-> IF e = d THEN 1 ELSE 0]
<1>1. /\ y \in Cell /\ z \in Cell
      /\ z = [e \in Axis |-> IF e = d THEN y[e] + 1 ELSE y[e]]
  BY RoomyShift
<1>2. g \in Domain /\ HomeRank(r, y) = h /\ HomeCell(r, y) = b
  BY <1>1, HomeOwner
<1>3. v \in [Axis -> -1..1]
  OBVIOUS
<1>4. h \in Rank /\ b \in Interior
  BY <1>2, OwnerFacts
<1>5. u = Add(b, v)
  <2>1. b = [e \in Axis |-> b[e]] /\ \A e \in Axis : b[e] \in Int
    BY <1>4, InteriorCell DEF Cell, Interior
  <2> HIDE DEF b
  <2> QED
    BY <2>1 DEF Shift, Add
<1>6. u \in Cell /\ Global(h, u) = Wrap(Add(g, v))
  BY <1>2, <1>3, <1>5, Nearby
<1>7. Wrap(Add(g, v)) = Global(r, z)
  <2>1. ASSUME NEW e \in Axis PROVE Wrap(Add(g, v))[e] = Global(r, z)[e]
    <3> DEFINE L == Dims[e] * N
               a == At(r, y)[e]
               n == v[e]
    <3>1. /\ a \in Int /\ a = r[e] * N + y[e] - G
          /\ At(r, z)[e] \in Int /\ At(r, z)[e] = r[e] * N + z[e] - G
          /\ y[e] \in 0..(W - 1) /\ z[e] \in 0..(W - 1) /\ r[e] \in 0..(Dims[e] - 1)
          /\ g[e] \in Int
      BY <1>1, GlobalAlong
    <3>2. z[e] = y[e] + n /\ n \in {0, 1}
      BY <1>1, <3>1
    <3>3. /\ r[e] * N \in Nat /\ r[e] * N + N <= L /\ L \in Nat /\ N <= L
          /\ N \in Nat /\ G \in Nat /\ G <= N /\ W = N + 2 * G
      BY <3>1, Span, Extent
    <3>4. g[e] = IF ~Periodic[e] THEN a
                 ELSE IF a < 0 THEN a + L ELSE IF a >= L THEN a - L ELSE a
      BY DEF Global, Wrap, At
    <3>5. Global(r, z)[e] = IF ~Periodic[e] THEN At(r, z)[e]
                            ELSE IF At(r, z)[e] < 0 THEN At(r, z)[e] + L
                            ELSE IF At(r, z)[e] >= L THEN At(r, z)[e] - L ELSE At(r, z)[e]
      BY DEF Global, Wrap, At
    <3>6. Wrap(Add(g, v))[e] = IF ~Periodic[e] THEN g[e] + n
                               ELSE IF g[e] + n < 0 THEN g[e] + n + L
                               ELSE IF g[e] + n >= L THEN g[e] + n - L ELSE g[e] + n
      <4> DEFINE f == Add(g, v)
      <4>1. f[e] = g[e] + n
        BY DEF Add
      <4> HIDE DEF f, g, n
      <4>2. Wrap(f)[e] = IF ~Periodic[e] THEN f[e]
                         ELSE IF f[e] < 0 THEN f[e] + L
                         ELSE IF f[e] >= L THEN f[e] - L ELSE f[e]
        BY DEF Wrap
      <4> HIDE DEF L
      <4>3. Wrap(f)[e] = IF ~Periodic[e] THEN g[e] + n
                         ELSE IF g[e] + n < 0 THEN g[e] + n + L
                         ELSE IF g[e] + n >= L THEN g[e] + n - L ELSE g[e] + n
        BY <3>1, <3>2, <3>3, <4>1, <4>2
      <4> QED
        BY <4>3 DEF f
    <3> DEFINE p == r[e] * N
    <3>7. /\ a = p + y[e] - G /\ At(r, z)[e] = p + z[e] - G
          /\ p \in Nat /\ p + N <= L
      BY <3>1, <3>3
    <3> HIDE DEF p, L, a, n, g, z, v
    <3>8. At(r, z)[e] = a + n /\ -G <= a /\ a + n < L + G
      BY <3>1, <3>2, <3>3, <3>7
    <3> QED
      BY <3>1, <3>2, <3>3, <3>4, <3>5, <3>6, <3>8
  <2>2. \A f : Wrap(f) = [e \in Axis |-> Wrap(f)[e]]
    BY DEF Wrap
  <2>3. Global(r, z) = [e \in Axis |-> Global(r, z)[e]]
    BY DEF Global, Wrap
  <2> HIDE DEF z, g, v
  <2> QED
    BY <2>1, <2>2, <2>3
<1> HIDE DEF z, g, h, b, u
<1>8. Global(h, u) = Global(r, z) /\ ~Outside(Global(r, z)) /\ ~Outside(Global(h, u))
  BY <1>6, <1>7 DEF z
<1>9. HomeRank(h, u) = HomeRank(r, z) /\ HomeCell(h, u) = HomeCell(r, z)
  BY <1>1, <1>4, <1>6, <1>8, HomeOwner
<1>10. F[h][k][u] = F[HomeRank(h, u)][k][HomeCell(h, u)]
  BY <1>4, <1>6 DEF Alike
<1>11. F[r][k][z] = F[HomeRank(r, z)][k][HomeCell(r, z)]
  BY <1>1 DEF Alike
<1> QED
  BY <1>2, <1>9, <1>10, <1>11 DEF u, z

\* An undamped cell, and all around it.
LEMMA ClearFacts ==
  ASSUME NEW r \in Rank, NEW c \in Interior, Clear(r, c)
  PROVE  /\ Roomy(c) /\ ~Outside(Global(r, c))
         /\ \A d \in Axis :
              /\ Roomy(Shift(c, d, 1)) /\ ~Outside(Global(r, Shift(c, d, 1)))
              /\ \A e \in Axis \ {d} : ~Outside(Global(r, Shift(Shift(c, d, 1), e, 1)))
<1>0. G >= 2 /\ G \in Nat /\ N \in Nat /\ W = N + 2 * G
  BY DepositAssumption, CellAssumption DEF W
<1>1. c = [e \in Axis |-> c[e]] /\ \A e \in Axis : c[e] \in G..(N + G - 1)
  BY DEF Interior
<1>2. Roomy(c)
  BY <1>0, <1>1 DEF Roomy
<1>3. ~Outside(Global(r, c))
  BY InteriorFacts
<1>4. ASSUME NEW d \in Axis
      PROVE  Roomy(Shift(c, d, 1)) /\ ~Outside(Global(r, Shift(c, d, 1)))
  <2>1. Shift(c, d, 1) = [e \in Axis |-> IF e = d THEN c[e] + 1 ELSE c[e]]
    BY <1>2, RoomyShift
  <2>2. \A e \in Axis : Shift(c, d, 1)[e] \in 0..(W - 2)
    BY <1>0, <1>1, <2>1
  <2>3. Roomy(Shift(c, d, 1))
    BY <2>1, <2>2 DEF Roomy
  <2>4. ~Outside(Global(r, Shift(c, d, 1)))
    BY DEF Clear
  <2> QED
    BY <2>3, <2>4
<1>5. ASSUME NEW d \in Axis, NEW e \in Axis \ {d}
      PROVE  ~Outside(Global(r, Shift(Shift(c, d, 1), e, 1)))
  <2> DEFINE y == Shift(c, d, 1)
             z == Shift(c, e, 1)
             u == Shift(y, e, 1)
  <2>1. /\ y = [a \in Axis |-> IF a = d THEN c[a] + 1 ELSE c[a]]
        /\ z = [a \in Axis |-> IF a = e THEN c[a] + 1 ELSE c[a]]
        /\ y \in Cell /\ z \in Cell
    BY <1>2, RoomyShift
  <2>2. /\ u = [a \in Axis |-> IF a = e THEN y[a] + 1 ELSE y[a]] /\ u \in Cell
    BY <1>4, RoomyShift
  <2>3. ~Outside(Global(r, y)) /\ ~Outside(Global(r, z))
    BY <1>4
  <2> HIDE DEF y, z, u
  <2>4. \A a \in Axis : u[a] = y[a] \/ u[a] = z[a]
    BY <2>1, <2>2
  <2>5. \A a \in Axis : Global(r, u)[a] = Global(r, y)[a] \/ Global(r, u)[a] = Global(r, z)[a]
    BY <2>4 DEF Global, Wrap
  <2>6. ~Outside(Global(r, u))
    BY <2>3, <2>5 DEF Outside
  <2> QED
    BY <2>6 DEF u, y
<1> QED
  BY <1>2, <1>3, <1>4, <1>5

\* Where nothing is damped, a step of B subtracts the curl of E, which can be
\* read in any array that has the cell.
LEMMA ClearB ==
  ASSUME FieldInv, NumberInv, UpdateB, NEW r \in Rank, NEW c \in Interior, Clear(r, c),
         NEW k \in Axis, NEW n \in {0, 1}
  PROVE  LET y == Shift(c, k, n)
             i == Next3(k)
             j == Next3(i) IN
         B'[r][k][y] = B[r][k][y] - Diff(E[r][j], 1, y, i) + Diff(E[r][i], 1, y, j)
<1> DEFINE y == Shift(c, k, n)
           i == Next3(k)
           j == Next3(i)
           h == HomeRank(r, y)
           b == HomeCell(r, y)
           new == [q \in Rank |-> [a \in Comp |-> [e \in Interior |->
                     AdvanceB(Fields(q), BoxOf(q), a, e)]]]
<1>1. /\ k \in Comp /\ i \in Comp /\ j \in Comp /\ i # k /\ j # k /\ i # j
      /\ Axis \subseteq Comp
  BY DimAssumption DEF Axis, Comp, Next3
<1>2. /\ Roomy(y) /\ ~Outside(Global(r, y))
      /\ \A e \in Axis \ {k} : ~Outside(Global(r, Shift(y, e, 1)))
  <2>1. CASE n = 0
    <3>1. y = c
      <4>1. c = [e \in Axis |-> c[e]] /\ c[k] + 0 = c[k]
        BY InteriorCell DEF Interior, Cell
      <4> QED
        BY <2>1, <4>1 DEF Shift
    <3> HIDE DEF y
    <3> QED
      BY <3>1, ClearFacts
  <2>2. CASE n = 1
    BY <2>2, ClearFacts
  <2> QED
    BY <2>1, <2>2
<1>3. \A a \in Axis, e \in {0, 1} : Depth(BoxOf(h), b, a, e) = 0
  <2>1. n \in -1..1
    OBVIOUS
  <2> QED
    BY <2>1 DEF Clear
<1> HIDE DEF y, i, j
<1>4. y \in Cell
  BY <1>2, RoomyShift
<1>5. /\ h \in Rank /\ b \in Interior /\ b \in Cell
      /\ h = Owner(Global(r, y)) /\ b = LocalCell(Owner(Global(r, y)), Global(r, y))
      /\ Global(r, y) \in Domain
  BY <1>2, <1>4, HomeOwner, HomeFacts
<1>6. \A a \in Comp : Depth(BoxOf(h), b, a, 1) = 0
  <2> SUFFICES ASSUME NEW a \in Comp, a \notin Axis PROVE Depth(BoxOf(h), b, a, 1) = 0
    BY <1>3
  <2>1. Depth(BoxOf(Owner(Global(r, y))), LocalCell(Owner(Global(r, y)), Global(r, y)), a, 1) = 0
    BY <1>5, DepthOff
  <2> QED
    BY <1>5, <2>1
<1> HIDE DEF h, b
<1>7. B' = Each(Refreshed, Part(new, B, 1)) /\ Alike(E) /\ Alike(B)
  BY DEF UpdateB, FieldInv
<1>8. new[h][k][b] = AdvanceB(Fields(h), BoxOf(h), k, b)
  BY <1>1, <1>5
<1> HIDE DEF new
<1>9. B'[r][k][y] = AdvanceB(Fields(h), BoxOf(h), k, b)[1]
  <2>1. B'[r][k][y] = Part(new, B, 1)[h][k][b]
    BY <1>1, <1>4, <1>7, EachRefreshed DEF h, b
  <2> QED
    BY <1>1, <1>5, <1>8, <2>1 DEF Part
<1>10. B[r][k][y] = B[h][k][b]
  BY <1>1, <1>4, <1>7 DEF Alike, h, b
<1> DEFINE f == Fields(h)
<1>11. f.E = E[h] /\ f.B = B[h] /\ f.B1 = B1[h] /\ f.B2 = B2[h]
  BY DEF Fields
<1> HIDE DEF f
<1>12. ~(Depth(BoxOf(h), b, Next3(k), 1) > 0) /\ ~(Depth(BoxOf(h), b, Next3(Next3(k)), 1) > 0)
  <2>1. Depth(BoxOf(h), b, i, 1) = 0 /\ Depth(BoxOf(h), b, j, 1) = 0
    BY <1>1, <1>6
  <2>2. ~(0 > 0)
    OBVIOUS
  <2> QED
    BY <2>1, <2>2, Zenon DEF i, j
<1>13. AdvanceB(f, BoxOf(h), k, b)[1]
         = B[h][k][b] + (-CurlPlus(E[h], StaggerE, k, b)) + (-CurlMinus(E[h], StaggerE, k, b)) - 0
  BY <1>11, <1>12 DEF AdvanceB, Advanced
<1>14. /\ CurlPlus(E[h], StaggerE, k, b) = Diff(E[h][j], 1, b, i)
       /\ CurlMinus(E[h], StaggerE, k, b) = -Diff(E[h][i], 1, b, j)
  <2>1. StaggerE[j][i] = 1 /\ StaggerE[i][j] = 1
    BY <1>1 DEF StaggerE
  <2> QED
    BY <2>1 DEF CurlPlus, CurlMinus, i, j
<1>15. ASSUME NEW a \in Comp, NEW d \in Comp \ {k}
       PROVE  /\ Diff(E[h][a], 1, b, d) = Diff(E[r][a], 1, y, d)
              /\ Diff(E[h][a], 1, b, d) \in Int
  <2>1. CASE d \in Axis
    <3>1. E[h][a][Shift(b, d, 1)] = E[r][a][Shift(y, d, 1)]
      BY <1>2, <1>7, <2>1, HomeStep DEF h, b
    <3>2. Shift(b, d, 1 - 1) = b /\ Shift(y, d, 1 - 1) = y
      <4>1. /\ b = [e \in Axis |-> b[e]] /\ b[d] + (1 - 1) = b[d]
            /\ y = [e \in Axis |-> y[e]] /\ y[d] + (1 - 1) = y[d]
        BY <1>4, <1>5, <2>1 DEF Cell
      <4> QED
        BY <4>1 DEF Shift
    <3>3. E[h][a][b] = E[r][a][y]
      BY <1>4, <1>7 DEF Alike, h, b
    <3>4. Diff(E[h][a], 1, b, d) = Diff(E[r][a], 1, y, d)
      BY <2>1, <3>1, <3>2, <3>3 DEF Diff
    <3>5. E[h][a][Shift(b, d, 1)] \in Int /\ E[h][a][b] \in Int
      <4>1. Shift(b, d, 1) \in Cell
        BY <1>5, <2>1, ShiftCell
      <4> QED
        BY <1>5, <4>1 DEF NumberInv, Numeric
    <3>6. Diff(E[h][a], 1, b, d) \in Int
      BY <2>1, <3>2, <3>5 DEF Diff
    <3> QED
      BY <3>4, <3>6
  <2>2. CASE d \notin Axis
    BY <2>2 DEF Diff
  <2> QED
    BY <2>1, <2>2
<1>16. /\ Diff(E[h][j], 1, b, i) = Diff(E[r][j], 1, y, i) /\ Diff(E[h][j], 1, b, i) \in Int
       /\ Diff(E[h][i], 1, b, j) = Diff(E[r][i], 1, y, j) /\ Diff(E[h][i], 1, b, j) \in Int
  BY <1>1, <1>15
<1>17. B[h][k][b] \in Int
  BY <1>1, <1>5 DEF NumberInv, Numeric
<1> DEFINE u == Diff(E[r][j], 1, y, i)
           v == Diff(E[r][i], 1, y, j)
           z == B[h][k][b]
<1>18. B'[r][k][y] = z + (-u) + (-(-v)) - 0 /\ u \in Int /\ v \in Int /\ z \in Int
  BY <1>9, <1>13, <1>14, <1>16, <1>17 DEF f
<1>19. B'[r][k][y] = B[r][k][y] - u + v
  <2> HIDE DEF u, v, z
  <2>1. B'[r][k][y] = z - u + v
    BY <1>18
  <2> QED
    BY <1>10, <2>1 DEF z
<1> QED
  BY <1>19 DEF y, i, j

\* A step changes the divergence of B by differences of differences of E.
Twice(r, a, c, d, e) ==
  IF d \in Axis THEN Diff(E[r][a], 1, Shift(c, d, 1), e) - Diff(E[r][a], 1, c, e) ELSE 0

LEMMA TwiceFacts ==
  ASSUME NumberInv, NEW r \in Rank, NEW c \in Interior, Clear(r, c),
         NEW a \in Comp, NEW d \in Comp, NEW e \in Comp \ {d}
  PROVE  Twice(r, a, c, d, e) = Twice(r, a, c, e, d) /\ Twice(r, a, c, d, e) \in Int
<1> DEFINE f == E[r][a]
           y == Shift(c, d, 1)
           z == Shift(c, e, 1)
           u == Shift(y, e, 1)
<1>1. CASE d \in Axis /\ e \in Axis
  <2>1. Roomy(c) /\ Roomy(y) /\ Roomy(z)
    BY <1>1, ClearFacts
  <2>2. /\ y = [i \in Axis |-> IF i = d THEN c[i] + 1 ELSE c[i]]
        /\ z = [i \in Axis |-> IF i = e THEN c[i] + 1 ELSE c[i]]
        /\ c \in Cell /\ y \in Cell /\ z \in Cell
    BY <1>1, <2>1, RoomyShift
  <2> HIDE DEF y, z
  <2>3. /\ u = [i \in Axis |-> IF i = e THEN y[i] + 1 ELSE y[i]] /\ u \in Cell
        /\ Shift(z, d, 1) = [i \in Axis |-> IF i = d THEN z[i] + 1 ELSE z[i]]
    BY <1>1, <2>1, RoomyShift
  <2>4. u = Shift(z, d, 1)
    BY <2>2, <2>3
  <2>5. /\ Shift(y, e, 1 - 1) = y /\ Shift(z, d, 1 - 1) = z
        /\ Shift(c, d, 1 - 1) = c /\ Shift(c, e, 1 - 1) = c
    <3>1. \A v \in Cell, i \in Axis : Shift(v, i, 1 - 1) = v
      <4> SUFFICES ASSUME NEW v \in Cell, NEW i \in Axis PROVE Shift(v, i, 1 - 1) = v
        OBVIOUS
      <4>1. v = [j \in Axis |-> v[j]] /\ v[i] + (1 - 1) = v[i]
        BY DEF Cell
      <4> QED
        BY <4>1 DEF Shift
    <3> QED
      BY <1>1, <2>2, <3>1
  <2> HIDE DEF u
  <2>6. /\ Diff(f, 1, y, e) = f[u] - f[y] /\ Diff(f, 1, c, e) = f[z] - f[c]
        /\ Diff(f, 1, z, d) = f[u] - f[z] /\ Diff(f, 1, c, d) = f[y] - f[c]
    BY <1>1, <2>4, <2>5 DEF Diff, u, y, z
  <2>7. f[u] \in Int /\ f[y] \in Int /\ f[z] \in Int /\ f[c] \in Int
    BY <2>2, <2>3 DEF NumberInv, Numeric
  <2>8. /\ Twice(r, a, c, d, e) = Diff(f, 1, y, e) - Diff(f, 1, c, e)
        /\ Twice(r, a, c, e, d) = Diff(f, 1, z, d) - Diff(f, 1, c, d)
    BY <1>1 DEF Twice, y, z
  <2> HIDE DEF f
  <2> QED
    BY <2>6, <2>7, <2>8
<1>2. CASE d \notin Axis \/ e \notin Axis
  BY <1>2 DEF Twice, Diff
<1> QED
  BY <1>1, <1>2

LEMMA DivStep ==
  ASSUME FieldInv, NumberInv, UpdateB, NEW r \in Rank, NEW c \in Interior, Clear(r, c),
         NEW k \in Comp
  PROVE  LET i == Next3(k)
             j == Next3(i) IN
         /\ Diff(B[r][k], 1, c, k) \in Int
         /\ Diff(B'[r][k], 1, c, k)
              = Diff(B[r][k], 1, c, k) - Twice(r, j, c, k, i) + Twice(r, i, c, k, j)
<1> DEFINE i == Next3(k)
           j == Next3(i)
           y == Shift(c, k, 1)
           z == Shift(c, k, 0)
<1>1. i \in Comp \ {k} /\ j \in Comp \ {k}
  BY DEF Next3, Comp
<1> HIDE DEF i, j
<1>2. CASE k \notin Axis
  BY <1>2 DEF Diff, Twice, i, j
<1>3. CASE k \in Axis
  <2>1. Roomy(c)
    BY ClearFacts
  <2>2. c \in Cell /\ y \in Cell
    BY <1>3, <2>1, RoomyShift
  <2>3. z = c /\ 1 - 1 = 0
    <3>1. c = [e \in Axis |-> c[e]] /\ c[k] + 0 = c[k]
      BY <1>3, <2>2 DEF Cell
    <3> QED
      BY <3>1 DEF Shift
  <2> DEFINE p(v) == Diff(E[r][j], 1, v, i)
             q(v) == Diff(E[r][i], 1, v, j)
             f == B[r][k]
             g == B'[r][k]
  <2>4. g[y] = f[y] - p(y) + q(y) /\ g[c] = f[c] - p(c) + q(c)
    <3>1. g[z] = f[z] - p(z) + q(z)
      BY <1>3, ClearB DEF i, j
    <3>2. g[y] = f[y] - p(y) + q(y)
      BY <1>3, ClearB DEF i, j
    <3> QED
      BY <2>3, <3>1, <3>2
  <2>5. Diff(f, 1, c, k) = f[y] - f[c] /\ Diff(g, 1, c, k) = g[y] - g[c]
    BY <1>3, <2>3 DEF Diff
  <2>6. f[y] \in Int /\ f[c] \in Int
    BY <2>2 DEF NumberInv, Numeric
  <2>7. /\ Twice(r, j, c, k, i) = p(y) - p(c) /\ Twice(r, i, c, k, j) = q(y) - q(c)
    BY <1>3 DEF Twice
  <2>8. p(y) \in Int /\ p(c) \in Int /\ q(y) \in Int /\ q(c) \in Int
    <3>1. ASSUME NEW a \in Comp, NEW d \in Comp, NEW v, Roomy(v)
          PROVE  Diff(E[r][a], 1, v, d) \in Int
      <4>1. CASE d \in Axis
        <5>1. v \in Cell /\ Shift(v, d, 1) \in Cell
          BY <3>1, <4>1, RoomyShift
        <5>2. Shift(v, d, 1 - 1) = v
          <6>1. v = [e \in Axis |-> v[e]] /\ v[d] + (1 - 1) = v[d]
            BY <4>1, <5>1 DEF Cell
          <6> QED
            BY <6>1 DEF Shift
        <5>3. E[r][a][v] \in Int /\ E[r][a][Shift(v, d, 1)] \in Int
          BY <5>1 DEF NumberInv, Numeric
        <5> QED
          BY <4>1, <5>2, <5>3 DEF Diff
      <4>2. CASE d \notin Axis
        BY <4>2 DEF Diff
      <4> QED
        BY <4>1, <4>2
    <3>2. Roomy(y)
      BY <1>3, ClearFacts
    <3> HIDE DEF y
    <3> QED
      BY <1>1, <2>1, <3>1, <3>2
  <2> HIDE DEF p, q, f, g, y
  <2>9. Diff(f, 1, c, k) \in Int
    BY <2>5, <2>6
  <2>10. Diff(g, 1, c, k)
           = Diff(f, 1, c, k) - Twice(r, j, c, k, i) + Twice(r, i, c, k, j)
    BY <2>4, <2>5, <2>6, <2>7, <2>8
  <2> QED
    BY <2>9, <2>10 DEF f, g, i, j
<1> QED
  BY <1>2, <1>3

DivFree ==
  \A r \in Rank : \A c \in Interior : Clear(r, c) => Div(B[r], StaggerB, c) = 0

LEMMA DivFreeUpdateB ==
  ASSUME FieldInv, NumberInv, DivFree, UpdateB
  PROVE  DivFree'
<1> SUFFICES ASSUME NEW r \in Rank, NEW c \in Interior, Clear(r, c)
             PROVE  Div(B'[r], StaggerB, c) = 0
  BY DEF DivFree, Clear
<1> DEFINE t(k) == Diff(B[r][k], 1, c, k)
           u(k) == Diff(B'[r][k], 1, c, k)
           T(a, d, e) == Twice(r, a, c, d, e)
<1>1. /\ 1 \in Comp /\ 2 \in Comp /\ 3 \in Comp
      /\ Next3(1) = 2 /\ Next3(2) = 3 /\ Next3(3) = 1
      /\ Axis \subseteq Comp
  BY DimAssumption DEF Comp, Next3, Axis
<1>2. \A k \in Comp :
        /\ t(k) \in Int
        /\ u(k) = t(k) - T(Next3(Next3(k)), k, Next3(k)) + T(Next3(k), k, Next3(Next3(k)))
  BY DivStep
<1>3. \A a \in Comp, d \in Comp : \A e \in Comp \ {d} : T(a, d, e) = T(a, e, d) /\ T(a, d, e) \in Int
  BY TwiceFacts
<1>4. Div(B[r], StaggerB, c) = t(1) + t(2) + t(3)
  <2>1. \A d \in Axis : Diff(B[r][d], 1, c, d) \in Int
    BY <1>1, <1>2
  <2> QED
    BY <2>1, DivIs
<1>5. t(1) + t(2) + t(3) = 0
  BY <1>4 DEF DivFree
<1> HIDE DEF t, T, u
<1>6. /\ t(1) \in Int /\ t(2) \in Int /\ t(3) \in Int
      /\ u(1) = t(1) - T(3, 1, 2) + T(2, 1, 3)
      /\ u(2) = t(2) - T(1, 2, 3) + T(3, 2, 1)
      /\ u(3) = t(3) - T(2, 3, 1) + T(1, 3, 2)
  BY <1>1, <1>2
<1>7. /\ T(3, 1, 2) = T(3, 2, 1) /\ T(2, 1, 3) = T(2, 3, 1) /\ T(1, 2, 3) = T(1, 3, 2)
      /\ T(3, 1, 2) \in Int /\ T(2, 1, 3) \in Int /\ T(1, 2, 3) \in Int
  BY <1>1, <1>3
<1>8. u(1) + u(2) + u(3) = 0 /\ u(1) \in Int /\ u(2) \in Int /\ u(3) \in Int
  BY <1>5, <1>6, <1>7
<1>9. Div(B'[r], StaggerB, c) = u(1) + u(2) + u(3)
  <2>1. \A d \in Axis : d = 1 \/ d = 2 \/ d = 3
    BY <1>1 DEF Comp
  <2>2. \A d \in Axis : Diff(B'[r][d], 1, c, d) \in Int
    BY <1>8, <2>1 DEF u
  <2> QED
    BY <2>2, DivIs DEF u
<1> QED
  BY <1>8, <1>9

\* No magnetic charge appears (compute_b_update, compute_b_update_pml and the
\* guard cells they read) for any decomposition, and whatever the layers are
\* away from them, also where a cell and its neighbours belong to different
\* ranks.
THEOREM NoMagneticCharge == Spec => []DivBZero
<1> DEFINE Inv == FieldInv /\ NumberInv /\ DivFree
<1>1. Init => Inv
  <2> SUFFICES ASSUME Init PROVE Inv
    OBVIOUS
  <2>1. \A r \in Rank, k \in Comp, c \in Cell : BlankVector[r][k][c] = 0
    BY DEF BlankVector
  <2>2. NumberInv
    BY NumberInit
  <2>3. DivFree
    <3> SUFFICES ASSUME NEW r \in Rank, NEW c \in Interior, Clear(r, c)
                 PROVE  Div(B[r], StaggerB, c) = 0
      BY DEF DivFree
    <3>1. ASSUME NEW d \in Comp PROVE Diff(B[r][d], 1, c, d) = 0
      <4>1. CASE d \in Axis
        <5>1. Shift(c, d, 1) \in Cell /\ Shift(c, d, 1 - 1) \in Cell
          <6>1. 1 \in -1..1 /\ 1 - 1 \in -1..1
            OBVIOUS
          <6> QED
            BY <4>1, <6>1, ShiftCell
        <5>2. B[r][d][Shift(c, d, 1)] = 0 /\ B[r][d][Shift(c, d, 1 - 1)] = 0
          BY <2>1, <5>1 DEF Init
        <5> QED
          BY <4>1, <5>2 DEF Diff
      <4>2. CASE d \notin Axis
        BY <4>2 DEF Diff
      <4> QED
        BY <4>1, <4>2
    <3>2. Axis \subseteq Comp /\ 1 \in Comp /\ 2 \in Comp /\ 3 \in Comp
      BY DimAssumption DEF Axis, Comp
    <3>3. \A d \in Axis : Diff(B[r][d], 1, c, d) \in Int
      BY <3>1, <3>2
    <3> QED
      BY <3>1, <3>2, <3>3, DivIs
  <2> QED
    BY <2>2, <2>3, FieldInit
<1>2. Inv /\ [Next]_vars => Inv'
  <2> SUFFICES ASSUME Inv, [Next]_vars PROVE Inv'
    OBVIOUS
  <2>1. NumberInv'
    BY NumberNext
  <2>2. FieldInv'
    <3>1. CASE UpdateParticles
      BY <3>1, PushMaps
    <3>2. CASE ExchangeDeposits
      BY <3>2, DepositMaps
    <3>3. CASE FilterCurrent
      BY <3>3, FilterMaps
    <3>4. CASE UpdateB
      BY <3>4, UpdateBKeeps
    <3>5. CASE UpdateE
      BY <3>5, UpdateEKeeps
    <3>6. CASE UNCHANGED vars
      BY <3>6, StillMaps
    <3> QED
      BY <3>1, <3>2, <3>3, <3>4, <3>5, <3>6 DEF Next, Finished
  <2>3. DivFree'
    <3>1. CASE UpdateB
      BY <3>1, DivFreeUpdateB
    <3>2. CASE UNCHANGED B
      BY <3>2 DEF DivFree, Clear
    <3>3. UpdateB \/ UNCHANGED B
      BY DEF Next, Finished, vars, UpdateParticles, ExchangeDeposits, FilterCurrent, UpdateE
    <3> QED
      BY <3>1, <3>2, <3>3
  <2> QED
    BY <2>1, <2>2, <2>3
<1>3. Inv => DivBZero
  BY DEF DivFree, DivBZero
<1> QED
  BY <1>1, <1>2, <1>3, PTL DEF Spec

-----------------------------------------------------------------------------
(* Powers and sums *)

\* An element more doubles the subsets.
LEMMA Doubled ==
  ASSUME NEW n \in Nat
  PROVE  2^(n + 1) = 2 * 2^n /\ 2^n \in Nat
<1> DEFINE S == 1..n
           T == 1..(n + 1)
           A == SUBSET S
           C == (SUBSET T) \ A
           f == [s \in A |-> s \cup {n + 1}]
<1>1. /\ IsFiniteSet(S) /\ Cardinality(S) = n
      /\ IsFiniteSet(T) /\ Cardinality(T) = n + 1
  BY FS_Interval
<1>2. /\ IsFiniteSet(A) /\ Cardinality(A) = 2^n
      /\ IsFiniteSet(SUBSET T) /\ Cardinality(SUBSET T) = 2^(n + 1)
  <2> HIDE DEF S, T
  <2> QED
    BY <1>1, FS_SUBSET
<1>3. A \subseteq SUBSET T
  OBVIOUS
<1>4. f \in Bijection(A, C)
  <2>1. ASSUME NEW s \in A PROVE f[s] \in C
    OBVIOUS
  <2>2. ASSUME NEW s \in A, NEW t \in A, f[s] = f[t] PROVE s = t
    <3>1. n + 1 \notin s /\ n + 1 \notin t
      OBVIOUS
    <3>2. s \cup {n + 1} = t \cup {n + 1}
      BY <2>2
    <3>3. \A i : i \in s <=> i \in t
      BY <3>1, <3>2
    <3>4. s \in SUBSET S /\ t \in SUBSET S
      OBVIOUS
    <3> HIDE DEF A, f, S
    <3> QED
      BY <3>3, <3>4
  <2>3. ASSUME NEW t \in C PROVE \E s \in A : f[s] = t
    <3>1. n + 1 \in t
      OBVIOUS
    <3>2. t \ {n + 1} \in A
      OBVIOUS
    <3>3. f[t \ {n + 1}] = t
      BY <3>1, <3>2
    <3> QED
      BY <3>2, <3>3
  <2>4. f \in [A -> C]
    BY <2>1
  <2> HIDE DEF A, C, f
  <2> QED
    BY <2>2, <2>3, <2>4 DEF Bijection, Injection, Surjection, IsInjective
<1> HIDE DEF A, C, f, T
<1>5. IsFiniteSet(C) /\ Cardinality(C) = Cardinality(A)
  <2>1. ExistsBijection(A, C)
    BY <1>4 DEF ExistsBijection
  <2> QED
    BY <1>2, <2>1, FS_Bijection
<1>6. Cardinality(SUBSET T) = Cardinality(A) + Cardinality(C) /\ Cardinality(A) \in Nat
  <2>1. A \cup C = SUBSET T /\ A \cap C = {}
    BY <1>3 DEF C
  <2>2. Cardinality(A \cup C)
          = Cardinality(A) + Cardinality(C) - Cardinality(A \cap C)
    BY <1>2, <1>5, FS_Union
  <2>3. Cardinality(A \cap C) = 0 /\ Cardinality(A) \in Nat /\ Cardinality(C) \in Nat
    BY <1>2, <1>5, <2>1, FS_EmptySet, FS_CardinalityType
  <2>4. Cardinality(SUBSET T)
          = Cardinality(A) + Cardinality(C) - Cardinality(A \cap C)
    BY <2>1, <2>2, Zenon
  <2> DEFINE i == Cardinality(A)
             j == Cardinality(C)
  <2>5. Cardinality(SUBSET T) = i + j - 0 /\ i \in Nat /\ j \in Nat
    BY <2>3, <2>4, Zenon
  <2> HIDE DEF i, j
  <2>6. Cardinality(SUBSET T) = i + j
    BY <2>5
  <2> QED
    BY <2>5, <2>6 DEF i, j
<1>7. 2^n \in Nat /\ 2^(n + 1) = 2^n + 2^n
  BY <1>2, <1>5, <1>6, Zenon
<1> DEFINE p == 2^n
           q == 2^(n + 1)
<1>8. p \in Nat /\ q = p + p
  BY <1>7
<1> HIDE DEF p, q
<1>9. q = 2 * p
  BY <1>8
<1> QED
  BY <1>8, <1>9 DEF p, q

\* A deposit is divided by 4^Dim in each filter pass.
Fourth(n) == 2^(2 * Dim * n)

LEMMA FourthFacts ==
  ASSUME NEW n \in Nat
  PROVE  /\ Fourth(n) \in Nat /\ Fourth(n + 1) = 4^Dim * Fourth(n)
         /\ 4^Dim \in {4, 16, 64}
<1>1. \A i \in Nat : 2^i \in Nat /\ 2^(i + 1) = 2 * 2^i
  BY Doubled
<1> DEFINE P(i) == 2^i
<1>2. \A i \in Nat : P(i) \in Nat /\ P(i + 1) = 2 * P(i)
  BY <1>1
<1> HIDE DEF P
<1>3. \A i \in Nat : P(i + 2) = 4 * P(i)
  <2> SUFFICES ASSUME NEW i \in Nat PROVE P(i + 2) = 4 * P(i)
    OBVIOUS
  <2>1. P(i + 1) = 2 * P(i) /\ P((i + 1) + 1) = 2 * P(i + 1) /\ P(i) \in Nat
    BY <1>2
  <2>2. (i + 1) + 1 = i + 2
    OBVIOUS
  <2> QED
    BY <2>1, <2>2
<1>4. \A i \in Nat : P(i + 4) = 16 * P(i)
  <2> SUFFICES ASSUME NEW i \in Nat PROVE P(i + 4) = 16 * P(i)
    OBVIOUS
  <2>1. P(i + 2) = 4 * P(i) /\ P((i + 2) + 2) = 4 * P(i + 2) /\ P(i) \in Nat
    BY <1>2, <1>3
  <2>2. (i + 2) + 2 = i + 4
    OBVIOUS
  <2> QED
    BY <2>1, <2>2
<1>5. \A i \in Nat : P(i + 6) = 64 * P(i)
  <2> SUFFICES ASSUME NEW i \in Nat PROVE P(i + 6) = 64 * P(i)
    OBVIOUS
  <2>1. P(i + 2) = 4 * P(i) /\ P((i + 2) + 4) = 16 * P(i + 2) /\ P(i) \in Nat
    BY <1>2, <1>3, <1>4
  <2>2. (i + 2) + 4 = i + 6
    OBVIOUS
  <2> QED
    BY <2>1, <2>2
<1>6. 4^1 = 4 /\ 4^2 = 16 /\ 4^3 = 64
  OBVIOUS
<1>7. Fourth(n) = P(2 * Dim * n) /\ Fourth(n + 1) = P(2 * Dim * (n + 1))
  BY DEF Fourth, P
<1>8. CASE Dim = 1
  <2>1. 2 * 1 * (n + 1) = 2 * n + 2 /\ 2 * 1 * n = 2 * n /\ 2 * n \in Nat
    OBVIOUS
  <2> QED
    BY <1>2, <1>3, <1>6, <1>7, <1>8, <2>1
<1>9. CASE Dim = 2
  <2>1. 2 * 2 * (n + 1) = 4 * n + 4 /\ 2 * 2 * n = 4 * n /\ 4 * n \in Nat
    OBVIOUS
  <2> QED
    BY <1>2, <1>4, <1>6, <1>7, <1>9, <2>1
<1>10. CASE Dim = 3
  <2>1. 2 * 3 * (n + 1) = 6 * n + 6 /\ 2 * 3 * n = 6 * n /\ 6 * n \in Nat
    OBVIOUS
  <2> QED
    BY <1>2, <1>5, <1>6, <1>7, <1>10, <2>1
<1> QED
  BY <1>8, <1>9, <1>10, DimAssumption

\* Sums are linear in their summands.
LEMMA SumLinear ==
  ASSUME NEW S, IsFiniteSet(S), NEW a \in Int, NEW b \in Int, NEW u, NEW v, NEW w,
         \A e \in S : u[e] \in Int /\ v[e] \in Int /\ w[e] = a * u[e] + b * v[e]
  PROVE  /\ Sum(w, S) = a * Sum(u, S) + b * Sum(v, S)
         /\ Sum(u, S) \in Int /\ Sum(v, S) \in Int
<1> DEFINE Good(s) == Sum(w, s) = a * Sum(u, s) + b * Sum(v, s)
           Bad == {n \in Nat : \E s \in SUBSET S : Cardinality(s) = n /\ ~ Good(s)}
<1>1. \A s \in SUBSET S :
        /\ IsFiniteSet(s) /\ Cardinality(s) \in Nat
        /\ Sum(u, s) \in Int /\ Sum(v, s) \in Int
  <2> SUFFICES ASSUME NEW s \in SUBSET S
               PROVE  /\ IsFiniteSet(s) /\ Cardinality(s) \in Nat
                      /\ Sum(u, s) \in Int /\ Sum(v, s) \in Int
    OBVIOUS
  <2>1. IsFiniteSet(s) /\ Cardinality(s) \in Nat
    BY FS_Subset, FS_CardinalityType
  <2>2. (\A e \in s : u[e] \in Int) /\ (\A e \in s : v[e] \in Int)
    OBVIOUS
  <2> QED
    BY <2>1, <2>2, SumType, Zenon
<1>2. Bad = {}
  <2> SUFFICES ASSUME Bad # {} PROVE FALSE
    OBVIOUS
  <2>1. Bad \in SUBSET Nat
    OBVIOUS
  <2> HIDE DEF Bad
  <2>2. PICK n \in Bad : \A i \in Bad : n <= i
    BY <2>1, LeastOf, Zenon
  <2>3. PICK s \in SUBSET S : Cardinality(s) = n /\ ~ Good(s)
    BY <2>2 DEF Bad
  <2>4. IsFiniteSet(s)
    BY <1>1
  <2>5. s # {}
    <3> SUFFICES ASSUME s = {} PROVE FALSE
      OBVIOUS
    <3>1. Sum(w, {}) = 0 /\ Sum(u, {}) = 0 /\ Sum(v, {}) = 0
      BY <2>4, SumFirst
    <3>2. 0 = a * 0 + b * 0
      OBVIOUS
    <3> QED
      BY <2>3, <3>1, <3>2
  <2>6. PICK e \in s : TRUE
    BY <2>5
  <2> DEFINE t == s \ {e}
  <2>7. /\ Sum(w, s) = w[e] + Sum(w, t)
        /\ Sum(u, s) = u[e] + Sum(u, t)
        /\ Sum(v, s) = v[e] + Sum(v, t)
    <3>1. \A i \in s : u[i] \in Int /\ v[i] \in Int /\ w[i] \in Int
      OBVIOUS
    <3> QED
      BY <2>4, <2>6, <3>1, SumTake
  <2>8. Cardinality(t) = Cardinality(s) - 1 /\ Cardinality(s) \in Nat
    BY <2>4, <2>5, Smaller
  <2>9. t \in SUBSET S
    OBVIOUS
  <2> HIDE DEF t
  <2>10. Cardinality(t) \in Nat /\ ~ (n <= Cardinality(t))
    BY <1>1, <2>3, <2>8, <2>9
  <2>11. Good(t)
    <3> HIDE DEF Good
    <3> QED
      BY <2>2, <2>9, <2>10 DEF Bad
  <2> DEFINE p == Sum(u, t)
             q == Sum(v, t)
  <2>12. /\ p \in Int /\ q \in Int /\ u[e] \in Int /\ v[e] \in Int
         /\ w[e] = a * u[e] + b * v[e]
         /\ Sum(w, t) = a * p + b * q
    BY <1>1, <2>9, <2>11
  <2> HIDE DEF p, q
  <2> DEFINE i == u[e]
             j == v[e]
  <2>13. i \in Int /\ j \in Int
    BY <2>12
  <2> HIDE DEF i, j
  <2>14. (a * i + b * j) + (a * p + b * q) = a * (i + p) + b * (j + q)
    BY <2>12, <2>13
  <2> QED
    BY <2>3, <2>7, <2>12, <2>14 DEF i, j, p, q
<1>3. S \in SUBSET S
  OBVIOUS
<1>4. Good(S)
  <2> HIDE DEF Good
  <2> QED
    BY <1>1, <1>2, <1>3
<1> QED
  BY <1>1, <1>3, <1>4

\* Summands that are zero can be left out.
LEMMA SumWithin ==
  ASSUME NEW T, IsFiniteSet(T), NEW S \in SUBSET T, NEW w,
         \A e \in T : w[e] \in Int, \A e \in T \ S : w[e] = 0
  PROVE  Sum(w, S) = Sum(w, T)
<1> DEFINE f == [e \in S |-> e]
<1>1. IsFiniteSet(S)
  BY FS_Subset
<1>2. f \in [S -> T]
  OBVIOUS
<1>3. \A d, e \in S : f[d] = f[e] => d = e
  OBVIOUS
<1>4. \A e \in S : w[e] = w[f[e]]
  OBVIOUS
<1>5. \A u \in T : w[u] \in Int /\ ((\A e \in S : f[e] # u) => w[u] = 0)
  OBVIOUS
<1> HIDE DEF f
<1> QED
  BY <1>1, <1>2, <1>3, <1>4, <1>5, SumOver, SMT

-----------------------------------------------------------------------------
(* The deposit conserves charge *)

\* A particle touches the cell it is in and the one above.
LEMMA ShapeIs ==
  ASSUME NEW p \in 0..(K - 1), NEW q \in (-K)..K, NEW i \in -1..2
  PROVE  LET c == CellsMoved(p, q)
             w == (p + q) % K IN
         /\ c \in -1..1 /\ w \in 0..(K - 1) /\ p + q = c * K + w
         /\ S0(p, i) = IF i = 0 THEN K - p ELSE IF i = 1 THEN p ELSE 0
         /\ S1(p, q, i) = IF i = c THEN K - w ELSE IF i = c + 1 THEN w ELSE 0
         /\ S0(p, i) = S1(p, 0, i)
         /\ S1(p, q, i) \in Int /\ S0(p, i) \in Int
<1> DEFINE c == CellsMoved(p, q)
           w == (p + q) % K
<1>1. K \in Nat \ {0}
  BY LatticeAssumption
<1>2. c \in Int /\ w \in 0..(K - 1) /\ p + q = c * K + w
  <2> DEFINE n == p + q
  <2>1. n \in Int
    BY <1>1
  <2> HIDE DEF n
  <2>2. n \div K \in Int /\ n % K \in 0..(K - 1) /\ n = (n \div K) * K + (n % K)
    BY <1>1, <2>1, SMT
  <2> QED
    BY <2>2 DEF n, CellsMoved
<1> HIDE DEF c, w
<1>3. c \in -1..1
  <2>1. ASSUME c >= 2 PROVE FALSE
    <3>1. 2 * K <= c * K
      BY <1>1, <1>2, <2>1, ScaleMonotone
    <3> DEFINE z == c * K
    <3>2. z \in Int /\ 2 * K <= z /\ p + q = z + w
      BY <1>1, <1>2, <3>1
    <3> HIDE DEF z
    <3> QED
      BY <1>1, <1>2, <3>2
  <2>2. ASSUME c <= -2 PROVE FALSE
    <3>1. c * K <= (-2) * K
      BY <1>1, <1>2, <2>2, ScaleMonotone
    <3> DEFINE z == c * K
    <3>2. z \in Int /\ z <= (-2) * K /\ p + q = z + w
      BY <1>1, <1>2, <3>1
    <3> HIDE DEF z
    <3> QED
      BY <1>1, <1>2, <3>2
  <2> QED
    BY <1>2, <2>1, <2>2
<1>4. /\ c = -1 => p + q = -K + w
      /\ c = 0 => p + q = w
      /\ c = 1 => p + q = K + w
  BY <1>1, <1>2
<1>5. \A n \in Int : Spline(n) = IF -K < n /\ n < K THEN K - (IF n < 0 THEN -n ELSE n) ELSE 0
  BY <1>1 DEF Spline
<1>6. /\ i * K \in Int /\ i * K - p \in Int /\ i * K - p - q \in Int
      /\ i = -1 => i * K = -K
      /\ i = 0 => i * K = 0
      /\ i = 1 => i * K = K
      /\ i = 2 => i * K = 2 * K
  BY <1>1
<1> DEFINE z == i * K
<1>7. /\ S0(p, i) = Spline(z - p) /\ S1(p, q, i) = Spline(z - p - q)
      /\ S1(p, 0, i) = Spline(z - p - 0)
  BY DEF S0, S1
<1>8. i = -1 \/ i = 0 \/ i = 1 \/ i = 2
  OBVIOUS
<1> HIDE DEF z
<1>9. S0(p, i) = IF i = 0 THEN K - p ELSE IF i = 1 THEN p ELSE 0
  BY <1>1, <1>5, <1>6, <1>7, <1>8 DEF z
<1>10. S1(p, q, i) = IF i = c THEN K - w ELSE IF i = c + 1 THEN w ELSE 0
  <2>1. c = -1 \/ c = 0 \/ c = 1
    BY <1>3
  <2>2. S1(p, q, i) = IF -K < z - p - q /\ z - p - q < K
                      THEN K - (IF z - p - q < 0 THEN -(z - p - q) ELSE z - p - q) ELSE 0
    BY <1>5, <1>6, <1>7 DEF z
  <2>3. z \in Int /\ (i = -1 => z = -K) /\ (i = 0 => z = 0) /\ (i = 1 => z = K)
        /\ (i = 2 => z = 2 * K)
    BY <1>6 DEF z
  <2>4. CASE c = -1
    BY <1>1, <1>2, <1>4, <1>8, <2>2, <2>3, <2>4
  <2>5. CASE c = 0
    BY <1>1, <1>2, <1>4, <1>8, <2>2, <2>3, <2>5
  <2>6. CASE c = 1
    BY <1>1, <1>2, <1>4, <1>8, <2>2, <2>3, <2>6
  <2> QED
    BY <2>1, <2>4, <2>5, <2>6
<1>11. S0(p, i) = S1(p, 0, i)
  <2>1. z - p - 0 = z - p
    BY <1>6 DEF z
  <2> QED
    BY <1>7, <2>1
<1>12. S1(p, q, i) \in Int /\ S0(p, i) \in Int
  BY <1>1, <1>2, <1>3, <1>9, <1>10
<1> QED
  BY <1>2, <1>3, <1>9, <1>10, <1>11, <1>12 DEF c, w

\* The change of the shape in all cells up to the i-th.
Change(p, q, i) == S1(p, q, i) - S0(p, i)
Flow(p, q, i) ==
  (IF -1 <= i THEN Change(p, q, -1) ELSE 0) + (IF 0 <= i THEN Change(p, q, 0) ELSE 0)
    + (IF 1 <= i THEN Change(p, q, 1) ELSE 0) + (IF 2 <= i THEN Change(p, q, 2) ELSE 0)

\* The flow in the cells around, and none where the particle does not get to.
LEMMA FlowFacts ==
  ASSUME NEW p \in 0..(K - 1), NEW q \in (-K)..K, NEW i \in -1..2
  PROVE  /\ Flow(p, q, i) \in Int /\ Change(p, q, i) \in Int
         /\ i # -1 => Flow(p, q, i) = Flow(p, q, i - 1) + Change(p, q, i)
         /\ i = -1 => Flow(p, q, i) = Change(p, q, i)
         /\ i = 2 => Flow(p, q, i) = 0
         /\ i \notin Offsets(p, q) =>
              S0(p, i) = 0 /\ S1(p, q, i) = 0 /\ Flow(p, q, i) = 0
         /\ MapThenSumSet(LAMBDA j : S1(p, q, j) - S0(p, j), {j \in Offsets(p, q) : j <= i})
              = Flow(p, q, i)
<1> DEFINE c == CellsMoved(p, q)
           w == (p + q) % K
           v(j) == Change(p, q, j)
<1>1. K \in Nat \ {0}
  BY LatticeAssumption
<1>2. c \in -1..1 /\ w \in 0..(K - 1) /\ p + q = c * K + w
  BY ShapeIs
<1>3. \A j \in -1..2 :
        /\ S0(p, j) = IF j = 0 THEN K - p ELSE IF j = 1 THEN p ELSE 0
        /\ S1(p, q, j) = IF j = c THEN K - w ELSE IF j = c + 1 THEN w ELSE 0
        /\ S1(p, q, j) \in Int /\ S0(p, j) \in Int
  BY ShapeIs
<1>4. \A j \in -1..2 : v(j) = S1(p, q, j) - S0(p, j)
  BY DEF Change
<1>5. v(-1) \in Int /\ v(0) \in Int /\ v(1) \in Int /\ v(2) \in Int
  BY <1>3, <1>4
<1>6. v(-1) + v(0) + v(1) + v(2) = 0
  <2>1. S0(p, -1) = 0 /\ S0(p, 0) = K - p /\ S0(p, 1) = p /\ S0(p, 2) = 0
    BY <1>3
  <2>2. /\ S1(p, q, -1) = IF -1 = c THEN K - w ELSE IF -1 = c + 1 THEN w ELSE 0
        /\ S1(p, q, 0) = IF 0 = c THEN K - w ELSE IF 0 = c + 1 THEN w ELSE 0
        /\ S1(p, q, 1) = IF 1 = c THEN K - w ELSE IF 1 = c + 1 THEN w ELSE 0
        /\ S1(p, q, 2) = IF 2 = c THEN K - w ELSE IF 2 = c + 1 THEN w ELSE 0
    BY <1>3
  <2>3. /\ v(-1) = S1(p, q, -1) - S0(p, -1) /\ v(0) = S1(p, q, 0) - S0(p, 0)
        /\ v(1) = S1(p, q, 1) - S0(p, 1) /\ v(2) = S1(p, q, 2) - S0(p, 2)
    BY <1>4
  <2> HIDE DEF v, c, w
  <2> QED
    BY <1>1, <1>2, <2>1, <2>2, <2>3
<1>7. i = -1 \/ i = 0 \/ i = 1 \/ i = 2
  OBVIOUS
<1>8. Offsets(p, q) = (IF c = -1 THEN -1 ELSE 0)..(IF c = 1 THEN 2 ELSE 1)
  BY DEF Offsets
<1>9. \A j : Flow(p, q, j) = (IF -1 <= j THEN v(-1) ELSE 0) + (IF 0 <= j THEN v(0) ELSE 0)
                             + (IF 1 <= j THEN v(1) ELSE 0) + (IF 2 <= j THEN v(2) ELSE 0)
  BY DEF Flow
<1>10. \A j \in -1..2 : j \notin Offsets(p, q) => S0(p, j) = 0 /\ S1(p, q, j) = 0 /\ v(j) = 0
  <2> SUFFICES ASSUME NEW j \in -1..2, j \notin Offsets(p, q)
               PROVE  S0(p, j) = 0 /\ S1(p, q, j) = 0 /\ v(j) = 0
    OBVIOUS
  <2>1. \/ j = -1 /\ c # -1
        \/ j = 2 /\ c # 1
    BY <1>2, <1>8
  <2>2. S0(p, j) = 0 /\ S1(p, q, j) = 0
    BY <1>2, <1>3, <2>1
  <2> QED
    BY <1>4, <2>2
<1> HIDE DEF c, w, v
<1>11. /\ Flow(p, q, -2) = 0 /\ Flow(p, q, -1) = v(-1) /\ Flow(p, q, 0) = v(-1) + v(0)
       /\ Flow(p, q, 1) = v(-1) + v(0) + v(1) /\ Flow(p, q, 2) = 0
  BY <1>5, <1>6, <1>9
<1>12. /\ Flow(p, q, i) \in Int /\ v(i) \in Int
       /\ i # -1 => Flow(p, q, i) = Flow(p, q, i - 1) + v(i)
       /\ i = -1 => Flow(p, q, i) = v(i)
       /\ i = 2 => Flow(p, q, i) = 0
  <2>1. i # -1 => \/ i = 0 /\ i - 1 = -1
                  \/ i = 1 /\ i - 1 = 0
                  \/ i = 2 /\ i - 1 = 1
    BY <1>7
  <2> QED
    BY <1>5, <1>6, <1>7, <1>11, <2>1
<1>13. i \notin Offsets(p, q) => S0(p, i) = 0 /\ S1(p, q, i) = 0 /\ Flow(p, q, i) = 0
  <2> SUFFICES ASSUME i \notin Offsets(p, q)
               PROVE  S0(p, i) = 0 /\ S1(p, q, i) = 0 /\ Flow(p, q, i) = 0
    OBVIOUS
  <2>1. \/ i = -1
        \/ i = 2
    BY <1>2, <1>7, <1>8
  <2> QED
    BY <1>10, <1>12, <2>1
<1>14. MapThenSumSet(LAMBDA j : S1(p, q, j) - S0(p, j), {j \in Offsets(p, q) : j <= i})
         = Flow(p, q, i)
  <2> DEFINE S == {j \in Offsets(p, q) : j <= i}
             T == -1..i
             h == [j \in S |-> S1(p, q, j) - S0(p, j)]
             t == [j \in T |-> v(j)]
  <2>1. S \subseteq T /\ T \subseteq -1..2
    BY <1>2, <1>8
  <2>2. IsFiniteSet(T) /\ IsFiniteSet(S)
    <3>1. -1 \in Int /\ i \in Int
      OBVIOUS
    <3>2. IsFiniteSet(T)
      BY <3>1, FS_Interval
    <3> HIDE DEF S, T
    <3> QED
      BY <2>1, <3>2, FS_Subset
  <2>3. \A j \in T : t[j] \in Int /\ (j \notin S => t[j] = 0)
    <3> SUFFICES ASSUME NEW j \in T PROVE t[j] \in Int /\ (j \notin S => t[j] = 0)
      OBVIOUS
    <3>1. j = -1 \/ j = 0 \/ j = 1 \/ j = 2
      BY <2>1
    <3>2. j \notin S => j \notin Offsets(p, q)
      OBVIOUS
    <3>3. j \in -1..2
      BY <2>1
    <3> QED
      BY <1>5, <1>10, <3>1, <3>2, <3>3
  <2>4. \A j \in S : h[j] = t[j]
    <3> SUFFICES ASSUME NEW j \in S PROVE h[j] = t[j]
      OBVIOUS
    <3>1. j \in T /\ j \in -1..2
      BY <2>1
    <3> QED
      BY <1>4, <3>1
  <2>5. MapThenSumSet(LAMBDA j : S1(p, q, j) - S0(p, j), S) = Sum(h, S)
    <3> HIDE DEF S
    <3> QED
      BY <2>2, ChangeSum
  <2> HIDE DEF S, T, h, t
  <2>6. Sum(h, S) = Sum(t, S)
    BY <2>2, <2>4, SumSame
  <2>7. Sum(t, S) = Sum(t, T)
    <3>1. /\ \A e \in T : t[e] \in Int
          /\ \A e \in T \ S : t[e] = 0
      BY <2>3
    <3> QED
      BY <2>1, <2>2, <3>1, SumWithin
  <2>8. Sum(t, T) = Flow(p, q, i)
    <3> DEFINE U(n) == -1..n
    <3>0. U(-2) = {}
      OBVIOUS
    <3>1. \A n \in -1..2 : n \in U(n) /\ U(n) \ {n} = U(n - 1) /\ IsFiniteSet(U(n))
      <4> SUFFICES ASSUME NEW n \in -1..2
                   PROVE  n \in U(n) /\ U(n) \ {n} = U(n - 1) /\ IsFiniteSet(U(n))
        OBVIOUS
      <4>1. n \in U(n) /\ U(n) \ {n} = U(n - 1)
        OBVIOUS
      <4>2. -1 \in Int /\ n \in Int
        OBVIOUS
      <4>3. IsFiniteSet(U(n))
        BY <4>2, FS_Interval
      <4> QED
        BY <4>1, <4>3
    <3>2. \A n \in -1..i : Sum(t, U(n)) = t[n] + Sum(t, U(n - 1))
      <4> SUFFICES ASSUME NEW n \in -1..i PROVE Sum(t, U(n)) = t[n] + Sum(t, U(n - 1))
        OBVIOUS
      <4>1. \A e \in U(n) : t[e] \in Int
        BY <2>3 DEF T
      <4>2. n \in -1..2
        OBVIOUS
      <4>3. n \in U(n) /\ U(n) \ {n} = U(n - 1) /\ IsFiniteSet(U(n))
        BY <3>1, <4>2
      <4> HIDE DEF U
      <4>4. Sum(t, U(n)) = t[n] + Sum(t, U(n) \ {n})
        BY <4>1, <4>3, SumTake
      <4> QED
        BY <4>3, <4>4, Zenon
    <3>3. Sum(t, U(-2)) = 0
      <4>1. IsFiniteSet({})
        BY FS_EmptySet
      <4> QED
        BY <3>0, <4>1, SumFirst, Zenon
    <3>4. \A n \in -1..i : t[n] = v(n)
      BY DEF t, T
    <3>5. T = U(i)
      BY DEF T
    <3> HIDE DEF U
    <3>6. /\ -1 - 1 = -2 /\ 0 - 1 = -1 /\ 1 - 1 = 0 /\ 2 - 1 = 1
      OBVIOUS
    <3>7. Sum(t, U(-1)) = v(-1)
      <4>1. -1 \in -1..i
        OBVIOUS
      <4> QED
        BY <1>5, <3>2, <3>3, <3>4, <3>6, <4>1
    <3>8. i >= 0 => Sum(t, U(0)) = v(-1) + v(0)
      <4>1. i >= 0 => 0 \in -1..i
        OBVIOUS
      <4> QED
        BY <1>5, <3>2, <3>4, <3>6, <3>7, <4>1
    <3>9. i >= 1 => Sum(t, U(1)) = v(-1) + v(0) + v(1)
      <4>1. i >= 1 => 1 \in -1..i /\ i >= 0
        OBVIOUS
      <4> QED
        BY <1>5, <3>2, <3>4, <3>6, <3>8, <4>1
    <3>10. i >= 2 => Sum(t, U(2)) = v(-1) + v(0) + v(1) + v(2)
      <4>1. i >= 2 => 2 \in -1..i /\ i >= 1
        OBVIOUS
      <4> QED
        BY <1>5, <3>2, <3>4, <3>6, <3>9, <4>1
    <3> QED
      BY <1>6, <1>7, <1>11, <3>5, <3>7, <3>8, <3>9, <3>10
  <2> QED
    BY <2>5, <2>6, <2>7, <2>8 DEF S
<1> QED
  BY <1>12, <1>13, <1>14 DEF v

\* The mean along one axis, or two, is what it says whichever is chosen first.
LEMMA MeanIs ==
  ASSUME NEW p \in [Axis -> Int], NEW q \in [Axis -> Int], NEW o \in [Axis -> Int]
  PROVE  LET s0(d) == S0(p[d], o[d])
             s1(d) == S1(p[d], q[d], o[d]) IN
         /\ Mean(p, q, {}, o) = 6
         /\ \A a \in Axis : Mean(p, q, {a}, o) = 3 * (s0(a) + s1(a))
         /\ \A a \in Axis : \A b \in Axis \ {a} :
              Mean(p, q, {a, b}, o)
                = 2 * s1(a) * s1(b) + s0(a) * s1(b) + s1(a) * s0(b) + 2 * s0(a) * s0(b)
<1> DEFINE s0(d) == S0(p[d], o[d])
           s1(d) == S1(p[d], q[d], o[d])
           one(D) == CHOOSE d \in D : TRUE
           two(D) == CHOOSE d \in D \ {one(D)} : TRUE
<1>1. \A d \in Axis : s0(d) \in Int /\ s1(d) \in Int
  BY ShapeType
<1>2. \A D : Mean(p, q, D, o) =
        IF D = {} THEN 6
        ELSE IF D = {one(D)} THEN 3 * (s0(one(D)) + s1(one(D)))
        ELSE 2 * s1(one(D)) * s1(two(D)) + s0(one(D)) * s1(two(D))
               + s1(one(D)) * s0(two(D)) + 2 * s0(one(D)) * s0(two(D))
  BY DEF Mean
<1>3. \A D : D # {} => one(D) \in D
  OBVIOUS
<1>4. \A D : D # {} /\ D # {one(D)} => two(D) \in D \ {one(D)}
  <2> SUFFICES ASSUME NEW D, D # {}, D # {one(D)} PROVE two(D) \in D \ {one(D)}
    OBVIOUS
  <2>1. D \ {one(D)} # {}
    BY <1>3
  <2> QED
    BY <2>1
<1> HIDE DEF s0, s1, one, two
<1>5. Mean(p, q, {}, o) = 6
  BY <1>2
<1>6. ASSUME NEW a \in Axis PROVE Mean(p, q, {a}, o) = 3 * (s0(a) + s1(a))
  <2>1. one({a}) = a
    BY <1>3
  <2> QED
    BY <1>2, <2>1
<1>7. ASSUME NEW a \in Axis, NEW b \in Axis \ {a}
      PROVE  Mean(p, q, {a, b}, o)
               = 2 * s1(a) * s1(b) + s0(a) * s1(b) + s1(a) * s0(b) + 2 * s0(a) * s0(b)
  <2> DEFINE c == one({a, b})
             d == two({a, b})
  <2>1. c \in {a, b} /\ {a, b} # {c}
    BY <1>3
  <2>2. d \in {a, b} \ {c}
    BY <1>4, <2>1
  <2>3. Mean(p, q, {a, b}, o)
          = 2 * s1(c) * s1(d) + s0(c) * s1(d) + s1(c) * s0(d) + 2 * s0(c) * s0(d)
    BY <1>2, <2>1
  <2> HIDE DEF c, d
  <2>4. CASE c = a
    <3>1. d = b
      BY <2>2, <2>4
    <3> QED
      BY <2>3, <2>4, <3>1
  <2>5. CASE c = b
    <3>1. d = a
      BY <2>2, <2>5
    <3> DEFINE i0 == s0(a)  i1 == s1(a)  j0 == s0(b)  j1 == s1(b)
    <3>2. i0 \in Int /\ i1 \in Int /\ j0 \in Int /\ j1 \in Int
      BY <1>1
    <3>3. Mean(p, q, {a, b}, o) = 2 * j1 * i1 + j0 * i1 + j1 * i0 + 2 * j0 * i0
      BY <2>3, <2>5, <3>1
    <3> HIDE DEF i0, i1, j0, j1
    <3>4. Mean(p, q, {a, b}, o) = 2 * i1 * j1 + i0 * j1 + i1 * j0 + 2 * i0 * j0
      BY <3>2, <3>3
    <3> QED
      BY <3>4 DEF i0, i1, j0, j1
  <2> QED
    BY <2>1, <2>4, <2>5
<1> QED
  BY <1>5, <1>6, <1>7 DEF s0, s1

\* The local function of MapThenFoldSet for a product over the axes.
Multiplying(w, h) ==
  h = [s \in SUBSET Axis |->
         IF s = {} THEN 1
         ELSE w[CHOOSE e \in s : TRUE] * h[s \ {CHOOSE e \in s : TRUE}]]
Factor(w, s, d) == IF d \in s THEN w[d] ELSE 1
Product(w, s) == Factor(w, s, 1) * Factor(w, s, 2) * Factor(w, s, 3)

\* The fold over the axes multiplies them.
LEMMA ProductIs ==
  ASSUME NEW w, \A d \in Axis : w[d] \in Int
  PROVE  /\ \E h : Multiplying(w, h)
         /\ \A h : Multiplying(w, h) => h[Axis] = Product(w, Axis)
<1>1. Axis \subseteq {1, 2, 3}
  BY DimAssumption DEF Axis
<1>2. \A s \in SUBSET Axis : \A d \in {1, 2, 3} : Factor(w, s, d) \in Int
  BY DEF Factor
<1>3. ASSUME NEW s \in SUBSET Axis, NEW e \in s
      PROVE  Product(w, s) = w[e] * Product(w, s \ {e})
  <2> DEFINE t == s \ {e}
  <2>1. t \in SUBSET Axis /\ e \in {1, 2, 3} /\ w[e] \in Int
    BY <1>1
  <2>2. /\ Factor(w, s, e) = w[e] /\ Factor(w, t, e) = 1
        /\ \A d \in {1, 2, 3} : d # e => Factor(w, s, d) = Factor(w, t, d)
    BY DEF Factor
  <2>3. \A d \in {1, 2, 3} : Factor(w, t, d) \in Int
    BY <1>2, <2>1
  <2> HIDE DEF t
  <2> DEFINE a == Factor(w, t, 1)  b == Factor(w, t, 2)  c == Factor(w, t, 3)  z == w[e]
  <2>4. a \in Int /\ b \in Int /\ c \in Int /\ z \in Int
    BY <2>1, <2>3
  <2>5. CASE e = 1
    <3>1. Product(w, s) = z * b * c /\ Product(w, t) = 1 * b * c
      BY <2>2, <2>5 DEF Product
    <3> HIDE DEF a, b, c, z
    <3>2. z * b * c = z * (1 * b * c)
      BY <2>4
    <3> QED
      BY <3>1, <3>2 DEF z, t
  <2>6. CASE e = 2
    <3>1. Product(w, s) = a * z * c /\ Product(w, t) = a * 1 * c
      BY <2>2, <2>6 DEF Product
    <3> HIDE DEF a, b, c, z
    <3>2. a * z * c = z * (a * 1 * c)
      BY <2>4
    <3> QED
      BY <3>1, <3>2 DEF z, t
  <2>7. CASE e = 3
    <3>1. Product(w, s) = a * b * z /\ Product(w, t) = a * b * 1
      BY <2>2, <2>7 DEF Product
    <3> HIDE DEF a, b, c, z
    <3>2. a * b * z = z * (a * b * 1)
      BY <2>4
    <3> QED
      BY <3>1, <3>2 DEF z, t
  <2> QED
    BY <2>1, <2>5, <2>6, <2>7
<1>4. Product(w, {}) = 1
  BY DEF Product, Factor
<1>5. \E h : Multiplying(w, h)
  <2> DEFINE h == [s \in SUBSET Axis |-> Product(w, s)]
  <2>1. ASSUME NEW s \in SUBSET Axis
        PROVE  h[s] = IF s = {} THEN 1
                      ELSE w[CHOOSE e \in s : TRUE] * h[s \ {CHOOSE e \in s : TRUE}]
    <3>1. CASE s = {}
      BY <1>4, <3>1
    <3>2. CASE s # {}
      <4> DEFINE e == CHOOSE e \in s : TRUE
      <4>1. e \in s
        BY <3>2
      <4> HIDE DEF e
      <4>2. h[s] = w[e] * h[s \ {e}]
        BY <1>3, <4>1
      <4> QED
        BY <3>2, <4>2 DEF e
    <3> QED
      BY <3>1, <3>2
  <2>2. h = [s \in SUBSET Axis |->
               IF s = {} THEN 1
               ELSE w[CHOOSE e \in s : TRUE] * h[s \ {CHOOSE e \in s : TRUE}]]
    <3>1. h = [s \in SUBSET Axis |-> h[s]]
      OBVIOUS
    <3> HIDE DEF h
    <3> QED
      BY <2>1, <3>1
  <2> HIDE DEF h
  <2>3. Multiplying(w, h)
    BY <2>2 DEF Multiplying
  <2> QED
    BY <2>3
<1>6. ASSUME NEW h, Multiplying(w, h) PROVE h[Axis] = Product(w, Axis)
  <2>1. ASSUME NEW s \in SUBSET Axis,
               \A t \in SUBSET s : t # s => h[t] = Product(w, t)
        PROVE  h[s] = Product(w, s)
    <3>1. h[s] = IF s = {} THEN 1
                 ELSE w[CHOOSE e \in s : TRUE] * h[s \ {CHOOSE e \in s : TRUE}]
      BY <1>6 DEF Multiplying
    <3>2. CASE s = {}
      BY <1>4, <3>1, <3>2
    <3>3. CASE s # {}
      <4> DEFINE e == CHOOSE e \in s : TRUE
      <4>1. e \in s
        BY <3>3
      <4>2. h[s] = w[e] * h[s \ {e}]
        BY <3>1, <3>3
      <4> HIDE DEF e
      <4>3. h[s \ {e}] = Product(w, s \ {e})
        BY <2>1, <4>1
      <4> QED
        BY <1>3, <4>1, <4>2, <4>3
    <3> QED
      BY <3>2, <3>3
  <2>2. h[{}] = Product(w, {})
    BY <2>1
  <2>3. \A a \in Axis : h[{a}] = Product(w, {a})
    <3> SUFFICES ASSUME NEW a \in Axis PROVE h[{a}] = Product(w, {a})
      OBVIOUS
    <3>1. \A t \in SUBSET {a} : t # {a} => t = {}
      OBVIOUS
    <3>2. {a} \in SUBSET Axis /\ \A t \in SUBSET {a} : t # {a} => h[t] = Product(w, t)
      BY <2>2, <3>1
    <3> QED
      BY <2>1, <3>2, Zenon
  <2>4. \A a, b \in Axis : h[{a, b}] = Product(w, {a, b})
    <3> SUFFICES ASSUME NEW a \in Axis, NEW b \in Axis PROVE h[{a, b}] = Product(w, {a, b})
      OBVIOUS
    <3>1. \A t \in SUBSET {a, b} : t # {a, b} => t = {} \/ t = {a} \/ t = {b}
      OBVIOUS
    <3> QED
      BY <2>1, <2>2, <2>3, <3>1
  <2>5. CASE Dim = 1
    <3>1. Axis = {1}
      BY <2>5 DEF Axis
    <3> QED
      BY <2>3, <3>1
  <2>6. CASE Dim = 2
    <3>1. Axis = {1, 2}
      BY <2>6 DEF Axis
    <3> QED
      BY <2>4, <3>1
  <2>7. CASE Dim = 3
    <3>1. Axis = {1, 2, 3}
      BY <2>7 DEF Axis
    <3>2. ASSUME NEW t \in SUBSET Axis, t # Axis PROVE h[t] = Product(w, t)
      <4>1. PICK d \in Axis : d \notin t
        BY <3>2
      <4>2. \/ t \subseteq {1, 2}
            \/ t \subseteq {1, 3}
            \/ t \subseteq {2, 3}
        BY <3>1, <4>1
      <4>3. ASSUME NEW a \in Axis, NEW b \in Axis, t \subseteq {a, b}
            PROVE  h[t] = Product(w, t)
        <5>1. t = {a, b} \/ t = {} \/ t = {a} \/ t = {b}
          BY <4>3
        <5> QED
          BY <2>2, <2>3, <2>4, <5>1
      <4> QED
        BY <3>1, <4>2, <4>3
    <3> QED
      BY <2>1, <3>2
  <2> QED
    BY <2>5, <2>6, <2>7, DimAssumption
<1> QED
  BY <1>5, <1>6

\* The charge of a particle in the cell at an offset from its own.
Shape(p, q, o, d) == IF d \in Axis THEN S1(p[d], q[d], o[d]) ELSE 1
Cloud(p, q, o) == 6 * (Shape(p, q, o, 1) * Shape(p, q, o, 2) * Shape(p, q, o, 3))

\* The deposit of charge as a multiple of the filter's divisor.
LEMMA DepositRhoIs ==
  ASSUME NEW p \in [Axis -> Int], NEW q \in [Axis -> Int], NEW o \in [Axis -> Int]
  PROVE  DepositRho(p, q, o) = FilterScale * Cloud(p, q, o) /\ Cloud(p, q, o) \in Int
<1> DEFINE w == [d \in Axis |-> S1(p[d], q[d], o[d])]
           P(h) == h = [s \in SUBSET Axis |->
                     IF s = {} THEN 1
                     ELSE S1(p[CHOOSE e \in s : TRUE], q[CHOOSE e \in s : TRUE],
                             o[CHOOSE e \in s : TRUE])
                            * h[s \ {CHOOSE e \in s : TRUE}]]
           z == MapThenFoldSet(LAMBDA a, b : a * b, 1, LAMBDA d : S1(p[d], q[d], o[d]),
                               LAMBDA s : CHOOSE d \in s : TRUE, Axis)
<1>1. ASSUME NEW h PROVE P(h) <=> Multiplying(w, h)
  BY ZenonT(60) DEF Multiplying
<1>2. z = (CHOOSE h : P(h))[Axis]
  BY DEF MapThenFoldSet
<1>3. \A d \in Axis : w[d] \in Int
  BY ShapeType
<1>4. \A d \in {1, 2, 3} : Factor(w, Axis, d) = Shape(p, q, o, d)
  BY DEF Factor, Shape
<1>5. DepositRho(p, q, o) = z * 6 * FilterScale
  BY DEF DepositRho
<1> HIDE DEF P, w, z
<1>6. P(CHOOSE h : P(h))
  BY <1>1, <1>3, ProductIs, Zenon
<1>7. Multiplying(w, CHOOSE h : P(h))
  BY <1>1, <1>6
<1>8. z = Product(w, Axis)
  BY <1>2, <1>3, <1>7, ProductIs, Zenon
<1>9. z = Shape(p, q, o, 1) * Shape(p, q, o, 2) * Shape(p, q, o, 3)
  BY <1>4, <1>8 DEF Product
<1>10. \A d \in {1, 2, 3} : Shape(p, q, o, d) \in Int
  <2>1. \A d \in Axis : S1(p[d], q[d], o[d]) \in Int
    BY ShapeType
  <2> QED
    BY <2>1 DEF Shape
<1> DEFINE a == Shape(p, q, o, 1)
           b == Shape(p, q, o, 2)
           c == Shape(p, q, o, 3)
           f == FilterScale
<1>11. a \in Int /\ b \in Int /\ c \in Int /\ f \in Int
  BY <1>10, ScaleType
<1>12. z = a * b * c /\ Cloud(p, q, o) = 6 * (a * b * c) /\ DepositRho(p, q, o) = z * 6 * f
  BY <1>5, <1>9 DEF Cloud
<1> HIDE DEF a, b, c, f
<1>13. z * 6 * f = f * (6 * (a * b * c)) /\ 6 * (a * b * c) \in Int
  BY <1>11, <1>12
<1> QED
  BY <1>12, <1>13 DEF f

\* The axes but one, and the mean over them.
LEMMA OtherAxes ==
  /\ Axis \subseteq 1..3
  /\ Dim = 1 => Axis \ {1} = {}
  /\ Dim = 2 => Axis \ {1} = {2} /\ Axis \ {2} = {1}
  /\ Dim = 3 => Axis \ {1} = {2, 3} /\ Axis \ {2} = {1, 3} /\ Axis \ {3} = {1, 2}
<1>1. Axis \subseteq 1..3
  BY DimAssumption DEF Axis
<1>2. Dim = 1 => Axis \ {1} = {}
  BY DEF Axis
<1>3. Dim = 2 => Axis \ {1} = {2} /\ Axis \ {2} = {1}
  BY DEF Axis
<1>4. Dim = 3 => Axis \ {1} = {2, 3} /\ Axis \ {2} = {1, 3} /\ Axis \ {3} = {1, 2}
  BY DEF Axis
<1> QED
  BY <1>1, <1>2, <1>3, <1>4

\* The mean over the other axes only depends on the offsets along them.
LEMMA MeanOthers ==
  ASSUME NEW p \in [Axis -> Int], NEW q \in [Axis -> Int], NEW o \in [Axis -> Int],
         NEW k \in Axis
  PROVE  /\ \A u \in [Axis -> Int] :
              (\A d \in Axis \ {k} : u[d] = o[d]) =>
                Mean(p, q, Axis \ {k}, u) = Mean(p, q, Axis \ {k}, o)
         /\ \A d \in Axis \ {k} :
              S0(p[d], o[d]) = 0 /\ S1(p[d], q[d], o[d]) = 0 => Mean(p, q, Axis \ {k}, o) = 0
<1>1. \/ Axis \ {k} = {}
      \/ \E a \in Axis \ {k} : Axis \ {k} = {a}
      \/ \E a \in Axis \ {k} : \E b \in Axis \ {k, a} : Axis \ {k} = {a, b}
  <2>1. CASE Dim = 1
    <3>1. Axis = {1}
      BY <2>1 DEF Axis
    <3> QED
      BY <3>1
  <2>2. CASE Dim = 2
    <3>1. Axis = {1, 2}
      BY <2>2 DEF Axis
    <3> QED
      BY <3>1
  <2>3. CASE Dim = 3
    <3>1. Axis = {1, 2, 3}
      BY <2>3 DEF Axis
    <3>2. k = 1 \/ k = 2 \/ k = 3
      BY <3>1
    <3> QED
      BY <3>1, <3>2
  <2> QED
    BY <2>1, <2>2, <2>3, DimAssumption
<1> DEFINE Like(u) == u \in [Axis -> Int] /\ \A d \in Axis \ {k} : u[d] = o[d]
           A == Axis \ {k}
<1>3. ASSUME NEW a \in A, A = {a}
      PROVE  /\ \A u : Like(u) => Mean(p, q, A, u) = Mean(p, q, A, o)
             /\ \A d \in A : S0(p[d], o[d]) = 0 /\ S1(p[d], q[d], o[d]) = 0
                               => Mean(p, q, A, o) = 0
  <2>1. \A u \in [Axis -> Int] : Mean(p, q, {a}, u) = 3 * (S0(p[a], u[a]) + S1(p[a], q[a], u[a]))
    BY MeanIs
  <2>2. ASSUME NEW u, Like(u) PROVE Mean(p, q, {a}, u) = Mean(p, q, {a}, o)
    BY <2>1, <2>2
  <2>3. ASSUME NEW d \in A, S0(p[d], o[d]) = 0, S1(p[d], q[d], o[d]) = 0
        PROVE  Mean(p, q, {a}, o) = 0
    <3>1. d = a
      BY <1>3
    <3>2. S0(p[a], o[a]) = 0 /\ S1(p[a], q[a], o[a]) = 0
      BY <2>3, <3>1
    <3> QED
      BY <2>1, <3>2
  <2> HIDE DEF A
  <2>4. \A u : Like(u) => Mean(p, q, A, u) = Mean(p, q, A, o)
    BY <1>3, <2>2, Zenon
  <2>5. \A d \in A : S0(p[d], o[d]) = 0 /\ S1(p[d], q[d], o[d]) = 0 => Mean(p, q, A, o) = 0
    BY <1>3, <2>3, Zenon
  <2> QED
    BY <2>4, <2>5
<1>4. ASSUME NEW a \in A, NEW b \in Axis \ {k, a}, A = {a, b}
      PROVE  /\ \A u : Like(u) => Mean(p, q, A, u) = Mean(p, q, A, o)
             /\ \A d \in A : S0(p[d], o[d]) = 0 /\ S1(p[d], q[d], o[d]) = 0
                               => Mean(p, q, A, o) = 0
  <2>1. \A u \in [Axis -> Int] :
          Mean(p, q, {a, b}, u)
            = 2 * S1(p[a], q[a], u[a]) * S1(p[b], q[b], u[b])
              + S0(p[a], u[a]) * S1(p[b], q[b], u[b])
              + S1(p[a], q[a], u[a]) * S0(p[b], u[b])
              + 2 * S0(p[a], u[a]) * S0(p[b], u[b])
    BY MeanIs
  <2>2. ASSUME NEW u, Like(u) PROVE Mean(p, q, {a, b}, u) = Mean(p, q, {a, b}, o)
    <3>1. u[a] = o[a] /\ u[b] = o[b]
      BY <2>2
    <3> QED
      BY <2>1, <2>2, <3>1
  <2>3. ASSUME NEW d \in A, S0(p[d], o[d]) = 0, S1(p[d], q[d], o[d]) = 0
        PROVE  Mean(p, q, {a, b}, o) = 0
    <3>1. \A e \in Axis : S0(p[e], o[e]) \in Int /\ S1(p[e], q[e], o[e]) \in Int
      BY ShapeType
    <3> DEFINE i0 == S0(p[a], o[a])  i1 == S1(p[a], q[a], o[a])
               j0 == S0(p[b], o[b])  j1 == S1(p[b], q[b], o[b])
    <3>2. i0 \in Int /\ i1 \in Int /\ j0 \in Int /\ j1 \in Int
      BY <3>1
    <3>3. Mean(p, q, {a, b}, o) = 2 * i1 * j1 + i0 * j1 + i1 * j0 + 2 * i0 * j0
      BY <2>1
    <3>4. \/ i0 = 0 /\ i1 = 0
          \/ j0 = 0 /\ j1 = 0
      BY <1>4, <2>3
    <3> HIDE DEF i0, i1, j0, j1
    <3> QED
      BY <3>2, <3>3, <3>4
  <2> HIDE DEF A
  <2>4. \A u : Like(u) => Mean(p, q, A, u) = Mean(p, q, A, o)
    BY <1>4, <2>2, Zenon
  <2>5. \A d \in A : S0(p[d], o[d]) = 0 /\ S1(p[d], q[d], o[d]) = 0 => Mean(p, q, A, o) = 0
    BY <1>4, <2>3, Zenon
  <2> QED
    BY <2>4, <2>5
<1> HIDE DEF A
<1>5. \/ A = {}
      \/ \E a \in A : A = {a}
      \/ \E a \in A : \E b \in Axis \ {k, a} : A = {a, b}
  BY <1>1 DEF A
<1>6. /\ \A u : Like(u) => Mean(p, q, A, u) = Mean(p, q, A, o)
      /\ \A d \in A : S0(p[d], o[d]) = 0 /\ S1(p[d], q[d], o[d]) = 0 => Mean(p, q, A, o) = 0
  <2>1. CASE A = {}
    <3>1. ASSUME NEW u, Like(u) PROVE Mean(p, q, {}, u) = Mean(p, q, {}, o)
      BY <3>1, MeanIs
    <3> QED
      BY <2>1, <3>1
  <2> QED
    BY <1>3, <1>4, <1>5, <2>1
<1> QED
  BY <1>6 DEF A

\* A position inside a cell, and a move.
Legal(p, q) == p \in [Axis -> 0..(K - 1)] /\ q \in [Axis -> (-K)..K]

\* The types of a legal position and move.
LEMMA LegalTypes ==
  ASSUME NEW p, NEW q, Legal(p, q)
  PROVE  /\ p \in [Axis -> Int] /\ q \in [Axis -> Int] /\ Near \subseteq [Axis -> Int]
         /\ Legal(p, Origin)
         /\ \A d \in Axis : p[d] \in 0..(K - 1) /\ q[d] \in (-K)..K /\ Origin[d] = 0
         /\ \A o \in Near, d \in Axis : o[d] \in -1..2
<1>1. K \in Nat \ {0}
  BY LatticeAssumption
<1>2. 0..(K - 1) \subseteq Int /\ (-K)..K \subseteq Int /\ -1..2 \subseteq Int /\ 0 \in (-K)..K
  BY <1>1
<1>3. p \in [Axis -> 0..(K - 1)] /\ q \in [Axis -> (-K)..K]
  BY DEF Legal
<1>4. Origin \in [Axis -> (-K)..K]
  BY <1>2 DEF Origin
<1> QED
  BY <1>2, <1>3, <1>4 DEF Near, Legal, Origin

\* The current along an axis: what flows through, times the mean across.
LEMMA CurrentIs ==
  ASSUME NEW p, NEW q, Legal(p, q), NEW o \in Near, NEW k \in Axis
  PROVE  /\ DepositJ(p, q, Across, k, o)
              = -(FilterScale * (Flow(p[k], q[k], o[k]) * Mean(p, q, Axis \ {k}, o)))
         /\ Mean(p, q, Axis \ {k}, o) \in Int
         /\ (\E d \in Axis : o[d] \notin Offsets(p[d], q[d])) =>
              DepositJ(p, q, Across, k, o) = 0
<1>1. /\ p \in [Axis -> Int] /\ q \in [Axis -> Int] /\ o \in [Axis -> Int]
      /\ \A d \in Axis : p[d] \in 0..(K - 1) /\ q[d] \in (-K)..K /\ o[d] \in -1..2
  BY LegalTypes
<1> DEFINE f == Flow(p[k], q[k], o[k])
           a == Mean(p, q, Axis \ {k}, o)
           s == FilterScale
<1>2. f \in Int /\ a \in Int /\ s \in Int
  BY <1>1, FlowFacts, MeanType, ScaleType
<1>3. MapThenSumSet(LAMBDA i : S1(p[k], q[k], i) - S0(p[k], i),
                    {i \in Offsets(p[k], q[k]) : i <= o[k]}) = f
  BY <1>1, FlowFacts
<1>4. DepositJ(p, q, Across, k, o) = -f * a * s
  BY <1>3 DEF DepositJ
<1>5. ASSUME NEW d \in Axis, o[d] \notin Offsets(p[d], q[d]) PROVE f = 0 \/ a = 0
  <2>1. S0(p[d], o[d]) = 0 /\ S1(p[d], q[d], o[d]) = 0 /\ Flow(p[d], q[d], o[d]) = 0
    BY <1>1, <1>5, FlowFacts
  <2>2. d # k => a = 0
    BY <1>1, <2>1, MeanOthers
  <2> QED
    BY <2>1, <2>2
<1> HIDE DEF f, a, s
<1>6. -f * a * s = -(s * (f * a)) /\ (f = 0 \/ a = 0 => -f * a * s = 0)
  BY <1>2
<1>7. DepositJ(p, q, Across, k, o) = -(s * (f * a))
  BY <1>4, <1>6
<1>8. (\E d \in Axis : o[d] \notin Offsets(p[d], q[d])) => DepositJ(p, q, Across, k, o) = 0
  BY <1>4, <1>5, <1>6
<1> QED
  BY <1>2, <1>7, <1>8 DEF f, a, s

\* What flows out of a cell along an axis is the current above it less the one
\* below.
Outflow(p, q, k, o) ==
  IF k \notin Axis THEN 0
  ELSE IF o[k] = -1 THEN DepositJ(p, q, Across, k, o)
  ELSE DepositJ(p, q, Across, k, o) - DepositJ(p, q, Across, k, Shift(o, k, -1))

\* So what flows out is the change of the shape, times the mean across.
LEMMA OutflowIs ==
  ASSUME NEW p, NEW q, Legal(p, q), NEW o \in Near, NEW k \in Axis
  PROVE  Outflow(p, q, k, o)
           = -(FilterScale * (Change(p[k], q[k], o[k]) * Mean(p, q, Axis \ {k}, o)))
<1> DEFINE f(i) == Flow(p[k], q[k], i)
           c == Change(p[k], q[k], o[k])
           a == Mean(p, q, Axis \ {k}, o)
           s == FilterScale
           D(u) == DepositJ(p, q, Across, k, u)
           b == Shift(o, k, -1)
<1>1. /\ p \in [Axis -> Int] /\ q \in [Axis -> Int] /\ o \in [Axis -> Int]
      /\ \A d \in Axis : p[d] \in 0..(K - 1) /\ q[d] \in (-K)..K /\ o[d] \in -1..2
      /\ Near \subseteq [Axis -> Int]
  BY LegalTypes
<1>2. D(o) = -(s * (f(o[k]) * a)) /\ a \in Int
  BY CurrentIs
<1>3. /\ f(o[k]) \in Int /\ c \in Int
      /\ o[k] # -1 => f(o[k]) = f(o[k] - 1) + c
      /\ o[k] = -1 => f(o[k]) = c
  BY <1>1, FlowFacts
<1>4. s \in Int
  BY ScaleType
<1>5. CASE o[k] = -1
  <2>1. Outflow(p, q, k, o) = D(o)
    BY <1>5 DEF Outflow
  <2> QED
    BY <1>2, <1>3, <1>5, <2>1
<1>6. CASE o[k] # -1
  <2>1. Outflow(p, q, k, o) = D(o) - D(b)
    BY <1>6 DEF Outflow
  <2>2. o[k] - 1 \in -1..2
    BY <1>1, <1>6
  <2>3. b = [o EXCEPT ![k] = o[k] - 1]
    BY <1>1 DEF Shift
  <2>4. b \in Near /\ b[k] = o[k] - 1 /\ \A d \in Axis \ {k} : b[d] = o[d]
    BY <2>2, <2>3 DEF Near
  <2>5. b \in [Axis -> Int]
    BY <1>1, <2>4
  <2> HIDE DEF b
  <2>6. Mean(p, q, Axis \ {k}, b) = a
    BY <1>1, <2>4, <2>5, MeanOthers
  <2>7. D(b) = -(s * (f(o[k] - 1) * a))
    BY <2>4, <2>6, CurrentIs
  <2>8. f(o[k] - 1) \in Int
    BY <1>1, <2>2, FlowFacts
  <2> DEFINE u == f(o[k])
             v == f(o[k] - 1)
             z == Outflow(p, q, k, o)
  <2>9. /\ z = -(s * (u * a)) - -(s * (v * a)) /\ u = v + c
        /\ u \in Int /\ v \in Int /\ c \in Int /\ a \in Int /\ s \in Int
    BY <1>2, <1>3, <1>4, <1>6, <2>1, <2>7, <2>8
  <2> HIDE DEF u, v, c, a, s, z
  <2>10. z = -(s * (c * a))
    BY <2>9
  <2> QED
    BY <2>10 DEF z, c, a, s
<1> QED
  BY <1>5, <1>6

\* The outflow over all axes is the charge that goes.
LEMMA Continuity ==
  ASSUME NEW p, NEW q, Legal(p, q), NEW o \in Near
  PROVE  /\ \A k \in Comp : Outflow(p, q, k, o) \in Int
         /\ Outflow(p, q, 1, o) + Outflow(p, q, 2, o) + Outflow(p, q, 3, o)
              = DepositRho(p, Origin, o) - DepositRho(p, q, o)
<1> DEFINE s0(d) == S0(p[d], o[d])
           s1(d) == S1(p[d], q[d], o[d])
           c(d) == s1(d) - s0(d)
           a(d) == Mean(p, q, Axis \ {d}, o)
           s == FilterScale
           u(d) == Shape(p, Origin, o, d)
           v(d) == Shape(p, q, o, d)
           z(d) == Outflow(p, q, d, o)
           r0 == DepositRho(p, Origin, o)
           r1 == DepositRho(p, q, o)
<1>1. /\ p \in [Axis -> Int] /\ q \in [Axis -> Int] /\ o \in [Axis -> Int]
      /\ Origin \in [Axis -> Int]
      /\ \A d \in Axis : p[d] \in 0..(K - 1) /\ q[d] \in (-K)..K /\ o[d] \in -1..2
                         /\ Origin[d] = 0
  BY LegalTypes DEF Legal
<1>2. \A d \in Axis : s0(d) \in Int /\ s1(d) \in Int /\ s0(d) = S1(p[d], 0, o[d])
  BY <1>1, ShapeIs
<1>3. \A d \in Axis : a(d) \in Int /\ z(d) = -(s * (c(d) * a(d)))
  <2> SUFFICES ASSUME NEW d \in Axis PROVE a(d) \in Int /\ z(d) = -(s * (c(d) * a(d)))
    OBVIOUS
  <2>1. c(d) = Change(p[d], q[d], o[d])
    BY DEF Change
  <2>2. a(d) \in Int
    BY CurrentIs
  <2> HIDE DEF c, s, a
  <2> QED
    BY <2>1, <2>2, OutflowIs DEF s, a
<1>4. \A d : d \notin Axis => z(d) = 0 /\ u(d) = 1 /\ v(d) = 1
  BY DEF Outflow, Shape
<1>5. \A d \in Axis : u(d) = s0(d) /\ v(d) = s1(d)
  BY <1>1, <1>2 DEF Shape
<1>6. r0 = s * (6 * (u(1) * u(2) * u(3))) /\ r1 = s * (6 * (v(1) * v(2) * v(3)))
  <2>1. r0 = s * Cloud(p, Origin, o)
    BY <1>1, DepositRhoIs
  <2>2. r1 = s * Cloud(p, q, o)
    BY <1>1, DepositRhoIs
  <2> QED
    BY <2>1, <2>2 DEF Cloud
<1>7. s \in Int
  BY ScaleType
<1>8. CASE Dim = 1
  <2>1. Axis = {1} /\ Axis \ {1} = {}
    BY <1>8 DEF Axis
  <2>2. a(1) = 6
    <3>1. Mean(p, q, {}, o) = 6
      BY <1>1, MeanIs
    <3> QED
      BY <2>1, <3>1, Zenon
  <2>3. /\ s0(1) \in Int /\ s1(1) \in Int
        /\ z(1) = -(s * ((s1(1) - s0(1)) * 6)) /\ z(2) = 0 /\ z(3) = 0
        /\ r0 = s * (6 * (s0(1) * 1 * 1)) /\ r1 = s * (6 * (s1(1) * 1 * 1))
    BY <1>2, <1>3, <1>4, <1>5, <1>6, <2>1, <2>2
  <2> HIDE DEF s0, s1, a, s, z, r0, r1
  <2>4. z(1) + z(2) + z(3) = r0 - r1 /\ z(1) \in Int /\ z(2) \in Int /\ z(3) \in Int
    BY <1>7, <2>3
  <2> QED
    BY <2>4 DEF z, r0, r1, Comp
<1>9. CASE Dim = 2
  <2>1. Axis = {1, 2} /\ Axis \ {1} = {2} /\ Axis \ {2} = {1}
    BY <1>9 DEF Axis
  <2>2. a(1) = 3 * (s0(2) + s1(2)) /\ a(2) = 3 * (s0(1) + s1(1))
    <3>1. \A d \in Axis : Mean(p, q, {d}, o) = 3 * (s0(d) + s1(d))
      BY <1>1, MeanIs, ZenonT(60)
    <3> HIDE DEF s0, s1
    <3>2. 1 \in Axis /\ 2 \in Axis
      BY <2>1
    <3> QED
      BY <2>1, <3>1, <3>2, Zenon
  <2>3. /\ s0(1) \in Int /\ s1(1) \in Int /\ s0(2) \in Int /\ s1(2) \in Int
        /\ z(1) = -(s * ((s1(1) - s0(1)) * (3 * (s0(2) + s1(2)))))
        /\ z(2) = -(s * ((s1(2) - s0(2)) * (3 * (s0(1) + s1(1))))) /\ z(3) = 0
        /\ r0 = s * (6 * (s0(1) * s0(2) * 1)) /\ r1 = s * (6 * (s1(1) * s1(2) * 1))
    BY <1>2, <1>3, <1>4, <1>5, <1>6, <2>1, <2>2
  <2> HIDE DEF s0, s1, a, s, z, r0, r1
  <2>4. z(1) + z(2) + z(3) = r0 - r1 /\ z(1) \in Int /\ z(2) \in Int /\ z(3) \in Int
    BY <1>7, <2>3
  <2> QED
    BY <2>4 DEF z, r0, r1, Comp
<1>10. CASE Dim = 3
  <2>1. Axis = {1, 2, 3} /\ Axis \ {1} = {2, 3} /\ Axis \ {2} = {1, 3} /\ Axis \ {3} = {1, 2}
    BY <1>10 DEF Axis
  <2> DEFINE w(d, e) == 2 * s1(d) * s1(e) + s0(d) * s1(e) + s1(d) * s0(e) + 2 * s0(d) * s0(e)
  <2>2. a(1) = w(2, 3) /\ a(2) = w(1, 3) /\ a(3) = w(1, 2)
    <3>1. \A d \in Axis : \A e \in Axis \ {d} : Mean(p, q, {d, e}, o) = w(d, e)
      <4> SUFFICES ASSUME NEW d \in Axis, NEW e \in Axis \ {d}
                   PROVE  Mean(p, q, {d, e}, o) = w(d, e)
        OBVIOUS
      <4> QED
        BY <1>1, MeanIs
    <3> HIDE DEF w
    <3>2. 1 \in Axis /\ 2 \in Axis \ {1} /\ 2 \in Axis /\ 3 \in Axis \ {2} /\ 3 \in Axis \ {1}
      BY <2>1
    <3> QED
      BY <2>1, <3>1, <3>2, Zenon
  <2>3. /\ s0(1) \in Int /\ s1(1) \in Int /\ s0(2) \in Int /\ s1(2) \in Int
        /\ s0(3) \in Int /\ s1(3) \in Int
        /\ z(1) = -(s * ((s1(1) - s0(1)) * w(2, 3)))
        /\ z(2) = -(s * ((s1(2) - s0(2)) * w(1, 3)))
        /\ z(3) = -(s * ((s1(3) - s0(3)) * w(1, 2)))
        /\ r0 = s * (6 * (s0(1) * s0(2) * s0(3))) /\ r1 = s * (6 * (s1(1) * s1(2) * s1(3)))
    <3> HIDE DEF w
    <3> QED
      BY <1>2, <1>3, <1>4, <1>5, <1>6, <2>1, <2>2
  <2> HIDE DEF s0, s1, a, s, z, r0, r1
  <2>4. z(1) + z(2) + z(3) = r0 - r1 /\ z(1) \in Int /\ z(2) \in Int /\ z(3) \in Int
    BY <1>7, <2>3
  <2> QED
    BY <2>4 DEF z, r0, r1, Comp
<1> QED
  BY <1>8, <1>9, <1>10, DimAssumption

-----------------------------------------------------------------------------
(* Charge and current on the lattice *)

\* The charge density of a particle after a move, and before it.
ChargeAfter(p, q) ==
  [g \in Domain |-> IF p = Gone THEN 0
                    ELSE Sum([o \in Near |-> DepositRho(M!Within(p), q, o)], Landing(p, q, g))]
Charge(p) == ChargeAfter(p, Origin)

\* Its current.
Current(p, q, k) ==
  [g \in Domain |-> IF p = Gone THEN 0
                    ELSE Sum([o \in Near |-> DepositJ(M!Within(p), q, Across, k, o)],
                             Landing(p, q, g))]

\* What leaves a position along an axis, and altogether.
Drop(f, g, k) == IF k \in Axis THEN f[g] - f[Wrap(Shift(g, k, -1))] ELSE 0
Net(F, g) == Drop(F[1], g, 1) + Drop(F[2], g, 2) + Drop(F[3], g, 3)

\* A distance of i cells from every open end.
Deep(i, g) == \A d \in Axis : Periodic[d] \/ (i <= g[d] /\ g[d] < Dims[d] * N - i)

\* All offsets that lead to a position.
Spot(p, g) == {o \in Near : Wrap(Add(M!CellOf(p), o)) = g}

\* A particle inside the domain is at a legal position of its cell.
LEMMA InsideLegal ==
  ASSUME NEW p, Inside(p), NEW q \in Moves
  PROVE  Legal(M!Within(p), q) /\ Legal(M!Within(p), Origin) /\ M!CellOf(p) \in Domain
<1>1. /\ M!CellOf(p) \in Domain
      /\ \A d \in Axis : M!Within(p)[d] \in 0..(K - 1)
  BY CellOfFacts DEF Inside
<1>2. M!Within(p) = [d \in Axis |-> M!Within(p)[d]]
  BY SameSpace DEF M!Within
<1>3. M!Within(p) \in [Axis -> 0..(K - 1)]
  BY <1>1, <1>2
<1>4. q \in [Axis -> (-K)..K]
  BY ParticleAssumption
<1>5. Legal(M!Within(p), q)
  BY <1>3, <1>4 DEF Legal
<1> QED
  BY <1>1, <1>5, LegalTypes

\* Deposits vanish at offsets that are not visited.
LEMMA Unvisited ==
  ASSUME NEW p, NEW q, Legal(M!Within(p), q), NEW o \in Near, o \notin M!OffsetSet(p, q)
  PROVE  /\ \A k \in Axis : DepositJ(M!Within(p), q, Across, k, o) = 0
         /\ DepositRho(M!Within(p), q, o) = 0
<1> DEFINE u == M!Within(p)
<1>1. PICK d \in Axis : o[d] \notin Offsets(u[d], q[d])
  <2>1. \A a, b : M!Offsets(a, b) = Offsets(a, b)
    BY DEF M!Offsets, Offsets, M!CellsMoved, CellsMoved
  <2> QED
    BY <2>1, SameSpace DEF M!OffsetSet, Near
<1>2. /\ u \in [Axis -> Int] /\ q \in [Axis -> Int] /\ o \in [Axis -> Int]
      /\ \A e \in Axis : u[e] \in 0..(K - 1) /\ q[e] \in (-K)..K /\ o[e] \in -1..2
  BY LegalTypes
<1>3. S1(u[d], q[d], o[d]) = 0
  BY <1>1, <1>2, FlowFacts
<1>4. DepositRho(u, q, o) = 0
  <2> DEFINE a == Shape(u, q, o, 1)
             b == Shape(u, q, o, 2)
             c == Shape(u, q, o, 3)
             s == FilterScale
  <2>1. DepositRho(u, q, o) = s * (6 * (a * b * c))
    BY <1>2, DepositRhoIs DEF Cloud
  <2>2. \A e \in Axis : S1(u[e], q[e], o[e]) \in Int
    BY <1>2, ShapeType
  <2>3. a \in Int /\ b \in Int /\ c \in Int /\ s \in Int
    BY <2>2, ScaleType DEF Shape
  <2>4. a = 0 \/ b = 0 \/ c = 0
    <3>1. Shape(u, q, o, d) = 0
      BY <1>3 DEF Shape
    <3>2. d = 1 \/ d = 2 \/ d = 3
      BY OtherAxes
    <3> QED
      BY <3>1, <3>2
  <2> HIDE DEF a, b, c, s
  <2> QED
    BY <2>1, <2>3, <2>4
<1>5. \A k \in Axis : DepositJ(u, q, Across, k, o) = 0
  BY <1>1, CurrentIs
<1> QED
  BY <1>4, <1>5

\* So all offsets can be added up.
LEMMA AllOffsets ==
  ASSUME NEW p, NEW q, Legal(M!Within(p), q), NEW g
  PROVE  /\ IsFiniteSet(Spot(p, g)) /\ Spot(p, g) \subseteq Near
         /\ \A k \in Axis :
              LET w == [o \in Near |-> DepositJ(M!Within(p), q, Across, k, o)] IN
              Sum(w, Landing(p, q, g)) = Sum(w, Spot(p, g)) /\ \A o \in Near : w[o] \in Int
         /\ LET w == [o \in Near |-> DepositRho(M!Within(p), q, o)] IN
            Sum(w, Landing(p, q, g)) = Sum(w, Spot(p, g)) /\ \A o \in Near : w[o] \in Int
<1> DEFINE u == M!Within(p)
           S == Landing(p, q, g)
           T == Spot(p, g)
<1>1. IsFiniteSet(T) /\ T \subseteq Near
  BY LandingFinite, FS_Subset DEF Spot
<1>2. S \subseteq T /\ \A o \in T \ S : o \in Near /\ o \notin M!OffsetSet(p, q)
  BY LandingFinite DEF Landing, Spot
<1>3. ASSUME NEW w, \A o \in Near : w[o] \in Int,
             \A o \in Near : o \notin M!OffsetSet(p, q) => w[o] = 0
      PROVE  Sum(w, S) = Sum(w, T)
  <2> HIDE DEF S, T
  <2>1. S \in SUBSET T /\ (\A e \in T : w[e] \in Int) /\ (\A e \in T \ S : w[e] = 0)
    BY <1>1, <1>2, <1>3
  <2> QED
    BY <1>1, <2>1, SumWithin
<1>4. /\ u \in [Axis -> Int] /\ q \in [Axis -> Int] /\ Near \subseteq [Axis -> Int]
      /\ \A o \in Near, d \in Axis : o[d] \in -1..2
  BY LegalTypes
<1>5. ASSUME NEW k \in Axis
      PROVE  LET w == [o \in Near |-> DepositJ(u, q, Across, k, o)] IN
             Sum(w, S) = Sum(w, T) /\ \A o \in Near : w[o] \in Int
  <2> DEFINE w == [o \in Near |-> DepositJ(u, q, Across, k, o)]
  <2>0. k \in Comp
    BY OtherAxes DEF Comp
  <2>1. \A o \in Near : w[o] \in Int
    BY <1>4, <2>0, DepositJType
  <2>2. \A o \in Near : o \notin M!OffsetSet(p, q) => w[o] = 0
    BY Unvisited
  <2> HIDE DEF w, S, T
  <2>3. Sum(w, S) = Sum(w, T)
    BY <1>3, <2>1, <2>2
  <2> QED
    BY <2>1, <2>3 DEF w
<1>6. LET w == [o \in Near |-> DepositRho(u, q, o)] IN
      Sum(w, S) = Sum(w, T) /\ \A o \in Near : w[o] \in Int
  <2> DEFINE w == [o \in Near |-> DepositRho(u, q, o)]
  <2>1. \A o \in Near : w[o] \in Int
    <3> SUFFICES ASSUME NEW o \in Near PROVE DepositRho(u, q, o) \in Int
      OBVIOUS
    <3>1. DepositRho(u, q, o) = FilterScale * Cloud(u, q, o) /\ Cloud(u, q, o) \in Int
      BY <1>4, DepositRhoIs
    <3> QED
      BY <3>1, ScaleType
  <2>2. \A o \in Near : o \notin M!OffsetSet(p, q) => w[o] = 0
    BY Unvisited
  <2> HIDE DEF w, S, T
  <2>3. Sum(w, S) = Sum(w, T)
    BY <1>3, <2>1, <2>2
  <2> QED
    BY <2>1, <2>3 DEF w
<1> QED
  BY <1>1, <1>5, <1>6

\* A position of the domain along each axis.
LEMMA PositionCoord ==
  ASSUME NEW g \in Domain
  PROVE  /\ g = [d \in Axis |-> g[d]]
         /\ \A d \in Axis : g[d] \in 0..(Dims[d] * N - 1)
<1>1. g \in [Axis -> UNION {0..(Dims[e] * N - 1) : e \in Axis}]
  BY DEF Domain
<1>2. ASSUME NEW d \in Axis PROVE g[d] \in 0..(Dims[d] * N - 1)
  <2>1. PICK e \in Axis : g[d] \in 0..(Dims[e] * N - 1)
    BY <1>1
  <2>2. Dims[e] * N \in Nat /\ Dims[d] * N \in Nat /\ g[d] < Dims[d] * N
    BY Extent DEF Domain
  <2> QED
    BY <2>1, <2>2
<1> QED
  BY <1>1, <1>2

\* Wrapping along one axis.
Wrapped(d, i) ==
  IF ~Periodic[d] THEN i
  ELSE IF i < 0 THEN i + Dims[d] * N
  ELSE IF i >= Dims[d] * N THEN i - Dims[d] * N
  ELSE i

\* Wrapping is done axis by axis.
LEMMA WrapAlong ==
  ASSUME NEW f
  PROVE  /\ Wrap(f) = [d \in Axis |-> Wrapped(d, f[d])]
         /\ \A d \in Axis : Wrap(f)[d] = Wrapped(d, f[d])
BY DEF Wrap, Wrapped

LEMMA WrappedFacts ==
  ASSUME NEW d \in Axis, NEW i \in 0..(Dims[d] * N - 1)
  PROVE  /\ Wrapped(d, i) = i
         /\ \A j \in -2..2 : /\ Wrapped(d, i + j) \in Int
                             /\ Periodic[d] => Wrapped(d, i + j) \in 0..(Dims[d] * N - 1)
                             /\ ~Periodic[d] => Wrapped(d, i + j) = i + j
         /\ \A g \in 0..(Dims[d] * N - 1), j \in -1..1 :
              Periodic[d] \/ g # 0 =>
                (Wrapped(d, i + j) = Wrapped(d, g - 1) <=> Wrapped(d, i + (j + 1)) = g)
         /\ \A j \in -1..1 : Wrapped(d, Wrapped(d, i + j) - 1) = Wrapped(d, Wrapped(d, i - 1) + j)
<1> DEFINE n == Dims[d] * N
<1>1. n \in Nat /\ n >= 2
  BY Extent, DepositAssumption
<1>2. \A j : Wrapped(d, j) = IF ~Periodic[d] THEN j ELSE IF j < 0 THEN j + n
                             ELSE IF j >= n THEN j - n ELSE j
  BY DEF Wrapped
<1>3. i \in 0..(n - 1)
  OBVIOUS
<1> HIDE DEF n
<1>4. CASE ~Periodic[d]
  <2>1. \A j : Wrapped(d, j) = j
    BY <1>2, <1>4
  <2>2. \A g \in 0..(n - 1), j \in -1..1 : i + j = g - 1 <=> i + (j + 1) = g
    BY <1>1, <1>3
  <2>3. \A j \in -2..2 : i + j \in Int
    BY <1>1, <1>3
  <2>4. \A j \in -1..1 : (i + j) - 1 = (i - 1) + j
    BY <1>1, <1>3
  <2> QED
    BY <1>4, <2>1, <2>2, <2>3, <2>4 DEF n
<1>5. CASE Periodic[d]
  <2>1. \A j : Wrapped(d, j) = IF j < 0 THEN j + n ELSE IF j >= n THEN j - n ELSE j
    BY <1>2, <1>5
  <2>2. Wrapped(d, i) = i
    BY <1>1, <1>3, <2>1
  <2>3. \A j \in -2..2 : Wrapped(d, i + j) \in 0..(n - 1)
    BY <1>1, <1>3, <2>1
  <2>4. \A g \in 0..(n - 1), j \in -1..1 :
          Wrapped(d, i + j) = Wrapped(d, g - 1) <=> Wrapped(d, i + (j + 1)) = g
    BY <1>1, <1>3, <2>1
  <2>5. \A j \in -1..1 : Wrapped(d, Wrapped(d, i + j) - 1) = Wrapped(d, Wrapped(d, i - 1) + j)
    BY <1>1, <1>3, <2>1
  <2>6. 0..(n - 1) \subseteq Int
    OBVIOUS
  <2> QED
    BY <1>5, <2>2, <2>3, <2>4, <2>5, <2>6 DEF n
<1> QED
  BY <1>4, <1>5

\* One cell up, and one down.
LEMMA UpDown ==
  ASSUME NEW a \in Domain, NEW g \in Domain, NEW o \in Near, NEW k \in Axis, o[k] # 2,
         Periodic[k] \/ g[k] # 0
  PROVE  /\ Wrap(Add(a, o)) = Wrap(Shift(g, k, -1)) <=> Wrap(Add(a, Shift(o, k, 1))) = g
         /\ Shift(o, k, 1) \in Near /\ Shift(o, k, 1)[k] # -1
         /\ Shift(Shift(o, k, 1), k, -1) = o
<1> DEFINE u == Shift(o, k, 1)
           h == Shift(g, k, -1)
<1>1. /\ \A d \in Axis : o[d] \in -1..2
      /\ \A d \in Axis : a[d] \in 0..(Dims[d] * N - 1) /\ g[d] \in 0..(Dims[d] * N - 1)
      /\ g = [d \in Axis |-> g[d]] /\ o = [d \in Axis |-> o[d]]
  <2>1. /\ \A d \in Axis : a[d] \in 0..(Dims[d] * N - 1) /\ g[d] \in 0..(Dims[d] * N - 1)
        /\ g = [d \in Axis |-> g[d]]
    BY PositionCoord
  <2> QED
    BY <2>1 DEF Near
<1>2. /\ u = [d \in Axis |-> IF d = k THEN o[d] + 1 ELSE o[d]]
      /\ h = [d \in Axis |-> IF d = k THEN g[d] - 1 ELSE g[d]]
  BY <1>1 DEF Shift
<1>3. u \in Near /\ u[k] # -1
  <2>1. \A d \in Axis : u[d] \in -1..2
    BY <1>1, <1>2
  <2> QED
    BY <1>1, <1>2, <2>1 DEF Near
<1>4. Shift(u, k, -1) = o
  <2>1. Shift(u, k, -1) = [d \in Axis |-> IF d = k THEN u[d] + (-1) ELSE u[d]]
    BY <1>2 DEF Shift
  <2>2. \A d \in Axis : (IF d = k THEN u[d] + (-1) ELSE u[d]) = o[d]
    BY <1>1, <1>2
  <2> QED
    BY <1>1, <2>1, <2>2
<1>5. ASSUME NEW d \in Axis
      PROVE  Wrapped(d, a[d] + o[d]) = Wrapped(d, h[d]) <=> Wrapped(d, a[d] + u[d]) = g[d]
  <2>1. CASE d # k
    <3>1. u[d] = o[d] /\ h[d] = g[d]
      BY <1>2, <2>1
    <3>2. Wrapped(d, g[d]) = g[d]
      BY <1>1, WrappedFacts
    <3> QED
      BY <3>1, <3>2
  <2>2. CASE d = k
    <3>1. o[d] \in -1..1 /\ (Periodic[d] \/ g[d] # 0)
      BY <1>1, <2>2
    <3>2. Wrapped(d, a[d] + o[d]) = Wrapped(d, g[d] - 1)
            <=> Wrapped(d, a[d] + (o[d] + 1)) = g[d]
      BY <1>1, <3>1, WrappedFacts
    <3>3. u[d] = o[d] + 1 /\ h[d] = g[d] - 1
      BY <1>2, <2>2
    <3> QED
      BY <3>2, <3>3
  <2> QED
    BY <2>1, <2>2
<1>6. /\ Wrap(Add(a, o)) = [d \in Axis |-> Wrapped(d, a[d] + o[d])]
      /\ Wrap(Add(a, u)) = [d \in Axis |-> Wrapped(d, a[d] + u[d])]
      /\ Wrap(h) = [d \in Axis |-> Wrapped(d, h[d])]
  BY DEF Wrap, Add, Wrapped
<1> HIDE DEF u, h
<1>7. Wrap(Add(a, o)) = Wrap(h)
        <=> \A d \in Axis : Wrapped(d, a[d] + o[d]) = Wrapped(d, h[d])
  BY <1>6
<1>8. Wrap(Add(a, u)) = g <=> \A d \in Axis : Wrapped(d, a[d] + u[d]) = g[d]
  BY <1>1, <1>6
<1> QED
  BY <1>3, <1>4, <1>5, <1>7, <1>8 DEF u, h

\* What is deposited at the position below, counted by the offsets of the
\* position itself.
LEMMA SumBelow ==
  ASSUME NEW p, M!CellOf(p) \in Domain, NEW g \in Domain, NEW k \in Axis,
         Periodic[k] \/ g[k] # 0, NEW w, \A o \in Near : w[o] \in Int,
         \A o \in Near : o[k] = 2 => w[o] = 0
  PROVE  LET v == [o \in Near |-> IF o[k] = -1 THEN 0 ELSE w[Shift(o, k, -1)]] IN
         /\ Sum(w, Spot(p, Wrap(Shift(g, k, -1)))) = Sum(v, Spot(p, g))
         /\ \A o \in Near : v[o] \in Int
<1> DEFINE a == M!CellOf(p)
           U == Spot(p, Wrap(Shift(g, k, -1)))
           S == {o \in U : o[k] # 2}
           T == Spot(p, g)
           f == [o \in S |-> Shift(o, k, 1)]
           v == [o \in Near |-> IF o[k] = -1 THEN 0 ELSE w[Shift(o, k, -1)]]
<1>1. ASSUME NEW o \in Near, o[k] # -1
      PROVE  /\ Shift(o, k, -1) \in Near /\ Shift(o, k, -1)[k] # 2
             /\ Shift(Shift(o, k, -1), k, 1) = o
  <2> DEFINE u == Shift(o, k, -1)
  <2>1. o = [d \in Axis |-> o[d]] /\ \A d \in Axis : o[d] \in -1..2
    BY DEF Near
  <2>2. u = [d \in Axis |-> IF d = k THEN o[d] + (-1) ELSE o[d]]
    BY <2>1 DEF Shift
  <2>3. \A d \in Axis : u[d] \in -1..2
    BY <1>1, <2>1, <2>2
  <2>4. u \in Near /\ u[k] # 2
    BY <2>1, <2>2, <2>3 DEF Near
  <2>5. Shift(u, k, 1) = [d \in Axis |-> IF d = k THEN u[d] + 1 ELSE u[d]]
    BY <2>2 DEF Shift
  <2>6. \A d \in Axis : (IF d = k THEN u[d] + 1 ELSE u[d]) = o[d]
    BY <2>1, <2>2
  <2>7. Shift(u, k, 1) = o
    BY <2>1, <2>5, <2>6
  <2> QED
    BY <2>4, <2>7
<1>2. /\ U \subseteq Near /\ IsFiniteSet(U) /\ T \subseteq Near /\ IsFiniteSet(T)
      /\ \A o : o \in U <=> o \in Near /\ Wrap(Add(a, o)) = Wrap(Shift(g, k, -1))
      /\ \A o : o \in T <=> o \in Near /\ Wrap(Add(a, o)) = g
  BY LandingFinite, FS_Subset DEF Spot
<1>3. S \in SUBSET U /\ IsFiniteSet(S)
  BY <1>2, FS_Subset
<1>4. \A o \in Near : v[o] \in Int
  BY <1>1
<1>5. Sum(w, S) = Sum(w, U)
  <2>1. (\A e \in U : w[e] \in Int) /\ (\A e \in U \ S : w[e] = 0)
    BY <1>2
  <2> HIDE DEF S, U
  <2> QED
    BY <1>2, <1>3, <2>1, SumWithin
<1>6. ASSUME NEW o \in S
      PROVE  /\ f[o] \in T /\ f[o] = Shift(o, k, 1) /\ w[o] = v[f[o]]
             /\ Shift(Shift(o, k, 1), k, -1) = o
  <2>1. o \in Near /\ o[k] # 2 /\ Wrap(Add(a, o)) = Wrap(Shift(g, k, -1))
    BY <1>2
  <2>2. /\ Wrap(Add(a, Shift(o, k, 1))) = g
        /\ Shift(o, k, 1) \in Near /\ Shift(o, k, 1)[k] # -1
        /\ Shift(Shift(o, k, 1), k, -1) = o
    BY <2>1, UpDown
  <2>3. v[Shift(o, k, 1)] = w[o]
    BY <2>2
  <2> QED
    BY <1>2, <2>2, <2>3
<1>7. f \in [S -> T] /\ \A d, e \in S : f[d] = f[e] => d = e
  <2>1. f \in [S -> T]
    <3>1. \A o \in S : Shift(o, k, 1) \in T
      BY <1>6
    <3> HIDE DEF S, T
    <3> QED
      BY <3>1
  <2> HIDE DEF f, S, T
  <2>2. ASSUME NEW d \in S, NEW e \in S, f[d] = f[e] PROVE d = e
    <3>1. Shift(f[d], k, -1) = d /\ Shift(f[e], k, -1) = e
      BY <1>6
    <3> QED
      BY <2>2, <3>1
  <2> QED
    BY <2>1, <2>2
<1>8. ASSUME NEW o \in T PROVE v[o] \in Int /\ ((\A e \in S : f[e] # o) => v[o] = 0)
  <2>1. o \in Near /\ Wrap(Add(a, o)) = g
    BY <1>2
  <2>2. CASE o[k] = -1
    BY <2>1, <2>2
  <2>3. CASE o[k] # -1
    <3> DEFINE e == Shift(o, k, -1)
    <3>1. e \in Near /\ e[k] # 2 /\ Shift(e, k, 1) = o
      BY <1>1, <2>1, <2>3
    <3> HIDE DEF e
    <3>2. Wrap(Add(a, e)) = Wrap(Shift(g, k, -1))
      BY <2>1, <3>1, UpDown
    <3>3. e \in S
      BY <1>2, <3>1, <3>2
    <3>4. f[e] = o
      BY <1>6, <3>1, <3>3
    <3> QED
      BY <1>4, <2>1, <3>3, <3>4
  <2> QED
    BY <2>2, <2>3
<1>9. Sum(w, S) = Sum(v, T)
  <2>1. \A e \in S : w[e] = v[f[e]]
    BY <1>6
  <2>2. \A u \in T : v[u] \in Int /\ ((\A e \in S : f[e] # u) => v[u] = 0)
    BY <1>8
  <2> HIDE DEF f, v, S, T, U
  <2> QED
    BY <1>2, <1>3, <1>7, <2>1, <2>2, SumOver, SMTT(20)
<1> HIDE DEF S, U, T, v
<1>10. Sum(w, U) = Sum(v, T)
  BY <1>5, <1>9
<1> QED
  BY <1>4, <1>10 DEF U, T, v

\* A particle inside the domain has not left it.
LEMMA NotGone ==
  ASSUME NEW p, Inside(p)
  PROVE  p # Gone
<1>1. 1 \in Axis
  BY DimAssumption DEF Axis
<1>2. p[1] \in Nat /\ M!Gone[1] = -1
  BY <1>1, SameSpace DEF Inside, M!Gone
<1> QED
  BY <1>2 DEF Gone

\* The deposit conserves charge on the lattice.
LEMMA ChargeKept ==
  ASSUME NEW p, Inside(p), NEW q \in Moves, NEW g \in Domain,
         \A k \in Axis : Periodic[k] \/ g[k] # 0
  PROVE  /\ Net([k \in Comp |-> Current(p, q, k)], g) = Charge(p)[g] - ChargeAfter(p, q)[g]
         /\ Charge(p)[g] \in Int /\ ChargeAfter(p, q)[g] \in Int
<1> DEFINE u == M!Within(p)
           T == Spot(p, g)
           z(k) == [o \in Near |-> Outflow(u, q, k, o)]
           r0 == [o \in Near |-> DepositRho(u, Origin, o)]
           r1 == [o \in Near |-> DepositRho(u, q, o)]
           C == [k \in Comp |-> Current(p, q, k)]
<1>1. /\ Legal(u, q) /\ Legal(u, Origin) /\ M!CellOf(p) \in Domain /\ p # Gone
      /\ \A o \in Near, d \in Axis : o[d] \in -1..2
  BY InsideLegal, NotGone, LegalTypes
<1>2. IsFiniteSet(T) /\ T \subseteq Near
  BY <1>1, AllOffsets
<1>3. /\ Charge(p)[g] = Sum(r0, T) /\ ChargeAfter(p, q)[g] = Sum(r1, T)
      /\ \A o \in Near : r0[o] \in Int /\ r1[o] \in Int
  <2>1. /\ Sum(r0, Landing(p, Origin, g)) = Sum(r0, T) /\ \A o \in Near : r0[o] \in Int
        /\ Sum(r1, Landing(p, q, g)) = Sum(r1, T) /\ \A o \in Near : r1[o] \in Int
    BY <1>1, AllOffsets
  <2>2. /\ Charge(p)[g] = Sum(r0, Landing(p, Origin, g))
        /\ ChargeAfter(p, q)[g] = Sum(r1, Landing(p, q, g))
    BY <1>1 DEF Charge, ChargeAfter
  <2> QED
    BY <2>1, <2>2
<1>4. ASSUME NEW k \in Axis PROVE Drop(C[k], g, k) = Sum(z(k), T)
  <2> DEFINE w == [o \in Near |-> DepositJ(u, q, Across, k, o)]
             v == [o \in Near |-> IF o[k] = -1 THEN 0 ELSE w[Shift(o, k, -1)]]
             h == Wrap(Shift(g, k, -1))
  <2>1. /\ \A y : Sum(w, Landing(p, q, y)) = Sum(w, Spot(p, y))
        /\ \A o \in Near : w[o] \in Int
    BY <1>1, AllOffsets
  <2>2. \A o \in Near : o[k] = 2 => w[o] = 0
    <3> SUFFICES ASSUME NEW o \in Near, o[k] = 2 PROVE DepositJ(u, q, Across, k, o) = 0
      OBVIOUS
    <3>1. u[k] \in 0..(K - 1) /\ q[k] \in (-K)..K
      BY <1>1, LegalTypes
    <3>2. Flow(u[k], q[k], o[k]) = 0
      BY <1>1, <3>1, FlowFacts
    <3>3. /\ DepositJ(u, q, Across, k, o)
               = -(FilterScale * (0 * Mean(u, q, Axis \ {k}, o)))
          /\ Mean(u, q, Axis \ {k}, o) \in Int /\ FilterScale \in Int
      BY <1>1, <3>2, CurrentIs, ScaleType
    <3> QED
      BY <3>3
  <2>3. k \in Comp /\ h \in Domain
    <3>1. k \in Comp
      BY OtherAxes DEF Comp
    <3>2. \A d \in Axis : h[d] \in 0..(Dims[d] * N - 1)
      <4> SUFFICES ASSUME NEW d \in Axis PROVE h[d] \in 0..(Dims[d] * N - 1)
        OBVIOUS
      <4>1. g[d] \in 0..(Dims[d] * N - 1) /\ g = [e \in Axis |-> g[e]]
        BY PositionCoord
      <4>2. Shift(g, k, -1)[d] = IF d = k THEN g[d] + (-1) ELSE g[d] + 0
        <5>1. g[d] = g[d] + 0
          BY <4>1
        <5> QED
          BY <4>1, <5>1 DEF Shift
      <4>3. h[d] = Wrapped(d, Shift(g, k, -1)[d])
        BY WrapAlong
      <4>4. /\ -1 \in -2..2 /\ 0 \in -2..2
        OBVIOUS
      <4>5. CASE Periodic[d]
        <5>1. PICK j \in -2..2 : Shift(g, k, -1)[d] = g[d] + j
          BY <4>2, <4>4
        <5>2. h[d] = Wrapped(d, g[d] + j)
          BY <4>3, <5>1
        <5>3. g[d] \in 0..(Dims[d] * N - 1)
          BY <4>1
        <5>4. \A i \in -2..2 : Wrapped(d, g[d] + i) \in 0..(Dims[d] * N - 1)
          BY <4>5, <5>3, WrappedFacts
        <5> HIDE DEF h
        <5> QED
          BY <5>2, <5>4
      <4>6. CASE ~Periodic[d]
        <5>1. h[d] = Shift(g, k, -1)[d]
          BY <4>3, <4>6 DEF Wrapped
        <5>2. d = k => g[d] # 0
          BY <4>6
        <5> DEFINE n == Dims[d] * N
        <5>3. n \in Nat /\ g[d] \in 0..(n - 1)
          BY <4>1, Extent
        <5> HIDE DEF n, h
        <5>4. h[d] \in 0..(n - 1)
          BY <4>2, <5>1, <5>2, <5>3
        <5> QED
          BY <5>4 DEF n
      <4> QED
        BY <4>5, <4>6
    <3>3. h = [d \in Axis |-> h[d]]
      BY DEF Wrap
    <3> HIDE DEF h
    <3> QED
      BY <3>1, <3>2, <3>3, Assembled
  <2>4. C[k][g] = Sum(w, Spot(p, g)) /\ C[k][h] = Sum(w, Spot(p, h))
    <3>1. \A y \in Domain : C[k][y] = Sum(w, Landing(p, q, y))
      BY <1>1, <2>3 DEF Current
    <3> HIDE DEF w, C, h
    <3> QED
      BY <2>1, <2>3, <3>1
  <2>5. Sum(w, Spot(p, h)) = Sum(v, T) /\ \A o \in Near : v[o] \in Int
    <3> HIDE DEF w
    <3> QED
      BY <1>1, <2>1, <2>2, SumBelow
  <2>6. \A o \in Near : z(k)[o] = 1 * w[o] + (-1) * v[o]
    <3>0. ASSUME \A o \in Near : z(k)[o] = w[o] - v[o]
          PROVE  \A o \in Near : z(k)[o] = 1 * w[o] + (-1) * v[o]
      <4> HIDE DEF z, w, v
      <4> QED
        BY <2>1, <2>5, <3>0
    <3> SUFFICES ASSUME NEW o \in Near PROVE z(k)[o] = w[o] - v[o]
      BY <3>0
    <3>1. CASE o[k] = -1
      <4>1. z(k)[o] = w[o] /\ v[o] = 0
        BY <3>1 DEF Outflow
      <4> HIDE DEF w, v, z
      <4> QED
        BY <2>1, <4>1
    <3>2. CASE o[k] # -1
      <4>1. Shift(o, k, -1) \in Near
        <5>1. o = [d \in Axis |-> o[d]] /\ \A d \in Axis : o[d] \in -1..2
          BY DEF Near
        <5>2. Shift(o, k, -1) = [d \in Axis |-> IF d = k THEN o[d] + (-1) ELSE o[d]]
          BY <5>1 DEF Shift
        <5>3. \A d \in Axis : (IF d = k THEN o[d] + (-1) ELSE o[d]) \in -1..2
          BY <3>2, <5>1
        <5> QED
          BY <5>2, <5>3 DEF Near
      <4> QED
        BY <3>2, <4>1 DEF Outflow
    <3> QED
      BY <3>1, <3>2
  <2> HIDE DEF w, v, T, z
  <2>7. Sum(z(k), T) = 1 * Sum(w, T) + (-1) * Sum(v, T) /\ Sum(w, T) \in Int /\ Sum(v, T) \in Int
    <3>1. \A o \in T : w[o] \in Int /\ v[o] \in Int /\ z(k)[o] = 1 * w[o] + (-1) * v[o]
      BY <1>2, <2>1, <2>5, <2>6
    <3>2. 1 \in Int /\ -1 \in Int
      OBVIOUS
    <3> QED
      BY <1>2, <3>1, <3>2, SumLinear
  <2>8. Drop(C[k], g, k) = Sum(w, T) - Sum(v, T)
    BY <2>4, <2>5 DEF Drop, T
  <2> QED
    BY <2>7, <2>8
<1>5. \A k \in Comp, o \in Near : z(k)[o] \in Int
  BY <1>1, Continuity
<1>6. \A k \in Comp : Drop(C[k], g, k) = Sum(z(k), T)
  <2> SUFFICES ASSUME NEW k \in Comp, k \notin Axis PROVE Drop(C[k], g, k) = Sum(z(k), T)
    BY <1>4
  <2>1. \A o \in T : z(k)[o] = 0
    BY <1>2 DEF Outflow
  <2> HIDE DEF z, T
  <2> QED
    BY <1>2, <2>1, SumZero DEF Drop
<1> DEFINE y == [o \in Near |-> z(1)[o] + z(2)[o]]
           s == [o \in Near |-> r0[o] - r1[o]]
<1>7. 1 \in Comp /\ 2 \in Comp /\ 3 \in Comp
  BY DEF Comp
<1>8. \A o \in Near : s[o] = y[o] + z(3)[o]
  BY <1>1, Continuity
<1>9. \A o \in Near : s[o] = r0[o] - r1[o] /\ y[o] = z(1)[o] + z(2)[o]
  OBVIOUS
<1> HIDE DEF T, z, r0, r1, C, y, s
<1>10. /\ 1 \in Int /\ -1 \in Int
       /\ \A o \in T : /\ z(1)[o] \in Int /\ z(2)[o] \in Int /\ z(3)[o] \in Int
                       /\ y[o] = 1 * z(1)[o] + 1 * z(2)[o] /\ y[o] \in Int
                       /\ s[o] = 1 * y[o] + 1 * z(3)[o]
                       /\ r0[o] \in Int /\ r1[o] \in Int /\ s[o] = 1 * r0[o] + (-1) * r1[o]
  BY <1>2, <1>3, <1>5, <1>7, <1>8, <1>9
<1>11. /\ Sum(y, T) = 1 * Sum(z(1), T) + 1 * Sum(z(2), T)
       /\ Sum(z(1), T) \in Int /\ Sum(z(2), T) \in Int
  BY <1>2, <1>10, SumLinear
<1>12. Sum(s, T) = 1 * Sum(y, T) + 1 * Sum(z(3), T) /\ Sum(y, T) \in Int /\ Sum(z(3), T) \in Int
  BY <1>2, <1>10, SumLinear
<1>13. /\ Sum(s, T) = 1 * Sum(r0, T) + (-1) * Sum(r1, T)
       /\ Sum(r0, T) \in Int /\ Sum(r1, T) \in Int
  BY <1>2, <1>10, SumLinear
<1>14. Net(C, g) = Sum(z(1), T) + Sum(z(2), T) + Sum(z(3), T)
  BY <1>6, <1>7 DEF Net
<1>15. Net(C, g) = Sum(r0, T) - Sum(r1, T)
  BY <1>11, <1>12, <1>13, <1>14
<1> QED
  BY <1>3, <1>13, <1>15 DEF C

-----------------------------------------------------------------------------
(* A move carries the charge along *)

\* The cell and the place in it of a position along an axis.
LEMMA SubcellOnce ==
  ASSUME NEW i \in Int, NEW e \in 0..(K - 1)
  PROVE  (i * K + e) \div K = i /\ (i * K + e) % K = e
<1>1. K \in Nat \ {0}
  BY LatticeAssumption
<1> DEFINE n == i * K + e
           q == n \div K
<1>2. i * K \in Int
  BY <1>1
<1>3. n \in Int
  BY <1>1, <1>2
<1>4. q \in Int /\ n % K \in 0..(K - 1) /\ q * K + (n % K) = n
  <2> HIDE DEF n
  <2> QED
    BY <1>1, <1>3, SMT
<1> HIDE DEF q
<1>5. q * K \in Int /\ (q + 1) * K = q * K + K /\ (i + 1) * K = i * K + K
  BY <1>1, <1>4
<1>6. ASSUME q + 1 <= i PROVE FALSE
  <2>1. (q + 1) * K <= i * K
    BY <1>1, <1>4, <1>6, ScaleMonotone
  <2> QED
    BY <1>1, <1>2, <1>4, <1>5, <2>1
<1>7. ASSUME i + 1 <= q PROVE FALSE
  <2>1. (i + 1) * K <= q * K
    BY <1>1, <1>4, <1>7, ScaleMonotone
  <2> QED
    BY <1>1, <1>2, <1>4, <1>5, <2>1
<1>8. q = i
  BY <1>4, <1>6, <1>7
<1> QED
  BY <1>1, <1>2, <1>4, <1>8 DEF q

\* A move goes CellsMoved cells on.
Moved(p, q, d) == CellsMoved(M!Within(p)[d], q[d])
Rest(p, q, d) == (M!Within(p)[d] + q[d]) % K

\* A move along one axis, in cells and within the cell.
LEMMA MoveAlong ==
  ASSUME NEW p, Inside(p), NEW q \in Moves, NEW d \in Axis
  PROVE  LET to == [e \in Axis |-> p[e] + q[e]] IN
         /\ Moved(p, q, d) \in -1..1 /\ Rest(p, q, d) \in 0..(K - 1)
         /\ M!CellOf(p)[d] \in 0..(Dims[d] * N - 1)
         /\ M!CellOf(to)[d] = M!CellOf(p)[d] + Moved(p, q, d)
         /\ M!Within(to)[d] = Rest(p, q, d)
<1> DEFINE to == [e \in Axis |-> p[e] + q[e]]
           a == M!CellOf(p)[d]
           u == M!Within(p)[d]
           c == Moved(p, q, d)
           w == Rest(p, q, d)
<1>1. Legal(M!Within(p), q) /\ M!CellOf(p) \in Domain
  BY InsideLegal
<1>2. /\ a \in 0..(Dims[d] * N - 1)
      /\ u \in 0..(K - 1) /\ q[d] \in (-K)..K
  BY <1>1, PositionCoord, LegalTypes
<1>3. c \in -1..1 /\ w \in 0..(K - 1) /\ u + q[d] = c * K + w
  BY <1>2, ShapeIs DEF Moved, Rest
<1>4. K \in Nat \ {0} /\ p[d] \in Nat /\ a \in Int
  BY <1>2, LatticeAssumption DEF Inside
<1>5. a = p[d] \div K /\ u = p[d] % K
  BY SameSpace DEF M!CellOf, M!Within
<1>6. p[d] = a * K + u
  <2> DEFINE n == p[d]
  <2>0. n \in Nat
    BY <1>4
  <2>1. n = (n \div K) * K + (n % K)
    <3> HIDE DEF n
    <3> QED
      BY <1>4, <2>0, SMT
  <2> QED
    BY <1>5, <2>1
<1>7. M!CellOf(to)[d] = (p[d] + q[d]) \div K /\ M!Within(to)[d] = (p[d] + q[d]) % K
  BY SameSpace DEF M!CellOf, M!Within
<1> DEFINE n == p[d]
           j == q[d]
<1>8. /\ n = a * K + u /\ u + j = c * K + w /\ n \in Int /\ j \in Int
      /\ M!CellOf(to)[d] = (n + j) \div K /\ M!Within(to)[d] = (n + j) % K
  BY <1>2, <1>3, <1>4, <1>6, <1>7
<1> HIDE DEF a, u, c, w, to, n, j
<1>9. n + j = (a + c) * K + w
  <2>1. a * K \in Int /\ c * K \in Int /\ (a + c) * K = a * K + c * K /\ u \in Int /\ w \in Int
    BY <1>2, <1>3, <1>4
  <2> QED
    BY <1>8, <2>1
<1>10. (n + j) \div K = a + c /\ (n + j) % K = w
  <2>1. a + c \in Int
    BY <1>3, <1>4
  <2> QED
    BY <1>3, <1>9, <2>1, SubcellOnce
<1> QED
  BY <1>2, <1>3, <1>8, <1>10 DEF a, c, w, to

\* The shape moves with the particle.
LEMMA ShapeMoved ==
  ASSUME NEW u \in 0..(K - 1), NEW q \in (-K)..K, NEW i \in -1..2
  PROVE  LET c == CellsMoved(u, q)
             w == (u + q) % K IN
         /\ i - c \in 0..1 => S1(u, q, i) = S1(w, 0, i - c)
         /\ i - c \notin 0..1 => S1(u, q, i) = 0
<1> DEFINE c == CellsMoved(u, q)
           w == (u + q) % K
<1>1. /\ c \in -1..1 /\ w \in 0..(K - 1)
      /\ S1(u, q, i) = IF i = c THEN K - w ELSE IF i = c + 1 THEN w ELSE 0
  BY ShapeIs
<1> HIDE DEF c, w
<1>2. \A j \in -1..2 : S1(w, 0, j) = IF j = 0 THEN K - w ELSE IF j = 1 THEN w ELSE 0
  <2>1. 0 \in (-K)..K
    BY LatticeAssumption
  <2> QED
    BY <1>1, <2>1, ShapeIs
<1>3. CASE i - c \in 0..1
  BY <1>1, <1>2, <1>3 DEF c, w
<1>4. CASE i - c \notin 0..1
  <2>1. i # c /\ i # c + 1
    BY <1>1, <1>4
  <2> QED
    BY <1>1, <1>4, <2>1 DEF c
<1> QED
  BY <1>3, <1>4 DEF c, w

\* The density in a cell is that of the cell it is carried to, ...
LEMMA RhoMoved ==
  ASSUME NEW u, NEW q, Legal(u, q), NEW o \in Near, NEW w, NEW e \in Near,
         \A d \in Axis : w[d] = (u[d] + q[d]) % K /\ o[d] = e[d] + CellsMoved(u[d], q[d]),
         w = [d \in Axis |-> w[d]],
         \A d \in Axis : e[d] \in 0..1
  PROVE  DepositRho(u, q, o) = DepositRho(w, Origin, e)
<1>1. /\ u \in [Axis -> Int] /\ q \in [Axis -> Int] /\ o \in [Axis -> Int] /\ e \in [Axis -> Int]
      /\ \A d \in Axis : u[d] \in 0..(K - 1) /\ q[d] \in (-K)..K /\ o[d] \in -1..2
                         /\ Origin[d] = 0
  BY LegalTypes
<1>2. \A d \in Axis : w[d] \in 0..(K - 1) /\ CellsMoved(u[d], q[d]) \in -1..1
  BY <1>1, ShapeIs
<1>3. w \in [Axis -> Int] /\ Origin \in [Axis -> Int]
  <2>1. \A d \in Axis : w[d] \in Int
    BY <1>2
  <2> QED
    BY <2>1 DEF Origin
<1>4. ASSUME NEW d \in Axis PROVE S1(u[d], q[d], o[d]) = S1(w[d], Origin[d], e[d])
  <2>1. o[d] - CellsMoved(u[d], q[d]) = e[d] /\ e[d] \in 0..1
    BY <1>1, <1>2
  <2>2. S1(u[d], q[d], o[d]) = S1(w[d], 0, e[d])
    BY <1>1, <2>1, ShapeMoved
  <2> QED
    BY <1>1, <2>2
<1>5. \A d \in {1, 2, 3} : Shape(u, q, o, d) = Shape(w, Origin, e, d)
  BY <1>4 DEF Shape
<1>6. Cloud(u, q, o) = Cloud(w, Origin, e)
  BY <1>5 DEF Cloud
<1> QED
  BY <1>1, <1>3, <1>6, DepositRhoIs

\* ... and elsewhere there is none.
LEMMA RhoBeyond ==
  ASSUME NEW u, NEW q, Legal(u, q), NEW o \in Near, NEW d \in Axis,
         o[d] - CellsMoved(u[d], q[d]) \notin 0..1
  PROVE  DepositRho(u, q, o) = 0
<1>1. /\ u \in [Axis -> Int] /\ q \in [Axis -> Int] /\ o \in [Axis -> Int]
      /\ \A e \in Axis : u[e] \in 0..(K - 1) /\ q[e] \in (-K)..K /\ o[e] \in -1..2
  BY LegalTypes
<1>2. Shape(u, q, o, d) = 0
  BY <1>1, ShapeMoved DEF Shape
<1> DEFINE a == Shape(u, q, o, 1)
           b == Shape(u, q, o, 2)
           c == Shape(u, q, o, 3)
           s == FilterScale
<1>3. DepositRho(u, q, o) = s * (6 * (a * b * c))
  BY <1>1, DepositRhoIs DEF Cloud
<1>4. a \in Int /\ b \in Int /\ c \in Int /\ s \in Int
  <2>1. \A e \in Axis : S1(u[e], q[e], o[e]) \in Int
    BY <1>1, ShapeType
  <2> QED
    BY <2>1, ScaleType DEF Shape
<1>5. a = 0 \/ b = 0 \/ c = 0
  <2>1. d = 1 \/ d = 2 \/ d = 3
    BY OtherAxes
  <2> QED
    BY <1>2, <2>1
<1> HIDE DEF a, b, c, s
<1> QED
  BY <1>3, <1>4, <1>5

\* Two single wraps make one.
LEMMA WrappedTwice ==
  ASSUME NEW d \in Axis, NEW i \in 0..(Dims[d] * N - 1), NEW c \in -1..1, NEW e \in 0..1,
         Periodic[d] \/ i + c \in 0..(Dims[d] * N - 1)
  PROVE  /\ Wrapped(d, i + c) \in 0..(Dims[d] * N - 1)
         /\ Wrapped(d, Wrapped(d, i + c) + e) = Wrapped(d, i + (e + c))
<1> DEFINE n == Dims[d] * N
<1>1. n \in Nat /\ n >= 2
  BY Extent, DepositAssumption
<1>2. \A j : Wrapped(d, j) = IF ~Periodic[d] THEN j ELSE IF j < 0 THEN j + n
                             ELSE IF j >= n THEN j - n ELSE j
  BY DEF Wrapped
<1>3. i \in 0..(n - 1) /\ (Periodic[d] \/ i + c \in 0..(n - 1))
  OBVIOUS
<1> HIDE DEF n
<1>4. CASE ~Periodic[d]
  <2>1. \A j : Wrapped(d, j) = j
    BY <1>2, <1>4
  <2>2. (i + c) + e = i + (e + c)
    BY <1>1, <1>3
  <2> QED
    BY <1>3, <1>4, <2>1, <2>2 DEF n
<1>5. CASE Periodic[d]
  <2>1. \A j : Wrapped(d, j) = IF j < 0 THEN j + n ELSE IF j >= n THEN j - n ELSE j
    BY <1>2, <1>5
  <2>2. Wrapped(d, i + c) \in 0..(n - 1)
    BY <1>1, <1>3, <2>1
  <2>3. Wrapped(d, Wrapped(d, i + c) + e) = Wrapped(d, i + (e + c))
    BY <1>1, <1>3, <2>1
  <2> QED
    BY <2>2, <2>3 DEF n
<1> QED
  BY <1>4, <1>5

\* A particle that lands in the domain takes its charge with it.
LEMMA ChargeLands ==
  ASSUME NEW p, Inside(p), NEW q \in Moves, NEW g \in Domain, M!Landed(p, q) # Gone
  PROVE  ChargeAfter(p, q)[g] = Charge(M!Landed(p, q))[g]
<1> DEFINE to == [d \in Axis |-> p[d] + q[d]]
           a == M!CellOf(p)
           u == M!Within(p)
           c == [d \in Axis |-> Moved(p, q, d)]
           w == [d \in Axis |-> Rest(p, q, d)]
           z == M!Landed(p, q)
           b == M!CellOf(z)
<1>1. p # Gone /\ Legal(u, q) /\ a \in Domain
  BY NotGone, InsideLegal
<1>2. \A d \in Axis : /\ c[d] \in -1..1 /\ w[d] \in 0..(K - 1) /\ a[d] \in 0..(Dims[d] * N - 1)
                      /\ M!CellOf(to)[d] = a[d] + c[d] /\ M!Within(to)[d] = w[d]
                      /\ c[d] = CellsMoved(u[d], q[d]) /\ w[d] = (u[d] + q[d]) % K
  BY MoveAlong DEF Moved, Rest
<1>3. ~Outside(M!CellOf(to)) /\ z = [d \in Axis |-> Wrap(M!CellOf(to))[d] * K + M!Within(to)[d]]
  <2>1. z = IF p = Gone \/ Outside(M!CellOf(to)) THEN Gone
            ELSE [d \in Axis |-> Wrap(M!CellOf(to))[d] * K + M!Within(to)[d]]
    BY SameSpace DEF M!Landed, Gone
  <2> HIDE DEF to, z
  <2> QED
    BY <2>1 DEF z
<1> HIDE DEF to, c, w, a, u, z
<1>4. ASSUME NEW d \in Axis
      PROVE  /\ Wrap(M!CellOf(to))[d] = Wrapped(d, a[d] + c[d])
             /\ Periodic[d] \/ a[d] + c[d] \in 0..(Dims[d] * N - 1)
  <2>1. Wrap(M!CellOf(to))[d] = Wrapped(d, M!CellOf(to)[d])
    BY WrapAlong
  <2>2. Periodic[d] \/ ~(a[d] + c[d] < 0 \/ a[d] + c[d] >= Dims[d] * N)
    BY <1>2, <1>3 DEF Outside
  <2>3. a[d] \in 0..(Dims[d] * N - 1) /\ c[d] \in -1..1 /\ Dims[d] * N \in Nat
    BY <1>2, Extent
  <2> DEFINE n == Dims[d] * N
  <2>4. n \in Nat /\ a[d] \in 0..(n - 1) /\ (Periodic[d] \/ ~(a[d] + c[d] < 0 \/ a[d] + c[d] >= n))
    BY <2>2, <2>3
  <2> HIDE DEF n
  <2>5. Periodic[d] \/ a[d] + c[d] \in 0..(n - 1)
    BY <2>3, <2>4
  <2> QED
    BY <1>2, <2>1, <2>5 DEF n
<1>5. ASSUME NEW d \in Axis
      PROVE  b[d] = Wrapped(d, a[d] + c[d]) /\ M!Within(z)[d] = w[d]
  <2> DEFINE i == Wrapped(d, a[d] + c[d])
  <2>1. z[d] = i * K + w[d]
    BY <1>2, <1>3, <1>4
  <2>2. i \in 0..(Dims[d] * N - 1)
    <3>1. 0 \in 0..1
      OBVIOUS
    <3> QED
      BY <1>2, <1>4, <3>1, WrappedTwice
  <2>3. i \in Int
    BY <2>2
  <2>4. b[d] = z[d] \div K /\ M!Within(z)[d] = z[d] % K
    BY SameSpace DEF M!CellOf, M!Within
  <2> HIDE DEF i, b
  <2>5. z[d] \div K = i /\ z[d] % K = w[d]
    BY <1>2, <2>1, <2>3, SubcellOnce
  <2> QED
    BY <2>4, <2>5 DEF i
<1>6. M!Within(z) = w
  <2>1. M!Within(z) = [d \in Axis |-> M!Within(z)[d]] /\ w = [d \in Axis |-> w[d]]
    BY SameSpace DEF M!Within, w
  <2> QED
    BY <1>5, <2>1
<1>7. Inside(z)
  BY LandedInside DEF z
<1> HIDE DEF b
<1> DEFINE T == Spot(p, g)
           U == Spot(z, g)
           S == {e \in U : \A d \in Axis : e[d] \in 0..1}
           f == [e \in S |-> [d \in Axis |-> e[d] + c[d]]]
           r1 == [o \in Near |-> DepositRho(u, q, o)]
           r0 == [o \in Near |-> DepositRho(w, Origin, o)]
<1>8. /\ Legal(w, Origin)
      /\ \A o \in Near, d \in Axis : o[d] \in -1..2
  <2>1. Legal(M!Within(z), Origin)
    BY <1>7, InsideLegal
  <2> QED
    BY <1>1, <1>6, <2>1, LegalTypes
<1>9. /\ IsFiniteSet(T) /\ T \subseteq Near /\ IsFiniteSet(U) /\ U \subseteq Near
      /\ ChargeAfter(p, q)[g] = Sum(r1, T) /\ Charge(z)[g] = Sum(r0, U)
      /\ \A o \in Near : r0[o] \in Int /\ r1[o] \in Int
  <2>1. Legal(M!Within(z), Origin) /\ z # Gone
    BY <1>7, InsideLegal, NotGone
  <2>2. /\ IsFiniteSet(T) /\ T \subseteq Near
        /\ Sum(r1, Landing(p, q, g)) = Sum(r1, T) /\ \A o \in Near : r1[o] \in Int
    BY <1>1, AllOffsets DEF u
  <2>3. /\ IsFiniteSet(U) /\ U \subseteq Near
        /\ Sum(r0, Landing(z, Origin, g)) = Sum(r0, U) /\ \A o \in Near : r0[o] \in Int
    BY <1>6, <2>1, AllOffsets
  <2>4. ChargeAfter(p, q)[g] = Sum(r1, Landing(p, q, g))
    BY <1>1 DEF ChargeAfter, u
  <2>5. Charge(z)[g] = Sum(r0, Landing(z, Origin, g))
    BY <1>6, <2>1 DEF Charge, ChargeAfter
  <2> QED
    BY <2>2, <2>3, <2>4, <2>5
<1>10. ASSUME NEW e \in Near, \A d \in Axis : e[d] \in 0..1
       PROVE  LET o == [d \in Axis |-> e[d] + c[d]] IN
              /\ o \in Near /\ Wrap(Add(a, o)) = Wrap(Add(b, e))
              /\ r1[o] = r0[e]
  <2> DEFINE o == [d \in Axis |-> e[d] + c[d]]
  <2>1. \A d \in Axis : o[d] \in -1..2
    BY <1>2, <1>10
  <2>2. o \in Near
    BY <2>1 DEF Near
  <2>3. \A d \in Axis : Wrapped(d, b[d] + e[d]) = Wrapped(d, a[d] + o[d])
    BY <1>2, <1>4, <1>5, <1>10, WrappedTwice
  <2>4. /\ Wrap(Add(a, o)) = [d \in Axis |-> Wrapped(d, a[d] + o[d])]
        /\ Wrap(Add(b, e)) = [d \in Axis |-> Wrapped(d, b[d] + e[d])]
    BY DEF Wrap, Add, Wrapped
  <2>5. DepositRho(u, q, o) = DepositRho(w, Origin, e)
    <3>1. w = [d \in Axis |-> w[d]]
      BY DEF w
    <3>2. \A d \in Axis : /\ w[d] = (u[d] + q[d]) % K /\ o[d] = e[d] + CellsMoved(u[d], q[d])
                          /\ e[d] \in 0..1
      BY <1>2, <1>10
    <3> HIDE DEF o
    <3> QED
      BY <1>1, <2>2, <3>1, <3>2, RhoMoved
  <2> HIDE DEF o
  <2>6. r1[o] = r0[e]
    BY <2>2, <2>5
  <2>7. Wrap(Add(a, o)) = Wrap(Add(b, e))
    BY <2>3, <2>4
  <2> QED
    BY <2>2, <2>6, <2>7 DEF o
<1> HIDE DEF r0, r1
<1>11. /\ \A o : o \in T <=> o \in Near /\ Wrap(Add(a, o)) = g
       /\ \A e : e \in U <=> e \in Near /\ Wrap(Add(b, e)) = g
  BY DEF Spot, a, b
<1>12. S \in SUBSET U /\ IsFiniteSet(S)
  BY <1>9, FS_Subset
<1>13. \A e \in S : f[e] \in T /\ f[e] = [d \in Axis |-> e[d] + c[d]] /\ r0[e] = r1[f[e]]
  <2> SUFFICES ASSUME NEW e \in S
               PROVE  /\ f[e] \in T /\ f[e] = [d \in Axis |-> e[d] + c[d]] /\ r0[e] = r1[f[e]]
    OBVIOUS
  <2>1. e \in Near /\ (\A d \in Axis : e[d] \in 0..1) /\ Wrap(Add(b, e)) = g
    BY <1>11
  <2>2. f[e] = [d \in Axis |-> e[d] + c[d]]
    OBVIOUS
  <2> HIDE DEF f, T
  <2> QED
    BY <1>10, <1>11, <2>1, <2>2
<1>14. f \in [S -> T] /\ \A d, e \in S : f[d] = f[e] => d = e
  <2>1. f \in [S -> T]
    <3>1. \A e \in S : [d \in Axis |-> e[d] + c[d]] \in T
      BY <1>13
    <3> HIDE DEF S, T
    <3> QED
      BY <3>1
  <2>2. ASSUME NEW i \in S, NEW e \in S, f[i] = f[e] PROVE i = e
    <3>1. i \in Near /\ e \in Near
      BY <1>9
    <3>2. f[i] = [d \in Axis |-> i[d] + c[d]] /\ f[e] = [d \in Axis |-> e[d] + c[d]]
      BY <1>13
    <3>3. i = [d \in Axis |-> i[d]] /\ e = [d \in Axis |-> e[d]]
      BY <3>1 DEF Near
    <3> HIDE DEF f, S
    <3>4. \A d \in Axis : i[d] + c[d] = e[d] + c[d]
      <4> SUFFICES ASSUME NEW d \in Axis PROVE i[d] + c[d] = e[d] + c[d]
        OBVIOUS
      <4>1. f[i][d] = i[d] + c[d] /\ f[e][d] = e[d] + c[d]
        BY <3>2
      <4>2. f[i][d] = f[e][d]
        BY <2>2
      <4> QED
        BY <4>1, <4>2
    <3>5. \A d \in Axis : i[d] \in Int /\ e[d] \in Int /\ c[d] \in Int
      BY <1>2, <1>8, <3>1
    <3>6. \A d \in Axis : i[d] = e[d]
      <4> SUFFICES ASSUME NEW d \in Axis PROVE i[d] = e[d]
        OBVIOUS
      <4>1. i[d] + c[d] = e[d] + c[d] /\ i[d] \in Int /\ e[d] \in Int /\ c[d] \in Int
        BY <3>4, <3>5
      <4> QED
        BY <4>1
    <3> QED
      BY <3>3, <3>6
  <2> HIDE DEF f, S, T
  <2> QED
    BY <2>1, <2>2
<1>15. ASSUME NEW o \in T PROVE r1[o] \in Int /\ ((\A e \in S : f[e] # o) => r1[o] = 0)
  <2>1. o \in Near /\ Wrap(Add(a, o)) = g
    BY <1>11
  <2> DEFINE e == [d \in Axis |-> o[d] - c[d]]
  <2>2. CASE \A d \in Axis : o[d] - c[d] \in 0..1
    <3>1. (\A d \in Axis : e[d] \in 0..1) /\ e \in Near
      <4>1. 0..1 \subseteq -1..2
        OBVIOUS
      <4> QED
        BY <2>2, <4>1 DEF Near
    <3>2. [d \in Axis |-> e[d] + c[d]] = o
      <4>1. \A d \in Axis : e[d] + c[d] = o[d]
        BY <1>2, <1>8, <2>1
      <4>2. o = [d \in Axis |-> o[d]]
        BY <2>1 DEF Near
      <4> HIDE DEF e
      <4> QED
        BY <4>1, <4>2
    <3> HIDE DEF e
    <3>3. Wrap(Add(b, e)) = g
      BY <1>10, <2>1, <3>1, <3>2
    <3>4. e \in S
      BY <1>11, <3>1, <3>3
    <3>5. f[e] = o
      BY <1>13, <3>2, <3>4
    <3> QED
      BY <1>9, <2>1, <3>4, <3>5
  <2>3. CASE \E d \in Axis : o[d] - c[d] \notin 0..1
    <3>1. PICK d \in Axis : o[d] - CellsMoved(u[d], q[d]) \notin 0..1
      BY <1>2, <2>3
    <3>2. DepositRho(u, q, o) = 0
      BY <1>1, <2>1, <3>1, RhoBeyond
    <3> QED
      BY <2>1, <3>2 DEF r1
  <2> QED
    BY <2>2, <2>3
<1>16. Sum(r0, S) = Sum(r1, T)
  <2>1. \A e \in S : r0[e] = r1[f[e]]
    BY <1>13
  <2>2. \A u1 \in T : r1[u1] \in Int /\ ((\A e \in S : f[e] # u1) => r1[u1] = 0)
    BY <1>15
  <2> HIDE DEF f, S, T, U
  <2> QED
    BY <1>9, <1>12, <1>14, <2>1, <2>2, SumOver, SMTT(20)
<1>17. Sum(r0, S) = Sum(r0, U)
  <2>1. (\A e \in U : r0[e] \in Int) /\ (\A e \in U \ S : r0[e] = 0)
    <3> SUFFICES ASSUME NEW e \in U PROVE r0[e] \in Int /\ (e \notin S => r0[e] = 0)
      OBVIOUS
    <3>1. e \in Near
      BY <1>9
    <3>2. ASSUME NEW d \in Axis, e[d] \notin 0..1 PROVE r0[e] = 0
      <4>1. w[d] \in 0..(K - 1) /\ 0 \in (-K)..K /\ Origin[d] = 0
        BY <1>2, LatticeAssumption DEF Origin
      <4>2. CellsMoved(w[d], Origin[d]) = 0
        <5>1. w[d] + 0 = 0 * K + w[d] /\ 0 \in Int
          BY <4>1, LatticeAssumption
        <5>2. (0 * K + w[d]) \div K = 0
          BY <4>1, <5>1, SubcellOnce
        <5>3. (w[d] + 0) \div K = 0
          BY <5>1, <5>2
        <5> QED
          BY <4>1, <5>3 DEF CellsMoved
      <4>3. e[d] - CellsMoved(w[d], Origin[d]) \notin 0..1
        BY <1>8, <3>1, <3>2, <4>2
      <4>4. DepositRho(w, Origin, e) = 0
        BY <1>8, <3>1, <4>3, RhoBeyond
      <4> QED
        BY <3>1, <4>4 DEF r0
    <3> QED
      BY <1>9, <3>1, <3>2
  <2> HIDE DEF S, U
  <2> QED
    BY <1>9, <1>12, <2>1, SumWithin
<1> HIDE DEF S, T, U
<1>18. ChargeAfter(p, q)[g] = Charge(z)[g]
  BY <1>9, <1>16, <1>17
<1> QED
  BY <1>18 DEF z

\* One that leaves the domain takes it away from all but the last cells.
LEMMA ChargeLeaves ==
  ASSUME NEW p, Inside(p), NEW q \in Moves, NEW g \in Domain, Deep(1, g),
         M!Landed(p, q) = Gone
  PROVE  ChargeAfter(p, q)[g] = 0
<1> DEFINE to == [d \in Axis |-> p[d] + q[d]]
           a == M!CellOf(p)
           u == M!Within(p)
           c == [d \in Axis |-> Moved(p, q, d)]
           T == Spot(p, g)
           r == [o \in Near |-> DepositRho(u, q, o)]
<1>1. p # Gone /\ Legal(u, q) /\ a \in Domain
  BY NotGone, InsideLegal
<1>2. \A d \in Axis : /\ c[d] \in -1..1 /\ a[d] \in 0..(Dims[d] * N - 1)
                      /\ M!CellOf(to)[d] = a[d] + c[d]
                      /\ c[d] = CellsMoved(u[d], q[d])
  BY MoveAlong DEF Moved
<1>3. Outside(M!CellOf(to))
  <2> DEFINE v == [d \in Axis |-> Wrap(M!CellOf(to))[d] * K + M!Within(to)[d]]
  <2>1. M!Landed(p, q) = IF p = Gone \/ Outside(M!CellOf(to)) THEN Gone ELSE v
    BY SameSpace DEF M!Landed, Gone
  <2>2. ASSUME ~Outside(M!CellOf(to)) PROVE FALSE
    <3>1. v = Gone
      BY <1>1, <2>1, <2>2
    <3>2. 1 \in Axis
      BY DimAssumption DEF Axis
    <3>3. v[1] = -1
      BY <3>1, <3>2, SameSpace DEF M!Gone, Gone
    <3>4. Wrap(M!CellOf(to))[1] \in Nat /\ M!Within(to)[1] \in 0..(K - 1)
      <4>1. Wrap(M!CellOf(to))[1] = Wrapped(1, a[1] + c[1])
        BY <1>2, <3>2, WrapAlong
      <4>2. Periodic[1] \/ a[1] + c[1] \in 0..(Dims[1] * N - 1)
        <5> DEFINE n == Dims[1] * N
        <5>1. n \in Nat /\ a[1] \in 0..(n - 1) /\ c[1] \in -1..1
          BY <1>2, <3>2, Extent
        <5>2. Periodic[1] \/ ~(a[1] + c[1] < 0 \/ a[1] + c[1] >= n)
          BY <1>2, <2>2, <3>2 DEF Outside
        <5> HIDE DEF n, a, c
        <5>3. Periodic[1] \/ a[1] + c[1] \in 0..(n - 1)
          BY <5>1, <5>2
        <5> QED
          BY <5>3 DEF n
      <4>3. 0 \in 0..1
        OBVIOUS
      <4>4. Wrapped(1, a[1] + c[1]) \in 0..(Dims[1] * N - 1)
        BY <1>2, <3>2, <4>2, <4>3, WrappedTwice
      <4>5. M!Within(to)[1] \in 0..(K - 1)
        BY <3>2, MoveAlong
      <4> QED
        BY <4>1, <4>4, <4>5
    <3> DEFINE i == Wrap(M!CellOf(to))[1]
               j == M!Within(to)[1]
    <3>5. v[1] = i * K + j /\ i \in Nat /\ j \in 0..(K - 1) /\ K \in Nat
      BY <3>2, <3>4, LatticeAssumption
    <3> HIDE DEF i, j, v
    <3>6. i * K \in Nat
      BY <3>5
    <3> QED
      BY <3>3, <3>5, <3>6
  <2> QED
    BY <2>2
<1>4. PICK d \in Axis : ~Periodic[d] /\ (a[d] + c[d] < 0 \/ a[d] + c[d] >= Dims[d] * N)
  BY <1>2, <1>3 DEF Outside
<1>5. /\ IsFiniteSet(T) /\ T \subseteq Near
      /\ ChargeAfter(p, q)[g] = Sum(r, T)
  <2>1. /\ IsFiniteSet(T) /\ T \subseteq Near
        /\ Sum(r, Landing(p, q, g)) = Sum(r, T)
    BY <1>1, AllOffsets
  <2>2. ChargeAfter(p, q)[g] = Sum(r, Landing(p, q, g))
    BY <1>1 DEF ChargeAfter
  <2> QED
    BY <2>1, <2>2
<1>6. ASSUME NEW o \in T PROVE r[o] = 0
  <2>1. o \in Near /\ Wrap(Add(a, o)) = g
    BY DEF Spot
  <2>2. a[d] + o[d] = g[d]
    <3>1. Wrap(Add(a, o))[d] = Add(a, o)[d]
      BY <1>4 DEF Wrap
    <3>2. Add(a, o)[d] = a[d] + o[d]
      BY DEF Add
    <3> QED
      BY <2>1, <3>1, <3>2
  <2> DEFINE n == Dims[d] * N
  <2>3. /\ n \in Nat /\ a[d] \in 0..(n - 1) /\ c[d] \in -1..1 /\ o[d] \in -1..2
        /\ a[d] + c[d] < 0 \/ a[d] + c[d] >= n
        /\ 1 <= g[d] /\ g[d] < n - 1
    <3>1. 1 <= g[d] /\ g[d] < n - 1
      BY <1>4 DEF Deep
    <3> QED
      BY <1>1, <1>2, <1>4, <2>1, <3>1, Extent, LegalTypes
  <2> HIDE DEF n, a, c
  <2>4. o[d] - c[d] \notin 0..1
    BY <2>2, <2>3
  <2>5. DepositRho(u, q, o) = 0
    BY <1>1, <1>2, <2>1, <2>4, RhoBeyond
  <2> QED
    BY <2>1, <2>5
<1> HIDE DEF T, r
<1>7. Sum(r, T) = 0
  BY <1>5, <1>6, SumZero
<1> QED
  BY <1>5, <1>7

-----------------------------------------------------------------------------
(* The filter conserves charge *)

\* A filter pass on the lattice.
Average(f) ==
  [g \in Domain |-> M!Filtered(M!Padded([k \in Comp |-> f])[1], M!Ends(g), g)]

Steps == [Axis -> -1..1]
Multiple(n, f) == \A g \in Domain : \E a \in Int : f[g] = n * a

\* Around a position that is not at an open end.
LEMMA Around ==
  ASSUME NEW g \in Domain, NEW s \in Steps, NEW i \in Nat, Deep(i + 1, g)
  PROVE  /\ ~Outside(Add(g, s)) /\ Wrap(Add(g, s)) \in Domain
         /\ Deep(i, Wrap(Add(g, s)))
         /\ M!Ends(g) = {}
<1> DEFINE y == Wrap(Add(g, s))
<1>1. ASSUME NEW d \in Axis
      PROVE  /\ y[d] \in 0..(Dims[d] * N - 1)
             /\ ~Periodic[d] => /\ ~(Add(g, s)[d] < 0) /\ ~(Add(g, s)[d] >= Dims[d] * N)
                                /\ i <= y[d] /\ y[d] < Dims[d] * N - i
                                /\ g[d] # 0 /\ g[d] # Dims[d] * N - 1
  <2> DEFINE n == Dims[d] * N
  <2>1. n \in Nat /\ g[d] \in 0..(n - 1) /\ s[d] \in -1..1
    BY PositionCoord, Extent DEF Steps
  <2>2. y[d] = Wrapped(d, g[d] + s[d]) /\ Add(g, s)[d] = g[d] + s[d]
    BY WrapAlong DEF Add
  <2>3. CASE Periodic[d]
    <3>1. s[d] \in -2..2
      BY <2>1
    <3>2. \A j \in -2..2 : Wrapped(d, g[d] + j) \in 0..(n - 1)
      BY <2>1, <2>3, WrappedFacts
    <3> QED
      BY <2>2, <2>3, <3>1, <3>2
  <2>4. CASE ~Periodic[d]
    <3>1. y[d] = g[d] + s[d] /\ i + 1 <= g[d] /\ g[d] < n - (i + 1)
      BY <2>2, <2>4 DEF Wrapped, Deep
    <3> HIDE DEF n, y
    <3>2. /\ y[d] \in 0..(n - 1) /\ ~(Add(g, s)[d] < 0) /\ ~(Add(g, s)[d] >= n)
          /\ i <= y[d] /\ y[d] < n - i /\ g[d] # 0 /\ g[d] # n - 1
      BY <2>1, <2>2, <3>1
    <3> QED
      BY <3>2 DEF n
  <2> QED
    BY <2>3, <2>4
<1>2. y = [d \in Axis |-> y[d]]
  BY DEF Wrap
<1>3. ~Outside(Add(g, s)) /\ Deep(i, y)
  BY <1>1 DEF Outside, Deep
<1>4. y \in Domain
  <2> HIDE DEF y
  <2> QED
    BY <1>1, <1>2, Assembled
<1>5. M!Ends(g) = {}
  <2>1. ASSUME NEW e \in M!Ends(g) PROVE FALSE
    <3>1. M!Ends(g) \subseteq Axis \X {-1, 1}
      BY EndsSame
    <3>2. PICK d \in Axis, t \in {-1, 1} : e = <<d, t>>
      BY <2>1, <3>1
    <3>3. ~Periodic[d] /\ (g[d] = 0 \/ g[d] = Dims[d] * N - 1)
      BY <2>1, <3>2, EndsSame
    <3> QED
      BY <1>1, <3>3
  <2> QED
    BY <2>1
<1> QED
  BY <1>3, <1>4, <1>5

\* One step down, and any step: in either order.
LEMMA Below ==
  ASSUME NEW g \in Domain, NEW k \in Axis, NEW i \in Nat, Deep(i + 1, g)
  PROVE  LET h == Wrap(Shift(g, k, -1)) IN
         /\ h \in Domain /\ Deep(i, h)
         /\ \A s \in Steps : Wrap(Add(h, s)) = Wrap(Shift(Wrap(Add(g, s)), k, -1))
<1> DEFINE h == Wrap(Shift(g, k, -1))
           z == [d \in Axis |-> IF d = k THEN -1 ELSE 0]
<1>1. g = [d \in Axis |-> g[d]] /\ \A d \in Axis : g[d] \in 0..(Dims[d] * N - 1)
  BY PositionCoord
<1>2. \A d \in Axis : g[d] \in Int
  BY <1>1
<1>3. Shift(g, k, -1) = Add(g, z)
  <2>1. Shift(g, k, -1) = [d \in Axis |-> IF d = k THEN g[d] + (-1) ELSE g[d]]
    BY <1>1 DEF Shift
  <2>2. \A d \in Axis : (IF d = k THEN g[d] + (-1) ELSE g[d]) = g[d] + z[d]
    BY <1>2
  <2>3. Add(g, z) = [d \in Axis |-> g[d] + z[d]]
    BY DEF Add
  <2> QED
    BY <2>1, <2>2, <2>3
<1>4. z \in Steps
  BY DEF Steps
<1>5. h \in Domain /\ Deep(i, h)
  BY <1>3, <1>4, Around
<1>6. ASSUME NEW s \in Steps PROVE Wrap(Add(h, s)) = Wrap(Shift(Wrap(Add(g, s)), k, -1))
  <2> DEFINE y == Wrap(Add(g, s))
  <2>1. y \in Domain
    BY Around
  <2>2. ASSUME NEW d \in Axis
        PROVE  Wrapped(d, h[d] + s[d]) = Wrapped(d, Shift(y, k, -1)[d])
    <3>1. /\ h[d] = Wrapped(d, Shift(g, k, -1)[d])
          /\ y[d] = Wrapped(d, g[d] + s[d])
      BY WrapAlong DEF Add
    <3>2. s[d] \in -1..1
      BY DEF Steps
    <3>3. /\ Shift(g, k, -1)[d] = IF d = k THEN g[d] + (-1) ELSE g[d]
          /\ Shift(y, k, -1)[d] = IF d = k THEN y[d] + (-1) ELSE y[d]
      <4>1. y = [e \in Axis |-> y[e]]
        BY DEF Wrap
      <4> HIDE DEF y
      <4> QED
        BY <1>1, <4>1 DEF Shift
    <3>4. CASE d = k
      <4>1. y[d] \in Int
        BY <2>1, PositionCoord
      <4>2. g[d] + (-1) = g[d] - 1 /\ y[d] + (-1) = y[d] - 1
        BY <1>2, <4>1
      <4>3. \A j \in -1..1 : Wrapped(d, Wrapped(d, g[d] + j) - 1)
                               = Wrapped(d, Wrapped(d, g[d] - 1) + j)
        BY <1>1, WrappedFacts
      <4>4. h[d] = Wrapped(d, g[d] - 1) /\ Shift(y, k, -1)[d] = y[d] - 1
        BY <3>1, <3>3, <3>4, <4>2
      <4> HIDE DEF h, y
      <4> QED
        BY <3>1, <3>2, <4>3, <4>4
    <3>5. CASE d # k
      <4>1. Wrapped(d, g[d]) = g[d]
        BY <1>1, WrappedFacts
      <4>2. y[d] \in 0..(Dims[d] * N - 1)
        BY <2>1, PositionCoord
      <4>3. Wrapped(d, y[d]) = y[d]
        BY <4>2, WrappedFacts
      <4>4. h[d] = g[d] /\ Shift(y, k, -1)[d] = y[d]
        BY <3>1, <3>3, <3>5, <4>1
      <4> HIDE DEF h, y
      <4> QED
        BY <3>1, <4>3, <4>4
    <3> QED
      BY <3>4, <3>5
  <2>3. /\ Wrap(Add(h, s)) = [d \in Axis |-> Wrapped(d, h[d] + s[d])]
        /\ Wrap(Shift(y, k, -1)) = [d \in Axis |-> Wrapped(d, Shift(y, k, -1)[d])]
    BY DEF Wrap, Add, Wrapped
  <2> HIDE DEF h, y
  <2> QED
    BY <2>2, <2>3 DEF y
<1> QED
  BY <1>5, <1>6

\* What the filter reads is a value of the lattice, or nothing.
LEMMA ReadInside ==
  ASSUME NEW f, NEW g \in Domain, NEW s \in Steps
  PROVE  LET v == M!Padded([k \in Comp |-> f])[1][Beside(s, M!Ends(g), g)] IN
         /\ \E y \in Domain : v = f[y]
         /\ Deep(1, g) => v = f[Wrap(Add(g, s))]
<1> DEFINE z == Inward(s, M!Ends(g))
           y == Wrap(Add(g, z))
<1>1. /\ z \in [Axis -> -1..1] /\ ~Outside(Add(g, z))
      /\ Beside(s, M!Ends(g), g) = Add(g, z)
  BY InwardFacts DEF Steps
<1>2. Add(g, z) \in M!Ring
  BY <1>1, Nearby
<1>3. y \in Domain
  <2>1. /\ Owner(g) \in Rank /\ Add(LocalCell(Owner(g), g), z) \in Cell
        /\ Global(Owner(g), Add(LocalCell(Owner(g), g), z)) = y
        /\ Outside(y) <=> Outside(Add(g, z))
    BY <1>1, Nearby
  <2> QED
    BY <1>1, <2>1, HomeOwner
<1>4. M!Padded([k \in Comp |-> f])[1][Add(g, z)] = f[y]
  <2> HIDE DEF z
  <2>1. 1 \in Comp
    BY DEF Comp
  <2> QED
    BY <1>1, <1>2, <2>1, SameSpace DEF M!Padded
<1>5. Deep(1, g) => z = s
  <2>1. Deep(1, g) => M!Ends(g) = {}
    <3>1. 0 + 1 = 1 /\ 0 \in Nat
      OBVIOUS
    <3> QED
      BY <3>1, Around
  <2>2. s = [d \in Axis |-> s[d]]
    BY DEF Steps
  <2> QED
    BY <2>1, <2>2 DEF Inward
<1> HIDE DEF z
<1> QED
  BY <1>1, <1>3, <1>4, <1>5

\* The weighted sum of the values around a position.
Weights(f, g) == [s \in Steps |-> Weighted(s) * f[Wrap(Add(g, s))]]

\* A pass on a multiple of its divisor leaves no remainder.
LEMMA AverageFacts ==
  ASSUME NEW f, NEW n \in Nat, Multiple(4^Dim * n, f)
  PROVE  /\ Multiple(n, Average(f))
         /\ \A g \in Domain : /\ f[g] \in Int /\ Average(f)[g] \in Int
                              /\ Deep(1, g) => 4^Dim * Average(f)[g] = Sum(Weights(f, g), Steps)
<1> DEFINE b(y) == CHOOSE a \in Int : f[y] = 4^Dim * n * a
           t == 4^Dim
<1>1. t \in {4, 16, 64}
  BY FourthFacts
<1>2. \A y \in Domain : b(y) \in Int /\ f[y] = t * n * b(y)
  BY DEF Multiple
<1> HIDE DEF b
<1>3. ASSUME NEW g \in Domain
      PROVE  \E a \in Int : Average(f)[g] = n * a /\ Average(f)[g] \in Int
                            /\ (Deep(1, g) => t * Average(f)[g] = Sum(Weights(f, g), Steps))
  <2> DEFINE h == M!Padded([k \in Comp |-> f])[1]
             e == M!Ends(g)
             v(s) == h[Beside(s, e, g)]
             w == [s \in Steps |-> Weighted(s) * h[Beside(s, e, g)]]
             from(s) == CHOOSE y \in Domain : v(s) = f[y]
             u == [s \in Steps |-> Weighted(s) * b(from(s))]
             z == [s \in Steps |-> 0]
  <2>1. \A s \in Steps : from(s) \in Domain /\ v(s) = f[from(s)]
    BY ReadInside
  <2>2. Deep(1, g) => \A s \in Steps : v(s) = f[Wrap(Add(g, s))]
    BY ReadInside
  <2>3. Average(f)[g] = Sum(w, Steps) \div t
    <3>1. Average(f)[g] = Filtered(h, e, g)
      BY SameDeposit DEF Average
    <3> HIDE DEF h, e
    <3>2. Filtered(h, e, g) = Sum(w, Steps) \div t
      BY FilteredSum DEF Steps
    <3> QED
      BY <3>1, <3>2
  <2>4. \A s \in Steps : w[s] = Weighted(s) * v(s)
    OBVIOUS
  <2> HIDE DEF v, from, w
  <2>5. \A s \in Steps : u[s] \in Int /\ w[s] = (t * n) * u[s]
    <3> SUFFICES ASSUME NEW s \in Steps PROVE u[s] \in Int /\ w[s] = (t * n) * u[s]
      OBVIOUS
    <3> DEFINE i == Weighted(s)
               j == b(from(s))
    <3>1. i \in Int /\ j \in Int /\ u[s] = i * j /\ w[s] = i * (t * n * j)
      BY <1>2, <2>1, <2>4, WeightedType
    <3> HIDE DEF i, j, u, t
    <3> QED
      BY <1>1, <3>1
  <2>6. \A s \in Steps : z[s] = 0
    OBVIOUS
  <2> HIDE DEF u, z, t
  <2>7. Sum(w, Steps) = (t * n) * Sum(u, Steps) + 0 * Sum(z, Steps) /\ Sum(u, Steps) \in Int
        /\ Sum(z, Steps) \in Int
    <3>1. \A s \in Steps : u[s] \in Int /\ z[s] \in Int /\ w[s] = (t * n) * u[s] + 0 * z[s]
      <4>1. \A s \in Steps : 0 * z[s] = 0 /\ z[s] \in Int
        BY <2>6
      <4>2. t * n \in Int
        BY <1>1
      <4>3. \A s \in Steps : (t * n) * u[s] \in Int
        BY <2>5, <4>2
      <4> QED
        BY <2>5, <4>1, <4>3
    <3>2. t * n \in Int /\ 0 \in Int
      BY <1>1
    <3>3. IsFiniteSet(Steps)
      BY FiniteSteps DEF Steps
    <3> QED
      BY <3>1, <3>2, <3>3, SumLinear
  <2> DEFINE c == Sum(u, Steps)
             r == Sum(w, Steps)
             zz == Sum(z, Steps)
             a == Average(f)[g]
  <2>8. r = (t * n) * c + 0 * zz /\ c \in Int /\ zz \in Int /\ a = r \div t
    BY <2>3, <2>7
  <2> HIDE DEF c, r, zz, a
  <2>9. r = t * (n * c) /\ n * c \in Int
    <3>1. 0 * zz = 0 /\ (t * n) * c = t * (n * c) /\ n * c \in Int /\ t * (n * c) \in Int
      BY <1>1, <2>8
    <3> QED
      BY <2>8, <3>1
  <2>10. a = n * c
    <3> DEFINE y == n * c
    <3>1. y \in Int /\ r = t * y /\ a = r \div t
      BY <2>8, <2>9
    <3> HIDE DEF y
    <3>2. a = y
      BY <1>1, <3>1
    <3> QED
      BY <3>2 DEF y
  <2>11. t * a = r /\ a \in Int
    BY <2>9, <2>10
  <2>12. Deep(1, g) => r = Sum(Weights(f, g), Steps)
    <3> SUFFICES ASSUME Deep(1, g) PROVE Sum(w, Steps) = Sum(Weights(f, g), Steps)
      BY DEF r
    <3>1. \A s \in Steps : w[s] = Weights(f, g)[s]
      BY <2>2, <2>4 DEF Weights
    <3>2. IsFiniteSet(Steps)
      BY FiniteSteps DEF Steps
    <3> QED
      BY <3>1, <3>2, SumSame
  <2> QED
    BY <2>8, <2>10, <2>11, <2>12 DEF a
<1>4. \A g \in Domain : f[g] \in Int
  <2> SUFFICES ASSUME NEW g \in Domain PROVE f[g] \in Int
    OBVIOUS
  <2>1. b(g) \in Int /\ f[g] = t * n * b(g)
    BY <1>2
  <2> HIDE DEF t
  <2> QED
    BY <1>1, <2>1
<1> QED
  BY <1>3, <1>4 DEF Multiple

\* Deep in the domain means not less deep, too.
LEMMA DeepLess ==
  ASSUME NEW g \in Domain, NEW i \in Nat, NEW j \in Nat, j <= i, Deep(i, g)
  PROVE  Deep(j, g)
<1> SUFFICES ASSUME NEW d \in Axis, ~Periodic[d]
             PROVE  j <= g[d] /\ g[d] < Dims[d] * N - j
  BY DEF Deep
<1> DEFINE n == Dims[d] * N
<1>1. g[d] \in 0..(n - 1) /\ n \in Nat /\ i <= g[d] /\ g[d] < n - i
  BY PositionCoord, Extent DEF Deep
<1> HIDE DEF n
<1>2. j <= g[d] /\ g[d] < n - j
  BY <1>1
<1> QED
  BY <1>2 DEF n

\* A filter pass on the current and on the charge: what leaves a position is
\* still the charge that goes.
LEMMA AverageNet ==
  ASSUME NEW F, NEW n \in Nat, \A k \in Axis : Multiple(4^Dim * n, F[k]),
         NEW h0, NEW h1, Multiple(4^Dim * n, h0), Multiple(4^Dim * n, h1),
         NEW i \in Nat \ {0}, \A g \in Domain : Deep(i, g) => Net(F, g) = h0[g] - h1[g],
         NEW g \in Domain, Deep(i + 1, g)
  PROVE  Net([k \in Comp |-> Average(F[k])], g) = Average(h0)[g] - Average(h1)[g]
<1> DEFINE t == 4^Dim
           A == [k \in Comp |-> Average(F[k])]
           h(k) == Wrap(Shift(g, k, -1))
           y(s) == Wrap(Add(g, s))
           z(k) == [s \in Steps |-> Weighted(s) * Drop(F[k], y(s), k)]
           p == Weights(h0, g)
           q == Weights(h1, g)
           r == [s \in Steps |-> Weighted(s) * Net(F, y(s))]
           u == [s \in Steps |-> z(1)[s] + z(2)[s]]
<1>1. t \in {4, 16, 64}
  BY FourthFacts
<1>2. Deep(1, g) /\ \A s \in Steps : y(s) \in Domain /\ Deep(i, y(s))
  <2>1. i + 1 \in Nat /\ 1 \in Nat /\ 1 <= i + 1
    OBVIOUS
  <2> QED
    BY <2>1, DeepLess, Around
<1>3. \A s \in Steps : Weighted(s) \in Int
  BY WeightedType
<1>4. \A k \in Axis, e \in Domain : F[k][e] \in Int /\ Average(F[k])[e] \in Int
  BY AverageFacts
<1>5. \A e \in Domain : /\ h0[e] \in Int /\ h1[e] \in Int
                        /\ Average(h0)[e] \in Int /\ Average(h1)[e] \in Int
  BY AverageFacts
<1>6. IsFiniteSet(Steps)
  BY FiniteSteps DEF Steps
<1>7. ASSUME NEW k \in Axis
      PROVE  /\ t * Drop(A[k], g, k) = Sum(z(k), Steps) /\ Drop(A[k], g, k) \in Int
             /\ \A s \in Steps : z(k)[s] \in Int /\ Drop(F[k], y(s), k) \in Int
  <2>1. /\ h(k) \in Domain /\ Deep(1, h(k))
        /\ \A s \in Steps : /\ Wrap(Add(h(k), s)) = Wrap(Shift(y(s), k, -1))
                            /\ Wrap(Add(h(k), s)) \in Domain
    <3>1. /\ h(k) \in Domain /\ Deep(i, h(k))
          /\ \A s \in Steps : Wrap(Add(h(k), s)) = Wrap(Shift(y(s), k, -1))
      BY Below
    <3>2. Deep(1, h(k))
      <4>1. 1 \in Nat /\ 1 <= i
        OBVIOUS
      <4> HIDE DEF h
      <4> QED
        BY <3>1, <4>1, DeepLess
    <3>3. \A s \in Steps : Wrap(Add(h(k), s)) \in Domain
      <4>1. 0 + 1 = 1 /\ 0 \in Nat
        OBVIOUS
      <4> HIDE DEF h
      <4> QED
        BY <3>1, <3>2, <4>1, Around
    <3> QED
      BY <3>1, <3>2, <3>3
  <2> DEFINE v == Weights(F[k], g)
             w == Weights(F[k], h(k))
             a == Average(F[k])
  <2>2. t * a[g] = Sum(v, Steps) /\ t * a[h(k)] = Sum(w, Steps)
    <3> HIDE DEF h
    <3> QED
      BY <1>2, <2>1, AverageFacts
  <2>3. \A s \in Steps : /\ v[s] = Weighted(s) * F[k][y(s)]
                         /\ w[s] = Weighted(s) * F[k][Wrap(Shift(y(s), k, -1))]
                         /\ Drop(F[k], y(s), k) = F[k][y(s)] - F[k][Wrap(Shift(y(s), k, -1))]
                         /\ z(k)[s] = Weighted(s) * Drop(F[k], y(s), k)
    BY <2>1 DEF Weights, Drop
  <2>4. \A s \in Steps : F[k][y(s)] \in Int /\ F[k][Wrap(Shift(y(s), k, -1))] \in Int
    <3> SUFFICES ASSUME NEW s \in Steps
                 PROVE  F[k][y(s)] \in Int /\ F[k][Wrap(Shift(y(s), k, -1))] \in Int
      OBVIOUS
    <3>1. y(s) \in Domain /\ Wrap(Shift(y(s), k, -1)) \in Domain
      BY <1>2, <2>1
    <3> HIDE DEF y
    <3> QED
      BY <1>4, <3>1
  <2>5. Drop(A[k], g, k) = a[g] - a[h(k)] /\ a[g] \in Int /\ a[h(k)] \in Int
    <3>1. k \in Comp
      BY OtherAxes DEF Comp
    <3> QED
      BY <1>4, <2>1, <3>1 DEF Drop
  <2> HIDE DEF v, w, a, z, y, h
  <2>6. \A s \in Steps : /\ v[s] \in Int /\ w[s] \in Int /\ Drop(F[k], y(s), k) \in Int
                         /\ z(k)[s] \in Int /\ z(k)[s] = 1 * v[s] + (-1) * w[s]
    <3> SUFFICES ASSUME NEW s \in Steps
                 PROVE  /\ v[s] \in Int /\ w[s] \in Int /\ Drop(F[k], y(s), k) \in Int
                        /\ z(k)[s] \in Int /\ z(k)[s] = 1 * v[s] + (-1) * w[s]
      OBVIOUS
    <3> DEFINE c == Weighted(s)
               d == F[k][y(s)]
               e == F[k][Wrap(Shift(y(s), k, -1))]
               o == Drop(F[k], y(s), k)
    <3>1. /\ c \in Int /\ d \in Int /\ e \in Int /\ o = d - e
          /\ v[s] = c * d /\ w[s] = c * e /\ z(k)[s] = c * o
      BY <1>3, <2>3, <2>4
    <3> HIDE DEF c, d, e, o
    <3>2. c * d \in Int /\ c * e \in Int /\ c * o = c * d - c * e /\ o \in Int
      BY <3>1
    <3> QED
      BY <3>1, <3>2 DEF o
  <2>7. Sum(z(k), Steps) = 1 * Sum(v, Steps) + (-1) * Sum(w, Steps)
        /\ Sum(v, Steps) \in Int /\ Sum(w, Steps) \in Int
    <3>1. 1 \in Int /\ -1 \in Int
      OBVIOUS
    <3> QED
      BY <1>6, <2>6, <3>1, SumLinear
  <2>8. t * Drop(A[k], g, k) = Sum(z(k), Steps) /\ Drop(A[k], g, k) \in Int
    <3> DEFINE b == a[g]
               c == a[h(k)]
               e == Drop(A[k], g, k)
    <3>1. /\ e = b - c /\ b \in Int /\ c \in Int
          /\ Sum(z(k), Steps) = 1 * (t * b) + (-1) * (t * c)
      BY <2>2, <2>5, <2>7
    <3> HIDE DEF b, c, e, t
    <3>2. t * e = 1 * (t * b) + (-1) * (t * c) /\ e \in Int
      BY <1>1, <3>1
    <3> QED
      BY <3>1, <3>2 DEF e
  <2> QED
    BY <2>6, <2>8
<1>8. ASSUME NEW k \in Comp
      PROVE  /\ t * Drop(A[k], g, k) = Sum(z(k), Steps) /\ Drop(A[k], g, k) \in Int
             /\ \A s \in Steps : z(k)[s] \in Int /\ Drop(F[k], y(s), k) \in Int
  <2>1. CASE k \in Axis
    BY <1>7, <2>1
  <2>2. CASE k \notin Axis
    <3>1. Drop(A[k], g, k) = 0 /\ \A s \in Steps : Drop(F[k], y(s), k) = 0
      BY <2>2 DEF Drop
    <3>2. \A s \in Steps : z(k)[s] = 0
      <4> SUFFICES ASSUME NEW s \in Steps PROVE z(k)[s] = 0
        OBVIOUS
      <4>1. z(k)[s] = Weighted(s) * 0
        BY <3>1
      <4> QED
        BY <1>3, <4>1
    <3> HIDE DEF z, t, A
    <3>3. Sum(z(k), Steps) = 0
      BY <1>6, <3>2, SumZero
    <3>4. t * 0 = 0
      BY <1>1
    <3> QED
      BY <3>1, <3>2, <3>3, <3>4
  <2> QED
    BY <2>1, <2>2
<1>9. 1 \in Comp /\ 2 \in Comp /\ 3 \in Comp
  BY DEF Comp
<1>10. \A s \in Steps : /\ r[s] = Weighted(s) * Net(F, y(s)) /\ u[s] = z(1)[s] + z(2)[s]
                        /\ \A k \in Comp : z(k)[s] = Weighted(s) * Drop(F[k], y(s), k)
                        /\ p[s] = Weighted(s) * h0[y(s)] /\ q[s] = Weighted(s) * h1[y(s)]
                        /\ Net(F, y(s)) = h0[y(s)] - h1[y(s)]
                        /\ h0[y(s)] \in Int /\ h1[y(s)] \in Int
  BY <1>2, <1>5 DEF Weights
<1> HIDE DEF z, p, q, r, u, y, h
<1>11. ASSUME NEW s \in Steps
       PROVE  /\ z(1)[s] \in Int /\ z(2)[s] \in Int /\ z(3)[s] \in Int /\ u[s] \in Int
              /\ p[s] \in Int /\ q[s] \in Int
              /\ u[s] = 1 * z(1)[s] + 1 * z(2)[s] /\ r[s] = 1 * u[s] + 1 * z(3)[s]
              /\ r[s] = 1 * p[s] + (-1) * q[s]
  <2> DEFINE c == Weighted(s)
             d1 == Drop(F[1], y(s), 1)
             d2 == Drop(F[2], y(s), 2)
             d3 == Drop(F[3], y(s), 3)
             e0 == h0[y(s)]
             e1 == h1[y(s)]
  <2>1. /\ c \in Int /\ d1 \in Int /\ d2 \in Int /\ d3 \in Int /\ e0 \in Int /\ e1 \in Int
        /\ z(1)[s] = c * d1 /\ z(2)[s] = c * d2 /\ z(3)[s] = c * d3
        /\ u[s] = z(1)[s] + z(2)[s] /\ p[s] = c * e0 /\ q[s] = c * e1
        /\ z(1)[s] \in Int /\ z(2)[s] \in Int /\ z(3)[s] \in Int
    BY <1>3, <1>8, <1>9, <1>10
  <2>2. r[s] = c * (d1 + d2 + d3) /\ r[s] = c * (e0 - e1)
    BY <1>10 DEF Net
  <2> HIDE DEF c, d1, d2, d3, e0, e1
  <2>3. /\ c * (d1 + d2 + d3) = c * d1 + c * d2 + c * d3
        /\ c * (e0 - e1) = c * e0 - c * e1
        /\ c * d1 \in Int /\ c * d2 \in Int /\ c * d3 \in Int /\ c * e0 \in Int /\ c * e1 \in Int
    BY <2>1
  <2> QED
    BY <2>1, <2>2, <2>3
<1>12. 1 \in Int /\ -1 \in Int
  OBVIOUS
<1>13. /\ Sum(u, Steps) = 1 * Sum(z(1), Steps) + 1 * Sum(z(2), Steps)
       /\ Sum(z(1), Steps) \in Int /\ Sum(z(2), Steps) \in Int
  BY <1>6, <1>11, <1>12, SumLinear
<1>14. /\ Sum(r, Steps) = 1 * Sum(u, Steps) + 1 * Sum(z(3), Steps)
       /\ Sum(u, Steps) \in Int /\ Sum(z(3), Steps) \in Int
  <2>1. \A s \in Steps : u[s] \in Int /\ z(3)[s] \in Int /\ r[s] = 1 * u[s] + 1 * z(3)[s]
    BY <1>11
  <2> QED
    BY <1>6, <1>12, <2>1, SumLinear
<1>15. /\ Sum(r, Steps) = 1 * Sum(p, Steps) + (-1) * Sum(q, Steps)
       /\ Sum(p, Steps) \in Int /\ Sum(q, Steps) \in Int
  <2>1. \A s \in Steps : p[s] \in Int /\ q[s] \in Int /\ r[s] = 1 * p[s] + (-1) * q[s]
    BY <1>11
  <2> QED
    BY <1>6, <1>12, <2>1, SumLinear
<1>16. t * Average(h0)[g] = Sum(p, Steps) /\ t * Average(h1)[g] = Sum(q, Steps)
  BY <1>2, AverageFacts DEF p, q
<1> DEFINE a1 == Drop(A[1], g, 1)
           a2 == Drop(A[2], g, 2)
           a3 == Drop(A[3], g, 3)
           b0 == Average(h0)[g]
           b1 == Average(h1)[g]
<1>17. /\ a1 \in Int /\ a2 \in Int /\ a3 \in Int /\ b0 \in Int /\ b1 \in Int
       /\ Sum(z(1), Steps) = t * a1 /\ Sum(z(2), Steps) = t * a2 /\ Sum(z(3), Steps) = t * a3
       /\ Sum(p, Steps) = t * b0 /\ Sum(q, Steps) = t * b1
  BY <1>5, <1>8, <1>9, <1>16
<1>18. Net(A, g) = a1 + a2 + a3
  BY DEF Net
<1> HIDE DEF a1, a2, a3, b0, b1, t, A
<1>19. 1 * (1 * (t * a1) + 1 * (t * a2)) + 1 * (t * a3) = 1 * (t * b0) + (-1) * (t * b1)
  BY <1>13, <1>14, <1>15, <1>17
<1>20. a1 + a2 + a3 = b0 - b1
  <2>1. CASE t = 4
    BY <1>17, <1>19, <2>1
  <2>2. CASE t = 16
    BY <1>17, <1>19, <2>2
  <2>3. CASE t = 64
    BY <1>17, <1>19, <2>3
  <2> QED
    BY <1>1, <2>1, <2>2, <2>3
<1> QED
  BY <1>18, <1>20 DEF A, b0, b1

\* Where two densities agree, so do they after a filter pass, one cell
\* further in.
LEMMA AverageSame ==
  ASSUME NEW f, NEW h, NEW n \in Nat, Multiple(4^Dim * n, f), Multiple(4^Dim * n, h),
         NEW i \in Nat, \A g \in Domain : Deep(i, g) => f[g] = h[g],
         NEW g \in Domain, Deep(i + 1, g)
  PROVE  Average(f)[g] = Average(h)[g]
<1> DEFINE t == 4^Dim
           a == Average(f)[g]
           b == Average(h)[g]
<1>1. t \in {4, 16, 64}
  BY FourthFacts
<1>2. Deep(1, g)
  <2>1. i + 1 \in Nat /\ 1 \in Nat /\ 1 <= i + 1
    OBVIOUS
  <2> QED
    BY <2>1, DeepLess
<1>3. /\ a \in Int /\ b \in Int
      /\ t * a = Sum(Weights(f, g), Steps) /\ t * b = Sum(Weights(h, g), Steps)
  BY <1>2, AverageFacts
<1>4. \A s \in Steps : Weights(f, g)[s] = Weights(h, g)[s]
  <2>1. \A s \in Steps : Wrap(Add(g, s)) \in Domain /\ Deep(i, Wrap(Add(g, s)))
    BY Around
  <2> QED
    BY <2>1 DEF Weights
<1>5. Sum(Weights(f, g), Steps) = Sum(Weights(h, g), Steps)
  <2>1. IsFiniteSet(Steps)
    BY FiniteSteps DEF Steps
  <2> QED
    BY <1>4, <2>1, SumSame
<1> HIDE DEF t, a, b
<1>6. a = b
  <2>1. CASE t = 4
    BY <1>3, <1>5, <2>1
  <2>2. CASE t = 16
    BY <1>3, <1>5, <2>2
  <2>3. CASE t = 64
    BY <1>3, <1>5, <2>3
  <2> QED
    BY <1>1, <2>1, <2>2, <2>3
<1> QED
  BY <1>6 DEF a, b

\* A density after each of the filter passes.
Smoothing(f, n, h) == h = [i \in 0..n |-> IF i = 0 THEN f ELSE Average(h[i - 1])]
Smooth(f) == CHOOSE h : Smoothing(f, FilterTimes, h)

\* There is such a sequence of densities.
LEMMA SmoothingExists ==
  ASSUME NEW f, NEW n \in Nat
  PROVE  \E h : Smoothing(f, n, h)
<1> DEFINE Bad == {k \in Nat : ~ \E h : Smoothing(f, k, h)}
<1> SUFFICES ASSUME Bad # {} PROVE FALSE
  OBVIOUS
<1>1. PICK k \in Bad : \A j \in Bad : k <= j
  BY LeastOf
<1>2. k # 0
  <2> DEFINE h == [i \in 0..0 |-> f]
  <2>1. h = [i \in 0..0 |-> IF i = 0 THEN f ELSE Average(h[i - 1])]
    OBVIOUS
  <2>2. Smoothing(f, 0, h)
    BY <2>1 DEF Smoothing
  <2> QED
    BY <1>1, <2>2
<1>3. k - 1 \in Nat /\ ~(k <= k - 1) /\ k \in Nat
  BY <1>1, <1>2
<1>4. PICK h : Smoothing(f, k - 1, h)
  BY <1>1, <1>3
<1> DEFINE l == [i \in 0..k |-> IF i = k THEN Average(h[k - 1]) ELSE h[i]]
<1>5. ASSUME NEW i \in 0..k
      PROVE  l[i] = IF i = 0 THEN f ELSE Average(l[i - 1])
  <2>1. CASE i = k
    <3>1. i # 0 /\ i - 1 \in 0..k /\ i - 1 # k
      BY <1>2, <1>3, <2>1
    <3>2. l[i - 1] = h[k - 1] /\ l[i] = Average(h[k - 1])
      BY <2>1, <3>1
    <3> QED
      BY <3>1, <3>2
  <2>2. CASE i # k
    <3>1. i \in 0..(k - 1) /\ l[i] = h[i]
      BY <1>3, <2>2
    <3>2. h[i] = IF i = 0 THEN f ELSE Average(h[i - 1])
      BY <1>4, <3>1 DEF Smoothing
    <3>3. CASE i = 0
      BY <3>1, <3>2, <3>3
    <3>4. CASE i # 0
      <4>1. i - 1 \in 0..k /\ i - 1 # k
        BY <1>3, <3>1, <3>4
      <4>2. l[i - 1] = h[i - 1]
        BY <4>1
      <4> QED
        BY <3>1, <3>2, <3>4, <4>2
    <3> QED
      BY <3>3, <3>4
  <2> QED
    BY <2>1, <2>2
<1>6. l = [i \in 0..k |-> l[i]]
  OBVIOUS
<1> HIDE DEF l
<1>7. l = [i \in 0..k |-> IF i = 0 THEN f ELSE Average(l[i - 1])]
  BY <1>5, <1>6
<1>8. Smoothing(f, k, l)
  BY <1>7 DEF Smoothing
<1> QED
  BY <1>1, <1>8

LEMMA SmoothIs ==
  ASSUME NEW f
  PROVE  /\ Smooth(f)[0] = f
         /\ \A i \in Nat : i < FilterTimes => Smooth(f)[i + 1] = Average(Smooth(f)[i])
<1>1. FilterTimes \in Nat
  BY LatticeAssumption
<1> DEFINE h == Smooth(f)
<1>2. \E l : Smoothing(f, FilterTimes, l)
  BY <1>1, SmoothingExists
<1>3. Smoothing(f, FilterTimes, h)
  BY <1>2 DEF Smooth
<1> HIDE DEF h
<1>4. h = [i \in 0..FilterTimes |-> IF i = 0 THEN f ELSE Average(h[i - 1])]
  BY <1>3 DEF Smoothing
<1>5. h[0] = f
  <2>1. 0 \in 0..FilterTimes
    BY <1>1
  <2> QED
    BY <1>4, <2>1
<1>6. ASSUME NEW i \in Nat, i < FilterTimes
      PROVE  h[i + 1] = Average(h[i])
  <2>1. i + 1 \in 0..FilterTimes /\ i + 1 # 0 /\ (i + 1) - 1 = i
    BY <1>1, <1>6
  <2> DEFINE j == i + 1
  <2>2. j \in 0..FilterTimes /\ j # 0 /\ j - 1 = i
    BY <2>1
  <2> HIDE DEF j
  <2>3. h[j] = Average(h[j - 1])
    BY <1>4, <2>2
  <2>4. h[j] = Average(h[i])
    BY <2>2, <2>3
  <2> QED
    BY <2>4 DEF j
<1> QED
  BY <1>5, <1>6 DEF h

\* Each pass takes its division from the deposit's multiple.
LEMMA SmoothMultiple ==
  ASSUME NEW f, Multiple(Fourth(FilterTimes), f), NEW i \in 0..FilterTimes
  PROVE  Multiple(Fourth(FilterTimes - i), Smooth(f)[i])
<1> DEFINE Bad == {k \in Nat : k <= FilterTimes
                               /\ ~Multiple(Fourth(FilterTimes - k), Smooth(f)[k])}
<1>1. FilterTimes \in Nat
  BY LatticeAssumption
<1>2. ASSUME Bad # {} PROVE FALSE
  <2>1. PICK k \in Bad : \A j \in Bad : k <= j
    BY <1>2, LeastOf
  <2>2. CASE k = 0
    <3>1. FilterTimes - k = FilterTimes
      BY <1>1, <2>2
    <3>2. Smooth(f)[k] = f
      BY <2>2, SmoothIs
    <3> QED
      BY <2>1, <3>1, <3>2
  <2>3. CASE k # 0
    <3> DEFINE j == k - 1
               n == FilterTimes - k
    <3>1. /\ j \in Nat /\ j < FilterTimes /\ j <= FilterTimes /\ ~(k <= j) /\ k = j + 1
          /\ n \in Nat /\ FilterTimes - j = n + 1
      BY <1>1, <2>1, <2>3
    <3>2. Multiple(Fourth(FilterTimes - j), Smooth(f)[j])
      BY <2>1, <3>1
    <3>3. Fourth(n) \in Nat /\ Fourth(n + 1) = 4^Dim * Fourth(n)
      BY <3>1, FourthFacts
    <3>4. Multiple(4^Dim * Fourth(n), Smooth(f)[j])
      BY <3>1, <3>2, <3>3
    <3>5. Multiple(Fourth(n), Average(Smooth(f)[j]))
      BY <3>3, <3>4, AverageFacts
    <3>6. Smooth(f)[k] = Average(Smooth(f)[j])
      BY <3>1, SmoothIs
    <3> QED
      BY <2>1, <3>5, <3>6
  <2> QED
    BY <2>2, <2>3
<1>3. i \in Nat /\ i <= FilterTimes
  BY <1>1
<1> QED
  BY <1>2, <1>3

\* Densities that agree away from the open ends, after every pass.
LEMMA SmoothSame ==
  ASSUME NEW f, Multiple(Fourth(FilterTimes), f), NEW h, Multiple(Fourth(FilterTimes), h),
         \A g \in Domain : Deep(1, g) => f[g] = h[g],
         NEW i \in 0..FilterTimes
  PROVE  \A g \in Domain : Deep(i + 1, g) => Smooth(f)[i][g] = Smooth(h)[i][g]
<1> DEFINE Good(k) == \A g \in Domain : Deep(k + 1, g) => Smooth(f)[k][g] = Smooth(h)[k][g]
           Bad == {k \in Nat : k <= FilterTimes /\ ~Good(k)}
<1>1. FilterTimes \in Nat
  BY LatticeAssumption
<1>2. ASSUME Bad # {} PROVE FALSE
  <2>1. PICK k \in Bad : \A j \in Bad : k <= j
    BY <1>2, LeastOf
  <2>2. CASE k = 0
    <3>1. Smooth(f)[k] = f /\ Smooth(h)[k] = h /\ k + 1 = 1
      BY <2>2, SmoothIs
    <3>2. Good(k)
      BY <3>1
    <3> QED
      BY <2>1, <3>2
  <2>3. CASE k # 0
    <3> DEFINE j == k - 1
               n == FilterTimes - k
    <3>1. /\ j \in Nat /\ j < FilterTimes /\ j <= FilterTimes /\ ~(k <= j) /\ k = j + 1
          /\ n \in Nat /\ FilterTimes - j = n + 1 /\ j \in 0..FilterTimes
      BY <1>1, <2>1, <2>3
    <3>2. Good(j)
      BY <2>1, <3>1
    <3>3. Fourth(n) \in Nat /\ Fourth(n + 1) = 4^Dim * Fourth(n)
      BY <3>1, FourthFacts
    <3>4. Multiple(4^Dim * Fourth(n), Smooth(f)[j]) /\ Multiple(4^Dim * Fourth(n), Smooth(h)[j])
      BY <3>1, <3>3, SmoothMultiple
    <3>5. Smooth(f)[k] = Average(Smooth(f)[j]) /\ Smooth(h)[k] = Average(Smooth(h)[j])
      BY <3>1, SmoothIs
    <3>6. ASSUME NEW g \in Domain, Deep(k + 1, g)
          PROVE  Smooth(f)[k][g] = Smooth(h)[k][g]
      <4>1. k \in Nat /\ Deep(k + 1, g) /\ \A e \in Domain : Deep(k, e) => Smooth(f)[j][e] = Smooth(h)[j][e]
        BY <2>1, <3>1, <3>2, <3>6
      <4>2. Average(Smooth(f)[j])[g] = Average(Smooth(h)[j])[g]
        BY <3>3, <3>4, <4>1, AverageSame
      <4> QED
        BY <3>5, <4>2
    <3> QED
      BY <2>1, <3>6
  <2> QED
    BY <2>2, <2>3
<1>3. i \in Nat /\ i <= FilterTimes
  BY <1>1
<1>4. Good(i)
  BY <1>2, <1>3
<1> QED
  BY <1>4

\* Every deposit is multiplied by all that the filter passes divide by.
LEMMA ScaleFourth ==
  FilterScale = Fourth(FilterTimes) /\ FilterScale \in Nat /\ FilterTimes \in Nat
<1>1. FilterTimes \in Nat
  BY LatticeAssumption
<1>2. Fourth(FilterTimes) \in Nat
  BY <1>1, FourthFacts
<1> QED
  BY <1>1, <1>2 DEF FilterScale, Fourth

\* A sum of multiples is one.
LEMMA SumMultiple ==
  ASSUME NEW S, IsFiniteSet(S), NEW n \in Int, NEW u, \A e \in S : u[e] \in Int
  PROVE  Sum([e \in S |-> n * u[e]], S) = n * Sum(u, S) /\ Sum(u, S) \in Int
<1> DEFINE z == [e \in S |-> 0]
           w == [e \in S |-> n * u[e]]
<1>1. \A e \in S : u[e] \in Int /\ z[e] \in Int /\ w[e] = n * u[e] + 0 * z[e]
  <2> SUFFICES ASSUME NEW e \in S
               PROVE  u[e] \in Int /\ z[e] \in Int /\ w[e] = n * u[e] + 0 * z[e]
    OBVIOUS
  <2> DEFINE c == u[e]
  <2>1. c \in Int /\ w[e] = n * c /\ z[e] = 0
    OBVIOUS
  <2> HIDE DEF c, w, z
  <2>2. n * c \in Int
    BY <2>1
  <2>3. w[e] = n * c + 0 * z[e] /\ c \in Int /\ z[e] \in Int
    BY <2>1, <2>2
  <2> QED
    BY <2>3 DEF c
<1>2. n \in Int /\ 0 \in Int /\ IsFiniteSet(S)
  OBVIOUS
<1> HIDE DEF w, z
<1>3. Sum(w, S) = n * Sum(u, S) + 0 * Sum(z, S)
  <2> DEFINE k == 0
  <2>1. \A e \in S : u[e] \in Int /\ z[e] \in Int /\ w[e] = n * u[e] + k * z[e]
    BY <1>1
  <2>2. k \in Int
    OBVIOUS
  <2> HIDE DEF k
  <2>3. Sum(w, S) = n * Sum(u, S) + k * Sum(z, S)
    BY <1>2, <2>1, <2>2, SumLinear
  <2> QED
    BY <2>3 DEF k
<1>4. Sum(u, S) \in Int /\ Sum(z, S) \in Int
  BY <1>1, <1>2, SumType
<1> DEFINE c == Sum(u, S)
           y == Sum(z, S)
<1>5. c \in Int /\ y \in Int /\ Sum(w, S) = n * c + 0 * y
  BY <1>3, <1>4
<1> HIDE DEF c, y
<1>6. n * c \in Int /\ 0 * y = 0
  BY <1>5
<1>7. Sum(w, S) = n * c /\ c \in Int
  BY <1>5, <1>6
<1> QED
  BY <1>7 DEF c, w

\* Deposits are multiples of what the filter passes divide them by.
LEMMA ChargeMultiple ==
  ASSUME NEW p, NEW q, p = Gone \/ Legal(M!Within(p), q)
  PROVE  Multiple(FilterScale, ChargeAfter(p, q))
<1> SUFFICES ASSUME NEW g \in Domain
             PROVE  \E a \in Int : ChargeAfter(p, q)[g] = FilterScale * a
  BY DEF Multiple
<1>1. FilterScale \in Int
  BY ScaleType
<1>2. CASE p = Gone
  <2>1. ChargeAfter(p, q)[g] = 0
    BY <1>2 DEF ChargeAfter
  <2>2. FilterScale * 0 = 0
    BY <1>1
  <2> QED
    BY <2>1, <2>2
<1>3. CASE p # Gone
  <2> DEFINE w == [o \in Near |-> DepositRho(M!Within(p), q, o)]
             u == [o \in Near |-> Cloud(M!Within(p), q, o)]
             S == Landing(p, q, g)
  <2>1. ChargeAfter(p, q)[g] = Sum(w, S)
    BY <1>3 DEF ChargeAfter
  <2>2. IsFiniteSet(S) /\ S \subseteq Near
    BY LandingFinite
  <2>3. Legal(M!Within(p), q)
    BY <1>3
  <2>4. ASSUME NEW o \in Near PROVE u[o] \in Int /\ w[o] = FilterScale * u[o]
    <3>1. M!Within(p) \in [Axis -> Int] /\ q \in [Axis -> Int] /\ o \in [Axis -> Int]
      BY <2>3, LegalTypes
    <3> QED
      BY <3>1, DepositRhoIs
  <2> HIDE DEF w, u, S
  <2>5. \A o \in S : u[o] \in Int /\ w[o] = FilterScale * u[o]
    BY <2>2, <2>4
  <2> DEFINE v == [o \in S |-> FilterScale * u[o]]
  <2>6. Sum(v, S) = FilterScale * Sum(u, S) /\ Sum(u, S) \in Int
    BY <1>1, <2>2, <2>5, SumMultiple
  <2>7. \A o \in S : w[o] = v[o]
    BY <2>5
  <2> HIDE DEF v
  <2>8. Sum(w, S) = Sum(v, S)
    BY <2>2, <2>7, SumSame
  <2> QED
    BY <2>1, <2>6, <2>8
<1> QED
  BY <1>2, <1>3

\* And so is its current.
LEMMA CurrentMultiple ==
  ASSUME NEW p, NEW q, p = Gone \/ Legal(M!Within(p), q), NEW k \in Axis
  PROVE  Multiple(FilterScale, Current(p, q, k))
<1> SUFFICES ASSUME NEW g \in Domain
             PROVE  \E a \in Int : Current(p, q, k)[g] = FilterScale * a
  BY DEF Multiple
<1>1. FilterScale \in Int
  BY ScaleType
<1>2. CASE p = Gone
  <2>1. Current(p, q, k)[g] = 0
    BY <1>2 DEF Current
  <2>2. FilterScale * 0 = 0
    BY <1>1
  <2> QED
    BY <2>1, <2>2
<1>3. CASE p # Gone
  <2> DEFINE v == M!Within(p)
             w == [o \in Near |-> DepositJ(v, q, Across, k, o)]
             u == [o \in Near |-> -(Flow(v[k], q[k], o[k]) * Mean(v, q, Axis \ {k}, o))]
             S == Landing(p, q, g)
  <2>1. Current(p, q, k)[g] = Sum(w, S)
    BY <1>3 DEF Current
  <2>2. IsFiniteSet(S) /\ S \subseteq Near
    BY LandingFinite
  <2>3. Legal(v, q)
    BY <1>3
  <2>4. ASSUME NEW o \in Near PROVE u[o] \in Int /\ w[o] = FilterScale * u[o]
    <3> DEFINE a == Flow(v[k], q[k], o[k])
               b == Mean(v, q, Axis \ {k}, o)
    <3>1. w[o] = -(FilterScale * (a * b)) /\ b \in Int
      BY <2>3, CurrentIs
    <3>2. v[k] \in 0..(K - 1) /\ q[k] \in (-K)..K /\ o[k] \in -1..2
      BY <2>3, LegalTypes
    <3>3. a \in Int
      BY <3>2, FlowFacts
    <3>4. u[o] = -(a * b)
      OBVIOUS
    <3> HIDE DEF a, b, w, u
    <3> QED
      <4> DEFINE c == a * b
      <4>1. c \in Int /\ w[o] = -(FilterScale * c) /\ u[o] = -c
        BY <3>1, <3>3, <3>4
      <4> HIDE DEF c
      <4> QED
        BY <1>1, <4>1
  <2> HIDE DEF w, u, S
  <2>5. \A o \in S : u[o] \in Int /\ w[o] = FilterScale * u[o]
    BY <2>2, <2>4
  <2> DEFINE y == [o \in S |-> FilterScale * u[o]]
  <2>6. Sum(y, S) = FilterScale * Sum(u, S) /\ Sum(u, S) \in Int
    BY <1>1, <2>2, <2>5, SumMultiple
  <2>7. \A o \in S : w[o] = y[o]
    BY <2>5
  <2> HIDE DEF y
  <2>8. Sum(w, S) = Sum(y, S)
    BY <2>2, <2>7, SumSame
  <2> QED
    BY <2>1, <2>6, <2>8
<1> QED
  BY <1>2, <1>3

-----------------------------------------------------------------------------
(* Deposits and filter passes on all ranks *)

\* A density in the arrays of the ranks, and on the lattice.
Same(f) == \A r \in Rank, c \in Cell : f[r][c] = f[HomeRank(r, c)][HomeCell(r, c)]
Lattice(f) == [g \in Domain |-> f[Owner(g)][LocalCell(Owner(g), g)]]

\* send_guard_cells and the folding leave every copy with one value.
LEMMA RefreshedSame ==
  ASSUME NEW f
  PROVE  Same(Refreshed(f)) /\ Lattice(Refreshed(f)) = Lattice(f)
<1>1. ASSUME NEW r \in Rank, NEW c \in Cell
      PROVE  /\ Refreshed(f)[r][c] = f[HomeRank(r, c)][HomeCell(r, c)]
             /\ Refreshed(f)[HomeRank(r, c)][HomeCell(r, c)] = f[HomeRank(r, c)][HomeCell(r, c)]
  <2> DEFINE s == HomeRank(r, c)
             b == HomeCell(r, c)
  <2>1. s \in Rank /\ b \in Cell /\ HomeRank(s, b) = s /\ HomeCell(s, b) = b
    BY HomeFacts
  <2>2. Refreshed(f)[r][c] = f[s][b]
    BY DEF Refreshed
  <2> HIDE DEF s, b
  <2>3. Refreshed(f)[s][b] = f[s][b]
    BY <2>1 DEF Refreshed
  <2> QED
    BY <2>2, <2>3 DEF s, b
<1>2. ASSUME NEW g \in Domain
      PROVE  Refreshed(f)[Owner(g)][LocalCell(Owner(g), g)] = f[Owner(g)][LocalCell(Owner(g), g)]
  <2> DEFINE r == Owner(g)
             c == LocalCell(r, g)
  <2>1. r \in Rank /\ c \in Interior /\ c \in Cell
    BY OwnerFacts
  <2>2. HomeRank(r, c) = r /\ HomeCell(r, c) = c
    BY <2>1, InteriorFacts
  <2> HIDE DEF r, c
  <2>3. Refreshed(f)[r][c] = f[r][c]
    BY <1>1, <2>1, <2>2
  <2> QED
    BY <2>3 DEF r, c
<1> QED
  BY <1>1, <1>2 DEF Same, Lattice

LEMMA FoldedSame ==
  ASSUME NEW f
  PROVE  Same(Folded(f))
<1> SUFFICES ASSUME NEW r \in Rank, NEW c \in Cell
             PROVE  Folded(f)[r][c] = Folded(f)[HomeRank(r, c)][HomeCell(r, c)]
  BY DEF Same
<1> DEFINE s == HomeRank(r, c)
           b == HomeCell(r, c)
<1>1. s \in Rank /\ b \in Cell /\ Global(s, b) = Global(r, c)
  BY HomeFacts
<1> HIDE DEF s, b
<1>2. Folded(f)[r][c] = Folded(f)[s][b]
  BY <1>1 DEF Folded
<1> QED
  BY <1>2 DEF s, b

\* The charge that is deposited, folded.
LEMMA FoldedCharge ==
  ASSUME NEW p, Inside(p), NEW q \in Moves
  PROVE  Lattice(Folded(DepositedRho(p, q))) = ChargeAfter(p, q)
<1> DEFINE u == M!Within(p)
           D(o) == DepositRho(u, q, o)
           w == [o \in Near |-> D(o)]
           F == DepositedRho(p, q)
<1>1. p \in [Axis -> Nat] /\ (\A d \in Axis : p[d] < Dims[d] * N * K) /\ p # Gone
  BY NotGone DEF Inside
<1>2. \A o \in Near : w[o] \in Int
  <2> SUFFICES ASSUME NEW o \in Near PROVE D(o) \in Int
    OBVIOUS
  <2>1. u \in [Axis -> Int] /\ q \in [Axis -> Int] /\ o \in [Axis -> Int]
    BY InsideLegal, LegalTypes
  <2> DEFINE c == Cloud(u, q, o)
  <2>2. D(o) = FilterScale * c /\ c \in Int /\ FilterScale \in Int
    BY <2>1, DepositRhoIs, ScaleType
  <2> HIDE DEF D, c
  <2> QED
    BY <2>2
<1>3. M!OffsetSet(p, q) \subseteq Near
  BY LandingFinite
<1>4. F = Spread(p, q, w)
  <2>1. \A s \in Rank, c \in Cell :
          F[s][c] = IF s = Holder(p) /\ FromPtc(p, c) \in M!OffsetSet(p, q)
                    THEN D(FromPtc(p, c)) ELSE 0
    BY DEF DepositedRho
  <2>2. F = [s \in Rank |-> [c \in Cell |-> F[s][c]]]
    BY DEF DepositedRho
  <2> HIDE DEF D, F
  <2>3. \A s \in Rank, c \in Cell :
          F[s][c] = IF s = Holder(p) /\ FromPtc(p, c) \in M!OffsetSet(p, q)
                    THEN w[FromPtc(p, c)] ELSE 0
    BY <1>3, <2>1
  <2> HIDE DEF w
  <2> QED
    BY <2>2, <2>3 DEF Spread
<1>5. ASSUME NEW g \in Domain
      PROVE  Folded(F)[Owner(g)][LocalCell(Owner(g), g)] = ChargeAfter(p, q)[g]
  <2>1. ChargeAfter(p, q)[g] = Sum(w, Landing(p, q, g))
    BY <1>1 DEF ChargeAfter
  <2> HIDE DEF w, F
  <2>2. Folded(Spread(p, q, w))[Owner(g)][LocalCell(Owner(g), g)] = Sum(w, Landing(p, q, g))
    BY <1>1, <1>2, FoldedSpread
  <2> QED
    BY <1>4, <2>1, <2>2
<1> HIDE DEF F
<1>6. Lattice(Folded(F)) = [g \in Domain |-> ChargeAfter(p, q)[g]]
  BY <1>5 DEF Lattice
<1> QED
  BY <1>6 DEF F, ChargeAfter

\* No particle leaves no charge,
LEMMA FoldedNone ==
  ASSUME NEW q
  PROVE  Lattice(Folded(Blank)) = ChargeAfter(Gone, q)
<1>1. ASSUME NEW g \in Domain
      PROVE  Folded(Blank)[Owner(g)][LocalCell(Owner(g), g)] = 0
  <2> DEFINE r == Owner(g)
             c == LocalCell(r, g)
             T == Copies(g)
             f == Blank
             v == [y \in T |-> f[y[1]][y[2]]]
  <2>1. r \in Rank /\ c \in Cell /\ Global(r, c) = g
    BY OwnerFacts
  <2> HIDE DEF r, c
  <2>2. IsFiniteSet(T) /\ \A y \in T : y[1] \in Rank /\ y[2] \in Cell
    BY <2>1, CopiesAre
  <2>3. \A y \in T : v[y] = 0
    BY <2>2 DEF Blank
  <2>4. Folded(f)[r][c] = MapThenSumSet(LAMBDA y : f[y[1]][y[2]], T)
    BY <2>1 DEF Folded
  <2> HIDE DEF f, T
  <2>5. MapThenSumSet(LAMBDA y : f[y[1]][y[2]], T) = Sum(v, T)
    BY <2>2, FoldedSum
  <2>6. Sum(v, T) = 0
    <3> HIDE DEF v
    <3> QED
      BY <2>2, <2>3, SumZero
  <2> QED
    BY <2>4, <2>5, <2>6 DEF f, r, c
<1> QED
  BY <1>1 DEF Lattice, ChargeAfter

\* The current that is deposited, folded.
LEMMA FoldedCurrent ==
  ASSUME NEW p, Inside(p), NEW q \in Moves, NEW k \in Comp
  PROVE  Glued(Each(Folded, DepositedJ(p, q)))[k] = Current(p, q, k)
<1> DEFINE F == Each(Folded, DepositedJ(p, q))
<1>1. p \in [Axis -> Nat] /\ (\A d \in Axis : p[d] < Dims[d] * N * K) /\ p # Gone
  BY NotGone DEF Inside
<1>2. ASSUME NEW g \in Domain
      PROVE  F[Owner(g)][k][LocalCell(Owner(g), g)] = Current(p, q, k)[g]
  <2>1. F[Owner(g)][k][LocalCell(Owner(g), g)]
          = Sum([o \in Near |-> DepositJ(M!Within(p), q, Across, k, o)], Landing(p, q, g))
    BY <1>1, FoldedDeposit
  <2> QED
    BY <1>1, <2>1 DEF Current
<1> HIDE DEF F
<1>3. Glued(F)[k] = [g \in Domain |-> F[Owner(g)][k][LocalCell(Owner(g), g)]]
  BY DEF Glued
<1>4. Glued(F)[k] = [g \in Domain |-> Current(p, q, k)[g]]
  BY <1>2, <1>3
<1> QED
  BY <1>4 DEF F, Current

\* and no current.
LEMMA FoldedStill ==
  ASSUME NEW q, NEW k \in Comp
  PROVE  Glued(Each(Folded, BlankVector))[k] = Current(Gone, q, k)
  BY FoldedBlank DEF Glued, Current

\* Padding is done component by component.
LEMMA PaddedAlone ==
  ASSUME NEW F, NEW k \in Comp
  PROVE  M!Padded(F)[k] = M!Padded([i \in Comp |-> F[k]])[1]
<1>1. 1 \in Comp /\ M!Comp = Comp
  BY SameSpace DEF Comp
<1> QED
  BY <1>1 DEF M!Padded

\* A filter pass on a density.
LEMMA FilteredCharge ==
  ASSUME NEW f, Same(f)
  PROVE  Lattice(Refreshed(FilteredField(f))) = Average(Lattice(f))
<1> DEFINE F == [r \in Rank |-> [k \in Comp |-> f[r]]]
<1>1. 1 \in Comp
  BY DEF Comp
<1>2. Alike(F)
  <2> SUFFICES ASSUME NEW r \in Rank, NEW k \in Comp, NEW c \in Cell
               PROVE  F[r][k][c] = F[HomeRank(r, c)][k][HomeCell(r, c)]
    BY DEF Alike
  <2>1. HomeRank(r, c) \in Rank
    BY HomeFacts
  <2> QED
    BY <2>1 DEF Same
<1>3. Glued(F) = [k \in Comp |-> Lattice(f)]
  BY OwnerFacts DEF Glued, Lattice
<1>4. ASSUME NEW g \in Domain
      PROVE  FilteredField(f)[Owner(g)][LocalCell(Owner(g), g)] = Average(Lattice(f))[g]
  <2> DEFINE r == Owner(g)
             c == LocalCell(r, g)
  <2>1. r \in Rank /\ c \in Interior /\ c \in Cell
    BY OwnerFacts
  <2>2. F[r][1] = f[r]
    BY <1>1, <2>1
  <2> HIDE DEF F
  <2>3. Filtered(F[r][1], Ends(r, c), c) = M!Filtered(M!Padded(Glued(F))[1], M!Ends(g), g)
    BY <1>1, <1>2, FilterSame
  <2> HIDE DEF r, c
  <2>4. FilteredField(f)[r][c] = Filtered(f[r], Ends(r, c), c)
    BY <2>1 DEF FilteredField
  <2>5. Average(Lattice(f))[g] = M!Filtered(M!Padded(Glued(F))[1], M!Ends(g), g)
    BY <1>3 DEF Average
  <2> QED
    BY <2>2, <2>3, <2>4, <2>5 DEF r, c
<1>5. Lattice(FilteredField(f)) = [g \in Domain |-> Average(Lattice(f))[g]]
  BY <1>4 DEF Lattice
<1>6. Lattice(FilteredField(f)) = Average(Lattice(f))
  BY <1>5 DEF Average
<1> QED
  BY <1>6, RefreshedSame

\* And on the current.
LEMMA FilteredCurrent ==
  ASSUME FieldInv, FilterCurrent, NEW k \in Comp
  PROVE  Glued(J')[k] = Average(Glued(J)[k])
<1>1. M!Filter /\ stage = "filter" /\ stage' # "fold"
  BY FilterMaps DEF FilterCurrent
<1>2. Glued(J') = [i \in M!Comp |-> [g \in M!Domain |->
                     M!Filtered(M!Padded(Glued(J))[i], M!Ends(g), g)]]
  BY <1>1 DEF M!Filter, Glued
<1>3. M!Padded(Glued(J))[k] = M!Padded([i \in Comp |-> Glued(J)[k]])[1]
  BY PaddedAlone, Zenon
<1> QED
  BY <1>2, <1>3, SameSpace DEF Average

-----------------------------------------------------------------------------
(* The divergence of E *)

\* The position below along an axis.
Under(g, d) == Wrap(Shift(g, d, -1))

\* A position that is not at an open lower end has one below.
LEMMA UnderFacts ==
  ASSUME NEW g \in Domain, NEW d \in Axis, Periodic[d] \/ g[d] # 0
  PROVE  /\ Under(g, d) = [e \in Axis |-> IF e = d THEN Wrapped(d, g[d] - 1) ELSE g[e]]
         /\ Under(g, d) \in Domain
         /\ ~Outside(Shift(g, d, -1))
         /\ \E z \in Steps : Shift(g, d, -1) = Add(g, z)
<1> DEFINE z == [e \in Axis |-> IF e = d THEN -1 ELSE 0]
           h == Shift(g, d, -1)
<1>1. g = [e \in Axis |-> g[e]] /\ \A e \in Axis : g[e] \in 0..(Dims[e] * N - 1)
  BY PositionCoord
<1>2. \A e \in Axis : g[e] \in Int
  BY <1>1
<1>3. /\ h = [e \in Axis |-> IF e = d THEN g[e] - 1 ELSE g[e]]
      /\ h = Add(g, z)
  <2>1. h = [e \in Axis |-> IF e = d THEN g[e] + (-1) ELSE g[e]]
    BY <1>1 DEF Shift
  <2>2. \A e \in Axis : /\ (IF e = d THEN g[e] + (-1) ELSE g[e]) = g[e] + z[e]
                        /\ g[e] + (-1) = g[e] - 1
    BY <1>2
  <2>3. Add(g, z) = [e \in Axis |-> g[e] + z[e]]
    BY DEF Add
  <2> HIDE DEF h, z
  <2> QED
    BY <2>1, <2>2, <2>3
<1>4. z \in Steps
  BY DEF Steps
<1> HIDE DEF h, z
<1>5. ASSUME NEW e \in Axis
      PROVE  /\ Wrapped(e, h[e]) = IF e = d THEN Wrapped(d, g[d] - 1) ELSE g[e]
             /\ Wrapped(e, h[e]) \in 0..(Dims[e] * N - 1)
             /\ ~Periodic[e] => ~(h[e] < 0) /\ ~(h[e] >= Dims[e] * N)
  <2> DEFINE n == Dims[e] * N
  <2>1. n \in Nat /\ g[e] \in 0..(n - 1)
    BY <1>1, Extent
  <2>2. CASE e = d
    <3>1. h[e] = g[e] - 1
      BY <1>3, <2>2
    <3>2. CASE Periodic[e]
      <4>1. \A j \in -2..2 : Wrapped(e, g[e] + j) \in 0..(n - 1)
        BY <2>1, <3>2, WrappedFacts
      <4>2. -1 \in -2..2 /\ g[e] + (-1) = g[e] - 1
        BY <2>1
      <4>3. Wrapped(e, g[e] - 1) \in 0..(n - 1)
        BY <4>1, <4>2
      <4> QED
        BY <2>2, <3>1, <3>2, <4>3
    <3>3. CASE ~Periodic[e]
      <4>1. Wrapped(e, h[e]) = h[e] /\ g[e] # 0
        BY <2>2, <3>3 DEF Wrapped
      <4> HIDE DEF n
      <4>2. h[e] \in 0..(n - 1) /\ ~(h[e] < 0) /\ ~(h[e] >= n)
        BY <2>1, <3>1, <4>1
      <4> QED
        BY <2>2, <3>1, <4>1, <4>2 DEF n
    <3> QED
      BY <3>2, <3>3
  <2>3. CASE e # d
    <3>1. h[e] = g[e]
      BY <1>3, <2>3
    <3>2. Wrapped(e, g[e]) = g[e]
      BY <1>1, WrappedFacts
    <3> HIDE DEF n
    <3>3. ~(g[e] < 0) /\ ~(g[e] >= n)
      BY <2>1
    <3> QED
      BY <2>1, <2>3, <3>1, <3>2, <3>3 DEF n
  <2> QED
    BY <2>2, <2>3
<1>6. Wrap(h) = [e \in Axis |-> Wrapped(e, h[e])]
  BY WrapAlong
<1>7. Wrap(h) = [e \in Axis |-> IF e = d THEN Wrapped(d, g[d] - 1) ELSE g[e]]
  BY <1>5, <1>6
<1>8. Wrap(h) \in Domain
  <2> DEFINE y == Wrap(h)
  <2>1. y = [e \in Axis |-> y[e]] /\ \A e \in Axis : y[e] \in 0..(Dims[e] * N - 1)
    BY <1>5, <1>6
  <2> HIDE DEF y
  <2>2. y \in Domain
    BY <2>1, Assembled
  <2> QED
    BY <2>2 DEF y
<1>9. ~Outside(h)
  BY <1>5 DEF Outside
<1> QED
  BY <1>3, <1>4, <1>7, <1>8, <1>9 DEF Under, h

\* Differences downwards, on the lattice.
LEMMA DropIs ==
  ASSUME NEW F, NEW g \in Domain, NEW k \in Comp, NEW d, d \in Axis => Periodic[d] \/ g[d] # 0
  PROVE  Diff(M!Padded(Glued(F))[k], 0, g, d) = Drop(Glued(F)[k], g, d)
<1>1. CASE d \notin Axis
  BY <1>1 DEF Diff, Drop
<1>2. CASE d \in Axis
  <2> DEFINE h == Shift(g, d, -1)
             P == M!Padded(Glued(F))[k]
  <2>1. ~Outside(h) /\ \E z \in Steps : h = Add(g, z)
    BY <1>2, UnderFacts
  <2>2. h \in M!Ring
    BY <2>1, Nearby DEF Steps
  <2>3. P[h] = Glued(F)[k][Wrap(h)]
    BY <2>1, <2>2, SameSpace DEF M!Padded
  <2>4. P[g] = Glued(F)[k][g]
    <3> DEFINE y == F[Owner(g)][k][LocalCell(Owner(g), g)]
    <3>1. Glued(F)[k][g] = y /\ P[g] = y
      BY PaddedAt, Zenon
    <3> HIDE DEF y, P
    <3> QED
      BY <3>1
  <2>5. Shift(g, d, 0) = g /\ 0 - 1 = -1
    <3>1. g = [e \in Axis |-> g[e]] /\ g[d] \in Int
      BY <1>2, PositionCoord
    <3>2. g[d] + 0 = g[d]
      BY <3>1
    <3> QED
      BY <3>1, <3>2 DEF Shift
  <2>6. Diff(P, 0, g, d) = P[Shift(g, d, 0)] - P[Shift(g, d, 0 - 1)]
    BY <1>2 DEF Diff
  <2> HIDE DEF P
  <2>7. Diff(P, 0, g, d) = P[g] - P[h]
    BY <2>5, <2>6
  <2> QED
    BY <1>2, <2>3, <2>4, <2>7 DEF Drop, P
<1> QED
  BY <1>1, <1>2

\* No layer reaches a position.
Undamped(g) ==
  \A a \in Axis, h \in {0, 1} : Depth(BoxOf(Owner(g)), LocalCell(Owner(g), g), a, h) = 0

\* Where nothing is damped, a step of E adds the curl of B and takes the
\* current away.
LEMMA AdvanceClear ==
  ASSUME FieldInv, NumberInv, UpdateE, NEW g \in Domain, Undamped(g), NEW k \in Comp,
         \A d \in Axis \ {k} : Periodic[d] \/ g[d] # 0
  PROVE  LET i == Next3(k)
             j == Next3(i) IN
         Glued(E')[k][g] = Glued(E)[k][g] + Drop(Glued(B)[j], g, i) - Drop(Glued(B)[i], g, j)
                             - Glued(J)[k][g]
<1> DEFINE i == Next3(k)
           j == Next3(i)
           h == Owner(g)
           b == LocalCell(h, g)
           new == [q \in Rank |-> [a \in Comp |-> [e \in Interior |->
                     AdvanceE(Fields(q), BoxOf(q), a, e)]]]
           P == M!Padded(Glued(B))
<1>1. /\ i \in Comp /\ j \in Comp /\ i # k /\ j # k /\ i # j /\ Axis \subseteq Comp
  BY OtherAxes DEF Comp, Next3
<1>2. h \in Rank /\ b \in Interior /\ b \in Cell
  BY OwnerFacts
<1>3. \A a \in Axis, e \in {0, 1} : Depth(BoxOf(h), b, a, e) = 0
  BY DEF Undamped
<1>4. \A a \in Comp : Depth(BoxOf(h), b, a, 0) = 0
  <2> SUFFICES ASSUME NEW a \in Comp, a \notin Axis PROVE Depth(BoxOf(h), b, a, 0) = 0
    BY <1>3
  <2> QED
    BY DepthOff
<1>5. E' = Each(Refreshed, Part(new, E, 1)) /\ Alike(B) /\ Nought(B)
  BY DEF UpdateE, FieldInv
<1>6. new[h][k][b] = AdvanceE(Fields(h), BoxOf(h), k, b)
  BY <1>2
<1> HIDE DEF new
<1>7. Glued(E')[k][g] = AdvanceE(Fields(h), BoxOf(h), k, b)[1]
  BY <1>5, <1>6, PartFacts
<1>8. /\ CurlPlus(B[h], StaggerB, k, b) = Drop(Glued(B)[j], g, i)
      /\ CurlMinus(B[h], StaggerB, k, b) = -Drop(Glued(B)[i], g, j)
  <2>1. /\ CurlPlus(B[h], StaggerB, k, b) = M!CurlPlus(P, StaggerB, k, g)
        /\ CurlMinus(B[h], StaggerB, k, b) = M!CurlMinus(P, StaggerB, k, g)
    BY <1>5, CurlSame
  <2>2. StaggerB[j][i] = 0 /\ StaggerB[i][j] = 0
    BY <1>1 DEF StaggerB
  <2>3. /\ CurlPlus(P, StaggerB, k, g) = Diff(P[j], 0, g, i)
        /\ CurlMinus(P, StaggerB, k, g) = -Diff(P[i], 0, g, j)
    BY <2>2 DEF CurlPlus, CurlMinus
  <2>4. /\ i \in Axis => Periodic[i] \/ g[i] # 0
        /\ j \in Axis => Periodic[j] \/ g[j] # 0
    BY <1>1
  <2>5. /\ Diff(P[j], 0, g, i) = Drop(Glued(B)[j], g, i)
        /\ Diff(P[i], 0, g, j) = Drop(Glued(B)[i], g, j)
    BY <1>1, <2>4, DropIs
  <2>6. /\ M!CurlPlus(P, StaggerB, k, g) = CurlPlus(P, StaggerB, k, g)
        /\ M!CurlMinus(P, StaggerB, k, g) = CurlMinus(P, StaggerB, k, g)
    <3> HIDE DEF P
    <3> QED
      BY SameLattice, Zenon
  <2> HIDE DEF P, h, b, i, j
  <2> QED
    BY <2>1, <2>3, <2>5, <2>6
<1>9. /\ Glued(E)[k][g] = E[h][k][b] /\ Glued(J)[k][g] = J[h][k][b]
      /\ E[h][k][b] \in Int /\ J[h][k][b] \in Int
  BY <1>2, PaddedAt DEF NumberInv, Numeric
<1>10. /\ CurlPlus(B[h], StaggerB, k, b) \in Int /\ CurlMinus(B[h], StaggerB, k, b) \in Int
  BY <1>2, CurlType DEF NumberInv
<1> DEFINE f == Fields(h)
<1>11. f.E = E[h] /\ f.B = B[h] /\ f.E1 = E1[h] /\ f.E2 = E2[h] /\ f.J = J[h]
  BY DEF Fields
<1> HIDE DEF f
<1>12. ~(Depth(BoxOf(h), b, Next3(k), 0) > 0) /\ ~(Depth(BoxOf(h), b, Next3(Next3(k)), 0) > 0)
  <2>1. Depth(BoxOf(h), b, i, 0) = 0 /\ Depth(BoxOf(h), b, j, 0) = 0
    BY <1>1, <1>4
  <2>2. ~(0 > 0)
    OBVIOUS
  <2> QED
    BY <2>1, <2>2, Zenon
<1>13. \A d \in Axis : Depth(BoxOf(h), b, d, IF d = k THEN 1 ELSE 0) = 0
  BY <1>3
<1> DEFINE p == CurlPlus(B[h], StaggerB, k, b)
           q == CurlMinus(B[h], StaggerB, k, b)
<1> HIDE DEF h, b
<1>14. AdvanceE(f, BoxOf(h), k, b)[1] = E[h][k][b] + p + q - J[h][k][b]
  BY <1>11, <1>12, <1>13 DEF AdvanceE, Advanced
<1> DEFINE u == Drop(Glued(B)[j], g, i)
           v == Drop(Glued(B)[i], g, j)
           e0 == E[h][k][b]
           j0 == J[h][k][b]
<1>15. /\ Glued(E')[k][g] = e0 + p + q - j0 /\ p = u /\ q = -v
       /\ e0 \in Int /\ j0 \in Int /\ p \in Int /\ q \in Int
  BY <1>7, <1>8, <1>9, <1>10, <1>14 DEF f, h, b
<1>16. v \in Int
  <2>1. Diff(P[i], 0, g, j) = v
    <3>1. j \in Axis => Periodic[j] \/ g[j] # 0
      BY <1>1
    <3> QED
      BY <1>1, <3>1, DropIs
  <2>2. ASSUME NEW y \in Domain PROVE Glued(B)[i][y] \in Int
    <3>1. Owner(y) \in Rank /\ LocalCell(Owner(y), y) \in Cell
      BY OwnerFacts
    <3>2. Glued(B)[i][y] = B[Owner(y)][i][LocalCell(Owner(y), y)]
      BY <1>1, PaddedAt
    <3> QED
      BY <1>1, <3>1, <3>2 DEF NumberInv, Numeric
  <2>3. CASE j \notin Axis
    BY <2>3 DEF Drop
  <2>4. CASE j \in Axis
    <3>1. Under(g, j) \in Domain
      BY <1>1, <2>4, UnderFacts
    <3>2. Glued(B)[i][g] \in Int /\ Glued(B)[i][Under(g, j)] \in Int
      BY <2>2, <3>1
    <3> HIDE DEF j, i
    <3> QED
      BY <2>4, <3>2 DEF Drop, Under
  <2> QED
    BY <2>3, <2>4
<1>17. Glued(E')[k][g] = e0 + u - v - j0
  <2> HIDE DEF u, v, e0, j0, p, q
  <2> QED
    BY <1>15, <1>16
<1> QED
  BY <1>9, <1>17 DEF h, b

\* There is a position below one, along every axis.
Floored(g) == \A d \in Axis : Periodic[d] \/ g[d] # 0

\* Numbers on the ranks are numbers on the lattice.
LEMMA GluedType ==
  ASSUME NEW F, Numeric(F), NEW k \in Comp, NEW g \in Domain
  PROVE  /\ Glued(F)[k][g] \in Int
         /\ \A d : (d \in Axis => Periodic[d] \/ g[d] # 0) => Drop(Glued(F)[k], g, d) \in Int
<1>1. ASSUME NEW y \in Domain PROVE Glued(F)[k][y] \in Int
  <2>1. Owner(y) \in Rank /\ LocalCell(Owner(y), y) \in Cell
    BY OwnerFacts
  <2>2. Glued(F)[k][y] = F[Owner(y)][k][LocalCell(Owner(y), y)]
    BY PaddedAt
  <2> QED
    BY <2>1, <2>2 DEF Numeric
<1>2. ASSUME NEW d, d \in Axis => Periodic[d] \/ g[d] # 0
      PROVE  Drop(Glued(F)[k], g, d) \in Int
  <2>1. CASE d \in Axis
    <3>1. Wrap(Shift(g, d, -1)) \in Domain
      BY <1>2, <2>1, UnderFacts DEF Under
    <3>2. Glued(F)[k][g] \in Int /\ Glued(F)[k][Wrap(Shift(g, d, -1))] \in Int
      BY <1>1, <3>1
    <3> QED
      BY <2>1, <3>2 DEF Drop
  <2>2. CASE d \notin Axis
    BY <2>2 DEF Drop
  <2> QED
    BY <2>1, <2>2
<1> QED
  BY <1>1, <1>2

\* The divergence of E in a cell is what leaves its position.
LEMMA DivNet ==
  ASSUME NEW F, Alike(F), Nought(F), Numeric(F), NEW g \in Domain, Floored(g)
  PROVE  DivE(F, Owner(g), LocalCell(Owner(g), g)) = Net(Glued(F), g)
<1> DEFINE V == F[Owner(g)]
           c == LocalCell(Owner(g), g)
           St == StaggerE
           st == 0
<1>1. ASSUME NEW d \in Comp
      PROVE  Diff(V[d], st, c, d) = Drop(Glued(F)[d], g, d) /\ Diff(V[d], st, c, d) \in Int
  <2>1. Diff(V[d], 0, c, d) = Diff(M!Padded(Glued(F))[d], 0, g, d)
    BY DiffSame
  <2>2. d \in Axis => Periodic[d] \/ g[d] # 0
    BY DEF Floored
  <2>3. Diff(M!Padded(Glued(F))[d], 0, g, d) = Drop(Glued(F)[d], g, d)
    BY <2>2, DropIs
  <2>4. Drop(Glued(F)[d], g, d) \in Int
    BY <2>2, GluedType
  <2> QED
    BY <2>1, <2>3, <2>4
<1>2. \A d \in Comp : St[d][d] = st
  BY DEF StaggerE
<1>3. Axis \subseteq Comp /\ 1 \in Comp /\ 2 \in Comp /\ 3 \in Comp
  BY OtherAxes DEF Comp
<1>4. DivE(F, Owner(g), c) = Div(V, St, c)
  BY DEF DivE
<1> HIDE DEF V, c, St, st
<1>5. Div(V, St, c) = Diff(V[1], st, c, 1) + Diff(V[2], st, c, 2) + Diff(V[3], st, c, 3)
  <2>1. \A d \in Axis : Diff(V[d], st, c, d) \in Int
    BY <1>1, <1>3
  <2> QED
    BY <1>2, <2>1, DivSum
<1>6. Div(V, St, c) = Net(Glued(F), g)
  BY <1>1, <1>3, <1>5 DEF Net
<1> QED
  BY <1>4, <1>6 DEF c

\* A step changes what leaves a position by differences of differences of B.
Mixed(f, g, d, e) == IF d \in Axis THEN Drop(f, g, e) - Drop(f, Under(g, d), e) ELSE 0

\* The two differences can be taken in either order.
LEMMA MixedFacts ==
  ASSUME NEW F, Numeric(F), NEW g \in Domain, Floored(g),
         NEW a \in Comp, NEW d \in Comp, NEW e \in Comp \ {d}
  PROVE  /\ Mixed(Glued(F)[a], g, d, e) = Mixed(Glued(F)[a], g, e, d)
         /\ Mixed(Glued(F)[a], g, d, e) \in Int
<1> DEFINE f == Glued(F)[a]
<1>1. CASE d \in Axis /\ e \in Axis
  <2> DEFINE y == Under(g, d)
             z == Under(g, e)
  <2>1. /\ y = [i \in Axis |-> IF i = d THEN Wrapped(d, g[d] - 1) ELSE g[i]] /\ y \in Domain
        /\ z = [i \in Axis |-> IF i = e THEN Wrapped(e, g[e] - 1) ELSE g[i]] /\ z \in Domain
    BY <1>1, UnderFacts DEF Floored
  <2>2. (Periodic[e] \/ y[e] # 0) /\ (Periodic[d] \/ z[d] # 0)
    BY <1>1, <2>1 DEF Floored
  <2> HIDE DEF y, z
  <2>3. /\ Under(y, e) = [i \in Axis |-> IF i = e THEN Wrapped(e, y[e] - 1) ELSE y[i]]
        /\ Under(z, d) = [i \in Axis |-> IF i = d THEN Wrapped(d, z[d] - 1) ELSE z[i]]
        /\ Under(y, e) \in Domain
    BY <1>1, <2>1, <2>2, UnderFacts
  <2>4. Under(y, e) = Under(z, d)
    BY <1>1, <2>1, <2>3
  <2> DEFINE u == Under(y, e)
  <2>5. f[g] \in Int /\ f[y] \in Int /\ f[z] \in Int /\ f[u] \in Int
    BY <2>1, <2>3, GluedType
  <2>6. /\ Drop(f, g, e) = f[g] - f[z] /\ Drop(f, y, e) = f[y] - f[u]
        /\ Drop(f, g, d) = f[g] - f[y] /\ Drop(f, z, d) = f[z] - f[u]
    BY <1>1, <2>4 DEF Drop, Under, y, z
  <2> HIDE DEF f, u
  <2>7. /\ Mixed(f, g, d, e) = Drop(f, g, e) - Drop(f, y, e)
        /\ Mixed(f, g, e, d) = Drop(f, g, d) - Drop(f, z, d)
    BY <1>1 DEF Mixed, y, z
  <2>8. Mixed(f, g, d, e) = Mixed(f, g, e, d) /\ Mixed(f, g, d, e) \in Int
    BY <2>5, <2>6, <2>7
  <2> QED
    BY <2>8 DEF f
<1>2. CASE d \notin Axis \/ e \notin Axis
  BY <1>2 DEF Mixed, Drop
<1> QED
  BY <1>1, <1>2

\* One step of E, seen from two neighbouring positions.
LEMMA DropStep ==
  ASSUME FieldInv, NumberInv, UpdateE, NEW g \in Domain, Undamped(g), Floored(g),
         \A d \in Axis : Undamped(Under(g, d)), NEW k \in Comp
  PROVE  LET i == Next3(k)
             j == Next3(i) IN
         Drop(Glued(E')[k], g, k)
           = Drop(Glued(E)[k], g, k) + Mixed(Glued(B)[j], g, k, i) - Mixed(Glued(B)[i], g, k, j)
               - Drop(Glued(J)[k], g, k)
<1> DEFINE i == Next3(k)
           j == Next3(i)
<1>1. i \in Comp \ {k} /\ j \in Comp \ {k}
  BY DEF Next3, Comp
<1>2. CASE k \notin Axis
  <2>1. /\ Drop(Glued(E')[k], g, k) = 0 /\ Drop(Glued(E)[k], g, k) = 0
        /\ Mixed(Glued(B)[j], g, k, i) = 0 /\ Mixed(Glued(B)[i], g, k, j) = 0
        /\ Drop(Glued(J)[k], g, k) = 0
    BY <1>2 DEF Drop, Mixed
  <2> QED
    BY <2>1
<1>3. CASE k \in Axis
  <2> DEFINE y == Under(g, k)
             p(h) == Drop(Glued(B)[j], h, i)
             q(h) == Drop(Glued(B)[i], h, j)
             a == Glued(E)[k]
             b == Glued(E')[k]
             c == Glued(J)[k]
  <2>1. /\ y = [e \in Axis |-> IF e = k THEN Wrapped(k, g[k] - 1) ELSE g[e]] /\ y \in Domain
    BY <1>3, UnderFacts DEF Floored
  <2>2. \A d \in Axis \ {k} : (Periodic[d] \/ g[d] # 0) /\ (Periodic[d] \/ y[d] # 0)
    BY <2>1 DEF Floored
  <2>3. Undamped(y)
    BY <1>3
  <2> HIDE DEF y
  <2>4. b[g] = a[g] + p(g) - q(g) - c[g]
    BY <2>2, AdvanceClear
  <2>5. b[y] = a[y] + p(y) - q(y) - c[y]
    BY <2>1, <2>2, <2>3, AdvanceClear
  <2>6. a[g] \in Int /\ a[y] \in Int /\ c[g] \in Int /\ c[y] \in Int
    BY <2>1, GluedType DEF NumberInv
  <2>7. p(g) \in Int /\ p(y) \in Int /\ q(g) \in Int /\ q(y) \in Int
    <3>1. ASSUME NEW e \in Comp \ {k}, NEW n \in Comp
          PROVE  Drop(Glued(B)[n], g, e) \in Int /\ Drop(Glued(B)[n], y, e) \in Int
      <4>1. /\ e \in Axis => Periodic[e] \/ g[e] # 0
            /\ e \in Axis => Periodic[e] \/ y[e] # 0
        BY <2>2
      <4> QED
        BY <2>1, <4>1, GluedType DEF NumberInv
    <3> HIDE DEF i, j
    <3> QED
      BY <1>1, <3>1
  <2>8. /\ Drop(b, g, k) = b[g] - b[y] /\ Drop(a, g, k) = a[g] - a[y]
        /\ Drop(c, g, k) = c[g] - c[y]
    BY <1>3 DEF Drop, Under, y
  <2>9. /\ Mixed(Glued(B)[j], g, k, i) = p(g) - p(y) /\ Mixed(Glued(B)[i], g, k, j) = q(g) - q(y)
    BY <1>3 DEF Mixed, y
  <2> HIDE DEF p, q, a, b, c, i, j
  <2>10. Drop(b, g, k) = Drop(a, g, k) + Mixed(Glued(B)[j], g, k, i)
                           - Mixed(Glued(B)[i], g, k, j) - Drop(c, g, k)
    BY <2>4, <2>5, <2>6, <2>7, <2>8, <2>9
  <2> QED
    BY <2>10 DEF a, b, c, i, j
<1> QED
  BY <1>2, <1>3

\* Where nothing is damped, what leaves a position of E only changes by the
\* current that leaves it: the curl of B does not contribute.
LEMMA NetStep ==
  ASSUME FieldInv, NumberInv, UpdateE, NEW g \in Domain, Undamped(g), Floored(g),
         \A d \in Axis : Undamped(Under(g, d))
  PROVE  /\ Net(Glued(E'), g) = Net(Glued(E), g) - Net(Glued(J), g)
         /\ Net(Glued(E), g) \in Int /\ Net(Glued(J), g) \in Int
<1> DEFINE a(k) == Drop(Glued(E)[k], g, k)
           b(k) == Drop(Glued(E')[k], g, k)
           c(k) == Drop(Glued(J)[k], g, k)
           T(n, d, e) == Mixed(Glued(B)[n], g, d, e)
<1>1. /\ 1 \in Comp /\ 2 \in Comp /\ 3 \in Comp
      /\ Next3(1) = 2 /\ Next3(2) = 3 /\ Next3(3) = 1
  BY DEF Comp, Next3
<1>2. \A k \in Comp : b(k) = a(k) + T(Next3(Next3(k)), k, Next3(k))
                               - T(Next3(k), k, Next3(Next3(k))) - c(k)
  BY DropStep
<1>3. \A k \in Comp : a(k) \in Int /\ c(k) \in Int
  BY GluedType DEF NumberInv, Floored
<1>4. \A n \in Comp, d \in Comp : \A e \in Comp \ {d} :
        T(n, d, e) = T(n, e, d) /\ T(n, d, e) \in Int
  BY MixedFacts DEF NumberInv
<1>5. /\ Net(Glued(E'), g) = b(1) + b(2) + b(3) /\ Net(Glued(E), g) = a(1) + a(2) + a(3)
      /\ Net(Glued(J), g) = c(1) + c(2) + c(3)
  BY DEF Net
<1> HIDE DEF a, b, c, T
<1>6. /\ b(1) = a(1) + T(3, 1, 2) - T(2, 1, 3) - c(1)
      /\ b(2) = a(2) + T(1, 2, 3) - T(3, 2, 1) - c(2)
      /\ b(3) = a(3) + T(2, 3, 1) - T(1, 3, 2) - c(3)
      /\ a(1) \in Int /\ a(2) \in Int /\ a(3) \in Int
      /\ c(1) \in Int /\ c(2) \in Int /\ c(3) \in Int
  BY <1>1, <1>2, <1>3
<1>7. /\ T(3, 1, 2) = T(3, 2, 1) /\ T(2, 1, 3) = T(2, 3, 1) /\ T(1, 2, 3) = T(1, 3, 2)
      /\ T(3, 1, 2) \in Int /\ T(2, 1, 3) \in Int /\ T(1, 2, 3) \in Int
  BY <1>1, <1>4
<1> QED
  BY <1>5, <1>6, <1>7

-----------------------------------------------------------------------------
(* Cells away from layers and ends *)

\* The positions around a clear cell.
LEMMA ClearAround ==
  ASSUME NEW r \in Rank, NEW c \in Interior, Clear(r, c)
  PROVE  LET g == Global(r, c) IN
         /\ g \in Domain /\ Owner(g) = r /\ LocalCell(r, g) = c
         /\ \A d \in Axis, n \in -1..1 :
              /\ ~Outside(Shift(g, d, n)) /\ Wrap(Shift(g, d, n)) \in Domain
              /\ Undamped(Wrap(Shift(g, d, n)))
<1> DEFINE g == Global(r, c)
<1>1. /\ g \in Domain /\ Owner(g) = r /\ LocalCell(r, g) = c
      /\ LocalCell(Owner(g), g) = c
  BY InteriorFacts
<1> HIDE DEF g
<1>2. ASSUME NEW d \in Axis, NEW n \in -1..1
      PROVE  /\ ~Outside(Shift(g, d, n)) /\ Wrap(Shift(g, d, n)) \in Domain
             /\ Undamped(Wrap(Shift(g, d, n)))
  <2> DEFINE z == [e \in Axis |-> IF e = d THEN n ELSE 0]
             y == Shift(c, d, n)
             u == Global(r, y)
  <2>1. Shift(g, d, n) = Add(g, z) /\ y = Add(c, z)
    <3>1. /\ g = [e \in Axis |-> g[e]] /\ c = [e \in Axis |-> c[e]]
          /\ \A e \in Axis : g[e] + 0 = g[e] /\ c[e] + 0 = c[e]
      <4>1. g = [e \in Axis |-> g[e]] /\ \A e \in Axis : g[e] \in Int
        BY <1>1, PositionCoord
      <4>2. c = [e \in Axis |-> c[e]] /\ \A e \in Axis : c[e] \in Int
        BY DEF Interior
      <4> QED
        BY <4>1, <4>2
    <3>2. /\ Shift(g, d, n) = [e \in Axis |-> IF e = d THEN g[e] + n ELSE g[e]]
          /\ y = [e \in Axis |-> IF e = d THEN c[e] + n ELSE c[e]]
      BY <3>1 DEF Shift
    <3>3. /\ Add(g, z) = [e \in Axis |-> g[e] + z[e]] /\ Add(c, z) = [e \in Axis |-> c[e] + z[e]]
      BY DEF Add
    <3> HIDE DEF y
    <3> QED
      BY <3>1, <3>2, <3>3
  <2>2. z \in [Axis -> -1..1]
    OBVIOUS
  <2>3. /\ Add(c, z) \in Cell /\ Global(r, Add(c, z)) = Wrap(Add(g, z))
        /\ Outside(Global(r, Add(c, z))) <=> Outside(Add(g, z))
    <3> HIDE DEF z
    <3> QED
      BY <1>1, <2>2, Nearby
  <2>4. /\ ~Outside(u)
        /\ \A a \in Axis, h \in {0, 1} : Depth(BoxOf(HomeRank(r, y)), HomeCell(r, y), a, h) = 0
    BY DEF Clear
  <2> HIDE DEF z, y
  <2>5. y \in Cell /\ u = Wrap(Shift(g, d, n)) /\ ~Outside(Shift(g, d, n))
    BY <2>1, <2>3, <2>4
  <2>6. u \in Domain /\ HomeRank(r, y) = Owner(u) /\ HomeCell(r, y) = LocalCell(Owner(u), u)
    BY <2>4, <2>5, HomeOwner
  <2>7. Undamped(u)
    BY <2>4, <2>6 DEF Undamped
  <2> HIDE DEF u
  <2> QED
    BY <2>5, <2>6, <2>7
<1> QED
  BY <1>1, <1>2 DEF g

\* Wherever the domain is open an absorbing layer reaches deeper than the
\* filter passes carry what happens at the end.
Sheltered ==
  \/ FilterTimes = 0
  \/ /\ FilterTimes <= PmlLength /\ FilterTimes <= N
     /\ \A d \in Axis, s \in {-1, 1} : Periodic[d] \/ <<d, s>> \in Damping

\* So a clear cell is further from every open end than the filter carries.
LEMMA ClearDeep ==
  ASSUME Sheltered, NEW r \in Rank, NEW c \in Interior, Clear(r, c)
  PROVE  Deep(FilterTimes + 1, Global(r, c))
<1> DEFINE g == Global(r, c)
<1> SUFFICES ASSUME NEW d \in Axis, ~Periodic[d]
             PROVE  FilterTimes + 1 <= g[d] /\ g[d] < Dims[d] * N - (FilterTimes + 1)
  BY DEF Deep
<1> DEFINE n == Dims[d] * N
           p == Shift(g, d, -1)
           q == Shift(g, d, 1)
           y == Wrap(p)
           z == Wrap(q)
<1>1. /\ g \in Domain /\ ~Outside(p) /\ ~Outside(q) /\ y \in Domain /\ z \in Domain
      /\ Undamped(y) /\ Undamped(z)
  <2>1. -1 \in -1..1 /\ 1 \in -1..1
    OBVIOUS
  <2> QED
    BY <2>1, ClearAround
<1>2. FilterTimes \in Nat /\ PmlLength \in Nat /\ N \in Nat \ {0} /\ G \in Nat /\ n \in Nat
  BY LatticeAssumption, Extent
<1> HIDE DEF g
<1>3. g[d] \in 0..(n - 1) /\ g = [e \in Axis |-> g[e]]
  BY <1>1, PositionCoord
<1>4. p[d] = g[d] - 1 /\ q[d] = g[d] + 1
  <2>1. p[d] = g[d] + (-1) /\ q[d] = g[d] + 1 /\ g[d] \in Int
    BY <1>3 DEF Shift
  <2> QED
    BY <2>1
<1>5. /\ ~(p[d] < 0) /\ ~(q[d] >= n)
  BY <1>1 DEF Outside
<1>6. y[d] = g[d] - 1 /\ z[d] = g[d] + 1
  <2>1. y[d] = Wrapped(d, p[d]) /\ z[d] = Wrapped(d, q[d])
    BY WrapAlong
  <2> QED
    BY <1>4, <2>1 DEF Wrapped
<1> HIDE DEF p, q, y, z
<1>7. CASE FilterTimes = 0
  <2> HIDE DEF n
  <2>1. 0 + 1 <= g[d] /\ g[d] < n - (0 + 1)
    BY <1>2, <1>3, <1>4, <1>5
  <2> QED
    BY <1>7, <2>1 DEF n
<1>8. CASE /\ FilterTimes <= PmlLength /\ FilterTimes <= N
           /\ \A s \in {-1, 1} : <<d, s>> \in Damping
  <2>1. ASSUME NEW v \in Domain, Undamped(v)
        PROVE  FilterTimes <= v[d] /\ v[d] < n - FilterTimes
    <3> DEFINE h == Owner(v)
               b == LocalCell(h, v)
               L == Damped(h)
               i == h[d] * N
    <3>1. /\ h \in Rank /\ h[d] \in 0..(Dims[d] - 1)
      BY OwnerFacts, GlobalAlong
    <3>2. b[d] = v[d] - i + G /\ v[d] \in 0..(n - 1)
      BY PositionCoord DEF LocalCell
    <3>3. Depth(BoxOf(h), b, d, 0) = 0 /\ Depth(BoxOf(h), b, d, 1) = 0
      BY <2>1 DEF Undamped
    <3>4. /\ i \in Nat /\ i + N <= n
          /\ h[d] # 0 => N <= i
          /\ h[d] = 0 => i = 0
          /\ h[d] # Dims[d] - 1 => i + N + N <= n
          /\ h[d] = Dims[d] - 1 => i + N = n
      BY <3>1, Span
    <3>5. v[d] >= i /\ v[d] < i + N
      <4>1. h[d] = v[d] \div N
        BY DEF Owner
      <4>2. (v[d] \div N) * N + (v[d] % N) = v[d] /\ v[d] % N \in 0..(N - 1)
        <5>1. v[d] \in Nat /\ v[d] < n
          BY <1>2, <3>2
        <5> QED
          BY <5>1, Divided
      <4> DEFINE e == v[d] % N
      <4>3. i + e = v[d] /\ e \in 0..(N - 1)
        BY <4>1, <4>2
      <4> HIDE DEF i, e
      <4> QED
        BY <1>2, <3>4, <4>3
    <3>6. /\ h[d] = 0 => <<d, -1>> \in L
          /\ h[d] = Dims[d] - 1 => <<d, 1>> \in L
      <4>1. \A s \in {-1, 1} : h[d] + s \notin 0..(Dims[d] - 1) => Neighbor(h, d, s) = PROC_NULL
        BY <3>1, AtEnd
      <4>2. \A s \in {-1, 1} : <<d, s>>[1] = d /\ <<d, s>>[2] = s
        OBVIOUS
      <4>3. /\ h[d] = 0 => h[d] + (-1) \notin 0..(Dims[d] - 1)
            /\ h[d] = Dims[d] - 1 => h[d] + 1 \notin 0..(Dims[d] - 1)
        BY <3>1, Extent
      <4> HIDE DEF h
      <4>4. \A s \in {-1, 1} : Neighbor(h, d, s) = PROC_NULL => <<d, s>> \in Damped(h)
        BY <1>8, <4>2 DEF Damped
      <4> QED
        BY <4>1, <4>3, <4>4
    <3>7. /\ BoxOf(h).lo[d] = G /\ BoxOf(h).hi[d] = N + G - 1 /\ BoxOf(h).layers = L
      BY DEF BoxOf, Box
    <3> HIDE DEF h, b, L, i
    <3>8. /\ ~(<<d, -1>> \in L /\ b[d] < G + PmlLength)
          /\ ~(<<d, 1>> \in L /\ b[d] > (N + G - 1) - PmlLength)
      <4> DEFINE u == b[d]
                 low == <<d, -1>> \in L /\ u < G + PmlLength
                 high == <<d, 1>> \in L /\ u > (N + G - 1) - PmlLength
                 D(half) == IF low THEN 2 * (G + PmlLength - u) - half
                            ELSE IF high THEN 2 * (u - ((N + G - 1) + 1 - PmlLength)) + half
                            ELSE 0
      <4>1. D(0) = 0 /\ D(1) = 0
        BY <3>3, <3>7 DEF Depth
      <4>2. u \in Int
        BY <1>2, <3>2, <3>4
      <4> HIDE DEF u
      <4>3. ~low
        <5> SUFFICES ASSUME low PROVE FALSE
          OBVIOUS
        <5>1. 2 * (G + PmlLength - u) - 0 = 0 /\ u < G + PmlLength
          BY <4>1
        <5> QED
          BY <1>2, <4>2, <5>1
      <4>4. ~high
        <5> SUFFICES ASSUME high PROVE FALSE
          OBVIOUS
        <5>1. 2 * (u - ((N + G - 1) + 1 - PmlLength)) + 1 = 0 /\ u > (N + G - 1) - PmlLength
          BY <4>1, <4>3
        <5> QED
          BY <1>2, <4>2, <5>1
      <4>5. /\ ~(<<d, -1>> \in L /\ u < G + PmlLength)
            /\ ~(<<d, 1>> \in L /\ u > (N + G - 1) - PmlLength)
        BY <4>3, <4>4
      <4> QED
        BY <4>5 DEF u
    <3> HIDE DEF n
    <3>9. FilterTimes <= v[d]
      <4>1. CASE h[d] = 0
        <5>1. ~(b[d] < G + PmlLength)
          BY <3>6, <3>8, <4>1
        <5> QED
          BY <1>2, <1>8, <3>2, <3>4, <4>1, <5>1
      <4>2. CASE h[d] # 0
        BY <1>2, <1>8, <3>2, <3>4, <3>5, <4>2
      <4> QED
        BY <4>1, <4>2
    <3>10. v[d] < n - FilterTimes
      <4>1. CASE h[d] = Dims[d] - 1
        <5>1. ~(b[d] > (N + G - 1) - PmlLength)
          BY <3>6, <3>8, <4>1
        <5> QED
          BY <1>2, <1>8, <3>2, <3>4, <4>1, <5>1
      <4>2. CASE h[d] # Dims[d] - 1
        BY <1>2, <1>8, <3>2, <3>4, <3>5, <4>2
      <4> QED
        BY <4>1, <4>2
    <3> QED
      BY <3>9, <3>10
  <2>2. FilterTimes <= y[d] /\ z[d] < n - FilterTimes
    BY <1>1, <2>1
  <2> HIDE DEF n
  <2>3. FilterTimes + 1 <= g[d] /\ g[d] < n - (FilterTimes + 1)
    BY <1>2, <1>3, <1>6, <2>2
  <2> QED
    BY <2>3 DEF n
<1> QED
  BY <1>7, <1>8 DEF Sheltered

-----------------------------------------------------------------------------
(* Gauss's law *)

\* What leaves a position after i filter passes is the charge that goes.
Flowing(F, p, q, i) ==
  /\ \A k \in Axis : Multiple(Fourth(FilterTimes - i), Glued(F)[k])
  /\ \A g \in Domain :
       Deep(i + 1, g) =>
         Net(Glued(F), g) = Smooth(Charge(p))[i][g] - Smooth(ChargeAfter(p, q))[i][g]

\* A charge density after i filter passes.
Laid(f, p, q, i) == Same(f) /\ Lattice(f) = Smooth(ChargeAfter(p, q))[i]

\* The divergence of E follows the charge of the particle.
Balanced(F, p, b) ==
  \A r \in Rank : \A c \in Interior :
    Clear(r, c) => DivE(F, r, c) - Smooth(Charge(p))[FilterTimes][Global(r, c)] = b[r][c]

\* And so does the density that was deposited.
Reported(f, p) ==
  \A r \in Rank : \A c \in Interior :
    Clear(r, c) => f[r][c] = Smooth(Charge(p))[FilterTimes][Global(r, c)]

GaussInv ==
  /\ step \in Nat /\ pass \in 0..FilterTimes
  /\ stage = "fold" => pass = 0
  /\ stage = "filter" => pass < FilterTimes
  /\ stage \in {"b", "e"} => pass = FilterTimes
  /\ stage = "fold" => Rho = IF x = Gone \/ ~DepositsRho THEN Blank ELSE DepositedRho(x, m)
  /\ stage \in {"filter", "b", "e"} => Flowing(J, x, m, pass)
  /\ stage \in {"filter", "b", "e"} /\ DepositsRho => Laid(Rho, x, m, pass)
  /\ step > 0 => Balanced(E, x, bound)
  /\ stage = "push" /\ step > 0 /\ (step - 1) % RhoInterval = 0 => Reported(Rho, x)

\* No current flows at first.
LEMMA GaussInit ==
  ASSUME Init
  PROVE  GaussInv
<1>1. FilterTimes \in Nat
  BY LatticeAssumption
<1> QED
  BY <1>1 DEF Init, GaussInv

\* A push starts the density anew.
LEMMA GaussPush ==
  ASSUME GaussInv, UpdateParticles
  PROVE  GaussInv'
<1>1. FilterTimes \in Nat
  BY LatticeAssumption
<1> QED
  BY <1>1 DEF UpdateParticles, GaussInv, DepositsRho

\* So does a step that does nothing.
LEMMA GaussStill ==
  ASSUME GaussInv, UNCHANGED vars
  PROVE  GaussInv'
BY DEF vars, GaussInv, DepositsRho

\* The solver of B touches neither.
LEMMA GaussUpdateB ==
  ASSUME GaussInv, UpdateB
  PROVE  GaussInv'
BY DEF UpdateB, GaussInv, DepositsRho

\* The particle and its move, in the middle of a step.
LEMMA Travelling ==
  ASSUME FieldInv, stage # "push"
  PROVE  /\ x = Gone \/ (Inside(x) /\ m \in Moves)
         /\ x = Gone \/ (Legal(M!Within(x), m) /\ Legal(M!Within(x), Origin))
         /\ Multiple(Fourth(FilterTimes), Charge(x))
         /\ Multiple(Fourth(FilterTimes), ChargeAfter(x, m))
         /\ \A k \in Axis : Multiple(Fourth(FilterTimes), Current(x, m, k))
<1>1. x = Gone \/ (Inside(x) /\ m \in Moves)
  BY DEF FieldInv
<1>2. x = Gone \/ (Legal(M!Within(x), m) /\ Legal(M!Within(x), Origin))
  BY <1>1, InsideLegal
<1>3. /\ Multiple(FilterScale, Charge(x)) /\ Multiple(FilterScale, ChargeAfter(x, m))
      /\ \A k \in Axis : Multiple(FilterScale, Current(x, m, k))
  BY <1>2, ChargeMultiple, CurrentMultiple DEF Charge
<1>4. FilterScale = Fourth(FilterTimes)
  BY ScaleFourth
<1> DEFINE n == Fourth(FilterTimes)
<1>5. /\ Multiple(n, Charge(x)) /\ Multiple(n, ChargeAfter(x, m))
      /\ \A k \in Axis : Multiple(n, Current(x, m, k))
  BY <1>3, <1>4
<1> QED
  BY <1>1, <1>2, <1>5

\* The deposit, folded, conserves the charge.
LEMMA FlowingFolded ==
  ASSUME FieldInv, stage = "fold"
  PROVE  Flowing(Each(Folded, J), x, m, 0)
<1> DEFINE F == Each(Folded, J)
           C == [k \in Comp |-> Current(x, m, k)]
<1>1. /\ x = Gone \/ (Inside(x) /\ m \in Moves)
      /\ \A k \in Axis : Multiple(Fourth(FilterTimes), Current(x, m, k))
  BY Travelling
<1>2. J = IF x = Gone THEN BlankVector ELSE DepositedJ(x, m)
  BY DEF FieldInv
<1>3. FilterTimes \in Nat /\ FilterTimes - 0 = FilterTimes /\ 0 + 1 = 1 /\ Axis \subseteq Comp
  BY LatticeAssumption, DimAssumption DEF Axis, Comp
<1>4. \A k \in Comp : Glued(F)[k] = Current(x, m, k)
  <2>1. CASE x = Gone
    BY <1>2, <2>1, FoldedStill
  <2>2. CASE x # Gone
    BY <1>1, <1>2, <2>2, FoldedCurrent
  <2> QED
    BY <2>1, <2>2
<1>5. Glued(F) = C
  <2>1. Glued(F) = [k \in Comp |-> Glued(F)[k]]
    BY DEF Glued
  <2> HIDE DEF F
  <2> QED
    BY <1>4, <2>1
<1>6. Smooth(Charge(x))[0] = Charge(x) /\ Smooth(ChargeAfter(x, m))[0] = ChargeAfter(x, m)
  BY SmoothIs
<1>7. ASSUME NEW g \in Domain, Deep(1, g)
      PROVE  Net(C, g) = Charge(x)[g] - ChargeAfter(x, m)[g]
  <2>1. CASE x = Gone
    <3>1. \A h \in Domain, k \in Comp : Current(x, m, k)[h] = 0
      BY <2>1 DEF Current
    <3>2. Charge(x)[g] = 0 /\ ChargeAfter(x, m)[g] = 0
      BY <2>1 DEF Charge, ChargeAfter
    <3>3. \A k \in Axis : Wrap(Shift(g, k, -1)) \in Domain
      <4>1. 0 + 1 = 1 /\ 0 \in Nat
        OBVIOUS
      <4> QED
        BY <1>7, <4>1, Below
    <3>4. \A k \in Comp : Drop(C[k], g, k) = 0
      BY <1>3, <3>1, <3>3 DEF Drop
    <3>5. 1 \in Comp /\ 2 \in Comp /\ 3 \in Comp
      BY DEF Comp
    <3> HIDE DEF C
    <3> QED
      BY <3>2, <3>4, <3>5 DEF Net
  <2>2. CASE x # Gone
    <3>1. \A k \in Axis : Periodic[k] \/ g[k] # 0
      <4>1. \A k \in Axis : Periodic[k] \/ 1 <= g[k]
        BY <1>7 DEF Deep
      <4>2. \A k \in Axis : g[k] \in Int
        BY PositionCoord
      <4> QED
        BY <4>1, <4>2
    <3> QED
      BY <1>1, <2>2, <3>1, ChargeKept
  <2> QED
    BY <2>1, <2>2
<1>8. \A k \in Axis : Multiple(Fourth(FilterTimes), Glued(F)[k])
  <2> SUFFICES ASSUME NEW k \in Axis PROVE Multiple(Fourth(FilterTimes), Glued(F)[k])
    OBVIOUS
  <2> DEFINE f == Glued(F)[k]
  <2>1. f = Current(x, m, k)
    BY <1>3, <1>4
  <2>2. Multiple(Fourth(FilterTimes), Current(x, m, k))
    BY <1>1
  <2> HIDE DEF f
  <2>3. Multiple(Fourth(FilterTimes), f)
    BY <2>1, <2>2
  <2> QED
    BY <2>3 DEF f
<1> HIDE DEF C
<1>9. \A g \in Domain : Deep(1, g) => Net(Glued(F), g) = Charge(x)[g] - ChargeAfter(x, m)[g]
  BY <1>5, <1>7
<1> HIDE DEF F
<1> QED
  BY <1>3, <1>6, <1>8, <1>9 DEF Flowing, F

\* The density that is deposited, folded.
LEMMA LaidFolded ==
  ASSUME FieldInv, stage = "fold"
  PROVE  Laid(Folded(IF x = Gone THEN Blank ELSE DepositedRho(x, m)), x, m, 0)
<1> DEFINE f == IF x = Gone THEN Blank ELSE DepositedRho(x, m)
<1>1. x = Gone \/ (Inside(x) /\ m \in Moves)
  BY Travelling
<1>2. Lattice(Folded(f)) = ChargeAfter(x, m)
  <2>1. CASE x = Gone
    BY <2>1, FoldedNone
  <2>2. CASE x # Gone
    BY <1>1, <2>2, FoldedCharge
  <2> QED
    BY <2>1, <2>2
<1>3. Same(Folded(f))
  BY FoldedSame
<1>4. Smooth(ChargeAfter(x, m))[0] = ChargeAfter(x, m)
  BY SmoothIs
<1> HIDE DEF f
<1>5. Laid(Folded(f), x, m, 0)
  BY <1>2, <1>3, <1>4 DEF Laid
<1> QED
  BY <1>5 DEF f

\* ExchangeDeposits keeps the invariant.
LEMMA GaussFold ==
  ASSUME FieldInv, GaussInv, ExchangeDeposits
  PROVE  GaussInv'
<1>1. /\ stage = "fold" /\ FilterTimes \in Nat /\ pass = 0
      /\ x' = x /\ m' = m /\ pass' = pass /\ step' = step /\ E' = E /\ bound' = bound
      /\ J' = Each(Folded, J)
      /\ stage' = IF FilterTimes > 0 THEN "filter" ELSE "b"
      /\ Rho' = IF DepositsRho THEN Folded(Rho) ELSE Rho
      /\ Rho = IF x = Gone \/ ~DepositsRho THEN Blank ELSE DepositedRho(x, m)
  BY LatticeAssumption DEF ExchangeDeposits, GaussInv
<1>2. Flowing(J', x', m', pass')
  <2>1. Flowing(Each(Folded, J), x, m, 0)
    BY <1>1, FlowingFolded
  <2> QED
    BY <1>1, <2>1
<1>3. ASSUME DepositsRho PROVE Laid(Rho', x', m', pass')
  <2> DEFINE f == IF x = Gone THEN Blank ELSE DepositedRho(x, m)
  <2>1. Laid(Folded(f), x, m, 0)
    BY <1>1, LaidFolded
  <2>2. Rho' = Folded(f)
    BY <1>1, <1>3
  <2> HIDE DEF f
  <2> QED
    BY <1>1, <2>1, <2>2
<1>4. DepositsRho' = DepositsRho
  BY <1>1 DEF DepositsRho
<1>5. step > 0 => Balanced(E', x', bound')
  BY <1>1 DEF GaussInv
<1>6. /\ pass' \in 0..FilterTimes
      /\ stage' = "filter" => pass' < FilterTimes
      /\ stage' \in {"b", "e"} => pass' = FilterTimes
      /\ stage' \in {"filter", "b"}
  BY <1>1
<1>7. step' \in Nat
  BY <1>1 DEF GaussInv
<1> QED
  BY <1>1, <1>2, <1>3, <1>4, <1>5, <1>6, <1>7 DEF GaussInv

\* Every filter pass conserves the charge.
LEMMA FlowingFiltered ==
  ASSUME FieldInv, GaussInv, FilterCurrent
  PROVE  Flowing(J', x, m, pass + 1)
<1>1. /\ stage = "filter" /\ FilterTimes \in Nat /\ pass \in Nat /\ pass < FilterTimes
      /\ pass \in 0..FilterTimes
      /\ Flowing(J, x, m, pass)
  BY LatticeAssumption DEF FilterCurrent, GaussInv
<1> DEFINE n == Fourth(FilterTimes - (pass + 1))
           F == Glued(J)
           h0 == Smooth(Charge(x))[pass]
           h1 == Smooth(ChargeAfter(x, m))[pass]
<1>2. n \in Nat /\ Fourth(FilterTimes - pass) = 4^Dim * n
  <2>1. FilterTimes - (pass + 1) \in Nat
        /\ (FilterTimes - (pass + 1)) + 1 = FilterTimes - pass
    BY <1>1
  <2> DEFINE i == FilterTimes - (pass + 1)
  <2>2. i \in Nat /\ i + 1 = FilterTimes - pass
    BY <2>1
  <2> HIDE DEF i
  <2>3. Fourth(i) \in Nat /\ Fourth(i + 1) = 4^Dim * Fourth(i)
    BY <2>2, FourthFacts
  <2> QED
    BY <2>2, <2>3 DEF i
<1>3. /\ Multiple(Fourth(FilterTimes), Charge(x))
      /\ Multiple(Fourth(FilterTimes), ChargeAfter(x, m))
  BY <1>1, Travelling
<1>4. Multiple(4^Dim * n, h0) /\ Multiple(4^Dim * n, h1)
  <2>1. Multiple(Fourth(FilterTimes - pass), h0) /\ Multiple(Fourth(FilterTimes - pass), h1)
    BY <1>1, <1>3, SmoothMultiple
  <2> HIDE DEF h0, h1, n
  <2> QED
    BY <1>2, <2>1
<1>5. \A k \in Axis : Multiple(4^Dim * n, F[k])
  <2>1. \A k \in Axis : Multiple(Fourth(FilterTimes - pass), F[k])
    BY <1>1 DEF Flowing
  <2> HIDE DEF n, F
  <2> QED
    BY <1>2, <2>1
<1>6. \A g \in Domain : Deep(pass + 1, g) => Net(F, g) = h0[g] - h1[g]
  BY <1>1 DEF Flowing
<1>7. \A k \in Comp : Glued(J')[k] = Average(F[k])
  BY FilteredCurrent
<1>8. Glued(J') = [k \in Comp |-> Average(F[k])]
  <2>1. Glued(J') = [k \in Comp |-> Glued(J')[k]]
    BY DEF Glued
  <2> HIDE DEF F
  <2> QED
    BY <1>7, <2>1
<1>9. /\ Smooth(Charge(x))[pass + 1] = Average(h0)
      /\ Smooth(ChargeAfter(x, m))[pass + 1] = Average(h1)
  BY <1>1, SmoothIs
<1> HIDE DEF n, F, h0, h1
<1>10. Axis \subseteq Comp
  BY DimAssumption DEF Axis, Comp
<1>11. \A k \in Axis : Multiple(n, Glued(J')[k])
  <2> SUFFICES ASSUME NEW k \in Axis PROVE Multiple(n, Glued(J')[k])
    OBVIOUS
  <2>1. Multiple(n, Average(F[k]))
    BY <1>2, <1>5, AverageFacts
  <2>2. Glued(J')[k] = Average(F[k])
    BY <1>7, <1>10
  <2> QED
    BY <2>1, <2>2
<1>12. ASSUME NEW g \in Domain, Deep((pass + 1) + 1, g)
       PROVE  Net(Glued(J'), g) = Average(h0)[g] - Average(h1)[g]
  <2>1. pass + 1 \in Nat \ {0}
    BY <1>1
  <2> DEFINE V == [k \in Comp |-> Average(F[k])]
  <2>2. Net(V, g) = Average(h0)[g] - Average(h1)[g]
    BY <1>2, <1>4, <1>5, <1>6, <1>12, <2>1, AverageNet
  <2>3. Glued(J') = V
    BY <1>8
  <2> HIDE DEF V
  <2> QED
    BY <2>2, <2>3
<1> QED
  BY <1>9, <1>11, <1>12 DEF Flowing, n

\* FilterCurrent keeps the invariant.
LEMMA GaussFilter ==
  ASSUME FieldInv, GaussInv, FilterCurrent
  PROVE  GaussInv'
<1>1. /\ stage = "filter" /\ FilterTimes \in Nat /\ pass \in Nat /\ pass < FilterTimes
      /\ x' = x /\ m' = m /\ pass' = pass + 1 /\ step' = step /\ E' = E /\ bound' = bound
      /\ stage' = IF pass + 1 < FilterTimes THEN "filter" ELSE "b"
      /\ Rho' = IF DepositsRho THEN Refreshed(FilteredField(Rho)) ELSE Rho
  BY LatticeAssumption DEF FilterCurrent, GaussInv
<1>2. Flowing(J', x', m', pass')
  <2>1. Flowing(J', x, m, pass + 1)
    BY FlowingFiltered
  <2> QED
    BY <1>1, <2>1
<1>3. ASSUME DepositsRho PROVE Laid(Rho', x', m', pass')
  <2>1. Same(Rho) /\ Lattice(Rho) = Smooth(ChargeAfter(x, m))[pass]
    BY <1>1, <1>3 DEF GaussInv, Laid
  <2>2. Rho' = Refreshed(FilteredField(Rho))
    BY <1>1, <1>3
  <2>3. Same(Rho')
    BY <2>2, RefreshedSame
  <2>4. Lattice(Rho') = Average(Lattice(Rho))
    BY <2>1, <2>2, FilteredCharge
  <2>5. Smooth(ChargeAfter(x, m))[pass + 1] = Average(Smooth(ChargeAfter(x, m))[pass])
    BY <1>1, SmoothIs
  <2>6. Laid(Rho', x, m, pass + 1)
    BY <2>1, <2>3, <2>4, <2>5 DEF Laid
  <2> QED
    BY <1>1, <2>6
<1>4. DepositsRho' = DepositsRho
  BY <1>1 DEF DepositsRho
<1>5. step > 0 => Balanced(E', x', bound')
  BY <1>1 DEF GaussInv
<1>6. /\ pass' \in 0..FilterTimes
      /\ stage' = "filter" => pass' < FilterTimes
      /\ stage' \in {"b", "e"} => pass' = FilterTimes
      /\ stage' \in {"filter", "b"}
  BY <1>1
<1>7. step' \in Nat
  BY <1>1 DEF GaussInv
<1> QED
  BY <1>1, <1>2, <1>3, <1>4, <1>5, <1>6, <1>7 DEF GaussInv

\* After the move the charge is where the particle lands, or is gone.
LEMMA Carried ==
  ASSUME FieldInv, stage # "push", NEW g \in Domain, Deep(1, g)
  PROVE  ChargeAfter(x, m)[g] = Charge(M!Landed(x, m))[g]
<1>1. x = Gone \/ (Inside(x) /\ m \in Moves)
  BY Travelling
<1>2. \A q : ChargeAfter(Gone, q)[g] = 0
  BY DEF ChargeAfter
<1>3. Charge(Gone)[g] = 0
  BY <1>2 DEF Charge
<1>4. CASE x = Gone
  <2>1. M!Landed(x, m) = Gone
    BY <1>4 DEF M!Landed, Gone
  <2> QED
    BY <1>2, <1>3, <1>4, <2>1
<1>5. CASE x # Gone /\ M!Landed(x, m) = Gone
  <2>1. ChargeAfter(x, m)[g] = 0
    BY <1>1, <1>5, ChargeLeaves
  <2> QED
    BY <1>3, <1>5, <2>1
<1>6. CASE x # Gone /\ M!Landed(x, m) # Gone
  BY <1>1, <1>6, ChargeLands
<1> QED
  BY <1>4, <1>5, <1>6

\* Filtered, too.
LEMMA CarriedFiltered ==
  ASSUME FieldInv, stage # "push", NEW g \in Domain, Deep(FilterTimes + 1, g)
  PROVE  LET before == Smooth(Charge(x))[FilterTimes][g]
             after == Smooth(ChargeAfter(x, m))[FilterTimes][g] IN
         /\ before \in Int /\ after \in Int
         /\ after = Smooth(Charge(M!Landed(x, m)))[FilterTimes][g]
<1> DEFINE p == M!Landed(x, m)
           h0 == Charge(x)
           h1 == ChargeAfter(x, m)
           h2 == Charge(p)
<1>1. FilterTimes \in Nat /\ FilterTimes \in 0..FilterTimes /\ FilterTimes - FilterTimes = 0
  BY LatticeAssumption
<1>2. Multiple(Fourth(FilterTimes), h0) /\ Multiple(Fourth(FilterTimes), h1)
  BY Travelling
<1>3. Multiple(Fourth(FilterTimes), h2)
  <2>1. p = Gone \/ Inside(p)
    <3>1. x = Gone \/ Inside(x)
      BY Travelling
    <3>2. x # Gone => m \in Moves
      BY Travelling
    <3> QED
      BY <3>1, <3>2, LandedInside
  <2> HIDE DEF p
  <2>2. p = Gone \/ Legal(M!Within(p), Origin)
    <3>1. CASE Inside(p)
      <4>1. Legal(M!Within(p), Origin)
        <5>1. M!Within(p) \in [Axis -> 0..(K - 1)]
          <6>1. \A d \in Axis : M!Within(p)[d] \in 0..(K - 1)
            BY <3>1, CellOfFacts DEF Inside
          <6>2. M!Within(p) = [d \in Axis |-> M!Within(p)[d]]
            BY DEF M!Within, Axis, M!Axis
          <6> QED
            BY <6>1, <6>2
        <5>2. Origin \in [Axis -> (-K)..K]
          BY LatticeAssumption DEF Origin
        <5> QED
          BY <5>1, <5>2 DEF Legal
      <4> QED
        BY <4>1
    <3> QED
      BY <2>1, <3>1
  <2>3. Multiple(FilterScale, ChargeAfter(p, Origin))
    BY <2>2, ChargeMultiple
  <2>4. FilterScale = Fourth(FilterTimes) /\ h2 = ChargeAfter(p, Origin)
    BY ScaleFourth DEF Charge
  <2> HIDE DEF h2
  <2> QED
    BY <2>3, <2>4
<1>4. \A u \in Domain : Deep(1, u) => h1[u] = h2[u]
  BY Carried
<1> HIDE DEF p, h0, h1, h2
<1>5. Multiple(Fourth(0), Smooth(h0)[FilterTimes]) /\ Multiple(Fourth(0), Smooth(h1)[FilterTimes])
  <2>1. /\ Multiple(Fourth(FilterTimes - FilterTimes), Smooth(h0)[FilterTimes])
        /\ Multiple(Fourth(FilterTimes - FilterTimes), Smooth(h1)[FilterTimes])
    BY <1>1, <1>2, SmoothMultiple
  <2> DEFINE i == FilterTimes - FilterTimes
  <2>2. i = 0
    BY <1>1
  <2>3. /\ Multiple(Fourth(i), Smooth(h0)[FilterTimes])
        /\ Multiple(Fourth(i), Smooth(h1)[FilterTimes])
    BY <2>1
  <2> HIDE DEF i
  <2> QED
    BY <2>2, <2>3
<1>6. Smooth(h0)[FilterTimes][g] \in Int /\ Smooth(h1)[FilterTimes][g] \in Int
  <2>1. Fourth(0) \in Int
    <3>1. 0 \in Nat
      OBVIOUS
    <3>2. Fourth(0) \in Nat
      BY <3>1, FourthFacts
    <3> QED
      BY <3>2
  <2>2. /\ \E a \in Int : Smooth(h0)[FilterTimes][g] = Fourth(0) * a
        /\ \E a \in Int : Smooth(h1)[FilterTimes][g] = Fourth(0) * a
    BY <1>5 DEF Multiple
  <2> QED
    BY <2>1, <2>2
<1>7. Smooth(h1)[FilterTimes][g] = Smooth(h2)[FilterTimes][g]
  BY <1>1, <1>2, <1>3, <1>4, SmoothSame
<1> QED
  BY <1>6, <1>7 DEF p, h0, h1, h2

\* What a step of E adds to the divergence at a clear cell.
LEMMA ClearStep ==
  ASSUME Sheltered, FieldInv, NumberInv, GaussInv, UpdateE,
         NEW r \in Rank, NEW c \in Interior, Clear(r, c)
  PROVE  LET g == Global(r, c)
             before == Smooth(Charge(x))[FilterTimes][g]
             after == Smooth(Charge(x'))[FilterTimes][g] IN
         /\ DivE(E', r, c) = DivE(E, r, c) - (before - after)
         /\ DivE(E, r, c) \in Int /\ before \in Int /\ after \in Int
         /\ DepositsRho => Rho[r][c] = after
<1> DEFINE g == Global(r, c)
           before == Smooth(Charge(x))[FilterTimes][g]
           after == Smooth(ChargeAfter(x, m))[FilterTimes][g]
<1>1. /\ g \in Domain /\ Owner(g) = r /\ LocalCell(r, g) = c
      /\ \A d \in Axis, n \in -1..1 : ~Outside(Shift(g, d, n)) /\ Undamped(Wrap(Shift(g, d, n)))
  BY ClearAround
<1>2. Deep(FilterTimes + 1, g)
  BY ClearDeep
<1> HIDE DEF g
<1>3. FilterTimes \in Nat /\ stage = "e" /\ stage # "push" /\ x' = M!Landed(x, m)
  BY LatticeAssumption DEF UpdateE
<1>4. before \in Int /\ after \in Int /\ after = Smooth(Charge(x'))[FilterTimes][g]
  BY <1>1, <1>2, <1>3, CarriedFiltered
<1>5. \A d \in Axis : Periodic[d] \/ FilterTimes + 1 <= g[d]
  BY <1>2 DEF Deep
<1>6. \A d \in Axis : g[d] \in Int
  BY <1>1, PositionCoord
<1>7. Floored(g)
  BY <1>3, <1>5, <1>6 DEF Floored
<1>8. Axis # {}
  BY DimAssumption DEF Axis
<1>9. Undamped(g) /\ \A d \in Axis : Undamped(Under(g, d))
  <2>1. \A d \in Axis : Undamped(Under(g, d))
    <3>1. -1 \in -1..1
      OBVIOUS
    <3> QED
      BY <1>1, <3>1 DEF Under
  <2>2. Undamped(g)
    <3>1. PICK d \in Axis : TRUE
      BY <1>8
    <3>2. Undamped(Wrap(Shift(g, d, 0)))
      <4>1. 0 \in -1..1
        OBVIOUS
      <4> QED
        BY <1>1, <4>1
    <3>3. Wrap(Shift(g, d, 0)) = g
      <4>1. Shift(g, d, 0) = g
        <5>1. g[d] + 0 = g[d] /\ g = [e \in Axis |-> g[e]]
          BY <1>1, <1>6, PositionCoord
        <5> QED
          BY <5>1 DEF Shift
      <4>2. Wrap(g) = [e \in Axis |-> Wrapped(e, g[e])]
        BY WrapAlong
      <4>3. \A e \in Axis : Wrapped(e, g[e]) = g[e]
        BY <1>1, PositionCoord, WrappedFacts
      <4>4. g = [e \in Axis |-> g[e]]
        BY <1>1, PositionCoord
      <4> QED
        BY <4>1, <4>2, <4>3, <4>4
    <3> QED
      BY <3>2, <3>3
  <2> QED
    BY <2>1, <2>2
<1>10. /\ Net(Glued(E'), g) = Net(Glued(E), g) - Net(Glued(J), g)
       /\ Net(Glued(E), g) \in Int /\ Net(Glued(J), g) \in Int
  BY <1>1, <1>7, <1>9, NetStep
<1>11. DivE(E, r, c) = Net(Glued(E), g)
  <2>1. Alike(E) /\ Nought(E) /\ Numeric(E)
    BY DEF FieldInv, NumberInv
  <2> QED
    BY <1>1, <1>7, <2>1, DivNet
<1>12. DivE(E', r, c) = Net(Glued(E'), g)
  <2>1. FieldInv'
    BY UpdateEKeeps
  <2>2. NumberInv'
    BY NumberNext DEF Next
  <2>3. Alike(E') /\ Nought(E') /\ Numeric(E')
    BY <2>1, <2>2 DEF FieldInv, NumberInv
  <2> QED
    BY <1>1, <1>7, <2>3, DivNet
<1>13. Net(Glued(J), g) = before - after
  <2>1. Flowing(J, x, m, FilterTimes)
    BY <1>3 DEF GaussInv
  <2> QED
    BY <1>1, <1>2, <2>1 DEF Flowing
<1>14. ASSUME DepositsRho PROVE Rho[r][c] = after
  <2>1. Laid(Rho, x, m, FilterTimes)
    BY <1>3, <1>14 DEF GaussInv
  <2>2. Lattice(Rho)[g] = after
    BY <2>1 DEF Laid
  <2>3. Lattice(Rho)[g] = Rho[r][c]
    BY <1>1 DEF Lattice
  <2> QED
    BY <2>2, <2>3
<1> QED
  BY <1>4, <1>10, <1>11, <1>12, <1>13, <1>14 DEF g

\* UpdateE keeps the invariant: the divergence of E changes by what flows.
LEMMA GaussUpdateE ==
  ASSUME Sheltered, FieldInv, NumberInv, GaussInv, UpdateE
  PROVE  GaussInv'
<1>1. /\ stage = "e" /\ stage' = "push" /\ pass' = pass /\ step' = step + 1
      /\ step \in Nat /\ pass \in 0..FilterTimes /\ Rho' = Rho
      /\ RhoInterval \in Nat \ {0}
  BY StepAssumption DEF UpdateE, GaussInv
<1>2. Balanced(E', x', bound')
  <2> SUFFICES ASSUME NEW r \in Rank, NEW c \in Interior, Clear(r, c)
               PROVE  DivE(E', r, c) - Smooth(Charge(x'))[FilterTimes][Global(r, c)]
                        = bound'[r][c]
    BY DEF Balanced
  <2> DEFINE before == Smooth(Charge(x))[FilterTimes][Global(r, c)]
             after == Smooth(Charge(x'))[FilterTimes][Global(r, c)]
             old == DivE(E, r, c)
             new == DivE(E', r, c)
  <2>1. /\ new = old - (before - after)
        /\ old \in Int /\ before \in Int /\ after \in Int
        /\ DepositsRho => Rho[r][c] = after
    BY ClearStep
  <2>2. CASE step = 0
    <3>1. DepositsRho
      BY <1>1, <2>2 DEF DepositsRho
    <3>2. bound' = [s \in Rank |-> [b \in Interior |-> DivE(E', s, b) - Rho[s][b]]]
      BY <2>2 DEF UpdateE
    <3>3. bound'[r][c] = new - Rho[r][c]
      BY <3>2
    <3> QED
      BY <2>1, <3>1, <3>3
  <2>3. CASE step > 0
    <3>1. old - before = bound[r][c]
      BY <2>3 DEF GaussInv, Balanced
    <3>2. bound' = bound
      BY <2>3 DEF UpdateE
    <3> HIDE DEF old, new, before, after
    <3>3. new - after = bound'[r][c]
      BY <2>1, <3>1, <3>2
    <3> QED
      BY <3>3 DEF new, after
  <2> QED
    BY <1>1, <2>2, <2>3
<1>3. ASSUME (step' - 1) % RhoInterval = 0
      PROVE  Reported(Rho', x')
  <2>1. DepositsRho
    <3>1. step' - 1 = step
      BY <1>1
    <3> QED
      BY <1>3, <3>1 DEF DepositsRho
  <2> SUFFICES ASSUME NEW r \in Rank, NEW c \in Interior, Clear(r, c)
               PROVE  Rho'[r][c] = Smooth(Charge(x'))[FilterTimes][Global(r, c)]
    BY DEF Reported
  <2>2. Rho[r][c] = Smooth(Charge(x'))[FilterTimes][Global(r, c)]
    BY <2>1, ClearStep
  <2> QED
    BY <1>1, <2>2
<1>4. step' \in Nat /\ pass' \in 0..FilterTimes
  BY <1>1
<1> QED
  BY <1>1, <1>2, <1>3, <1>4 DEF GaussInv

\* Charge is conserved: as the deposit (deposit_t), the folding and filtering
\* of the current and the field solver leave it, the divergence of E keeps
\* following the charge density that ptc_updater deposits, for every
\* decomposition, every move of the particle into another cell, across the
\* boundary of a rank, a periodic or an open end of the domain, wherever no
\* absorbing layer is near, if every open end has a layer deeper than the filter
\* passes reach.
THEOREM ChargeConserved ==
  ASSUME Sheltered
  PROVE  Spec => []GaussLaw
<1> DEFINE Inv == FieldInv /\ NumberInv /\ GaussInv
<1>1. Init => Inv
  BY FieldInit, NumberInit, GaussInit
<1>2. Inv /\ [Next]_vars => Inv'
  <2> SUFFICES ASSUME Inv, [Next]_vars PROVE Inv'
    OBVIOUS
  <2>1. NumberInv'
    BY NumberNext
  <2>2. CASE UpdateParticles
    BY <2>1, <2>2, PushMaps, GaussPush
  <2>3. CASE ExchangeDeposits
    BY <2>1, <2>3, DepositMaps, GaussFold
  <2>4. CASE FilterCurrent
    BY <2>1, <2>4, FilterMaps, GaussFilter
  <2>5. CASE UpdateB
    BY <2>1, <2>5, UpdateBKeeps, GaussUpdateB
  <2>6. CASE UpdateE
    BY <2>1, <2>6, UpdateEKeeps, GaussUpdateE
  <2>7. CASE UNCHANGED vars
    BY <2>1, <2>7, StillMaps, GaussStill
  <2> QED
    BY <2>2, <2>3, <2>4, <2>5, <2>6, <2>7 DEF Next, Finished
<1>3. Inv => GaussLaw
  BY DEF GaussInv, Balanced, Reported, GaussLaw
<1> QED
  BY <1>1, <1>2, <1>3, PTL DEF Spec
=============================================================================
