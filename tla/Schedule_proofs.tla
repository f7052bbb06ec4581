-------------------------- MODULE Schedule_proofs --------------------------
(***************************************************************************)
(* Proofs about the schedule of one rank, for every program that keeps the *)
(* order the built ones have in common (WellOrdered), any number of        *)
(* species, any output intervals and any number of steps.                  *)
(***************************************************************************)
EXTENDS Schedule, WellFoundedInduction, TLAPS

-----------------------------------------------------------------------------
(* Folding a sequence of kernels and exchanges *)

\* A non-empty set of numbers has a least one.
LEMMA LeastOf ==
  ASSUME NEW S \in SUBSET Nat, S # {}
  PROVE  \E n \in S : \A m \in S : n <= m
<1> DEFINE R == OpToRel(<, Nat)
<1>1. \A m, n \in Nat : m < n => <<m, n>> \in R
  BY DEF OpToRel
<1>2. IsWellFoundedOn(R, Nat)
  BY NatLessThanWellFounded
<1> HIDE DEF R
<1>3. \E n \in S : \A m \in S : ~ (<<m, n>> \in R)
  BY <1>2, WFMin
<1>4. PICK n \in S : \A m \in S : ~ (<<m, n>> \in R)
  BY <1>3, Zenon
<1>5. ASSUME NEW m \in S PROVE n <= m
  <2>1. m \in Nat /\ n \in Nat
    OBVIOUS
  <2>2. ~ (m < n)
    BY <1>1, <1>4, <2>1, Zenon
  <2> QED
    BY <2>1, <2>2
<1> QED
  BY <1>5

\* Intervals, one element at a time.
LEMMA Interval1 ==
  ASSUME NEW i \in Nat \ {0}
  PROVE  /\ Max(1..i) = i
         /\ (1..i) \ {i} = 1..(i - 1)
         /\ \A u \in SUBSET (1..i) : i \in u => Max(u) = i
         /\ \A u \in SUBSET (1..i) : i \notin u => u \in SUBSET (1..(i - 1))
<1>1. ASSUME NEW u \in SUBSET (1..i), i \in u PROVE Max(u) = i
  <2>1. \A x \in u : i >= x
    OBVIOUS
  <2>2. \A x \in u : (\A y \in u : x >= y) => x = i
    BY <1>1, <2>1
  <2> QED
    BY <1>1, <2>1, <2>2 DEF Max
<1>2. (1..i) \ {i} = 1..(i - 1)
  OBVIOUS
<1>3. ASSUME NEW u \in SUBSET (1..i), i \notin u PROVE u \in SUBSET (1..(i - 1))
  BY <1>2, <1>3
<1> QED
  BY <1>1, <1>2, <1>3

\* What the local function of MapThenFoldSet is.
Folding(g, s, t, h) ==
  h = [u \in SUBSET t |->
         IF u = {} THEN g ELSE AfterStep(h[u \ {Max(u)}], s[Max(u)])]

LEMMA FoldingExists ==
  ASSUME NEW g, NEW s, NEW k \in Nat
  PROVE  \E h : Folding(g, s, 1..k, h)
<1> DEFINE Bad == {n \in Nat : ~ \E h : Folding(g, s, 1..n, h)}
<1> SUFFICES ASSUME Bad # {} PROVE FALSE
  OBVIOUS
<1>0. PICK n \in Bad : \A m \in Bad : n <= m
  <2>1. Bad \in SUBSET Nat
    OBVIOUS
  <2> HIDE DEF Bad
  <2> QED
    BY <2>1, LeastOf
<1>1. n # 0
  <2>1. SUBSET (1..0) = {{}}
    OBVIOUS
  <2>2. Folding(g, s, 1..0, [u \in SUBSET (1..0) |-> g])
    BY <2>1 DEF Folding
  <2> QED
    BY <2>2
<1>2. n \in Nat \ {0} /\ n - 1 \in Nat /\ ~ (n <= n - 1)
  BY <1>1
<1>3. PICK h : Folding(g, s, 1..(n - 1), h)
  <2>1. n - 1 \notin Bad
    <3> HIDE DEF Bad
    <3> QED
      BY <1>0, <1>2
  <2> QED
    BY <1>2, <2>1
<1> DEFINE k1 == [u \in SUBSET (1..n) |->
                    IF n \in u THEN AfterStep(h[u \ {n}], s[n]) ELSE h[u]]
<1>4. ASSUME NEW u \in SUBSET (1..n)
      PROVE  k1[u] = IF u = {} THEN g ELSE AfterStep(k1[u \ {Max(u)}], s[Max(u)])
  <2>1. CASE n \in u
    <3>1. Max(u) = n /\ u \ {n} \in SUBSET (1..n) /\ n \notin u \ {n} /\ u # {}
      BY <1>2, <2>1, Interval1
    <3>2. k1[u \ {n}] = h[u \ {n}]
      BY <3>1
    <3> QED
      BY <2>1, <3>1, <3>2
  <2>2. CASE n \notin u
    <3>1. /\ u \in SUBSET (1..(n - 1)) /\ u \ {Max(u)} \in SUBSET (1..n)
          /\ n \notin u \ {Max(u)}
      BY <1>2, <2>2, Interval1
    <3>2. k1[u] = h[u] /\ k1[u \ {Max(u)}] = h[u \ {Max(u)}]
      BY <2>2, <3>1
    <3>3. h[u] = IF u = {} THEN g ELSE AfterStep(h[u \ {Max(u)}], s[Max(u)])
      BY <1>3, <3>1 DEF Folding
    <3> QED
      BY <3>2, <3>3
  <2> QED
    BY <2>1, <2>2
<1>5. Folding(g, s, 1..n, k1)
  BY <1>4 DEF Folding
<1> QED
  BY <1>5

Fold(g, s) == FoldLeft(AfterStep, g, s)

\* The fold of AfterStep over a sequence, in order: there are states of the guard
\* cells before the first and after each element.
Passes(g, s, n, A) ==
  /\ A[0] = g
  /\ \A i \in 1..n : A[i] = AfterStep(A[i - 1], s[i])

\* The fold of AfterStep over a sequence goes through its elements in order.
LEMMA Trace ==
  ASSUME NEW g, NEW s, NEW n \in Nat, DOMAIN s = 1..n
  PROVE  \E A : Passes(g, s, n, A) /\ Fold(g, s) = A[n]
<1> DEFINE iter == CHOOSE h : Folding(g, s, 1..n, h)
<1>1. Folding(g, s, 1..n, iter)
  BY FoldingExists
<1>2. Fold(g, s) = iter[1..n]
  BY DEF Fold, FoldLeft, MapThenFoldSet, Folding
<1> HIDE DEF iter
<1> DEFINE A == [i \in 0..n |-> iter[1..i]]
<1>3. A[0] = g
  <2>1. 1..0 = {} /\ {} \in SUBSET (1..n) /\ 0 \in 0..n
    OBVIOUS
  <2> QED
    BY <1>1, <2>1 DEF Folding
<1>4. ASSUME NEW i \in 1..n PROVE A[i] = AfterStep(A[i - 1], s[i])
  <2>1. /\ 1..i \in SUBSET (1..n) /\ 1..i # {} /\ i \in Nat \ {0}
        /\ i \in 0..n /\ i - 1 \in 0..n
    <3>1. i \in Nat \ {0} /\ i \in 0..n /\ i - 1 \in 0..n /\ i <= n
      OBVIOUS
    <3>2. 1..i \in SUBSET (1..n)
      BY <3>1
    <3>3. i \in 1..i
      BY <3>1
    <3> QED
      BY <3>1, <3>2, <3>3
  <2>2. Max(1..i) = i /\ (1..i) \ {i} = 1..(i - 1)
    BY <2>1, Interval1
  <2>3. iter[1..i] = AfterStep(iter[(1..i) \ {i}], s[i])
    BY <1>1, <2>1, <2>2 DEF Folding
  <2> QED
    BY <2>1, <2>2, <2>3
<1>5. Fold(g, s) = A[n]
  BY <1>2
<1>6. Passes(g, s, n, A)
  BY <1>3, <1>4 DEF Passes
<1> QED
  BY <1>5, <1>6

\* These states are the only ones,
LEMMA OneTrace ==
  ASSUME NEW g, NEW s, NEW n \in Nat, NEW A, NEW B,
         Passes(g, s, n, A), Passes(g, s, n, B)
  PROVE  A[n] = B[n]
<1> DEFINE Bad == {i \in 0..n : A[i] # B[i]}
<1> SUFFICES ASSUME Bad # {} PROVE FALSE
  OBVIOUS
<1>1. PICK i \in Bad : \A j \in Bad : i <= j
  <2>1. Bad \in SUBSET Nat
    OBVIOUS
  <2> HIDE DEF Bad
  <2> QED
    BY <2>1, LeastOf
<1>2. i # 0
  BY DEF Passes
<1>3. i \in 1..n /\ i - 1 \in 0..n /\ ~ (i <= i - 1)
  BY <1>2
<1>4. A[i - 1] = B[i - 1]
  BY <1>1, <1>3
<1>5. A[i] = B[i]
  BY <1>3, <1>4 DEF Passes
<1> QED
  BY <1>5

\* and two sequences are gone through one after the other.
LEMMA TraceConcat ==
  ASSUME NEW L, NEW s \in Seq(L), NEW t \in Seq(L), NEW g
  PROVE  Fold(g, s \o t) =
           Fold(Fold(g, s), t)
<1> DEFINE n == Len(s)  m == Len(t)
<1>0. /\ n \in Nat /\ m \in Nat /\ n + m \in Nat
      /\ DOMAIN s = 1..n /\ DOMAIN t = 1..m /\ DOMAIN (s \o t) = 1..(n + m)
  OBVIOUS
<1>1. /\ n \in Nat /\ m \in Nat /\ n + m \in Nat
      /\ \A i \in 1..(n + m) : (s \o t)[i] = IF i <= n THEN s[i] ELSE t[i - n]
  OBVIOUS
<1> HIDE DEF n, m
<1>2. PICK A : Passes(g, s, n, A) /\ Fold(g, s) = A[n]
  BY <1>0, Trace, Zenon
<1>3. PICK B : Passes(A[n], t, m, B) /\ Fold(A[n], t) = B[m]
  BY <1>0, Trace, Zenon
<1>4. PICK C : /\ Passes(g, s \o t, n + m, C)
               /\ Fold(g, s \o t) = C[n + m]
  BY <1>0, Trace, Zenon
<1> DEFINE D == [i \in 0..(n + m) |-> IF i <= n THEN A[i] ELSE B[i - n]]
<1>5. D[0] = g
  BY <1>1, <1>2 DEF Passes
<1>6. ASSUME NEW i \in 1..(n + m) PROVE D[i] = AfterStep(D[i - 1], (s \o t)[i])
  <2>0. i \in 0..(n + m) /\ i - 1 \in 0..(n + m) /\ i \in Int
    BY <1>1
  <2>1. CASE i <= n
    <3>1. D[i] = A[i] /\ D[i - 1] = A[i - 1] /\ i \in 1..n
      BY <1>1, <2>0, <2>1
    <3>2. A[i] = AfterStep(A[i - 1], s[i])
      BY <1>2, <3>1 DEF Passes
    <3>3. (s \o t)[i] = s[i]
      BY <1>1, <2>1
    <3> HIDE DEF D
    <3> QED
      BY <3>1, <3>2, <3>3
  <2>2. CASE i > n
    <3>1. D[i] = B[i - n] /\ i - n \in 1..m
      BY <1>1, <2>0, <2>2
    <3>2. B[i - n] = AfterStep(B[(i - n) - 1], t[i - n])
      BY <1>3, <3>1 DEF Passes
    <3>3. D[i - 1] = B[(i - n) - 1]
      <4>1. CASE i - 1 = n
        BY <1>1, <1>3, <2>0, <4>1 DEF Passes
      <4>2. CASE i - 1 > n
        <5>1. (i - 1) - n = (i - n) - 1
          BY <1>1, <2>0
        <5> QED
          BY <1>1, <2>0, <4>2, <5>1
      <4> QED
        BY <1>1, <2>0, <2>2, <4>1, <4>2
    <3>4. (s \o t)[i] = t[i - n]
      <4>1. ~ (i <= n)
        BY <1>1, <2>0, <2>2
      <4> QED
        BY <1>1, <4>1, Zenon
    <3> HIDE DEF D
    <3> QED
      BY <3>1, <3>2, <3>3, <3>4
  <2>3. i <= n \/ i > n
    BY <1>1, <2>0
  <2> HIDE DEF D
  <2> QED
    BY <2>1, <2>2, <2>3
<1>7. Passes(g, s \o t, n + m, D)
  BY <1>5, <1>6 DEF Passes
<1>8. C[n + m] = D[n + m]
  BY <1>1, <1>4, <1>7, OneTrace
<1>9. D[n + m] = B[m]
  <2>1. CASE m = 0
    BY <1>1, <1>3, <2>1 DEF Passes
  <2>2. CASE m # 0
    BY <1>1, <2>2
  <2> QED
    BY <2>1, <2>2
<1> QED
  BY <1>2, <1>3, <1>4, <1>8, <1>9

-----------------------------------------------------------------------------
(* The guard cells in one update *)

\* Guard cells of the fields F are out of date, r has been read.
Stale(F, r) == [fields |-> F, reads |-> r]

\* One kernel or exchange.
LEMMA StencilStep ==
  ASSUME NEW F, NEW r, NEW to, NEW from
  PROVE  AfterStep(Stale(F, r), Stencil(to, from)) =
           Stale(F \cup {to}, r \cup ({to} \X (from \cap F)))
  BY DEF AfterStep, Stale, Stencil

LEMMA PointStep ==
  ASSUME NEW F, NEW r, NEW to, NEW from
  PROVE  AfterStep(Stale(F, r), Point(to, from)) =
           Stale(IF from \cap F = {} THEN F \ {to} ELSE F \cup {to}, r)
  BY DEF AfterStep, Stale, Point

LEMMA SendStep ==
  ASSUME NEW F, NEW r, NEW to
  PROVE  AfterStep(Stale(F, r), Send(to)) = Stale(F \ {to}, r)
  BY DEF AfterStep, Stale, Send

\* A kernel that reads no outdated guard cells.
LEMMA CleanKernel ==
  ASSUME NEW F, NEW r, NEW to, NEW from, NEW H, from \cap F = {}
  PROVE  /\ H = F \cup {to} =>
              AfterStep(Stale(F, r), Stencil(to, from)) = Stale(H, r)
         /\ H = F \ {to} => AfterStep(Stale(F, r), Point(to, from)) = Stale(H, r)
<1>1. r \cup ({to} \X (from \cap F)) = r
  OBVIOUS
<1>2. AfterStep(Stale(F, r), Stencil(to, from)) = Stale(F \cup {to}, r)
  BY <1>1, StencilStep
<1>3. AfterStep(Stale(F, r), Point(to, from)) = Stale(F \ {to}, r)
  BY PointStep, Zenon
<1> QED
  BY <1>2, <1>3, Zenon

\* A point-wise kernel with an outdated operand.
LEMMA StalePoint ==
  ASSUME NEW F, NEW r, NEW to, NEW from, NEW H, from \cap F # {}, H = F \cup {to}
  PROVE  AfterStep(Stale(F, r), Point(to, from)) = Stale(H, r)
  BY PointStep, Zenon

\* An exchange.
LEMMA Exchanged ==
  ASSUME NEW F, NEW r, NEW to, NEW H, H = F \ {to}
  PROVE  AfterStep(Stale(F, r), Send(to)) = Stale(H, r)
  BY SendStep, Zenon

\* Short sequences.
LEMMA FoldTwo ==
  ASSUME NEW g, NEW a, NEW b
  PROVE  Fold(g, <<a, b>>) = AfterStep(AfterStep(g, a), b)
<1>1. PICK A : Passes(g, <<a, b>>, 2, A) /\ Fold(g, <<a, b>>) = A[2]
  BY DOMAIN <<a, b>> = 1..2, 2 \in Nat, Trace, Zenon
<1> QED
  BY <1>1 DEF Passes

LEMMA FoldThree ==
  ASSUME NEW g, NEW a, NEW b, NEW c
  PROVE  Fold(g, <<a, b, c>>) = AfterStep(AfterStep(AfterStep(g, a), b), c)
<1>1. PICK A : Passes(g, <<a, b, c>>, 3, A) /\ Fold(g, <<a, b, c>>) = A[3]
  BY DOMAIN <<a, b, c>> = 1..3, 3 \in Nat, Trace, Zenon
<1> QED
  BY <1>1 DEF Passes

LEMMA FoldFour ==
  ASSUME NEW g, NEW a, NEW b, NEW c, NEW d
  PROVE  Fold(g, <<a, b, c, d>>) =
           AfterStep(AfterStep(AfterStep(AfterStep(g, a), b), c), d)
<1>1. PICK A : Passes(g, <<a, b, c, d>>, 4, A) /\ Fold(g, <<a, b, c, d>>) = A[4]
  BY DOMAIN <<a, b, c, d>> = 1..4, 4 \in Nat, Trace, Zenon
<1> QED
  BY <1>1 DEF Passes

LEMMA FoldFive ==
  ASSUME NEW g, NEW a, NEW b, NEW c, NEW d, NEW e
  PROVE  Fold(g, <<a, b, c, d, e>>) =
           AfterStep(AfterStep(AfterStep(AfterStep(AfterStep(g, a), b), c), d), e)
<1>1. PICK A : /\ Passes(g, <<a, b, c, d, e>>, 5, A)
               /\ Fold(g, <<a, b, c, d, e>>) = A[5]
  BY DOMAIN <<a, b, c, d, e>> = 1..5, 5 \in Nat, Trace, Zenon
<1> QED
  BY <1>1 DEF Passes

LEMMA FoldSix ==
  ASSUME NEW g, NEW a, NEW b, NEW c, NEW d, NEW e, NEW f
  PROVE  Fold(g, <<a, b, c, d, e, f>>) =
           AfterStep(AfterStep(AfterStep(AfterStep(AfterStep(AfterStep(g,
             a), b), c), d), e), f)
<1>1. PICK A : /\ Passes(g, <<a, b, c, d, e, f>>, 6, A)
               /\ Fold(g, <<a, b, c, d, e, f>>) = A[6]
  BY DOMAIN <<a, b, c, d, e, f>> = 1..6, 6 \in Nat, Trace, Zenon
<1> QED
  BY <1>1 DEF Passes

\* The sums of the fields.
LEMMA AfterSumUp ==
  ASSUME NEW r
  PROVE  Fold(Stale({}, r), SumUp) = Stale({}, r)
<1>1. AfterStep(Stale({}, r), Point("E", {"E0", "Edelta"})) = Stale({}, r)
  BY CleanKernel, {"E0", "Edelta"} \cap {} = {}, {} = {} \ {"E"}
<1>2. AfterStep(Stale({}, r), Point("B", {"B0", "Bdelta"})) = Stale({}, r)
  BY CleanKernel, {"B0", "Bdelta"} \cap {} = {}, {} = {} \ {"B"}
<1> QED
  BY <1>1, <1>2, FoldTwo DEF SumUp

\* B, then E, each followed by its exchange.
LEMMA AfterLeap ==
  ASSUME NEW r
  PROVE  Fold(Stale({}, r),
              <<Stencil("Bdelta", {"Edelta"}), Send("Bdelta"),
                Stencil("Edelta", {"Bdelta"}), Send("Edelta")>>) = Stale({}, r)
<1>1. AfterStep(Stale({}, r), Stencil("Bdelta", {"Edelta"})) = Stale({"Bdelta"}, r)
  BY CleanKernel, {} \cup {"Bdelta"} = {"Bdelta"}
<1>2. AfterStep(Stale({"Bdelta"}, r), Send("Bdelta")) = Stale({}, r)
  BY Exchanged, {} = {"Bdelta"} \ {"Bdelta"}
<1>3. AfterStep(Stale({}, r), Stencil("Edelta", {"Bdelta"})) = Stale({"Edelta"}, r)
  BY CleanKernel, {} \cup {"Edelta"} = {"Edelta"}
<1>4. AfterStep(Stale({"Edelta"}, r), Send("Edelta")) = Stale({}, r)
  BY Exchanged, {} = {"Edelta"} \ {"Edelta"}
<1> QED
  BY <1>1, <1>2, <1>3, <1>4, FoldFour

\* A deposited field: deposit, exchange, filter, exchange.
LEMMA AfterDeposit ==
  ASSUME NEW r, NEW f
  PROVE  Fold(Stale({}, r), <<Stencil(f, {"E", "B"}), Send(f),
                              Stencil(f, {f}), Send(f)>>) = Stale({}, r)
<1>1. /\ AfterStep(Stale({}, r), Stencil(f, {"E", "B"})) = Stale({f}, r)
      /\ AfterStep(Stale({}, r), Stencil(f, {f})) = Stale({f}, r)
  BY CleanKernel, {f} = {} \cup {f}
<1>2. AfterStep(Stale({f}, r), Send(f)) = Stale({}, r)
  BY Exchanged, {} = {f} \ {f}
<1> QED
  BY <1>1, <1>2, FoldFour

\* One pass of the Kerr-Schild predictor.
LEMMA AfterPass ==
  ASSUME NEW r, NEW toB, NEW toD, NEW nextB, NEW nextD,
         toB \notin {"prevB", "prevD", nextB, nextD},
         toD \notin {"prevB", "prevD", nextB, nextD}, toB # toD
  PROVE  Fold(Stale({}, r), Pass(toB, toD, nextB, nextD)) = Stale({}, r)
<1> DEFINE from == {"prevB", "prevD", nextB, nextD}
<1>1. AfterStep(Stale({}, r), Stencil(toB, from)) = Stale({toB}, r)
  BY CleanKernel, {toB} = {} \cup {toB}, from \cap {} = {}
<1>2. AfterStep(Stale({toB}, r), Stencil(toD, from)) = Stale({toB, toD}, r)
  BY CleanKernel, {toB, toD} = {toB} \cup {toD}, from \cap {toB} = {}
<1>3. AfterStep(Stale({toB, toD}, r), Send(toB)) = Stale({toD}, r)
  BY Exchanged, {toD} = {toB, toD} \ {toB}
<1>4. AfterStep(Stale({toD}, r), Send(toD)) = Stale({}, r)
  BY Exchanged, {} = {toD} \ {toD}
<1> QED
  BY <1>1, <1>2, <1>3, <1>4, FoldFour DEF Pass

\* One iteration of the implicit spherical solver whose operand is up to date.
LEMMA AfterIteration ==
  ASSUME NEW r, NEW i \in Nat, NEW F \in SUBSET {"bnew", IF i % 2 = 1 THEN "tmp2" ELSE "tmp1"},
         "bnew" \in F
  PROVE  Fold(Stale(F, r), Iteration(i)) = Stale({"bnew"}, r)
<1> DEFINE main == IF i % 2 = 1 THEN "tmp1" ELSE "tmp2"
           alt == IF i % 2 = 1 THEN "tmp2" ELSE "tmp1"
<1>0. /\ main \notin F /\ F \cup {alt} = {"bnew", alt} /\ alt # "bnew"
      /\ F \subseteq {"bnew", alt}
  OBVIOUS
<1>1. Iteration(i) = <<Stencil(alt, {main}), Send(alt), Point("bnew", {"bnew", alt})>>
  BY DEF Iteration
<1> HIDE DEF main, alt
<1>2. AfterStep(Stale(F, r), Stencil(alt, {main})) = Stale({"bnew", alt}, r)
  BY <1>0, CleanKernel, {"bnew", alt} = F \cup {alt}, {main} \cap F = {}
<1>3. AfterStep(Stale({"bnew", alt}, r), Send(alt)) = Stale({"bnew"}, r)
  BY <1>0, Exchanged, {"bnew"} = {"bnew", alt} \ {alt}
<1>4. AfterStep(Stale({"bnew"}, r), Point("bnew", {"bnew", alt})) = Stale({"bnew"}, r)
  BY <1>0, StalePoint, {"bnew", alt} \cap {"bnew"} # {}, {"bnew"} = {"bnew"} \cup {"bnew"}
<1> QED
  BY <1>1, <1>2, <1>3, <1>4, FoldThree

Operand == {"E", "B", "E0", "B0", "Edelta", "Bdelta", "J", "Rho", "tmp1", "tmp2", "bnew",
            "prevB", "prevD", "newB", "newD"}
Kernel == [op : {"stencil", "point", "send"}, to : Operand, from : SUBSET Operand]

LEMMA KernelIs ==
  ASSUME NEW to \in Operand, NEW from \in SUBSET Operand
  PROVE  Stencil(to, from) \in Kernel /\ Point(to, from) \in Kernel /\ Send(to) \in Kernel
<1> DEFINE K(o, f) == [op |-> o, to |-> to, from |-> f]
<1>1. \A o \in {"stencil", "point", "send"} : \A f \in SUBSET Operand : K(o, f) \in Kernel
  BY DEF Kernel
<1>2. {} \in SUBSET Operand
  OBVIOUS
<1> QED
  BY <1>1, <1>2 DEF Stencil, Point, Send

LEMMA Sequences ==
  ASSUME NEW L, NEW a \in L, NEW b \in L, NEW c \in L, NEW d \in L, NEW e \in L, NEW f \in L
  PROVE  /\ <<a, b>> \in Seq(L) /\ <<a, b, c>> \in Seq(L) /\ <<a, b, c, d>> \in Seq(L)
         /\ <<a, b, c, d, e>> \in Seq(L) /\ <<a, b, c, d, e, f>> \in Seq(L)
  OBVIOUS

LEMMA SumUpIs == SumUp \in Seq(Kernel)
<1>1. /\ "E" \in Operand /\ "B" \in Operand
      /\ {"E0", "Edelta"} \in SUBSET Operand /\ {"B0", "Bdelta"} \in SUBSET Operand
  BY DEF Operand
<1>2. Point("E", {"E0", "Edelta"}) \in Kernel /\ Point("B", {"B0", "Bdelta"}) \in Kernel
  BY <1>1, KernelIs
<1> QED
  BY <1>2, Sequences DEF SumUp

LEMMA PassIs ==
  ASSUME NEW toB \in Operand, NEW toD \in Operand, NEW nextB \in Operand, NEW nextD \in Operand
  PROVE  Pass(toB, toD, nextB, nextD) \in Seq(Kernel)
<1> DEFINE from == {"prevB", "prevD", nextB, nextD}
<1>1. from \in SUBSET Operand
  BY DEF Operand
<1>2. /\ Stencil(toB, from) \in Kernel /\ Stencil(toD, from) \in Kernel
      /\ Send(toB) \in Kernel /\ Send(toD) \in Kernel
  BY <1>1, KernelIs
<1> QED
  BY <1>2, Sequences DEF Pass

LEMMA IterationIs ==
  ASSUME NEW i \in Nat
  PROVE  Iteration(i) \in Seq(Kernel)
<1> DEFINE main == IF i % 2 = 1 THEN "tmp1" ELSE "tmp2"
           alt == IF i % 2 = 1 THEN "tmp2" ELSE "tmp1"
<1>1. /\ alt \in Operand /\ {main} \in SUBSET Operand /\ "bnew" \in Operand
      /\ {"bnew", alt} \in SUBSET Operand
  BY DEF Operand
<1>2. Iteration(i) = <<Stencil(alt, {main}), Send(alt), Point("bnew", {"bnew", alt})>>
  BY DEF Iteration
<1> HIDE DEF main, alt
<1>3. /\ Stencil(alt, {main}) \in Kernel /\ Send(alt) \in Kernel
      /\ Point("bnew", {"bnew", alt}) \in Kernel
  BY <1>1, KernelIs
<1> QED
  BY <1>2, <1>3, Sequences

\* Two sequences of kernels, one after the other.
Chain(g, s, h) == s \in Seq(Kernel) /\ Fold(g, s) = h

LEMMA ChainBoth ==
  ASSUME NEW s, NEW t, NEW g, NEW h, NEW k, Chain(g, s, h), Chain(h, t, k)
  PROVE  Chain(g, s \o t, k)
<1>1. s \in Seq(Kernel) /\ t \in Seq(Kernel) /\ Fold(g, s) = h /\ Fold(h, t) = k
  BY DEF Chain
<1>2. Fold(g, s \o t) = Fold(Fold(g, s), t)
  BY <1>1, TraceConcat, Zenon
<1>3. s \o t \in Seq(Kernel)
  BY <1>1
<1> QED
  BY <1>1, <1>2, <1>3 DEF Chain

\* The explicit solvers leave no guard cells out of date and read none.
LEMMA AfterExplicit ==
  ASSUME NEW r
  PROVE  /\ Fold(Stale({}, r), CartesianSteps) = Stale({}, r)
         /\ Fold(Stale({}, r), SphericalSteps) = Stale({}, r)
<1> DEFINE Leap == <<Stencil("Bdelta", {"Edelta"}), Send("Bdelta"),
                     Stencil("Edelta", {"Bdelta"}), Send("Edelta")>>
<1>1. /\ "Bdelta" \in Operand /\ "Edelta" \in Operand
      /\ {"Edelta"} \in SUBSET Operand /\ {"Bdelta"} \in SUBSET Operand
  BY DEF Operand
<1>2. /\ Stencil("Bdelta", {"Edelta"}) \in Kernel /\ Send("Bdelta") \in Kernel
      /\ Stencil("Edelta", {"Bdelta"}) \in Kernel /\ Send("Edelta") \in Kernel
  BY <1>1, KernelIs
<1>3. Leap \in Seq(Kernel)
  BY <1>2, Sequences
<1>4. Chain(Stale({}, r), Leap, Stale({}, r))
  BY <1>3, AfterLeap DEF Chain
<1>5. Chain(Stale({}, r), SumUp, Stale({}, r))
  BY SumUpIs, AfterSumUp DEF Chain
<1>6. CartesianSteps = Leap \o SumUp /\ SphericalSteps = Leap \o SumUp
  BY DEF CartesianSteps, SphericalSteps
<1> HIDE DEF Leap
<1>7. Chain(Stale({}, r), Leap \o SumUp, Stale({}, r))
  BY <1>4, <1>5, ChainBoth
<1> QED
  BY <1>6, <1>7 DEF Chain

\* Nor does the Kerr-Schild solver.
LEMMA AfterPredictor ==
  ASSUME NEW r
  PROVE  Fold(Stale({}, r), GrSteps) = Stale({}, r)
<1> DEFINE Begin == <<Point("prevB", {"Bdelta"}), Point("prevD", {"Edelta"})>>
           P1 == Pass("newB", "newD", "prevB", "prevD")
           P2 == Pass("Bdelta", "Edelta", "newB", "newD")
           P3 == Pass("newB", "newD", "Bdelta", "Edelta")
           g == Stale({}, r)
<1>1. Begin \in Seq(Kernel)
  <2>1. /\ "prevB" \in Operand /\ "prevD" \in Operand
        /\ {"Bdelta"} \in SUBSET Operand /\ {"Edelta"} \in SUBSET Operand
    BY DEF Operand
  <2>2. Point("prevB", {"Bdelta"}) \in Kernel /\ Point("prevD", {"Edelta"}) \in Kernel
    BY <2>1, KernelIs
  <2> QED
    BY <2>2, Sequences
<1>2. Fold(g, Begin) = g
  <2>1. AfterStep(g, Point("prevB", {"Bdelta"})) = g
    BY CleanKernel, {"Bdelta"} \cap {} = {}, {} = {} \ {"prevB"}
  <2>2. AfterStep(g, Point("prevD", {"Edelta"})) = g
    BY CleanKernel, {"Edelta"} \cap {} = {}, {} = {} \ {"prevD"}
  <2> QED
    BY <2>1, <2>2, FoldTwo
<1>3. Fold(g, P1) = g /\ Fold(g, P2) = g /\ Fold(g, P3) = g
  <2>1. Fold(g, P1) = g
    BY AfterPass, "newB" \notin {"prevB", "prevD", "prevB", "prevD"},
       "newD" \notin {"prevB", "prevD", "prevB", "prevD"}, "newB" # "newD"
  <2>2. Fold(g, P2) = g
    BY AfterPass, "Bdelta" \notin {"prevB", "prevD", "newB", "newD"},
       "Edelta" \notin {"prevB", "prevD", "newB", "newD"}, "Bdelta" # "Edelta"
  <2>3. Fold(g, P3) = g
    BY AfterPass, "newB" \notin {"prevB", "prevD", "Bdelta", "Edelta"},
       "newD" \notin {"prevB", "prevD", "Bdelta", "Edelta"}, "newB" # "newD"
  <2> QED
    BY <2>1, <2>2, <2>3
<1>4. P1 \in Seq(Kernel) /\ P2 \in Seq(Kernel) /\ P3 \in Seq(Kernel)
  <2>1. {"prevB", "prevD", "newB", "newD", "Bdelta", "Edelta"} \subseteq Operand
    BY DEF Operand
  <2>2. P1 \in Seq(Kernel)
    BY <2>1, PassIs
  <2>3. P2 \in Seq(Kernel)
    BY <2>1, PassIs
  <2>4. P3 \in Seq(Kernel)
    BY <2>1, PassIs
  <2> QED
    BY <2>2, <2>3, <2>4
<1>5. GrSteps = Begin \o P1 \o P2 \o P3 \o P2 \o SumUp
  BY DEF GrSteps
<1>6. Chain(g, SumUp, g)
  BY SumUpIs, AfterSumUp DEF Chain
<1> HIDE DEF Begin, P1, P2, P3, g
<1>7. Chain(g, Begin, g) /\ Chain(g, P1, g) /\ Chain(g, P2, g) /\ Chain(g, P3, g)
  BY <1>1, <1>2, <1>3, <1>4 DEF Chain
<1>8. Chain(g, Begin \o P1, g)
  BY <1>7, ChainBoth
<1>9. Chain(g, (Begin \o P1) \o P2, g)
  BY <1>7, <1>8, ChainBoth
<1>10. Chain(g, ((Begin \o P1) \o P2) \o P3, g)
  BY <1>7, <1>9, ChainBoth
<1>11. Chain(g, (((Begin \o P1) \o P2) \o P3) \o P2, g)
  BY <1>7, <1>10, ChainBoth
<1>12. Chain(g, ((((Begin \o P1) \o P2) \o P3) \o P2) \o SumUp, g)
  BY <1>6, <1>11, ChainBoth
<1> QED
  BY <1>5, <1>12 DEF g, Chain

\* The implicit spherical solver reads tmp1 where it is out of date, once, and
\* leaves all guard cells up to date.
LEMMA AfterImplicit ==
  ASSUME NEW r
  PROVE  Fold(Stale({}, r), SphericalImplicitSteps) =
           Stale({}, r \cup {<<"tmp2", "tmp1">>})
<1> DEFINE Begin == <<Point("tmp1", {"Bdelta"}), Stencil("tmp2", {"tmp1"}),
                     Point("tmp1", {"tmp1", "tmp2"}), Send("tmp1"),
                     Stencil("tmp1", {"Edelta", "J"}), Point("bnew", {"tmp1"})>>
           Finish == <<Send("bnew"), Point("tmp2", {"Bdelta", "bnew"}),
                     Stencil("Edelta", {"tmp2"}), Send("Edelta"),
                     Point("Bdelta", {"tmp2"})>>
           q == r \cup {<<"tmp2", "tmp1">>}
<1>1. Begin \in Seq(Kernel)
  <2>1. /\ "tmp1" \in Operand /\ "tmp2" \in Operand /\ "bnew" \in Operand
        /\ {"Bdelta"} \in SUBSET Operand /\ {"tmp1"} \in SUBSET Operand
        /\ {"tmp1", "tmp2"} \in SUBSET Operand /\ {"Edelta", "J"} \in SUBSET Operand
    BY DEF Operand
  <2>2. /\ Point("tmp1", {"Bdelta"}) \in Kernel /\ Stencil("tmp2", {"tmp1"}) \in Kernel
        /\ Point("tmp1", {"tmp1", "tmp2"}) \in Kernel /\ Send("tmp1") \in Kernel
        /\ Stencil("tmp1", {"Edelta", "J"}) \in Kernel
        /\ Point("bnew", {"tmp1"}) \in Kernel
    BY <2>1, KernelIs
  <2> QED
    BY <2>2, Sequences
<1>2. Finish \in Seq(Kernel)
  <2>1. /\ "tmp2" \in Operand /\ "Edelta" \in Operand /\ "bnew" \in Operand
        /\ "Bdelta" \in Operand /\ {"tmp2"} \in SUBSET Operand
        /\ {"Bdelta", "bnew"} \in SUBSET Operand
    BY DEF Operand
  <2>2. /\ Send("bnew") \in Kernel /\ Point("tmp2", {"Bdelta", "bnew"}) \in Kernel
        /\ Stencil("Edelta", {"tmp2"}) \in Kernel /\ Send("Edelta") \in Kernel
        /\ Point("Bdelta", {"tmp2"}) \in Kernel
    BY <2>1, KernelIs
  <2> QED
    BY <2>2, Sequences
<1>3. Fold(Stale({}, r), Begin) = Stale({"tmp1", "tmp2", "bnew"}, r)
  <2>1. AfterStep(Stale({}, r), Point("tmp1", {"Bdelta"})) = Stale({}, r)
    BY CleanKernel, {"Bdelta"} \cap {} = {}, {} = {} \ {"tmp1"}
  <2>2. AfterStep(Stale({}, r), Stencil("tmp2", {"tmp1"})) = Stale({"tmp2"}, r)
    BY CleanKernel, {"tmp1"} \cap {} = {}, {"tmp2"} = {} \cup {"tmp2"}
  <2>3. AfterStep(Stale({"tmp2"}, r), Point("tmp1", {"tmp1", "tmp2"})) =
          Stale({"tmp1", "tmp2"}, r)
    BY StalePoint, {"tmp1", "tmp2"} \cap {"tmp2"} # {},
       {"tmp1", "tmp2"} = {"tmp2"} \cup {"tmp1"}
  <2>4. AfterStep(Stale({"tmp1", "tmp2"}, r), Send("tmp1")) = Stale({"tmp2"}, r)
    BY Exchanged, {"tmp2"} = {"tmp1", "tmp2"} \ {"tmp1"}
  <2>5. AfterStep(Stale({"tmp2"}, r), Stencil("tmp1", {"Edelta", "J"})) =
          Stale({"tmp1", "tmp2"}, r)
    BY CleanKernel, {"Edelta", "J"} \cap {"tmp2"} = {},
       {"tmp1", "tmp2"} = {"tmp2"} \cup {"tmp1"}
  <2>6. AfterStep(Stale({"tmp1", "tmp2"}, r), Point("bnew", {"tmp1"})) =
          Stale({"tmp1", "tmp2", "bnew"}, r)
    BY StalePoint, {"tmp1"} \cap {"tmp1", "tmp2"} # {},
       {"tmp1", "tmp2", "bnew"} = {"tmp1", "tmp2"} \cup {"bnew"}
  <2> QED
    BY <2>1, <2>2, <2>3, <2>4, <2>5, <2>6, FoldSix
<1>4. Fold(Stale({"tmp1", "tmp2", "bnew"}, r), Iteration(1)) =
        Stale({"tmp1", "bnew"}, q)
  <2> DEFINE F == {"tmp1", "tmp2", "bnew"}
  <2>1. Iteration(1) =
          <<Stencil("tmp2", {"tmp1"}), Send("tmp2"), Point("bnew", {"bnew", "tmp2"})>>
    BY 1 % 2 = 1 DEF Iteration
  <2>2. AfterStep(Stale(F, r), Stencil("tmp2", {"tmp1"})) = Stale(F, q)
    <3>1. F \cup {"tmp2"} = F
      OBVIOUS
    <3>2. {"tmp1"} \cap F = {"tmp1"}
      OBVIOUS
    <3>3. {"tmp2"} \X {"tmp1"} = {<<"tmp2", "tmp1">>}
      OBVIOUS
    <3>4. r \cup ({"tmp2"} \X ({"tmp1"} \cap F)) = q
      BY <3>2, <3>3, Zenon
    <3>5. AfterStep(Stale(F, r), Stencil("tmp2", {"tmp1"})) =
            Stale(F \cup {"tmp2"}, r \cup ({"tmp2"} \X ({"tmp1"} \cap F)))
      BY StencilStep
    <3> HIDE DEF F, q
    <3> QED
      BY <3>1, <3>4, <3>5, Zenon
  <2>3. AfterStep(Stale(F, q), Send("tmp2")) = Stale({"tmp1", "bnew"}, q)
    BY Exchanged, {"tmp1", "bnew"} = F \ {"tmp2"}
  <2>4. AfterStep(Stale({"tmp1", "bnew"}, q), Point("bnew", {"bnew", "tmp2"})) =
          Stale({"tmp1", "bnew"}, q)
    BY StalePoint, {"bnew", "tmp2"} \cap {"tmp1", "bnew"} # {},
       {"tmp1", "bnew"} = {"tmp1", "bnew"} \cup {"bnew"}
  <2> QED
    BY <2>1, <2>2, <2>3, <2>4, FoldThree
<1>5. Fold(Stale({"tmp1", "bnew"}, q), Iteration(2)) = Stale({"bnew"}, q)
  BY AfterIteration, 2 % 2 = 0, 2 \in Nat,
     {"tmp1", "bnew"} \in SUBSET {"bnew", "tmp1"}
<1>6. \A i \in Nat : Fold(Stale({"bnew"}, q), Iteration(i)) = Stale({"bnew"}, q)
  BY AfterIteration, \A x : {"bnew"} \in SUBSET {"bnew", x}
<1>7. Fold(Stale({"bnew"}, q), Finish) = Stale({}, q)
  <2>1. AfterStep(Stale({"bnew"}, q), Send("bnew")) = Stale({}, q)
    BY Exchanged, {} = {"bnew"} \ {"bnew"}
  <2>2. AfterStep(Stale({}, q), Point("tmp2", {"Bdelta", "bnew"})) = Stale({}, q)
    BY CleanKernel, {"Bdelta", "bnew"} \cap {} = {}, {} = {} \ {"tmp2"}
  <2>3. AfterStep(Stale({}, q), Stencil("Edelta", {"tmp2"})) = Stale({"Edelta"}, q)
    BY CleanKernel, {"tmp2"} \cap {} = {}, {"Edelta"} = {} \cup {"Edelta"}
  <2>4. AfterStep(Stale({"Edelta"}, q), Send("Edelta")) = Stale({}, q)
    BY Exchanged, {} = {"Edelta"} \ {"Edelta"}
  <2>5. AfterStep(Stale({}, q), Point("Bdelta", {"tmp2"})) = Stale({}, q)
    BY CleanKernel, {"tmp2"} \cap {} = {}, {} = {} \ {"Bdelta"}
  <2> QED
    BY <2>1, <2>2, <2>3, <2>4, <2>5, FoldFive
<1>8. SphericalImplicitSteps =
        Begin \o Iteration(1) \o Iteration(2) \o Iteration(3) \o Iteration(4)
          \o Iteration(5) \o Finish \o SumUp
  BY DEF SphericalImplicitSteps
<1> HIDE DEF Begin, Finish, q
<1>9. Chain(Stale({}, r), Begin \o Iteration(1), Stale({"tmp1", "bnew"}, q))
  BY <1>1, <1>3, <1>4, IterationIs, ChainBoth, 1 \in Nat DEF Chain
<1>10. Chain(Stale({"tmp1", "bnew"}, q), Iteration(2), Stale({"bnew"}, q))
  BY <1>5, IterationIs, 2 \in Nat DEF Chain
<1>11. \A i \in Nat : Chain(Stale({"bnew"}, q), Iteration(i), Stale({"bnew"}, q))
  BY <1>6, IterationIs DEF Chain
<1>12. Chain(Stale({"bnew"}, q), Finish, Stale({}, q)) /\ Chain(Stale({}, q), SumUp, Stale({}, q))
  BY <1>2, <1>7, SumUpIs, AfterSumUp DEF Chain
<1>13. Chain(Stale({}, r), Begin \o Iteration(1) \o Iteration(2), Stale({"bnew"}, q))
  BY <1>9, <1>10, ChainBoth
<1>14. Chain(Stale({}, r), Begin \o Iteration(1) \o Iteration(2) \o Iteration(3),
             Stale({"bnew"}, q))
  BY <1>11, <1>13, ChainBoth, 3 \in Nat
<1>15. Chain(Stale({}, r), Begin \o Iteration(1) \o Iteration(2) \o Iteration(3)
               \o Iteration(4), Stale({"bnew"}, q))
  BY <1>11, <1>14, ChainBoth, 4 \in Nat
<1>16. Chain(Stale({}, r), Begin \o Iteration(1) \o Iteration(2) \o Iteration(3)
               \o Iteration(4) \o Iteration(5), Stale({"bnew"}, q))
  BY <1>11, <1>15, ChainBoth, 5 \in Nat
<1>17. Chain(Stale({}, r), Begin \o Iteration(1) \o Iteration(2) \o Iteration(3)
               \o Iteration(4) \o Iteration(5) \o Finish, Stale({}, q))
  BY <1>12, <1>16, ChainBoth
<1>18. Chain(Stale({}, r), Begin \o Iteration(1) \o Iteration(2) \o Iteration(3)
               \o Iteration(4) \o Iteration(5) \o Finish \o SumUp, Stale({}, q))
  BY <1>12, <1>17, ChainBoth
<1> QED
  BY <1>8, <1>18 DEF Chain, q
-----------------------------------------------------------------------------
(* The inductive invariant *)

Name == {"grid", "pusher", "rad", "moments", "momentum", "tracker", "injector", "solver",
         "bc", "exporter"}
Helper == {"sync_curv_emission", "inverse_compton"}

\* The program has not ended, in one way or another.
Live == phase \in {"register", "init", "prepare", "update"}

\* System s has had its turn in this step; the last step in which it had one.
Past(s) == phase = "update" /\ \E i \in 1..(at - 1) : order[i] = s
LastTurn(s) == IF Past(s) THEN step ELSE step - 1

TypeInv ==
  /\ prog \in Program /\ implicit \in BOOLEAN /\ configured \in BOOLEAN
  /\ at \in Nat \ {0} /\ step \in 0..MaxStep
  /\ order \in Seq(Name \cup Helper)
  /\ used \in [0..MaxStep -> Int]
  /\ holds \in [Tally -> SUBSET Int] /\ emptied \in [Tally -> Int]

\* The systems are entered in the order of the program,
RegisterInv ==
  phase = "register" =>
    /\ at <= Len(prog.systems) /\ Len(order) = at - 1
    /\ \A i \in 1..(at - 1) :
         /\ order[i] = prog.systems[i]
         /\ Registered(prog.systems[i]) \subseteq data
         /\ prog.systems[i] = "moments" => entries = 2
    /\ prog.main \subseteq data

\* init() adds helpers behind them and nothing is unregistered,
OrderInv ==
  phase # "register" =>
    /\ last = Len(prog.systems) /\ Len(prog.systems) <= Len(order)
    /\ \A i \in 1..Len(prog.systems) : order[i] = prog.systems[i]
    /\ \A i \in (Len(prog.systems) + 1)..Len(order) : order[i] \in Helper
    /\ Provided(prog) \subseteq data
    /\ Has("moments") => entries = 2

\* and update() goes through all of them.
CursorInv ==
  /\ phase = "update" => at <= Len(order)
  /\ phase \in {"prepare", "update", "done"} => ready = data
  /\ phase \in {"register", "init", "prepare"} => step = 0 /\ touched = {}

\* J is of the last turn of the pusher.
CurrentInv ==
  Live => current = IF Has("pusher") /\ LastTurn("pusher") >= 0
                    THEN {LastTurn("pusher")} ELSE {}

\* The solver has used every J up to its last turn, or up to the step before.
UsedInv ==
  Live /\ Has("pusher") /\ Has("solver") =>
    \A n \in 0..MaxStep :
      used[n] = IF n <= LastTurn("solver")
                        - (IF Before(prog, "solver", "pusher") THEN 1 ELSE 0)
                THEN 1 ELSE 0

\* Between two systems no guard cells are out of date.
GuardInv == guards = Stale({}, guards.reads)

\* The sums are wrong until the turn of the solver, and after a boundary
\* condition behind it; they stay wrong only where there is such a condition.
SumInv ==
  Live /\ behind =>
    /\ Has("solver")
    /\ ~ Past("solver") \/ Before(prog, "solver", "bc")
    /\ ~ Has("bc") => step = 0

\* What is tallied in every step covers the steps since the last reset,
TallyInv ==
  Live =>
    /\ \A t \in Tally : -1 <= emptied[t] /\ emptied[t] <= LastTurn("exporter")
    /\ holds["photon_produced"] =
         IF Has("rad") THEN (emptied["photon_produced"] + 1)..LastTurn("rad") ELSE {}
    /\ holds["sync_dist"] =
         IF prog.policy = "impl_cooling"
         THEN (emptied["sync_dist"] + 1)..LastTurn("pusher") ELSE {}

\* and what is due in this step is of this step once its system had its turn;
\* the spectra are gone once they are written.
DueInv ==
  Live =>
    /\ Past("pusher") /\ RhoDue => holds["Rho"] = {step}
    /\ ~ Has("pusher") => holds["Rho"] = {}
    /\ Past("solver") /\ Due(FieldInterval(100)) => holds["flux"] = {step}
    /\ ~ Has("solver") => holds["flux"] = {}
    /\ Past("moments") /\ Due(FieldInterval(100)) => holds["moments"] = {step}
    /\ ~ Has("moments") => holds["moments"] = {}
    /\ \A t \in {"momentum", "energy"} :
         /\ ~ Has("momentum") => holds[t] = {}
         /\ Has("momentum") /\ Has("exporter") =>
              holds[t] = IF /\ Past("momentum") /\ ~ Past("exporter")
                            /\ Due(FieldInterval(1))
                         THEN {step} ELSE {}

\* S and T are written to in the entries of the species.
MomentInv == touched # {} => entries = 2 /\ touched \subseteq Tallied

Inv ==
  /\ TypeInv /\ RegisterInv /\ OrderInv /\ CursorInv /\ CurrentInv /\ UsedInv /\ GuardInv
  /\ SumInv /\ TallyInv /\ DueInv /\ MomentInv
  /\ NothingMissing /\ FreshGuards /\ TotalsCurrent /\ OutputOfStep
-----------------------------------------------------------------------------
(* Turns *)

\* What the programs have in common.
LEMMA Ordered ==
  ASSUME TypeInv
  PROVE  /\ WellOrdered(prog)
         /\ Len(prog.systems) \in Nat \ {0}
         /\ \A i \in 1..Len(prog.systems) : prog.systems[i] \in Name
         /\ \A i, j \in 1..Len(prog.systems) : prog.systems[i] = prog.systems[j] => i = j
         /\ \A i \in 1..Len(prog.systems) : prog.systems[i] = "exporter" => i = Len(prog.systems)
<1>1. WellOrdered(prog)
  BY ProgramAssumption DEF TypeInv
<1>2. prog.systems \in Seq(Name) /\ prog.systems # <<>>
  BY <1>1 DEF WellOrdered, Name
<1>3. /\ \A i, j \in 1..Len(prog.systems) : prog.systems[i] = prog.systems[j] => i = j
      /\ \A i \in 1..Len(prog.systems) : prog.systems[i] = "exporter" => i = Len(prog.systems)
  BY <1>1 DEF WellOrdered
<1> HIDE DEF Name
<1>4. Len(prog.systems) \in Nat \ {0}
  BY <1>2
<1>5. \A i \in 1..Len(prog.systems) : prog.systems[i] \in Name
  BY <1>2
<1> QED
  BY <1>1, <1>3, <1>4, <1>5

\* A system of the program whose turn it is has not had it in this step; the
\* others have if and only if they come before it.
LEMMA MyTurn ==
  ASSUME TypeInv, OrderInv, CursorInv, phase = "update",
         NEW s \in Name, order[at] = s
  PROVE  /\ at \in 1..Len(prog.systems) /\ prog.systems[at] = s
         /\ Has(s) /\ ~ Past(s) /\ LastTurn(s) = step - 1
         /\ \A x \in Name : Has(x) /\ x # s =>
              (Past(x) <=> Before(prog, x, s)) /\ (~ Past(x) <=> Before(prog, s, x))
<1> DEFINE L == Len(prog.systems)
<1>1. /\ L \in Nat \ {0} /\ at \in Nat \ {0} /\ at <= Len(order) /\ L <= Len(order)
      /\ Len(order) \in Nat
  BY Ordered DEF TypeInv, OrderInv, CursorInv
<1>2. /\ \A i \in 1..L : order[i] = prog.systems[i]
      /\ \A i \in (L + 1)..Len(order) : order[i] \in Helper
      /\ \A i, j \in 1..L : prog.systems[i] = prog.systems[j] => i = j
  BY Ordered DEF OrderInv
<1>3. \A x \in Name : x \notin Helper
  BY DEF Name, Helper
<1> HIDE DEF L
<1>4. at \in 1..L
  <2>1. CASE at > L
    <3>1. at \in (L + 1)..Len(order)
      BY <1>1, <2>1
    <3> QED
      BY <1>2, <1>3, <3>1
  <2> QED
    BY <1>1, <2>1
<1>5. prog.systems[at] = s
  BY <1>2, <1>4
<1>6. Has(s)
  BY <1>4, <1>5 DEF Has, Runs, L
<1>7. \A i \in 1..(at - 1) : i \in 1..L /\ i # at /\ i < at
  BY <1>1, <1>4
<1>8. ~ Past(s)
  BY <1>2, <1>4, <1>5, <1>7 DEF Past
<1>9. ASSUME NEW x \in Name, Has(x), x # s
      PROVE  (Past(x) <=> Before(prog, x, s)) /\ (~ Past(x) <=> Before(prog, s, x))
  <2>1. PICK k \in 1..L : prog.systems[k] = x
    BY <1>9 DEF Has, Runs, L
  <2>2. k # at /\ k \in Int /\ at \in Int
    BY <1>4, <1>5, <1>9, <2>1
  <2>3. Before(prog, x, s) <=> k < at
    BY <1>2, <1>4, <1>5, <2>1 DEF Before, L
  <2>4. Before(prog, s, x) <=> at < k
    BY <1>2, <1>4, <1>5, <2>1 DEF Before, L
  <2>5. Past(x) <=> k < at
    <3>1. k < at => k \in 1..(at - 1)
      BY <2>1, <1>1
    <3>2. \A i \in 1..(at - 1) : order[i] = x => i = k
      BY <1>2, <1>7, <2>1
    <3>3. order[k] = x
      BY <1>2, <2>1
    <3> QED
      BY <1>7, <3>1, <3>2, <3>3 DEF Past
  <2> QED
    BY <2>2, <2>3, <2>4, <2>5
<1>10. LastTurn(s) = step - 1
  BY <1>8 DEF LastTurn
<1> QED
  BY <1>4, <1>5, <1>6, <1>8, <1>9, <1>10 DEF L

\* The output comes last.
LEMMA ExporterLast ==
  ASSUME TypeInv, OrderInv, CursorInv, phase = "update", NEW s \in Name, order[at] = s
  PROVE  /\ s # "exporter" => ~ Past("exporter")
         /\ s = "exporter" => \A x \in Name : Has(x) /\ x # s => Past(x)
<1>1. at \in 1..Len(prog.systems) /\ prog.systems[at] = s
  BY MyTurn
<1>2. /\ Len(prog.systems) \in Nat
      /\ \A i \in 1..Len(prog.systems) : prog.systems[i] = "exporter" => i = Len(prog.systems)
      /\ \A i \in 1..Len(prog.systems) : order[i] = prog.systems[i]
  BY Ordered DEF OrderInv
<1>3. s # "exporter" => ~ Past("exporter")
  <2>1. \A i \in 1..(at - 1) : i \in 1..Len(prog.systems) /\ i < Len(prog.systems)
    BY <1>1, <1>2
  <2> QED
    BY <1>2, <2>1 DEF Past
<1>4. ASSUME s = "exporter", NEW x \in Name, Has(x), x # s PROVE Past(x)
  <2>1. at = Len(prog.systems)
    BY <1>1, <1>2, <1>4
  <2>2. PICK k \in 1..Len(prog.systems) : prog.systems[k] = x
    BY <1>4 DEF Has, Runs
  <2>3. k \in 1..(at - 1) /\ order[k] = x
    BY <1>1, <1>2, <1>4, <2>1, <2>2
  <2> QED
    BY <2>3 DEF Past
<1> QED
  BY <1>3, <1>4

\* Where update() stands after a system.
LEMMA Turning ==
  ASSUME TypeInv, OrderInv, CursorInv, phase = "update", Onward, prog' = prog,
         phase' = "update"
  PROVE  /\ \A s : Past(s)' <=> at < Len(order) /\ (Past(s) \/ order[at] = s)
         /\ at < Len(order) => step' = step
         /\ at = Len(order) => step' = step + 1
         /\ at \in 1..Len(order)
         /\ \A s : Has(s) => LastTurn(s)' = IF order[at] = s THEN step ELSE LastTurn(s)
         /\ \A s : LastTurn(s) <= LastTurn(s)'
<1> DEFINE n == Len(order)
<1>1. at \in Nat \ {0} /\ at <= n /\ n \in Nat /\ step \in Int /\ MaxStep \in Int
  BY ScheduleAssumption DEF TypeInv, CursorInv
<1>2. /\ at' = IF at = n THEN 1 ELSE at + 1
      /\ step' = IF at = n /\ step < MaxStep THEN step + 1 ELSE step
      /\ ~ (at = n /\ step = MaxStep) /\ order' = order
  BY DEF Onward, registry
<1>3. step \in 0..MaxStep
  BY DEF TypeInv
<1> HIDE DEF n
<1>4. (at < n => step' = step /\ at' = at + 1) /\ (at = n => step' = step + 1 /\ at' = 1)
  BY <1>1, <1>2, <1>3
<1>5. ASSUME NEW s PROVE Past(s)' <=> at < n /\ (Past(s) \/ order[at] = s)
  <2>1. Past(s)' <=> \E i \in 1..(at' - 1) : order[i] = s
    BY <1>2 DEF Past
  <2>2. Past(s) <=> \E i \in 1..(at - 1) : order[i] = s
    BY DEF Past
  <2>3. CASE at = n
    <3>1. 1..(at' - 1) = {}
      BY <1>4, <2>3
    <3> QED
      BY <1>1, <2>1, <2>3, <3>1
  <2>4. CASE at < n
    <3>1. 1..(at' - 1) = (1..(at - 1)) \cup {at}
      BY <1>1, <1>4, <2>4
    <3> QED
      BY <2>1, <2>2, <2>4, <3>1
  <2> QED
    BY <1>1, <2>3, <2>4
<1>6. ASSUME NEW s, Has(s), ~ Past(s), order[at] # s PROVE at < n
  <2>1. PICK k \in 1..Len(prog.systems) : prog.systems[k] = s
    BY <1>6 DEF Has, Runs
  <2>2. k \in 1..n /\ order[k] = s
    BY <2>1, Ordered, <1>1 DEF OrderInv, n
  <2>3. k # at /\ k \notin 1..(at - 1)
    BY <1>6, <2>2 DEF Past
  <2> QED
    BY <1>1, <2>2, <2>3
<1>7. ASSUME NEW s, Has(s) PROVE LastTurn(s)' = IF order[at] = s THEN step ELSE LastTurn(s)
  BY <1>1, <1>4, <1>5, <1>6, <1>7 DEF LastTurn
<1>8. ASSUME NEW s PROVE LastTurn(s) <= LastTurn(s)'
  BY <1>1, <1>4, <1>5 DEF LastTurn
<1> QED
  BY <1>1, <1>4, <1>5, <1>7, <1>8 DEF n

\* Before the first step.
LEMMA Preparing ==
  ASSUME Inv, RegisterSystem \/ InitSystem \/ InitData \/ Prepare
  PROVE  /\ phase \in {"register", "init", "prepare"}
         /\ UNCHANGED <<prog, implicit, configured, step, guards, lagging, current, used,
                        holds, emptied, shown, touched>>
         /\ step = 0 /\ touched = {}
         /\ \A s : ~ Past(s) /\ ~ Past(s)' /\ LastTurn(s) = -1 /\ LastTurn(s)' = -1
         /\ data \subseteq data'
         /\ phase # "register" => entries' = entries
         /\ phase' \in {"register", "init", "prepare", "update", "thrown", "undefined"}
<1>1. /\ phase \in {"register", "init", "prepare"}
      /\ UNCHANGED <<prog, implicit, configured, step, guards, lagging, current, used,
                        holds, emptied, shown, touched>>
  BY DEF RegisterSystem, InitSystem, InitData, Prepare, setup, fields, output, moments, registry
<1>2. step = 0 /\ touched = {} /\ step' = 0
  BY <1>1 DEF Inv, CursorInv
<1>3. phase' = "update" => at' = 1
  BY DEF RegisterSystem, InitSystem, InitData, Prepare
<1>4. ASSUME NEW s PROVE ~ Past(s) /\ ~ Past(s)'
  <2>1. 1..(1 - 1) = {}
    OBVIOUS
  <2>2. ~ Past(s)
    BY <1>1 DEF Past
  <2>3. ~ Past(s)'
    BY <1>3, <2>1 DEF Past
  <2> QED
    BY <2>2, <2>3
<1>5. data \subseteq data'
  BY DEF RegisterSystem, InitSystem, InitData, Prepare, registry
<1>6. phase # "register" => entries' = entries
  BY DEF RegisterSystem, InitSystem, InitData, Prepare, moments
<1>7. phase' \in {"register", "init", "prepare", "update", "thrown", "undefined"}
  BY <1>1 DEF RegisterSystem, InitSystem, InitData, Prepare
<1>8. \A s : LastTurn(s) = -1 /\ LastTurn(s)' = -1
  BY <1>2, <1>4 DEF LastTurn
<1> QED
  BY <1>1, <1>2, <1>4, <1>5, <1>6, <1>7, <1>8

\* In a step.
LEMMA Updating ==
  ASSUME Inv, Update
  PROVE  /\ phase = "update"
         /\ UNCHANGED <<prog, implicit, configured, last, order, data, ready, entries>>
         /\ phase' \in {"update", "done", "undefined"}
         /\ Onward \/ (phase' = "undefined" /\ UNCHANGED <<at, step>>)
<1> USE DEF Update, Turn
<1>1. phase = "update"
  BY DEF Push, Radiate, ComputeMoments, GatherMomentum, Read, Solve, ApplyBoundary,
         Export, Idle
<1>2. Onward \/ (phase' = "undefined" /\ UNCHANGED <<setup, at, last, step, registry>>)
  BY DEF Push, Radiate, ComputeMoments, GatherMomentum, Read, Solve, ApplyBoundary,
         Export, Idle
<1>3. entries' = entries
  BY DEF Push, Radiate, ComputeMoments, GatherMomentum, Read, Solve, ApplyBoundary,
         Export, Idle, moments
<1> QED
  BY <1>1, <1>2, <1>3 DEF Onward, setup, registry

-----------------------------------------------------------------------------
(* Every step keeps the invariant *)

LEMMA EnlistedIs ==
  ASSUME NEW T, NEW list \in Seq(T), NEW s \in T
  PROVE  /\ Enlisted(list, s) \in Seq(T)
         /\ Len(list) <= Len(Enlisted(list, s)) /\ Len(Enlisted(list, s)) <= Len(list) + 1
         /\ \A i \in 1..Len(list) : Enlisted(list, s)[i] = list[i]
         /\ \A i \in (Len(list) + 1)..Len(Enlisted(list, s)) : Enlisted(list, s)[i] = s
<1>1. CASE \E i \in 1..Len(list) : list[i] = s
  BY <1>1 DEF Enlisted
<1>2. CASE ~ \E i \in 1..Len(list) : list[i] = s
  BY <1>2 DEF Enlisted
<1> QED
  BY <1>1, <1>2

\* What init() adds to the systems.
LEMMA LateIs == \A p, s : Late(p, s) \subseteq Helper
  BY DEF Late, Helper

LEMMA RegisterKeeps ==
  ASSUME Inv, RegisterSystem
  PROVE  order' = Append(order, prog.systems[at]) /\ order' \in Seq(Name \cup Helper)
         /\ Len(order') = at /\ \A i \in 1..at : order'[i] = prog.systems[i]
<1>1. /\ phase = "register" /\ order' = Enlisted(order, prog.systems[at])
      /\ order \in Seq(Name \cup Helper) /\ at \in Nat \ {0}
      /\ at <= Len(prog.systems) /\ Len(order) = at - 1
      /\ \A i \in 1..(at - 1) : order[i] = prog.systems[i]
  BY DEF RegisterSystem, Inv, TypeInv, RegisterInv
<1>2. /\ Len(prog.systems) \in Nat
      /\ \A i \in 1..Len(prog.systems) : prog.systems[i] \in Name
      /\ \A i, j \in 1..Len(prog.systems) : prog.systems[i] = prog.systems[j] => i = j
  BY Ordered DEF Inv
<1> DEFINE s == prog.systems[at]  T == Name \cup Helper
<1>3. s \in T
  BY <1>1, <1>2
<1>4. \A i \in 1..Len(order) : order[i] # s
  BY <1>1, <1>2
<1>5. order' = Append(order, s)
  BY <1>1, <1>4 DEF Enlisted
<1>6. order \in Seq(T)
  BY <1>1
<1> HIDE DEF s, T
<1>7. /\ Append(order, s) \in Seq(T) /\ Len(Append(order, s)) = at
      /\ \A i \in 1..at : Append(order, s)[i] = IF i = at THEN s ELSE order[i]
  BY <1>1, <1>3, <1>6
<1>8. \A i \in 1..at : order'[i] = prog.systems[i]
  <2>1. \A i \in 1..at : i # at => i \in 1..(at - 1)
    BY <1>1
  <2> QED
    BY <1>1, <1>5, <1>7, <2>1 DEF s
<1> QED
  BY <1>5, <1>7, <1>8 DEF s, T

LEMMA InitKeeps ==
  ASSUME Inv, InitSystem
  PROVE  /\ order' \in Seq(Name \cup Helper) /\ Len(order) <= Len(order')
         /\ \A i \in 1..Len(order) : order'[i] = order[i]
         /\ \A i \in (Len(order) + 1)..Len(order') : order'[i] \in Helper
<1>1. order \in Seq(Name \cup Helper)
  BY DEF Inv, TypeInv
<1>2. CASE order' = order
  BY <1>1, <1>2
<1>3. ASSUME NEW late \in Helper, order' = Enlisted(order, late)
      PROVE  /\ order' \in Seq(Name \cup Helper) /\ Len(order) <= Len(order')
             /\ \A i \in 1..Len(order) : order'[i] = order[i]
             /\ \A i \in (Len(order) + 1)..Len(order') : order'[i] \in Helper
  <2> DEFINE T == Name \cup Helper
             e == Enlisted(order, late)
  <2>1. late \in T /\ order \in Seq(T)
    BY <1>1
  <2> HIDE DEF T
  <2>2. /\ e \in Seq(T) /\ Len(order) <= Len(e)
        /\ \A i \in 1..Len(order) : e[i] = order[i]
        /\ \A i \in (Len(order) + 1)..Len(e) : e[i] = late
    <3>1. e \in Seq(T)
      BY <2>1, EnlistedIs, Zenon
    <3>2. Len(order) <= Len(e)
      BY <2>1, EnlistedIs, Zenon
    <3>3. \A i \in 1..Len(order) : e[i] = order[i]
      <4>1. CASE \E i \in 1..Len(order) : order[i] = late
        BY <4>1 DEF Enlisted
      <4>2. CASE ~ \E i \in 1..Len(order) : order[i] = late
        BY <2>1, <4>2 DEF Enlisted
      <4> QED
        BY <4>1, <4>2
    <3>4. \A i \in (Len(order) + 1)..Len(e) : e[i] = late
      <4>1. CASE \E i \in 1..Len(order) : order[i] = late
        BY <2>1, <4>1 DEF Enlisted
      <4>2. CASE ~ \E i \in 1..Len(order) : order[i] = late
        BY <2>1, <4>2 DEF Enlisted
      <4> QED
        BY <4>1, <4>2
    <3> QED
      BY <3>1, <3>2, <3>3, <3>4
  <2> HIDE DEF e
  <2>3. \A i \in (Len(order) + 1)..Len(e) : e[i] \in Helper
    BY <1>3, <2>2
  <2>4. order' = e
    BY <1>3 DEF e
  <2> QED
    BY <2>2, <2>3, <2>4 DEF T
<1>4. order' = order \/ \E late \in Late(prog, order[at]) : order' = Enlisted(order, late)
  BY DEF InitSystem
<1> QED
  BY <1>2, <1>3, <1>4, LateIs

LEMMA TypeStep ==
  ASSUME Inv, Next
  PROVE  TypeInv'
<1> USE DEF Inv
<1>1. CASE RegisterSystem
  <2>1. /\ prog' = prog /\ implicit' = implicit /\ configured' = configured /\ step' = step
        /\ used' = used /\ holds' = holds /\ emptied' = emptied
    BY <1>1, Preparing
  <2>2. at' \in Nat \ {0}
    BY <1>1 DEF RegisterSystem, TypeInv
  <2> QED
    BY <1>1, <2>1, <2>2, RegisterKeeps DEF TypeInv
<1>2. CASE InitSystem
  <2>1. /\ prog' = prog /\ implicit' = implicit /\ configured' = configured /\ step' = step
        /\ used' = used /\ holds' = holds /\ emptied' = emptied
    BY <1>2, Preparing
  <2>2. at' \in Nat \ {0}
    BY <1>2 DEF InitSystem, TypeInv
  <2> QED
    BY <1>2, <2>1, <2>2, InitKeeps DEF TypeInv
<1>3. CASE InitData \/ Prepare
  <2>1. /\ prog' = prog /\ implicit' = implicit /\ configured' = configured /\ step' = step
        /\ used' = used /\ holds' = holds /\ emptied' = emptied
    BY <1>3, Preparing
  <2>2. at' \in Nat \ {0} /\ order' = order
    BY <1>3 DEF InitData, Prepare, TypeInv, registry
  <2> QED
    BY <2>1, <2>2 DEF TypeInv
<1>4. CASE Update
  <2>1. /\ prog' = prog /\ implicit' = implicit /\ configured' = configured /\ order' = order
    BY <1>4, Updating
  <2>2. at' \in Nat \ {0} /\ step' \in 0..MaxStep
    <3>1. at \in Nat \ {0} /\ step \in 0..MaxStep /\ MaxStep \in Nat
      BY ScheduleAssumption DEF TypeInv
    <3>2. CASE Onward
      BY <3>1, <3>2 DEF Onward
    <3> QED
      BY <1>4, <3>1, <3>2, Updating
  <2>3. used' \in [0..MaxStep -> Int]
    <3>1. used \in [0..MaxStep -> Int]
      BY DEF TypeInv
    <3>2. CASE Solve
      <4>1. used' = [n \in DOMAIN used |-> used[n] + (IF n \in current THEN 1 ELSE 0)]
        BY <3>2 DEF Solve
      <4> QED
        BY <3>1, <4>1
    <3>3. Solve \/ used' = used
      BY <1>4 DEF Update, Push, Radiate, ComputeMoments, GatherMomentum, Read, ApplyBoundary,
                  Export, Idle, fields
    <3> QED
      BY <3>1, <3>2, <3>3
  <2>4. holds' \in [Tally -> SUBSET Int] /\ emptied' \in [Tally -> Int]
    <3>1. holds \in [Tally -> SUBSET Int] /\ emptied \in [Tally -> Int] /\ step \in Int
      BY DEF TypeInv
    <3>2. CASE Push
      <4>1. emptied' = emptied
        BY <3>2 DEF Push
      <4>2. \E R \in SUBSET Int, d \in SUBSET Int :
              holds' = [holds EXCEPT !["Rho"] = R, !["sync_dist"] = d]
        BY <3>1, <3>2 DEF Push, Tally
      <4> QED
        BY <3>1, <4>1, <4>2
    <3>3. CASE Radiate
      BY <3>1, <3>3 DEF Radiate, Tally
    <3>4. CASE ComputeMoments
      BY <3>1, <3>4 DEF ComputeMoments, Tally
    <3>5. CASE GatherMomentum
      BY <3>1, <3>5 DEF GatherMomentum, Tally
    <3>6. CASE Solve
      BY <3>1, <3>6 DEF Solve, Tally
    <3>7. CASE Export
      BY <3>1, <3>7 DEF Export
    <3>8. CASE Read("tracker") \/ Read("injector") \/ ApplyBoundary \/ Idle
      BY <3>1, <3>8 DEF Read, ApplyBoundary, Idle, output
    <3> QED
      BY <1>4, <3>2, <3>3, <3>4, <3>5, <3>6, <3>7, <3>8 DEF Update
  <2> QED
    BY <2>1, <2>2, <2>3, <2>4 DEF TypeInv
<1>5. CASE Stopped
  BY <1>5 DEF Stopped, vars, setup, registry, fields, output, TypeInv
<1> QED
  BY <1>1, <1>2, <1>3, <1>4, <1>5 DEF Next

LEMMA OrderStep ==
  ASSUME Inv, Next
  PROVE  RegisterInv' /\ OrderInv' /\ CursorInv'
<1> USE DEF Inv
<1> DEFINE L == Len(prog.systems)
<1>0. L \in Nat \ {0}
  BY Ordered
<1>1. CASE RegisterSystem
  <2>1. /\ prog' = prog /\ step' = 0 /\ touched' = {} /\ phase = "register"
        /\ data' = data \cup Registered(prog.systems[at])
        /\ entries' = IF prog.systems[at] = "moments" THEN 2 ELSE entries
    BY <1>1, Preparing DEF RegisterSystem, SystemData
  <2>2. /\ at \in Nat \ {0} /\ at <= L /\ prog.main \subseteq data
        /\ \A i \in 1..(at - 1) : /\ Registered(prog.systems[i]) \subseteq data
                                  /\ prog.systems[i] = "moments" => entries = 2
    BY <2>1 DEF TypeInv, RegisterInv
  <2>3. \A i \in 1..at : /\ Registered(prog.systems[i]) \subseteq data'
                         /\ prog.systems[i] = "moments" => entries' = 2
    <3>1. \A i \in 1..at : i = at \/ i \in 1..(at - 1)
      BY <2>2
    <3> QED
      BY <2>1, <2>2, <3>1
  <2>4. /\ Len(order') = at /\ \A i \in 1..at : order'[i] = prog.systems[i]
    BY <1>1, RegisterKeeps
  <2>5. CASE at < L
    <3>1. at' = at + 1 /\ phase' = "register"
      BY <1>1, <2>1, <2>5 DEF RegisterSystem
    <3>2. at' - 1 = at /\ at' <= L
      BY <1>0, <2>2, <2>5, <3>1
    <3>3. prog'.main \subseteq data'
      BY <2>1, <2>2
    <3> QED
      BY <2>1, <2>3, <2>4, <3>1, <3>2, <3>3 DEF RegisterInv, OrderInv, CursorInv
  <2>6. CASE ~ (at < L)
    <3>1. at = L /\ at' = 1 /\ phase' = "init" /\ last' = Len(order')
      BY <1>0, <1>1, <2>2, <2>6 DEF RegisterSystem
    <3>2. Provided(prog) \subseteq data'
      BY <2>1, <2>2, <2>3, <3>1 DEF Provided
    <3>3. Has("moments") => entries' = 2
      BY <2>3, <3>1 DEF Has, Runs
    <3>4. Has("moments")' <=> Has("moments")
      BY <2>1 DEF Has
    <3>5. (L + 1)..Len(order') = {}
      BY <1>0, <2>4, <3>1
    <3>6. OrderInv'
      BY <2>1, <2>4, <3>1, <3>2, <3>3, <3>4, <3>5, <1>0 DEF OrderInv
    <3> QED
      BY <2>1, <3>1, <3>6 DEF RegisterInv, CursorInv
  <2> QED
    BY <2>5, <2>6
<1>2. CASE InitSystem
  <2>1. /\ prog' = prog /\ step' = 0 /\ touched' = {} /\ phase = "init" /\ last' = last
        /\ data \subseteq data' /\ entries' = entries
        /\ phase' \in {"init", "thrown", "undefined"}
    BY <1>2, Preparing DEF InitSystem
  <2>2. /\ order' \in Seq(Name \cup Helper) /\ Len(order) <= Len(order')
        /\ \A i \in 1..Len(order) : order'[i] = order[i]
        /\ \A i \in (Len(order) + 1)..Len(order') : order'[i] \in Helper
    BY <1>2, InitKeeps
  <2>3. /\ last = L /\ L <= Len(order) /\ Len(order) \in Nat /\ Len(order') \in Nat
        /\ \A i \in 1..L : order[i] = prog.systems[i]
        /\ \A i \in (L + 1)..Len(order) : order[i] \in Helper
        /\ Provided(prog) \subseteq data
        /\ Has("moments") => entries = 2
    BY <2>1, <2>2 DEF OrderInv, TypeInv
  <2> HIDE DEF L
  <2>4. \A i \in 1..L : order'[i] = prog.systems[i]
    BY <1>0, <2>2, <2>3
  <2>5. ASSUME NEW i \in (L + 1)..Len(order') PROVE order'[i] \in Helper
    <3>1. \/ i \in (L + 1)..Len(order) /\ i \in 1..Len(order)
          \/ i \in (Len(order) + 1)..Len(order')
      BY <1>0, <2>3
    <3> QED
      BY <2>2, <2>3, <3>1
  <2>6. L <= Len(order')
    BY <1>0, <2>2, <2>3
  <2>7. Has("moments")' <=> Has("moments")
    BY <2>1 DEF Has
  <2>8. OrderInv'
    BY <2>1, <2>3, <2>4, <2>5, <2>6, <2>7 DEF OrderInv, L
  <2> QED
    BY <2>1, <2>8 DEF RegisterInv, CursorInv
<1>3. CASE InitData \/ Prepare
  <2>1. /\ prog' = prog /\ step' = 0 /\ touched' = {} /\ phase # "register" /\ last' = last
        /\ data' = data /\ entries' = entries /\ order' = order
        /\ phase' \in {"prepare", "update", "thrown"}
        /\ phase' = "update" => at' = 1
        /\ phase' \in {"prepare", "update"} => ready' = data
    BY <1>3, Preparing DEF InitData, Prepare, registry, CursorInv
  <2>2. Has("moments")' <=> Has("moments")
    BY <2>1 DEF Has
  <2>3. OrderInv'
    BY <2>1, <2>2 DEF OrderInv
  <2>4. 1 <= Len(order)
    BY <1>0, <2>1 DEF OrderInv, TypeInv
  <2> QED
    BY <2>1, <2>3, <2>4 DEF RegisterInv, CursorInv
<1>4. CASE Update
  <2>1. /\ prog' = prog /\ phase = "update" /\ last' = last
        /\ data' = data /\ entries' = entries /\ order' = order /\ ready' = ready
        /\ phase' \in {"update", "done", "undefined"}
        /\ Onward \/ phase' = "undefined"
    BY <1>4, Updating
  <2>2. Has("moments")' <=> Has("moments")
    BY <2>1 DEF Has
  <2>3. OrderInv'
    BY <2>1, <2>2 DEF OrderInv
  <2>4. Onward => at' <= Len(order)
    <3>1. at \in Nat \ {0} /\ at <= Len(order) /\ Len(order) \in Nat
      BY <2>1 DEF TypeInv, CursorInv
    <3> QED
      BY <3>1 DEF Onward
  <2> QED
    BY <2>1, <2>3, <2>4 DEF RegisterInv, CursorInv
<1>5. CASE Stopped
  <2>1. /\ prog' = prog /\ phase' = phase /\ last' = last /\ at' = at /\ step' = step
        /\ data' = data /\ entries' = entries /\ order' = order /\ ready' = ready
        /\ touched' = touched
    BY <1>5 DEF Stopped, vars, setup, registry, moments
  <2> QED
    BY <2>1 DEF RegisterInv, OrderInv, CursorInv, Has
<1> QED
  BY <1>1, <1>2, <1>3, <1>4, <1>5 DEF Next

\* Who changes what.
LEMMA Frames ==
  ASSUME Update
  PROVE  /\ order[at] = "pusher" => Push
         /\ order[at] = "rad" => Radiate
         /\ order[at] = "moments" => ComputeMoments
         /\ order[at] = "momentum" => GatherMomentum
         /\ order[at] = "solver" => Solve
         /\ order[at] = "bc" => ApplyBoundary
         /\ order[at] = "exporter" => Export
         /\ order[at] # "pusher" => current' = current
         /\ order[at] # "solver" => used' = used
         /\ order[at] \notin {"solver", "bc"} => behind' = behind
         /\ order[at] \notin {"pusher", "solver"} => guards' = guards
         /\ order[at] # "exporter" => emptied' = emptied /\ shown' = shown
         /\ order[at] # "moments" => touched' = touched
         /\ order[at] \notin {"pusher", "rad", "moments", "momentum", "solver", "exporter"} =>
              holds' = holds
<1> USE DEF Turn
<1>1. CASE Push
  BY <1>1 DEF Push, moments
<1>2. CASE Radiate
  BY <1>2 DEF Radiate, moments
<1>3. CASE ComputeMoments
  BY <1>3 DEF ComputeMoments, fields
<1>4. CASE GatherMomentum
  BY <1>4 DEF GatherMomentum, moments
<1>5. CASE Read("tracker") \/ Read("injector")
  BY <1>5 DEF Read, output, moments
<1>6. CASE Solve
  BY <1>6 DEF Solve, moments
<1>7. CASE ApplyBoundary
  BY <1>7 DEF ApplyBoundary, output, moments
<1>8. CASE Export
  BY <1>8 DEF Export, moments
<1>9. CASE Idle
  BY <1>9 DEF Idle, fields, output, moments
<1> QED
  BY <1>1, <1>2, <1>3, <1>4, <1>5, <1>6, <1>7, <1>8, <1>9 DEF Update

\* A step of update() that ends before the next system: nothing is left to say.
LEMMA Ended ==
  ASSUME Inv, Update, phase' # "update"
  PROVE  ~ Live'
  BY Updating DEF Live

\* What the steps that do not stutter leave as it is.
LEMMA Fixed ==
  ASSUME Inv, Next
  PROVE  /\ UNCHANGED <<prog, implicit, configured>>
         /\ \A s : Has(s)' <=> Has(s)
         /\ \A a, b : Before(prog, a, b)' <=> Before(prog, a, b)
<1>1. UNCHANGED <<prog, implicit, configured>>
  BY Preparing, Updating DEF Next, Stopped, vars, setup
<1> QED
  BY <1>1 DEF Has

\* When the program stops it stays as it is.
LEMMA Still ==
  ASSUME Stopped
  PROVE  ~ Live /\ ~ Live' /\ UNCHANGED vars
  BY DEF Stopped, Live, vars

LEMMA CurrentStep ==
  ASSUME Inv, Next
  PROVE  CurrentInv'
<1> SUFFICES ASSUME Live'
             PROVE  (current = IF Has("pusher") /\ LastTurn("pusher") >= 0
                               THEN {LastTurn("pusher")} ELSE {})'
  BY DEF CurrentInv
<1>0. Has("pusher")' <=> Has("pusher")
  BY Fixed
<1>1. CASE RegisterSystem \/ InitSystem \/ InitData \/ Prepare
  <2>1. current' = current /\ LastTurn("pusher")' = -1 /\ LastTurn("pusher") = -1 /\ Live
    BY <1>1, Preparing DEF Live
  <2> QED
    BY <1>0, <2>1 DEF Inv, CurrentInv
<1>2. CASE Update
  <2>1. /\ phase = "update" /\ phase' = "update" /\ Onward /\ prog' = prog /\ Live
    BY <1>2, Updating, Ended DEF Live
  <2>2. Has("pusher") => LastTurn("pusher")' =
                           IF order[at] = "pusher" THEN step ELSE LastTurn("pusher")
    BY <2>1, Turning DEF Inv
  <2>3. CASE order[at] = "pusher"
    <3>1. current' = {step} /\ step >= 0
      BY <1>2, <2>3, Frames DEF Push, Deposited, Inv, TypeInv
    <3>2. Has("pusher")
      BY <2>1, <2>3, MyTurn DEF Inv, Name
    <3> QED
      BY <1>0, <2>2, <2>3, <3>1, <3>2
  <2>4. CASE order[at] # "pusher"
    <3>1. current' = current
      BY <1>2, <2>4, Frames
    <3> QED
      BY <1>0, <2>1, <2>2, <2>4, <3>1 DEF Inv, CurrentInv
  <2> QED
    BY <2>3, <2>4
<1>3. CASE Stopped
  BY <1>3, Still
<1> QED
  BY <1>1, <1>2, <1>3 DEF Next

\* How many steps the solver is behind the pusher.
Delay == IF Before(prog, "solver", "pusher") THEN 1 ELSE 0

LEMMA UsedStep ==
  ASSUME Inv, Next
  PROVE  UsedInv'
<1> SUFFICES ASSUME Live', Has("pusher")', Has("solver")', NEW n \in 0..MaxStep
             PROVE  used'[n] = IF n <= LastTurn("solver")' - Delay' THEN 1 ELSE 0
  BY DEF UsedInv, Delay
<1>0. /\ Has("pusher") /\ Has("solver") /\ Delay' = Delay /\ Delay \in {0, 1}
      /\ Delay = IF Before(prog, "solver", "pusher") THEN 1 ELSE 0
  BY Fixed DEF Delay
<1>1. Live => used[n] = IF n <= LastTurn("solver") - Delay THEN 1 ELSE 0
  BY <1>0 DEF Inv, UsedInv
<1>2. CASE RegisterSystem \/ InitSystem \/ InitData \/ Prepare
  <2>1. used' = used /\ LastTurn("solver")' = -1 /\ LastTurn("solver") = -1 /\ Live
    BY <1>2, Preparing DEF Live
  <2> QED
    BY <1>0, <1>1, <2>1
<1>3. CASE Update
  <2>1. /\ phase = "update" /\ phase' = "update" /\ Onward /\ prog' = prog /\ Live
    BY <1>3, Updating, Ended DEF Live
  <2>2. LastTurn("solver")' = IF order[at] = "solver" THEN step ELSE LastTurn("solver")
    BY <1>0, <2>1, Turning DEF Inv
  <2>3. CASE order[at] = "solver"
    <3>1. used' = [k \in DOMAIN used |-> used[k] + (IF k \in current THEN 1 ELSE 0)]
      BY <1>3, <2>3, Frames DEF Solve
    <3>2. used \in [0..MaxStep -> Int] /\ step \in 0..MaxStep /\ MaxStep \in Nat
      BY ScheduleAssumption DEF Inv, TypeInv
    <3>3. used'[n] = used[n] + (IF n \in current THEN 1 ELSE 0) /\ n \in Int
      BY <3>1, <3>2
    <3>4. /\ LastTurn("solver") = step - 1
          /\ Past("pusher") <=> Before(prog, "pusher", "solver")
          /\ ~ Past("pusher") <=> Before(prog, "solver", "pusher")
      BY <1>0, <2>1, <2>3, MyTurn DEF Inv, Name
    <3>5. LastTurn("pusher") = step - Delay
      BY <1>0, <3>2, <3>4 DEF LastTurn
    <3>6. current = IF step - Delay >= 0 THEN {step - Delay} ELSE {}
      BY <1>0, <2>1, <3>5 DEF Inv, CurrentInv
    <3> QED
      BY <1>0, <1>1, <2>1, <2>2, <2>3, <3>2, <3>3, <3>4, <3>6
  <2>4. CASE order[at] # "solver"
    <3>1. used' = used
      BY <1>3, <2>4, Frames
    <3> QED
      BY <1>0, <1>1, <2>1, <2>2, <2>4, <3>1
  <2> QED
    BY <2>3, <2>4
<1>4. CASE Stopped
  BY <1>4, Still
<1> QED
  BY <1>2, <1>3, <1>4 DEF Next

\* The pusher: J, and Rho where it is deposited.
LEMMA AfterPusher ==
  ASSUME NEW r, NEW b \in BOOLEAN
  PROVE  Fold(Stale({}, r), PusherSteps(b)) = Stale({}, r)
<1> DEFINE Dep(f) == <<Stencil(f, {"E", "B"}), Send(f), Stencil(f, {f}), Send(f)>>
           J == Dep("J")
           Rho == Dep("Rho")
<1>1. \A f \in Operand : Dep(f) \in Seq(Kernel)
  <2> SUFFICES ASSUME NEW f \in Operand PROVE Dep(f) \in Seq(Kernel)
    OBVIOUS
  <2>1. {"E", "B"} \in SUBSET Operand /\ {f} \in SUBSET Operand
    BY DEF Operand
  <2>2. Stencil(f, {"E", "B"}) \in Kernel /\ Stencil(f, {f}) \in Kernel /\ Send(f) \in Kernel
    BY <2>1, KernelIs
  <2> QED
    BY <2>2, Sequences
<1>2. "J" \in Operand /\ "Rho" \in Operand
  BY DEF Operand
<1>3. Chain(Stale({}, r), J, Stale({}, r))
  BY <1>1, <1>2, AfterDeposit DEF Chain
<1>4. Chain(Stale({}, r), Rho, Stale({}, r))
  BY <1>1, <1>2, AfterDeposit DEF Chain
<1>5. PusherSteps(b) = J \o (IF b THEN Rho ELSE <<>>)
  BY DEF PusherSteps
<1> HIDE DEF J, Rho
<1>6. CASE b
  <2>1. Chain(Stale({}, r), J \o Rho, Stale({}, r))
    BY <1>3, <1>4, ChainBoth
  <2> QED
    BY <1>5, <1>6, <2>1 DEF Chain
<1>7. CASE ~ b
  <2>1. J \in Seq(Kernel)
    BY <1>3 DEF Chain
  <2>2. J \o <<>> = J
    BY <2>1
  <2> QED
    BY <1>3, <1>5, <1>7, <2>2 DEF Chain
<1> QED
  BY <1>6, <1>7

\* The one read of outdated guard cells that the implicit solver does.
Allowed == IF prog.solver = "spherical" /\ implicit THEN {<<"tmp2", "tmp1">>} ELSE {}

LEMMA GuardStep ==
  ASSUME Inv, Next
  PROVE  GuardInv' /\ FreshGuards'
<1> DEFINE r == guards.reads
<1>0. guards = Stale({}, r) /\ r \subseteq Allowed /\ Allowed' = Allowed
  BY Fixed DEF Inv, GuardInv, FreshGuards, Allowed
<1>1. SUFFICES \E q : guards' = Stale({}, q) /\ q \subseteq Allowed
  <2>1. PICK q : guards' = Stale({}, q) /\ q \subseteq Allowed
    BY <1>1
  <2>2. guards'.reads = q
    BY <2>1 DEF Stale
  <2> QED
    BY <1>0, <2>1, <2>2 DEF GuardInv, FreshGuards, Allowed
<1> HIDE DEF r
<1>2. CASE guards' = guards
  BY <1>0, <1>2
<1>3. CASE Update /\ order[at] = "pusher"
  <2>1. guards' = AfterSteps(prog, guards, PusherSteps(RhoDue))
    BY <1>3, Frames DEF Push
  <2>2. RhoDue \in BOOLEAN
    BY DEF RhoDue, Due
  <2>3. Fold(Stale({}, r), PusherSteps(RhoDue)) = Stale({}, r)
    BY <2>2, AfterPusher
  <2>4. guards' = guards
    BY <1>0, <2>1, <2>3 DEF AfterSteps, Fold
  <2> QED
    BY <1>0, <2>4
<1>4. CASE Update /\ order[at] = "solver"
  <2>1. guards' = AfterSteps(prog, guards, SolverSteps(prog, implicit))
    BY <1>4, Frames DEF Solve
  <2>2. Has("solver") /\ WellOrdered(prog)
    BY <1>4, MyTurn, Updating, Ordered DEF Inv, Name
  <2>3. prog.solver \in {"cartesian", "spherical", "gr_ks"}
    BY <2>2 DEF WellOrdered, Has
  <2>4. CASE prog.solver = "spherical" /\ implicit
    <3>1. SolverSteps(prog, implicit) = SphericalImplicitSteps
      BY <2>4 DEF SolverSteps
    <3> DEFINE q == r \cup {<<"tmp2", "tmp1">>}
    <3>2. q \subseteq Allowed
      BY <1>0, <2>4 DEF Allowed
    <3>3. Fold(Stale({}, r), SphericalImplicitSteps) = Stale({}, q)
      BY AfterImplicit
    <3> HIDE DEF q
    <3>4. guards' = Stale({}, q) \/ guards' = guards
      BY <1>0, <2>1, <3>1, <3>3 DEF AfterSteps, Fold
    <3> QED
      BY <1>0, <3>2, <3>4
  <2>5. CASE ~ (prog.solver = "spherical" /\ implicit)
    <3>1. SolverSteps(prog, implicit) \in {CartesianSteps, SphericalSteps, GrSteps}
      BY <2>3, <2>5 DEF SolverSteps
    <3>2. Fold(Stale({}, r), SolverSteps(prog, implicit)) = Stale({}, r)
      BY <3>1, AfterExplicit, AfterPredictor
    <3>3. guards' = guards
      BY <1>0, <2>1, <3>2 DEF AfterSteps, Fold
    <3> QED
      BY <1>0, <3>3
  <2> QED
    BY <2>4, <2>5
<1>5. CASE RegisterSystem \/ InitSystem \/ InitData \/ Prepare
  BY <1>2, <1>5, Preparing
<1>6. CASE Stopped
  BY <1>2, <1>6 DEF Stopped, vars, fields
<1>7. CASE Update /\ order[at] \notin {"pusher", "solver"}
  BY <1>2, <1>7, Frames
<1> QED
  BY <1>3, <1>4, <1>5, <1>6, <1>7 DEF Next

LEMMA SumStep ==
  ASSUME Inv, Next
  PROVE  SumInv'
<1> SUFFICES ASSUME Live', behind'
             PROVE  /\ Has("solver")
                    /\ ~ Past("solver")' \/ Before(prog, "solver", "bc")
                    /\ ~ Has("bc") => step' = 0
  BY Fixed DEF SumInv
<1>1. WellOrdered(prog)
  BY Ordered DEF Inv
<1>2. CASE RegisterSystem \/ InitSystem \/ InitData \/ Prepare
  <2>1. step' = 0 /\ ~ Past("solver")' /\ Live
    BY <1>2, Preparing DEF Live
  <2>2. CASE RegisterSystem \/ InitSystem
    <3>1. behind' = behind
      BY <2>2 DEF RegisterSystem, InitSystem, fields
    <3> QED
      BY <2>1, <3>1 DEF Inv, SumInv
  <2>3. CASE InitData
    BY <2>3 DEF InitData
  <2>4. CASE Prepare
    <3>1. phase' = "update"
      BY <1>2, <2>4 DEF Prepare, Live
    <3>2. prog.sets \cap Parts # {}
      BY <2>4, <3>1 DEF Prepare
    <3> QED
      BY <1>1, <2>1, <3>2 DEF WellOrdered, Has
  <2> QED
    BY <1>2, <2>2, <2>3, <2>4
<1>3. CASE Update
  <2>1. /\ phase = "update" /\ phase' = "update" /\ Onward /\ prog' = prog /\ Live
        /\ step \in Int
    BY <1>3, Updating, Ended DEF Live, Inv, TypeInv
  <2>2. /\ Past("solver")' <=> at < Len(order) /\ (Past("solver") \/ order[at] = "solver")
        /\ at < Len(order) => step' = step
        /\ at = Len(order) => step' = step + 1
        /\ at < Len(order) \/ at = Len(order)
        /\ Has("solver") => LastTurn("solver")' =
                              IF order[at] = "solver" THEN step ELSE LastTurn("solver")
    <3>1. Len(order) \in Nat
      BY DEF Inv, TypeInv
    <3> QED
      BY <2>1, <3>1, Turning DEF Inv
  <2>3. CASE order[at] = "solver"
    <3>1. Solve
      BY <1>3, <2>3, Frames
    <3> QED
      BY <3>1 DEF Solve, SumAgain
  <2>4. CASE order[at] = "bc"
    <3>1. Has("bc") /\ (Has("solver") =>
             (Past("solver") <=> Before(prog, "solver", "bc")))
      BY <2>1, <2>4, MyTurn DEF Inv, Name
    <3>2. Has("solver")
      BY <1>1, <3>1 DEF WellOrdered, Has
    <3> QED
      BY <2>2, <2>4, <3>1, <3>2
  <2>5. CASE order[at] \notin {"solver", "bc"}
    <3>1. behind
      BY <1>3, <2>5, Frames
    <3>2. /\ Has("solver") /\ (~ Past("solver") \/ Before(prog, "solver", "bc"))
          /\ (~ Has("bc") => step = 0)
      BY <2>1, <3>1 DEF Inv, SumInv
    <3>3. ASSUME ~ Has("bc") PROVE at < Len(order)
      <4>1. ~ Before(prog, "solver", "bc")
        BY <3>3 DEF Has, Runs, Before
      <4>2. ~ Past("solver")
        BY <3>2, <4>1
      <4>3. LastTurn("solver")' = step - 1
        BY <2>2, <2>5, <3>2, <4>2 DEF LastTurn
      <4>4. LastTurn("solver")' = step' - 1
        BY <2>2, <2>5, <4>2 DEF LastTurn
      <4> QED
        BY <2>1, <2>2, <4>3, <4>4
    <3> QED
      BY <2>2, <2>5, <3>2, <3>3
  <2> QED
    BY <2>3, <2>4, <2>5
<1>4. CASE Stopped
  BY <1>4, Still
<1> QED
  BY <1>2, <1>3, <1>4 DEF Next

\* Who notes that it has read sums that are behind.
LEMMA Lagging ==
  ASSUME Inv, Update, lagging' # lagging
  PROVE  /\ behind /\ ReadsTotals(prog, order[at]) /\ order[at] \in Name
         /\ lagging' = lagging \cup {<<order[at], step>>}
<1>1. \A s \in {"pusher", "rad", "momentum", "tracker", "injector"} :
        order[at] = s /\ Noted(s) =>
          /\ behind /\ ReadsTotals(prog, order[at]) /\ order[at] \in Name
          /\ lagging' = lagging \cup {<<order[at], step>>}
  BY DEF Noted, Name
<1>2. CASE Push \/ Radiate \/ GatherMomentum \/ Read("tracker") \/ Read("injector")
  BY <1>1, <1>2 DEF Push, Radiate, GatherMomentum, Read, Turn
<1>3. CASE ComputeMoments \/ Solve \/ ApplyBoundary \/ Idle
  BY <1>3 DEF ComputeMoments, Solve, ApplyBoundary, Idle, fields
<1>4. CASE Export
  BY <1>4 DEF Export, Turn, Name
<1> QED
  BY <1>2, <1>3, <1>4 DEF Update

LEMMA TotalsStep ==
  ASSUME Inv, Next
  PROVE  TotalsCurrent'
<1>1. CASE lagging' = lagging
  BY <1>1, Fixed DEF Inv, TotalsCurrent
<1>2. CASE Update /\ lagging' # lagging
  <2> DEFINE s == order[at]
  <2>1. /\ behind /\ ReadsTotals(prog, s) /\ s \in Name /\ phase = "update"
        /\ lagging' = lagging \cup {<<s, step>>}
    BY <1>2, Lagging, Updating
  <2>2. /\ at \in 1..Len(prog.systems) /\ prog.systems[at] = s
        /\ "solver" # s => (Has("solver") => (~ Past("solver") <=> Before(prog, s, "solver")))
    BY <2>1, MyTurn DEF Inv, Name
  <2>3. /\ Has("solver")
        /\ ~ Past("solver") \/ Before(prog, "solver", "bc")
        /\ ~ Has("bc") => step = 0
    BY <2>1 DEF Inv, SumInv, Live
  <2>4. s # "solver"
    BY <2>1 DEF ReadsTotals
  <2>5. CASE Has("bc")
    <3>1. s = "exporter"
      BY <2>1, <2>2, <2>5, Ordered DEF WellOrdered, Has, Inv
    <3>2. Past("solver")
      BY <2>1, <2>3, <3>1, ExporterLast DEF Inv, Name
    <3>3. Before(prog, "solver", "bc")
      BY <2>3, <3>2
    <3> QED
      BY <2>1, <3>1, <3>3, Fixed DEF Inv, TotalsCurrent
  <2>6. CASE ~ Has("bc")
    <3>1. ~ Before(prog, "solver", "bc")
      BY <2>6 DEF Has, Runs, Before
    <3>2. Before(prog, s, "solver") /\ step = 0
      BY <2>2, <2>3, <2>4, <2>6, <3>1
    <3> QED
      BY <2>1, <3>2, Fixed DEF Inv, TotalsCurrent
  <2> QED
    BY <2>5, <2>6
<1>3. CASE RegisterSystem \/ InitSystem \/ InitData \/ Prepare
  BY <1>1, <1>3, Preparing
<1>4. CASE Stopped
  BY <1>1, <1>4 DEF Stopped, vars, fields
<1> QED
  BY <1>1, <1>2, <1>3, <1>4 DEF Next

LEMMA MissingStep ==
  ASSUME Inv, Next
  PROVE  NothingMissing'
<1> SUFFICES ASSUME phase' = "thrown"
             PROVE  Wanted(prog', order'[at']) \ data' = {"B0"}
  BY DEF NothingMissing
<1>1. CASE RegisterSystem \/ InitData
  BY <1>1 DEF RegisterSystem, InitData
<1>2. CASE InitSystem
  <2>1. /\ ~ (Wanted(prog, order[at]) \subseteq data) /\ at <= last /\ phase = "init"
        /\ order' = order /\ data' = data /\ at' = at
    BY <1>2 DEF InitSystem
  <2>2. /\ at \in 1..Len(prog.systems) /\ order[at] = prog.systems[at]
        /\ Provided(prog) \subseteq data
    BY <2>1, Ordered DEF Inv, TypeInv, OrderInv
  <2>3. Wanted(prog, prog.systems[at]) \subseteq Provided(prog) \cup {"B0"}
    BY <2>2, Ordered DEF WellOrdered, Inv
  <2>4. Wanted(prog, order[at]) \ data = {"B0"}
    BY <2>1, <2>2, <2>3
  <2> QED
    BY <2>1, <2>4, Fixed
<1>3. CASE Prepare
  <2>1. ~ (prog.gets \subseteq data) /\ phase = "prepare"
    BY <1>3 DEF Prepare
  <2>2. prog.gets \subseteq Provided(prog) /\ Provided(prog) \subseteq data
    BY <2>1, Ordered DEF WellOrdered, Inv, OrderInv
  <2> QED
    BY <2>1, <2>2
<1>4. CASE Update
  BY <1>4, Updating
<1>5. CASE Stopped
  BY <1>5 DEF Stopped, vars, setup, registry, Inv, NothingMissing
<1> QED
  BY <1>1, <1>2, <1>3, <1>4, <1>5 DEF Next

LEMMA MomentStep ==
  ASSUME Inv, Next
  PROVE  MomentInv'
<1>1. CASE RegisterSystem \/ InitSystem \/ InitData \/ Prepare
  BY <1>1, Preparing DEF MomentInv
<1>2. CASE Update
  <2>1. entries' = entries /\ Tallied' = Tallied /\ phase = "update"
    BY <1>2, Updating DEF Tallied
  <2>2. CASE order[at] = "moments"
    <3>1. touched' = touched \/ touched' = touched \cup Tallied
      BY <1>2, <2>2, Frames DEF ComputeMoments
    <3>2. Has("moments") /\ entries = 2
      BY <2>1, <2>2, MyTurn DEF Inv, OrderInv, Name
    <3> QED
      BY <2>1, <3>1, <3>2 DEF Inv, MomentInv
  <2>3. CASE order[at] # "moments"
    BY <1>2, <2>1, <2>3, Frames DEF Inv, MomentInv
  <2> QED
    BY <2>2, <2>3
<1>3. CASE Stopped
  BY <1>3 DEF Stopped, vars, registry, moments, Inv, MomentInv, Tallied
<1> QED
  BY <1>1, <1>2, <1>3 DEF Next

\* What the output writes in this step.
Written ==
  (IF Due(FieldInterval(1)) THEN Tally \ {"sync_dist"} ELSE {})
  \cup (IF Due(SpecialInterval) THEN {"sync_dist"} ELSE {})

\* What each system does to what is tallied.
LEMMA TallyFrames ==
  ASSUME Inv, Update
  PROVE  /\ order[at] = "pusher" =>
              /\ holds'["Rho"] = IF RhoDue THEN {step} ELSE {}
              /\ holds'["sync_dist"] = IF prog.policy = "impl_cooling"
                                       THEN holds["sync_dist"] \cup {step}
                                       ELSE holds["sync_dist"]
              /\ \A t \in Tally \ {"Rho", "sync_dist"} : holds'[t] = holds[t]
         /\ order[at] = "rad" =>
              /\ holds'["photon_produced"] = holds["photon_produced"] \cup {step}
              /\ \A t \in Tally \ {"photon_produced"} : holds'[t] = holds[t]
         /\ order[at] = "moments" =>
              /\ holds'["moments"] = IF Due(FieldInterval(100)) THEN {step}
                                     ELSE holds["moments"]
              /\ \A t \in Tally \ {"moments"} : holds'[t] = holds[t]
         /\ order[at] = "momentum" =>
              /\ holds'["momentum"] = IF Due(FieldInterval(1)) THEN {step}
                                      ELSE holds["momentum"]
              /\ holds'["energy"] = IF Due(FieldInterval(1)) THEN holds["energy"] \cup {step}
                                    ELSE holds["energy"]
              /\ \A t \in Tally \ {"momentum", "energy"} : holds'[t] = holds[t]
         /\ order[at] = "solver" =>
              /\ holds'["flux"] = IF Due(FieldInterval(100)) THEN {step} ELSE holds["flux"]
              /\ \A t \in Tally \ {"flux"} : holds'[t] = holds[t]
         /\ order[at] = "exporter" =>
              /\ \A t \in Tally :
                   /\ holds'[t] = IF t \in Written /\ t \in Resets \cup {"sync_dist"}
                                  THEN {} ELSE holds[t]
                   /\ emptied'[t] = IF t \in Written THEN step ELSE emptied[t]
              /\ shown' = [step |-> step, written |-> Written, holds |-> holds,
                           since |-> emptied]
         /\ order[at] # "exporter" => emptied' = emptied /\ shown' = shown
         /\ order[at] \notin {"pusher", "rad", "moments", "momentum", "solver", "exporter"} =>
              holds' = holds
<1>0. holds \in [Tally -> SUBSET Int]
  BY DEF Inv, TypeInv
<1>1. CASE order[at] = "pusher"
  <2>1. holds' = [holds EXCEPT
           !["Rho"] = IF RhoDue THEN {step} ELSE {},
           !["sync_dist"] = IF prog.policy = "impl_cooling" THEN @ \cup {step} ELSE @]
    BY <1>1, Frames DEF Push
  <2> QED
    BY <1>0, <1>1, <2>1, Frames DEF Tally
<1>2. CASE order[at] = "rad"
  BY <1>0, <1>2, Frames DEF Radiate, Tally
<1>3. CASE order[at] = "moments"
  BY <1>0, <1>3, Frames DEF ComputeMoments, Tally
<1>4. CASE order[at] = "momentum"
  BY <1>0, <1>4, Frames DEF GatherMomentum, Tally
<1>5. CASE order[at] = "solver"
  BY <1>0, <1>5, Frames DEF Solve, Tally
<1>6. CASE order[at] = "exporter"
  <2>1. Export
    BY <1>6, Frames
  <2>2. /\ holds' = [t \in Tally |-> IF t \in Written /\ t \in Resets \cup {"sync_dist"}
                                    THEN {} ELSE holds[t]]
        /\ emptied' = [t \in Tally |-> IF t \in Written THEN step ELSE emptied[t]]
        /\ shown' = [step |-> step, written |-> Written, holds |-> holds, since |-> emptied]
    BY <2>1 DEF Export, Written
  <2> QED
    BY <1>6, <2>2
<1> QED
  BY <1>1, <1>2, <1>3, <1>4, <1>5, <1>6, Frames

LEMMA TallyStep ==
  ASSUME Inv, Next
  PROVE  TallyInv'
<1> SUFFICES ASSUME Live'
             PROVE  /\ \A t \in Tally : /\ -1 <= emptied'[t]
                                        /\ emptied'[t] <= LastTurn("exporter")'
                    /\ holds'["photon_produced"] =
                         IF Has("rad") THEN (emptied'["photon_produced"] + 1)..LastTurn("rad")'
                         ELSE {}
                    /\ holds'["sync_dist"] =
                         IF prog.policy = "impl_cooling"
                         THEN (emptied'["sync_dist"] + 1)..LastTurn("pusher")' ELSE {}
  BY Fixed DEF TallyInv
<1>1. CASE RegisterSystem \/ InitSystem \/ InitData \/ Prepare
  <2>1. /\ holds' = holds /\ emptied' = emptied /\ Live
        /\ \A s : LastTurn(s) = -1 /\ LastTurn(s)' = -1
    BY <1>1, Preparing DEF Live
  <2> QED
    BY <2>1 DEF Inv, TallyInv
<1>2. CASE Update
  <2>1. /\ phase = "update" /\ phase' = "update" /\ Onward /\ prog' = prog /\ Live
        /\ step \in Nat /\ emptied \in [Tally -> Int]
        /\ TypeInv /\ OrderInv /\ CursorInv
    BY <1>2, Updating, Ended DEF Live, Inv, TypeInv
  <2>2. /\ \A t \in Tally : /\ emptied[t] \in Int /\ -1 <= emptied[t]
                            /\ emptied[t] <= LastTurn("exporter")
        /\ holds["photon_produced"] =
             IF Has("rad") THEN (emptied["photon_produced"] + 1)..LastTurn("rad") ELSE {}
        /\ holds["sync_dist"] =
             IF prog.policy = "impl_cooling"
             THEN (emptied["sync_dist"] + 1)..LastTurn("pusher") ELSE {}
    BY <2>1 DEF Inv, TallyInv
  <2>3. /\ \A s : Has(s) => LastTurn(s)' = IF order[at] = s THEN step ELSE LastTurn(s)
        /\ \A s : LastTurn(s) <= LastTurn(s)'
        /\ step' \in Int
    BY <2>1, Turning
  <2>4. \A s : LastTurn(s) \in Int /\ LastTurn(s)' \in Int
    BY <2>1, <2>3 DEF LastTurn
  <2>5. prog.policy = "impl_cooling" => Has("pusher")
    BY <2>1, Ordered DEF WellOrdered, Has
  <2>6. "photon_produced" \in Tally /\ "sync_dist" \in Tally
    BY DEF Tally
  <2>7. CASE order[at] = "exporter"
    <3>1. /\ Has("exporter")
          /\ \A x \in Name : Has(x) /\ x # "exporter" => Past(x)
      BY <2>1, <2>7, MyTurn, ExporterLast DEF Name
    <3>2. /\ LastTurn("exporter")' = step /\ LastTurn("exporter") <= step
          /\ Has("rad") => LastTurn("rad")' = step /\ LastTurn("rad") = step
          /\ Has("pusher") => LastTurn("pusher")' = step /\ LastTurn("pusher") = step
      BY <2>1, <2>3, <2>7, <3>1 DEF Name, LastTurn
    <3>3. \A t \in Tally :
            /\ holds'[t] = IF t \in Written /\ t \in Resets \cup {"sync_dist"}
                           THEN {} ELSE holds[t]
            /\ emptied'[t] = IF t \in Written THEN step ELSE emptied[t]
      BY <1>2, <2>7, TallyFrames
    <3>4. "photon_produced" \in Resets
      BY DEF Resets
    <3>5. (step + 1)..step = {}
      BY <2>1
    <3>6. \A t \in Tally : -1 <= emptied'[t] /\ emptied'[t] <= LastTurn("exporter")'
      BY <2>1, <2>2, <2>4, <3>2, <3>3
    <3> QED
      BY <2>2, <2>5, <2>6, <3>2, <3>3, <3>4, <3>5, <3>6
  <2>8. CASE order[at] # "exporter"
    <3>1. emptied' = emptied
      BY <1>2, <2>8, TallyFrames
    <3>2. \A t \in Tally : -1 <= emptied'[t] /\ emptied'[t] <= LastTurn("exporter")'
      BY <2>2, <2>3, <2>4, <3>1
    <3>3. order[at] \in Name => LastTurn("exporter") = step - 1
      BY <2>1, <2>8, ExporterLast DEF LastTurn
    <3>4. \A t \in Tally : order[at] \in Name =>
            (emptied[t] + 1)..step = ((emptied[t] + 1)..(step - 1)) \cup {step}
      <4> SUFFICES ASSUME NEW t \in Tally, order[at] \in Name
                   PROVE  (emptied[t] + 1)..step = ((emptied[t] + 1)..(step - 1)) \cup {step}
        OBVIOUS
      <4>1. emptied[t] \in Int /\ emptied[t] <= step - 1
        BY <2>2, <3>3
      <4> QED
        BY <2>1, <4>1
    <3>5. holds'["photon_produced"] =
            IF Has("rad") THEN (emptied["photon_produced"] + 1)..LastTurn("rad")' ELSE {}
      <4>1. CASE order[at] = "rad"
        <5>1. Has("rad") /\ LastTurn("rad") = step - 1 /\ order[at] \in Name
          BY <2>1, <4>1, MyTurn DEF Name
        <5>2. holds'["photon_produced"] = holds["photon_produced"] \cup {step}
          BY <1>2, <4>1, TallyFrames
        <5> QED
          BY <2>2, <2>3, <2>6, <3>4, <4>1, <5>1, <5>2
      <4>2. CASE order[at] # "rad"
        <5>1. holds'["photon_produced"] = holds["photon_produced"]
          BY <1>2, <2>6, <2>8, <4>2, TallyFrames
        <5> QED
          BY <2>2, <2>3, <4>2, <5>1
      <4> QED
        BY <4>1, <4>2
    <3>6. holds'["sync_dist"] =
            IF prog.policy = "impl_cooling"
            THEN (emptied["sync_dist"] + 1)..LastTurn("pusher")' ELSE {}
      <4>1. CASE order[at] = "pusher"
        <5>1. Has("pusher") /\ LastTurn("pusher") = step - 1 /\ order[at] \in Name
          BY <2>1, <4>1, MyTurn DEF Name
        <5>2. holds'["sync_dist"] = IF prog.policy = "impl_cooling"
                                    THEN holds["sync_dist"] \cup {step} ELSE holds["sync_dist"]
          BY <1>2, <4>1, TallyFrames
        <5> QED
          BY <2>2, <2>3, <2>6, <3>4, <4>1, <5>1, <5>2
      <4>2. CASE order[at] # "pusher"
        <5>1. holds'["sync_dist"] = holds["sync_dist"]
          BY <1>2, <2>6, <2>8, <4>2, TallyFrames
        <5> QED
          BY <2>2, <2>3, <2>5, <4>2, <5>1
      <4> QED
        BY <4>1, <4>2
    <3> QED
      BY <3>1, <3>2, <3>5, <3>6
  <2> QED
    BY <2>7, <2>8
<1>3. CASE Stopped
  BY <1>3, Still
<1> QED
  BY <1>1, <1>2, <1>3 DEF Next

LEMMA OutputStep ==
  ASSUME Inv, Next
  PROVE  OutputOfStep'
<1>1. CASE shown' = shown
  BY <1>1, Fixed DEF Inv, OutputOfStep, Expected, Accumulated
<1>2. CASE Update /\ order[at] = "exporter"
  <2>1. /\ phase = "update" /\ TypeInv /\ OrderInv /\ CursorInv /\ Live
        /\ shown' = [step |-> step, written |-> Written, holds |-> holds, since |-> emptied]
    BY <1>2, Updating, TallyFrames DEF Live, Inv
  <2>2. /\ Has("exporter") /\ ~ Past("exporter")
        /\ \A x \in Name : Has(x) /\ x # "exporter" => Past(x)
    BY <1>2, <2>1, MyTurn, ExporterLast DEF Name
  <2>3. /\ Has("pusher") => Past("pusher") /\ LastTurn("pusher") = step
        /\ Has("rad") => Past("rad") /\ LastTurn("rad") = step
        /\ Has("solver") => Past("solver")
        /\ Has("moments") => Past("moments")
        /\ Has("momentum") => Past("momentum")
    BY <2>2 DEF Name, LastTurn
  <2>4. prog.policy = "impl_cooling" => Has("pusher")
    BY <2>1, Ordered DEF WellOrdered, Has
  <2>5. \A t \in Written : t \in Tally /\ (t # "sync_dist" => Due(FieldInterval(1)))
    BY DEF Written, Tally
  <2>6. configured => FieldInterval(1) = FieldInterval(100)
    BY DEF FieldInterval
  <2>7. TallyInv /\ DueInv
    BY DEF Inv
  <2>8. ASSUME NEW t \in Written, configured \/ t \notin {"flux", "moments"}
        PROVE  holds[t] =
                 CASE t = "photon_produced" -> IF Has("rad") THEN (emptied[t] + 1)..step ELSE {}
                   [] t = "sync_dist" -> IF prog.policy = "impl_cooling"
                                         THEN (emptied[t] + 1)..step ELSE {}
                   [] t = "Rho" -> IF Has("pusher") THEN {step} ELSE {}
                   [] t = "flux" -> IF Has("solver") THEN {step} ELSE {}
                   [] t = "moments" -> IF Has("moments") THEN {step} ELSE {}
                   [] OTHER -> IF Has("momentum") THEN {step} ELSE {}
    <3>1. CASE t = "photon_produced"
      BY <2>1, <2>3, <2>7, <3>1 DEF TallyInv
    <3>2. CASE t = "sync_dist"
      BY <2>1, <2>3, <2>4, <2>7, <3>2 DEF TallyInv
    <3>3. CASE t = "Rho"
      <4>1. RhoDue
        BY <2>5, <3>3 DEF RhoDue
      <4> QED
        BY <2>1, <2>3, <2>7, <3>3, <4>1 DEF DueInv
    <3>4. CASE t = "flux"
      <4>1. Due(FieldInterval(100))
        BY <2>5, <2>6, <2>8, <3>4
      <4> QED
        BY <2>1, <2>3, <2>7, <3>4, <4>1 DEF DueInv
    <3>5. CASE t = "moments"
      <4>1. Due(FieldInterval(100))
        BY <2>5, <2>6, <2>8, <3>5
      <4> QED
        BY <2>1, <2>3, <2>7, <3>5, <4>1 DEF DueInv
    <3>6. CASE t \in {"momentum", "energy"}
      <4>1. Due(FieldInterval(1))
        BY <2>5, <3>6
      <4>2. /\ ~ Has("momentum") => holds[t] = {}
            /\ Has("momentum") => holds[t] = {step}
        BY <2>1, <2>2, <2>3, <2>7, <3>6, <4>1 DEF DueInv
      <4> QED
        BY <3>6, <4>2
    <3>7. t \in Tally
      BY <2>5
    <3> QED
      BY <3>1, <3>2, <3>3, <3>4, <3>5, <3>6, <3>7 DEF Tally
  <2>9. /\ shown'.step = step /\ shown'.written = Written /\ shown'.holds = holds
        /\ shown'.since = emptied
    BY <2>1
  <2>10. ASSUME NEW t \in shown'.written, configured' \/ t \notin {"flux", "moments"}
         PROVE  shown'.holds[t] = Expected(t)'
    <3>1. /\ t \in Written /\ configured' = configured /\ prog' = prog
          /\ \A s : Has(s)' <=> Has(s)
      BY <2>9, <2>10, Fixed
    <3>2. Expected(t)' =
                 CASE t = "photon_produced" -> IF Has("rad") THEN (emptied[t] + 1)..step ELSE {}
                   [] t = "sync_dist" -> IF prog.policy = "impl_cooling"
                                         THEN (emptied[t] + 1)..step ELSE {}
                   [] t = "Rho" -> IF Has("pusher") THEN {step} ELSE {}
                   [] t = "flux" -> IF Has("solver") THEN {step} ELSE {}
                   [] t = "moments" -> IF Has("moments") THEN {step} ELSE {}
                   [] OTHER -> IF Has("momentum") THEN {step} ELSE {}
      BY <2>9, <3>1 DEF Expected, Accumulated
    <3> QED
      BY <2>8, <2>9, <2>10, <3>1, <3>2
  <2> QED
    BY <2>10 DEF OutputOfStep
<1>3. CASE RegisterSystem \/ InitSystem \/ InitData \/ Prepare
  BY <1>1, <1>3, Preparing
<1>4. CASE Stopped
  BY <1>1, <1>4 DEF Stopped, vars, output
<1>5. CASE Update /\ order[at] # "exporter"
  BY <1>1, <1>5, TallyFrames
<1> QED
  BY <1>2, <1>3, <1>4, <1>5 DEF Next

LEMMA DueStep ==
  ASSUME Inv, Next
  PROVE  DueInv'
<1> SUFFICES ASSUME Live' PROVE DueInv'
  BY DEF DueInv
<1>1. SUFFICES /\ (Past("pusher") /\ RhoDue)' => holds'["Rho"] = {step'}
               /\ ~ Has("pusher") => holds'["Rho"] = {}
               /\ (Past("solver") /\ Due(FieldInterval(100)))' => holds'["flux"] = {step'}
               /\ ~ Has("solver") => holds'["flux"] = {}
               /\ (Past("moments") /\ Due(FieldInterval(100)))' => holds'["moments"] = {step'}
               /\ ~ Has("moments") => holds'["moments"] = {}
               /\ \A t \in {"momentum", "energy"} :
                    /\ ~ Has("momentum") => holds'[t] = {}
                    /\ Has("momentum") /\ Has("exporter") =>
                         holds'[t] = IF (/\ Past("momentum") /\ ~ Past("exporter")
                                         /\ Due(FieldInterval(1)))'
                                     THEN {step'} ELSE {}
  BY <1>1, Fixed DEF DueInv
<1>2. CASE RegisterSystem \/ InitSystem \/ InitData \/ Prepare
  <2>1. /\ holds' = holds /\ Live
        /\ \A s : ~ Past(s) /\ ~ Past(s)'
    BY <1>2, Preparing DEF Live
  <2>2. DueInv
    BY DEF Inv
  <2> QED
    BY <2>1, <2>2 DEF DueInv
<1>3. CASE Update
  <2>1. /\ phase = "update" /\ phase' = "update" /\ Onward /\ prog' = prog /\ Live
        /\ configured' = configured /\ step \in Nat
        /\ TypeInv /\ OrderInv /\ CursorInv /\ DueInv
    BY <1>3, Updating, Ended DEF Live, Inv, TypeInv
  <2>2. /\ \A s : Past(s)' <=> at < Len(order) /\ (Past(s) \/ order[at] = s)
        /\ at < Len(order) => step' = step
        /\ at = Len(order) => step' = step + 1
        /\ at < Len(order) \/ at = Len(order)
        /\ \A s : Has(s) => LastTurn(s)' = IF order[at] = s THEN step ELSE LastTurn(s)
    <3>1. Len(order) \in Nat
      BY <2>1 DEF TypeInv
    <3> QED
      BY <2>1, <3>1, Turning
  <2>3. at < Len(order) =>
          /\ RhoDue' = RhoDue
          /\ Due(FieldInterval(100))' = Due(FieldInterval(100))
          /\ Due(FieldInterval(1))' = Due(FieldInterval(1))
    BY <2>1, <2>2 DEF RhoDue, Due, FieldInterval
  <2>4. /\ Past("pusher") /\ RhoDue => holds["Rho"] = {step}
        /\ ~ Has("pusher") => holds["Rho"] = {}
        /\ Past("solver") /\ Due(FieldInterval(100)) => holds["flux"] = {step}
        /\ ~ Has("solver") => holds["flux"] = {}
        /\ Past("moments") /\ Due(FieldInterval(100)) => holds["moments"] = {step}
        /\ ~ Has("moments") => holds["moments"] = {}
    BY <2>1 DEF DueInv
  <2>5. \A t \in {"momentum", "energy"} :
          /\ ~ Has("momentum") => holds[t] = {}
          /\ Has("momentum") /\ Has("exporter") =>
               holds[t] = IF /\ Past("momentum") /\ ~ Past("exporter")
                             /\ Due(FieldInterval(1))
                          THEN {step} ELSE {}
    BY <2>1 DEF DueInv
  <2>6. \A s \in Name : order[at] = s => Has(s)
    BY <2>1, MyTurn
  <2>7. \A t \in {"Rho", "flux", "moments"} : t \in Tally /\ t \notin Resets \cup {"sync_dist"}
    BY DEF Tally, Resets
  <2>8. /\ (Past("pusher") /\ RhoDue)' => holds'["Rho"] = {step'}
        /\ ~ Has("pusher") => holds'["Rho"] = {}
    <3>1. CASE order[at] = "pusher"
      <4>1. Has("pusher")
        BY <2>6, <3>1 DEF Name
      <4>2. holds'["Rho"] = IF RhoDue THEN {step} ELSE {}
        BY <1>3, <3>1, TallyFrames
      <4> QED
        BY <2>2, <2>3, <4>1, <4>2
    <3>2. CASE order[at] # "pusher"
      <4>1. holds'["Rho"] = holds["Rho"]
        BY <1>3, <2>7, <3>2, TallyFrames
      <4> QED
        BY <2>2, <2>3, <2>4, <3>2, <4>1
    <3> QED
      BY <3>1, <3>2
  <2>9. /\ (Past("solver") /\ Due(FieldInterval(100)))' => holds'["flux"] = {step'}
        /\ ~ Has("solver") => holds'["flux"] = {}
    <3>1. CASE order[at] = "solver"
      <4>1. Has("solver")
        BY <2>6, <3>1 DEF Name
      <4>2. holds'["flux"] = IF Due(FieldInterval(100)) THEN {step} ELSE holds["flux"]
        BY <1>3, <3>1, TallyFrames
      <4> QED
        BY <2>2, <2>3, <4>1, <4>2
    <3>2. CASE order[at] # "solver"
      <4>1. holds'["flux"] = holds["flux"]
        BY <1>3, <2>7, <3>2, TallyFrames
      <4> QED
        BY <2>2, <2>3, <2>4, <3>2, <4>1
    <3> QED
      BY <3>1, <3>2
  <2>10. /\ (Past("moments") /\ Due(FieldInterval(100)))' => holds'["moments"] = {step'}
         /\ ~ Has("moments") => holds'["moments"] = {}
    <3>1. CASE order[at] = "moments"
      <4>1. Has("moments")
        BY <2>6, <3>1 DEF Name
      <4>2. holds'["moments"] = IF Due(FieldInterval(100)) THEN {step} ELSE holds["moments"]
        BY <1>3, <3>1, TallyFrames
      <4> QED
        BY <2>2, <2>3, <4>1, <4>2
    <3>2. CASE order[at] # "moments"
      <4>1. holds'["moments"] = holds["moments"]
        BY <1>3, <2>7, <3>2, TallyFrames
      <4> QED
        BY <2>2, <2>3, <2>4, <3>2, <4>1
    <3> QED
      BY <3>1, <3>2
  <2>11. ASSUME NEW t \in {"momentum", "energy"}
         PROVE  /\ ~ Has("momentum") => holds'[t] = {}
                /\ Has("momentum") /\ Has("exporter") =>
                     holds'[t] = IF (/\ Past("momentum") /\ ~ Past("exporter")
                                     /\ Due(FieldInterval(1)))'
                                 THEN {step'} ELSE {}
    <3>0. t \in Tally /\ t \in Resets
      BY DEF Tally, Resets
    <3>1. CASE order[at] = "momentum"
      <4>1. Has("momentum") /\ ~ Past("momentum") /\ ~ Past("exporter")
        BY <2>1, <3>1, MyTurn, ExporterLast DEF Name
      <4>2. holds'[t] = IF Due(FieldInterval(1)) THEN {step} \cup (IF t = "energy"
                                                     THEN holds[t] ELSE {})
                        ELSE holds[t]
        BY <1>3, <3>1, TallyFrames
      <4>3. Has("exporter") => holds[t] = {}
        BY <2>5, <4>1
      <4>4. Has("exporter") => at < Len(order)
        <5>1. ASSUME Has("exporter"), at = Len(order) PROVE FALSE
          <6>1. LastTurn("exporter")' = step - 1
            BY <2>2, <3>1, <4>1, <5>1 DEF LastTurn
          <6>2. LastTurn("exporter")' = step
            BY <2>1, <2>2, <5>1 DEF LastTurn
          <6> QED
            BY <2>1, <6>1, <6>2
        <5> QED
          BY <2>2, <5>1
      <4> QED
        BY <2>2, <2>3, <3>1, <4>1, <4>2, <4>3, <4>4
    <3>2. CASE order[at] = "exporter"
      <4>1. holds'[t] = IF t \in Written THEN {} ELSE holds[t]
        BY <1>3, <3>0, <3>2, TallyFrames
      <4>2. Due(FieldInterval(1)) => t \in Written
        BY <3>0 DEF Written
      <4>3. ~ Due(FieldInterval(1)) /\ Has("momentum") /\ Has("exporter") => holds[t] = {}
        BY <2>5
      <4>4. (Has("momentum") /\ Has("exporter") => holds'[t] = {})
            /\ (~ Has("momentum") => holds'[t] = {})
        BY <2>5, <4>1, <4>2, <4>3
      <4>5. ~ Past("exporter")' => ~ Past("momentum")'
        BY <2>2, <3>2
      <4> QED
        BY <4>4, <4>5
    <3>3. CASE order[at] \notin {"momentum", "exporter"}
      <4>1. holds'[t] = holds[t]
        BY <1>3, <3>0, <3>3, TallyFrames
      <4>2. CASE at < Len(order)
        BY <2>2, <2>3, <2>5, <3>3, <4>1, <4>2
      <4>3. CASE at = Len(order)
        <5>1. ~ Past("momentum")'
          BY <2>1, <2>2, <4>3 DEF TypeInv
        <5>2. ASSUME Has("exporter") PROVE Past("exporter")
          <6>1. LastTurn("exporter")' = LastTurn("exporter")
            BY <2>2, <3>3, <5>2
          <6>2. LastTurn("exporter")' = step
            BY <2>1, <2>2, <4>3 DEF LastTurn, TypeInv
          <6> QED
            BY <2>1, <6>1, <6>2 DEF LastTurn
        <5> QED
          BY <2>5, <4>1, <5>1, <5>2
      <4> QED
        BY <2>2, <4>2, <4>3
    <3> QED
      BY <3>1, <3>2, <3>3
  <2> QED
    BY <2>8, <2>9, <2>10, <2>11
<1>4. CASE Stopped
  BY <1>4, Still
<1> QED
  BY <1>2, <1>3, <1>4 DEF Next

-----------------------------------------------------------------------------
(* The properties *)

LEMMA InitInv ==
  ASSUME Init
  PROVE  Inv
<1> USE DEF Init
<1>1. TypeInv
  <2>1. 0 \in 0..MaxStep
    BY ScheduleAssumption
  <2> QED
    BY <2>1 DEF TypeInv, None
<1>2. 1 <= Len(prog.systems) /\ 1..(1 - 1) = {}
  BY <1>1, Ordered
<1>3. RegisterInv /\ OrderInv /\ CursorInv
  BY <1>2 DEF RegisterInv, OrderInv, CursorInv
<1>4. \A s : ~ Past(s) /\ LastTurn(s) = -1
  BY DEF Past, LastTurn
<1>5. CurrentInv /\ SumInv /\ MomentInv
  BY <1>4 DEF CurrentInv, SumInv, MomentInv
<1>6. UsedInv
  BY <1>4 DEF UsedInv
<1>7. GuardInv /\ FreshGuards
  BY DEF GuardInv, FreshGuards, Stale
<1>8. TallyInv
  <2>1. (-1 + 1)..-1 = {}
    OBVIOUS
  <2>2. "photon_produced" \in Tally /\ "sync_dist" \in Tally
    BY DEF Tally
  <2> QED
    BY <1>4, <2>1, <2>2 DEF TallyInv, None
<1>9. DueInv
  <2>1. {"Rho", "flux", "moments", "momentum", "energy"} \subseteq Tally
    BY DEF Tally
  <2> QED
    BY <1>4, <2>1 DEF DueInv
<1>10. NothingMissing /\ TotalsCurrent /\ OutputOfStep
  BY DEF NothingMissing, TotalsCurrent, OutputOfStep
<1> QED
  BY <1>1, <1>3, <1>5, <1>6, <1>7, <1>8, <1>9, <1>10 DEF Inv

LEMMA InvStep ==
  ASSUME Inv, [Next]_vars
  PROVE  Inv'
<1>1. CASE Next
  BY <1>1, TypeStep, OrderStep, CurrentStep, UsedStep, GuardStep, SumStep, TotalsStep,
     MissingStep, MomentStep, TallyStep, OutputStep, DueStep, Zenon DEF Inv
<1>2. CASE UNCHANGED vars
  <2>1. /\ prog' = prog /\ implicit' = implicit /\ configured' = configured
        /\ phase' = phase /\ at' = at /\ last' = last /\ step' = step /\ order' = order
        /\ data' = data /\ ready' = ready /\ guards' = guards /\ behind' = behind
        /\ lagging' = lagging /\ current' = current /\ used' = used /\ holds' = holds
        /\ emptied' = emptied /\ shown' = shown /\ entries' = entries /\ touched' = touched
    BY <1>2 DEF vars, setup, registry, fields, output, moments
  <2>2. /\ \A s : (Has(s)' <=> Has(s)) /\ (Past(s)' <=> Past(s)) /\ LastTurn(s)' = LastTurn(s)
        /\ Live' = Live
    BY <2>1 DEF Has, Past, LastTurn, Live
  <2>3. TypeInv' /\ RegisterInv' /\ OrderInv' /\ CursorInv'
    BY <2>1, <2>2 DEF Inv, TypeInv, RegisterInv, OrderInv, CursorInv
  <2>4. CurrentInv' /\ UsedInv' /\ GuardInv' /\ SumInv'
    BY <2>1, <2>2 DEF Inv, CurrentInv, UsedInv, GuardInv, SumInv
  <2>5. TallyInv' /\ MomentInv'
    BY <2>1, <2>2 DEF Inv, TallyInv, MomentInv, Tallied
  <2>6. DueInv'
    BY <2>1, <2>2 DEF Inv, DueInv, RhoDue, Due, FieldInterval
  <2>7. NothingMissing' /\ FreshGuards' /\ TotalsCurrent'
    BY <2>1 DEF Inv, NothingMissing, FreshGuards, TotalsCurrent
  <2>8. OutputOfStep'
    BY <2>1, <2>2 DEF Inv, OutputOfStep, Expected, Accumulated
  <2> QED
    BY <2>3, <2>4, <2>5, <2>6, <2>7, <2>8 DEF Inv
<1> QED
  BY <1>1, <1>2

LEMMA Invariance == Spec => []Inv
<1>1. Init => Inv
  BY InitInv
<1>2. Inv /\ [Next]_vars => Inv'
  BY InvStep
<1> QED
  BY <1>1, <1>2, PTL DEF Spec

\* Every get_data() finds what it asks for (init() of the systems, main()), but
\* for the background field of the one program without a solver.
THEOREM MissingTheorem == Spec => []NothingMissing
<1>1. Inv => NothingMissing
  BY DEF Inv
<1> QED
  BY <1>1, Invariance, PTL

\* update() runs on data whose init() was called, whoever registered them.
THEOREM InitialisedTheorem == Spec => []Initialised
<1>1. Inv => Initialised
  BY DEF Inv, CursorInv, Initialised
<1> QED
  BY <1>1, Invariance, PTL

\* However many steps there are, the solver uses the J of each of them once, in
\* the same step or, where it comes before the pusher, in the next.
THEOREM CurrentTheorem == Spec => []EveryCurrentOnce
<1>1. Inv => EveryCurrentOnce
  <2> SUFFICES ASSUME Inv, phase = "update", at = 1, Has("pusher"), Has("solver"),
                      NEW n \in 0..(step - 1)
               PROVE  used[n] = IF n = step - 1 /\ Before(prog, "solver", "pusher")
                                THEN 0 ELSE 1
    BY DEF EveryCurrentOnce
  <2>1. step \in 0..MaxStep /\ MaxStep \in Nat
    BY ScheduleAssumption DEF Inv, TypeInv
  <2>2. n \in 0..MaxStep /\ n \in Int /\ n <= step - 1
    BY <2>1
  <2>3. 1..(1 - 1) = {}
    OBVIOUS
  <2>4. LastTurn("solver") = step - 1
    BY <2>3 DEF LastTurn, Past
  <2>5. used[n] = IF n <= (step - 1) - (IF Before(prog, "solver", "pusher") THEN 1 ELSE 0)
                  THEN 1 ELSE 0
    BY <2>2, <2>4 DEF Inv, UsedInv, Live
  <2> QED
    BY <2>1, <2>2, <2>5
<1> QED
  BY <1>1, Invariance, PTL

\* No kernel of the pusher or of a field solver reads guard cells that are out
\* of date, but for the first iteration of the implicit spherical solver.
THEOREM GuardTheorem == Spec => []FreshGuards
<1>1. Inv => FreshGuards
  BY DEF Inv
<1> QED
  BY <1>1, Invariance, PTL

\* Whoever reads E or B, in update() of a system or for the output, reads the
\* sum of their parts, but in the two cases TotalsCurrent names.
THEOREM TotalsTheorem == Spec => []TotalsCurrent
<1>1. Inv => TotalsCurrent
  BY DEF Inv
<1> QED
  BY <1>1, Invariance, PTL

\* Whatever the intervals, data_exporter writes what was tallied in its own
\* step, or since it last wrote it: nothing twice, nothing left out.
THEOREM OutputTheorem == Spec => []OutputOfStep
<1>1. Inv => OutputOfStep
  BY DEF Inv
<1> QED
  BY <1>1, Invariance, PTL

\* compute_moments stays within S and T for up to two species without photons.
THEOREM MomentsTheorem == Spec => []MomentsInRange
<1>1. Inv => MomentsInRange
  <2> SUFFICES ASSUME Inv, NumSpecies <= 2, "photons" \notin data, NEW i \in touched
               PROVE  i \in 0..(entries - 1)
    BY DEF MomentsInRange
  <2>1. entries = 2 /\ i \in 0..(NumSpecies - 1)
    BY DEF Inv, MomentInv, Tallied
  <2> QED
    BY <2>1, ScheduleAssumption
<1> QED
  BY <1>1, Invariance, PTL
=============================================================================
