------------------------- MODULE SegmentSort_proofs -------------------------
(***************************************************************************)
(* Proofs about the counting sort of a segment, for every length, number   *)
(* of cells and content: no particle is overwritten on the way, and the    *)
(* result is the stable sort with the dead particles last.                 *)
(***************************************************************************)
EXTENDS SegmentSort, FiniteSetTheorems, TLAPS

\* The particles of key k before place e, those with a smaller key, and those
\* that the sorted segment has before particle p.
Keyed(e, k) == {q \in Place : q < e /\ cell[q] = k}
Below(k) == {q \in Place : cell[q] < k}
Before(p) == {q \in Place : cell[q] < cell[p] \/ (cell[q] = cell[p] /\ q < p)}

\* The place of particle p in the sorted segment.
Goal(p) == Offset + Cardinality(Before(p))

\* The particles whose index entry is used up.
Settled == {p \in Place : index[p - Offset] = DoneMark}

End == Offset + Length

-----------------------------------------------------------------------------
(* Facts about goals *)

\* Constants.
LEMMA Sizes ==
  /\ Offset \in Nat /\ Length \in Nat \ {0} /\ NumCells \in Nat \ {0}
  /\ IsFiniteSet(Place) /\ Cardinality(Place) = Length
<1>1. Offset \in Nat /\ Length \in Nat \ {0} /\ NumCells \in Nat \ {0}
  BY SegmentAssumption
<1>2. /\ IsFiniteSet(Offset..(Offset + Length - 1))
      /\ Cardinality(Offset..(Offset + Length - 1)) =
           IF Offset > Offset + Length - 1 THEN 0
           ELSE (Offset + Length - 1) - Offset + 1
  BY <1>1, FS_Interval
<1> QED
  BY <1>1, <1>2 DEF Place

\* Sets of particles are finite.
LEMMA Counts ==
  ASSUME NEW S \in SUBSET Place
  PROVE  IsFiniteSet(S) /\ Cardinality(S) \in Nat /\ Cardinality(S) <= Length
  BY Sizes, FS_Subset, FS_CardinalityType

\* A proper subset has fewer elements.
LEMMA Fewer ==
  ASSUME NEW S \in SUBSET Place, NEW T \in SUBSET S, NEW x \in S, x \notin T
  PROVE  Cardinality(T) < Cardinality(S)
<1>1. /\ IsFiniteSet(S) /\ Cardinality(S) \in Nat /\ Cardinality(T) \in Nat
  BY Counts
<1>2. /\ Cardinality(T) <= Cardinality(S)
      /\ Cardinality(S) = Cardinality(T) => S = T
  BY <1>1, FS_Subset
<1> QED
  BY <1>1, <1>2

\* Goals are places,
LEMMA GoalPlace ==
  ASSUME cell \in [Place -> Key], NEW p \in Place
  PROVE  Goal(p) \in Place
<1>1. /\ Before(p) \in SUBSET Place /\ p \notin Before(p)
  <2>1. cell[p] \in Int /\ p \in Int
    BY Sizes DEF Key, Place
  <2> QED
    BY <2>1 DEF Before
<1>2. Cardinality(Before(p)) < Length /\ Cardinality(Before(p)) \in Nat
  BY <1>1, Fewer, Counts, Sizes
<1> QED
  BY <1>2, Sizes DEF Goal, Place

\* in the order of the sort,
LEMMA GoalOrder ==
  ASSUME cell \in [Place -> Key], NEW p \in Place, NEW q \in Before(p)
  PROVE  Goal(q) < Goal(p)
<1>1. q \in Place /\ (cell[q] < cell[p] \/ (cell[q] = cell[p] /\ q < p))
  BY DEF Before
<1>2. \A x \in Place : x \in Int /\ cell[x] \in Int
  BY Sizes DEF Key, Place
<1>3. Before(q) \in SUBSET Before(p) /\ q \notin Before(q)
  BY <1>1, <1>2 DEF Before
<1>4. Before(p) \in SUBSET Place /\ Before(q) \in SUBSET Place
  BY DEF Before
<1>5. Cardinality(Before(q)) < Cardinality(Before(p))
  BY <1>3, <1>4, Fewer
<1>6. Cardinality(Before(q)) \in Nat /\ Cardinality(Before(p)) \in Nat
  BY <1>4, Counts
<1> QED
  BY <1>5, <1>6, Sizes DEF Goal

\* so no two particles have the same.
LEMMA GoalsDiffer ==
  ASSUME cell \in [Place -> Key], NEW p \in Place, NEW q \in Place, p # q
  PROVE  Goal(p) # Goal(q) /\ Goal(p) \in Int /\ Goal(q) \in Int
<1>1. p \in Before(q) \/ q \in Before(p)
  <2>1. cell[p] \in Int /\ cell[q] \in Int /\ p \in Int /\ q \in Int
    BY Sizes DEF Key, Place
  <2> QED
    BY <2>1 DEF Before
<1>2. Goal(p) \in Int /\ Goal(q) \in Int
  BY GoalPlace, Sizes DEF Place
<1> QED
  BY <1>1, <1>2, GoalOrder

-----------------------------------------------------------------------------
(* The invariant *)

SortTypes ==
  /\ cell \in [Place -> Key]
  /\ ptc \in [Place -> Place]
  /\ index \in [Local -> Int]
  /\ part \in [0..(NumCells + 1) -> Int]
  /\ pc \in {"count", "scan", "place", "cycles", "walk", "done"}
  /\ i \in Nat
  /\ pc \in {"count", "place", "cycles", "walk"} => i \in Local
  /\ pc = "scan" => i \in 1..(NumCells + 1)
  /\ j \in Local
  /\ tmp \in Place

\* index[n] holds what the histogram gives it.
Ranked(n) == index[n] = Cardinality(Keyed(n + Offset, cell[n + Offset]))

\* What the first three passes compute.
Counted ==
  /\ pc \in {"count", "scan", "place"} => ptc = [p \in Place |-> p]
  /\ pc = "count" =>
       /\ part[0] = 0
       /\ \A k \in Key : part[k + 1] = Cardinality(Keyed(i + Offset, k))
       /\ \A n \in Local : n < i => Ranked(n)
  /\ pc = "scan" =>
       /\ \A k \in 0..(i - 1) : part[k] = Cardinality(Below(k))
       /\ \A k \in (i - 1)..NumCells : part[k + 1] = Cardinality(Keyed(End, k))
       /\ \A n \in Local : Ranked(n)
  /\ pc \in {"place", "cycles", "walk", "done"} =>
       \A k \in 0..(NumCells + 1) : part[k] = Cardinality(Below(k))
  /\ pc = "place" =>
       /\ \A n \in Local : n < i => index[n] = Goal(n + Offset)
       /\ \A n \in Local : n >= i => Ranked(n)

\* The particle that the walk has in hand, and the place it left empty.
InHand == IF pc = "walk" THEN {j + Offset} ELSE {}
Gap == IF pc = "walk" THEN {i + Offset} ELSE {}

\* Particles that are settled are at their goals; those that are neither
\* settled nor in hand are where they were.  The goals of the settled ones are
\* the places they and the one in hand have left.
Permuting ==
  pc \in {"cycles", "walk", "done"} =>
    /\ \A p \in Place : p \notin Settled => index[p - Offset] = Goal(p)
    /\ \A p \in Settled : ptc[Goal(p)] = p
    /\ \A p \in Place : p \notin Settled /\ p \notin InHand => ptc[p] = p
    /\ \A p \in Settled : Goal(p) \in Settled \cup InHand /\ Goal(p) \notin Gap
    /\ \A p \in Settled \cup InHand : p \in Gap \/ \E q \in Settled : Goal(q) = p
    /\ \A p \in InHand : p \notin Settled /\ tmp = p
    /\ Gap \subseteq Settled \cup InHand
    /\ pc \in {"cycles", "walk"} => \A p \in Place : p < i + Offset => p \in Settled
    /\ pc = "done" => Settled = Place

SortInv == SortTypes /\ Counted /\ Permuting

-----------------------------------------------------------------------------
(* The passes *)

\* Local places and places.
LEMMA Shift ==
  /\ \A n \in Local : n \in Int /\ n + Offset \in Place /\ (n + Offset) - Offset = n
  /\ \A p \in Place : p \in Int /\ p - Offset \in Local /\ (p - Offset) + Offset = p
  /\ \A p \in Place : p >= Offset /\ p < End
  BY Sizes DEF Local, Place, End

\* The counted sets change only with the cells, which nothing changes.
LEMMA SameGoals ==
  ASSUME cell' = cell
  PROVE  /\ \A p : Goal(p)' = Goal(p)
         /\ \A e, k : Keyed(e, k)' = Keyed(e, k)
         /\ \A k : Below(k)' = Below(k)
  BY DEF Goal, Before, Keyed, Below

\* One more particle counted.
LEMMA KeyedNext ==
  ASSUME cell \in [Place -> Key], NEW n \in Local, NEW k \in Key
  PROVE  /\ Cardinality(Keyed(n + Offset, k)) \in Nat
         /\ Cardinality(Keyed((n + 1) + Offset, k)) =
              IF cell[n + Offset] = k THEN Cardinality(Keyed(n + Offset, k)) + 1
              ELSE Cardinality(Keyed(n + Offset, k))
<1> DEFINE S == Keyed(n + Offset, k)
           p == n + Offset
<1>1. S \in SUBSET Place /\ IsFiniteSet(S) /\ Cardinality(S) \in Nat /\ p \notin S
  <2>1. S \in SUBSET Place /\ p \notin S
    BY Shift, Sizes DEF Keyed
  <2> QED
    BY <2>1, Counts
<1>2. \A q \in Place : q < (n + 1) + Offset <=> q < p \/ q = p
  BY Shift, Sizes
<1>3. CASE cell[p] = k
  <2>1. Keyed((n + 1) + Offset, k) = S \cup {p}
    BY <1>2, <1>3, Shift DEF Keyed
  <2> QED
    BY <1>1, <1>3, <2>1, FS_AddElement
<1>4. CASE cell[p] # k
  <2>1. Keyed((n + 1) + Offset, k) = S
    BY <1>2, <1>4, Shift DEF Keyed
  <2> QED
    BY <1>1, <1>4, <2>1
<1> QED
  BY <1>3, <1>4

\* Two sets of particles without a common element.
LEMMA Disjoint ==
  ASSUME NEW S \in SUBSET Place, NEW T \in SUBSET Place, S \cap T = {}
  PROVE  Cardinality(S \cup T) = Cardinality(S) + Cardinality(T)
<1>1. IsFiniteSet(S) /\ IsFiniteSet(T)
  BY Counts
<1>2. Cardinality(S) \in Nat /\ Cardinality(T) \in Nat
  BY Counts
<1>3. Cardinality(S \cup T) = Cardinality(S) + Cardinality(T) - Cardinality({})
  BY <1>1, FS_Union
<1> QED
  BY <1>2, <1>3, FS_EmptySet

\* All particles of key k or less are those of smaller keys and those of key k.
LEMMA BelowNext ==
  ASSUME cell \in [Place -> Key], NEW k \in 0..(NumCells + 1)
  PROVE  /\ Cardinality(Below(k)) \in Nat /\ Cardinality(Keyed(End, k)) \in Nat
         /\ Cardinality(Below(k + 1)) =
              Cardinality(Keyed(End, k)) + Cardinality(Below(k))
         /\ Cardinality(Below(0)) = 0
<1>1. \A q \in Place : cell[q] \in Int /\ cell[q] >= 0 /\ q < End
  BY Shift, Sizes DEF Key
<1>2. /\ Below(k) \in SUBSET Place /\ Keyed(End, k) \in SUBSET Place
      /\ Below(k) \cap Keyed(End, k) = {}
  BY <1>1 DEF Below, Keyed
<1>3. Below(k + 1) = Keyed(End, k) \cup Below(k)
  BY <1>1 DEF Below, Keyed
<1>4. Below(0) = {}
  BY <1>1 DEF Below
<1> QED
  BY <1>2, <1>3, <1>4, Counts, Disjoint, FS_EmptySet

\* The particles before p are those of smaller keys and those of its own key at
\* smaller places.
LEMMA GoalSum ==
  ASSUME cell \in [Place -> Key], NEW p \in Place
  PROVE  /\ Goal(p) = Cardinality(Keyed(p, cell[p])) + Cardinality(Below(cell[p]))
                        + Offset
         /\ Cardinality(Keyed(p, cell[p])) \in Nat
         /\ Cardinality(Below(cell[p])) \in Nat
<1> DEFINE S == Keyed(p, cell[p])
           T == Below(cell[p])
<1>1. \A q \in Place : cell[q] \in Int
  BY Sizes DEF Key
<1>2. /\ S \in SUBSET Place /\ T \in SUBSET Place /\ S \cap T = {}
      /\ Before(p) = S \cup T
  BY <1>1 DEF Keyed, Below, Before
<1>3. /\ Cardinality(Before(p)) = Cardinality(S) + Cardinality(T)
      /\ Cardinality(S) \in Nat /\ Cardinality(T) \in Nat
  BY <1>2, Disjoint, Counts
<1> QED
  BY <1>3, Sizes DEF Goal

\* The histogram starts with nothing counted.
LEMMA SortInit == Init => SortInv
<1> SUFFICES ASSUME Init PROVE SortInv
  OBVIOUS
<1>1. /\ cell \in [Place -> Key] /\ ptc = [n \in Place |-> n]
      /\ index = [n \in Local |-> n] /\ part = [n \in 0..(NumCells + 1) |-> 0]
      /\ pc = "count" /\ i = 0 /\ j = 0 /\ tmp = Offset
  BY DEF Init
<1>2. 0 \in Local /\ Offset \in Place
  BY Sizes DEF Local, Place
<1>3. SortTypes
  BY <1>1, <1>2, Shift DEF SortTypes
<1>4. \A k \in Key : Keyed(0 + Offset, k) = {}
  BY Shift, Sizes DEF Keyed
<1>5. \A k \in Key : k + 1 \in 0..(NumCells + 1)
  BY Sizes DEF Key
<1>6. 0 \in 0..(NumCells + 1) /\ \A n \in Local : ~(n < 0)
  BY Sizes DEF Local
<1>7. Counted
  BY <1>1, <1>4, <1>5, <1>6, FS_EmptySet DEF Counted
<1>8. Permuting
  BY <1>1 DEF Permuting
<1> QED
  BY <1>3, <1>7, <1>8 DEF SortInv

\* The histogram counts one more particle.
LEMMA CountPass ==
  ASSUME SortInv, Count
  PROVE  SortInv'
<1> DEFINE k == cell[i + Offset]
<1>1. SortTypes /\ Counted /\ pc = "count" /\ i \in Local /\ cell \in [Place -> Key]
  BY DEF SortInv, SortTypes, Count
<1>2. ptc[i + Offset] = i + Offset /\ i + Offset \in Place /\ k \in Key
  BY <1>1, Shift DEF Counted
<1>3. KeyAt(i) = k
  BY <1>2 DEF KeyAt
<1>4. /\ index' = [index EXCEPT ![i] = part[k + 1]]
      /\ part' = [part EXCEPT ![k + 1] = @ + 1]
      /\ UNCHANGED <<cell, ptc, j, tmp>>
      /\ \/ i = Length - 1 /\ pc' = "scan" /\ i' = 1
         \/ i # Length - 1 /\ pc' = "count" /\ i' = i + 1
  BY <1>1, <1>3 DEF Count, Loop
<1> HIDE DEF k
<1>5. /\ k + 1 \in 0..(NumCells + 1) /\ k \in Int /\ k + 1 # 0
      /\ \A c \in Key : c \in Int /\ c + 1 \in 0..(NumCells + 1)
      /\ 0 \in 0..(NumCells + 1)
  BY <1>2, Sizes DEF Key
<1>6. /\ index \in [Local -> Int] /\ part \in [0..(NumCells + 1) -> Int]
  BY <1>1 DEF SortTypes
<1>7. /\ part'[0] = 0
      /\ \A c \in Key : part'[c + 1] = IF c = k THEN part[c + 1] + 1 ELSE part[c + 1]
  <2>1. part'[0] = 0
    BY <1>1, <1>4, <1>5, <1>6 DEF Counted
  <2>2. \A c \in Key : c + 1 = k + 1 <=> c = k
    BY <1>5
  <2> QED
    BY <1>4, <1>5, <1>6, <2>1, <2>2
<1>8. \A c \in Key : part'[c + 1] = Cardinality(Keyed((i + 1) + Offset, c))
  <2> TAKE c \in Key
  <2>1. part[c + 1] = Cardinality(Keyed(i + Offset, c))
    BY <1>1 DEF Counted
  <2> QED
    BY <1>1, <1>7, <2>1, KeyedNext DEF k
<1>9. \A n \in Local : n < i + 1 => index'[n] = Cardinality(Keyed(n + Offset, cell[n + Offset]))
  <2> TAKE n \in Local
  <2> HAVE n < i + 1
  <2>1. CASE n = i
    <3>1. index'[n] = part[k + 1]
      BY <1>4, <1>6, <2>1
    <3>2. part[k + 1] = Cardinality(Keyed(i + Offset, k))
      BY <1>1, <1>2 DEF Counted
    <3> QED
      BY <2>1, <3>1, <3>2 DEF k
  <2>2. CASE n # i
    <3>1. n < i
      BY <1>1, <2>2, Shift
    <3> QED
      BY <1>1, <1>4, <1>6, <2>2, <3>1 DEF Counted, Ranked
  <2> QED
    BY <2>1, <2>2
<1>10. index' \in [Local -> Int] /\ part' \in [0..(NumCells + 1) -> Int]
  <2>1. part[k + 1] \in Int /\ part[k + 1] + 1 \in Int
    BY <1>5, <1>6
  <2>2. /\ index' = [index EXCEPT ![i] = part[k + 1]]
        /\ part' = [part EXCEPT ![k + 1] = part[k + 1] + 1]
    BY <1>4
  <2> QED
    BY <1>6, <2>1, <2>2
<1>11. Permuting'
  BY <1>4 DEF Permuting
<1>12. CASE i = Length - 1 /\ pc' = "scan" /\ i' = 1
  <2>1. SortTypes'
    BY <1>1, <1>4, <1>10, <1>12, Sizes DEF SortTypes
  <2>2. (i + 1) + Offset = End /\ \A n \in Local : n < i + 1
    BY <1>12, Sizes DEF End, Local
  <2>3. \A c \in 0..(i' - 1) : c = 0
    BY <1>12
  <2>4. 0 \in 0..(NumCells + 1)
    BY Sizes
  <2>5. part'[0] = Cardinality(Below(0))
    BY <1>1, <1>7, <2>4, BelowNext
  <2>6. \A c \in (i' - 1)..NumCells : part'[c + 1] = Cardinality(Keyed(End, c))
    BY <1>8, <1>12, <2>2 DEF Key
  <2>7. \A n \in Local : Ranked(n)'
    BY <1>4, <1>9, <2>2, SameGoals DEF Ranked
  <2>8. Counted'
    BY <1>1, <1>4, <1>12, <2>3, <2>5, <2>6, <2>7, SameGoals DEF Counted
  <2> QED
    BY <1>11, <2>1, <2>8 DEF SortInv
<1>13. CASE i # Length - 1 /\ pc' = "count" /\ i' = i + 1
  <2>1. i' \in Local
    BY <1>1, <1>13, Sizes DEF Local
  <2>2. SortTypes'
    BY <1>1, <1>4, <1>10, <1>13, <2>1 DEF SortTypes, Local
  <2>3. \A n \in Local : n < i' => Ranked(n)'
    BY <1>4, <1>9, <1>13, SameGoals DEF Ranked
  <2>4. \A c \in Key : part'[c + 1] = Cardinality(Keyed(i' + Offset, c))
    BY <1>8, <1>13
  <2>5. Counted'
    BY <1>1, <1>4, <1>7, <1>13, <2>3, <2>4, SameGoals DEF Counted
  <2> QED
    BY <1>11, <2>2, <2>5 DEF SortInv
<1> QED
  BY <1>4, <1>12, <1>13

\* The scan adds the particles of one more key.
LEMMA ScanPass ==
  ASSUME SortInv, Scan
  PROVE  SortInv'
<1>1. /\ SortTypes /\ Counted /\ pc = "scan" /\ i \in 1..(NumCells + 1)
      /\ cell \in [Place -> Key] /\ part \in [0..(NumCells + 1) -> Int]
      /\ index \in [Local -> Int]
  BY DEF SortInv, SortTypes, Scan
<1>2. /\ part' = [part EXCEPT ![i] = part[i] + part[i - 1]]
      /\ UNCHANGED <<cell, ptc, index, j, tmp>>
      /\ \/ i = NumCells + 1 /\ pc' = "place" /\ i' = 0
         \/ i # NumCells + 1 /\ pc' = "scan" /\ i' = i + 1
  BY DEF Scan, Loop
<1>3. /\ i \in Int /\ i - 1 \in 0..NumCells /\ (i - 1) + 1 = i
      /\ i - 1 \in 0..(i - 1) /\ i - 1 \in (i - 1)..NumCells
      /\ i \in 0..(NumCells + 1) /\ i - 1 \in 0..(NumCells + 1)
  BY <1>1, Sizes
<1>4. part[i] = Cardinality(Keyed(End, i - 1)) /\ part[i - 1] = Cardinality(Below(i - 1))
  <2>1. part[(i - 1) + 1] = Cardinality(Keyed(End, i - 1))
    BY <1>1, <1>3 DEF Counted
  <2> QED
    BY <1>1, <1>3, <2>1 DEF Counted
<1>5. part[i] + part[i - 1] = Cardinality(Below(i)) /\ part[i] + part[i - 1] \in Int
  <2>1. /\ Cardinality(Below((i - 1) + 1)) =
             Cardinality(Keyed(End, i - 1)) + Cardinality(Below(i - 1))
        /\ Cardinality(Below(i - 1)) \in Nat /\ Cardinality(Keyed(End, i - 1)) \in Nat
    BY <1>1, <1>3, BelowNext
  <2> QED
    BY <1>3, <1>4, <2>1
<1>6. part' \in [0..(NumCells + 1) -> Int]
  BY <1>1, <1>2, <1>5
<1>7. \A k \in 0..i : part'[k] = Cardinality(Below(k))
  <2> TAKE k \in 0..i
  <2>1. k \in 0..(NumCells + 1) /\ (k = i \/ k \in 0..(i - 1))
    BY <1>1, Sizes
  <2>2. CASE k = i
    BY <1>1, <1>2, <1>3, <1>5, <2>2
  <2>3. CASE k \in 0..(i - 1)
    <3>1. k # i
      BY <1>1, <2>3
    <3>2. part'[k] = part[k]
      BY <1>1, <1>2, <2>1, <3>1
    <3> QED
      BY <1>1, <2>3, <3>2 DEF Counted
  <2> QED
    BY <2>1, <2>2, <2>3
<1>8. \A k \in i..NumCells : part'[k + 1] = Cardinality(Keyed(End, k))
  <2> TAKE k \in i..NumCells
  <2>1. /\ k + 1 \in 0..(NumCells + 1) /\ k + 1 # i /\ k \in (i - 1)..NumCells
    BY <1>1, Sizes
  <2>2. part'[k + 1] = part[k + 1]
    BY <1>1, <1>2, <2>1
  <2> QED
    BY <1>1, <2>1, <2>2 DEF Counted
<1>9. \A n \in Local : Ranked(n)'
  BY <1>1, <1>2, SameGoals DEF Counted, Ranked
<1>10. Permuting'
  BY <1>2 DEF Permuting
<1>11. CASE i = NumCells + 1 /\ pc' = "place" /\ i' = 0
  <2>1. 0 \in Local /\ 0 \in Nat /\ \A n \in Local : ~(n < 0) /\ n >= 0
    BY Sizes DEF Local
  <2>2. SortTypes'
    BY <1>1, <1>2, <1>6, <1>11, <2>1 DEF SortTypes
  <2>3. Counted'
    BY <1>1, <1>2, <1>7, <1>9, <1>11, <2>1, SameGoals DEF Counted
  <2> QED
    BY <1>10, <2>2, <2>3 DEF SortInv
<1>12. CASE i # NumCells + 1 /\ pc' = "scan" /\ i' = i + 1
  <2>1. i + 1 \in 1..(NumCells + 1) /\ i + 1 \in Nat /\ (i + 1) - 1 = i
    BY <1>1, <1>12, Sizes
  <2>2. SortTypes'
    BY <1>1, <1>2, <1>6, <1>12, <2>1 DEF SortTypes
  <2>3. Counted'
    BY <1>1, <1>2, <1>7, <1>8, <1>9, <1>12, <2>1, SameGoals DEF Counted
  <2> QED
    BY <1>10, <2>2, <2>3 DEF SortInv
<1> QED
  BY <1>2, <1>11, <1>12

\* The third pass turns one more entry of the index into a goal.
LEMMA PlacePass ==
  ASSUME SortInv, PlaceIndex
  PROVE  SortInv'
<1> DEFINE k == cell[i + Offset]
<1>1. /\ SortTypes /\ Counted /\ pc = "place" /\ i \in Local
      /\ cell \in [Place -> Key] /\ part \in [0..(NumCells + 1) -> Int]
      /\ index \in [Local -> Int]
  BY DEF SortInv, SortTypes, PlaceIndex
<1>2. /\ ptc = [p \in Place |-> p] /\ i + Offset \in Place /\ k \in Key
      /\ i \in Int /\ i >= 0 /\ i <= Length - 1
  BY <1>1, Shift, Sizes DEF Counted, Local
<1>3. KeyAt(i) = k
  BY <1>2 DEF KeyAt
<1>4. /\ index' = [index EXCEPT ![i] = index[i] + part[k] + Offset]
      /\ UNCHANGED <<cell, ptc, part, j, tmp>>
      /\ \/ i = Length - 1 /\ pc' = "cycles" /\ i' = 0
         \/ i # Length - 1 /\ pc' = "place" /\ i' = i + 1
  BY <1>1, <1>3 DEF PlaceIndex, Loop
<1>5. index[i] + part[k] + Offset = Goal(i + Offset) /\ Goal(i + Offset) \in Int
  <2>1. /\ index[i] = Cardinality(Keyed(i + Offset, k))
    <3>1. i >= i
      BY <1>2
    <3> QED
      BY <1>1, <3>1 DEF Counted, Ranked
  <2>2. part[k] = Cardinality(Below(k))
    <3>1. k \in 0..(NumCells + 1)
      BY <1>2, Sizes DEF Key
    <3> QED
      BY <1>1, <3>1 DEF Counted
  <2>3. /\ Goal(i + Offset) = Cardinality(Keyed(i + Offset, k)) + Cardinality(Below(k))
                              + Offset
        /\ Cardinality(Keyed(i + Offset, k)) \in Nat
        /\ Cardinality(Below(k)) \in Nat
    BY <1>1, <1>2, GoalSum
  <2> QED
    BY <2>1, <2>2, <2>3, Sizes
<1> HIDE DEF k
<1>6. /\ index' \in [Local -> Int] /\ index'[i] = Goal(i + Offset)
      /\ \A n \in Local : n # i => index'[n] = index[n]
  BY <1>1, <1>4, <1>5
<1>7. \A n \in Local : n < i + 1 => index'[n] = Goal(n + Offset)
  <2> TAKE n \in Local
  <2>1. n < i + 1 => n = i \/ (n < i /\ n # i)
    BY <1>2, Shift
  <2> QED
    BY <1>1, <1>6, <2>1 DEF Counted
<1>8. \A n \in Local : n >= i + 1 => Ranked(n)'
  <2> TAKE n \in Local
  <2>1. n >= i + 1 => n # i /\ n >= i
    BY <1>2, Shift
  <2> QED
    BY <1>1, <1>4, <1>6, <2>1, SameGoals DEF Counted, Ranked
<1>9. CASE i = Length - 1 /\ pc' = "cycles" /\ i' = 0
  <2>1. 0 \in Local /\ 0 \in Nat /\ \A n \in Local : n < i + 1
    BY <1>9, Sizes DEF Local
  <2>2. SortTypes'
    BY <1>1, <1>4, <1>6, <1>9, <2>1 DEF SortTypes
  <2>3. Counted'
    BY <1>1, <1>4, <1>9, SameGoals DEF Counted
  <2>4. \A p \in Place : index'[p - Offset] = Goal(p) /\ Goal(p) # DoneMark
    <3> TAKE p \in Place
    <3>1. Goal(p) >= 0 /\ Goal(p) \in Int
      BY <1>1, GoalPlace, Sizes DEF Place
    <3> QED
      BY <1>7, <2>1, <3>1, Shift DEF DoneMark
  <2>5. Settled' = {} /\ InHand' = {} /\ Gap' = {}
    BY <1>9, <2>4 DEF Settled, InHand, Gap
  <2>6. \A p \in Place : ~(p < 0 + Offset)
    BY Shift, Sizes
  <2>7. Permuting'
    BY <1>2, <1>4, <1>9, <2>4, <2>5, <2>6, SameGoals DEF Permuting
  <2> QED
    BY <2>2, <2>3, <2>7 DEF SortInv
<1>10. CASE i # Length - 1 /\ pc' = "place" /\ i' = i + 1
  <2>1. i + 1 \in Local /\ i + 1 \in Nat
    BY <1>2, <1>10, Sizes DEF Local
  <2>2. SortTypes'
    BY <1>1, <1>4, <1>6, <1>10, <2>1 DEF SortTypes
  <2>3. Counted'
    BY <1>1, <1>4, <1>7, <1>8, <1>10, <2>1, SameGoals DEF Counted
  <2>4. Permuting'
    BY <1>10 DEF Permuting
  <2> QED
    BY <2>2, <2>3, <2>4 DEF SortInv
<1> QED
  BY <1>4, <1>9, <1>10

-----------------------------------------------------------------------------
(* The permutation *)

\* A goal is never mistaken for the mark.
LEMMA GoalNoMark ==
  ASSUME cell \in [Place -> Key], NEW p \in Place
  PROVE  Goal(p) # DoneMark /\ Goal(p) \in Int /\ Goal(p) \in Place
  BY GoalPlace, Sizes DEF Place, DoneMark

\* A walk starts at a particle that is not settled; otherwise the outer loop
\* goes on.
LEMMA StartPass ==
  ASSUME SortInv, StartCycle
  PROVE  SortInv'
<1>1. /\ SortTypes /\ Counted /\ Permuting /\ pc = "cycles" /\ i \in Local
      /\ cell \in [Place -> Key] /\ i \in Int
      /\ UNCHANGED <<cell, ptc, index, part>>
  BY Shift DEF SortInv, SortTypes, StartCycle
<1>2. i + Offset \in Place /\ (i + Offset) - Offset = i /\ i >= 0 /\ i <= Length - 1
  BY <1>1, Shift DEF Local
<1>3. Settled' = Settled /\ InHand = {} /\ Gap = {}
  BY <1>1 DEF Settled, InHand, Gap
<1>4. CASE index[i] # DoneMark
  <2>1. /\ tmp' = ptc[i + Offset] /\ j' = i /\ pc' = "walk" /\ i' = i
    BY <1>4 DEF StartCycle
  <2>2. i + Offset \notin Settled
    BY <1>2, <1>4 DEF Settled
  <2>3. ptc[i + Offset] = i + Offset
    BY <1>1, <1>2, <1>3, <2>2 DEF Permuting
  <2>4. SortTypes'
    BY <1>1, <1>2, <2>1, <2>3 DEF SortTypes
  <2>5. Counted'
    BY <1>1, <2>1, SameGoals DEF Counted
  <2>6. InHand' = {i + Offset} /\ Gap' = {i + Offset}
    BY <2>1 DEF InHand, Gap
  <2>7. Permuting'
    BY <1>1, <1>3, <2>1, <2>2, <2>3, <2>6, SameGoals DEF Permuting
  <2> QED
    BY <2>4, <2>5, <2>7 DEF SortInv
<1>5. CASE index[i] = DoneMark
  <2>1. /\ UNCHANGED <<tmp, j>>
        /\ \/ i = Length - 1 /\ pc' = "done" /\ i' = 0
           \/ i # Length - 1 /\ pc' = "cycles" /\ i' = i + 1
    BY <1>5 DEF StartCycle, Loop
  <2>2. \A p \in Place : p < (i + 1) + Offset => p \in Settled
    <3> TAKE p \in Place
    <3>1. p < (i + 1) + Offset => p = i + Offset \/ p < i + Offset
      BY <1>1, Shift, Sizes
    <3>2. i + Offset \in Settled
      BY <1>2, <1>5 DEF Settled
    <3> QED
      BY <1>1, <3>1, <3>2 DEF Permuting
  <2>3. InHand' = {} /\ Gap' = {}
    BY <2>1 DEF InHand, Gap
  <2>4. Counted'
    BY <1>1, <2>1, SameGoals DEF Counted
  <2>5. CASE i = Length - 1 /\ pc' = "done" /\ i' = 0
    <3>1. SortTypes'
      BY <1>1, <2>1, <2>5 DEF SortTypes
    <3>2. \A p \in Place : p < (i + 1) + Offset
      BY <2>5, Shift, Sizes DEF End
    <3>3. Settled' = Place
      BY <1>3, <2>2, <3>2 DEF Settled
    <3>4. Permuting'
      BY <1>1, <1>3, <2>3, <2>5, <3>3, SameGoals DEF Permuting
    <3> QED
      BY <2>4, <3>1, <3>4 DEF SortInv
  <2>6. CASE i # Length - 1 /\ pc' = "cycles" /\ i' = i + 1
    <3>1. i + 1 \in Local /\ i + 1 \in Nat
      BY <1>2, <2>6, Sizes, <1>1 DEF Local
    <3>2. SortTypes'
      BY <1>1, <2>1, <2>6, <3>1 DEF SortTypes
    <3>3. Permuting'
      BY <1>1, <1>3, <2>2, <2>3, <2>6, SameGoals DEF Permuting
    <3> QED
      BY <2>4, <3>2, <3>3 DEF SortInv
  <2> QED
    BY <2>1, <2>5, <2>6
<1> QED
  BY <1>4, <1>5

\* A swap puts the particle in hand at its goal and takes the one from there.
LEMMA SwapPass ==
  ASSUME SortInv, Swap
  PROVE  SortInv'
<1> DEFINE p == j + Offset
           g == Goal(p)
<1>1. /\ SortTypes /\ Counted /\ Permuting /\ pc = "walk" /\ i \in Local /\ j \in Local
      /\ cell \in [Place -> Key] /\ ptc \in [Place -> Place]
      /\ index \in [Local -> Int] /\ UNCHANGED <<cell, part, pc, i>>
  BY DEF SortInv, SortTypes, Swap
<1>2. p \in Place /\ p - Offset = j /\ i + Offset \in Place
  BY <1>1, Shift
<1>3. InHand = {p} /\ Gap = {i + Offset} /\ p \notin Settled /\ tmp = p
  BY <1>1 DEF InHand, Gap, Permuting
<1>4. index[j] = g /\ g \in Place /\ g # DoneMark
  BY <1>1, <1>2, <1>3, GoalNoMark DEF Permuting
<1>5. /\ g # i + Offset /\ ptc' = [ptc EXCEPT ![g] = p] /\ tmp' = ptc[g]
      /\ index' = [index EXCEPT ![j] = DoneMark] /\ j' = g - Offset
  BY <1>3, <1>4 DEF Swap, Displaced, NextInCycle
<1>6. j' \in Local /\ j' + Offset = g
  BY <1>4, <1>5, Shift
<1> HIDE DEF p, g
<1>7. Settled' = Settled \cup {p}
  <2>1. DoneMark \in Int
    BY DEF DoneMark
  <2>2. \A q \in Place : q - Offset \in Local /\ (q - Offset = j <=> q = p)
    BY <1>1, <1>2, Shift
  <2>3. \A q \in Place : index'[q - Offset] = DoneMark
                           <=> q = p \/ index[q - Offset] = DoneMark
    BY <1>1, <1>5, <2>1, <2>2
  <2> QED
    BY <1>2, <2>3 DEF Settled
<1>8. InHand' = {g} /\ Gap' = {i + Offset}
  BY <1>1, <1>6 DEF InHand, Gap
<1>9. g \notin Settled /\ g # p
  <2>1. \A q \in Settled : Goal(q) # g
    BY <1>1, <1>2, <1>3, GoalsDiffer DEF g, Settled
  <2> QED
    BY <1>1, <1>3, <1>5, <2>1 DEF Permuting
<1>10. ptc[g] = g
  BY <1>1, <1>3, <1>4, <1>9 DEF Permuting
<1>11. /\ ptc' \in [Place -> Place] /\ ptc'[g] = p
       /\ \A q \in Place : q # g => ptc'[q] = ptc[q]
  BY <1>1, <1>2, <1>4, <1>5
<1>12. SortTypes'
  <2>1. index' \in [Local -> Int]
    BY <1>1, <1>5 DEF DoneMark
  <2> QED
    BY <1>1, <1>4, <1>5, <1>6, <1>10, <1>11, <2>1 DEF SortTypes
<1>13. Counted'
  BY <1>1, SameGoals DEF Counted
<1>14. \A q \in Place : q \notin Settled' => index'[q - Offset] = Goal(q)
  <2> TAKE q \in Place
  <2> HAVE q \notin Settled'
  <2>1. q \notin Settled /\ q # p
    BY <1>7
  <2>2. q - Offset \in Local /\ q - Offset # j
    BY <1>1, <1>2, <2>1, Shift
  <2>3. index'[q - Offset] = index[q - Offset]
    BY <1>1, <1>5, <2>2
  <2> QED
    BY <1>1, <2>1, <2>3 DEF Permuting
<1>15. \A q \in Settled' : ptc'[Goal(q)] = q
  <2> TAKE q \in Settled'
  <2>1. CASE q = p
    BY <1>11, <2>1 DEF g
  <2>2. CASE q # p
    <3>1. q \in Settled /\ q \in Place
      BY <1>7, <2>2 DEF Settled
    <3>2. Goal(q) # g /\ Goal(q) \in Place
      BY <1>1, <1>2, <2>2, <3>1, GoalsDiffer, GoalPlace DEF g
    <3> QED
      BY <1>1, <1>11, <3>1, <3>2 DEF Permuting
  <2> QED
    BY <2>1, <2>2
<1>16. \A q \in Place : q \notin Settled' /\ q \notin InHand' => ptc'[q] = q
  BY <1>1, <1>3, <1>7, <1>8, <1>11 DEF Permuting
<1>17. \A q \in Settled' : Goal(q) \in Settled' \cup InHand' /\ Goal(q) \notin Gap'
  BY <1>1, <1>3, <1>5, <1>7, <1>8 DEF Permuting, g
<1>18. \A q \in Settled' \cup InHand' : q \in Gap' \/ \E x \in Settled' : Goal(x) = q
  BY <1>1, <1>3, <1>7, <1>8 DEF Permuting, g
<1>19. \A q \in InHand' : q \notin Settled' /\ tmp' = q
  BY <1>5, <1>7, <1>8, <1>9, <1>10
<1>20. \A q \in Place : q < i + Offset => q \in Settled'
  BY <1>1, <1>7 DEF Permuting
<1>21. Gap' \subseteq Settled' \cup InHand'
  BY <1>1, <1>3, <1>7, <1>8 DEF Permuting
<1>22. Permuting'
  BY <1>1, <1>14, <1>15, <1>16, <1>17, <1>18, <1>19, <1>20, <1>21, SameGoals
     DEF Permuting
<1> QED
  BY <1>12, <1>13, <1>22 DEF SortInv

\* The last particle of a cycle goes to the gap.
LEMMA ClosePass ==
  ASSUME SortInv, CloseCycle
  PROVE  SortInv'
<1> DEFINE p == j + Offset
           g == i + Offset
<1>1. /\ SortTypes /\ Counted /\ Permuting /\ pc = "walk" /\ i \in Local /\ j \in Local
      /\ cell \in [Place -> Key] /\ ptc \in [Place -> Place]
      /\ index \in [Local -> Int] /\ UNCHANGED <<cell, part, j, tmp>>
  BY DEF SortInv, SortTypes, CloseCycle
<1>2. /\ p \in Place /\ p - Offset = j /\ g \in Place
      /\ i \in Int /\ i >= 0 /\ i <= Length - 1
  BY <1>1, Shift DEF Local
<1>3. InHand = {p} /\ Gap = {g} /\ p \notin Settled /\ tmp = p
  BY <1>1 DEF InHand, Gap, Permuting
<1>4. index[j] = Goal(p) /\ Goal(p) = g
  BY <1>1, <1>2, <1>3 DEF Permuting, CloseCycle
<1>5. /\ ptc' = [ptc EXCEPT ![g] = p]
      /\ index' = [index EXCEPT ![j] = DoneMark]
      /\ \/ i = Length - 1 /\ pc' = "done" /\ i' = 0
         \/ i # Length - 1 /\ pc' = "cycles" /\ i' = i + 1
  BY <1>3 DEF CloseCycle
<1>6. \A q \in Place : q < (i + 1) + Offset => q = g \/ q < i + Offset
  <2>1. \A q \in Place : q \in Int
    BY Shift
  <2>2. i \in Int /\ Offset \in Int
    BY <1>2, Sizes
  <2> QED
    BY <2>1, <2>2
<1> HIDE DEF p, g
<1>7. Settled' = Settled \cup {p}
  <2>1. DoneMark \in Int
    BY DEF DoneMark
  <2>2. \A q \in Place : q - Offset \in Local /\ (q - Offset = j <=> q = p)
    BY <1>1, <1>2, Shift
  <2>3. \A q \in Place : index'[q - Offset] = DoneMark
                           <=> q = p \/ index[q - Offset] = DoneMark
    BY <1>1, <1>5, <2>1, <2>2
  <2> QED
    BY <1>2, <2>3 DEF Settled
<1>8. InHand' = {} /\ Gap' = {}
  BY <1>5 DEF InHand, Gap
<1>9. /\ ptc' \in [Place -> Place] /\ ptc'[g] = p
      /\ \A q \in Place : q # g => ptc'[q] = ptc[q]
  BY <1>1, <1>2, <1>5
<1>10. index' \in [Local -> Int]
  BY <1>1, <1>5 DEF DoneMark
<1>11. Counted'
  BY <1>1, <1>5, SameGoals DEF Counted
<1>12. \A q \in Place : q \notin Settled' => index'[q - Offset] = Goal(q)
  <2> TAKE q \in Place
  <2> HAVE q \notin Settled'
  <2>1. q \notin Settled /\ q # p
    BY <1>7
  <2>2. q - Offset \in Local /\ q - Offset # j
    BY <1>1, <1>2, <2>1, Shift
  <2>3. index'[q - Offset] = index[q - Offset]
    BY <1>1, <1>5, <2>2
  <2> QED
    BY <1>1, <2>1, <2>3 DEF Permuting
<1>13. \A q \in Settled' : ptc'[Goal(q)] = q
  <2> TAKE q \in Settled'
  <2>1. CASE q = p
    BY <1>4, <1>9, <2>1
  <2>2. CASE q # p
    <3>1. q \in Settled /\ q \in Place
      BY <1>7, <2>2 DEF Settled
    <3>2. Goal(q) # g /\ Goal(q) \in Place
      BY <1>1, <1>2, <1>4, <2>2, <3>1, GoalsDiffer, GoalPlace
    <3> QED
      BY <1>1, <1>9, <3>1, <3>2 DEF Permuting
  <2> QED
    BY <2>1, <2>2
<1>14. g \in Settled'
  BY <1>1, <1>3, <1>7 DEF Permuting
<1>15. \A q \in Place : q \notin Settled' => ptc'[q] = q
  BY <1>1, <1>3, <1>7, <1>9, <1>14 DEF Permuting
<1>16. \A q \in Settled' : Goal(q) \in Settled'
  BY <1>1, <1>3, <1>4, <1>7, <1>14 DEF Permuting
<1>17. \A q \in Settled' : \E x \in Settled' : Goal(x) = q
  BY <1>1, <1>3, <1>4, <1>7 DEF Permuting
<1>18. \A q \in Place : q < (i + 1) + Offset => q \in Settled'
  BY <1>1, <1>6, <1>7, <1>14 DEF Permuting
<1>19. CASE i = Length - 1 /\ pc' = "done" /\ i' = 0
  <2>1. SortTypes'
    BY <1>1, <1>9, <1>10, <1>19 DEF SortTypes
  <2>2. \A q \in Place : q < (i + 1) + Offset
    BY <1>19, Shift, Sizes DEF End
  <2>3. Settled' = Place
    BY <1>18, <2>2 DEF Settled
  <2>4. Permuting'
    BY <1>8, <1>12, <1>13, <1>15, <1>16, <1>17, <1>19, <2>3, SameGoals, <1>1
       DEF Permuting
  <2> QED
    BY <1>11, <2>1, <2>4 DEF SortInv
<1>20. CASE i # Length - 1 /\ pc' = "cycles" /\ i' = i + 1
  <2>1. i + 1 \in Local /\ i + 1 \in Nat
    BY <1>2, <1>20, Sizes DEF Local
  <2>2. SortTypes'
    BY <1>1, <1>9, <1>10, <1>20, <2>1 DEF SortTypes
  <2>3. Permuting'
    BY <1>8, <1>12, <1>13, <1>15, <1>16, <1>17, <1>18, <1>20, SameGoals, <1>1
       DEF Permuting
  <2> QED
    BY <1>11, <2>2, <2>3 DEF SortInv
<1> QED
  BY <1>5, <1>19, <1>20

\* Every step of the sort keeps the invariant.
LEMMA SortNext == SortInv /\ [Next]_vars => SortInv'
<1> SUFFICES ASSUME SortInv, [Next]_vars PROVE SortInv'
  OBVIOUS
<1>1. CASE UNCHANGED vars
  <2>1. UNCHANGED <<cell, ptc, index, part, pc, i, j, tmp>>
    BY <1>1 DEF vars
  <2>2. SortTypes' /\ Counted'
    BY <2>1, SameGoals DEF SortInv, SortTypes, Counted, Ranked
  <2>3. Settled' = Settled /\ InHand' = InHand /\ Gap' = Gap
    BY <2>1 DEF Settled, InHand, Gap
  <2>4. Permuting'
    BY <2>1, <2>3, SameGoals DEF SortInv, Permuting
  <2> QED
    BY <2>2, <2>4 DEF SortInv
<1> QED
  BY <1>1, CountPass, ScanPass, PlacePass, StartPass, SwapPass, ClosePass
     DEF Next, Stop

-----------------------------------------------------------------------------
(* Theorems *)

\* During the in-place permutation every particle is in the array or in hand,
\* however its cycles lie (ptc_rearrange_arrays).
THEOREM NeverOverwritten == Spec => []NothingOverwritten
<1>1. ASSUME SortInv PROVE NothingOverwritten
  <2>1. /\ cell \in [Place -> Key] /\ ptc \in [Place -> Place] /\ tmp \in Place
    BY <1>1 DEF SortInv, SortTypes
  <2>2. ASSUME NEW p \in Place PROVE p = tmp \/ \E n \in Place : ptc[n] = p
    <3>1. CASE pc \in {"count", "scan", "place"}
      BY <1>1, <3>1 DEF SortInv, Counted
    <3>2. CASE pc \in {"cycles", "walk", "done"}
      BY <1>1, <2>1, <3>2, GoalPlace DEF SortInv, Permuting, Settled
    <3> QED
      BY <1>1, <3>1, <3>2 DEF SortInv, SortTypes
  <2> QED
    BY <2>1, <2>2 DEF NothingOverwritten
<1> QED
  BY <1>1, SortInit, SortNext, PTL DEF Spec

\* Histogram, scan, index and permutation together give the stable sort by cell
\* with the dead particles last (ptc_sort_by_cell).
THEOREM SortsByCell == Spec => []SortedByCell
<1>1. ASSUME SortInv PROVE SortedByCell
  <2> SUFFICES ASSUME pc = "done"
               PROVE  /\ {ptc[n] : n \in Place} = Place
                      /\ \A m, n \in Place : m < n =>
                           \/ cell[ptc[m]] < cell[ptc[n]]
                           \/ cell[ptc[m]] = cell[ptc[n]] /\ ptc[m] < ptc[n]
    BY DEF SortedByCell
  <2>1. /\ cell \in [Place -> Key] /\ ptc \in [Place -> Place]
        /\ Settled = Place /\ InHand = {} /\ Gap = {}
    BY <1>1 DEF SortInv, SortTypes, Permuting, InHand, Gap
  <2>2. \A p \in Place : Goal(p) \in Place /\ ptc[Goal(p)] = p
    BY <1>1, <2>1, GoalPlace DEF SortInv, Permuting
  <2>3. \A n \in Place : \E p \in Place : Goal(p) = n
    BY <1>1, <2>1 DEF SortInv, Permuting
  <2>4. ASSUME NEW m \in Place, NEW n \in Place, m < n
        PROVE  \/ cell[ptc[m]] < cell[ptc[n]]
               \/ cell[ptc[m]] = cell[ptc[n]] /\ ptc[m] < ptc[n]
    <3>1. PICK p \in Place, q \in Place : Goal(p) = m /\ Goal(q) = n
      BY <2>3
    <3>2. ptc[m] = p /\ ptc[n] = q /\ p # q
      BY <2>2, <2>4, <3>1, Shift
    <3>3. q \notin Before(p)
      <4> SUFFICES ASSUME q \in Before(p) PROVE FALSE
        OBVIOUS
      <4>1. n < m
        BY <2>1, <3>1, GoalOrder
      <4> QED
        BY <2>4, <4>1, Shift
    <3>4. cell[p] \in Int /\ cell[q] \in Int /\ p \in Int /\ q \in Int
      BY <2>1, Sizes, Shift DEF Key
    <3> QED
      BY <3>2, <3>3, <3>4 DEF Before
  <2> QED
    BY <2>1, <2>2, <2>4
<1> QED
  BY <1>1, SortInit, SortNext, PTL DEF Spec

\* What segment_nums is set to is the number of live particles of the segment.
THEOREM CountsTheLive == Spec => []LiveCount
<1>1. ASSUME SortInv PROVE LiveCount
  <2>1. cell \in [Place -> Key] /\ NumCells \in 0..(NumCells + 1)
    BY <1>1, Sizes DEF SortInv, SortTypes
  <2>2. Below(NumCells) = {n \in Place : cell[n] # NumCells}
    <3>1. \A n \in Place : cell[n] < NumCells <=> cell[n] # NumCells
      BY <2>1, Sizes DEF Key
    <3> QED
      BY <3>1 DEF Below
  <2> QED
    BY <1>1, <2>1, <2>2 DEF SortInv, Counted, LiveCount
<1> QED
  BY <1>1, SortInit, SortNext, PTL DEF Spec
=============================================================================
