------------------------ MODULE ParticleArray_proofs ------------------------
(***************************************************************************)
(* Proofs about the particle array of a rank, for every allocation,        *)
(* segment size, number of cells and history: live particles stay below    *)
(* number() and are there once, and the sort keeps them all and leaves no  *)
(* hole.                                                                   *)
(***************************************************************************)
EXTENDS ParticleArray, FiniteSetTheorems, TLAPS

\* Where segment n starts, and its slots.
Base(n) == n * Segment
Block(n) == {i \in Slots : Base(n) <= i /\ i < Base(n) + Segment}

\* Segment n has its live particles in front, nums[n] of them.
Packed(n) ==
  /\ nums[n] \in Nat /\ nums[n] <= Segment /\ Base(n) + nums[n] <= number
  /\ \A i \in Block(n) : IsLive(slot[i]) <=> i < Base(n) + nums[n]

SlotTypes ==
  /\ slot \in [Slots -> [id : Nat, cell : 0..NumCells]]
  /\ number \in 0..Size
  /\ ptc_id \in Nat
  /\ pc \in {"idle", "segments", "defrag", "sorted"}
  /\ seg \in Nat /\ last \in Nat
  /\ nums \in [Segments -> Nat]

\* The invariant.  Ids of particles that exist are not given again; the sort
\* leaves packed segments behind, then full ones.
ArrayInv ==
  /\ SlotTypes
  /\ NoneBeyondNumber /\ NoTwins
  /\ \A i \in LiveSlots : slot[i].id <= ptc_id
  /\ pc = "segments" =>
       /\ seg <= LastUsed
       /\ \A n \in Nat : n < seg => Packed(n)
  /\ pc = "defrag" =>
       /\ seg <= last /\ last <= LastUsed
       /\ \A n \in Nat : n <= last => Packed(n)
       /\ \A n \in Nat : n < seg => nums[n] = Segment
       /\ \A i \in LiveSlots : i < Base(last) + Segment
  /\ pc = "sorted" => LiveSlots = 0..(number - 1)

-----------------------------------------------------------------------------
(* Segments *)

\* Constants.
LEMMA Sizes ==
  /\ Size \in Nat \ {0} /\ Segment \in Nat \ {0} /\ NumCells \in Nat \ {0}
  /\ \A i : i \in Slots <=> i \in Nat /\ i < Size
<1>1. Size \in Nat \ {0} /\ Segment \in Nat \ {0} /\ NumCells \in Nat \ {0}
  BY ArrayAssumption
<1> QED
  BY <1>1 DEF Slots

\* Segments follow each other.
LEMMA BaseFacts ==
  /\ \A n \in Nat : Base(n) \in Nat
  /\ \A n \in Nat : Base(n + 1) = Base(n) + Segment
  /\ Base(0) = 0
<1>1. Segment \in Nat
  BY Sizes
<1> QED
  BY <1>1 DEF Base

\* Segments do not overlap.
LEMMA BaseOrder ==
  ASSUME NEW n \in Nat, NEW m \in Nat, n < m
  PROVE  Base(n) + Segment <= Base(m) /\ Base(n) \in Nat /\ Base(m) \in Nat
<1>1. PICK k \in Nat : m = n + 1 + k
  <2>1. m - n - 1 \in Nat /\ m = n + 1 + (m - n - 1)
    OBVIOUS
  <2> QED
    BY <2>1
<1>2. Segment \in Nat /\ k * Segment \in Nat /\ n * Segment \in Nat
  BY Sizes
<1>3. m * Segment = n * Segment + Segment + k * Segment
  BY <1>1, Sizes
<1> QED
  BY <1>2, <1>3 DEF Base

\* Quotient and rest.
LEMMA Division ==
  ASSUME NEW f \in Nat \ {0}, NEW s \in Nat
  PROVE  \E q \in Nat, m \in Nat : q = s \div f /\ m < f /\ s = q * f + m
<1> DEFINE q == s \div f
           m == s % f
<1>1. q \in Nat /\ m \in Nat /\ m < f
  BY SMT
<1>2. s = f * q + m
  BY SMT
<1>3. q = s \div f
  OBVIOUS
<1> HIDE DEF q, m
<1>4. s = q * f + m
  BY <1>1, <1>2
<1> QED
  BY <1>1, <1>3, <1>4

\* Each number is in one segment.
LEMMA BlockOf ==
  ASSUME NEW i \in Nat
  PROVE  /\ i \div Segment \in Nat
         /\ Base(i \div Segment) <= i /\ i < Base(i \div Segment) + Segment
         /\ \A n \in Nat : Base(n) <= i /\ i < Base(n) + Segment => n = i \div Segment
         /\ \A n \in Nat : Base(n) <= i => n <= i \div Segment
<1> DEFINE d == i \div Segment
<1>1. PICK m \in Nat : d \in Nat /\ m < Segment /\ i = d * Segment + m
  BY Sizes, Division
<1> HIDE DEF d
<1>2. Base(d) <= i /\ i < Base(d) + Segment /\ Base(d) \in Nat /\ Segment \in Nat
  <2>1. Base(d) \in Nat /\ Segment \in Nat /\ i = Base(d) + m
    BY <1>1, Sizes, BaseFacts DEF Base
  <2> QED
    BY <1>1, <2>1
<1>3. ASSUME NEW n \in Nat, Base(n) <= i PROVE n <= d
  <2> SUFFICES ASSUME d < n PROVE FALSE
    BY <1>1
  <2> QED
    BY <1>1, <1>2, <1>3, BaseOrder
<1>4. ASSUME NEW n \in Nat, Base(n) <= i, i < Base(n) + Segment PROVE n = d
  <2>1. n <= d
    BY <1>3, <1>4
  <2>2. CASE n < d
    BY <1>1, <1>2, <1>4, <2>2, BaseOrder
  <2> QED
    BY <1>1, <2>1, <2>2
<1> QED
  BY <1>1, <1>2, <1>3, <1>4 DEF d

\* Each slot is in one segment.
LEMMA SlotBlock ==
  ASSUME NEW i \in Slots
  PROVE  \E n \in Nat : i \in Block(n) /\ \A m \in Nat : i \in Block(m) => m = n
  BY BlockOf, Sizes DEF Block

\* The last segment in use.
LEMMA LastFacts ==
  ASSUME number \in 0..Size
  PROVE  /\ LastUsed \in Nat /\ Base(LastUsed) <= number
         /\ number < Base(LastUsed) + Segment
         /\ \A n \in Nat : n <= LastUsed => n \in Segments /\ Base(n) <= number
<1>1. number \in Nat /\ Size \in Nat /\ number <= Size /\ Segment \in Nat
  BY Sizes
<1>2. /\ LastUsed \in Nat /\ Base(LastUsed) <= number
      /\ number < Base(LastUsed) + Segment /\ Base(LastUsed) \in Nat
  BY <1>1, BlockOf, BaseFacts DEF LastUsed
<1>3. LastUsed <= Size \div Segment /\ Size \div Segment \in Nat
  <2>1. Base(LastUsed) <= Size
    BY <1>1, <1>2
  <2> QED
    BY <1>1, <1>2, <2>1, BlockOf
<1>4. ASSUME NEW n \in Nat, n <= LastUsed PROVE n \in Segments /\ Base(n) <= number
  <2>1. n \in Segments
    BY <1>2, <1>3, <1>4 DEF Segments
  <2>2. CASE n = LastUsed
    BY <1>2, <2>1, <2>2
  <2>3. CASE n < LastUsed
    BY <1>1, <1>2, <2>1, <2>3, BaseOrder
  <2> QED
    BY <1>2, <1>4, <2>2, <2>3
<1> QED
  BY <1>2, <1>4

\* Base instead of products.
LEMMA InBases ==
  /\ \A n \in Nat : Part(n) = Base(n)..(Min2(Base(n) + Segment, number) - 1)
  /\ OffsetFrom = Base(last) + nums[last] - NumToCopy
  /\ OffsetTo = Base(seg) + nums[seg]
  /\ TotalNum = Base(last) + nums[last]
<1>1. \A n \in Nat : (n + 1) * Segment = n * Segment + Segment
  BY BaseFacts DEF Base
<1> QED
  BY <1>1 DEF Base, Part, OffsetFrom, OffsetTo, TotalNum

-----------------------------------------------------------------------------
(* The sort of a segment *)

\* Two disjoint sets.
LEMMA Disjoint ==
  ASSUME NEW S, IsFiniteSet(S), NEW T, IsFiniteSet(T), S \cap T = {}
  PROVE  /\ Cardinality(S \cup T) = Cardinality(S) + Cardinality(T)
         /\ Cardinality(S) \in Nat /\ Cardinality(T) \in Nat
<1>1. Cardinality(S) \in Nat /\ Cardinality(T) \in Nat
  BY FS_CardinalityType
<1>2. Cardinality(S \cup T) = Cardinality(S) + Cardinality(T) - Cardinality({})
  BY <1>1, FS_Union
<1> QED
  BY <1>1, <1>2, FS_EmptySet

\* A proper subset has fewer elements.
LEMMA Fewer ==
  ASSUME NEW P, IsFiniteSet(P), NEW S \in SUBSET P, NEW T \in SUBSET S,
         NEW x \in S, x \notin T
  PROVE  /\ Cardinality(T) < Cardinality(S)
         /\ Cardinality(T) \in Nat /\ Cardinality(S) \in Nat
<1>1. /\ IsFiniteSet(S) /\ Cardinality(S) \in Nat /\ Cardinality(T) \in Nat
  BY FS_Subset, FS_CardinalityType
<1>2. /\ Cardinality(T) <= Cardinality(S)
      /\ Cardinality(S) = Cardinality(T) => S = T
  BY <1>1, FS_Subset
<1> QED
  BY <1>1, <1>2

\* The slots of a segment that are in use, and how many they are.
LEMMA PartFacts ==
  ASSUME SlotTypes, NEW n \in Nat, n <= LastUsed
  PROVE  /\ Part(n) \subseteq Block(n) /\ IsFiniteSet(Part(n))
         /\ \A i : i \in Part(n) <=> i \in Block(n) /\ i < number
         /\ Part(n) = Base(n)..(Base(n) + Cardinality(Part(n)) - 1)
         /\ Cardinality(Part(n)) \in Nat /\ Cardinality(Part(n)) <= Segment
         /\ Base(n) + Cardinality(Part(n)) <= number
<1> DEFINE e == Min2(Base(n) + Segment, number)
<1>1. /\ Base(n) \in Nat /\ Segment \in Nat /\ number \in Nat /\ number <= Size
      /\ Size \in Nat /\ Base(n) <= number
  BY Sizes, BaseFacts, LastFacts DEF SlotTypes
<1>2. /\ e \in Nat /\ Base(n) <= e /\ e <= number /\ e <= Base(n) + Segment
      /\ e = number \/ e = Base(n) + Segment
  BY <1>1 DEF Min2
<1>3. Part(n) = Base(n)..(e - 1)
  BY InBases
<1> HIDE DEF e
<1>4. IsFiniteSet(Base(n)..(e - 1)) /\ Cardinality(Base(n)..(e - 1)) = e - Base(n)
  <2>1. /\ IsFiniteSet(Base(n)..(e - 1))
        /\ Cardinality(Base(n)..(e - 1)) =
             IF Base(n) > e - 1 THEN 0 ELSE (e - 1) - Base(n) + 1
    <3>1. Base(n) \in Int /\ e - 1 \in Int
      BY <1>1, <1>2
    <3> QED
      BY <3>1, FS_Interval, Zenon
  <2> QED
    BY <1>1, <1>2, <2>1
<1>5. \A i : i \in Part(n) <=> i \in Block(n) /\ i < number
  BY <1>1, <1>2, <1>3, Sizes DEF Block
<1>6. Base(n) + Cardinality(Part(n)) = e /\ Cardinality(Part(n)) \in Nat
  BY <1>1, <1>2, <1>3, <1>4
<1> QED
  BY <1>1, <1>2, <1>3, <1>4, <1>5, <1>6

\* The particles that the sorted segment has before the one in slot i.
Before(n, i) == {k \in Part(n) : \/ slot[k].cell < slot[i].cell
                                 \/ slot[k].cell = slot[i].cell /\ k < i}

\* Keys are numbers, dead particles have the largest.
LEMMA Keys ==
  ASSUME SlotTypes, NEW i \in Slots
  PROVE  /\ slot[i].cell \in Int /\ slot[i].cell <= NumCells /\ i \in Int
         /\ IsLive(slot[i]) <=> slot[i].cell < NumCells
         /\ slot[i].id \in Nat
<1>1. slot[i] \in [id : Nat, cell : 0..NumCells] /\ NumCells \in Nat
  BY Sizes DEF SlotTypes
<1>2. slot[i].cell \in 0..NumCells /\ slot[i].id \in Nat
  BY <1>1
<1> QED
  BY <1>1, <1>2, Sizes DEF IsLive, empty_cell

\* Targets count those before.
LEMMA TargetCount ==
  ASSUME SlotTypes, NEW n \in Nat, n <= LastUsed, NEW i \in Part(n)
  PROVE  /\ Target(n, i) = Base(n) + Cardinality(Before(n, i))
         /\ i \notin Before(n, i) /\ Before(n, i) \in SUBSET Part(n)
         /\ Cardinality(Before(n, i)) \in Nat /\ Base(n) \in Nat
<1> DEFINE S == {k \in Part(n) : slot[k].cell < slot[i].cell}
           T == {k \in Part(n) : slot[k].cell = slot[i].cell /\ k < i}
<1>1. \A k \in Part(n) : slot[k].cell \in Int /\ k \in Int
  BY Keys, PartFacts DEF Block
<1>2. /\ S \in SUBSET Part(n) /\ T \in SUBSET Part(n) /\ S \cap T = {}
      /\ Before(n, i) = S \cup T /\ i \notin Before(n, i)
  BY <1>1 DEF Before
<1>3. Target(n, i) = Base(n) + Cardinality(S) + Cardinality(T)
  BY DEF Target, Base
<1>4. IsFiniteSet(Part(n))
  BY PartFacts
<1> HIDE DEF S, T
<1>5. /\ Cardinality(Before(n, i)) = Cardinality(S) + Cardinality(T)
      /\ Cardinality(S) \in Nat /\ Cardinality(T) \in Nat
  <2>1. Cardinality(S \cup T) = Cardinality(S) + Cardinality(T)
        /\ Cardinality(S) \in Nat /\ Cardinality(T) \in Nat
    <3>1. IsFiniteSet(S) /\ IsFiniteSet(T)
      BY <1>2, <1>4, FS_Subset
    <3> QED
      BY <1>2, <3>1, Disjoint
  <2> QED
    BY <1>2, <2>1
<1> QED
  BY <1>2, <1>3, <1>5, BaseFacts

\* The sort of a segment is a permutation of its slots in use; live particles
\* come first.
LEMMA Ranking ==
  ASSUME SlotTypes, NEW n \in Nat, n <= LastUsed
  PROVE  /\ \A i \in Part(n) : Target(n, i) \in Part(n)
         /\ \A i, k \in Part(n) : Target(n, i) = Target(n, k) => i = k
         /\ \A t \in Part(n) : \E i \in Part(n) : Target(n, i) = t
         /\ \A i \in Part(n) : IsLive(slot[i]) <=> Target(n, i) < Base(n) + LiveIn(n)
         /\ LiveIn(n) \in Nat /\ LiveIn(n) <= Cardinality(Part(n))
<1> DEFINE P == Part(n)
           L == {k \in P : IsLive(slot[k])}
<1>1. /\ \A k \in P : /\ slot[k].cell \in Int /\ slot[k].cell <= NumCells /\ k \in Int
                      /\ IsLive(slot[k]) <=> slot[k].cell < NumCells
      /\ IsFiniteSet(P) /\ Cardinality(P) \in Nat /\ Base(n) \in Nat
      /\ NumCells \in Int
  <2>1. P \subseteq Slots /\ IsFiniteSet(P) /\ Cardinality(P) \in Nat
    BY PartFacts DEF Block
  <2>2. Base(n) \in Nat /\ NumCells \in Int
    BY BaseFacts, Sizes
  <2> HIDE DEF P
  <2> QED
    BY <2>1, <2>2, Keys
<1>2. /\ L \in SUBSET P /\ Cardinality(L) \in Nat /\ Cardinality(L) <= Cardinality(P)
      /\ LiveIn(n) = Cardinality(L)
  BY <1>1, FS_Subset, FS_CardinalityType DEF LiveIn
<1>3. ASSUME NEW i \in P PROVE Target(n, i) \in P
  <2>1. Cardinality(Before(n, i)) < Cardinality(P)
    BY <1>1, TargetCount, Fewer
  <2>2. /\ Target(n, i) = Base(n) + Cardinality(Before(n, i))
        /\ Cardinality(Before(n, i)) \in Nat
    BY TargetCount
  <2>3. P = Base(n)..(Base(n) + Cardinality(P) - 1)
    BY PartFacts
  <2> HIDE DEF P
  <2>4. Target(n, i) \in Base(n)..(Base(n) + Cardinality(P) - 1)
    BY <1>1, <2>1, <2>2
  <2> QED
    BY <2>3, <2>4
<1>4. ASSUME NEW i \in P, NEW k \in Before(n, i) PROVE Target(n, k) < Target(n, i)
  <2>1. /\ k \in P /\ (slot[k].cell < slot[i].cell
                         \/ (slot[k].cell = slot[i].cell /\ k < i))
    BY DEF Before
  <2>2. Before(n, k) \in SUBSET Before(n, i) /\ k \notin Before(n, k)
    BY <1>1, <2>1 DEF Before
  <2>3. /\ Cardinality(Before(n, k)) < Cardinality(Before(n, i))
        /\ Cardinality(Before(n, k)) \in Nat /\ Cardinality(Before(n, i)) \in Nat
    BY <1>1, <2>2, TargetCount, Fewer
  <2>4. /\ Target(n, i) = Base(n) + Cardinality(Before(n, i))
        /\ Target(n, k) = Base(n) + Cardinality(Before(n, k))
    BY <2>1, TargetCount
  <2> QED
    BY <1>1, <2>3, <2>4
<1>5. ASSUME NEW i \in P, NEW k \in P, Target(n, i) = Target(n, k) PROVE i = k
  <2> SUFFICES ASSUME i # k PROVE FALSE
    OBVIOUS
  <2>1. i \in Before(n, k) \/ k \in Before(n, i)
    BY <1>1 DEF Before
  <2>2. Target(n, i) \in Int /\ Target(n, k) \in Int
    BY <1>3, PartFacts DEF Block, Slots
  <2> QED
    BY <1>4, <1>5, <2>1, <2>2
<1>6. ASSUME NEW t \in P PROVE \E i \in P : Target(n, i) = t
  <2> DEFINE f == [i \in P |-> Target(n, i)]
  <2>1. f \in Injection(P, P)
    BY <1>3, <1>5 DEF Injection, IsInjective
  <2>2. f \in Surjection(P, P)
    <3> HIDE DEF f, P
    <3> QED
      BY <1>1, <2>1, FS_Injection
  <2> QED
    BY <2>2 DEF Surjection
<1>7. ASSUME NEW i \in P
      PROVE  IsLive(slot[i]) <=> Target(n, i) < Base(n) + LiveIn(n)
  <2>1. /\ Target(n, i) = Base(n) + Cardinality(Before(n, i))
        /\ Cardinality(Before(n, i)) \in Nat /\ i \notin Before(n, i)
        /\ Before(n, i) \in SUBSET P
    BY TargetCount
  <2>2. ASSUME IsLive(slot[i]) PROVE Cardinality(Before(n, i)) < Cardinality(L)
    <3>1. Before(n, i) \in SUBSET L /\ i \in L
      BY <1>1, <2>2 DEF Before
    <3> HIDE DEF P, L
    <3> QED
      BY <1>1, <1>2, <2>1, <3>1, Fewer
  <2>3. ASSUME ~IsLive(slot[i]) PROVE Cardinality(L) <= Cardinality(Before(n, i))
    <3>1. L \in SUBSET Before(n, i)
      BY <1>1, <2>3 DEF Before
    <3>2. IsFiniteSet(Before(n, i))
      BY <1>1, <2>1, FS_Subset
    <3> HIDE DEF P, L
    <3> QED
      BY <3>1, <3>2, FS_Subset
  <2> HIDE DEF P, L
  <2> QED
    BY <1>1, <1>2, <2>1, <2>2, <2>3
<1> QED
  BY <1>2, <1>3, <1>5, <1>6, <1>7

-----------------------------------------------------------------------------
(* The steps of the sort *)

\* Live particles that change slots one to one are still all there once.
LEMMA Carried ==
  ASSUME NoTwins, \A i \in LiveSlots : slot[i].id <= ptc_id,
         NEW K,
         \A i \in LiveSlots' : K[i] \in LiveSlots /\ slot'[i] = slot[K[i]],
         \A i, k \in LiveSlots' : K[i] = K[k] => i = k,
         \A k \in LiveSlots : \E i \in LiveSlots' : K[i] = k
  PROVE  /\ NoTwins'
         /\ {slot'[i] : i \in LiveSlots'} = {slot[i] : i \in LiveSlots}
         /\ \A i \in LiveSlots' : slot'[i].id <= ptc_id
<1>1. NoTwins'
  BY DEF NoTwins
<1>2. \A i \in LiveSlots' : slot'[i].id <= ptc_id
  OBVIOUS
<1>3. {slot'[i] : i \in LiveSlots'} = {slot[i] : i \in LiveSlots}
  <2> DEFINE A == LiveSlots'
             B == LiveSlots
  <2>1. /\ \A i \in A : K[i] \in B /\ slot'[i] = slot[K[i]]
        /\ \A k \in B : \E i \in A : K[i] = k
    OBVIOUS
  <2> HIDE DEF A, B
  <2>2. \A i \in A : slot'[i] \in {slot[k] : k \in B}
    BY <2>1
  <2>3. \A k \in B : slot[k] \in {slot'[i] : i \in A}
    BY <2>1
  <2>4. {slot'[i] : i \in A} = {slot[i] : i \in B}
    BY <2>2, <2>3
  <2> QED
    BY <2>4 DEF A, B
<1> QED
  BY <1>1, <1>2, <1>3

\* One turn of the first loop packs one more segment.
LEMMA SortSegmentKeeps ==
  ASSUME ArrayInv, SortSegment
  PROVE  ArrayInv' /\ {slot'[i] : i \in LiveSlots'} = {slot[i] : i \in LiveSlots}
<1> DEFINE P == Part(seg)
           K == [i \in Slots |-> IF i \in P THEN CHOOSE k \in P : Target(seg, k) = i
                                 ELSE i]
<1>1. /\ SlotTypes /\ NoneBeyondNumber /\ NoTwins
      /\ \A i \in LiveSlots : slot[i].id <= ptc_id
      /\ pc = "segments" /\ seg \in Nat /\ seg <= LastUsed
      /\ \A n \in Nat : n < seg => Packed(n)
      /\ slot \in [Slots -> [id : Nat, cell : 0..NumCells]]
      /\ number \in 0..Size /\ nums \in [Segments -> Nat]
      /\ UNCHANGED <<number, ptc_id>>
  BY DEF ArrayInv, SlotTypes, SortSegment
<1>2. /\ slot' = [i \in Slots |-> IF i \in P
                                  THEN slot[CHOOSE k \in P : Target(seg, k) = i]
                                  ELSE slot[i]]
      /\ nums' = [nums EXCEPT ![seg] = LiveIn(seg)]
      /\ \/ seg = LastUsed /\ pc' = "defrag" /\ seg' = 0 /\ last' = LastUsed
         \/ seg # LastUsed /\ pc' = "segments" /\ seg' = seg + 1 /\ last' = last
  BY DEF SortSegment
<1>3. /\ P \subseteq Slots /\ \A i : i \in P <=> i \in Block(seg) /\ i < number
      /\ Cardinality(P) \in Nat /\ Cardinality(P) <= Segment
      /\ Base(seg) + Cardinality(P) <= number
      /\ number \in Nat /\ Base(seg) \in Nat /\ Segment \in Nat
  <2>1. number \in Nat /\ Base(seg) \in Nat /\ Segment \in Nat
    BY <1>1, BaseFacts, Sizes
  <2>2. Block(seg) \subseteq Slots
    BY DEF Block
  <2> QED
    BY <1>1, <2>1, <2>2, PartFacts
<1>4. /\ \A i \in P : Target(seg, i) \in P
      /\ \A i, k \in P : Target(seg, i) = Target(seg, k) => i = k
      /\ \A t \in P : \E i \in P : Target(seg, i) = t
      /\ \A i \in P : IsLive(slot[i]) <=> Target(seg, i) < Base(seg) + LiveIn(seg)
      /\ LiveIn(seg) \in Nat /\ LiveIn(seg) <= Cardinality(P)
  BY <1>1, Ranking
<1>5. /\ \A i \in P : K[i] \in P /\ Target(seg, K[i]) = i
      /\ \A i \in Slots : i \notin P => K[i] = i
      /\ \A i \in Slots : slot'[i] = slot[K[i]]
  <2>1. ASSUME NEW i \in P PROVE K[i] \in P /\ Target(seg, K[i]) = i
    <3>1. K[i] = CHOOSE k \in P : Target(seg, k) = i
      BY <1>3
    <3> QED
      BY <1>4, <3>1
  <2> QED
    BY <1>2, <2>1
<1>6. DOMAIN slot' = Slots
  BY <1>2
<1> HIDE DEF P, K
<1>7. \A i \in Slots : K[i] \in Slots
  BY <1>3, <1>5
<1>8. \A k \in Slots : \E i \in Slots : K[i] = k
  <2> TAKE k \in Slots
  <2>1. CASE k \in P
    <3>1. Target(seg, k) \in P
      BY <1>4, <2>1
    <3>2. K[Target(seg, k)] = k
      BY <1>4, <1>5, <2>1, <3>1
    <3> QED
      BY <1>3, <3>1, <3>2
  <2>2. CASE k \notin P
    BY <1>5, <2>2
  <2> QED
    BY <2>1, <2>2
<1>9. \A i, k \in Slots : K[i] = K[k] => i = k
  BY <1>5
<1>10. \A i \in Slots : i \in LiveSlots' <=> K[i] \in LiveSlots
  BY <1>5, <1>7 DEF LiveSlots
<1>11. LiveSlots' \subseteq Slots /\ LiveSlots \subseteq Slots
  BY DEF LiveSlots
<1>12. /\ NoTwins'
       /\ {slot'[i] : i \in LiveSlots'} = {slot[i] : i \in LiveSlots}
       /\ \A i \in LiveSlots' : slot'[i].id <= ptc_id
  <2>1. \A i \in LiveSlots' : K[i] \in LiveSlots /\ slot'[i] = slot[K[i]]
    BY <1>5, <1>10, <1>11
  <2>2. \A i, k \in LiveSlots' : K[i] = K[k] => i = k
    BY <1>9, <1>11
  <2>3. \A k \in LiveSlots : \E i \in LiveSlots' : K[i] = k
    BY <1>8, <1>10, <1>11
  <2> QED
    BY <1>1, <2>1, <2>2, <2>3, Carried
<1>13. NoneBeyondNumber'
  <2>1. \A i \in Slots : i \notin P => (i \in LiveSlots' <=> i \in LiveSlots)
    BY <1>5, <1>10
  <2> QED
    BY <1>1, <1>3, <1>11, <2>1 DEF NoneBeyondNumber
<1>14. slot' \in [Slots -> [id : Nat, cell : 0..NumCells]]
  <2>1. \A i \in Slots : slot'[i] \in [id : Nat, cell : 0..NumCells]
    BY <1>1, <1>5, <1>7
  <2> QED
    BY <1>2, <2>1
<1>15. nums' \in [Segments -> Nat] /\ nums'[seg] = LiveIn(seg)
       /\ \A n \in Segments : n # seg => nums'[n] = nums[n]
  BY <1>1, <1>2, <1>4, LastFacts
<1>16. LastUsed' = LastUsed /\ LastUsed \in Nat
  BY <1>1, LastFacts DEF LastUsed
<1>17. SlotTypes'
  BY <1>1, <1>2, <1>14, <1>15, <1>16 DEF SlotTypes
<1>18. ASSUME NEW n \in Nat, n = seg PROVE Packed(n)'
  <2>1. ASSUME NEW i \in Block(seg)
        PROVE  IsLive(slot'[i]) <=> i < Base(seg) + LiveIn(seg)
    <3>1. i \in Slots /\ i \in Nat
      BY Sizes DEF Block
    <3>2. CASE i \in P
      <4>1. slot'[i] = slot[K[i]] /\ K[i] \in P /\ Target(seg, K[i]) = i
        BY <1>5, <3>1, <3>2
      <4> QED
        BY <1>4, <4>1
    <3>3. CASE i \notin P
      <4>1. i >= number /\ slot'[i] = slot[i]
        BY <1>3, <1>5, <3>1, <3>3
      <4>2. ~IsLive(slot[i])
        BY <1>1, <1>3, <3>1, <4>1 DEF NoneBeyondNumber, LiveSlots
      <4>3. ~(i < Base(seg) + LiveIn(seg))
        BY <1>3, <1>4, <3>1, <4>1
      <4> QED
        BY <4>1, <4>2, <4>3
    <3> QED
      BY <3>2, <3>3
  <2>2. LiveIn(seg) <= Segment /\ Base(seg) + LiveIn(seg) <= number
    BY <1>3, <1>4
  <2> QED
    BY <1>1, <1>4, <1>15, <1>18, <2>1, <2>2 DEF Packed, Base, Block
<1>19. ASSUME NEW n \in Nat, n < seg PROVE Packed(n)'
  <2>1. Packed(n) /\ nums'[n] = nums[n]
    BY <1>1, <1>15, <1>19, LastFacts
  <2>2. \A i \in Block(n) : slot'[i] = slot[i]
    <3> TAKE i \in Block(n)
    <3>1. Base(n) + Segment <= Base(seg) /\ Base(n) \in Nat
      BY <1>1, <1>19, BaseOrder
    <3>2. i \in Slots /\ i \in Nat /\ i < Base(n) + Segment
      BY Sizes DEF Block
    <3>3. i \notin Block(seg)
      BY <1>3, <3>1, <3>2 DEF Block
    <3> QED
      BY <1>3, <1>5, <3>2, <3>3
  <2> QED
    BY <1>1, <2>1, <2>2 DEF Packed, Base, Block
<1>20. \A n \in Nat : n <= seg => Packed(n)'
  BY <1>1, <1>18, <1>19
<1>21. CASE seg = LastUsed /\ pc' = "defrag" /\ seg' = 0 /\ last' = LastUsed
  <2>1. \A i \in LiveSlots' : i < Base(LastUsed) + Segment
    <3>1. \A i \in LiveSlots' : i < number /\ i \in Nat
      BY <1>1, <1>11, <1>13, Sizes DEF NoneBeyondNumber
    <3>2. number < Base(LastUsed) + Segment /\ Base(LastUsed) \in Nat
      BY <1>1, LastFacts, BaseFacts
    <3> QED
      BY <1>3, <3>1, <3>2
  <2>2. \A n \in Nat : ~(n < 0)
    OBVIOUS
  <2>3. Base(last)' = Base(LastUsed)
    BY <1>21 DEF Base
  <2>4. seg' <= last' /\ last' <= LastUsed'
    BY <1>16, <1>21
  <2>5. \A n \in Nat : n <= last' => Packed(n)'
    BY <1>20, <1>21
  <2> QED
    BY <1>1, <1>12, <1>13, <1>17, <1>21, <2>1, <2>2, <2>3, <2>4, <2>5 DEF ArrayInv
<1>22. CASE seg # LastUsed /\ pc' = "segments" /\ seg' = seg + 1 /\ last' = last
  <2>1. seg' <= LastUsed' /\ \A n \in Nat : n < seg' => n <= seg
    BY <1>1, <1>16, <1>22
  <2>2. \A n \in Nat : n < seg' => Packed(n)'
    BY <1>20, <2>1
  <2> QED
    BY <1>1, <1>12, <1>13, <1>17, <1>22, <2>1, <2>2 DEF ArrayInv
<1> QED
  BY <1>2, <1>12, <1>21, <1>22

\* The slots that one turn of the while loop copies to and from.
LEMMA Ranges ==
  ASSUME ArrayInv, pc = "defrag", seg < last, nums[seg] < Segment
  PROVE  /\ seg \in Nat /\ last \in Nat /\ last <= LastUsed /\ number \in Nat
         /\ \A n \in Nat : n <= last => Packed(n) /\ n \in Segments
         /\ NumToCopy \in Nat /\ OffsetTo \in Nat /\ OffsetFrom \in Nat
         /\ Base(seg) \in Nat /\ Base(last) \in Nat /\ Segment \in Nat
         /\ nums[seg] \in Nat /\ nums[last] \in Nat /\ nums[last] <= Segment
         /\ NumToCopy <= nums[last] /\ NumToCopy <= Segment - nums[seg]
         /\ OffsetTo = Base(seg) + nums[seg]
         /\ OffsetFrom + NumToCopy = Base(last) + nums[last]
         /\ Base(seg) + Segment <= Base(last) /\ Base(last) + nums[last] <= number
<1>1. /\ seg \in Nat /\ last \in Nat /\ last <= LastUsed /\ number \in 0..Size
      /\ \A n \in Nat : n <= last => Packed(n)
  BY DEF ArrayInv, SlotTypes
<1>2. \A n \in Nat : n <= last => n \in Segments
  BY <1>1, LastFacts
<1>3. Packed(seg) /\ Packed(last)
  BY <1>1
<1>4. /\ nums[seg] \in Nat /\ nums[last] \in Nat /\ nums[last] <= Segment
      /\ Base(last) + nums[last] <= number
  BY <1>3 DEF Packed
<1>5. /\ Base(seg) \in Nat /\ Base(last) \in Nat /\ Segment \in Nat
      /\ Base(seg) + Segment <= Base(last)
  BY <1>1, BaseOrder, Sizes
<1>6. /\ NumToCopy \in Nat /\ NumToCopy <= nums[last]
      /\ NumToCopy <= Segment - nums[seg]
  BY <1>4, <1>5 DEF NumToCopy, Min2
<1>7. /\ OffsetTo = Base(seg) + nums[seg]
      /\ OffsetFrom = Base(last) + nums[last] - NumToCopy
  BY InBases
<1>8. OffsetTo \in Nat /\ OffsetFrom \in Nat
  BY <1>4, <1>5, <1>6, <1>7
<1>9. OffsetFrom + NumToCopy = Base(last) + nums[last]
  BY <1>4, <1>5, <1>6, <1>7
<1> QED
  BY <1>1, <1>2, <1>4, <1>5, <1>6, <1>7, <1>8, <1>9, Sizes

\* One turn of the while loop moves live particles into holes.
LEMMA FillHolesKeeps ==
  ASSUME ArrayInv, FillHoles
  PROVE  ArrayInv' /\ {slot'[i] : i \in LiveSlots'} = {slot[i] : i \in LiveSlots}
<1> DEFINE c == NumToCopy
           t == OffsetTo
           f == OffsetFrom
           T == t..(t + c - 1)
           F == f..(f + c - 1)
           K == [i \in Slots |-> IF i \in T THEN i - t + f ELSE i]
<1>1. /\ SlotTypes /\ NoneBeyondNumber /\ NoTwins
      /\ \A i \in LiveSlots : slot[i].id <= ptc_id
      /\ pc = "defrag" /\ seg < last /\ nums[seg] < Segment
      /\ \A n \in Nat : n < seg => nums[n] = Segment
      /\ \A i \in LiveSlots : i < Base(last) + Segment
      /\ slot \in [Slots -> [id : Nat, cell : 0..NumCells]]
      /\ number \in 0..Size /\ nums \in [Segments -> Nat]
      /\ UNCHANGED <<number, ptc_id, pc, seg>>
  BY DEF ArrayInv, SlotTypes, FillHoles
<1>2. /\ slot' = [i \in Slots |->
                    IF i \in T THEN slot[i - t + f]
                    ELSE IF i \in F THEN [slot[i] EXCEPT !.cell = empty_cell]
                    ELSE slot[i]]
      /\ nums' = [nums EXCEPT ![seg] = @ + c, ![last] = @ - c]
      /\ last' = IF nums[last] = c THEN last - 1 ELSE last
  BY DEF FillHoles, Moved, NewLast
<1>3. /\ seg \in Nat /\ last \in Nat /\ last <= LastUsed /\ number \in Nat
      /\ \A n \in Nat : n <= last => Packed(n) /\ n \in Segments
      /\ c \in Nat /\ t \in Nat /\ f \in Nat
      /\ Base(seg) \in Nat /\ Base(last) \in Nat /\ Segment \in Nat
      /\ nums[seg] \in Nat /\ nums[last] \in Nat /\ nums[last] <= Segment
      /\ c <= nums[last] /\ c <= Segment - nums[seg]
      /\ t = Base(seg) + nums[seg]
      /\ f + c = Base(last) + nums[last]
      /\ Base(seg) + Segment <= Base(last) /\ Base(last) + nums[last] <= number
  BY <1>1, Ranges
<1>4. /\ \A i \in T : i \in Nat /\ t <= i /\ i < t + c /\ i - t + f \in F
      /\ \A i \in F : i \in Nat /\ f <= i /\ i < f + c /\ i - f + t \in T
      /\ \A i \in Nat : /\ i \in T <=> t <= i /\ i < t + c
                        /\ i \in F <=> f <= i /\ i < f + c
  BY <1>3
<1>5. DOMAIN slot' = Slots /\ \A i \in Slots : i \in Nat /\ i < Size
  BY <1>2, Sizes
<1>6. number <= Size /\ Size \in Nat
  BY <1>1, Sizes
<1>7. /\ \A i \in T : i \in Block(seg) /\ i \in Slots
      /\ \A i \in F : i \in Block(last) /\ i \in Slots
  <2>1. ASSUME NEW i \in T PROVE i \in Block(seg) /\ i \in Slots
    <3>1. i \in Nat /\ Base(seg) <= i /\ i < Base(seg) + Segment /\ i < Size
      BY <1>3, <1>4, <1>6
    <3> QED
      BY <3>1, Sizes DEF Block
  <2>2. ASSUME NEW i \in F PROVE i \in Block(last) /\ i \in Slots
    <3>1. i \in Nat /\ Base(last) <= i /\ i < Base(last) + Segment /\ i < Size
      BY <1>3, <1>4, <1>6
    <3> QED
      BY <3>1, Sizes DEF Block
  <2> QED
    BY <2>1, <2>2
<1>8. /\ \A i \in T : slot'[i] = slot[i - t + f] /\ K[i] = i - t + f
      /\ \A i \in Slots : i \notin T => K[i] = i
      /\ \A i \in Slots : i \notin T /\ i \notin F => slot'[i] = slot[i]
      /\ \A i \in F : i \notin T => slot'[i] = [slot[i] EXCEPT !.cell = empty_cell]
  BY <1>2, <1>7
<1> HIDE DEF c, t, f, T, F, K
<1>9. \A i \in F : i \notin T
  BY <1>3, <1>4
\* What is live, before and after.
<1>10. /\ \A i \in T : ~IsLive(slot[i])
       /\ \A i \in F : IsLive(slot[i])
  <2>1. ASSUME NEW i \in T PROVE ~IsLive(slot[i])
    <3>1. Packed(seg) /\ i \in Block(seg) /\ ~(i < Base(seg) + nums[seg])
      BY <1>1, <1>3, <1>4, <1>7
    <3> QED
      BY <3>1 DEF Packed
  <2>2. ASSUME NEW i \in F PROVE IsLive(slot[i])
    <3>1. Packed(last) /\ i \in Block(last) /\ i < Base(last) + nums[last]
      BY <1>3, <1>4, <1>7
    <3> QED
      BY <3>1 DEF Packed
  <2> QED
    BY <2>1, <2>2
<1>11. /\ \A i \in T : IsLive(slot'[i])
       /\ \A i \in F : ~IsLive(slot'[i])
       /\ \A i \in Slots : i \notin T /\ i \notin F =>
            (IsLive(slot'[i]) <=> IsLive(slot[i]))
  <2>1. \A i \in T : IsLive(slot'[i])
    BY <1>4, <1>8, <1>10
  <2>2. ASSUME NEW i \in F PROVE ~IsLive(slot'[i])
    <3>1. slot'[i] = [slot[i] EXCEPT !.cell = empty_cell]
      BY <1>8, <1>9
    <3>2. slot[i] \in [id : Nat, cell : 0..NumCells]
      BY <1>1, <1>7
    <3>3. slot'[i].cell = empty_cell
      BY <3>1, <3>2
    <3> QED
      BY <3>3 DEF IsLive
  <2> QED
    BY <1>8, <2>1, <2>2
<1>12. /\ \A i : i \in LiveSlots <=> i \in Slots /\ IsLive(slot[i])
       /\ \A i : i \in LiveSlots' <=> i \in Slots /\ IsLive(slot'[i])
  BY DEF LiveSlots
<1>13. \A i \in LiveSlots' : K[i] \in LiveSlots /\ slot'[i] = slot[K[i]]
  <2> TAKE i \in LiveSlots'
  <2>1. CASE i \in T
    BY <1>4, <1>7, <1>8, <1>10, <1>12, <2>1
  <2>2. CASE i \notin T
    BY <1>8, <1>11, <1>12, <2>2
  <2> QED
    BY <2>1, <2>2
<1>14. \A i, k \in LiveSlots' : K[i] = K[k] => i = k
  <2> TAKE i, k \in LiveSlots'
  <2>1. /\ i \in Slots /\ k \in Slots /\ i \notin F /\ k \notin F
        /\ i \in Nat /\ k \in Nat
    BY <1>5, <1>11, <1>12
  <2>2. CASE i \in T /\ k \in T
    BY <1>3, <1>8, <2>1, <2>2
  <2>3. CASE i \in T /\ k \notin T
    BY <1>4, <1>8, <2>1, <2>3
  <2>4. CASE i \notin T /\ k \in T
    BY <1>4, <1>8, <2>1, <2>4
  <2>5. CASE i \notin T /\ k \notin T
    BY <1>8, <2>1, <2>5
  <2> QED
    BY <2>2, <2>3, <2>4, <2>5
<1>15. \A k \in LiveSlots : \E i \in LiveSlots' : K[i] = k
  <2> TAKE k \in LiveSlots
  <2>1. k \in Slots /\ k \in Nat /\ k \notin T
    BY <1>5, <1>10, <1>12
  <2>2. CASE k \in F
    <3>1. k - f + t \in T
      BY <1>4, <2>2
    <3>2. K[k - f + t] = (k - f + t) - t + f
      BY <1>8, <3>1
    <3>3. K[k - f + t] = k
      BY <1>3, <2>1, <3>2
    <3> QED
      BY <1>7, <1>11, <1>12, <3>1, <3>3
  <2>3. CASE k \notin F
    BY <1>8, <1>11, <1>12, <2>1, <2>3
  <2> QED
    BY <2>2, <2>3
<1>16. /\ NoTwins'
       /\ {slot'[i] : i \in LiveSlots'} = {slot[i] : i \in LiveSlots}
       /\ \A i \in LiveSlots' : slot'[i].id <= ptc_id
  BY <1>1, <1>13, <1>14, <1>15, Carried
<1>17. \A i \in LiveSlots' : i < number /\ i < Base(last) + Segment
  <2> TAKE i \in LiveSlots'
  <2>1. i \in Slots /\ i \in Nat
    BY <1>5, <1>12
  <2>2. CASE i \in T
    <3>1. i < t + c
      BY <1>4, <2>2
    <3>2. /\ c \in Nat /\ t \in Nat /\ Base(seg) \in Nat /\ Base(last) \in Nat
          /\ Segment \in Nat /\ number \in Nat
          /\ nums[seg] \in Nat /\ nums[last] \in Nat
          /\ c <= Segment - nums[seg] /\ t = Base(seg) + nums[seg]
          /\ Base(seg) + Segment <= Base(last) /\ Base(last) + nums[last] <= number
      BY <1>3
    <3>3. t + c <= Base(last) /\ Base(last) <= number
      BY <3>2
    <3> QED
      BY <2>1, <3>1, <3>2, <3>3
  <2>3. CASE i \notin T
    <3>1. i \in LiveSlots
      BY <1>11, <1>12, <2>1, <2>3
    <3> QED
      BY <1>1, <3>1 DEF NoneBeyondNumber
  <2> QED
    BY <2>2, <2>3
<1>18. slot' \in [Slots -> [id : Nat, cell : 0..NumCells]]
  <2>1. ASSUME NEW i \in Slots PROVE slot'[i] \in [id : Nat, cell : 0..NumCells]
    <3>1. CASE i \in T
      BY <1>1, <1>4, <1>7, <1>8, <3>1
    <3>2. CASE i \in F
      <4>1. empty_cell \in 0..NumCells
        BY Sizes DEF empty_cell
      <4>2. slot[i] \in [id : Nat, cell : 0..NumCells]
        BY <1>1
      <4>3. slot'[i] = [slot[i] EXCEPT !.cell = empty_cell]
        BY <1>8, <1>9, <3>2
      <4> QED
        BY <4>1, <4>2, <4>3
    <3>3. CASE i \notin T /\ i \notin F
      BY <1>1, <1>8, <3>3
    <3> QED
      BY <3>1, <3>2, <3>3
  <2> QED
    BY <1>2, <2>1
<1>19. /\ nums' \in [Segments -> Nat]
       /\ nums'[seg] = nums[seg] + c /\ nums'[last] = nums[last] - c
       /\ \A n \in Segments : n # seg /\ n # last => nums'[n] = nums[n]
  <2>1. /\ seg # last /\ seg \in Segments /\ last \in Segments
        /\ nums[seg] \in Nat /\ nums[last] \in Nat /\ c \in Nat /\ c <= nums[last]
    BY <1>1, <1>3
  <2>2. nums[seg] + c \in Nat /\ nums[last] - c \in Nat
    BY <2>1
  <2>3. nums' = [nums EXCEPT ![seg] = nums[seg] + c, ![last] = nums[last] - c]
    BY <1>1, <1>2, <2>1
  <2> QED
    BY <1>1, <2>1, <2>2, <2>3
<1>20. /\ LastUsed' = LastUsed /\ last' \in Nat /\ seg <= last' /\ last' <= last
       /\ last' = last \/ (last' = last - 1 /\ nums[last] = c)
       /\ LastUsed \in Nat
  <2>1. LastUsed' = LastUsed /\ LastUsed \in Nat
    BY <1>1, LastFacts DEF LastUsed
  <2> QED
    BY <1>1, <1>2, <1>3, <2>1
<1>21. SlotTypes'
  BY <1>1, <1>18, <1>19, <1>20 DEF SlotTypes
<1>22. \A n \in Nat : n <= last' => Packed(n)'
  <2> SUFFICES ASSUME NEW n \in Nat, n <= last' PROVE Packed(n)'
    OBVIOUS
  <2>1. n <= last /\ Packed(n) /\ Base(n) \in Nat
    BY <1>3, <1>20, BaseFacts
  <2>2. \A i \in Block(n) : i \in Slots /\ i \in Nat /\ Base(n) <= i /\ i < Base(n) + Segment
    BY <1>5 DEF Block
  <2>3. CASE n = seg
    <3>1. nums'[n] = nums[n] + c /\ nums'[n] \in Nat /\ nums'[n] <= Segment
          /\ Base(n) + nums'[n] <= number
      BY <1>3, <1>19, <2>3
    <3>2. ASSUME NEW i \in Block(n)
          PROVE  IsLive(slot'[i]) <=> i < Base(n) + nums'[n]
      <4>1. i \notin F
        BY <1>3, <1>4, <2>2, <2>3
      <4>2. IsLive(slot[i]) <=> i < Base(n) + nums[n]
        BY <2>1 DEF Packed
      <4>3. i \in T <=> Base(n) + nums[n] <= i /\ i < Base(n) + nums'[n]
        BY <1>3, <1>4, <2>2, <2>3, <3>1
      <4> QED
        BY <1>3, <1>11, <2>1, <2>2, <2>3, <3>1, <4>1, <4>2, <4>3
    <3> QED
      BY <1>1, <3>1, <3>2 DEF Packed, Base, Block
  <2>4. CASE n = last
    <3>1. nums'[n] = nums[n] - c /\ nums'[n] \in Nat /\ nums'[n] <= Segment
          /\ Base(n) + nums'[n] <= number /\ f = Base(n) + nums'[n]
      BY <1>3, <1>19, <2>4
    <3>2. ASSUME NEW i \in Block(n)
          PROVE  IsLive(slot'[i]) <=> i < Base(n) + nums'[n]
      <4>1. i \notin T
        BY <1>3, <1>4, <2>2, <2>4
      <4>2. IsLive(slot[i]) <=> i < Base(n) + nums[n]
        BY <2>1 DEF Packed
      <4>3. i \in F <=> Base(n) + nums'[n] <= i /\ i < Base(n) + nums[n]
        BY <1>3, <1>4, <2>2, <2>4, <3>1
      <4> QED
        BY <1>3, <1>11, <2>1, <2>2, <2>4, <3>1, <4>1, <4>2, <4>3
    <3> QED
      BY <1>1, <3>1, <3>2 DEF Packed, Base, Block
  <2>5. CASE n # seg /\ n # last
    <3>1. nums'[n] = nums[n]
      BY <1>3, <1>19, <2>1, <2>5
    <3>2. ASSUME NEW i \in Block(n) PROVE slot'[i] = slot[i]
      <4>1. i \notin Block(seg) /\ i \notin Block(last)
        <5>1. \A m \in Nat : i \in Block(m) => m = n
          BY <2>2, SlotBlock
        <5> QED
          BY <1>3, <2>5, <5>1
      <4> QED
        BY <1>7, <1>8, <2>2, <4>1
    <3> QED
      BY <1>1, <2>1, <3>1, <3>2 DEF Packed, Base, Block
  <2> QED
    BY <2>3, <2>4, <2>5
<1>23. \A n \in Nat : n < seg => nums'[n] = Segment
  BY <1>1, <1>3, <1>19
<1>24. \A i \in LiveSlots' : i < Base(last)' + Segment
  <2> TAKE i \in LiveSlots'
  <2>0. Base(last)' = Base(last')
    BY DEF Base
  <2>1. i \in Slots /\ i \in Nat /\ i < Base(last) + Segment
    BY <1>5, <1>12, <1>17
  <2>2. CASE last' = last
    BY <2>0, <2>1, <2>2
  <2>3. CASE last' = last - 1 /\ nums[last] = c
    <3>1. Base(last) = Base(last') + Segment
      BY <1>3, <1>20, <2>3, BaseFacts
    <3>2. CASE Base(last) <= i
      <4>1. i \in Block(last)
        BY <2>1, <3>2 DEF Block
      <4>2. i \notin F /\ i \notin T
        BY <1>3, <1>4, <1>11, <1>12, <2>1, <3>2
      <4>3. IsLive(slot[i])
        BY <1>11, <1>12, <4>2
      <4>4. i < Base(last) + nums[last]
        BY <1>3, <4>1, <4>3 DEF Packed
      <4>5. i \in F
        BY <1>3, <1>4, <2>1, <2>3, <3>2, <4>4
      <4> QED
        BY <4>2, <4>5
    <3> QED
      BY <1>3, <2>0, <2>1, <3>1, <3>2
  <2> QED
    BY <1>20, <2>2, <2>3
<1>25. NoneBeyondNumber'
  BY <1>1, <1>17 DEF NoneBeyondNumber
<1>26. /\ pc' = "defrag" /\ seg' <= last' /\ last' <= LastUsed'
       /\ \A n \in Nat : n < seg' => nums'[n] = Segment
  BY <1>1, <1>3, <1>20, <1>23
<1>27. ArrayInv'
  BY <1>1, <1>16, <1>21, <1>22, <1>24, <1>25, <1>26 DEF ArrayInv
<1> QED
  BY <1>16, <1>27

\* The scan goes on past a full segment.
LEMMA NextSegmentKeeps ==
  ASSUME ArrayInv, NextSegment
  PROVE  ArrayInv' /\ slot' = slot
<1>1. /\ SlotTypes /\ NoneBeyondNumber /\ NoTwins
      /\ \A i \in LiveSlots : slot[i].id <= ptc_id
      /\ seg <= last /\ last <= LastUsed
      /\ \A n \in Nat : n <= last => Packed(n)
      /\ \A n \in Nat : n < seg => nums[n] = Segment
      /\ \A i \in LiveSlots : i < Base(last) + Segment
      /\ seg \in Nat /\ last \in Nat
  BY DEF ArrayInv, SlotTypes, NextSegment
<1>2. /\ UNCHANGED <<slot, number, ptc_id, pc, last, nums>>
      /\ pc = "defrag" /\ seg' = seg + 1 /\ seg < last /\ nums[seg] >= Segment
  BY DEF NextSegment
<1>3. /\ LiveSlots' = LiveSlots /\ NoneBeyondNumber' /\ NoTwins'
      /\ LastUsed' = LastUsed /\ SlotTypes' /\ Base(last)' = Base(last)
  BY <1>1, <1>2 DEF LiveSlots, NoneBeyondNumber, NoTwins, LastUsed, SlotTypes, Base
<1>4. \A n \in Nat : n <= last' => Packed(n)'
  BY <1>1, <1>2 DEF Packed, Base, Block
<1>5. nums[seg] = Segment
  <2>1. nums[seg] \in Nat /\ nums[seg] <= Segment /\ Segment \in Nat
    <3>1. Packed(seg)
      BY <1>1
    <3> QED
      BY <3>1, Sizes DEF Packed
  <2> QED
    BY <1>2, <2>1
<1>6. /\ \A n \in Nat : n < seg' => nums'[n] = Segment
      /\ seg' <= last'
  BY <1>1, <1>2, <1>5
<1> QED
  BY <1>1, <1>2, <1>3, <1>4, <1>6 DEF ArrayInv

\* When the scan meets the last segment, the live particles are the first
\* slots.
LEMMA SetNumKeeps ==
  ASSUME ArrayInv, SetNum
  PROVE  ArrayInv' /\ slot' = slot
<1>1. /\ SlotTypes /\ NoneBeyondNumber /\ NoTwins
      /\ \A i \in LiveSlots : slot[i].id <= ptc_id
      /\ seg <= last /\ last <= LastUsed
      /\ \A n \in Nat : n <= last => Packed(n)
      /\ \A n \in Nat : n < seg => nums[n] = Segment
      /\ \A i \in LiveSlots : i < Base(last) + Segment
      /\ seg \in Nat /\ last \in Nat /\ number \in 0..Size
  BY DEF ArrayInv, SlotTypes, SetNum
<1>2. /\ UNCHANGED <<slot, ptc_id, seg, last, nums>>
      /\ pc' = "sorted" /\ number' = TotalNum /\ seg >= last
  BY DEF SetNum
<1>3. seg = last
  BY <1>1, <1>2
<1>4. Packed(last) /\ TotalNum = Base(last) + nums[last]
  BY <1>1, InBases
<1>5. /\ Base(last) \in Nat /\ nums[last] \in Nat /\ Segment \in Nat
      /\ Size \in Nat /\ number \in Nat /\ number <= Size
      /\ nums[last] <= Segment /\ Base(last) + nums[last] <= number
  BY <1>1, <1>4, BaseFacts, Sizes DEF Packed
<1>6. TotalNum \in Nat /\ TotalNum <= Size
  BY <1>4, <1>5
<1>7. ASSUME NEW i \in Slots PROVE IsLive(slot[i]) <=> i < TotalNum
  <2>1. i \in Nat
    BY Sizes
  <2>2. PICK n \in Nat : i \in Block(n)
    BY SlotBlock
  <2>3. Base(n) <= i /\ i < Base(n) + Segment /\ Base(n) \in Nat
    BY <2>2, BaseFacts DEF Block
  <2>4. CASE n = last
    BY <1>4, <2>2, <2>4 DEF Packed
  <2>5. CASE n < last
    <3>1. nums[n] = Segment /\ Packed(n)
      BY <1>1, <1>3, <2>5
    <3>2. IsLive(slot[i])
      BY <2>2, <2>3, <3>1 DEF Packed
    <3>3. Base(n) + Segment <= Base(last)
      BY <1>1, <2>5, BaseOrder
    <3> QED
      BY <1>4, <1>5, <2>1, <2>3, <3>2, <3>3
  <2>6. CASE last < n
    <3>1. Base(last) + Segment <= Base(n)
      BY <1>1, <2>6, BaseOrder
    <3>2. ~(i < Base(last) + Segment)
      BY <1>5, <2>1, <2>3, <3>1
    <3>3. ~IsLive(slot[i])
      BY <1>1, <3>2 DEF LiveSlots
    <3> QED
      BY <1>4, <1>5, <2>1, <3>2, <3>3
  <2> QED
    BY <1>1, <2>4, <2>5, <2>6
<1>8. LiveSlots' = 0..(TotalNum - 1)
  <2>1. LiveSlots' = LiveSlots
    BY <1>2 DEF LiveSlots
  <2>2. \A i : i \in LiveSlots <=> i \in Slots /\ i < TotalNum
    BY <1>7 DEF LiveSlots
  <2>3. \A i : i \in 0..(TotalNum - 1) <=> i \in Nat /\ i < TotalNum
    BY <1>6
  <2>4. \A i \in Nat : i < TotalNum => i \in Slots
    BY <1>5, <1>6, Sizes
  <2> QED
    BY <2>1, <2>2, <2>3, <2>4, Sizes
<1>9. NoneBeyondNumber'
  <2>1. \A i \in LiveSlots' : i < number'
    BY <1>2, <1>6, <1>8
  <2> QED
    BY <2>1 DEF NoneBeyondNumber
<1>10. NoTwins' /\ \A i \in LiveSlots' : slot'[i].id <= ptc_id'
  BY <1>1, <1>2 DEF NoTwins, LiveSlots
<1>11. SlotTypes'
  BY <1>1, <1>2, <1>5, <1>6 DEF SlotTypes
<1> QED
  BY <1>2, <1>8, <1>9, <1>10, <1>11 DEF ArrayInv

\* A sort starts with no segment sorted; back in the simulation, nothing is
\* known of the segments.
LEMMA StartReturn ==
  ASSUME ArrayInv, StartSort \/ Return \/ UNCHANGED vars
  PROVE  ArrayInv' /\ slot' = slot
<1>1. SlotTypes /\ seg \in Nat /\ last \in Nat /\ number \in 0..Size
  BY DEF ArrayInv, SlotTypes
<1>2. slot' = slot /\ number' = number /\ ptc_id' = ptc_id
  BY DEF StartSort, Return, vars
<1>3. /\ LiveSlots' = LiveSlots /\ NoneBeyondNumber' /\ NoTwins'
      /\ \A i \in LiveSlots' : slot'[i].id <= ptc_id'
  BY <1>2 DEF LiveSlots, NoneBeyondNumber, NoTwins, ArrayInv
<1>4. CASE StartSort
  <2>1. pc' = "segments" /\ seg' = 0 /\ UNCHANGED <<last, nums>>
    BY <1>4 DEF StartSort
  <2>2. SlotTypes'
    BY <1>1, <1>2, <2>1 DEF SlotTypes
  <2>3. 0 <= LastUsed' /\ \A n \in Nat : ~(n < 0)
    BY <1>1, <1>2, LastFacts DEF LastUsed
  <2> QED
    BY <1>2, <1>3, <2>1, <2>2, <2>3 DEF ArrayInv
<1>5. CASE Return
  <2>1. pc' = "idle" /\ UNCHANGED <<seg, last, nums>>
    BY <1>5 DEF Return
  <2>2. SlotTypes'
    BY <1>1, <1>2, <2>1 DEF SlotTypes
  <2> QED
    BY <1>2, <1>3, <2>1, <2>2 DEF ArrayInv
<1>6. CASE UNCHANGED vars
  <2>1. UNCHANGED <<slot, number, ptc_id, pc, seg, last, nums>>
    BY <1>6 DEF vars
  <2>2. SlotTypes' /\ LastUsed' = LastUsed /\ Base(last)' = Base(last)
    BY <1>1, <2>1 DEF SlotTypes, LastUsed, Base
  <2>3. \A n \in Nat : Packed(n)' <=> Packed(n)
    BY <2>1 DEF Packed, Block, Base
  <2> QED
    BY <1>2, <1>3, <2>1, <2>2, <2>3 DEF ArrayInv
<1> QED
  BY <1>2, <1>4, <1>5, <1>6

-----------------------------------------------------------------------------
(* The steps between sorts *)

\* New particles in new slots have new ids.
LEMMA Arrivals ==
  ASSUME ArrayInv, pc = "idle", UNCHANGED <<pc, seg, last, nums>>,
         NEW W, W \subseteq Slots,
         number' \in 0..Size, number <= number', ptc_id' \in Nat, ptc_id <= ptc_id',
         slot' \in [Slots -> [id : Nat, cell : 0..NumCells]],
         \A i \in Slots : i \notin W => slot'[i] = slot[i],
         \A i \in W : /\ number <= i /\ i < number' /\ ptc_id + 1 + (i - number) <= ptc_id'
                      /\ slot'[i].id = ptc_id + 1 + (i - number)
  PROVE  ArrayInv'
<1>1. /\ SlotTypes /\ NoneBeyondNumber /\ NoTwins
      /\ \A i \in LiveSlots : slot[i].id <= ptc_id
      /\ number \in Nat /\ ptc_id \in Nat /\ number' \in Nat /\ Size \in Nat
  BY Sizes DEF ArrayInv, SlotTypes
<1>2. \A i \in Slots : i \in Nat /\ slot[i].id \in Nat
  BY <1>1, Keys, Sizes
<1>3. \A i \in LiveSlots' : i \in Slots /\ (i \in W \/ (i \notin W /\ i \in LiveSlots))
  BY DEF LiveSlots
<1>4. NoneBeyondNumber'
  BY <1>1, <1>2, <1>3 DEF NoneBeyondNumber
<1>5. NoTwins'
  <2> SUFFICES ASSUME NEW i \in LiveSlots', NEW k \in LiveSlots', slot'[i].id = slot'[k].id
               PROVE  i = k
    BY DEF NoTwins
  <2>1. CASE i \in W /\ k \in W
    BY <1>1, <1>2, <1>3, <2>1
  <2>2. CASE i \in W /\ k \notin W
    BY <1>1, <1>2, <1>3, <2>2
  <2>3. CASE i \notin W /\ k \in W
    BY <1>1, <1>2, <1>3, <2>3
  <2>4. CASE i \notin W /\ k \notin W
    BY <1>1, <1>3, <2>4 DEF NoTwins
  <2> QED
    BY <2>1, <2>2, <2>3, <2>4
<1>6. \A i \in LiveSlots' : slot'[i].id <= ptc_id'
  BY <1>1, <1>2, <1>3
<1>7. SlotTypes'
  BY <1>1 DEF SlotTypes
<1> QED
  BY <1>4, <1>5, <1>6, <1>7 DEF ArrayInv

\* One particle is appended.
LEMMA AppendKeeps ==
  ASSUME ArrayInv, NEW c \in Cells, Append(c)
  PROVE  ArrayInv'
<1> DEFINE W == {number}
<1>1. /\ pc = "idle" /\ number \in Nat /\ number < Size /\ Size \in Nat
      /\ ptc_id \in Nat /\ slot \in [Slots -> [id : Nat, cell : 0..NumCells]]
      /\ c \in 0..NumCells
  BY Sizes DEF Append, ArrayInv, SlotTypes, Cells
<1>2. /\ slot' = [slot EXCEPT ![number] = [id |-> ptc_id + 1, cell |-> c]]
      /\ ptc_id' = ptc_id + 1 /\ number' = number + 1
      /\ UNCHANGED <<pc, seg, last, nums>>
  BY DEF Append
<1>3. number \in Slots /\ W \subseteq Slots
  BY <1>1, Sizes
<1>4. /\ slot' \in [Slots -> [id : Nat, cell : 0..NumCells]]
      /\ \A i \in Slots : i \notin W => slot'[i] = slot[i]
      /\ slot'[number].id = ptc_id + 1
  BY <1>1, <1>2, <1>3
<1>5. \A i \in W : /\ number <= i /\ i < number' /\ ptc_id + 1 + (i - number) <= ptc_id'
                   /\ slot'[i].id = ptc_id + 1 + (i - number)
  BY <1>1, <1>2, <1>4
<1>6. /\ number' \in 0..Size /\ number <= number' /\ ptc_id' \in Nat
      /\ ptc_id <= ptc_id'
  BY <1>1, <1>2
<1> HIDE DEF W
<1> QED
  BY <1>1, <1>2, <1>3, <1>4, <1>5, <1>6, Arrivals

\* Particles arrive from another rank.
LEMMA CopyKeeps ==
  ASSUME ArrayInv, NEW n \in 1..2, NEW c \in Cells, CopyFromBuffer(n, c)
  PROVE  ArrayInv'
<1> DEFINE fit == Min2(n, Size - number)
           W == number..(number + fit - 1)
<1>1. /\ pc = "idle" /\ number \in Nat /\ number <= Size /\ Size \in Nat
      /\ ptc_id \in Nat /\ slot \in [Slots -> [id : Nat, cell : 0..NumCells]]
      /\ c \in 0..NumCells
  BY Sizes DEF CopyFromBuffer, ArrayInv, SlotTypes, Cells
<1>2. /\ slot' = [i \in Slots |-> IF i \in W
                    THEN [id |-> ptc_id + 1 + (i - number), cell |-> c] ELSE slot[i]]
      /\ ptc_id' = ptc_id + n /\ number' = number + fit
      /\ UNCHANGED <<pc, seg, last, nums>>
  BY DEF CopyFromBuffer
<1>3. fit \in Nat /\ fit <= n /\ number + fit <= Size
  BY <1>1 DEF Min2
<1> HIDE DEF fit
<1>4. \A i \in W : i \in Nat /\ number <= i /\ i < number + fit /\ i \in Slots
                   /\ ptc_id + 1 + (i - number) \in Nat
  BY <1>1, <1>3, Sizes
<1> HIDE DEF W
<1>5. /\ slot' \in [Slots -> [id : Nat, cell : 0..NumCells]]
      /\ \A i \in Slots : i \notin W => slot'[i] = slot[i]
      /\ \A i \in W : slot'[i].id = ptc_id + 1 + (i - number)
  BY <1>1, <1>2, <1>4
<1>6. \A i \in W : /\ number <= i /\ i < number' /\ ptc_id + 1 + (i - number) <= ptc_id'
                   /\ slot'[i].id = ptc_id + 1 + (i - number)
  BY <1>1, <1>2, <1>3, <1>4, <1>5
<1>7. /\ number' \in 0..Size /\ number <= number' /\ ptc_id' \in Nat
      /\ ptc_id <= ptc_id' /\ W \subseteq Slots
  BY <1>1, <1>2, <1>3, <1>4
<1> QED
  BY <1>1, <1>2, <1>5, <1>6, <1>7, Arrivals

\* Pairs are injected.
LEMMA InjectKeeps ==
  ASSUME ArrayInv, NEW total \in 0..NumCells, NEW cellOf \in [0..(total - 1) -> Cells],
         InjectPairs(total, cellOf)
  PROVE  ArrayInv'
<1> DEFINE Pair(i) == (i - number) \div 2
           Written(i) == /\ i >= number /\ Pair(i) < total
                         /\ number + 2 * Pair(i) + 1 < Size
           W == {i \in Slots : Written(i)}
<1>1. /\ pc = "idle" /\ number \in Nat /\ number <= Size /\ Size \in Nat
      /\ ptc_id \in Nat /\ slot \in [Slots -> [id : Nat, cell : 0..NumCells]]
      /\ total \in Nat
  BY Sizes DEF InjectPairs, ArrayInv, SlotTypes
<1>2. /\ slot' = [i \in Slots |-> IF Written(i)
                    THEN [id |-> ptc_id + 1 + (i - number), cell |-> cellOf[Pair(i)]]
                    ELSE slot[i]]
      /\ ptc_id' = ptc_id + 2 * total /\ number' = Min2(number + 2 * total, Size)
      /\ UNCHANGED <<pc, seg, last, nums>>
  BY DEF InjectPairs
<1>3. ASSUME NEW i \in W
      PROVE  /\ i \in Slots /\ i \in Nat /\ number <= i /\ i - number < 2 * total
             /\ cellOf[Pair(i)] \in 0..NumCells
             /\ ptc_id + 1 + (i - number) \in Nat /\ i < Size
  <2>1. i \in Slots /\ i \in Nat /\ number <= i /\ i < Size /\ Pair(i) < total
    BY <1>1, Sizes
  <2>2. i - number \in Nat
    BY <1>1, <2>1
  <2>3. Pair(i) \in Nat /\ i - number <= 2 * Pair(i) + 1
    BY <2>2
  <2> HIDE DEF Pair
  <2>4. i - number < 2 * total
    BY <1>1, <2>1, <2>2, <2>3
  <2>5. Pair(i) \in 0..(total - 1)
    BY <1>1, <2>1, <2>3
  <2>6. cellOf[Pair(i)] \in 0..NumCells
    BY <2>5, Sizes DEF Cells
  <2> QED
    BY <1>1, <2>1, <2>2, <2>4, <2>6
<1>4. \A i \in Slots : i \in W <=> Written(i)
  OBVIOUS
<1> HIDE DEF Written, W, Pair
<1>5. /\ slot' \in [Slots -> [id : Nat, cell : 0..NumCells]]
      /\ \A i \in Slots : i \notin W => slot'[i] = slot[i]
      /\ \A i \in W : slot'[i].id = ptc_id + 1 + (i - number)
  BY <1>1, <1>2, <1>3, <1>4
<1>6. /\ number' \in 0..Size /\ number <= number' /\ ptc_id' \in Nat
      /\ ptc_id <= ptc_id' /\ W \subseteq Slots
      /\ number' = number + 2 * total \/ number' = Size
  BY <1>1, <1>2, <1>3 DEF Min2
<1>7. \A i \in W : /\ number <= i /\ i < number' /\ ptc_id + 1 + (i - number) <= ptc_id'
                   /\ slot'[i].id = ptc_id + 1 + (i - number)
  <2> TAKE i \in W
  <2>1. i \in Nat /\ number <= i /\ i - number < 2 * total /\ i < Size
    BY <1>3
  <2>2. i < number'
    BY <1>1, <1>6, <2>1
  <2>3. ptc_id + 1 + (i - number) <= ptc_id + 2 * total
    BY <1>1, <2>1
  <2> QED
    BY <1>2, <1>5, <2>1, <2>2, <2>3
<1> QED
  BY <1>1, <1>2, <1>5, <1>6, <1>7, Arrivals

\* A live particle changes its cell or dies.
LEMMA MoveKeeps ==
  ASSUME ArrayInv, NEW i \in Slots, NEW c \in 0..NumCells,
         pc = "idle", i < number, IsLive(slot[i]),
         slot' = [slot EXCEPT ![i].cell = c],
         UNCHANGED <<number, ptc_id, pc, seg, last, nums>>
  PROVE  ArrayInv'
<1>1. /\ SlotTypes /\ NoneBeyondNumber /\ NoTwins
      /\ \A k \in LiveSlots : slot[k].id <= ptc_id
      /\ slot \in [Slots -> [id : Nat, cell : 0..NumCells]]
  BY DEF ArrayInv, SlotTypes
<1>2. /\ slot' \in [Slots -> [id : Nat, cell : 0..NumCells]]
      /\ \A k \in Slots : slot'[k].id = slot[k].id
      /\ \A k \in Slots : k # i => slot'[k] = slot[k]
  BY <1>1
<1>3. LiveSlots' \subseteq LiveSlots /\ LiveSlots \subseteq Slots
  BY <1>2 DEF LiveSlots
<1>4. NoneBeyondNumber' /\ NoTwins' /\ \A k \in LiveSlots' : slot'[k].id <= ptc_id'
  BY <1>1, <1>2, <1>3 DEF NoneBeyondNumber, NoTwins
<1>5. SlotTypes'
  BY <1>1, <1>2 DEF SlotTypes
<1> QED
  BY <1>4, <1>5 DEF ArrayInv

-----------------------------------------------------------------------------
(* The theorems *)

\* At the start the array is empty.
LEMMA ArrayInit ==
  ASSUME Init
  PROVE  ArrayInv
<1>1. /\ slot = [i \in Slots |-> Empty] /\ number = 0 /\ ptc_id = 0 /\ pc = "idle"
      /\ seg = 0 /\ last = 0 /\ nums = [n \in Segments |-> 0]
  BY DEF Init
<1>2. LiveSlots = {}
  BY <1>1 DEF LiveSlots, IsLive, Empty
<1>3. SlotTypes
  BY <1>1, Sizes DEF SlotTypes, Empty, empty_cell
<1> QED
  BY <1>1, <1>2, <1>3 DEF ArrayInv, NoneBeyondNumber, NoTwins

\* Every step keeps the invariant; while the sort runs, it also keeps the
\* live particles.
LEMMA ArrayNext ==
  ASSUME ArrayInv, [Next]_vars
  PROVE  /\ ArrayInv'
         /\ pc # "idle" => {slot'[i] : i \in LiveSlots'} = {slot[i] : i \in LiveSlots}
<1>1. CASE \E c \in Cells : Append(c)
  BY <1>1, AppendKeeps DEF Append
<1>2. CASE \E n \in 1..2, c \in Cells : CopyFromBuffer(n, c)
  BY <1>2, CopyKeeps DEF CopyFromBuffer
<1>3. CASE \E total \in 0..NumCells :
             \E cellOf \in [0..(total - 1) -> Cells] : InjectPairs(total, cellOf)
  <2>1. pc = "idle"
    BY <1>3 DEF InjectPairs
  <2> QED
    BY <1>3, <2>1, InjectKeeps
<1>4. CASE \E i \in Slots, c \in Cells : Move(i, c)
  <2>1. PICK i \in Slots, c \in Cells : Move(i, c)
    BY <1>4
  <2>2. c \in 0..NumCells
    BY Sizes DEF Cells
  <2> QED
    BY <2>1, <2>2, MoveKeeps DEF Move
<1>5. CASE \E i \in Slots : Remove(i)
  <2>1. PICK i \in Slots : Remove(i)
    BY <1>5
  <2>2. empty_cell \in 0..NumCells
    BY Sizes DEF empty_cell
  <2> QED
    BY <2>1, <2>2, MoveKeeps DEF Remove
<1>6. CASE StartSort \/ Return \/ UNCHANGED vars
  <2>1. ArrayInv' /\ slot' = slot
    BY <1>6, StartReturn
  <2> QED
    BY <2>1 DEF LiveSlots
<1>7. CASE SortNothing
  BY <1>6, <1>7 DEF SortNothing
<1>8. CASE SortSegment
  BY <1>8, SortSegmentKeeps
<1>9. CASE FillHoles
  BY <1>9, FillHolesKeeps
<1>10. CASE NextSegment
  <2>1. ArrayInv' /\ slot' = slot
    BY <1>10, NextSegmentKeeps
  <2> QED
    BY <2>1 DEF LiveSlots
<1>11. CASE SetNum
  <2>1. ArrayInv' /\ slot' = slot
    BY <1>11, SetNumKeeps
  <2> QED
    BY <2>1 DEF LiveSlots
<1> QED
  BY <1>1, <1>2, <1>3, <1>4, <1>5, <1>6, <1>7, <1>8, <1>9, <1>10, <1>11 DEF Next, SortStep

\* The invariant holds in every state.
LEMMA ArrayInvariant == Spec => []ArrayInv
<1>1. Init => ArrayInv
  BY ArrayInit
<1>2. ArrayInv /\ [Next]_vars => ArrayInv'
  BY ArrayNext
<1> QED
  BY <1>1, <1>2, PTL DEF Spec

\* Live particles are always in slots that the loops of the code visit.
THEOREM NoneIsForgotten == Spec => []NoneBeyondNumber
<1>1. ArrayInv => NoneBeyondNumber
  BY DEF ArrayInv
<1> QED
  BY <1>1, ArrayInvariant, PTL

\* No particle is ever in two slots.
THEOREM NoneIsDoubled == Spec => []NoTwins
<1>1. ArrayInv => NoTwins
  BY DEF ArrayInv
<1> QED
  BY <1>1, ArrayInvariant, PTL

\* After the sort, number() is the number of live particles.
THEOREM SortCompacts == Spec => []Compacted
<1>1. ArrayInv => Compacted
  <2> SUFFICES ASSUME ArrayInv, pc = "sorted" PROVE number = Cardinality(LiveSlots)
    BY DEF Compacted
  <2>1. LiveSlots = 0..(number - 1) /\ number \in Nat
    BY Sizes DEF ArrayInv, SlotTypes
  <2>2. Cardinality(0..(number - 1)) = IF 0 > number - 1 THEN 0 ELSE (number - 1) - 0 + 1
    <3>1. 0 \in Int /\ number - 1 \in Int
      BY <2>1
    <3> QED
      BY <3>1, FS_Interval, Zenon
  <2> QED
    BY <2>1, <2>2
<1> QED
  BY <1>1, ArrayInvariant, PTL

\* The sort, hole filling included, neither loses, revives nor relabels a
\* particle.
THEOREM SortIsFaithful == Spec => SortKeepsParticles
<1> DEFINE A == pc # "idle" =>
                  {slot'[i] : i \in {i \in Slots : IsLive(slot'[i])}}
                    = {slot[i] : i \in LiveSlots}
<1>1. ArrayInv /\ [Next]_vars => [A]_vars
  <2> SUFFICES ASSUME ArrayInv, [Next]_vars, pc # "idle"
               PROVE  {slot'[i] : i \in {i \in Slots : IsLive(slot'[i])}}
                        = {slot[i] : i \in LiveSlots}
    OBVIOUS
  <2>1. {slot'[i] : i \in LiveSlots'} = {slot[i] : i \in LiveSlots}
    BY ArrayNext
  <2>2. LiveSlots' = {i \in Slots : IsLive(slot'[i])}
    BY DEF LiveSlots, IsLive
  <2> QED
    BY <2>1, <2>2
<1> QED
  BY <1>1, ArrayInvariant, PTL DEF Spec, SortKeepsParticles
=============================================================================
