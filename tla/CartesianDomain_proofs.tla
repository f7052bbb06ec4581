----------------------- MODULE CartesianDomain_proofs -----------------------
(* Facts about the Cartesian decomposition that the proofs about the *)
(* exchanges rest on.                                                *)
EXTENDS CartesianDomain, TLAPS

\* MPI_PROC_NULL is not a rank.
LEMMA NullIsNoRank == PROC_NULL \notin Rank
<1>1. 1 \in Axis
  BY DimAssumption DEF Axis
<1>2. \A r \in Rank : r[1] \in Nat
  BY <1>1, DimsAssumption DEF Rank, Coord, Axis
<1>3. PROC_NULL[1] = -1
  BY <1>1 DEF PROC_NULL
<1> QED
  BY <1>2, <1>3

\* The coordinates of a rank.
LEMMA RankCoord ==
  ASSUME NEW r \in Rank, NEW d \in Axis
  PROVE  /\ Dims[d] \in Nat \ {0}
         /\ r[d] \in 0..(Dims[d] - 1)
  BY DimsAssumption DEF Rank, Coord, Axis

\* Replacing one coordinate of a rank by another one gives a rank.
LEMMA RankExcept ==
  ASSUME NEW r \in Rank, NEW d \in Axis, NEW c \in 0..(Dims[d] - 1)
  PROVE  [r EXCEPT ![d] = c] \in Rank
<1>1. c \in Coord
  BY DEF Coord
<1>2. [r EXCEPT ![d] = c] \in [Axis -> Coord]
  BY <1>1 DEF Rank
<1>3. \A e \in Axis : [r EXCEPT ![d] = c][e] < Dims[e]
  BY RankCoord, DimsAssumption DEF Rank
<1> QED
  BY <1>2, <1>3 DEF Rank

\* A neighbour is a rank or MPI_PROC_NULL.
LEMMA NeighborType ==
  ASSUME NEW r \in Rank, NEW d \in Axis, NEW s \in {-1, 1}
  PROVE  Neighbor(r, d, s) \in Rank \cup {PROC_NULL}
<1>1. /\ Dims[d] \in Nat \ {0}
      /\ r[d] \in 0..(Dims[d] - 1)
  BY RankCoord
<1>2. CASE r[d] + s \in 0..(Dims[d] - 1)
  BY <1>2, RankExcept DEF Neighbor
<1>3. CASE r[d] + s \notin 0..(Dims[d] - 1)
  <2>1. /\ Dims[d] - 1 \in 0..(Dims[d] - 1)
        /\ 0 \in 0..(Dims[d] - 1)
    BY <1>1
  <2> QED
    BY <1>3, <2>1, RankExcept DEF Neighbor
<1> QED
  BY <1>2, <1>3

\* If q is the neighbour of r on one side, r is the neighbour of q on the
\* other: what MPI_Cart_shift promises the two ends of every MPI_Sendrecv.
LEMMA NeighborBack ==
  ASSUME NEW r \in Rank, NEW d \in Axis, NEW s \in {-1, 1},
         Neighbor(r, d, s) # PROC_NULL
  PROVE  Neighbor(Neighbor(r, d, s), d, -s) = r
<1> DEFINE q == Neighbor(r, d, s)
<1>1. /\ Dims[d] \in Nat \ {0}
      /\ r[d] \in 0..(Dims[d] - 1)
  BY RankCoord
<1>2. /\ r \in [Axis -> Coord]
      /\ \A c : [[r EXCEPT ![d] = c] EXCEPT ![d] = r[d]] = r
  BY DEF Rank
<1>3. CASE r[d] + s \in 0..(Dims[d] - 1)
  <2>1. q = [r EXCEPT ![d] = r[d] + s]
    BY <1>3 DEF Neighbor
  <2>2. q[d] + (-s) = r[d]
    BY <2>1, <1>1, <1>2
  <2> QED
    BY <2>1, <2>2, <1>1, <1>2 DEF Neighbor
<1>4. CASE r[d] + s \notin 0..(Dims[d] - 1)
  <2>1. Periodic[d]
    BY <1>4 DEF Neighbor
  <2>2. CASE s = -1
    <3>1. r[d] = 0 /\ q = [r EXCEPT ![d] = Dims[d] - 1]
      BY <1>1, <1>4, <2>1, <2>2 DEF Neighbor
    <3>2. q[d] = Dims[d] - 1
      BY <3>1, <1>2
    <3>3. Neighbor(q, d, 1) = [q EXCEPT ![d] = 0]
      BY <3>2, <1>1, <2>1 DEF Neighbor
    <3> QED
      BY <3>1, <3>3, <1>2, <2>2
  <2>3. CASE s = 1
    <3>1. r[d] = Dims[d] - 1 /\ q = [r EXCEPT ![d] = 0]
      BY <1>1, <1>4, <2>1, <2>3 DEF Neighbor
    <3>2. q[d] = 0
      BY <3>1, <1>2
    <3>3. Neighbor(q, d, -1) = [q EXCEPT ![d] = Dims[d] - 1]
      BY <3>2, <1>1, <2>1 DEF Neighbor
    <3> QED
      BY <3>1, <3>3, <1>2, <2>3
  <2> QED
    BY <2>2, <2>3
<1> QED
  BY <1>3, <1>4

-----------------------------------------------------------------------------
(* Phases *)

\* The axis and the direction of a phase.
LEMMA PhaseFacts ==
  ASSUME NEW k \in 1..(2 * Dim)
  PROVE  /\ PhaseAxis(k) \in Axis
         /\ PhaseDir(k) \in {-1, 1}
         /\ PhaseDir(k) = -1 =>
              k + 1 \in 1..(2 * Dim) /\ PhaseAxis(k + 1) = PhaseAxis(k)
                /\ PhaseDir(k + 1) = 1
         /\ PhaseDir(k) = 1 /\ k # 2 * Dim =>
              k + 1 \in 1..(2 * Dim) /\ PhaseAxis(k + 1) = PhaseAxis(k) + 1
                /\ PhaseDir(k + 1) = -1
         /\ k = 2 * Dim => PhaseDir(k) = 1 /\ PhaseAxis(k) = Dim
         /\ k = 1 => PhaseDir(k) = -1 /\ PhaseAxis(k) = 1
<1>1. Dim \in {1, 2, 3}
  BY DimAssumption
<1>2. k \in {1, 2, 3, 4, 5, 6}
  BY <1>1
<1> QED
  BY <1>1, <1>2 DEF PhaseAxis, PhaseDir, Axis

\* Who sends to whom in a phase: r receives from q exactly if q sends to r.
THEOREM SourceDest ==
  ASSUME NEW k \in 1..(2 * Dim), NEW r \in Rank
  PROVE  /\ Dest(r, k) \in Rank \cup {PROC_NULL}
         /\ Source(r, k) \in Rank \cup {PROC_NULL}
         /\ Dest(r, k) # PROC_NULL => Source(Dest(r, k), k) = r
         /\ Source(r, k) # PROC_NULL => Dest(Source(r, k), k) = r
<1>1. /\ PhaseAxis(k) \in Axis
      /\ PhaseDir(k) \in {-1, 1}
      /\ -PhaseDir(k) \in {-1, 1}
      /\ -(-PhaseDir(k)) = PhaseDir(k)
  BY PhaseFacts
<1>2. /\ Dest(r, k) \in Rank \cup {PROC_NULL}
      /\ Source(r, k) \in Rank \cup {PROC_NULL}
  BY <1>1, NeighborType DEF Dest, Source
<1>3. ASSUME Dest(r, k) # PROC_NULL PROVE Source(Dest(r, k), k) = r
  BY <1>1, <1>3, NeighborBack DEF Dest, Source
<1>4. ASSUME Source(r, k) # PROC_NULL PROVE Dest(Source(r, k), k) = r
  BY <1>1, <1>4, NeighborBack DEF Dest, Source
<1> QED
  BY <1>2, <1>3, <1>4

-----------------------------------------------------------------------------
(* Positions *)

\* Domains of consecutive ranks follow each other without overlap.
LEMMA ScaleMonotone ==
  ASSUME NEW a \in Int, NEW b \in Int, NEW n \in Nat, a <= b
  PROVE  a * n <= b * n
<1>1. \A u, v \in Nat : u * v >= 0
  BY SMT
<1>2. (b - a) * n >= 0
  BY <1>1
<1>3. (b - a) * n = b * n - a * n
  BY SMT
<1> QED
  BY <1>2, <1>3

\* Every position of the global domain has exactly one owner.
THEOREM OneOwner ==
  ASSUME NEW x \in Domain
  PROVE  /\ Owner(x) \in Rank
         /\ \A r \in Rank : InDomain(r, x) <=> r = Owner(x)
<1>1. N \in Nat \ {0}
  BY CellAssumption
<1>2. ASSUME NEW d \in Axis
      PROVE  /\ Dims[d] \in Nat \ {0}
             /\ x[d] \in Nat /\ x[d] < Dims[d] * N
  BY DimsAssumption, <1>1 DEF Domain, Axis
<1>3. ASSUME NEW a \in Nat
      PROVE  /\ a \div N \in Nat
             /\ (a \div N) * N <= a /\ a < (a \div N + 1) * N
  BY <1>1, SMT
<1>4. ASSUME NEW a \in Nat, NEW b \in Nat, NEW y \in Nat,
             a * N <= y, y < (b + 1) * N
      PROVE  a <= b
  <2>1. CASE b + 1 <= a
    <3>1. (b + 1) * N <= a * N
      BY <2>1, <1>1, ScaleMonotone
    <3> QED
      BY <3>1, <1>4, <1>1
  <2> QED
    BY <2>1
<1>5. ASSUME NEW d \in Axis
      PROVE  /\ Owner(x)[d] \in 0..(Dims[d] - 1)
             /\ Owner(x)[d] * N <= x[d] /\ x[d] < (Owner(x)[d] + 1) * N
  <2>1. Owner(x)[d] = x[d] \div N
    BY DEF Owner
  <2>2. Dims[d] - 1 \in Nat /\ x[d] < ((Dims[d] - 1) + 1) * N
    BY <1>2
  <2>3. x[d] \div N <= Dims[d] - 1
    BY <1>2, <1>3, <1>4, <2>2
  <2> QED
    BY <1>2, <1>3, <2>1, <2>3
<1>6. Owner(x) \in Rank
  BY <1>5, DimsAssumption DEF Owner, Rank, Coord
<1>7. InDomain(Owner(x), x)
  BY <1>5 DEF InDomain
<1>8. ASSUME NEW r \in Rank, InDomain(r, x) PROVE r = Owner(x)
  <2>1. ASSUME NEW d \in Axis PROVE r[d] = Owner(x)[d]
    <3>1. r[d] \in Nat /\ Owner(x)[d] \in Nat
      BY <1>6, RankCoord
    <3>2. /\ r[d] * N <= x[d] /\ x[d] < (r[d] + 1) * N
          /\ Owner(x)[d] * N <= x[d] /\ x[d] < (Owner(x)[d] + 1) * N
      BY <1>8, <1>5 DEF InDomain
    <3>3. r[d] <= Owner(x)[d] /\ Owner(x)[d] <= r[d]
      BY <3>1, <3>2, <1>2, <1>4
    <3> QED
      BY <3>1, <3>3
  <2> QED
    BY <2>1, <1>6 DEF Rank
<1> QED
  BY <1>6, <1>7, <1>8
=============================================================================
