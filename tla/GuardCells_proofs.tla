------------------------- MODULE GuardCells_proofs -------------------------
(***************************************************************************)
(* Proofs about the exchange of guard cells, for any number of ranks in    *)
(* one to three dimensions, any topology, extents and number of steps.     *)
(***************************************************************************)
EXTENDS GuardCells, CartesianDomain_proofs, TLAPS

-----------------------------------------------------------------------------
(* The inductive invariant behind PhasesMatch, InteriorComplete and HaloAgrees *)

\* A rank is done exactly when it has taken all its steps.
StepsLeft == \A r \in Rank : At(r, "done") <=> step[r] = MaxStep

\* Rank r has started, and has returned from, the exchange of phase k of step t.
Posted(r, t, k) ==
  \/ t < step[r]
  \/ /\ t = step[r]
     /\ \/ stage[r] = "send" /\ k < phase[r]
        \/ stage[r] = "recv" /\ k <= phase[r]
        \/ stage[r] = "ready"
Taken(r, t, k) ==
  \/ t < step[r]
  \/ /\ t = step[r]
     /\ \/ stage[r] \in {"send", "recv"} /\ k < phase[r]
        \/ stage[r] = "ready"

\* Every message was posted for the neighbour of its phase and is not taken,
InFlight ==
  \A m \in net :
    /\ m.dst = To(m.src, m.phase)
    /\ ~ShortCut(m.src, m.phase)
    /\ Posted(m.src, m.step, m.phase)
    /\ ~Taken(m.dst, m.step, m.phase)

\* there is one at most for each receiver, step and phase,
NoSecond ==
  \A m, n \in net :
    m.dst = n.dst /\ m.step = n.step /\ m.phase = n.phase => m = n

\* none is lost,
NoneMissing ==
  \A r \in Rank, t \in 0..(MaxStep - 1), k \in Phases :
    /\ From(r, k) # PROC_NULL /\ ~ShortCut(r, k)
    /\ Posted(From(r, k), t, k) /\ ~Taken(r, t, k)
    => \E m \in net : m.dst = r /\ m.step = t /\ m.phase = k

\* and none is received before it is sent.
NoneEarly ==
  \A r \in Rank, t \in 0..(MaxStep - 1), k \in Phases :
    From(r, k) # PROC_NULL /\ Taken(r, t, k) => Posted(From(r, k), t, k)

\* Along one axis: the coordinate of the neighbour on side s, or -1.
Beside(d, i, s) ==
  IF i + s \in 0..(Dims[d] - 1) THEN i + s
  ELSE IF ~Periodic[d] THEN -1 ELSE IF i + s < 0 THEN Dims[d] - 1 ELSE 0

\* Along axis d: a deposit made at local index x of coordinate o is found at
\* local index c of coordinate i before any exchange, after the first and the
\* second adding one, and after the first and the second copying one.
Raw(i, c, o, x) == i = o /\ c = x
HalfAdded(d, i, c, o, x) ==
  \/ Raw(i, c, o, x)
  \/ c \in N..(N + G - 1) /\ Beside(d, i, 1) = o /\ x = c - N
AllAdded(d, i, c, o, x) ==
  \/ HalfAdded(d, i, c, o, x)
  \/ c \in G..(2 * G - 1) /\ Beside(d, i, -1) = o /\ x = c + N
HalfCopied(d, i, c, o, x) ==
  IF c \in (N + G)..(W - 1) /\ Beside(d, i, 1) # -1
  THEN AllAdded(d, Beside(d, i, 1), c - N, o, x) ELSE AllAdded(d, i, c, o, x)
AllCopied(d, i, c, o, x) ==
  IF c \in 0..(G - 1) /\ Beside(d, i, -1) # -1
  THEN HalfCopied(d, Beside(d, i, -1), c + N, o, x) ELSE HalfCopied(d, i, c, o, x)

\* The same by what is behind a rank that is about to do phase k.
Here(k, d, i, c, o, x) ==
  IF k <= 2 * d - 1 THEN Raw(i, c, o, x)
  ELSE IF k = 2 * d THEN HalfAdded(d, i, c, o, x)
  ELSE IF k <= 2 * Dim + 2 * d - 1 THEN AllAdded(d, i, c, o, x)
  ELSE IF k = 2 * Dim + 2 * d THEN HalfCopied(d, i, c, o, x)
  ELSE AllCopied(d, i, c, o, x)

\* What local cell c of r holds of the deposit of step n before phase k.
Share(k, r, c, n) ==
  IF \A d \in Axis : Here(k, d, r[d], c[d], site[n][1][d], site[n][2][d])
  THEN 1 ELSE 0

\* The cell that is sent for cell c of the receiver.
SentFor(k, c) == [c EXCEPT ![PhaseAxis(Sub(k))] = @ - RecvIdx(k) + SendIdx(k)]

\* Every array and every message holds its share, axis by axis.
Shares ==
  /\ \A r \in Rank :
       /\ stage[r] \in {"send", "recv"} =>
            val[r] = [c \in Cell |-> Share(phase[r], r, c, step[r])]
       /\ stage[r] = "ready" =>
            val[r] = [c \in Cell |-> Share(4 * Dim + 1, r, c, step[r])]
  /\ \A m \in net :
       m.load = [c \in Slab(m.phase) |-> Share(m.phase, m.src, SentFor(m.phase, c), m.step)]

-----------------------------------------------------------------------------
(* One axis *)

\* Extents.
LEMMA Lengths ==
  /\ N \in Nat /\ G \in Nat /\ 1 <= G /\ G <= N /\ W = N + 2 * G /\ W \in Nat
  /\ Dim \in Nat /\ Dim \in {1, 2, 3}
  BY CellAssumption, DimAssumption DEF W

\* Coordinates of neighbours, and the way back.
LEMMA BesideFacts ==
  ASSUME NEW d \in Axis, NEW i \in 0..(Dims[d] - 1), NEW s \in {-1, 1}
  PROVE  /\ Beside(d, i, s) \in Int
         /\ Beside(d, i, s) # -1 =>
              /\ Beside(d, i, s) \in 0..(Dims[d] - 1)
              /\ Beside(d, Beside(d, i, s), -s) = i
<1>1. Dims[d] \in Nat \ {0}
  BY DimsAssumption
<1>2. CASE s = 1
  BY <1>1, <1>2 DEF Beside
<1>3. CASE s = -1
  BY <1>1, <1>3 DEF Beside
<1> QED
  BY <1>2, <1>3

\* The neighbour of a rank along an axis, by its coordinate.
LEMMA NeighborBeside ==
  ASSUME NEW r \in Rank, NEW d \in Axis, NEW s \in {-1, 1}
  PROVE  /\ Beside(d, r[d], s) = -1 <=> Neighbor(r, d, s) = PROC_NULL
         /\ Neighbor(r, d, s) # PROC_NULL =>
              Neighbor(r, d, s) = [r EXCEPT ![d] = Beside(d, r[d], s)]
<1>1. Dims[d] \in Nat \ {0} /\ r[d] \in 0..(Dims[d] - 1)
  BY RankCoord
<1>2. /\ r[d] + s \in 0..(Dims[d] - 1) => [r EXCEPT ![d] = r[d] + s] # PROC_NULL
      /\ [r EXCEPT ![d] = Dims[d] - 1] # PROC_NULL
      /\ [r EXCEPT ![d] = 0] # PROC_NULL
  BY <1>1, RankExcept, NullIsNoRank
<1>3. CASE r[d] + s \in 0..(Dims[d] - 1)
  BY <1>1, <1>2, <1>3 DEF Neighbor, Beside
<1>4. CASE r[d] + s \notin 0..(Dims[d] - 1) /\ ~Periodic[d]
  BY <1>4 DEF Neighbor, Beside
<1>5. CASE r[d] + s \notin 0..(Dims[d] - 1) /\ Periodic[d] /\ r[d] + s < 0
  <2>1. /\ Neighbor(r, d, s) = [r EXCEPT ![d] = Dims[d] - 1]
        /\ Beside(d, r[d], s) = Dims[d] - 1
    BY <1>5 DEF Neighbor, Beside
  <2> QED
    BY <1>1, <1>2, <2>1
<1>6. CASE r[d] + s \notin 0..(Dims[d] - 1) /\ Periodic[d] /\ ~(r[d] + s < 0)
  <2>1. /\ Neighbor(r, d, s) = [r EXCEPT ![d] = 0]
        /\ Beside(d, r[d], s) = 0
    BY <1>6 DEF Neighbor, Beside
  <2> QED
    BY <1>1, <1>2, <2>1
<1> QED
  BY <1>3, <1>4, <1>5, <1>6

\* A cell takes the deposit of its own or of the matching guard cell, never
\* both.
LEMMA AddLeft ==
  ASSUME NEW d \in Axis, NEW i \in 0..(Dims[d] - 1), NEW o \in 0..(Dims[d] - 1),
         NEW c \in 0..(W - 1), NEW x \in 0..(W - 1)
  PROVE  LET b == Beside(d, i, 1) IN
         IF c \in N..(N + G - 1) /\ b # -1
         THEN /\ HalfAdded(d, i, c, o, x) <=> Raw(i, c, o, x) \/ Raw(b, c - N, o, x)
              /\ ~(Raw(i, c, o, x) /\ Raw(b, c - N, o, x))
         ELSE HalfAdded(d, i, c, o, x) <=> Raw(i, c, o, x)
  BY Lengths, BesideFacts DEF HalfAdded, Raw

\* The same for the second adding exchange, after the first.
LEMMA AddRight ==
  ASSUME NEW d \in Axis, NEW i \in 0..(Dims[d] - 1), NEW o \in 0..(Dims[d] - 1),
         NEW c \in 0..(W - 1), NEW x \in 0..(W - 1)
  PROVE  LET b == Beside(d, i, -1) IN
         IF c \in G..(2 * G - 1) /\ b # -1
         THEN /\ AllAdded(d, i, c, o, x) <=>
                   HalfAdded(d, i, c, o, x) \/ HalfAdded(d, b, c + N, o, x)
              /\ ~(HalfAdded(d, i, c, o, x) /\ HalfAdded(d, b, c + N, o, x))
         ELSE AllAdded(d, i, c, o, x) <=> HalfAdded(d, i, c, o, x)
<1> DEFINE b == Beside(d, i, -1)
<1>1. b \in Int
  BY BesideFacts
<1>2. CASE c \in G..(2 * G - 1) /\ b # -1
  <2>1. HalfAdded(d, b, c + N, o, x) <=> b = o /\ x = c + N
    BY <1>2, Lengths DEF HalfAdded, Raw
  <2> QED
    BY <1>2, <2>1, Lengths DEF AllAdded, HalfAdded, Raw
<1>3. CASE ~(c \in G..(2 * G - 1) /\ b # -1)
  BY <1>3, Lengths DEF AllAdded
<1> QED
  BY <1>2, <1>3

\* The copy of a cell along axis d that all others are refreshed from.
Home(d, i, c) ==
  IF c \in 0..(G - 1) /\ Beside(d, i, -1) # -1 THEN <<Beside(d, i, -1), c + N>>
  ELSE IF c \in (N + G)..(W - 1) /\ Beside(d, i, 1) # -1
  THEN <<Beside(d, i, 1), c - N>>
  ELSE <<i, c>>

\* A position along axis d, taken into the period.
Spot(d, p) ==
  IF ~Periodic[d] THEN p
  ELSE IF p < 0 THEN p + Dims[d] * N
  ELSE IF p >= Dims[d] * N THEN p - Dims[d] * N
  ELSE p

\* Inside a domain or at an open end the home of a cell is the cell itself.
LEMMA HomeFacts ==
  ASSUME NEW d \in Axis, NEW i \in 0..(Dims[d] - 1), NEW c \in 0..(W - 1)
  PROVE  LET h == Home(d, i, c) IN
         /\ h[1] \in 0..(Dims[d] - 1) /\ h[2] \in 0..(W - 1)
         /\ c \in G..(N + G - 1) => h = <<i, c>>
         /\ \/ h[2] \in G..(N + G - 1)
            \/ h[2] \in 0..(G - 1) /\ Beside(d, h[1], -1) = -1
            \/ h[2] \in (N + G)..(W - 1) /\ Beside(d, h[1], 1) = -1
  BY Lengths, BesideFacts DEF Home

\* A home is its own home.
LEMMA HomeOfHome ==
  ASSUME NEW d \in Axis, NEW i \in 0..(Dims[d] - 1), NEW c \in 0..(W - 1)
  PROVE  LET h == Home(d, i, c) IN
         /\ h = <<h[1], h[2]>>
         /\ h[1] \in 0..(Dims[d] - 1) /\ h[2] \in 0..(W - 1)
         /\ Home(d, h[1], h[2]) = h
<1> DEFINE h == Home(d, i, c)
<1>1. h = <<h[1], h[2]>>
  BY DEF Home
<1>2. /\ h[1] \in 0..(Dims[d] - 1) /\ h[2] \in 0..(W - 1)
      /\ \/ h[2] \in G..(N + G - 1)
         \/ h[2] \in 0..(G - 1) /\ Beside(d, h[1], -1) = -1
         \/ h[2] \in (N + G)..(W - 1) /\ Beside(d, h[1], 1) = -1
  BY HomeFacts
<1> HIDE DEF h
<1>3. Home(d, h[1], h[2]) = <<h[1], h[2]>>
  BY <1>2, Lengths DEF Home
<1> QED
  BY <1>1, <1>2, <1>3 DEF h

\* After the adding exchanges a home holds what any of its copies was given.
LEMMA AddedIsHome ==
  ASSUME NEW d \in Axis, NEW i \in 0..(Dims[d] - 1), NEW o \in 0..(Dims[d] - 1),
         NEW c \in 0..(W - 1), NEW x \in 0..(W - 1), Home(d, i, c) = <<i, c>>
  PROVE  AllAdded(d, i, c, o, x) <=> Home(d, o, x) = <<i, c>>
<1>1. /\ Beside(d, i, 1) \in Int /\ Beside(d, i, -1) \in Int
      /\ Beside(d, o, 1) \in Int /\ Beside(d, o, -1) \in Int
      /\ Beside(d, i, 1) # -1 => Beside(d, Beside(d, i, 1), -1) = i
      /\ Beside(d, i, -1) # -1 => Beside(d, Beside(d, i, -1), 1) = i
      /\ Beside(d, o, 1) # -1 => Beside(d, Beside(d, o, 1), -1) = o
      /\ Beside(d, o, -1) # -1 => Beside(d, Beside(d, o, -1), 1) = o
  BY BesideFacts
<1>2. /\ c \in 0..(G - 1) => Beside(d, i, -1) = -1
      /\ c \in (N + G)..(W - 1) => Beside(d, i, 1) = -1
  BY <1>1, Lengths DEF Home
<1>3. ASSUME AllAdded(d, i, c, o, x) PROVE Home(d, o, x) = <<i, c>>
  <2>1. CASE Raw(i, c, o, x)
    BY <2>1 DEF Raw
  <2>2. CASE c \in N..(N + G - 1) /\ Beside(d, i, 1) = o /\ x = c - N
    <3>1. Beside(d, o, -1) = i /\ i # -1 /\ x \in 0..(G - 1) /\ x + N = c
      BY <1>1, <2>2, Lengths
    <3> QED
      BY <3>1 DEF Home
  <2>3. CASE c \in G..(2 * G - 1) /\ Beside(d, i, -1) = o /\ x = c + N
    <3>1. /\ Beside(d, o, 1) = i /\ i # -1 /\ x \in (N + G)..(W - 1)
          /\ x - N = c /\ x \notin 0..(G - 1)
      BY <1>1, <2>3, Lengths
    <3> QED
      BY <3>1 DEF Home
  <2> QED
    BY <1>3, <2>1, <2>2, <2>3 DEF AllAdded, HalfAdded
<1>4. ASSUME Home(d, o, x) = <<i, c>> PROVE AllAdded(d, i, c, o, x)
  <2>1. CASE x \in 0..(G - 1) /\ Beside(d, o, -1) # -1
    <3>1. Beside(d, o, -1) = i /\ x + N = c
      BY <1>4, <2>1 DEF Home
    <3> QED
      BY <1>1, <2>1, <3>1, Lengths DEF AllAdded, HalfAdded
  <2>2. CASE x \in (N + G)..(W - 1) /\ Beside(d, o, 1) # -1
    <3>1. Beside(d, o, 1) = i /\ x - N = c
      BY <1>4, <2>2, Lengths DEF Home
    <3> QED
      BY <1>1, <2>2, <3>1, Lengths DEF AllAdded, HalfAdded
  <2>3. CASE Home(d, o, x) = <<o, x>>
    BY <1>4, <2>3 DEF AllAdded, HalfAdded, Raw
  <2> QED
    BY <2>1, <2>2, <2>3 DEF Home
<1> QED
  BY <1>3, <1>4

\* The copying exchanges bring to each cell what its home holds.
LEMMA CopiedFromHome ==
  ASSUME NEW d \in Axis, NEW i \in 0..(Dims[d] - 1), NEW o \in 0..(Dims[d] - 1),
         NEW c \in 0..(W - 1), NEW x \in 0..(W - 1)
  PROVE  /\ AllCopied(d, i, c, o, x) <=> Home(d, o, x) = Home(d, i, c)
         /\ c \in G..(N + G - 1) =>
              /\ AllAdded(d, i, c, o, x) <=> AllCopied(d, i, c, o, x)
              /\ HalfCopied(d, i, c, o, x) <=> AllCopied(d, i, c, o, x)
<1> DEFINE h == Home(d, i, c)
<1>1. /\ h = <<h[1], h[2]>>
      /\ h[1] \in 0..(Dims[d] - 1) /\ h[2] \in 0..(W - 1)
      /\ Home(d, h[1], h[2]) = h
  BY HomeOfHome
<1>2. AllCopied(d, i, c, o, x) <=> AllAdded(d, h[1], h[2], o, x)
  BY Lengths DEF AllCopied, HalfCopied, Home
<1>3. AllAdded(d, h[1], h[2], o, x) <=> Home(d, o, x) = h
  BY <1>1, AddedIsHome
<1>4. c \in G..(N + G - 1) =>
        /\ AllAdded(d, i, c, o, x) <=> AllCopied(d, i, c, o, x)
        /\ HalfCopied(d, i, c, o, x) <=> AllCopied(d, i, c, o, x)
  BY Lengths DEF AllCopied, HalfCopied
<1> QED
  BY <1>2, <1>3, <1>4

-----------------------------------------------------------------------------
(* Positions *)

\* The multiples of N that a rank and its neighbours begin at.
LEMMA Multiples ==
  ASSUME NEW d \in Axis
  PROVE  /\ Dims[d] * N \in Nat
         /\ (Dims[d] - 1) * N = Dims[d] * N - N
         /\ \A i \in 0..(Dims[d] - 1) :
              /\ i * N \in Nat /\ i * N + N <= Dims[d] * N
              /\ (i + 1) * N = i * N + N /\ (i - 1) * N = i * N - N
         /\ \A i, j \in 0..(Dims[d] - 1) : i < j => i * N + N <= j * N
<1>1. Dims[d] \in Nat \ {0} /\ N \in Nat
  BY DimsAssumption, Lengths
<1>2. \A i \in Int : i * N \in Int /\ (i + 1) * N = i * N + N
                       /\ (i - 1) * N = i * N - N
  BY <1>1
<1>3. \A i \in Nat : i * N \in Nat
  BY <1>1
<1>4. ASSUME NEW i \in Nat, NEW j \in Nat, i < j PROVE i * N + N <= j * N
  <2>1. (i + 1) * N <= j * N
    BY <1>1, <1>4, ScaleMonotone
  <2> QED
    BY <1>2, <2>1
<1> QED
  BY <1>1, <1>2, <1>3, <1>4

\* The position of a local cell.
Place(i, c) == i * N + c - G

\* The cases of a position: open axis, before, behind and inside the period.
LEMMA SpotFacts ==
  ASSUME NEW d \in Axis, NEW v \in Int, NEW l \in Int, l = Dims[d] * N
  PROVE  /\ ~Periodic[d] => Spot(d, v) = v
         /\ Periodic[d] /\ v < 0 => Spot(d, v) = v + l
         /\ Periodic[d] /\ v >= l /\ v >= 0 => Spot(d, v) = v - l
         /\ v >= 0 /\ v < l => Spot(d, v) = v
  BY DEF Spot

\* A home is where its copies are, up to the period.
LEMMA HomePlace ==
  ASSUME NEW d \in Axis, NEW i \in 0..(Dims[d] - 1), NEW c \in 0..(W - 1)
  PROVE  LET h == Home(d, i, c) IN Place(h[1], h[2]) = Spot(d, Place(i, c))
<1> DEFINE L == Dims[d] * N
           p == i * N
<1>1. /\ Dims[d] \in Nat \ {0} /\ L \in Nat /\ p \in Nat /\ p + N <= L
      /\ (Dims[d] - 1) * N = L - N /\ 0 * N = 0
      /\ (i + 1) * N = p + N /\ (i - 1) * N = p - N
      /\ i # 0 => N <= p
      /\ i # Dims[d] - 1 => p + 2 * N <= L
      /\ i = 0 => p = 0
      /\ i = Dims[d] - 1 => p = L - N
  <2>1. Dims[d] \in Nat \ {0} /\ N \in Nat
    BY DimsAssumption, Lengths
  <2>2. L \in Nat /\ p \in Nat /\ p + N <= L /\ (Dims[d] - 1) * N = L - N
          /\ (i + 1) * N = p + N /\ (i - 1) * N = p - N
    BY Multiples
  <2>3. 0 * N = 0
    BY <2>1
  <2>4. i # 0 => N <= p
    BY <2>1, <2>3, Multiples
  <2>5. i # Dims[d] - 1 => p + 2 * N <= L
    <3>1. i # Dims[d] - 1 => p + N <= (Dims[d] - 1) * N
      BY <2>1, Multiples
    <3> QED
      BY <2>1, <2>2, <3>1
  <2> QED
    BY <2>1, <2>2, <2>3, <2>4, <2>5
<1>2. Place(i, c) = p + c - G
  BY DEF Place
<1>3. L \in Int /\ Place(i, c) \in Int /\ L = Dims[d] * N
  BY <1>1, <1>2, Lengths
<1> HIDE DEF L, p
<1>s. /\ ~Periodic[d] => Spot(d, Place(i, c)) = Place(i, c)
      /\ Periodic[d] /\ Place(i, c) < 0 => Spot(d, Place(i, c)) = Place(i, c) + L
      /\ Periodic[d] /\ Place(i, c) >= L /\ Place(i, c) >= 0 =>
           Spot(d, Place(i, c)) = Place(i, c) - L
      /\ Place(i, c) >= 0 /\ Place(i, c) < L => Spot(d, Place(i, c)) = Place(i, c)
  BY <1>3, SpotFacts
<1>4. CASE c \in G..(N + G - 1)
  <2>1. Home(d, i, c) = <<i, c>>
    BY <1>4, HomeFacts
  <2> QED
    BY <1>1, <1>2, <1>4, <1>s, <2>1, Lengths
<1>5. CASE c \in 0..(G - 1)
  <2>1. CASE i # 0
    <3>1. Home(d, i, c) = <<i - 1, c + N>>
      BY <1>1, <1>5, <2>1 DEF Home, Beside
    <3>2. Place(i - 1, c + N) = p + c - G
      BY <1>1, <3>1, Lengths DEF Place
    <3> QED
      BY <1>1, <1>2, <1>5, <1>s, <2>1, <3>1, <3>2, Lengths
  <2>2. CASE i = 0 /\ Periodic[d]
    <3>1. Home(d, i, c) = <<Dims[d] - 1, c + N>>
      BY <1>1, <1>5, <2>2 DEF Home, Beside
    <3>2. Place(Dims[d] - 1, c + N) = L + c - G
      BY <1>1, <3>1, Lengths DEF Place
    <3> QED
      BY <1>1, <1>2, <1>5, <1>s, <2>2, <3>1, <3>2, Lengths
  <2>3. CASE i = 0 /\ ~Periodic[d]
    <3>1. Home(d, i, c) = <<i, c>>
      BY <1>1, <1>5, <2>3, Lengths DEF Home, Beside
    <3> QED
      BY <1>2, <1>s, <2>3, <3>1
  <2> QED
    BY <2>1, <2>2, <2>3
<1>6. CASE c \in (N + G)..(W - 1)
  <2>0. c \notin 0..(G - 1)
    BY <1>6, Lengths
  <2>1. CASE i # Dims[d] - 1
    <3>1. Home(d, i, c) = <<i + 1, c - N>>
      BY <1>1, <1>6, <2>0, <2>1 DEF Home, Beside
    <3>2. Place(i + 1, c - N) = p + c - G
      BY <1>1, <3>1, Lengths DEF Place
    <3> QED
      BY <1>1, <1>2, <1>6, <1>s, <2>1, <3>1, <3>2, Lengths
  <2>2. CASE i = Dims[d] - 1 /\ Periodic[d]
    <3>1. Home(d, i, c) = <<0, c - N>>
      BY <1>1, <1>6, <2>0, <2>2 DEF Home, Beside
    <3>2. Place(0, c - N) = c - N - G
      BY <1>1, <3>1, Lengths DEF Place
    <3>3. p = L - N /\ p \in Nat /\ L \in Nat
      BY <1>1, <2>2
    <3>4. Spot(d, Place(i, c)) = c - N - G
      BY <1>2, <1>6, <1>s, <2>2, <3>3, Lengths
    <3> QED
      BY <1>2, <3>1, <3>2, <3>4
  <2>3. CASE i = Dims[d] - 1 /\ ~Periodic[d]
    <3>1. Home(d, i, c) = <<i, c>>
      BY <1>1, <1>6, <2>0, <2>3 DEF Home, Beside
    <3> QED
      BY <1>2, <1>s, <2>3, <3>1
  <2> QED
    BY <2>1, <2>2, <2>3
<1> QED
  BY <1>4, <1>5, <1>6, Lengths

\* No two homes are at the same place.
LEMMA HomesApart ==
  ASSUME NEW d \in Axis, NEW i \in 0..(Dims[d] - 1), NEW o \in 0..(Dims[d] - 1),
         NEW c \in 0..(W - 1), NEW x \in 0..(W - 1),
         Home(d, i, c) = <<i, c>>, Home(d, o, x) = <<o, x>>,
         Place(i, c) = Place(o, x)
  PROVE  i = o /\ c = x
<1>1. Dims[d] \in Nat \ {0}
  BY DimsAssumption
<1>2. ASSUME NEW j \in 0..(Dims[d] - 1), NEW y \in 0..(W - 1),
             Home(d, j, y) = <<j, y>>
      PROVE  \/ y \in G..(N + G - 1)
             \/ y \in 0..(G - 1) /\ j = 0
             \/ y \in (N + G)..(W - 1) /\ j = Dims[d] - 1
  <2>1. \/ y \in G..(N + G - 1)
        \/ y \in 0..(G - 1) /\ Beside(d, j, -1) = -1
        \/ y \in (N + G)..(W - 1) /\ Beside(d, j, 1) = -1
    BY <1>2, HomeFacts
  <2>2. Beside(d, j, -1) = -1 => j = 0
    BY <1>1 DEF Beside
  <2>3. Beside(d, j, 1) = -1 => j = Dims[d] - 1
    BY <1>1 DEF Beside
  <2> QED
    BY <2>1, <2>2, <2>3
<1>3. ASSUME NEW j \in 0..(Dims[d] - 1), NEW y \in 0..(W - 1),
             NEW k \in 0..(Dims[d] - 1), NEW z \in 0..(W - 1),
             Home(d, j, y) = <<j, y>>, Home(d, k, z) = <<k, z>>, j < k
      PROVE  Place(j, y) < Place(k, z)
  <2>1. /\ j * N \in Nat /\ k * N \in Nat /\ j * N + N <= k * N
    BY <1>3, Multiples
  <2>2. y < N + G
    BY <1>1, <1>2, <1>3, Lengths
  <2>3. z >= G
    BY <1>1, <1>2, <1>3, Lengths
  <2> QED
    BY <2>1, <2>2, <2>3, Lengths DEF Place
<1>4. /\ Place(i, c) \in Int /\ Place(o, x) \in Int
      /\ i * N \in Nat
  BY Multiples, Lengths DEF Place
<1>5. i = o
  <2>1. ~(i < o) /\ ~(o < i)
    BY <1>3, <1>4
  <2> QED
    BY <2>1, <1>1
<1>6. c = x
  BY <1>4, <1>5, Lengths DEF Place
<1> QED
  BY <1>5, <1>6

\* Cells have the same home along every axis exactly when they stand for the
\* same position.
LEMMA HomesMeet ==
  ASSUME NEW r \in Rank, NEW q \in Rank, NEW c \in Cell, NEW x \in Cell
  PROVE  (\A d \in Axis : Home(d, q[d], x[d]) = Home(d, r[d], c[d]))
           <=> Global(r, c) = Global(q, x)
<1>1. ASSUME NEW d \in Axis
      PROVE  /\ r[d] \in 0..(Dims[d] - 1) /\ q[d] \in 0..(Dims[d] - 1)
             /\ c[d] \in 0..(W - 1) /\ x[d] \in 0..(W - 1)
  BY RankCoord DEF Cell
<1>2. ASSUME NEW d \in Axis
      PROVE  Home(d, q[d], x[d]) = Home(d, r[d], c[d])
               <=> Spot(d, Place(r[d], c[d])) = Spot(d, Place(q[d], x[d]))
  <2> DEFINE h == Home(d, r[d], c[d])
             g == Home(d, q[d], x[d])
  <2>1. /\ h = <<h[1], h[2]>> /\ g = <<g[1], g[2]>>
        /\ h[1] \in 0..(Dims[d] - 1) /\ h[2] \in 0..(W - 1)
        /\ g[1] \in 0..(Dims[d] - 1) /\ g[2] \in 0..(W - 1)
        /\ Home(d, h[1], h[2]) = h /\ Home(d, g[1], g[2]) = g
    BY <1>1, HomeOfHome
  <2>2. /\ Place(h[1], h[2]) = Spot(d, Place(r[d], c[d]))
        /\ Place(g[1], g[2]) = Spot(d, Place(q[d], x[d]))
    BY <1>1, HomePlace
  <2> HIDE DEF h, g
  <2>3. Place(h[1], h[2]) = Place(g[1], g[2]) => h = g
    BY <2>1, HomesApart
  <2> QED
    BY <2>2, <2>3 DEF h, g
<1>3. /\ Global(r, c) = [d \in Axis |-> Spot(d, Place(r[d], c[d]))]
      /\ Global(q, x) = [d \in Axis |-> Spot(d, Place(q[d], x[d]))]
  BY DEF Global, Wrap, Spot, Place
<1>4. Global(r, c) = Global(q, x) <=>
        \A d \in Axis : Spot(d, Place(r[d], c[d])) = Spot(d, Place(q[d], x[d]))
  BY <1>3
<1> QED
  BY <1>2, <1>4

-----------------------------------------------------------------------------
(* Phases *)

\* The axis of phase k, the way its slab travels, and how far.
LEMMA PhaseKind ==
  ASSUME NEW k \in Phases
  PROVE  LET a == PhaseAxis(Sub(k))
             s == PhaseDir(Sub(k)) IN
         /\ k \in Nat /\ Sub(k) \in 1..(2 * Dim)
         /\ a \in Axis /\ s \in {-1, 1}
         /\ \/ k = 2 * a - 1 /\ Adds(k) /\ s = -1 /\ RecvIdx(k) = N /\ SendIdx(k) = 0
            \/ k = 2 * a /\ Adds(k) /\ s = 1 /\ RecvIdx(k) = G /\ SendIdx(k) = N + G
            \/ /\ k = 2 * Dim + 2 * a - 1 /\ ~Adds(k) /\ s = -1
               /\ RecvIdx(k) = N + G /\ SendIdx(k) = G
            \/ /\ k = 2 * Dim + 2 * a /\ ~Adds(k) /\ s = 1
               /\ RecvIdx(k) = 0 /\ SendIdx(k) = N
<1> DEFINE j == Sub(k)
<1>1. Dim \in {1, 2, 3} /\ k \in 1..(4 * Dim)
  BY Lengths DEF Phases
<1>2. /\ k \in Nat /\ j \in 1..(2 * Dim)
      /\ Adds(k) => j = k
      /\ ~Adds(k) => j = k - 2 * Dim
  BY <1>1 DEF Adds, Sub
<1>3. j \in {1, 2, 3, 4, 5, 6}
  BY <1>1, <1>2
<1> HIDE DEF j
<1>4. /\ PhaseAxis(j) \in Axis /\ PhaseDir(j) \in {-1, 1}
      /\ PhaseDir(j) = -1 => j = 2 * PhaseAxis(j) - 1
      /\ PhaseDir(j) = 1 => j = 2 * PhaseAxis(j)
  BY <1>1, <1>2, <1>3 DEF PhaseAxis, PhaseDir, Axis
<1>5. /\ Adds(k) /\ PhaseDir(j) = -1 => RecvIdx(k) = N /\ SendIdx(k) = 0
      /\ Adds(k) /\ PhaseDir(j) = 1 => RecvIdx(k) = G /\ SendIdx(k) = N + G
      /\ ~Adds(k) /\ PhaseDir(j) = -1 => RecvIdx(k) = N + G /\ SendIdx(k) = G
      /\ ~Adds(k) /\ PhaseDir(j) = 1 => RecvIdx(k) = 0 /\ SendIdx(k) = N
  BY Lengths DEF RecvIdx, SendIdx, j
<1>6. k = IF Adds(k) THEN j ELSE 2 * Dim + j
  BY <1>1, <1>2
<1> QED
  BY <1>1, <1>2, <1>4, <1>5, <1>6 DEF j

\* A phase changes what arrives along its own axis only.
LEMMA HereOther ==
  ASSUME NEW k \in Phases, NEW d \in Axis, d # PhaseAxis(Sub(k)),
         NEW i, NEW c, NEW o, NEW x
  PROVE  Here(k + 1, d, i, c, o, x) = Here(k, d, i, c, o, x)
<1>1. /\ k \in Nat /\ d \in Nat /\ Dim \in Nat
      /\ k # 2 * d - 1 /\ k # 2 * d
      /\ k # 2 * Dim + 2 * d - 1 /\ k # 2 * Dim + 2 * d
  BY PhaseKind, Lengths DEF Axis, Adds
<1> QED
  BY <1>1 DEF Here

\* Along its own axis it adds or copies what the sender had.
LEMMA HereOwn ==
  ASSUME NEW k \in Phases, NEW a, a = PhaseAxis(Sub(k)),
         NEW i \in 0..(Dims[a] - 1), NEW o \in 0..(Dims[a] - 1),
         NEW c \in 0..(W - 1), NEW x \in 0..(W - 1)
  PROVE  LET b == Beside(a, i, -PhaseDir(Sub(k)))
             e == c - RecvIdx(k) + SendIdx(k) IN
         IF RecvIdx(k) <= c /\ c < RecvIdx(k) + G /\ b # -1
         THEN IF Adds(k)
              THEN /\ Here(k + 1, a, i, c, o, x) <=>
                        Here(k, a, i, c, o, x) \/ Here(k, a, b, e, o, x)
                   /\ ~(Here(k, a, i, c, o, x) /\ Here(k, a, b, e, o, x))
              ELSE Here(k + 1, a, i, c, o, x) <=> Here(k, a, b, e, o, x)
         ELSE Here(k + 1, a, i, c, o, x) <=> Here(k, a, i, c, o, x)
<1>1. a \in Axis /\ a \in Nat /\ a <= Dim /\ a >= 1 /\ Dim \in Nat
  BY PhaseKind, Lengths DEF Axis
<1>2. CASE k = 2 * a - 1
  <2>1. /\ PhaseDir(Sub(k)) = -1 /\ Adds(k) /\ RecvIdx(k) = N /\ SendIdx(k) = 0
    BY <1>1, <1>2, PhaseKind DEF Adds
  <2>2. \A j, y : /\ Here(k, a, j, y, o, x) = Raw(j, y, o, x)
                  /\ Here(k + 1, a, j, y, o, x) = HalfAdded(a, j, y, o, x)
    BY <1>1, <1>2 DEF Here
  <2> QED
    BY <1>1, <2>1, <2>2, AddLeft, Lengths
<1>3. CASE k = 2 * a
  <2>1. /\ PhaseDir(Sub(k)) = 1 /\ Adds(k) /\ RecvIdx(k) = G /\ SendIdx(k) = N + G
    BY <1>1, <1>3, PhaseKind DEF Adds
  <2>2. \A j, y : /\ Here(k, a, j, y, o, x) = HalfAdded(a, j, y, o, x)
                  /\ Here(k + 1, a, j, y, o, x) = AllAdded(a, j, y, o, x)
    BY <1>1, <1>3 DEF Here
  <2>3. c - G + (N + G) = c + N
    BY Lengths
  <2> QED
    BY <1>1, <2>1, <2>2, <2>3, AddRight, Lengths
<1>4. CASE k = 2 * Dim + 2 * a - 1
  <2>1. /\ PhaseDir(Sub(k)) = -1 /\ ~Adds(k)
        /\ RecvIdx(k) = N + G /\ SendIdx(k) = G
    BY <1>1, <1>4, PhaseKind DEF Adds
  <2>2. \A j, y : /\ Here(k, a, j, y, o, x) = AllAdded(a, j, y, o, x)
                  /\ Here(k + 1, a, j, y, o, x) = HalfCopied(a, j, y, o, x)
    BY <1>1, <1>4 DEF Here
  <2>3. c - (N + G) + G = c - N
    BY Lengths
  <2> QED
    BY <2>1, <2>2, <2>3, Lengths DEF HalfCopied
<1>5. CASE k = 2 * Dim + 2 * a
  <2>1. /\ PhaseDir(Sub(k)) = 1 /\ ~Adds(k) /\ RecvIdx(k) = 0 /\ SendIdx(k) = N
    BY <1>1, <1>5, PhaseKind DEF Adds
  <2>2. \A j, y : /\ Here(k, a, j, y, o, x) = HalfCopied(a, j, y, o, x)
                  /\ Here(k + 1, a, j, y, o, x) = AllCopied(a, j, y, o, x)
    BY <1>1, <1>5 DEF Here
  <2>3. c - 0 + N = c + N
    BY Lengths
  <2> QED
    BY <2>1, <2>2, <2>3, Lengths DEF AllCopied
<1> QED
  BY <1>2, <1>3, <1>4, <1>5, PhaseKind

\* The cell sent for a cell of the slab is a cell, and its neighbours along the
\* other axes are the same.
LEMMA SentForCell ==
  ASSUME NEW k \in Phases, NEW c \in Slab(k)
  PROVE  /\ c \in Cell /\ SentFor(k, c) \in Cell
         /\ SentFor(k, c)[PhaseAxis(Sub(k))] =
              c[PhaseAxis(Sub(k))] - RecvIdx(k) + SendIdx(k)
         /\ \A d \in Axis \ {PhaseAxis(Sub(k))} : SentFor(k, c)[d] = c[d]
<1> DEFINE a == PhaseAxis(Sub(k))
           e == c[a] - RecvIdx(k) + SendIdx(k)
<1>1. a \in Axis /\ c \in Cell /\ c \in [Axis -> 0..(W - 1)]
  BY PhaseKind DEF Slab, Cell
<1>2. e \in 0..(W - 1)
  <2>1. c[a] \in Int /\ RecvIdx(k) <= c[a] /\ c[a] < RecvIdx(k) + G
    BY <1>1 DEF Slab
  <2>2. \/ RecvIdx(k) = N /\ SendIdx(k) = 0
        \/ RecvIdx(k) = G /\ SendIdx(k) = N + G
        \/ RecvIdx(k) = N + G /\ SendIdx(k) = G
        \/ RecvIdx(k) = 0 /\ SendIdx(k) = N
    BY PhaseKind
  <2> QED
    BY <2>1, <2>2, Lengths
<1>3. SentFor(k, c) = [c EXCEPT ![a] = e]
  BY DEF SentFor
<1> HIDE DEF e, a
<1>4. /\ [c EXCEPT ![a] = e] \in [Axis -> 0..(W - 1)]
      /\ [c EXCEPT ![a] = e][a] = e
      /\ \A d \in Axis \ {a} : [c EXCEPT ![a] = e][d] = c[d]
  BY <1>1, <1>2
<1> QED
  BY <1>1, <1>3, <1>4 DEF e, a, Cell

\* What a rank holds after a phase, by what it and the sender held before.
LEMMA ShareStep ==
  ASSUME NEW k \in Phases, NEW r \in Rank, NEW n, site[n] \in Rank \X Cell,
         NEW c \in Cell
  PROVE  IF From(r, k) # PROC_NULL /\ c \in Slab(k)
         THEN Share(k + 1, r, c, n) =
                IF Adds(k)
                THEN Share(k, r, c, n) + Share(k, From(r, k), SentFor(k, c), n)
                ELSE Share(k, From(r, k), SentFor(k, c), n)
         ELSE Share(k + 1, r, c, n) = Share(k, r, c, n)
<1> DEFINE a == PhaseAxis(Sub(k))
           s == PhaseDir(Sub(k))
           b == Beside(a, r[a], -s)
           e == c[a] - RecvIdx(k) + SendIdx(k)
           o(d) == site[n][1][d]
           x(d) == site[n][2][d]
           Rest == \A d \in Axis \ {a} : Here(k, d, r[d], c[d], o(d), x(d))
           Mine == Here(k, a, r[a], c[a], o(a), x(a))
           Other == Here(k, a, b, e, o(a), x(a))
           Next1 == Here(k + 1, a, r[a], c[a], o(a), x(a))
<1>1. a \in Axis /\ -s \in {-1, 1} /\ Sub(k) \in 1..(2 * Dim)
  BY PhaseKind
<1>2. /\ r[a] \in 0..(Dims[a] - 1) /\ o(a) \in 0..(Dims[a] - 1)
      /\ c[a] \in 0..(W - 1) /\ x(a) \in 0..(W - 1)
  BY <1>1, RankCoord DEF Cell
<1>3. Share(k, r, c, n) = IF Rest /\ Mine THEN 1 ELSE 0
  BY <1>1 DEF Share
<1>4. Share(k + 1, r, c, n) = IF Rest /\ Next1 THEN 1 ELSE 0
  <2>1. \A d \in Axis \ {a} :
          Here(k + 1, d, r[d], c[d], o(d), x(d)) = Here(k, d, r[d], c[d], o(d), x(d))
    BY HereOther
  <2>2. (\A d \in Axis : Here(k + 1, d, r[d], c[d], o(d), x(d))) <=> Rest /\ Next1
    BY <1>1, <2>1
  <2> QED
    BY <2>2 DEF Share
<1>5. From(r, k) = PROC_NULL <=> b = -1
  BY <1>1, NeighborBeside DEF From, Source
<1>6. ASSUME From(r, k) # PROC_NULL, c \in Slab(k)
      PROVE  Share(k, From(r, k), SentFor(k, c), n) = IF Rest /\ Other THEN 1 ELSE 0
  <2> DEFINE q == From(r, k)
             f == SentFor(k, c)
  <2>1. q = [r EXCEPT ![a] = b]
    BY <1>1, <1>6, NeighborBeside DEF From, Source
  <2>2. q[a] = b /\ \A d \in Axis \ {a} : q[d] = r[d]
    BY <1>1, <2>1 DEF Rank
  <2>3. f[a] = e /\ \A d \in Axis \ {a} : f[d] = c[d]
    BY <1>6, SentForCell
  <2> HIDE DEF q, f, e, b
  <2>4. (\A d \in Axis : Here(k, d, q[d], f[d], o(d), x(d))) <=> Rest /\ Other
    BY <1>1, <2>2, <2>3
  <2> QED
    BY <2>4 DEF Share, q, f
<1>7. c \in Slab(k) <=> RecvIdx(k) <= c[a] /\ c[a] < RecvIdx(k) + G
  BY DEF Slab
<1>8. IF From(r, k) # PROC_NULL /\ c \in Slab(k)
      THEN IF Adds(k) THEN (Next1 <=> Mine \/ Other) /\ ~(Mine /\ Other)
           ELSE Next1 <=> Other
      ELSE Next1 <=> Mine
  BY <1>2, <1>5, <1>7, HereOwn
<1> HIDE DEF Rest, Mine, Other, Next1
<1> QED
  BY <1>3, <1>4, <1>6, <1>8

\* What is left of the deposit of a step at the end of the exchange is what
\* was given to any copy of the same position.
LEMMA ShareTotal ==
  ASSUME NEW r \in Rank, NEW n, site[n] \in Rank \X Cell, NEW c \in Cell
  PROVE  /\ Share(4 * Dim + 1, r, c, n) = Total(r, c, n)
         /\ c \in Interior =>
              \A k \in Phases : ~Adds(k) => Share(k, r, c, n) = Total(r, c, n)
<1> DEFINE q == site[n][1]
           x == site[n][2]
           Met(d) == AllCopied(d, r[d], c[d], q[d], x[d])
<1>1. q \in Rank /\ x \in Cell
  OBVIOUS
<1>2. ASSUME NEW d \in Axis
      PROVE  /\ r[d] \in 0..(Dims[d] - 1) /\ q[d] \in 0..(Dims[d] - 1)
             /\ c[d] \in 0..(W - 1) /\ x[d] \in 0..(W - 1)
  BY <1>1, RankCoord DEF Cell
<1>3. (\A d \in Axis : Met(d)) <=> Global(r, c) = Global(q, x)
  <2>1. \A d \in Axis : Met(d) <=> Home(d, q[d], x[d]) = Home(d, r[d], c[d])
    BY <1>2, CopiedFromHome
  <2> QED
    BY <1>1, <2>1, HomesMeet
<1>4. \A d \in Axis : Here(4 * Dim + 1, d, r[d], c[d], q[d], x[d]) <=> Met(d)
  BY Lengths DEF Here, Axis
<1>5. ASSUME c \in Interior, NEW k \in Phases, ~Adds(k), NEW d \in Axis
      PROVE  Here(k, d, r[d], c[d], q[d], x[d]) <=> Met(d)
  <2>1. c[d] \in G..(N + G - 1)
    BY <1>5 DEF Interior
  <2>2. /\ AllAdded(d, r[d], c[d], q[d], x[d]) <=> Met(d)
        /\ HalfCopied(d, r[d], c[d], q[d], x[d]) <=> Met(d)
    BY <1>2, <2>1, CopiedFromHome
  <2>3. k \in Nat /\ d \in Nat /\ d <= Dim /\ k > 2 * Dim
    BY <1>5, Lengths DEF Adds, Phases, Axis
  <2>4. \/ Here(k, d, r[d], c[d], q[d], x[d]) = AllAdded(d, r[d], c[d], q[d], x[d])
        \/ Here(k, d, r[d], c[d], q[d], x[d]) = HalfCopied(d, r[d], c[d], q[d], x[d])
        \/ Here(k, d, r[d], c[d], q[d], x[d]) = Met(d)
    BY <2>3, Lengths DEF Here
  <2> QED
    BY <2>2, <2>4
<1> HIDE DEF Met
<1>6. Share(4 * Dim + 1, r, c, n) = Total(r, c, n)
  BY <1>3, <1>4 DEF Share, Total
<1>7. ASSUME c \in Interior, NEW k \in Phases, ~Adds(k)
      PROVE  Share(k, r, c, n) = Total(r, c, n)
  <2>1. \A d \in Axis : Here(k, d, r[d], c[d], q[d], x[d]) <=> Met(d)
    BY <1>5, <1>7
  <2> QED
    BY <1>3, <2>1 DEF Share, Total
<1> QED
  BY <1>6, <1>7

-----------------------------------------------------------------------------
(* Control *)

\* The types the matching of messages rests on: everything but the values.
Control ==
  /\ stage \in [Rank -> Stages]
  /\ phase \in [Rank -> Phases]
  /\ step \in [Rank -> 0..MaxStep]
  /\ site \in [0..(MaxStep - 1) -> Rank \X Cell]
  /\ \A m \in net : /\ m.src \in Rank /\ m.dst \in Rank
                    /\ m.step \in 0..(MaxStep - 1) /\ m.phase \in Phases
  /\ StepsLeft

\* Who sends to whom in a phase: r receives from q exactly if q sends to r.
LEMMA FromTo ==
  ASSUME NEW k \in Phases, NEW r \in Rank
  PROVE  /\ To(r, k) \in Rank \cup {PROC_NULL}
         /\ From(r, k) \in Rank \cup {PROC_NULL}
         /\ To(r, k) # PROC_NULL => From(To(r, k), k) = r
         /\ From(r, k) # PROC_NULL => To(From(r, k), k) = r
  BY PhaseKind, SourceDest DEF To, From

\* A rank that is not done has a step to take.
LEMMA StepLeft ==
  ASSUME Control, NEW r \in Rank, stage[r] # "done"
  PROVE  step[r] \in 0..(MaxStep - 1)
<1>1. step[r] \in 0..MaxStep /\ step[r] # MaxStep
  BY DEF Control, StepsLeft, At
<1> QED
  BY <1>1, SitesAssumption

\* The end of a phase.
LEMMA NextPhaseFacts ==
  ASSUME Control, NEW r \in Rank, NextPhase(r)
  PROVE  /\ stage' = [stage EXCEPT ![r] =
                        IF phase[r] = 4 * Dim THEN "ready" ELSE "send"]
         /\ phase' = [phase EXCEPT ![r] =
                        IF phase[r] = 4 * Dim THEN @ ELSE @ + 1]
         /\ stage' \in [Rank -> Stages]
         /\ phase' \in [Rank -> Phases]
<1>1. /\ phase[r] \in 1..(4 * Dim)
      /\ phase[r] # 4 * Dim => phase[r] + 1 \in 1..(4 * Dim)
  BY Lengths DEF Control, Phases
<1>2. CASE phase[r] = 4 * Dim
  BY <1>2 DEF NextPhase, LastPhase, Goto, Stages, Control
<1>3. CASE phase[r] # 4 * Dim
  BY <1>1, <1>3 DEF NextPhase, LastPhase, Goto, Stages, Phases, Control
<1> QED
  BY <1>2, <1>3

\* Control is well typed, and stays so: a rank that is done has taken all its
\* steps.
LEMMA ControlInit == Init => Control
<1> SUFFICES ASSUME Init PROVE Control
  OBVIOUS
<1>1. MaxStep \in Nat \ {0} /\ 1 \in Phases
  BY SitesAssumption, Lengths DEF Phases
<1>2. site \in [0..(MaxStep - 1) -> Rank \X Cell]
  BY SitesAssumption DEF Init
<1> QED
  BY <1>1, <1>2 DEF Init, Control, StepsLeft, Stages, At

\* Every action keeps the control well typed.
LEMMA ControlNext == Control /\ [Next]_vars => Control'
<1> SUFFICES ASSUME Control, [Next]_vars PROVE Control'
  OBVIOUS
<1>0. MaxStep \in Nat \ {0} /\ 1 \in Phases
  BY SitesAssumption, Lengths DEF Phases
<1>1. ASSUME NEW r \in Rank, Deposit(r) PROVE Control'
  <2>1. /\ stage' = [stage EXCEPT ![r] = "send"] /\ stage[r] = "deposit"
        /\ phase' = [phase EXCEPT ![r] = 1]
        /\ UNCHANGED <<step, net, site>>
    BY <1>1 DEF Deposit, At, Goto
  <2> QED
    BY <1>0, <2>1 DEF Control, StepsLeft, Stages, At
<1>2. ASSUME NEW r \in Rank, NextPhase(r), stage[r] \in {"send", "recv"},
             UNCHANGED <<step, site>>, net' \subseteq net
      PROVE  Control'
  <2>1. /\ stage' \in [Rank -> Stages] /\ phase' \in [Rank -> Phases]
        /\ \A q \in Rank : stage'[q] = "done" <=> stage[q] = "done"
    BY <1>2, NextPhaseFacts DEF Control
  <2> QED
    BY <1>2, <2>1 DEF Control, StepsLeft, At
<1>3. ASSUME NEW r \in Rank, LocalCopy(r) PROVE Control'
  <2>1. NextPhase(r) /\ stage[r] = "send" /\ UNCHANGED <<step, site, net>>
    BY <1>3 DEF LocalCopy, At
  <2> QED
    BY <1>2, <2>1
<1>4. ASSUME NEW r \in Rank, Send(r) PROVE Control'
  <2> DEFINE k == phase[r]
             new == [src |-> r, dst |-> To(r, k), step |-> step[r],
                     phase |-> k, load |-> Payload(r, k)]
  <2>1. /\ stage' = [stage EXCEPT ![r] = "recv"] /\ stage[r] = "send"
        /\ UNCHANGED <<phase, step, site>>
        /\ net' = IF To(r, k) = PROC_NULL THEN net ELSE net \cup {new}
    BY <1>4 DEF Send, At, Goto
  <2>2. k \in Phases /\ step[r] \in 0..(MaxStep - 1)
    BY <2>1, StepLeft DEF Control
  <2>3. To(r, k) # PROC_NULL =>
          /\ new.src \in Rank /\ new.dst \in Rank
          /\ new.step \in 0..(MaxStep - 1) /\ new.phase \in Phases
    BY <2>2, FromTo
  <2> HIDE DEF new
  <2>4. \A m \in net' : /\ m.src \in Rank /\ m.dst \in Rank
                        /\ m.step \in 0..(MaxStep - 1) /\ m.phase \in Phases
    BY <2>1, <2>3 DEF Control
  <2> QED
    BY <2>1, <2>4 DEF Control, StepsLeft, Stages, At
<1>5. ASSUME NEW r \in Rank, Recv(r) PROVE Control'
  <2>1. /\ NextPhase(r) /\ stage[r] = "recv" /\ UNCHANGED <<step, site>>
        /\ net' \subseteq net
    BY <1>5 DEF Recv, At
  <2> QED
    BY <1>2, <2>1
<1>6. ASSUME NEW r \in Rank, Advance(r) PROVE Control'
  <2> DEFINE s == IF step[r] + 1 = MaxStep THEN "done" ELSE "deposit"
  <2>1. /\ stage' = [stage EXCEPT ![r] = s] /\ stage[r] = "ready"
        /\ step' = [step EXCEPT ![r] = @ + 1]
        /\ UNCHANGED <<phase, net, site>>
    BY <1>6 DEF Advance, At, Goto
  <2>2. /\ step[r] \in 0..(MaxStep - 1) /\ step[r] + 1 \in 0..MaxStep
        /\ s \in Stages /\ (s = "done" <=> step[r] + 1 = MaxStep)
    BY <1>0, <2>1, StepLeft DEF Stages
  <2> HIDE DEF s
  <2>3. StepsLeft'
    <3>1. \A q \in Rank : q # r => stage'[q] = stage[q] /\ step'[q] = step[q]
      BY <2>1 DEF Control
    <3>2. stage'[r] = s /\ step'[r] = step[r] + 1
      BY <2>1 DEF Control
    <3> QED
      BY <2>2, <3>1, <3>2 DEF Control, StepsLeft, At
  <2> QED
    BY <2>1, <2>2, <2>3 DEF Control
<1>7. CASE UNCHANGED vars
  BY <1>7 DEF vars, Control, StepsLeft, At
<1> QED
  BY <1>1, <1>3, <1>4, <1>5, <1>6, <1>7 DEF Next, RankStep, Finished

-----------------------------------------------------------------------------
(* Messages meet the phase they were sent for *)

\* What each kind of step does to the exchanges that were posted and taken.
LEMMA QuietStamps ==
  ASSUME Control, NEW r \in Rank, Deposit(r) \/ Advance(r)
  PROVE  \A q \in Rank, t \in Nat, k \in Phases :
           /\ Posted(q, t, k)' <=> Posted(q, t, k)
           /\ Taken(q, t, k)' <=> Taken(q, t, k)
<1> SUFFICES ASSUME NEW q \in Rank, NEW t \in Nat, NEW k \in Phases
             PROVE  /\ Posted(q, t, k)' <=> Posted(q, t, k)
                    /\ Taken(q, t, k)' <=> Taken(q, t, k)
  OBVIOUS
<1>0. /\ step[q] \in Nat /\ phase[q] \in Nat /\ k \in Nat /\ 1 <= k
      /\ step[r] \in Nat
  BY SitesAssumption, Lengths DEF Control, Phases
<1>1. CASE Deposit(r)
  <2>1. /\ stage' = [stage EXCEPT ![r] = "send"] /\ stage[r] = "deposit"
        /\ phase' = [phase EXCEPT ![r] = 1] /\ step' = step
    BY <1>1 DEF Deposit, At, Goto
  <2> QED
    BY <1>0, <2>1 DEF Control, Posted, Taken
<1>2. CASE Advance(r)
  <2> DEFINE s == IF step[r] + 1 = MaxStep THEN "done" ELSE "deposit"
  <2>1. /\ stage' = [stage EXCEPT ![r] = s] /\ stage[r] = "ready"
        /\ phase' = phase /\ step' = [step EXCEPT ![r] = @ + 1]
    BY <1>2 DEF Advance, At, Goto
  <2>2. s \in {"done", "deposit"}
    OBVIOUS
  <2> HIDE DEF s
  <2>3. CASE q = r
    <3>1. stage'[q] = s /\ step'[q] = step[q] + 1 /\ stage[q] = "ready"
      BY <2>1, <2>3 DEF Control
    <3> QED
      BY <1>0, <2>2, <3>1 DEF Posted, Taken
  <2>4. CASE q # r
    BY <2>1, <2>4 DEF Control, Posted, Taken
  <2> QED
    BY <2>3, <2>4
<1> QED
  BY <1>1, <1>2

\* A send posts the exchange of the phase the rank is in.
LEMMA SendStamps ==
  ASSUME Control, NEW r \in Rank, Send(r)
  PROVE  /\ \A q \in Rank, t \in Nat, k \in Phases :
              /\ Posted(q, t, k)' <=>
                   \/ Posted(q, t, k)
                   \/ q = r /\ t = step[r] /\ k = phase[r]
              /\ Taken(q, t, k)' <=> Taken(q, t, k)
         /\ ~Posted(r, step[r], phase[r])
<1>1. /\ stage' = [stage EXCEPT ![r] = "recv"] /\ stage[r] = "send"
      /\ phase' = phase /\ step' = step
  BY DEF Send, At, Goto
<1>2. \A q \in Rank : step[q] \in Nat /\ phase[q] \in Nat
  BY SitesAssumption, Lengths DEF Control, Phases
<1>3. ASSUME NEW q \in Rank, NEW t \in Nat, NEW k \in Phases
      PROVE  /\ Posted(q, t, k)' <=>
                  \/ Posted(q, t, k)
                  \/ q = r /\ t = step[r] /\ k = phase[r]
             /\ Taken(q, t, k)' <=> Taken(q, t, k)
  <2>1. k \in Nat
    BY DEF Phases
  <2> QED
    BY <1>1, <1>2, <2>1 DEF Posted, Taken, Control
<1>4. ~Posted(r, step[r], phase[r])
  BY <1>1, <1>2 DEF Posted
<1> QED
  BY <1>3, <1>4

\* The end of a phase is the same for both actions that reach it.
LEMMA NextPhaseStamps ==
  ASSUME Control, NEW r \in Rank, stage[r] \in {"send", "recv"},
         NextPhase(r), step' = step
  PROVE  \A q \in Rank, t \in Nat, k \in Phases :
           /\ Posted(q, t, k)' <=>
                \/ Posted(q, t, k)
                \/ q = r /\ t = step[r] /\ k = phase[r]
           /\ Taken(q, t, k)' <=>
                \/ Taken(q, t, k)
                \/ q = r /\ t = step[r] /\ k = phase[r]
<1> DEFINE s == IF phase[r] = 4 * Dim THEN "ready" ELSE "send"
           f == IF phase[r] = 4 * Dim THEN phase[r] ELSE phase[r] + 1
<1>1. stage' = [stage EXCEPT ![r] = s] /\ phase' = [phase EXCEPT ![r] = f]
  BY NextPhaseFacts
<1>2. /\ phase[r] = 4 * Dim => s = "ready"
      /\ phase[r] # 4 * Dim => s = "send" /\ f = phase[r] + 1
  OBVIOUS
<1> HIDE DEF s, f
<1>3. \A q \in Rank : step[q] \in Nat /\ phase[q] \in Nat /\ phase[q] <= 4 * Dim
  BY SitesAssumption, Lengths DEF Control, Phases
<1> SUFFICES ASSUME NEW q \in Rank, NEW t \in Nat, NEW k \in Phases
             PROVE  /\ Posted(q, t, k)' <=>
                         \/ Posted(q, t, k)
                         \/ q = r /\ t = step[r] /\ k = phase[r]
                    /\ Taken(q, t, k)' <=>
                         \/ Taken(q, t, k)
                         \/ q = r /\ t = step[r] /\ k = phase[r]
  OBVIOUS
<1>4. k \in Nat /\ k <= 4 * Dim
  BY Lengths DEF Phases
<1>5. CASE q # r
  BY <1>1, <1>5 DEF Posted, Taken, Control
<1>6. CASE q = r
  <2>1. stage'[q] = s /\ phase'[q] = f
    BY <1>1, <1>6 DEF Control
  <2> QED
    BY <1>2, <1>3, <1>4, <1>6, <2>1, Lengths DEF Posted, Taken
<1> QED
  BY <1>5, <1>6

\* A rank that waits in a phase has posted its send.
LEMMA AlreadyPosted ==
  ASSUME Control, NEW r \in Rank, At(r, "recv")
  PROVE  Posted(r, step[r], phase[r])
<1>1. phase[r] \in Nat
  BY Lengths DEF Control, Phases
<1> QED
  BY <1>1 DEF Posted, At

\* The part of the invariant about messages,
MatchInv == Control /\ InFlight /\ NoSecond /\ NoneMissing /\ NoneEarly

\* Nothing is posted, taken or in flight at the start.
LEMMA MatchInit == Init => MatchInv
<1> SUFFICES ASSUME Init PROVE MatchInv
  OBVIOUS
<1>1. net = {} /\ \A r \in Rank : stage[r] = "deposit" /\ step[r] = 0
  BY DEF Init
<1>2. \A r \in Rank, t \in 0..(MaxStep - 1), k \in Phases :
        ~Posted(r, t, k) /\ ~Taken(r, t, k)
  BY <1>1 DEF Posted, Taken
<1>3. \A r \in Rank, k \in Phases : From(r, k) # PROC_NULL => From(r, k) \in Rank
  BY FromTo
<1> QED
  BY <1>1, <1>2, <1>3, ControlInit
     DEF MatchInv, InFlight, NoSecond, NoneMissing, NoneEarly

\* A rank that waits takes the message of its own step and phase.
LEMMA MatchingMatches ==
  ASSUME Control, InFlight, NoneMissing, NEW r \in Rank, At(r, "recv"),
         NEW m \in Oldest(net, From(r, phase[r]), r)
  PROVE  /\ m \in net /\ m.dst = r /\ m.src = From(r, phase[r])
         /\ From(r, phase[r]) \in Rank
         /\ m.step = step[r] /\ m.phase = phase[r]
<1> DEFINE k == phase[r]
           q == From(r, k)
<1>1. /\ m \in net /\ m.src = q /\ m.dst = r
      /\ \A n \in net : n.src = q /\ n.dst = r => ~Before(n, m)
  BY DEF Oldest
<1>2. /\ k \in Phases /\ step[r] \in 0..(MaxStep - 1)
      /\ m.src \in Rank /\ m.step \in 0..(MaxStep - 1) /\ m.phase \in Phases
      /\ step[r] \in Nat /\ m.step \in Nat
      /\ step[q] \in 0..MaxStep /\ phase[q] \in Phases
  BY <1>1, StepLeft, SitesAssumption DEF Control, At
<1>3. /\ Posted(q, m.step, m.phase) /\ ~Taken(r, m.step, m.phase)
      /\ q \in Rank /\ q # PROC_NULL
  BY <1>1, <1>2, NullIsNoRank DEF InFlight
<1>4. m.step > step[r] \/ (m.step = step[r] /\ m.phase >= k)
  BY <1>2, <1>3 DEF Taken, At, Phases
<1>5. ~ShortCut(r, k)
  <2>1. ASSUME ShortCut(r, k) PROVE FALSE
    <3>1. q = r
      BY <2>1 DEF ShortCut
    <3>2. m.step < step[r] \/ (m.step = step[r] /\ m.phase <= k)
      BY <1>3, <3>1 DEF Posted, At
    <3>3. m.phase = k
      BY <1>2, <1>4, <3>2 DEF Phases
    <3> QED
      BY <1>1, <2>1, <3>1, <3>3 DEF InFlight
  <2> QED
    BY <2>1
<1>6. Posted(q, step[r], k)
  BY <1>2, <1>3, <1>4 DEF Posted, Phases
<1>7. ~Taken(r, step[r], k)
  BY <1>2 DEF Taken, At, Phases
<1>8. PICK n \in net : n.dst = r /\ n.step = step[r] /\ n.phase = k
  BY <1>2, <1>3, <1>5, <1>6, <1>7 DEF NoneMissing
<1>9. n.src = q
  <2>1. n.dst = To(n.src, k) /\ n.src \in Rank
    BY <1>8 DEF InFlight, Control
  <2>2. To(n.src, k) # PROC_NULL
    BY <1>8, <2>1, NullIsNoRank
  <2> QED
    BY <1>2, <1>8, <2>1, <2>2, FromTo
<1>10. ~Before(n, m)
  BY <1>1, <1>8, <1>9
<1>11. m.step = step[r] /\ m.phase = k
  BY <1>2, <1>4, <1>8, <1>10 DEF Before, Phases
<1> QED
  BY <1>1, <1>3, <1>11

\* Every action keeps the relation of messages to posted and taken exchanges.
LEMMA MatchNext == MatchInv /\ [Next]_vars => MatchInv'
<1> SUFFICES ASSUME MatchInv, [Next]_vars PROVE MatchInv'
  OBVIOUS
<1> USE DEF MatchInv
<1>0. Control' /\ \A t \in 0..(MaxStep - 1) : t \in Nat
  BY ControlNext, SitesAssumption
<1>a. \A m \in net : m.src \in Rank /\ m.dst \in Rank /\ m.step \in Nat
                       /\ m.phase \in Phases
  BY <1>0 DEF Control
<1>b. \A q \in Rank, k \in Phases : From(q, k) # PROC_NULL => From(q, k) \in Rank
  BY FromTo
<1>1. ASSUME NEW r \in Rank, Deposit(r) \/ Advance(r) PROVE MatchInv'
  <2>1. net' = net
    BY <1>1 DEF Deposit, Advance
  <2>2. \A q \in Rank, t \in Nat, k \in Phases :
          /\ Posted(q, t, k)' <=> Posted(q, t, k)
          /\ Taken(q, t, k)' <=> Taken(q, t, k)
    BY <1>1, QuietStamps
  <2>3. InFlight' /\ NoSecond'
    BY <1>a, <2>1, <2>2 DEF InFlight, NoSecond
  <2>4. NoneMissing'
    BY <1>0, <1>b, <2>1, <2>2 DEF NoneMissing
  <2>5. NoneEarly'
    BY <1>0, <1>b, <2>2 DEF NoneEarly
  <2> QED
    BY <1>0, <2>3, <2>4, <2>5
<1>2. ASSUME NEW r \in Rank, LocalCopy(r) PROVE MatchInv'
  <2> DEFINE k == phase[r]
  <2>1. /\ net' = net /\ stage[r] = "send" /\ NextPhase(r) /\ step' = step
        /\ ShortCut(r, k)
    BY <1>2 DEF LocalCopy, At
  <2>2. \A q \in Rank, t \in Nat, j \in Phases :
          /\ Posted(q, t, j)' <=> Posted(q, t, j) \/ (q = r /\ t = step[r] /\ j = k)
          /\ Taken(q, t, j)' <=> Taken(q, t, j) \/ (q = r /\ t = step[r] /\ j = k)
    BY <2>1, NextPhaseStamps
  <2>3. To(r, k) = r /\ From(r, k) = r
    BY <2>1 DEF ShortCut
  <2>4. InFlight'
    <3> SUFFICES ASSUME NEW m \in net
                 PROVE  /\ m.dst = To(m.src, m.phase)
                        /\ ~ShortCut(m.src, m.phase)
                        /\ Posted(m.src, m.step, m.phase)'
                        /\ ~Taken(m.dst, m.step, m.phase)'
      BY <2>1 DEF InFlight
    <3>1. ~(m.dst = r /\ m.phase = k)
      <4>1. ASSUME m.dst = r, m.phase = k PROVE FALSE
        <5>1. m.src = From(r, k)
          BY <1>a, <4>1, FromTo, NullIsNoRank DEF InFlight
        <5> QED
          BY <2>1, <2>3, <4>1, <5>1 DEF InFlight
      <4> QED
        BY <4>1
    <3> QED
      BY <1>a, <2>2, <3>1 DEF InFlight
  <2>5. NoSecond'
    BY <2>1 DEF NoSecond
  <2>6. NoneMissing'
    <3> SUFFICES ASSUME NEW q \in Rank, NEW t \in 0..(MaxStep - 1), NEW j \in Phases,
                        From(q, j) # PROC_NULL, ~ShortCut(q, j),
                        Posted(From(q, j), t, j)', ~Taken(q, t, j)'
                 PROVE  \E m \in net : m.dst = q /\ m.step = t /\ m.phase = j
      BY <2>1 DEF NoneMissing
    <3>1. ~(From(q, j) = r /\ j = k)
      BY <2>1, <2>3, FromTo
    <3> QED
      BY <1>0, <1>b, <2>2, <3>1 DEF NoneMissing
  <2>7. NoneEarly'
    BY <1>0, <1>b, <2>2, <2>3 DEF NoneEarly
  <2> QED
    BY <1>0, <2>4, <2>5, <2>6, <2>7
<1>3. ASSUME NEW r \in Rank, Send(r) PROVE MatchInv'
  <2> DEFINE k == phase[r]
             new == [src |-> r, dst |-> To(r, k), step |-> step[r],
                     phase |-> k, load |-> Payload(r, k)]
  <2>1. /\ ~ShortCut(r, k) /\ stage[r] = "send"
        /\ To(r, k) = PROC_NULL => net' = net
        /\ To(r, k) # PROC_NULL => net' = net \cup {new}
    BY <1>3 DEF Send, At
  <2>2. /\ \A q \in Rank, t \in Nat, j \in Phases :
             /\ Posted(q, t, j)' <=> Posted(q, t, j) \/ (q = r /\ t = step[r] /\ j = k)
             /\ Taken(q, t, j)' <=> Taken(q, t, j)
        /\ ~Posted(r, step[r], k)
    BY <1>3, SendStamps
  <2>3. k \in Phases /\ step[r] \in 0..(MaxStep - 1) /\ step[r] \in Nat
    BY <1>0, <2>1, StepLeft DEF Control
  <2>4. \A m \in net : ~(m.dst = To(r, k) /\ m.step = step[r] /\ m.phase = k)
    <3> SUFFICES ASSUME NEW m \in net, m.dst = To(r, k), m.step = step[r], m.phase = k
                 PROVE  FALSE
      OBVIOUS
    <3>1. m.src = From(m.dst, k) /\ From(To(r, k), k) = r
      BY <1>a, <2>3, FromTo, NullIsNoRank DEF InFlight
    <3> QED
      BY <2>2, <3>1 DEF InFlight
  <2>5. To(r, k) # PROC_NULL => To(r, k) \in Rank /\ ~Taken(To(r, k), step[r], k)
    <3> SUFFICES ASSUME To(r, k) # PROC_NULL, Taken(To(r, k), step[r], k)
                 PROVE  FALSE
      BY <2>3, FromTo
    <3>1. To(r, k) \in Rank /\ From(To(r, k), k) = r /\ r # PROC_NULL
      BY <2>3, FromTo, NullIsNoRank
    <3> QED
      BY <2>2, <2>3, <3>1 DEF NoneEarly
  <2>6. InFlight'
    BY <1>a, <2>1, <2>2, <2>3, <2>5 DEF InFlight
  <2>7. NoSecond'
    BY <2>1, <2>4 DEF NoSecond
  <2>8. NoneMissing'
    <3> SUFFICES ASSUME NEW q \in Rank, NEW t \in 0..(MaxStep - 1), NEW j \in Phases,
                        From(q, j) # PROC_NULL, ~ShortCut(q, j),
                        Posted(From(q, j), t, j)', ~Taken(q, t, j)'
                 PROVE  \E m \in net' : m.dst = q /\ m.step = t /\ m.phase = j
      BY DEF NoneMissing
    <3>1. CASE Posted(From(q, j), t, j)
      BY <1>0, <2>1, <2>2, <3>1 DEF NoneMissing
    <3>2. CASE From(q, j) = r /\ t = step[r] /\ j = k
      <4>1. To(r, k) = q /\ q # PROC_NULL
        BY <3>2, FromTo, NullIsNoRank
      <4>2. new \in net' /\ new.dst = q /\ new.step = t /\ new.phase = j
        BY <2>1, <3>2, <4>1
      <4> QED
        BY <4>2
    <3> QED
      BY <1>0, <1>b, <2>2, <3>1, <3>2
  <2>9. NoneEarly'
    BY <1>0, <1>b, <2>2 DEF NoneEarly
  <2> QED
    BY <1>0, <2>6, <2>7, <2>8, <2>9
<1>4. ASSUME NEW r \in Rank, Recv(r), From(r, phase[r]) # PROC_NULL PROVE MatchInv'
  <2> DEFINE k == phase[r]
  <2>1. PICK m \in Oldest(net, From(r, k), r) : net' = net \ {m}
    BY <1>4 DEF Recv
  <2>2. stage[r] = "recv" /\ NextPhase(r) /\ step' = step
    BY <1>4 DEF Recv, At
  <2>3. m \in net /\ m.dst = r /\ m.step = step[r] /\ m.phase = k
    BY <2>1, <2>2, MatchingMatches DEF At
  <2>4. \A q \in Rank, t \in Nat, j \in Phases :
          /\ Posted(q, t, j)' <=> Posted(q, t, j)
          /\ Taken(q, t, j)' <=> Taken(q, t, j) \/ (q = r /\ t = step[r] /\ j = k)
    BY <2>2, NextPhaseStamps, AlreadyPosted DEF At
  <2>5. InFlight'
    <3> SUFFICES ASSUME NEW n \in net'
                 PROVE  /\ n.dst = To(n.src, n.phase)
                        /\ ~ShortCut(n.src, n.phase)
                        /\ Posted(n.src, n.step, n.phase)'
                        /\ ~Taken(n.dst, n.step, n.phase)'
      BY DEF InFlight
    <3>1. n \in net /\ ~(n.dst = r /\ n.step = step[r] /\ n.phase = k)
      BY <2>1, <2>3 DEF NoSecond
    <3> QED
      BY <1>a, <2>4, <3>1 DEF InFlight
  <2>6. NoSecond'
    BY <2>1 DEF NoSecond
  <2>7. NoneMissing'
    BY <1>0, <1>b, <2>1, <2>3, <2>4 DEF NoneMissing
  <2>8. Posted(From(r, k), step[r], k)
    BY <2>1, <2>2, MatchingMatches DEF At, InFlight
  <2>9. NoneEarly'
    BY <1>0, <1>b, <2>4, <2>8 DEF NoneEarly
  <2> QED
    BY <1>0, <2>5, <2>6, <2>7, <2>9
<1>5. ASSUME NEW r \in Rank, Recv(r), From(r, phase[r]) = PROC_NULL PROVE MatchInv'
  <2> DEFINE k == phase[r]
  <2>1. stage[r] = "recv" /\ NextPhase(r) /\ step' = step /\ net' = net
    BY <1>5 DEF Recv, At
  <2>2. \A q \in Rank, t \in Nat, j \in Phases :
          /\ Posted(q, t, j)' <=> Posted(q, t, j)
          /\ Taken(q, t, j)' <=> Taken(q, t, j) \/ (q = r /\ t = step[r] /\ j = k)
    BY <2>1, NextPhaseStamps, AlreadyPosted DEF At
  <2>3. \A m \in net : ~(m.dst = r /\ m.phase = k)
    BY <1>a, <1>5, FromTo, NullIsNoRank DEF InFlight
  <2>4. InFlight' /\ NoSecond'
    BY <1>a, <2>1, <2>2, <2>3 DEF InFlight, NoSecond
  <2>5. NoneMissing'
    BY <1>0, <1>b, <2>1, <2>2 DEF NoneMissing
  <2>6. NoneEarly'
    BY <1>0, <1>5, <1>b, <2>1, <2>2 DEF NoneEarly
  <2> QED
    BY <1>0, <2>4, <2>5, <2>6
<1>6. CASE UNCHANGED vars
  BY <1>0, <1>6 DEF vars, InFlight, NoSecond, NoneMissing, NoneEarly, Posted, Taken
<1> QED
  BY <1>1, <1>2, <1>3, <1>4, <1>5, <1>6 DEF Next, RankStep, Finished

\* For any number of ranks and any topology: although the ranks are never
\* synchronised and MPI_Sendrecv calls are matched by order alone, no rank ever
\* takes a slab of another phase or another time step (send_guard_cell_x).
THEOREM SlabsInOrder == Spec => []PhasesMatch
<1>1. MatchInv => PhasesMatch
  BY MatchingMatches DEF MatchInv, PhasesMatch
<1> QED
  BY <1>1, MatchInit, MatchNext, PTL DEF Spec

-----------------------------------------------------------------------------
(* Values *)

\* What a rank sends, by what it holds.
LEMMA PayloadShare ==
  ASSUME NEW k \in Phases, NEW r \in Rank, NEW n,
         val[r] = [c \in Cell |-> Share(k, r, c, n)]
  PROVE  Payload(r, k) = [c \in Slab(k) |-> Share(k, r, SentFor(k, c), n)]
<1>1. Payload(r, k) = [c \in Slab(k) |-> val[r][SentFor(k, c)]]
  BY DEF Payload, SentFor
<1>2. \A c \in Slab(k) : val[r][SentFor(k, c)] = Share(k, r, SentFor(k, c), n)
  BY SentForCell
<1> QED
  BY <1>1, <1>2

\* What a rank holds after a phase, whether it has a neighbour to receive from
\* or not.
LEMMA AfterPhase ==
  ASSUME NEW k \in Phases, NEW r \in Rank, NEW n, site[n] \in Rank \X Cell,
         val[r] = [c \in Cell |-> Share(k, r, c, n)],
         NEW load, load = [c \in Slab(k) |-> Share(k, From(r, k), SentFor(k, c), n)]
  PROVE  [c \in Cell |-> Share(k + 1, r, c, n)] =
           IF From(r, k) = PROC_NULL THEN val[r] ELSE Received(r, k, load)
<1>1. CASE From(r, k) = PROC_NULL
  BY <1>1, ShareStep
<1>2. CASE From(r, k) # PROC_NULL
  <2>1. ASSUME NEW c \in Cell
        PROVE  Share(k + 1, r, c, n) =
                 IF c \notin Slab(k) THEN val[r][c]
                 ELSE IF Adds(k) THEN val[r][c] + load[c] ELSE load[c]
    BY <1>2, ShareStep
  <2> QED
    BY <1>2, <2>1 DEF Received
<1> QED
  BY <1>1, <1>2

\* and with the values of arrays and messages.
ValueInv == MatchInv /\ Shares /\ val \in [Rank -> [Cell -> 0..1]]

\* Arrays and messages that hold their shares are well typed.
LEMMA SharesType == ValueInv => TypeOK
<1> SUFFICES ASSUME ValueInv PROVE TypeOK
  OBVIOUS
<1>1. \A k, q, c, n : Share(k, q, c, n) \in 0..1
  BY DEF Share
<1>2. ASSUME NEW m \in net PROVE m.load \in [Slab(m.phase) -> 0..1]
  <2>1. m.load = [c \in Slab(m.phase) |->
                    Share(m.phase, m.src, SentFor(m.phase, c), m.step)]
    BY DEF ValueInv, Shares
  <2> QED
    BY <1>1, <2>1
<1>3. \A m \in net : m.step \in 0..MaxStep
  BY SitesAssumption DEF ValueInv, MatchInv, Control
<1> QED
  BY <1>2, <1>3 DEF ValueInv, MatchInv, Control, TypeOK

\* A step that leaves the history alone leaves the shares alone.
LEMMA SharesStay ==
  ASSUME site' = site
  PROVE  \A k, q, c, n : Share(k, q, c, n)' = Share(k, q, c, n)
  BY DEF Share

\* The end of a phase: the rank that reaches it holds the shares of the next.
LEMMA SharesNext ==
  ASSUME ValueInv, NEW r \in Rank, stage[r] \in {"send", "recv"}, NextPhase(r),
         UNCHANGED <<step, site>>, net' \subseteq net,
         val' = [val EXCEPT ![r] =
                   [c \in Cell |-> Share(phase[r] + 1, r, c, step[r])]]
  PROVE  Shares' /\ val' \in [Rank -> [Cell -> 0..1]]
<1> DEFINE V == [c \in Cell |-> Share(phase[r] + 1, r, c, step[r])]
<1>1. \A k, q, c, n : Share(k, q, c, n)' = Share(k, q, c, n)
  BY SharesStay
<1>2. /\ stage' = [stage EXCEPT ![r] =
                     IF phase[r] = 4 * Dim THEN "ready" ELSE "send"]
      /\ phase' = [phase EXCEPT ![r] =
                     IF phase[r] = 4 * Dim THEN @ ELSE @ + 1]
  BY NextPhaseFacts DEF ValueInv, MatchInv
<1>3. V \in [Cell -> 0..1]
  BY DEF Share
<1> HIDE DEF V
<1>4. /\ val' \in [Rank -> [Cell -> 0..1]]
      /\ val'[r] = V
      /\ \A q \in Rank : q # r => val'[q] = val[q] /\ stage'[q] = stage[q]
                                    /\ phase'[q] = phase[q]
  BY <1>2, <1>3 DEF ValueInv, MatchInv, Control, V
<1>5. /\ stage'[r] = IF phase[r] = 4 * Dim THEN "ready" ELSE "send"
      /\ phase'[r] = IF phase[r] = 4 * Dim THEN phase[r] ELSE phase[r] + 1
  BY <1>2 DEF ValueInv, MatchInv, Control
<1>6. \A q \in Rank :
        /\ stage'[q] \in {"send", "recv"} =>
             val'[q] = [c \in Cell |-> Share(phase'[q], q, c, step'[q])]
        /\ stage'[q] = "ready" =>
             val'[q] = [c \in Cell |-> Share(4 * Dim + 1, q, c, step'[q])]
  <2> SUFFICES ASSUME NEW q \in Rank
               PROVE  /\ stage'[q] \in {"send", "recv"} =>
                           val'[q] = [c \in Cell |-> Share(phase'[q], q, c, step'[q])]
                      /\ stage'[q] = "ready" =>
                           val'[q] = [c \in Cell |-> Share(4 * Dim + 1, q, c, step'[q])]
    OBVIOUS
  <2>1. CASE q # r
    BY <1>4, <2>1 DEF ValueInv, Shares
  <2>2. CASE q = r
    BY <1>4, <1>5, <2>2 DEF V
  <2> QED
    BY <2>1, <2>2
<1>7. \A m \in net' :
        m.load = [c \in Slab(m.phase) |-> Share(m.phase, m.src, SentFor(m.phase, c), m.step)]
  BY DEF ValueInv, Shares
<1> QED
  BY <1>1, <1>4, <1>6, <1>7 DEF Shares

\* No array holds a share of anything at the start.
LEMMA ValueInit == Init => ValueInv
<1> SUFFICES ASSUME Init PROVE ValueInv
  OBVIOUS
<1>1. MatchInv
  BY MatchInit
<1>2. val \in [Rank -> [Cell -> 0..1]] /\ Shares
  BY DEF Init, Shares
<1> QED
  BY <1>1, <1>2 DEF ValueInv

\* Every action leaves each array and each message with its share.
LEMMA ValueNext == ValueInv /\ [Next]_vars => ValueInv'
<1> SUFFICES ASSUME ValueInv, [Next]_vars PROVE ValueInv'
  OBVIOUS
<1>0. MatchInv' /\ MatchInv /\ Control /\ Control'
  BY MatchNext DEF ValueInv, MatchInv
<1> SUFFICES Shares' /\ val' \in [Rank -> [Cell -> 0..1]]
  BY <1>0 DEF ValueInv
<1>a. \A r \in Rank : phase[r] \in Phases
  BY <1>0 DEF Control
<1>b. \A n \in 0..(MaxStep - 1) : site[n] \in Rank \X Cell
  BY <1>0 DEF Control
<1>1. ASSUME NEW r \in Rank, Deposit(r)
      PROVE  Shares' /\ val' \in [Rank -> [Cell -> 0..1]]
  <2> DEFINE V == [c \in Cell |-> IF site[step[r]] = <<r, c>> THEN 1 ELSE 0]
  <2>1. /\ stage' = [stage EXCEPT ![r] = "send"] /\ stage[r] = "deposit"
        /\ phase' = [phase EXCEPT ![r] = 1] /\ val' = [val EXCEPT ![r] = V]
        /\ UNCHANGED <<step, net, site>>
    BY <1>1 DEF Deposit, At, Goto
  <2>2. site[step[r]] \in Rank \X Cell
    BY <1>0, <1>b, <2>1, StepLeft
  <2>3. V = [c \in Cell |-> Share(1, r, c, step[r])]
    <3> SUFFICES ASSUME NEW c \in Cell
                 PROVE  site[step[r]] = <<r, c>> <=>
                          \A d \in Axis : Here(1, d, r[d], c[d], site[step[r]][1][d],
                                               site[step[r]][2][d])
      BY DEF Share
    <3>1. PICK q \in Rank, x \in Cell : site[step[r]] = <<q, x>>
      BY <2>2
    <3>2. \A d \in Axis : Here(1, d, r[d], c[d], q[d], x[d]) <=> r[d] = q[d] /\ c[d] = x[d]
      BY Lengths DEF Here, Raw, Axis
    <3>3. (\A d \in Axis : r[d] = q[d]) => r = q
      BY DEF Rank
    <3>4. (\A d \in Axis : c[d] = x[d]) => c = x
      BY DEF Cell
    <3> QED
      BY <3>1, <3>2, <3>3, <3>4
  <2>4. V \in [Cell -> 0..1]
    OBVIOUS
  <2> HIDE DEF V
  <2>5. /\ val' \in [Rank -> [Cell -> 0..1]]
        /\ val'[r] = V /\ stage'[r] = "send" /\ phase'[r] = 1
        /\ \A q \in Rank : q # r => val'[q] = val[q] /\ stage'[q] = stage[q]
                                      /\ phase'[q] = phase[q]
    BY <2>1, <2>4 DEF ValueInv, MatchInv, Control
  <2>6. \A q \in Rank :
          /\ stage'[q] \in {"send", "recv"} =>
               val'[q] = [c \in Cell |-> Share(phase'[q], q, c, step'[q])]
          /\ stage'[q] = "ready" =>
               val'[q] = [c \in Cell |-> Share(4 * Dim + 1, q, c, step'[q])]
    BY <2>1, <2>3, <2>5 DEF ValueInv, Shares
  <2>7. \A k, q, c, n : Share(k, q, c, n)' = Share(k, q, c, n)
    BY <2>1, SharesStay
  <2> QED
    BY <2>1, <2>5, <2>6, <2>7 DEF ValueInv, Shares
<1>2. ASSUME NEW r \in Rank, LocalCopy(r)
      PROVE  Shares' /\ val' \in [Rank -> [Cell -> 0..1]]
  <2> DEFINE k == phase[r]
             load == Payload(r, k)
  <2>1. /\ stage[r] = "send" /\ NextPhase(r) /\ ShortCut(r, k)
        /\ val' = [val EXCEPT ![r] = Received(r, k, load)]
        /\ UNCHANGED <<step, net, site>>
    BY <1>2 DEF LocalCopy, At
  <2>2. From(r, k) = r /\ r # PROC_NULL
    BY <2>1, NullIsNoRank DEF ShortCut
  <2>3. site[step[r]] \in Rank \X Cell
    BY <1>0, <1>b, <2>1, StepLeft
  <2>4. val[r] = [c \in Cell |-> Share(k, r, c, step[r])]
    BY <2>1 DEF ValueInv, Shares
  <2>5. load = [c \in Slab(k) |-> Share(k, From(r, k), SentFor(k, c), step[r])]
    BY <1>a, <2>2, <2>4, PayloadShare
  <2> HIDE DEF load
  <2>6. Received(r, k, load) = [c \in Cell |-> Share(k + 1, r, c, step[r])]
    BY <1>a, <2>2, <2>3, <2>4, <2>5, AfterPhase
  <2> QED
    BY <2>1, <2>6, SharesNext
<1>3. ASSUME NEW r \in Rank, Send(r)
      PROVE  Shares' /\ val' \in [Rank -> [Cell -> 0..1]]
  <2> DEFINE k == phase[r]
             new == [src |-> r, dst |-> To(r, k), step |-> step[r],
                     phase |-> k, load |-> Payload(r, k)]
  <2>1. /\ stage' = [stage EXCEPT ![r] = "recv"] /\ stage[r] = "send"
        /\ net' \subseteq net \cup {new}
        /\ UNCHANGED <<phase, step, val, site>>
    BY <1>3 DEF Send, At, Goto
  <2>2. val[r] = [c \in Cell |-> Share(k, r, c, step[r])]
    BY <2>1 DEF ValueInv, Shares
  <2>3. new.load = [c \in Slab(new.phase) |->
                      Share(new.phase, new.src, SentFor(new.phase, c), new.step)]
    BY <1>a, <2>2, PayloadShare
  <2> HIDE DEF new
  <2>4. \A m \in net' :
          m.load = [c \in Slab(m.phase) |->
                      Share(m.phase, m.src, SentFor(m.phase, c), m.step)]
    BY <2>1, <2>3 DEF ValueInv, Shares
  <2>5. \A q \in Rank :
          /\ stage'[q] \in {"send", "recv"} =>
               val'[q] = [c \in Cell |-> Share(phase'[q], q, c, step'[q])]
          /\ stage'[q] = "ready" =>
               val'[q] = [c \in Cell |-> Share(4 * Dim + 1, q, c, step'[q])]
    BY <2>1 DEF ValueInv, MatchInv, Control, Shares
  <2>6. \A j, q, c, n : Share(j, q, c, n)' = Share(j, q, c, n)
    BY <2>1, SharesStay
  <2> QED
    BY <2>1, <2>4, <2>5, <2>6 DEF ValueInv, MatchInv, Control, Shares
<1>4. ASSUME NEW r \in Rank, Recv(r)
      PROVE  Shares' /\ val' \in [Rank -> [Cell -> 0..1]]
  <2> DEFINE k == phase[r]
             Held(j) == [c \in Cell |-> Share(j, r, c, step[r])]
  <2>1. /\ stage[r] = "recv" /\ NextPhase(r) /\ UNCHANGED <<step, site>>
    BY <1>4 DEF Recv, At
  <2>2. site[step[r]] \in Rank \X Cell
    BY <1>0, <1>b, <2>1, StepLeft
  <2>3. val[r] = Held(k)
    BY <2>1 DEF ValueInv, Shares
  <2>4. CASE From(r, k) = PROC_NULL
    <3>1. val' = val /\ net' = net
      BY <1>4, <2>4 DEF Recv
    <3>2. Held(k + 1) = val[r]
      BY <1>a, <2>2, <2>3, <2>4, AfterPhase
    <3>3. val' = [val EXCEPT ![r] = Held(k + 1)]
      BY <3>1, <3>2 DEF ValueInv, MatchInv, Control
    <3> QED
      BY <2>1, <3>1, <3>3, SharesNext
  <2>5. CASE From(r, k) # PROC_NULL
    <3>1. PICK m \in Oldest(net, From(r, k), r) :
            net' = net \ {m} /\ val' = [val EXCEPT ![r] = Received(r, k, m.load)]
      BY <1>4, <2>5 DEF Recv
    <3>2. /\ m \in net /\ m.src = From(r, k)
          /\ m.step = step[r] /\ m.phase = k
      BY <1>0, <2>1, MatchingMatches DEF At, MatchInv
    <3>3. m.load = [c \in Slab(k) |-> Share(k, From(r, k), SentFor(k, c), step[r])]
      BY <3>2 DEF ValueInv, Shares
    <3>4. Held(k + 1) = Received(r, k, m.load)
      BY <1>a, <2>2, <2>3, <2>5, <3>3, AfterPhase
    <3> QED
      BY <2>1, <3>1, <3>4, SharesNext
  <2> QED
    BY <2>4, <2>5
<1>5. ASSUME NEW r \in Rank, Advance(r)
      PROVE  Shares' /\ val' \in [Rank -> [Cell -> 0..1]]
  <2> DEFINE s == IF step[r] + 1 = MaxStep THEN "done" ELSE "deposit"
  <2>1. /\ stage' = [stage EXCEPT ![r] = s]
        /\ step' = [step EXCEPT ![r] = @ + 1]
        /\ UNCHANGED <<phase, val, net, site>>
    BY <1>5 DEF Advance, Goto
  <2>2. s \in {"done", "deposit"}
    OBVIOUS
  <2> HIDE DEF s
  <2>3. /\ stage'[r] = s
        /\ \A q \in Rank : q # r => stage'[q] = stage[q] /\ step'[q] = step[q]
    BY <2>1 DEF ValueInv, MatchInv, Control
  <2>4. \A q \in Rank :
          /\ stage'[q] \in {"send", "recv"} =>
               val'[q] = [c \in Cell |-> Share(phase'[q], q, c, step'[q])]
          /\ stage'[q] = "ready" =>
               val'[q] = [c \in Cell |-> Share(4 * Dim + 1, q, c, step'[q])]
    BY <2>1, <2>2, <2>3 DEF ValueInv, Shares
  <2>5. \A k, q, c, n : Share(k, q, c, n)' = Share(k, q, c, n)
    BY <2>1, SharesStay
  <2> QED
    BY <2>1, <2>4, <2>5 DEF ValueInv, MatchInv, Control, Shares
<1>6. CASE UNCHANGED vars
  <2>1. \A k, q, c, n : Share(k, q, c, n)' = Share(k, q, c, n)
    BY <1>6, SharesStay DEF vars
  <2> QED
    BY <1>6, <2>1 DEF vars, ValueInv, MatchInv, Control, Shares
<1> QED
  BY <1>1, <1>2, <1>3, <1>4, <1>5, <1>6 DEF Next, RankStep, Finished

\* Every variable keeps its type; with one deposit in flight no array and no
\* message ever holds it twice.
THEOREM FieldTypes == Spec => []TypeOK
  BY SharesType, ValueInit, ValueNext, PTL DEF Spec

LEMMA Totalled ==
  ASSUME ValueInv
  PROVE  InteriorComplete /\ HaloAgrees
<1>1. ASSUME NEW r \in Rank, stage[r] # "done"
      PROVE  site[step[r]] \in Rank \X Cell /\ phase[r] \in Phases
  BY <1>1, StepLeft DEF ValueInv, MatchInv, Control
<1>2. ASSUME NEW r \in Rank, At(r, "ready"), NEW c \in Cell
      PROVE  val[r][c] = Total(r, c, step[r])
  <2>1. val[r] = [y \in Cell |-> Share(4 * Dim + 1, r, y, step[r])]
    BY <1>2 DEF ValueInv, Shares, At
  <2> QED
    BY <1>1, <1>2, <2>1, ShareTotal DEF At
<1>3. ASSUME NEW r \in Rank, stage[r] \in {"send", "recv"}, ~Adds(phase[r]),
             NEW c \in Interior, c \in Cell
      PROVE  val[r][c] = Total(r, c, step[r])
  <2>1. val[r] = [y \in Cell |-> Share(phase[r], r, y, step[r])]
    BY <1>3 DEF ValueInv, Shares
  <2> QED
    BY <1>1, <1>3, <2>1, ShareTotal
<1>4. Interior \subseteq Cell
  BY Lengths DEF Interior, Cell
<1>5. InteriorComplete
  BY <1>2, <1>3, <1>4 DEF InteriorComplete, At
<1> QED
  BY <1>2, <1>5 DEF HaloAgrees

\* For any number of ranks, any topology and any extents: after the adding
\* phases an interior holds every deposit made at its positions exactly once
\* (send_add_guard_cells).
THEOREM DepositsComplete == Spec => []InteriorComplete
  BY Totalled, ValueInit, ValueNext, PTL DEF Spec

\* After the copying phases all copies of a position agree with it, corners
\* included (send_guard_cells).
THEOREM HaloComplete == Spec => []HaloAgrees
  BY Totalled, ValueInit, ValueNext, PTL DEF Spec
=============================================================================
