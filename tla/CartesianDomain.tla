-------------------------- MODULE CartesianDomain --------------------------
(***************************************************************************)
(* The Cartesian decomposition every distributed component relies on:      *)
(* ranks are MPI Cartesian coordinates, each owns N cells per axis plus G  *)
(* guard cells on either side, and positions are counted in cells of the   *)
(* global domain (domain_comm::setup_domain, domain_info_t, grid_t).       *)
(***************************************************************************)
EXTENDS Integers

CONSTANTS
  Dim,       \* Conf::dim
  Dims,      \* mpi_dims: the number of ranks along each axis
  Periodic,  \* is_periodic, per axis
  N,         \* cells per axis in the interior of one rank
  G          \* guard cells per side

Axis == 1..Dim

ASSUME DimAssumption == Dim \in 1..3
ASSUME DimsAssumption == Dims \in [Axis -> Nat \ {0}]
ASSUME PeriodicAssumption == Periodic \in [Axis -> BOOLEAN]
ASSUME CellAssumption == N \in Nat /\ G \in Nat \ {0} /\ G <= N

Coord == UNION {0..(Dims[d] - 1) : d \in Axis}
Rank == {r \in [Axis -> Coord] : \A d \in Axis : r[d] < Dims[d]}
PROC_NULL == [d \in Axis |-> -1]

\* Mutant of Neighbor: a periodic axis wraps to the wrong end.
NeighborWrong(r, d, s) ==
  LET c == r[d] + s IN
  IF c \in 0..(Dims[d] - 1) THEN [r EXCEPT ![d] = c]
  ELSE IF ~Periodic[d] THEN PROC_NULL
  ELSE IF c < 0 THEN [r EXCEPT ![d] = 0]
  ELSE [r EXCEPT ![d] = Dims[d] - 1]

\* The neighbour of r one step along axis d in direction s.
Neighbor(r, d, s) ==
  LET c == r[d] + s IN
  IF c \in 0..(Dims[d] - 1) THEN [r EXCEPT ![d] = c]
  ELSE IF ~Periodic[d] THEN PROC_NULL
  ELSE IF c < 0 THEN [r EXCEPT ![d] = Dims[d] - 1]
  ELSE [r EXCEPT ![d] = 0]

\* An exchange visits the axes in order, "left" first, then "right": phase k
\* sends to Dest and receives from Source.
PhaseAxis(k) == (k + 1) \div 2

\* Mutant of PhaseDir: the second phase of an axis repeats the first.
PhaseDirLeft(k) == -1

PhaseDir(k) == IF k % 2 = 1 THEN -1 ELSE 1
Dest(r, k) == Neighbor(r, PhaseAxis(k), PhaseDir(k))

\* Mutant of Source: receive from the side that is sent to.
SourceSame(r, k) == Neighbor(r, PhaseAxis(k), PhaseDir(k))

Source(r, k) == Neighbor(r, PhaseAxis(k), -PhaseDir(k))

-----------------------------------------------------------------------------
(* Positions *)

Domain == {x \in [Axis -> UNION {0..(Dims[d] * N - 1) : d \in Axis}] :
             \A d \in Axis : x[d] < Dims[d] * N}
InDomain(r, x) ==
  \A d \in Axis : r[d] * N <= x[d] /\ x[d] < (r[d] + 1) * N
\* The rank whose domain holds position x of Domain.
Owner(x) == [d \in Axis |-> x[d] \div N]
LocalCell(r, x) == [d \in Axis |-> x[d] - r[d] * N + G]
Add(u, v) == [d \in Axis |-> u[d] + v[d]]
Wrap(x) ==
  [d \in Axis |->
     IF ~Periodic[d] THEN x[d]
     ELSE IF x[d] < 0 THEN x[d] + Dims[d] * N
     ELSE IF x[d] >= Dims[d] * N THEN x[d] - Dims[d] * N
     ELSE x[d]]

\* Beyond an open boundary of the global domain.
Outside(x) == \E d \in Axis : ~Periodic[d] /\ (x[d] < 0 \/ x[d] >= Dims[d] * N)
=============================================================================
