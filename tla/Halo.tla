-------------------------------- MODULE Halo --------------------------------
(***************************************************************************)
(* What an exchange of guard cells promises, without its messages: every   *)
(* local cell of every rank stands for one position, and the positions on  *)
(* which local arrays overlap have one home.  GuardCells models the        *)
(* messages and is checked to keep this promise.                           *)
(***************************************************************************)
EXTENDS CartesianDomain, FiniteSetsExt

W == N + 2 * G     \* grid.dims[i]
Cell == [Axis -> 0..(W - 1)]
Interior == [Axis -> G..(N + G - 1)]

\* The global position a local cell stands for.
Global(r, c) == Wrap([d \in Axis |-> r[d] * N + c[d] - G])

\* Along an axis on which the position is beyond an open end of the domain a
\* cell has no other copy; along the others it lives in its owner's interior.
HomeRank(r, c) ==
  LET x == Global(r, c) IN
  [d \in Axis |-> IF x[d] \in 0..(Dims[d] * N - 1) THEN x[d] \div N ELSE r[d]]
HomeCell(r, c) ==
  LET x == Global(r, c) IN
  [d \in Axis |-> IF x[d] \in 0..(Dims[d] * N - 1) THEN (x[d] % N) + G ELSE c[d]]

\* All local cells that stand for position x.
Copies(x) ==
  {y \in {<<r, [d \in Axis |-> x[d] - r[d] * N + G + p[d] * Dims[d] * N]>> :
            r \in Rank, p \in [Axis -> -1..1]} :
     y[2] \in Cell /\ Global(y[1], y[2]) = x}

\* send_guard_cells: every copy takes the value at its home.
Refreshed(f) ==
  [r \in Rank |-> [c \in Cell |-> f[HomeRank(r, c)][HomeCell(r, c)]]]

\* send_add_guard_cells, then send_guard_cells: every copy takes the sum over
\* all of them.
Folded(f) ==
  [r \in Rank |-> [c \in Cell |->
     MapThenSumSet(LAMBDA y : f[y[1]][y[2]], Copies(Global(r, c)))]]
=============================================================================
