----------------------------- MODULE YeeLattice -----------------------------
(***************************************************************************)
(* The arithmetic of one Cartesian time step, for arrays of any extent     *)
(* that are functions on cells (fields: on components, then cells):        *)
(* the staggered second-order differences (diff<Dir>, finite_diff<Dim>),   *)
(* the charge-conserving deposit of one particle (deposit_t<Dim>), the     *)
(* 1-2-1 filter (field_filter<Dim>) and the update of a field value with   *)
(* and without an absorbing layer (compute_e_update_pml and its siblings). *)
(*                                                                         *)
(* Lengths are in cells and delta = dt = 1.  A position inside a cell is   *)
(* counted in K-ths, and every deposit is multiplied by                    *)
(* 6 * K^Dim * FilterScale, so that all the arithmetic is exact in         *)
(* the integers.                                                           *)
(***************************************************************************)
EXTENDS CartesianDomain, FiniteSetsExt

CONSTANTS
  K,            \* sub-cell positions per axis
  FilterTimes,  \* m_filter_times ("current_smoothing")
  Damping,      \* "damping_boundary" under use_pml: pairs <<axis, side>>
  PmlLength     \* m_pml_length

ASSUME LatticeAssumption ==
  /\ K \in Nat \ {0} /\ FilterTimes \in Nat /\ PmlLength \in Nat
  /\ Damping \subseteq Axis \X {-1, 1}

Comp == 1..3   \* vector components

Shift(c, d, n) == [c EXCEPT ![d] = @ + n]
Next3(k) == IF k = 3 THEN 1 ELSE k + 1

\* Mutant of StaggerE: E is centred like B.
StaggerECell == [k \in Comp |-> [d \in Comp |-> IF d = k THEN 1 ELSE 0]]

\* stagger_t(0b110), (0b101), (0b011) and (0b001), (0b010), (0b100).
StaggerE == [k \in Comp |-> [d \in Comp |-> IF d = k THEN 0 ELSE 1]]
StaggerB == [k \in Comp |-> [d \in Comp |-> IF d = k THEN 1 ELSE 0]]

\* finite_diff<1> and <2> leave out the axes that are not there.
Diff(f, st, c, d) ==
  IF d \in Axis THEN f[Shift(c, d, st)] - f[Shift(c, d, st - 1)] ELSE 0

\* The two halves of component k of the curl of field V.
CurlPlus(V, St, k, c) ==
  LET i == Next3(k)  j == Next3(i) IN Diff(V[j], St[j][i], c, i)
CurlMinus(V, St, k, c) ==
  LET i == Next3(k)  j == Next3(i) IN -Diff(V[i], St[i][j], c, j)

Div(V, St, c) == MapThenSumSet(LAMBDA d : Diff(V[d], St[d][d], c, d), Axis)

-----------------------------------------------------------------------------
(* Deposit of a particle at x (in K-ths) inside its cell that moves by m *)

\* bspline<1>, radius 1.
Spline(u) == LET a == IF u < 0 THEN -u ELSE u IN IF a < K THEN K - a ELSE 0

\* move_ptc: the cells crossed along an axis.
CellsMoved(x, m) == (x + m) \div K

\* Mutant of Offsets: the cell above the final one is left out.
OffsetsShort(x, m) ==
  (IF CellsMoved(x, m) = -1 THEN -1 ELSE 0)..1

\* i_0 .. i_1.
Offsets(x, m) ==
  (IF CellsMoved(x, m) = -1 THEN -1 ELSE 0)..(IF CellsMoved(x, m) = 1 THEN 2 ELSE 1)

S0(x, i) == Spline(i * K - x)
S1(x, m, i) == Spline(i * K - x - m)

\* Six times the mean, over a straight move, of the product of the shapes
\* along a set of axes (movement2d, center2d of movement3d).
Mean(x, m, D, o) ==
  IF D = {} THEN 6
  ELSE LET a == CHOOSE d \in D : TRUE
           s0 == S0(x[a], o[a])  s1 == S1(x[a], m[a], o[a]) IN
       IF D = {a} THEN 3 * (s0 + s1)
       ELSE LET b == CHOOSE d \in D \ {a} : TRUE
                t0 == S0(x[b], o[b])  t1 == S1(x[b], m[b], o[b]) IN
            2 * s1 * t1 + s0 * t1 + s1 * t0 + 2 * s0 * t0

\* (4^Dim)^FilterTimes: each filter pass divides by 4^Dim.
FilterScale == 2^(2 * Dim * FilterTimes)

\* djx, djy, djz: along an axis of the grid the shape change summed up to the
\* offset; across it (v, in cells per step) the shape at the centre of the move.
DepositJ(x, m, v, k, o) ==
  IF k \in Axis
  THEN -MapThenSumSet(LAMBDA i : S1(x[k], m[k], i) - S0(x[k], i),
                      {i \in Offsets(x[k], m[k]) : i <= o[k]})
         * Mean(x, m, Axis \ {k}, o) * FilterScale
  ELSE v * Mean(x, m, Axis, o) * FilterScale

\* rho is deposited at the final position.
DepositRho(x, m, o) ==
  MapThenFoldSet(LAMBDA a, b : a * b, 1, LAMBDA d : S1(x[d], m[d], o[d]),
                 LAMBDA s : CHOOSE d \in s : TRUE, Axis)
    * 6 * FilterScale

-----------------------------------------------------------------------------
(* Filter *)

\* One pass at cell c.  ends are the ends <<axis, side>> of the domain that c
\* lies at, where the cell stands in for its missing neighbour.  Per axis the
\* weight is 2 in the middle and 1 beside it.
Filtered(f, ends, c) ==
  LET Total(n) == 2^Cardinality({d \in Axis : n[d] = 0}) IN
  MapThenSumSet(
    LAMBDA n : Total(n) * f[[d \in Axis |-> IF <<d, n[d]>> \in ends THEN c[d]
                                            ELSE c[d] + n[d]]],
    [Axis -> -1..1]) \div 4^Dim
-----------------------------------------------------------------------------
(* Solvers *)

\* A box lo..hi of cells with absorbing layers on some of its sides.
Box(lo, hi, layers) == [lo |-> lo, hi |-> hi, layers |-> layers]

\* Depth of cell c of a box inside its layers along axis d, in half cells: 0
\* outside of them and on their inner face.  half is 1 for a value at the
\* centre of the cell.
Depth(box, c, d, half) ==
  IF <<d, -1>> \in box.layers /\ c[d] < box.lo[d] + PmlLength
  THEN 2 * (box.lo[d] + PmlLength - c[d]) - half
  ELSE IF <<d, 1>> \in box.layers /\ c[d] > box.hi[d] - PmlLength
  THEN 2 * (c[d] - (box.hi[d] + 1 - PmlLength)) + half
  ELSE 0

\* One component of one cell, and its two split halves: result, e1, e2 (b1,
\* b2).  A half inside a layer is damped away within a step (sigma * dt = 1).
Advanced(f, h1, h2, plus, minus, source, damped1, damped2) ==
  IF damped1 \/ damped2
  THEN LET n1 == plus + (IF damped1 THEN 0 ELSE h1)
           n2 == minus + (IF damped2 THEN 0 ELSE h2) IN
       <<n1 + n2 - source, n1, n2>>
  ELSE <<f + plus + minus - source, h1, h2>>

\* compute_e_update_pml on the fields f: the current is damped too, alpha_k by
\* the depth of its own position (deep enough to vanish inside a layer).
AdvanceE(f, box, k, c) ==
  LET i == Next3(k)  j == Next3(i)
      kept == \A d \in Axis : Depth(box, c, d, IF d = k THEN 1 ELSE 0) = 0 IN
  Advanced(f.E[k][c], f.E1[k][c], f.E2[k][c],
           CurlPlus(f.B, StaggerB, k, c), CurlMinus(f.B, StaggerB, k, c),
           IF kept THEN f.J[k][c] ELSE 0,
           Depth(box, c, i, 0) > 0, Depth(box, c, j, 0) > 0)

\* compute_b_update_pml.
AdvanceB(f, box, k, c) ==
  LET i == Next3(k)  j == Next3(i) IN
  Advanced(f.B[k][c], f.B1[k][c], f.B2[k][c],
           -CurlPlus(f.E, StaggerE, k, c), -CurlMinus(f.E, StaggerE, k, c),
           0, Depth(box, c, i, 1) > 0, Depth(box, c, j, 1) > 0)
=============================================================================
