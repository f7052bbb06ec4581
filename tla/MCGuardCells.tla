---------------------------- MODULE MCGuardCells ----------------------------
(* An instance of GuardCells small enough for TLC. *)
EXTENDS GuardCells

\* Two ranks that are both neighbours of each other along x, their own
\* neighbour along y, and at an open end of the domain along z.
Pair == <<2, 1, 1>>
OpenZ == <<TRUE, TRUE, FALSE>>

\* Any deposit in the first step, the opposite one in the second.
Opposite(s) ==
  <<[s[1] EXCEPT ![1] = 1 - @], [d \in Axis |-> W - 1 - s[2][d]]>>
Mirrored ==
  {[n \in 0..(MaxStep - 1) |-> IF n % 2 = 0 THEN s ELSE Opposite(s)] :
     s \in Rank \X Cell}
=============================================================================
