---------------------------- MODULE MCFieldStep ----------------------------
(* An instance of FieldStep small enough for TLC. *)
EXTENDS FieldStep

Grid2x1 == <<2, 1>>
OpenX == <<FALSE, TRUE>>
LayersX == {<<1, -1>>, <<1, 1>>}
\* Along the open axis everywhere, along the periodic one in one cell.
Column == {<<a, b>> : a \in 0..15, b \in 0..1}
Steps == {<<2, 1>>, <<-1, -2>>, <<1, 0>>}
=============================================================================
