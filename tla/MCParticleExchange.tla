------------------------ MODULE MCParticleExchange ------------------------
(* Instances of ParticleExchange small enough for TLC. *)
EXTENDS ParticleExchange, TLC

Line3 == <<3>>
Pair == <<2, 1, 1>>
Stack1x1x2 == <<1, 1, 2>>

Segment == <<FALSE>>
Torus == <<TRUE, TRUE, TRUE>>
PeriodicX == <<TRUE, FALSE, FALSE>>

Step1 == {<<-1>>, <<0>>, <<1>>}
Diagonal3 == {<<0, 0, 0>>, <<1, 0, 0>>, <<-1, 0, 1>>, <<1, 1, -1>>, <<0, 0, 1>>}
Forward3 == {<<0, 0, 0>>, <<1, 0, 0>>, <<0, 0, 1>>}

PtcSymmetry == Permutations(Ptc)
===========================================================================
