----------------------------- MODULE MCSchedule -----------------------------
(* The programs that CMake builds, for TLC. *)
EXTENDS Schedule

Built ==
  {NoCooling, Cooling, Cooling3D, TwoStream, TwoStream1D, SingleStream, Grpic,
   VacuumWald, TestParticle, EMWave, SphWaveVacuum, PmlTest, GcaTest,
   GcaTestCompare, PhaseSpaceTest, ICTest}
Reconnection == {Cooling, Cooling3D}
=============================================================================
