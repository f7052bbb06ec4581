----------------------------- MODULE MCRestart -----------------------------
(* Orders of systems, and contents as numbers, for TLC. *)
EXTENDS Restart

PusherFirst == <<"pusher", "solver", "exporter">>

\* Here TLC finds Resumes violated: the solver reads the J of the fresh job.
KerrSchild == <<"solver", "pusher", "injector", "exporter">>
Radiating == <<"pusher", "rad", "exporter">>

\* Different inputs give different contents, but for rare collisions.
Digest(s, d, st, t, in) ==
  LET Of(r) == IF r \in DOMAIN in THEN in[r] + 1 ELSE 0
      Mix(a, b) == (a * 131 + b * b + 7 * b + 1) % 10007
      Name == CASE d = "field" -> 1 [] d = "J" -> 2 [] d = "ptc" -> 3
                [] d = "photon" -> 4 [] d = "rng" -> 5 [] d = "ids" -> 6
      By == CASE s = "solver" -> 1 [] s = "bc" -> 2 [] s = "pusher" -> 3
              [] s = "rad" -> 4 [] s = "injector" -> 5 IN
  Mix(Mix(Mix(Mix(Mix(Mix(Mix(Mix(Mix(By, Name), st), t), Of("field")), Of("J")),
      Of("ptc")), Of("photon")), Of("rng")), Of("ids"))
=============================================================================
