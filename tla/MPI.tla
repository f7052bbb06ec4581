-------------------------------- MODULE MPI --------------------------------
(***************************************************************************)
(* What the code relies on from the MPI library (external): MPI_Sendrecv   *)
(* starts its send without waiting for the receiver, and a receive takes   *)
(* the oldest message that its source sent to it on that communicator (the *)
(* non-overtaking rule).  A message is stamped with the time step and the  *)
(* phase its sender was in; only the sender's order is used to match.      *)
(***************************************************************************)
EXTENDS Integers

Before(m, n) == m.step < n.step \/ (m.step = n.step /\ m.phase < n.phase)

Oldest(msgs, src, dst) ==
  LET pending == {m \in msgs : m.src = src /\ m.dst = dst} IN
  {m \in pending : \A n \in pending : ~Before(n, m)}
=============================================================================
