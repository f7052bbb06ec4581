----------------------------- MODULE Migration -----------------------------
(***************************************************************************)
(* What the particle exchange promises, without buffers or messages: at    *)
(* the start of its step a rank holds only particles of its own domain;    *)
(* the ones its push moves out are handed to the rank that owns their new  *)
(* position, or leave through an open boundary, or are turned away by an   *)
(* owner whose array is full.                                              *)
(***************************************************************************)
EXTENDS CartesianDomain

CONSTANTS Ptc, Reach

VARIABLES
  pos,     \* the position of each particle
  held,    \* the particles each rank holds
  moving,  \* particles on their way
  gone     \* particles that left the simulation

vars == <<pos, held, moving, gone>>

Owned(r) == {p \in held[r] : InDomain(r, pos[p])}

Init ==
  /\ pos \in [Ptc -> Domain]
  /\ held = [r \in Rank |-> {p \in Ptc : InDomain(r, pos[p])}]
  /\ moving = {}
  /\ gone = {}

Drift(r) ==
  /\ held[r] = Owned(r)
  /\ \E f \in [held[r] -> Reach] :
       pos' = [p \in Ptc |->
                 IF p \in held[r] THEN Wrap(Add(pos[p], f[p])) ELSE pos[p]]
  /\ UNCHANGED <<held, moving, gone>>

\* A rank that is its own neighbour may also hand particles to itself.
Leave(r) ==
  \E S \in SUBSET Owned(r) :
    /\ S # {} => \E d \in Axis : Neighbor(r, d, 1) = r
    /\ held' = [held EXCEPT ![r] = Owned(r) \ S]
    /\ moving' = moving \cup (held[r] \ Owned(r)) \cup S
    /\ UNCHANGED <<pos, gone>>

Arrive(r) ==
  \E S \in SUBSET {p \in moving : InDomain(r, pos[p])} :
    \E turned \in SUBSET S :
      /\ held' = [held EXCEPT ![r] = @ \cup (S \ turned)]
      /\ gone' = gone \cup turned
      /\ moving' = moving \ S
      /\ UNCHANGED pos

Exit ==
  \E S \in SUBSET {p \in moving : Outside(pos[p])} :
    /\ gone' = gone \cup S
    /\ moving' = moving \ S
    /\ UNCHANGED <<pos, held>>

Next == Exit \/ \E r \in Rank : Drift(r) \/ Leave(r) \/ Arrive(r)

Spec == Init /\ [][Next]_vars
=============================================================================
