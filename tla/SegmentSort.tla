---------------------------- MODULE SegmentSort ----------------------------
(***************************************************************************)
(* The counting sort of one segment of a particle array on the host: the   *)
(* histogram, scan and index passes of ptc_sort_by_cell, then the in-place *)
(* permutation along cycles of ptc_rearrange_arrays with its one temporary *)
(* particle.  Cells are 0 .. NumCells - 1 and NumCells stands for          *)
(* empty_cell, the key the code gives to dead particles.                   *)
(***************************************************************************)
EXTENDS Integers, FiniteSets

CONSTANTS Offset,    \* where the segment starts in the particle array
          Length,    \* sort_size: the particles in the segment
          NumCells   \* num_cells

ASSUME SegmentAssumption ==
  Offset \in Nat /\ Length \in Nat \ {0} /\ NumCells \in Nat \ {0}

Local == 0..(Length - 1)
Place == Offset..(Offset + Length - 1)
Key == 0..NumCells
DoneMark == -1    \* (size_t)-1

VARIABLES
  cell,   \* the key of each particle, named by its place before the sort
  ptc,    \* the particle array: which particle is at each place
  index,  \* m_index
  part,   \* m_partition
  pc, i,  \* the loop that is running and its counter
  j,      \* inner counter of the cycle walk
  tmp     \* p_tmp

vars == <<cell, ptc, index, part, pc, i, j, tmp>>

\* Mutant of KeyAt: empty_cell has no key of its own.
KeyAtWrapped(n) == cell[ptc[n + Offset]] % NumCells

KeyAt(n) == cell[ptc[n + Offset]]

Init ==
  /\ cell \in [Place -> Key]
  /\ ptc = [n \in Place |-> n]
  /\ index = [n \in Local |-> n]
  /\ part = [n \in 0..(NumCells + 1) |-> 0]
  /\ pc = "count"
  /\ i = 0
  /\ j = 0
  /\ tmp = Offset

\* End of a pass over 0 .. last: go on, or start the next one from first.
Loop(last, next, first) ==
  IF i = last THEN pc' = next /\ i' = first ELSE i' = i + 1 /\ UNCHANGED pc

Count ==
  /\ pc = "count"
  /\ index' = [index EXCEPT ![i] = part[KeyAt(i) + 1]]
  /\ part' = [part EXCEPT ![KeyAt(i) + 1] = @ + 1]
  /\ Loop(Length - 1, "scan", 1)
  /\ UNCHANGED <<cell, ptc, j, tmp>>

Scan ==
  /\ pc = "scan"
  /\ part' = [part EXCEPT ![i] = @ + part[i - 1]]
  /\ Loop(NumCells + 1, "place", 0)
  /\ UNCHANGED <<cell, ptc, index, j, tmp>>

PlaceIndex ==
  /\ pc = "place"
  /\ index' = [index EXCEPT ![i] = @ + part[KeyAt(i)] + Offset]
  /\ Loop(Length - 1, "cycles", 0)
  /\ UNCHANGED <<cell, ptc, part, j, tmp>>

\* Start of the cycle through place i, unless it was visited already.
StartCycle ==
  /\ pc = "cycles"
  /\ IF index[i] # DoneMark
     THEN tmp' = ptc[i + Offset] /\ j' = i /\ pc' = "walk" /\ UNCHANGED i
     ELSE Loop(Length - 1, "done", 0) /\ UNCHANGED <<tmp, j>>
  /\ UNCHANGED <<cell, ptc, index, part>>

\* Mutant of Displaced: the displaced particle is not picked up.
DisplacedNot == tmp

NextInCycle == index[j] - Offset
Displaced == ptc[index[j]]

\* The particle in hand is swapped with the one at its destination.
Swap ==
  /\ pc = "walk"
  /\ index[j] # i + Offset
  /\ ptc' = [ptc EXCEPT ![index[j]] = tmp]
  /\ tmp' = Displaced
  /\ index' = [index EXCEPT ![j] = DoneMark]
  /\ j' = NextInCycle
  /\ UNCHANGED <<cell, part, pc, i>>

CloseCycle ==
  /\ pc = "walk"
  /\ index[j] = i + Offset
  /\ ptc' = [ptc EXCEPT ![i + Offset] = tmp]
  /\ index' = [index EXCEPT ![j] = DoneMark]
  /\ IF i = Length - 1 THEN pc' = "done" /\ i' = 0
                        ELSE pc' = "cycles" /\ i' = i + 1
  /\ UNCHANGED <<cell, part, j, tmp>>

Stop == pc = "done" /\ UNCHANGED vars

Next == Count \/ Scan \/ PlaceIndex \/ StartCycle \/ Swap \/ CloseCycle \/ Stop

Spec == Init /\ [][Next]_vars

-----------------------------------------------------------------------------
(* Properties *)

\* At every moment of the in-place permutation every particle is in the array
\* or in hand: a crossed or unfinished cycle would overwrite one for good.
NothingOverwritten == {ptc[n] : n \in Place} \cup {tmp} = Place

\* The result is the stable sort by cell, with the dead particles last
\* (what the defragmentation of ptc_sort_by_cell builds on).
SortedByCell ==
  pc = "done" =>
    /\ {ptc[n] : n \in Place} = Place
    /\ \A m, n \in Place : m < n =>
         \/ cell[ptc[m]] < cell[ptc[n]]
         \/ cell[ptc[m]] = cell[ptc[n]] /\ ptc[m] < ptc[n]

\* segment_nums[n] = m_partition[num_cells] is the number of live particles,
\* so that the live ones are exactly the first that many of the segment.
LiveCount ==
  pc = "done" =>
    part[NumCells] = Cardinality({n \in Place : cell[n] # NumCells})
=============================================================================
