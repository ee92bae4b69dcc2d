----------------------------- MODULE MC_BpReadVar -----------------------------
(***************************************************************************)
(* Model-checking instances of BpReadVar: the files the examples write     *)
(* (block decompositions of a global array, one PG per rank and time       *)
(* step) and every hyperslab of them, plus requests one past the global    *)
(* bound on each axis.                                                     *)
(***************************************************************************)
EXTENDS BpReadVar

\* shapes of the global array, file order
MC_GDims == <<3, 2>>
MC_NoDims == <<>>

\* sorted cut points of one axis of size n
Cuts(cs, n) == SetToSortSeq(cs \cup {0, n}, LAMBDA a, b : a < b)
Pieces(cs, n) ==
  LET p == Cuts(cs, n)
  IN [i \in 1 .. (Len(p) - 1) |-> [off |-> p[i], ld |-> p[i+1] - p[i]]]

\* A 2-D block-block decomposition, ranks numbered as in the examples:
\* posx = rank % npx, posy = rank / npx ("x" fastest) or the transpose.
Grid2(c0, c1, order) ==
  LET P0 == Pieces(c0, GDims[1])  P1 == Pieces(c1, GDims[2])
      n0 == Len(P0)  n1 == Len(P1)
      pos(r) == IF order = "x" THEN <<r % n0, r \div n0>> ELSE <<r \div n1, r % n1>>
  IN [r \in 1 .. (n0 * n1) |->
        LET q == pos(r - 1) IN
        [off |-> <<P0[q[1]+1].off, P1[q[2]+1].off>>,
         ld  |-> <<P0[q[1]+1].ld,  P1[q[2]+1].ld>>]]

GridLayouts ==
  {Grid2(c0, c1, o) : c0 \in SUBSET (1 .. (GDims[1] - 1)),
                      c1 \in SUBSET (1 .. (GDims[2] - 1)),
                      o \in {"x", "y"}}

\* Scalars: W ranks, each with an empty block.
ScalarLayouts == {[r \in 1 .. w |-> [off |-> <<>>, ld |-> <<>>]] : w \in 1 .. 2}

MaxRanks == 6
\* every rank writes the variable in time steps 1..k
PrefixWrites == {{<<t, r>> : t \in 1 .. k, r \in 1 .. MaxRanks} : k \in 1 .. NSteps}
AllWrites == {{<<t, r>> : t \in 1 .. NSteps, r \in 1 .. MaxRanks}}
\* only rank 1 writes, in time steps 1..k
Rank0Writes == {{<<t, 1>> : t \in 1 .. k} : k \in 1 .. NSteps}

ScalarWrites == PrefixWrites \cup Rank0Writes

\* start/count pairs of one axis of size n: every interval, and one past the end
AxisReqs(n) == UNION {{<<s, c>> : c \in 1 .. (n - s + 1)} : s \in 0 .. (n - 1)}
TimeReqs == UNION {{<<s, c>> : c \in 1 .. (NSteps - s)} : s \in 0 .. (NSteps - 1)}
ReqsOf(axes) ==
  {[start |-> [i \in DOMAIN a |-> a[i][1]], count |-> [i \in DOMAIN a |-> a[i][2]]] :
     a \in {f \in [Idx(Len(axes)) -> UNION Range(axes)] :
              \A i \in Idx(Len(axes)) : f[i] \in axes[i+1]}}
CallerShape == IF FileIsFortran THEN Reverse(GDims) ELSE GDims
AllRequests ==
  ReqsOf((IF HasTime THEN <<TimeReqs>> ELSE <<>>)
         \o [i \in 1 .. Len(CallerShape) |-> AxisReqs(CallerShape[i])])

\* Fortran layouts whose rank-0 block is thicker than one along file axis 0
ThickFirstLayouts == {L \in GridLayouts : L[1].ld[1] > 1}
ThinFirstLayouts == {L \in GridLayouts : L[1].ld[1] = 1}

\* A tiling that is not a grid: row 1 of the array is one block written
\* first, row 0 is split between two ranks, and the remaining rows are one
\* block written last.
Irregular ==
  { << [off |-> <<1, 0>>, ld |-> <<1, GDims[2]>>],
       [off |-> <<0, 0>>, ld |-> <<1, 1>>],
       [off |-> <<0, 1>>, ld |-> <<1, GDims[2] - 1>>],
       [off |-> <<2, 0>>, ld |-> <<GDims[1] - 2, GDims[2]>>] >> }

=============================================================================
