------------------------------- MODULE MC_Bp2Bp -------------------------------
(***************************************************************************)
(* bp2bp run on the files the structured2d_noxml example writes: every     *)
(* positive decomposition of up to 2 x 2 ranks processArgs accepts.  The  *)
(* file is C-ordered with one time step; one more file holds two groups,  *)
(* and one is the 2 x 1 group as a Fortran writer stores it.              *)
(***************************************************************************)
EXTENDS Bp2Bp, Structured2d

\* a file holding two such groups (under two group names), written by one
\* rank and by 1 x 2 ranks: bp2bp's group loop runs twice and its
\* adios_groupsize carries over from the first group to the second
TwoGroups ==
  [groups |-> <<Group(1, 1), [Group(1, 2) EXCEPT !.name = "structured2d_b"]>>,
   nsteps |-> 1, fortran |-> FALSE, npx |-> 1, npy |-> 1]

\* the group as a column-major (Fortran) writer leaves it: each dims list
\* in reverse order; bp2bp, a C reader, gets it back through swap_order
FortranGroup(npx, npy) ==
  LET G == Group(npx, npy)
      rev(c) == [c EXCEPT !.dims = [ld |-> RevArr(c.dims.ld), gd |-> RevArr(c.dims.gd),
                                    of |-> RevArr(c.dims.of)]]
  IN [G EXCEPT !.vars = [k \in DOMAIN G.vars |->
                          [G.vars[k] EXCEPT !.chars = [r \in DOMAIN @ |-> rev(@[r])]]]]

FortranFile ==
  [groups |-> <<FortranGroup(2, 1)>>, nsteps |-> 1, fortran |-> TRUE, npx |-> 2, npy |-> 1]

MC_Files ==
  {TwoGroups, FortranFile} \cup
  {[groups |-> <<Group(npx, npy)>>, nsteps |-> 1, fortran |-> FALSE,
    npx |-> npx, npy |-> npy] :
     <<npx, npy>> \in {<<x, y>> \in (1 .. 2) \X (1 .. 2) : ArgsOK(x, y, x * y)}}

\* the blocks the example's ranks write for data, X and Y
WriterBlocks(f) ==
  [r \in Idx(f.npx * f.npy) |->
     [offs    |-> Char("data", r, f.npx, f.npy).dims.of,
      lbounds |-> Char("data", r, f.npx, f.npy).dims.ld,
      gbounds |-> Char("data", r, f.npx, f.npy).dims.gd]]

\* The example's block-block decomposition (posx = rank % npx,
\* posy = rank / npx) gives every cell of the npx*ndx x npy*ndy global
\* array to exactly one rank: the file bp2bp reads is a well-formed global
\* array.
WriterTiles ==
  LET B == WriterBlocks(file) IN Tiles([k \in 1 .. Size(B) |-> B[k - 1]], B[0].gbounds)

=============================================================================
