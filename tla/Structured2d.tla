----------------------------- MODULE Structured2d -----------------------------
(***************************************************************************)
(* The example writer src/examples/C/schema/structured2d_noxml.c: nproc    *)
(* ranks, arranged npx x npy, each write one process group of the group    *)
(* "structured2d" with seven integer scalars and three 2-D double arrays   *)
(* (X, Y, data) decomposed block by block.  The module gives the index     *)
(* such a run leaves in the file: for each variable, in the order it is    *)
(* defined, one characteristic per rank in rank order (one PG per writer). *)
(* The array values are abstracted: an element is named by its variable    *)
(* and global coordinate, except data, whose elements are the writing rank.*)
(***************************************************************************)
EXTENDS Integers, Sequences, FiniteSets, BpDims

\* processArgs: the product of the decomposition (atoi of argv[1], argv[2])
\* must be the number of processes; nothing else is checked
ArgsOK(npx, npy, nproc) == npx * npy = nproc

\* the size of each rank's block (ndx, ndy), fixed by main
NDX == 65
NDY == 129

\* variant: posy = rank / npy
DecompPosyByNpy(rank, npx, npy) ==
  LET posx == rank % npx
      posy == rank \div npy
  IN [offs_x |-> posx * NDX, offs_y |-> posy * NDY,
      nx_local |-> NDX, ny_local |-> NDY,
      nx_global |-> npx * NDX, ny_global |-> npy * NDY]

\* the 2-D block-block decomposition of main for one rank
Decomp(rank, npx, npy) ==
  LET posx == rank % npx
      posy == rank \div npx
  IN [offs_x |-> posx * NDX, offs_y |-> posy * NDY,
      nx_local |-> NDX, ny_local |-> NDY,
      nx_global |-> npx * NDX, ny_global |-> npy * NDY]

\* the variables in the order of the adios_define_var calls
ScalarNames == <<"nx_global", "ny_global", "nproc", "offs_x", "offs_y",
                 "nx_local", "ny_local">>
ArrayNames == <<"X", "Y", "data">>

\* the value rank writes for a scalar (nproc is the size of the communicator)
Value(name, rank, npx, npy) ==
  IF name = "nproc" THEN npx * npy ELSE Decomp(rank, npx, npy)[name]

\* rank's characteristic of a variable: the dims triples (local, global,
\* offset) of "nx_local,ny_local", "nx_global,ny_global", "offs_x,offs_y"
\* for an array, the value for a scalar
Char(name, rank, npx, npy) ==
  LET d == Decomp(rank, npx, npy)
  IN IF \E k \in DOMAIN ScalarNames : ScalarNames[k] = name
     THEN [dims |-> [ld |-> Arr(<<>>), gd |-> Arr(<<>>), of |-> Arr(<<>>)],
           value |-> Value(name, rank, npx, npy)]
     ELSE [dims |-> [ld |-> Arr(<<d.nx_local, d.ny_local>>),
                     gd |-> Arr(<<d.nx_global, d.ny_global>>),
                     of |-> Arr(<<d.offs_x, d.offs_y>>)],
           value |-> "none"]

\* the attributes the group gets from adios_define_schema_version and the
\* mesh definitions: their names and values are chosen by the write side,
\* which is not in this repository; they are inline strings, the first
\* one the schema version "1.1" of main
SchemaAttrs == <<[name |-> "schema_version", ok |-> TRUE, type |-> "string", value |-> "1.1"],
                 [name |-> "structuredmesh", ok |-> TRUE, type |-> "string", value |-> "mesh"]>>

\* the group as the index describes it after every rank has written
Group(npx, npy) ==
  LET names == ScalarNames \o ArrayNames
  IN [name |-> "structured2d",
      attrs |-> SchemaAttrs,
      vars |-> [i \in DOMAIN names |->
                  [name  |-> names[i],
                   type  |-> IF i <= Len(ScalarNames) THEN "integer" ELSE "double",
                   chars |-> [r \in Idx(npx * npy) |-> Char(names[i], r, npx, npy)]]]]

=============================================================================
