--------------------------- MODULE MC_BpGroupQuery ---------------------------
(***************************************************************************)
(* A group of a C-written file, queried from C.  Its variables: a 2-D      *)
(* double array written in two blocks, an integer scalar written by two    *)
(* PGs, a 1-D byte array holding a string, and a scalar under a second     *)
(* path that shares its id with the array (ids are not unique in BP), and *)
(* a variable whose index record has no characteristics.                  *)
(* Its attributes: an inline value, references by id and path, a string    *)
(* reference to the byte array, a dangling reference, and a reference by  *)
(* the id the 2-D array shares with the scalar under path /y, which the    *)
(* path match resolves to that scalar.  Every path starts with '/'.        *)
(***************************************************************************)
EXTENDS BpGroupQuery

Blk(v, mn, mx, nd, ld) == [value |-> v, min |-> mn, max |-> mx, ndim |-> nd, ldim |-> ld]
P == <<"/", "p">>
Y == <<"/", "y">>

MC_Vars ==
  << [id |-> 1, path |-> P, name |-> <<"x">>, type |-> "double", bytes |-> <<>>,
      chars |-> << Blk(NULL, 2, 5, 2, 1), Blk(NULL, 1, 3, 2, 1) >>],
     [id |-> 2, path |-> P, name |-> <<"y">>, type |-> "integer", bytes |-> <<>>,
      chars |-> << Blk(7, NULL, NULL, 0, 0), Blk(8, NULL, NULL, 0, 0) >>],
     [id |-> 3, path |-> P, name |-> <<"x", "y">>, type |-> "byte", bytes |-> <<"x", "y", " ">>,
      chars |-> << Blk(NULL, 1, 3, 1, 3) >>],
     [id |-> 1, path |-> Y, name |-> <<"x">>, type |-> "integer", bytes |-> <<>>,
      chars |-> << Blk(9, NULL, NULL, 0, 0) >>],
     [id |-> 4, path |-> Y, name |-> <<"y">>, type |-> "double", bytes |-> <<>>,
      chars |-> <<>>] >>

Attr(path, name, type, value, vid) ==
  [path |-> path, name |-> name, type |-> type, value |-> value, var_id |-> vid]

MC_Attrs ==
  << Attr(P, <<"x">>, "integer", 4, 0),
     Attr(P, <<"y">>, "unknown", NULL, 2),
     Attr(P, <<"x", "y">>, "string", NULL, 3),
     Attr(Y, <<"x">>, "unknown", NULL, 1),
     Attr(Y, <<"y">>, "unknown", NULL, 5),
     Attr(Y, <<"y", "y">>, "unknown", NULL, 1) >>

\* every entry with and without its leading '/', and names of no entry
MC_Queries ==
  {VarNamelist[i] : i \in 1 .. NVars} \cup {Tail(VarNamelist[i]) : i \in 1 .. NVars}
  \cup {AttrNamelist[i] : i \in 1 .. NAttrs} \cup {Tail(AttrNamelist[i]) : i \in 1 .. NAttrs}
  \cup {<<"x">>, <<"/", "/", "p", "/", "x">>}
====
