-------------------------------- MODULE Bp2Bp --------------------------------
(***************************************************************************)
(* The converter src/utils/bp2bp/bp2bp.c: a sequential program that opens  *)
(* a BP file with the read API and, group by group, declares every         *)
(* variable and attribute in a new group, opens the output, and writes     *)
(* every variable again.  A scalar is written from the value inq_var       *)
(* returns.  An array is split along its last dimension: the declaration   *)
(* loop defines one output block per plane ii (local bounds d0,..,1 at     *)
(* offset 0,..,ii), and the write loop reads plane ii with read_var_byid   *)
(* and writes it under the same name.                                      *)
(*                                                                         *)
(* The inquiry is common_read_get_dimensions (BpDims) on the input's index;*)
(* a read is modelled by what read_var_byid promises (SlabRead, which      *)
(* BpReadVar implements): the slab it was asked for, named by variable,    *)
(* start and count, when the request is within the dimensions.  The       *)
(* output side (adios_define_var, adios_write, ...) is not in this         *)
(* repository: an output definition is the record of the bounds strings    *)
(* bp2bp formats, each string as the sequence of the numbers it prints,    *)
(* and a write is the data and byte count handed to adios_write.           *)
(***************************************************************************)
EXTENDS Integers, Sequences, FiniteSets, Functions, SequencesExt, BpDims

CONSTANTS
  Files,      \* the input files: [groups, nsteps, fortran, ...]
  Garbage,    \* the contents of a buffer nothing was read into
  Undefined   \* an automatic variable before its first assignment

VARIABLES
  file,       \* the input file (adios_fopen(argv[1]))
  pc,         \* "group": top of the group loop, "declare", "attrs", "write", "done"
  gidx,       \* the group loop index
  i,          \* the variable (or attribute) loop index
  ii,         \* the plane loop index
  outSize,    \* out_size, set by getTypeInfo
  groupsize,  \* adios_groupsize
  defs,       \* output definitions per <<gidx, name>>: sequence of [type, lbounds, gbounds, offs]
  attrDefs,   \* output attributes, in definition order
  declared,   \* the size passed to adios_group_size for the open output group
  writes,     \* adios_write calls per <<gidx, name>>: sequence of [data, bytes]
  written     \* bytes handed to adios_write since the output group was opened

vars == <<file, pc, gidx, i, ii, outSize, groupsize, defs, attrDefs, declared,
          writes, written>>

-----------------------------------------------------------------------------
(* The input as the read API shows it                                       *)

NGroups == Len(file.groups)
Grp(g) == file.groups[g + 1]
NVars(g) == Len(Grp(g).vars)
NAttrs(g) == Len(Grp(g).attrs)
Var(g, k) == Grp(g).vars[k + 1]
Keys(f) == UNION {{<<g - 1, v.name>> : v \in Range(f.groups[g].vars)} : g \in DOMAIN f.groups}

\* adios_inq_var_byid: type, ndim, dims[] (in the caller's order) and value
InqVar(v) ==
  LET d0 == GetDimensions(v.chars[0].dims, file.nsteps, Size(v.chars))
      d  == IF file.fortran THEN SwapOrder(d0) ELSE d0
  IN [type |-> v.type, ndim |-> d.ndim, dims |-> d.dims, value |-> v.chars[0].value]

\* getTypeInfo: the element size of a type, Undefined where it returns 1
\* and leaves *elemsize alone (long_double and the rest)
GetTypeInfo(t) ==
  CASE t \in {"unsigned_byte", "byte", "string"}          -> 1
    [] t \in {"unsigned_short", "short"}                  -> 2
    [] t \in {"unsigned_integer", "integer", "real"}      -> 4
    [] t \in {"unsigned_long", "long", "double", "complex"} -> 8
    [] t = "double_complex"                               -> 16
    [] OTHER                                              -> Undefined
\* out_size after err = getTypeInfo(type, &out_size)
OutSize(t) == IF GetTypeInfo(t) = Undefined THEN outSize ELSE GetTypeInfo(t)

\* bp_get_type_size: the bytes adios_write takes for one element
TypeSize(t, value) ==
  CASE t = "string"      -> Len(value) + 1
    [] t = "long_double" -> 16
    [] OTHER             -> GetTypeInfo(t)

ProdOf(a) == FoldFunction(LAMBDA x, y : x * y, 1, a)

\* what read_var_byid delivers for start s, count c: the slab, or nothing
\* (the malloc'd buffer keeps its garbage) when the request leaves dims
ReadVar(key, v, s, c) ==
  IF \A j \in DOMAIN c : s[j] + c[j] <= v.dims[j]
  THEN [var |-> key, start |-> s, count |-> c]
  ELSE Garbage

-----------------------------------------------------------------------------
(* The program                                                             *)

Init ==
  /\ file \in Files
  /\ pc = "group"
  /\ gidx = 0
  /\ i = 0
  /\ ii = Undefined
  /\ outSize = Undefined
  /\ groupsize = 0
  /\ defs = [k \in Keys(file) |-> <<>>]
  /\ attrDefs = <<>>
  /\ declared = 0
  /\ writes = [k \in Keys(file) |-> <<>>]
  /\ written = 0

\* top of the group loop: adios_gopen, adios_declare_group, select_method
GOpen ==
  /\ pc = "group" /\ gidx < NGroups
  /\ pc' = "declare" /\ i' = 0
  /\ UNCHANGED <<file, gidx, ii, outSize, groupsize, defs, attrDefs, declared, writes, written>>

\* end of the group loop: adios_fclose, adios_finalize, return 0
Finish ==
  /\ pc = "group" /\ gidx = NGroups
  /\ pc' = "done"
  /\ UNCHANGED <<file, gidx, i, ii, outSize, groupsize, defs, attrDefs, declared, writes, written>>

\* variant: every plane declared at the offset ii held before the loop
\* (the start_t[j] = ii of the line before it)
DeclareVarStaleOffset ==
  /\ pc = "declare" /\ i < NVars(gidx)
  /\ LET v == InqVar(Var(gidx, i))
         key == <<gidx, Var(gidx, i).name>>
         n == v.ndim
         last == n - 1
         lb == [j \in Idx(n) |-> IF j < last THEN v.dims[j] ELSE 1]
         plane(k) == [type |-> v.type, lbounds |-> lb, gbounds |-> v.dims,
                      offs |-> [j \in Idx(n) |-> IF j < last THEN 0 ELSE ii]]
     IN /\ outSize' = OutSize(v.type)
        /\ IF n = 0
           THEN /\ defs' = [defs EXCEPT ![key] = Append(@,
                             [type |-> v.type, lbounds |-> <<>>, gbounds |-> <<>>, offs |-> <<>>])]
                /\ groupsize' = groupsize + outSize'
                /\ ii' = ii
           ELSE /\ defs' = [defs EXCEPT ![key] = @ \o [k \in 1 .. v.dims[last] |-> plane(k - 1)]]
                /\ groupsize' = groupsize + outSize' * ProdOf(v.dims)
                /\ ii' = v.dims[last]
  /\ i' = i + 1
  /\ UNCHANGED <<file, pc, gidx, attrDefs, declared, writes, written>>

\* variant: msize multiplies the dimensions but the last
DeclareVarMsizeNoLast ==
  /\ pc = "declare" /\ i < NVars(gidx)
  /\ LET v == InqVar(Var(gidx, i))
         key == <<gidx, Var(gidx, i).name>>
         n == v.ndim
         last == n - 1
         lb == [j \in Idx(n) |-> IF j < last THEN v.dims[j] ELSE 1]
         plane(k) == [type |-> v.type, lbounds |-> lb, gbounds |-> v.dims,
                      offs |-> [j \in Idx(n) |-> IF j < last THEN 0 ELSE k]]
     IN /\ outSize' = OutSize(v.type)
        /\ IF n = 0
           THEN /\ defs' = [defs EXCEPT ![key] = Append(@,
                             [type |-> v.type, lbounds |-> <<>>, gbounds |-> <<>>, offs |-> <<>>])]
                /\ groupsize' = groupsize + outSize'
                /\ ii' = ii
           ELSE /\ defs' = [defs EXCEPT ![key] = @ \o [k \in 1 .. v.dims[last] |-> plane(k - 1)]]
                /\ groupsize' = groupsize + outSize' * ProdOf([j \in Idx(last) |-> v.dims[j]])
                /\ ii' = v.dims[last]
  /\ i' = i + 1
  /\ UNCHANGED <<file, pc, gidx, attrDefs, declared, writes, written>>

\* the declaration of the output blocks of variable i: one for a scalar,
\* one per plane of the last dimension for an array, then the group size
DeclareVar ==
  /\ pc = "declare" /\ i < NVars(gidx)
  /\ LET v == InqVar(Var(gidx, i))
         key == <<gidx, Var(gidx, i).name>>
         n == v.ndim
         last == n - 1
         gb == v.dims
         lb == [j \in Idx(n) |-> IF j < last THEN v.dims[j] ELSE 1]
         plane(k) == [type |-> v.type, lbounds |-> lb, gbounds |-> gb,
                      offs |-> [j \in Idx(n) |-> IF j < last THEN 0 ELSE k]]
     IN /\ outSize' = OutSize(v.type)
        /\ IF n = 0
           THEN /\ defs' = [defs EXCEPT ![key] = Append(@,
                             [type |-> v.type, lbounds |-> <<>>, gbounds |-> <<>>, offs |-> <<>>])]
                /\ groupsize' = groupsize + outSize'
                /\ ii' = ii
           ELSE /\ defs' = [defs EXCEPT ![key] = @ \o [k \in 1 .. v.dims[last] |-> plane(k - 1)]]
                /\ groupsize' = groupsize + outSize' * ProdOf(v.dims)
                /\ ii' = v.dims[last]
  /\ i' = i + 1
  /\ UNCHANGED <<file, pc, gidx, attrDefs, declared, writes, written>>

EndDeclare ==
  /\ pc = "declare" /\ i = NVars(gidx)
  /\ pc' = "attrs" /\ i' = 0
  /\ UNCHANGED <<file, gidx, ii, outSize, groupsize, defs, attrDefs, declared, writes, written>>

\* adios_get_attr_byid, whose status is not looked at, then
\* adios_define_attribute with what atype and adata hold
DefineAttr ==
  /\ pc = "attrs" /\ i < NAttrs(gidx)
  /\ LET a == Grp(gidx).attrs[i + 1] IN
     attrDefs' = Append(attrDefs,
                   [group |-> gidx, name |-> a.name,
                    type  |-> IF a.ok THEN a.type ELSE Undefined,
                    value |-> IF a.ok THEN a.value ELSE Undefined])
  /\ i' = i + 1
  /\ UNCHANGED <<file, pc, gidx, ii, outSize, groupsize, defs, declared, writes, written>>

\* adios_open of the output in append mode and adios_group_size
EndAttrs ==
  /\ pc = "attrs" /\ i = NAttrs(gidx)
  /\ pc' = "write" /\ i' = 0 /\ ii' = 0
  /\ declared' = groupsize /\ written' = 0
  /\ UNCHANGED <<file, gidx, outSize, groupsize, defs, attrDefs, writes>>

Write(key, data, bytes) ==
  /\ writes' = [writes EXCEPT ![key] = Append(@, [data |-> data, bytes |-> bytes])]
  /\ written' = written + bytes

\* a scalar is written from the value inq_var returns
WriteScalar ==
  /\ pc = "write" /\ i < NVars(gidx)
  /\ LET v == InqVar(Var(gidx, i)) IN
     /\ v.ndim = 0
     /\ Write(<<gidx, Var(gidx, i).name>>, v.value, TypeSize(v.type, v.value))
  /\ i' = i + 1
  /\ UNCHANGED <<file, pc, gidx, ii, outSize, groupsize, defs, attrDefs, declared>>

\* variant: s[j] of the last dimension left at 0
WritePlaneFirstPlane ==
  /\ pc = "write" /\ i < NVars(gidx)
  /\ LET v == InqVar(Var(gidx, i))
         last == v.ndim - 1
         s == [j \in Idx(v.ndim) |-> 0]
         c == [j \in Idx(v.ndim) |-> IF j < last THEN v.dims[j] ELSE 1]
     IN /\ v.ndim > 0 /\ ii < v.dims[last]
        /\ outSize' = OutSize(v.type)
        /\ Write(<<gidx, Var(gidx, i).name>>, ReadVar(<<gidx, Var(gidx, i).name>>, v, s, c),
                 ProdOf(c) * TypeSize(v.type, v.value))
  /\ ii' = ii + 1
  /\ UNCHANGED <<file, pc, gidx, i, groupsize, defs, attrDefs, declared>>

\* one pass of the plane loop: read plane ii into a fresh buffer, write it
WritePlane ==
  /\ pc = "write" /\ i < NVars(gidx)
  /\ LET v == InqVar(Var(gidx, i))
         last == v.ndim - 1
         s == [j \in Idx(v.ndim) |-> IF j < last THEN 0 ELSE ii]
         c == [j \in Idx(v.ndim) |-> IF j < last THEN v.dims[j] ELSE 1]
     IN /\ v.ndim > 0 /\ ii < v.dims[last]
        /\ outSize' = OutSize(v.type)
        /\ Write(<<gidx, Var(gidx, i).name>>, ReadVar(<<gidx, Var(gidx, i).name>>, v, s, c),
                 ProdOf(c) * TypeSize(v.type, v.value))
  /\ ii' = ii + 1
  /\ UNCHANGED <<file, pc, gidx, i, groupsize, defs, attrDefs, declared>>

\* the plane loop ends (ii = dims[ndim-1]): next variable
EndVarWrite ==
  /\ pc = "write" /\ i < NVars(gidx)
  /\ LET v == InqVar(Var(gidx, i)) IN v.ndim > 0 /\ ii = v.dims[v.ndim - 1]
  /\ i' = i + 1 /\ ii' = 0
  /\ UNCHANGED <<file, pc, gidx, outSize, groupsize, defs, attrDefs, declared, writes, written>>

\* adios_close of the output, adios_gclose, next group
EndGroup ==
  /\ pc = "write" /\ i = NVars(gidx)
  /\ pc' = "group" /\ gidx' = gidx + 1
  /\ UNCHANGED <<file, i, ii, outSize, groupsize, defs, attrDefs, declared, writes, written>>

Next ==
  \/ GOpen \/ Finish
  \/ DeclareVar \/ EndDeclare
  \/ DefineAttr \/ EndAttrs
  \/ WriteScalar \/ WritePlane \/ EndVarWrite \/ EndGroup

Spec == Init /\ [][Next]_vars

-----------------------------------------------------------------------------
(* Properties                                                              *)

\* the total volume of the boxes ds[lo..hi], summed by halves so that the
\* recursion stays shallow for the hundreds of planes of an array
RECURSIVE VolumeSum(_, _, _)
VolumeSum(ds, lo, hi) ==
  IF lo > hi THEN 0
  ELSE IF lo = hi THEN ProdOf(ds[lo].lbounds)
  ELSE LET m == (lo + hi) \div 2 IN VolumeSum(ds, lo, m) + VolumeSum(ds, m + 1, hi)

\* the boxes [offs, offs + lbounds) of a sequence of definitions
Disjoint(a, b) ==
  \E j \in DOMAIN a.offs : a.offs[j] + a.lbounds[j] <= b.offs[j]
                           \/ b.offs[j] + b.lbounds[j] <= a.offs[j]
Tiles(ds, dims) ==
  /\ \A k \in DOMAIN ds : ds[k].gbounds = dims
                          /\ \A j \in DOMAIN dims : ds[k].offs[j] + ds[k].lbounds[j] <= dims[j]
  /\ \A k1, k2 \in DOMAIN ds : k1 < k2 => Disjoint(ds[k1], ds[k2])
  /\ VolumeSum(ds, 1, Len(ds)) = ProdOf(dims)

ArrayKeys == {k \in DOMAIN defs : defs[k] # <<>> /\ defs[k][1].lbounds # <<>>}
InputVar(key) == CHOOSE v \in Range(Grp(key[1]).vars) : v.name = key[2]

\* When bp2bp has finished, the output blocks it declared for each array
\* variable (one per plane of the last dimension, from the bounds strings
\* of the declaration loop) cover the variable's global shape exactly once,
\* and that shape is the one the inquiry gave.
OutputTiles ==
  pc = "done" => \A key \in ArrayKeys : Tiles(defs[key], InqVar(InputVar(key)).dims)

\* The k-th adios_write of a variable carries exactly the data the k-th
\* declared block of that name stands for: the slab of the input at the
\* block's offsets and local bounds for an array (what read_var_byid
\* returns for the plane read in the write loop), the inquired value for a
\* scalar; and when bp2bp has finished every declared block was written.
OutputMatchesInput ==
  /\ \A key \in DOMAIN writes :
       /\ Len(writes[key]) <= Len(defs[key])
       /\ \A k \in DOMAIN writes[key] :
            writes[key][k].data =
              IF defs[key][k].lbounds = <<>>
              THEN InqVar(InputVar(key)).value
              ELSE [var |-> key, start |-> defs[key][k].offs, count |-> defs[key][k].lbounds]
  /\ pc = "done" => \A key \in DOMAIN writes : Len(writes[key]) = Len(defs[key])

\* The size bp2bp passes to adios_group_size covers the bytes it then hands
\* to adios_write in that group: the declaration loop's out_size * msize
\* sum against the write loop's scalars and planes.
GroupSizeCovers ==
  pc = "write" => written <= declared

=============================================================================
