----------------------------- MODULE BpGroupQuery ----------------------------
(***************************************************************************)
(* The queries a caller makes on one open group (src/src/common_read.c):   *)
(* common_read_inq_var(_byid) with get_characteristics and free_varinfo,   *)
(* common_read_get_attr(_byid), and the name lookup they share             *)
(* (common_read_find_var and the loop of get_attr).  The calls are         *)
(* sequential on one rank; what is interleaved is the caller's order of    *)
(* calls, the aliasing of the pointers a varinfo holds, and the mallocs    *)
(* that may fail at the points named in Faults.                            *)
(*                                                                         *)
(* A name is a sequence of characters.  The group's catalogue is given:    *)
(* Vars and Attrs are the group's window of the file's variable and        *)
(* attribute lists, in list order; the namelists are built from their      *)
(* paths and names as the index parser builds them.                        *)
(***************************************************************************)
EXTENDS Integers, Sequences, SequencesExt, FiniteSets

CONSTANTS
  Vars,          \* sequence of [id, path, name, type, chars, bytes]
  Attrs,         \* sequence of [path, name, type, value, var_id]
  Queries,       \* names the caller passes
  NSlots,        \* varinfo pointers the caller may hold at once
  FileIsFortran, \* the file was written from Fortran (the caller is C)
  Faults,        \* malloc points that may fail: subset of FaultPoints
  MaxFaults,     \* bound on the failures in one behaviour
  NULL           \* model value: a NULL pointer or an absent characteristic

FaultPoints == {"alloc_vi", "alloc_value", "alloc_gmin", "alloc_gmax",
                "alloc_attr", "alloc_tmp"}

ASSUME Faults \subseteq FaultPoints /\ MaxFaults \in Nat /\ NSlots \in Nat \ {0}

Slots == 1 .. NSlots
NVars == Len(Vars)
NAttrs == Len(Attrs)

VARIABLES
  heap,     \* objects allocated by the calls and not freed
  vinfo,    \* per slot: the ADIOS_VARINFO the caller holds, or NULL
  attrOut,  \* the result of the caller's last get_attr: status, type, size, data
  finds,    \* the name lookups of the last call: [list, q, res]
  err,      \* adios_errno after the last call
  dfree,    \* some call freed an object that was not allocated
  nfaults   \* failures so far

vars == <<heap, vinfo, attrOut, finds, err, dfree, nfaults>>

CanFail(f) == f \in Faults /\ nfaults < MaxFaults

-----------------------------------------------------------------------------
(* Names.                                                                  *)

\* name + k: the string from its k-th character on
Drop(s, k) == SubSeq(s, k + 1, Len(s))

\* s[0] == '/'
Slashed(s) == Len(s) > 0 /\ Head(s) = "/"

\* the namelist entry of a path and a name, as the index parser builds it:
\* the name alone when the path is empty, else the path, a '/' unless the
\* path ends in one, and the name
FullName(path, name) ==
  IF path = <<>> THEN name
  ELSE IF path[Len(path)] = "/" THEN path \o name ELSE path \o <<"/">> \o name

VarNamelist == [i \in 1 .. NVars |-> FullName(Vars[i].path, Vars[i].name)]
AttrNamelist == [i \in 1 .. NAttrs |-> FullName(Attrs[i].path, Attrs[i].name)]

\* variant: the query's leading '/' is not skipped
RECURSIVE ScanFromKeepSlash(_, _, _, _)
ScanFromKeepSlash(list, q, i, fstartpos) ==
  IF i >= Len(list) THEN -1
  ELSE LET fs == IF Slashed(list[i + 1]) THEN 1 ELSE fstartpos
       IN IF Drop(list[i + 1], fs) = q THEN i
          ELSE ScanFromKeepSlash(list, q, i + 1, fs)

\* the search loop of find_var and get_attr from entry i on (0-based), with
\* fstartpos as the loop leaves it: set to 1 by an entry starting with '/'
\* and never reset
RECURSIVE ScanFrom(_, _, _, _)
ScanFrom(list, q, i, fstartpos) ==
  IF i >= Len(list) THEN -1
  ELSE LET fs == IF Slashed(list[i + 1]) THEN 1 ELSE fstartpos
           vs == IF Slashed(q) THEN 1 ELSE 0
       IN IF Drop(list[i + 1], fs) = Drop(q, vs) THEN i
          ELSE ScanFrom(list, q, i + 1, fs)

\* variant: the position of q is returned 1-based
FindNamePosition(list, q) ==
  LET r == ScanFrom(list, q, 0, 0) IN IF r < 0 THEN r ELSE r + 1

\* common_read_find_var / the lookup of get_attr: the index of q, or -1
FindName(list, q) == ScanFrom(list, q, 0, 0)

-----------------------------------------------------------------------------
(* Inquiry.                                                                *)

\* the objects of the varinfo in slot s
Obj(s, k) == <<s, k>>
VarinfoObjs(s) == {Obj(s, k) : k \in {"vi", "value", "gmin", "gmax", "dims"}}

\* a pointer to a copy of a value: <<object, content>>, or NULL
Ptr(o, x) == <<o, x>>
Addr(p) == IF p = NULL THEN NULL ELSE p[1]

\* variant: adios_lt with its arguments swapped
MinStepSwapped(vmin, ch) == IF vmin = NULL \/ vmin < ch.min THEN ch.min ELSE vmin

\* the min loop of get_characteristics: a characteristic's min replaces vmin
\* when vmin is NULL or adios_lt(min, vmin)
MinStep(vmin, ch) == IF vmin = NULL \/ ch.min < vmin THEN ch.min ELSE vmin
\* the max loop: adios_lt(vmax, max)
MaxStep(vmax, ch) == IF vmax = NULL \/ vmax < ch.max THEN ch.max ELSE vmax

\* the malloc at point f for object o with content x, failing when f is in
\* the set F of points that fail in this call
Alloc(F, f, o, x) == IF f \in F THEN NULL ELSE Ptr(o, x)

\* common_read_get_characteristics then common_read_get_dimensions for the
\* variable with 0-based id v into slot s, the mallocs at F failing
Characteristics(v, s, F) ==
  LET var   == Vars[v + 1]
      vval  == var.chars[1].value
      vmin  == FoldLeft(MinStep, NULL, var.chars)
      vmax  == FoldLeft(MaxStep, NULL, var.chars)
      value == IF vval # NULL THEN Alloc(F, "alloc_value", Obj(s, "value"), vval) ELSE NULL
      gmin  == IF vmin # NULL THEN Alloc(F, "alloc_gmin", Obj(s, "gmin"), vmin) ELSE value
      value2 == IF vval = NULL /\ vmin # NULL THEN gmin ELSE value
      gmax  == IF vmax # NULL THEN Alloc(F, "alloc_gmax", Obj(s, "gmax"), vmax) ELSE value2
  IN [var |-> v, value |-> value2, gmin |-> gmin, gmax |-> gmax,
      dims |-> IF var.chars[1].ndim = 0 THEN NULL ELSE Obj(s, "dims")]

\* the objects the varinfo in slot s holds, each once however its pointers alias
Holds(s, vi) ==
  ({Obj(s, "vi"), vi.dims} \cup {Addr(p) : p \in {vi.value, vi.gmin, vi.gmax}}) \ {NULL}

\* the mallocs of get_characteristics that the variable makes
Attempted(v) ==
  LET var == Vars[v + 1] IN
  {f \in {"alloc_value", "alloc_gmin", "alloc_gmax"} :
     CASE f = "alloc_value" -> var.chars[1].value # NULL
       [] f = "alloc_gmin"  -> FoldLeft(MinStep, NULL, var.chars) # NULL
       [] f = "alloc_gmax"  -> FoldLeft(MaxStep, NULL, var.chars) # NULL}

\* the call leaves no varinfo in slot s: it returned NULL
Fail(e) ==
  /\ err' = e
  /\ UNCHANGED <<heap, vinfo>>

\* the body of common_read_inq_var_byid for id v, its result stored in
\* slot s; the group handle is the caller's open group, so the NULL-handle
\* returns are not taken, and the variable list has vars_count entries
InqById(v, s) ==
  /\ vinfo[s] = NULL
  /\ \/ /\ (v < 0 \/ v >= NVars)
        /\ Fail("invalid_varid") /\ UNCHANGED nfaults
     \/ /\ v >= 0 /\ v < NVars
        /\ CanFail("alloc_vi")
        /\ Fail("no_memory") /\ nfaults' = nfaults + 1
     \/ /\ v >= 0 /\ v < NVars
        /\ Vars[v + 1].chars = <<>>
        /\ Fail("corrupted_variable") /\ UNCHANGED nfaults
     \/ /\ v >= 0 /\ v < NVars
        /\ Vars[v + 1].chars # <<>>
        /\ \E F \in SUBSET (Attempted(v) \cap Faults) :
             /\ nfaults + Cardinality(F) <= MaxFaults
             /\ vinfo' = [vinfo EXCEPT ![s] = Characteristics(v, s, F)]
             /\ heap' = heap \cup Holds(s, vinfo'[s])
             /\ nfaults' = nfaults + Cardinality(F)
        /\ err' = "none"
  /\ UNCHANGED <<attrOut, dfree>>

\* common_read_inq_var: find_var, then inq_var_byid
InqVar(q, s) ==
  LET v == FindName(VarNamelist, q) IN
  /\ vinfo[s] = NULL
  /\ finds' = {[list |-> "var", q |-> q, res |-> v]}
  /\ \/ v < 0 /\ Fail("invalid_varname") /\ UNCHANGED <<attrOut, dfree, nfaults>>
     \/ v >= 0 /\ InqById(v, s)

\* common_read_inq_var_byid called by the caller
InqVarById(v, s) == finds' = {} /\ InqById(v, s)

FreedBy(s, vi) ==
  SelectSeq(<< vi.dims, Addr(vi.value),
               IF Addr(vi.gmin) # Addr(vi.value) THEN Addr(vi.gmin) ELSE NULL,
               IF Addr(vi.gmax) # Addr(vi.value) THEN Addr(vi.gmax) ELSE NULL,
               Obj(s, "vi") >>,
            LAMBDA o : o # NULL)

\* common_read_free_varinfo on the varinfo in slot s
FreeVarinfo(s) ==
  LET fr == FreedBy(s, vinfo[s]) IN
  /\ vinfo[s] # NULL
  /\ dfree' = (dfree \/ ~IsInjective(fr) \/ \E i \in DOMAIN fr : fr[i] \notin heap)
  /\ heap' = heap \ ToSet(fr)
  /\ vinfo' = [vinfo EXCEPT ![s] = NULL]
  /\ UNCHANGED <<attrOut, finds, err, nfaults>>

-----------------------------------------------------------------------------
(* Attributes.                                                             *)

\* bp_get_type_size: a string's length and its terminating zero, else the
\* width of the type
TypeSize(type, x) ==
  CASE type = "string" -> Len(x) + 1
    [] type \in {"byte", "unsigned_byte"} -> 1
    [] type = "integer" -> 4
    [] type = "double" -> 8

\* variant: the reference is matched on the id alone
RefVarIdOnly(attr) == SelectInSeq(Vars, LAMBDA x : x.id = attr.var_id)

\* the variable an attribute references: the first with its id and the
\* attribute's path, else the first with its id, else 0 (1-based)
RefVar(attr) ==
  LET byPath == SelectInSeq(Vars, LAMBDA x : x.id = attr.var_id /\ x.path = attr.path)
  IN IF byPath # 0 THEN byPath ELSE SelectInSeq(Vars, LAMBDA x : x.id = attr.var_id)

IsByteArray1D(var) ==
  var.type \in {"byte", "unsigned_byte"} /\ var.chars[1].ndim = 1

\* the name read_var is called with: snprintf "%s/%s" of path and name
Join(path, name) == path \o <<"/">> \o name

\* futils_fstr_to_cstr: the Fortran string without its trailing blanks
RECURSIVE FstrToCstr(_)
FstrToCstr(s) == IF s # <<>> /\ s[Len(s)] = " " THEN FstrToCstr(SubSeq(s, 1, Len(s) - 1)) ELSE s

\* the bytes strlen((char *)data) may count: it reads the caller's pointer
\* variable, so any length up to a pointer's 8 bytes
PointerStrlen == 0 .. 8

Result(a, st, type, size, data) == [attr |-> a, status |-> st, type |-> type, size |-> size, data |-> data]

\* the body of common_read_get_attr_byid for id a, in a call whose name
\* lookups so far are f0
AttrById(a, f0) ==
  LET attr == Attrs[a + 1]
      k    == RefVar(attr)
      var  == Vars[k]
      vn   == Join(var.path, var.name)
      rv   == FindName(VarNamelist, vn)
      cnt  == var.chars[1].ldim
  IN
  \/ /\ (a < 0 \/ a >= NAttrs)
     /\ attrOut' = Result(a, "invalid_attrid", NULL, 0, NULL)
     /\ finds' = f0 /\ UNCHANGED nfaults
  \/ /\ a >= 0 /\ a < NAttrs /\ attr.value # NULL
     /\ \/ /\ CanFail("alloc_attr") /\ nfaults' = nfaults + 1
           /\ attrOut' = Result(a, "none", attr.type, TypeSize(attr.type, attr.value), NULL)
        \/ /\ attrOut' = Result(a, "none", attr.type, TypeSize(attr.type, attr.value), attr.value)
           /\ UNCHANGED nfaults
     /\ finds' = f0
  \/ /\ a >= 0 /\ a < NAttrs /\ attr.value = NULL /\ k = 0
     /\ attrOut' = Result(a, "invalid_attribute_reference", NULL, 0, NULL)
     /\ finds' = f0 /\ UNCHANGED nfaults
  \/ /\ a >= 0 /\ a < NAttrs /\ attr.value = NULL /\ k # 0
     /\ var.chars[1].ndim > 0
     /\ ~(IsByteArray1D(var) /\ attr.type \in {"unknown", "string"})
     /\ attrOut' = Result(a, "invalid_attribute_reference", attr.type, 0, NULL)
     /\ finds' = f0 /\ UNCHANGED nfaults
  \/ /\ a >= 0 /\ a < NAttrs /\ attr.value = NULL /\ k # 0
     /\ IsByteArray1D(var) /\ attr.type \in {"unknown", "string"}
     /\ \/ /\ CanFail("alloc_tmp") /\ nfaults' = nfaults + 1
           /\ attrOut' = Result(a, "no_memory", attr.type, 0, NULL)
           /\ finds' = f0
        \/ /\ finds' = f0 \cup {[list |-> "var", q |-> vn, res |-> rv]}
           /\ UNCHANGED nfaults
           /\ \/ rv < 0 /\ attrOut' = Result(a, "invalid_varname", attr.type, 0, NULL)
              \/ /\ rv >= 0 /\ ~FileIsFortran
                 /\ attrOut' = Result(a, "none", "string", cnt + 1,
                                      SubSeq(Vars[rv + 1].bytes, 1, cnt) \o <<"NUL">>)
              \/ /\ rv >= 0 /\ FileIsFortran
                 /\ \E n \in PointerStrlen :
                      attrOut' = Result(a, "none", "string", n,
                                        FstrToCstr(SubSeq(Vars[rv + 1].bytes, 1, cnt)) \o <<"NUL">>)
  \/ /\ a >= 0 /\ a < NAttrs /\ attr.value = NULL /\ k # 0
     /\ ~(IsByteArray1D(var) /\ attr.type \in {"unknown", "string"})
     /\ var.chars[1].ndim = 0
     /\ LET sz == TypeSize(var.type, var.chars[1].value) IN
        \/ /\ CanFail("alloc_attr") /\ nfaults' = nfaults + 1
           /\ attrOut' = Result(a, "none", var.type, sz, NULL)
        \/ /\ attrOut' = Result(a, "none", var.type, sz, var.chars[1].value)
           /\ UNCHANGED nfaults
     /\ finds' = f0

\* common_read_get_attr_byid called by the caller
GetAttrById(a) ==
  /\ AttrById(a, {})
  /\ err' = attrOut'.status
  /\ UNCHANGED <<heap, vinfo, dfree>>

\* common_read_get_attr: the lookup in the attribute namelist, then
\* get_attr_byid
GetAttr(q) ==
  LET a == FindName(AttrNamelist, q)
      f0 == {[list |-> "attr", q |-> q, res |-> a]}
  IN
  /\ \/ /\ a < 0
        /\ attrOut' = Result(-1, "invalid_attrname", NULL, 0, NULL)
        /\ finds' = f0 /\ UNCHANGED nfaults
     \/ a >= 0 /\ AttrById(a, f0)
  /\ err' = attrOut'.status
  /\ UNCHANGED <<heap, vinfo, dfree>>

-----------------------------------------------------------------------------
Init ==
  /\ heap = {}
  /\ vinfo = [s \in Slots |-> NULL]
  /\ attrOut = Result(-1, "none", NULL, 0, NULL)
  /\ finds = {}
  /\ err = "none"
  /\ dfree = FALSE
  /\ nfaults = 0

\* ids the caller may pass: every id and one past each end
VarIds == -1 .. NVars
AttrIds == -1 .. NAttrs

Next ==
  \/ \E q \in Queries, s \in Slots : InqVar(q, s)
  \/ \E v \in VarIds, s \in Slots : InqVarById(v, s)
  \/ \E s \in Slots : FreeVarinfo(s)
  \/ \E q \in Queries : GetAttr(q)
  \/ \E a \in AttrIds : GetAttrById(a)

Spec == Init /\ [][Next]_vars

-----------------------------------------------------------------------------
(* Properties                                                               *)

ListOf(l) == IF l = "var" THEN VarNamelist ELSE AttrNamelist

TypeOK ==
  /\ heap \subseteq UNION {VarinfoObjs(s) : s \in Slots}
  /\ \A s \in Slots : vinfo[s] = NULL \/ vinfo[s].var \in 0 .. NVars - 1
  /\ attrOut.attr \in AttrIds
  /\ \A f \in finds : f.list \in {"var", "attr"} /\ f.res \in -1 .. Len(ListOf(f.list)) - 1
  /\ dfree \in BOOLEAN
  /\ nfaults \in 0 .. MaxFaults

\* the name with its leading '/' removed, if it has one
Strip(s) == IF Slashed(s) THEN Tail(s) ELSE s

\* the index (0-based) of the first entry equal to q when a leading '/' on
\* either side is ignored, or -1
RefFind(list, q) == SelectInSeq(list, LAMBDA e : Strip(e) = Strip(q)) - 1

\* Every name lookup of find_var and get_attr, including the one read_var
\* makes for an attribute that references a byte array, returns the first
\* entry of the namelist that equals the name given with or without its
\* leading '/', and -1 only when there is none (spec, query surface).
LookupAgrees ==
  \A f \in finds : f.res = RefFind(ListOf(f.list), f.q)

\* the global min, max and value of a variable's descriptor: min and max
\* reduced over all blocks; a scalar has a direct value, an array takes its
\* min as value, and a scalar's min and max are its value
RefValue(var) ==
  IF var.chars[1].value # NULL THEN var.chars[1].value
  ELSE Min({var.chars[i].min : i \in DOMAIN var.chars})
RefMin(var) ==
  IF var.chars[1].min # NULL THEN Min({var.chars[i].min : i \in DOMAIN var.chars})
  ELSE RefValue(var)
RefMax(var) ==
  IF var.chars[1].max # NULL THEN Max({var.chars[i].max : i \in DOMAIN var.chars})
  ELSE RefValue(var)

\* Every varinfo the caller holds carries, in each of value, gmin and gmax
\* that is not NULL, the descriptor's value, global min and global max
\* (spec, describe a variable): the reductions of get_characteristics and
\* the pointers it shares between the three fields.
VarinfoAgrees ==
  \A s \in Slots : vinfo[s] # NULL =>
    LET vi == vinfo[s]
        var == Vars[vi.var + 1]
    IN /\ vi.value # NULL => vi.value[2] = RefValue(var)
       /\ vi.gmin # NULL => vi.gmin[2] = RefMin(var)
       /\ vi.gmax # NULL => vi.gmax[2] = RefMax(var)

RefTarget(attr) ==
  LET withId == {i \in 1 .. NVars : Vars[i].id = attr.var_id}
      withPath == {i \in withId : Vars[i].path = attr.path}
  IN IF withPath # {} THEN Min(withPath) ELSE IF withId # {} THEN Min(withId) ELSE 0
Resolves(attr) ==
  \/ attr.value # NULL
  \/ LET k == RefTarget(attr) IN
     /\ k # 0
     /\ \/ Vars[k].chars[1].ndim = 0
        \/ IsByteArray1D(Vars[k]) /\ attr.type \in {"unknown", "string"}
RefAttr(attr) ==
  LET var == Vars[RefTarget(attr)]
      str == IF FileIsFortran THEN FstrToCstr(var.bytes) ELSE var.bytes
  IN CASE attr.value # NULL ->
            [type |-> attr.type, size |-> TypeSize(attr.type, attr.value), data |-> attr.value]
       [] var.chars[1].ndim = 0 ->
            [type |-> var.type, size |-> TypeSize(var.type, var.chars[1].value),
             data |-> var.chars[1].value]
       [] OTHER -> [type |-> "string", size |-> Len(str) + 1, data |-> str \o <<"NUL">>]

\* get_attr and get_attr_byid return every attribute that resolves, with
\* its type, size and bytes, or fail with no_memory: an attribute that
\* references a byte array goes through read_var, and so through the name
\* lookup of find_var, with a name get_attr_byid builds from the path.
AttrAgrees ==
  attrOut.attr \in 0 .. NAttrs - 1 /\ Resolves(Attrs[attrOut.attr + 1]) =>
    /\ attrOut.status \in {"none", "no_memory"}
    /\ attrOut.status = "none" =>
         [type |-> attrOut.type, size |-> attrOut.size, data |-> attrOut.data]
           = RefAttr(Attrs[attrOut.attr + 1])
====
