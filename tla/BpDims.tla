------------------------------- MODULE BpDims -------------------------------
(***************************************************************************)
(* The dimensions a variable has for its reader, shared by the read        *)
(* planner (BpReadVar) and the callers of the inquiry (Bp2Bp):             *)
(* common_read_get_dimensioncharacteristics, common_read_get_dimensions    *)
(* and swap_order (src/src/common_read.c).  C arrays are 0-based           *)
(* functions here, as in the source.                                       *)
(***************************************************************************)
EXTENDS Integers, Sequences, FiniteSets

Idx(n) == 0 .. (n - 1)
Arr(s) == [k \in Idx(Len(s)) |-> s[k + 1]]
Size(a) == Cardinality(DOMAIN a)
RevArr(a) == [k \in DOMAIN a |-> a[Size(a) - 1 - k]]
MaxOf(S) == CHOOSE x \in S : \A y \in S : y <= x

\* common_read_get_dimensioncharacteristics: is_global
IsGlobal(d) == \E k \in DOMAIN d.gd : d.gd[k] # 0

\* common_read_get_dimensions: ndim, dims[], timedim of the variable
GetDimensions(d, ntsteps, ccount) ==
  LET n == Size(d.ld)
      isT(i) == d.ld[i] = 1 /\ ccount > 1
      T == {i \in Idx(n) : isT(i)}
  IN IF n = 0 THEN [ndim |-> 0, dims |-> <<>>, timedim |-> -1]
     ELSE IF ~IsGlobal(d)
       THEN [ndim |-> n, timedim |-> IF T = {} THEN -1 ELSE MaxOf(T),
             dims |-> [i \in Idx(n) |-> IF isT(i) THEN ntsteps ELSE d.ld[i]]]
     ELSE IF d.ld[0] = 1 /\ d.gd[n-1] = 0
       THEN [ndim |-> n, timedim |-> 0,
             dims |-> [i \in Idx(n) |-> IF i = 0 THEN ntsteps ELSE d.gd[i-1]]]
     ELSE IF d.ld[n-1] = 1 /\ d.gd[n-1] = 0
       THEN [ndim |-> n, timedim |-> n - 1,
             dims |-> [i \in Idx(n) |-> IF i = n - 1 THEN ntsteps ELSE d.gd[i]]]
     ELSE [ndim |-> n, timedim |-> -1, dims |-> d.gd]

\* swap_order on dims[] and the time dimension
SwapOrder(g) ==
  [g EXCEPT !.dims = RevArr(@),
            !.timedim = IF @ > -1 THEN g.ndim - 1 - @ ELSE @]


=============================================================================
