------------------------------- MODULE SlabRead -------------------------------
(***************************************************************************)
(* What one call of read_var promises its caller (spec, reader and error  *)
(* handling): the call returns; it succeeds exactly when the requested    *)
(* hyperslab lies inside the array and every requested time step has      *)
(* data, and then the caller's buffer holds the slab and the call returns *)
(* its size; when it fails it returns a negative code and what the buffer *)
(* holds is not to be interpreted.  The slab and whether the read can     *)
(* succeed are fixed by the input, the file and the request, which never  *)
(* changes.                                                                *)
(***************************************************************************)
EXTENDS Integers, FiniteSets

CONSTANTS
  Undefined,    \* the buffer before the call returns, or after it failed
  Slab(_),      \* the slab an input asks for: buffer cell -> element
  Possible(_)   \* the slab of an input is inside the array and every step has data

VARIABLES
  status,    \* "running", "ok" or "failed"
  buf,       \* the caller's buffer as the call leaves it
  ret,       \* the return value
  input      \* the file and the request

vars == <<status, buf, ret, input>>

Init ==
  /\ status = "running"
  /\ buf = Undefined
  /\ ret = 0

\* the call returns
Return ==
  /\ status = "running"
  /\ status' = IF Possible(input) THEN "ok" ELSE "failed"
  /\ buf' = IF Possible(input) THEN Slab(input) ELSE Undefined
  /\ ret' = IF Possible(input) THEN Cardinality(DOMAIN Slab(input)) ELSE -1
  /\ UNCHANGED input

Safety == Init /\ [][Return]_vars

Spec == Safety /\ WF_vars(Return)

\* Return is enabled in every state where the call is running and leaves
\* it for good, so a behaviour of Safety satisfies WF_vars(Return) exactly
\* when the call returns
Returns == <>(status # "running")
====
