----------------------------- MODULE BpOpenClose -----------------------------
(***************************************************************************)
(* The handle lifecycle of the BP read engine on every rank of the         *)
(* communicator: common_read_fopen (collective: rank 0 reads the           *)
(* minifooter and the index and broadcasts them), common_read_fclose,      *)
(* common_read_gopen(_byid) and common_read_gclose (src/src/common_read.c).*)
(* Each rank is a process; fopen is cut at its MPI calls, the only points  *)
(* where one rank waits for another, and the local code between two MPI    *)
(* calls is one action.  The heap of each rank is the set of objects the   *)
(* calls allocated and have not freed; an allocation or a read of the file *)
(* may fail at the points named in Faults.                                 *)
(***************************************************************************)
EXTENDS Integers, FiniteSets

CONSTANTS
  NRanks,     \* size of the communicator
  NGroups,    \* gvar_h->group_count of the file
  Faults,     \* failure points that may fail: subset of FaultPoints
  MaxFaults   \* bound on the failures in one behaviour

Ranks == 0 .. (NRanks - 1)
Root == 0
Gids == 0 .. (NGroups - 1)

FaultPoints == {"alloc_fh", "alloc_b", "alloc_fp", "minifooter", "alloc_recv",
                "namelist", "alloc_gh", "alloc_gp", "var_namelist", "attr_namelist"}

ASSUME NRanks \in Nat \ {0} /\ NGroups \in Nat \ {0}
ASSUME Faults \subseteq FaultPoints /\ MaxFaults \in Nat

VARIABLES
  pc,           \* per rank: where the rank is in fopen, or "open" / "closed" / "failed"
  heap,         \* per rank: objects allocated and not freed
  buff,         \* per rank: fh->b->buff: "none", "zero" (memset), "index" (footer region)
  parsed,       \* per rank: the buffer the catalogs were parsed from
  footerSent,   \* rank 0 has entered MPI_Bcast of the minifooter
  indexSent,    \* rank 0 has entered MPI_Bcast of the index region
  arrived,      \* ranks that have entered MPI_Barrier
  groups,       \* per rank: group ids with an open ADIOS_GROUP
  err,          \* per rank: adios_errno after its last call
  ub,           \* some rank freed a pointer it never initialized
  nfaults       \* failures so far

vars == <<pc, heap, buff, parsed, footerSent, indexSent, arrived, groups, err, ub, nfaults>>

\* heap objects: <<kind, group id>>; file objects carry -1
Obj(k) == <<k, -1>>
GObj(k, g) == <<k, g>>
FileObjs == {Obj(k) : k \in {"fh", "b", "fp", "buff", "catalogs", "group_namelist"}}
GroupObjs(g) == {GObj(k, g) : k \in {"gh", "gp", "var_namelist", "attr_namelist"}}

\* a failure at point f may happen in this step
CanFail(f) == f \in Faults /\ nfaults < MaxFaults

-----------------------------------------------------------------------------
Init ==
  /\ pc = [r \in Ranks |-> "start"]
  /\ heap = [r \in Ranks |-> {}]
  /\ buff = [r \in Ranks |-> "none"]
  /\ parsed = [r \in Ranks |-> "none"]
  /\ footerSent = FALSE /\ indexSent = FALSE
  /\ arrived = {}
  /\ groups = [r \in Ranks |-> {}]
  /\ err = [r \in Ranks |-> "none"]
  /\ ub = FALSE
  /\ nfaults = 0

\* fopen returns NULL on rank r, leaving `left` allocated
FailOpen(r, e, left) ==
  /\ pc' = [pc EXCEPT ![r] = "failed"]
  /\ err' = [err EXCEPT ![r] = e]
  /\ heap' = [heap EXCEPT ![r] = left]
  /\ nfaults' = nfaults + 1

\* the three mallocs of fopen, then bp_read_open
FopenAlloc(r) ==
  /\ pc[r] = "start"
  /\ \/ /\ CanFail("alloc_fh") /\ FailOpen(r, "no_memory", {})
     \/ /\ CanFail("alloc_b") /\ FailOpen(r, "no_memory", {Obj("fh")})
     \/ /\ CanFail("alloc_fp") /\ FailOpen(r, "no_memory", {Obj("fh"), Obj("b")})
     \/ /\ pc' = [pc EXCEPT ![r] = "footer"]
        /\ heap' = [heap EXCEPT ![r] = {Obj("fh"), Obj("b"), Obj("fp")}]
        /\ UNCHANGED <<err, nfaults>>
  /\ UNCHANGED <<buff, parsed, footerSent, indexSent, arrived, groups, ub>>

\* variant: rank 0 does not enter MPI_Barrier
RootReadFooterNoBarrier ==
  /\ pc[Root] = "footer"
  /\ \/ /\ CanFail("minifooter")
        /\ FailOpen(Root, "file_open_error", heap[Root])
        /\ UNCHANGED <<buff, footerSent, arrived>>
     \/ /\ buff' = [buff EXCEPT ![Root] = "index"]
        /\ heap' = [heap EXCEPT ![Root] = @ \cup {Obj("buff")}]
        /\ footerSent' = TRUE
        /\ pc' = [pc EXCEPT ![Root] = "barrier"]
        /\ UNCHANGED <<err, nfaults, arrived>>
  /\ UNCHANGED <<parsed, indexSent, groups, ub>>

\* rank 0: bp_read_minifooter, MPI_Bcast of the minifooter (the root does
\* not wait for the receivers), and entry into MPI_Barrier
RootReadFooter ==
  /\ pc[Root] = "footer"
  /\ \/ /\ CanFail("minifooter")
        /\ FailOpen(Root, "file_open_error", heap[Root])
        /\ UNCHANGED <<buff, footerSent, arrived>>
     \/ /\ buff' = [buff EXCEPT ![Root] = "index"]
        /\ heap' = [heap EXCEPT ![Root] = @ \cup {Obj("buff")}]
        /\ footerSent' = TRUE
        /\ arrived' = arrived \cup {Root}
        /\ pc' = [pc EXCEPT ![Root] = "barrier"]
        /\ UNCHANGED <<err, nfaults>>
  /\ UNCHANGED <<parsed, indexSent, groups, ub>>

\* rank != 0: MPI_Bcast receives the minifooter, the receive buffer for the
\* index is allocated and zeroed, then MPI_Barrier is entered
RecvFooter(r) ==
  /\ r # Root /\ pc[r] = "footer" /\ footerSent
  /\ \/ /\ CanFail("alloc_recv")
        /\ FailOpen(r, "no_memory", heap[r])
        /\ UNCHANGED <<buff, arrived>>
     \/ /\ buff' = [buff EXCEPT ![r] = "zero"]
        /\ heap' = [heap EXCEPT ![r] = @ \cup {Obj("buff")}]
        /\ arrived' = arrived \cup {r}
        /\ pc' = [pc EXCEPT ![r] = "barrier"]
        /\ UNCHANGED <<err, nfaults>>
  /\ UNCHANGED <<parsed, footerSent, indexSent, groups, ub>>

\* bp_parse_pgs/vars/attrs on the rank's own buffer, then the group
\* namelist; a failed namelist allocation calls common_read_fclose
ParseAndName(r, b) ==
  /\ parsed' = [parsed EXCEPT ![r] = b]
  /\ \/ /\ CanFail("namelist")
        /\ FailOpen(r, "no_memory", {})
     \/ /\ pc' = [pc EXCEPT ![r] = "open"]
        /\ heap' = [heap EXCEPT ![r] = @ \cup {Obj("catalogs"), Obj("group_namelist")}]
        /\ UNCHANGED <<err, nfaults>>

\* rank 0 leaves the barrier, broadcasts the index and parses it
RootSendIndex ==
  /\ pc[Root] = "barrier" /\ arrived = Ranks
  /\ indexSent' = TRUE
  /\ ParseAndName(Root, buff[Root])
  /\ UNCHANGED <<buff, footerSent, arrived, groups, ub>>

\* rank != 0 leaves the barrier
LeaveBarrier(r) ==
  /\ r # Root /\ pc[r] = "barrier" /\ arrived = Ranks
  /\ pc' = [pc EXCEPT ![r] = "bcast"]
  /\ UNCHANGED <<heap, buff, parsed, footerSent, indexSent, arrived, groups, err, ub, nfaults>>

\* variant: the receive does not wait for rank 0's broadcast
RecvIndexEarly(r) ==
  /\ pc[r] = "bcast"
  /\ buff' = [buff EXCEPT ![r] = IF indexSent THEN buff[Root] ELSE @]
  /\ ParseAndName(r, buff'[r])
  /\ UNCHANGED <<footerSent, indexSent, arrived, groups, ub>>

\* rank != 0: MPI_Bcast delivers the index region into its buffer
RecvIndex(r) ==
  /\ pc[r] = "bcast" /\ indexSent
  /\ buff' = [buff EXCEPT ![r] = buff[Root]]
  /\ ParseAndName(r, buff[Root])
  /\ UNCHANGED <<footerSent, indexSent, arrived, groups, ub>>

-----------------------------------------------------------------------------
(* After fopen: the caller opens and closes groups and closes the file.    *)

\* common_read_gopen_byid with a group id the file does not have
GOpenInvalid(r, g) ==
  /\ pc[r] = "open" /\ ~(g >= 0 /\ g < NGroups)
  /\ err' = [err EXCEPT ![r] = "invalid_group"]
  /\ UNCHANGED <<pc, heap, buff, parsed, footerSent, indexSent, arrived, groups, ub, nfaults>>

\* gopen_byid returns NULL on rank r leaving `left` allocated
FailGOpen(r, left) ==
  /\ err' = [err EXCEPT ![r] = "no_memory"]
  /\ heap' = [heap EXCEPT ![r] = @ \cup left]
  /\ nfaults' = nfaults + 1
  /\ UNCHANGED groups

\* variant: the group id check is grpid > group_count
GOpenPastEnd(r, g) ==
  /\ pc[r] = "open" /\ g >= 0 /\ g <= NGroups
  /\ g \notin groups[r]
  /\ heap' = [heap EXCEPT ![r] = @ \cup GroupObjs(g)]
  /\ groups' = [groups EXCEPT ![r] = @ \cup {g}]
  /\ err' = [err EXCEPT ![r] = "none"]
  /\ UNCHANGED <<pc, buff, parsed, footerSent, indexSent, arrived, ub, nfaults>>

\* common_read_gopen_byid: malloc gh and gp, then the variable and the
\* attribute namelists; a failed namelist entry calls common_read_gclose,
\* which frees both namelists, the attribute one before it was allocated
GOpen(r, g) ==
  /\ pc[r] = "open" /\ g >= 0 /\ g < NGroups
  /\ g \notin groups[r]
  /\ \/ /\ CanFail("alloc_gh") /\ FailGOpen(r, {}) /\ UNCHANGED ub
     \/ /\ CanFail("alloc_gp") /\ FailGOpen(r, {GObj("gh", g)}) /\ UNCHANGED ub
     \/ /\ CanFail("var_namelist") /\ FailGOpen(r, {})
        /\ ub' = TRUE
     \/ /\ CanFail("attr_namelist") /\ FailGOpen(r, {}) /\ UNCHANGED ub
     \/ /\ heap' = [heap EXCEPT ![r] = @ \cup GroupObjs(g)]
        /\ groups' = [groups EXCEPT ![r] = @ \cup {g}]
        /\ err' = [err EXCEPT ![r] = "none"]
        /\ UNCHANGED <<ub, nfaults>>
  /\ UNCHANGED <<pc, buff, parsed, footerSent, indexSent, arrived>>

\* the group namelist of the index (gvar_h->namelist): one entry per
\* group, distinct since the index merges the PGs of a group by name
GroupName(g) == <<"group", g>>

\* names the caller may pass: every group's and one the file does not have
NameArgs == {GroupName(g) : g \in Gids} \cup {<<"group", NGroups>>}

\* the strcmp loop of common_read_gopen: the first group id with that
\* name, group_count when there is none
FindGroup(name) ==
  IF \E g \in Gids : GroupName(g) = name
  THEN CHOOSE g \in Gids : GroupName(g) = name /\ \A h \in 0 .. (g - 1) : GroupName(h) # name
  ELSE NGroups

\* common_read_gopen: an unknown name sets err_invalid_group and returns
\* NULL, a known one is opened by common_read_gopen_byid
GOpenByName(r, name) ==
  \/ /\ pc[r] = "open" /\ FindGroup(name) >= NGroups
     /\ err' = [err EXCEPT ![r] = "invalid_group"]
     /\ UNCHANGED <<pc, heap, buff, parsed, footerSent, indexSent, arrived, groups, ub, nfaults>>
  \/ FindGroup(name) < NGroups /\ GOpen(r, FindGroup(name))

\* common_read_gclose: frees gh, both namelists and gp; it never looks at
\* the file, so it is allowed after fclose
GClose(r, g) ==
  /\ g \in groups[r]
  /\ heap' = [heap EXCEPT ![r] = @ \ GroupObjs(g)]
  /\ groups' = [groups EXCEPT ![r] = @ \ {g}]
  /\ err' = [err EXCEPT ![r] = "none"]
  /\ UNCHANGED <<pc, buff, parsed, footerSent, indexSent, arrived, ub, nfaults>>

\* common_read_fclose: closes the MPI file and frees the buffer, the
\* catalogs, the group and attribute lookups, fh, the namelist and fp
FClose(r) ==
  /\ pc[r] = "open"
  /\ pc' = [pc EXCEPT ![r] = "closed"]
  /\ heap' = [heap EXCEPT ![r] = @ \ FileObjs]
  /\ err' = [err EXCEPT ![r] = "none"]
  /\ UNCHANGED <<buff, parsed, footerSent, indexSent, arrived, groups, ub, nfaults>>

-----------------------------------------------------------------------------
\* the steps of fopen on rank r
FopenStep(r) ==
  \/ FopenAlloc(r)
  \/ r = Root /\ RootReadFooter
  \/ RecvFooter(r)
  \/ r = Root /\ RootSendIndex
  \/ LeaveBarrier(r)
  \/ RecvIndex(r)

\* group ids the caller may pass: every id of the file and one past the end
GidArgs == -1 .. NGroups

Next ==
  \E r \in Ranks :
     \/ FopenStep(r)
     \/ \E g \in GidArgs : GOpenInvalid(r, g) \/ GOpen(r, g) \/ GClose(r, g)
     \/ \E name \in NameArgs : GOpenByName(r, name)
     \/ FClose(r)

\* Each rank is its own MPI process and runs fopen to its end unless it
\* blocks in an MPI call; the caller's later calls are not required.
Fairness == \A r \in Ranks : WF_vars(FopenStep(r))

Spec == Init /\ [][Next]_vars /\ Fairness

-----------------------------------------------------------------------------
(* Properties                                                               *)

Returned == {"open", "closed", "failed"}

TypeOK ==
  /\ pc \in [Ranks -> {"start", "footer", "barrier", "bcast"} \cup Returned]
  /\ \A r \in Ranks : heap[r] \subseteq FileObjs \cup UNION {GroupObjs(g) : g \in Gids}
  /\ buff \in [Ranks -> {"none", "zero", "index"}]
  /\ parsed \in [Ranks -> {"none", "zero", "index"}]
  /\ arrived \subseteq Ranks
  /\ groups \in [Ranks -> SUBSET Gids]
  /\ nfaults \in 0 .. MaxFaults

\* Every rank that has parsed the catalogs parsed the index region rank 0
\* read from the file, never the zeroed receive buffer: the broadcasts of
\* fopen deliver the footer and the index before any rank parses.
IndexAgrees ==
  \A r \in Ranks : parsed[r] # "none" => parsed[r] = "index"

\* No call frees a pointer it never set (gclose on the error path of gopen).
NoUndefinedFree == ~ub

\* fopen returns on every rank, with a file or with NULL: no rank is left
\* waiting in MPI_Bcast or MPI_Barrier for a rank that has returned.
FopenReturns == \A r \in Ranks : <>(pc[r] \in Returned)

=============================================================================
