------------------------------ MODULE BpReadVar ------------------------------
(***************************************************************************)
(* The read planner and executor of the BP read engine:                    *)
(* common_read_read_var_byid (src/src/common_read.c) together with the     *)
(* helpers it calls, common_read_get_dimensions, get_dimensioncharacter-   *)
(* istics and swap_order.  One call reads the hyperslab req of one         *)
(* variable into the caller's buffer `data`.  The loop over time steps and *)
(* over the blocks (characteristics) of each time step is kept step by     *)
(* step; each block visit is one action that copies the block's share of   *)
(* the slab.  Bytes are abstracted to elements (size_of_type = 1): an      *)
(* element of the file carries the time step and the global coordinate it  *)
(* was written for, and whether its bytes are in the file's byte order, so *)
(* that the buffer can be compared cell by cell with the slab asked for.   *)
(* The caller uses the C API (futils_is_called_from_fortran() = 0).        *)
(*                                                                         *)
(* Code arrays are 0-based functions, as in the C source.                  *)
(***************************************************************************)
EXTENDS Integers, Sequences, FiniteSets, Functions, SequencesExt, BpDims

CONSTANTS
  GDims,            \* global shape of the data axes, file order (sequence)
  NSteps,           \* time steps in the file: tidx_start = 1, tidx_stop = NSteps
  HasTime,          \* the variable was written with a time axis
  FileIsFortran,    \* the PGs were written by Fortran code (column-major)
  ChangeEndianness, \* mfooter.change_endianness: file and host byte order differ
  Legacy,           \* old file: every characteristic has payload_offset = 0
  Layouts,          \* decompositions: sequences (rank order) of [off, ld] (sequences)
  WriteSets,        \* sets of <<step, rank>> whose PG wrote the variable
  Requests,         \* [start, count] in caller order, time axis first if any
  NoVal,            \* a buffer cell the read has not written
  Garbage           \* bytes read from outside the slice buffer

ASSUME NSteps \in Nat \ {0}
ASSUME \A L \in Layouts : \A b \in Range(L) : Len(b.off) = Len(GDims) /\ Len(b.ld) = Len(GDims)

VARIABLES
  chars,        \* var_root->characteristics of the variable (the parsed index)
  nranks,       \* PGs per time step: time_index[1][group][t]
  req,          \* the call's start[] and count[]
  pc,           \* "step": top of the time-step loop; "block": in the block loop; "done"
  ts,           \* timestep
  startIdx,     \* start_idx of the current time step
  pgc,          \* pgcount after capping by characteristics_count
  idx,          \* idx of the block loop
  writeOffset,  \* write_offset (elements) of the hole_break = 0 case
  base,         \* data pointer advance: data + base is this time step's slab
  total,        \* total_size, the return value
  data,         \* the caller's buffer
  err,          \* adios_errno of the call: "none", "no_data", "out_of_bound"
  overflow      \* some copy wrote outside the caller's buffer

vars == <<chars, nranks, req, pc, ts, startIdx, pgc, idx, writeOffset, base,
          total, data, err, overflow>>

-----------------------------------------------------------------------------
(* Arrays                                                                   *)

ProdOn(a, S) == FoldFunctionOnSet(LAMBDA x, y : x * y, 1, a, S)
SumOn(a, S) == FoldFunctionOnSet(LAMBDA x, y : x + y, 0, a, S)
Above(i, n) == (i + 1) .. (n - 1)
DropAt(a, k) == [i \in Idx(Size(a) - 1) |-> IF i < k THEN a[i] ELSE a[i + 1]]
\* row-major coordinates of linear position q in an array of shape d
RowMajor(q, d) == [i \in DOMAIN d |-> (q \div ProdOn(d, Above(i, Size(d)))) % d[i]]
ColMajor(q, d) == [i \in DOMAIN d |-> (q \div ProdOn(d, Idx(i))) % d[i]]
\* row-major linear position of coordinates m in shape d
Linear(m, d) == SumOn([i \in DOMAIN d |-> m[i] * ProdOn(d, Above(i, Size(d)))], DOMAIN d)
MinOf(S) == CHOOSE x \in S : \A y \in S : x <= y

-----------------------------------------------------------------------------
(* The file: PGs in file order, rank-major within a time step, and the     *)
(* variable's characteristics in PG order.  The dims triples follow the    *)
(* writer's convention that common_read_get_dimensions decodes: a Fortran  *)
(* time axis is a trailing (1,0,0); a C time axis puts local 1 first while *)
(* global and offset lists stay data-only, padded with 0 at the end.       *)

PgIndex(t, r, w) == (t - 1) * w + (r - 1)
PgOffset(k) == 10 * k            \* pg_offsets[k], strictly increasing
Triples(b) ==
  LET ld == IF ~HasTime THEN b.ld
            ELSE IF FileIsFortran THEN b.ld \o <<1>> ELSE <<1>> \o b.ld
      tl == IF HasTime THEN <<0>> ELSE <<>>
  IN [ld |-> Arr(ld), gd |-> Arr(GDims \o tl), of |-> Arr(b.off \o tl)]
MkChars(L, ws) ==
  LET W == Len(L)
      AllPgs == [k \in 1 .. (NSteps * W) |-> <<(k - 1) \div W + 1, ((k - 1) % W) + 1>>]
      S == SelectSeq(AllPgs, LAMBDA p : p \in ws)
  IN [i \in Idx(Len(S)) |->
        [offset |-> PgOffset(PgIndex(S[i+1][1], S[i+1][2], W)) + 1,
         step   |-> S[i+1][1],
         blk    |-> [off |-> Arr(L[S[i+1][2]].off), ld |-> Arr(L[S[i+1][2]].ld)],
         dims   |-> Triples(L[S[i+1][2]])]]

\* Element q of the payload of characteristic c, as the writer laid it out.
Payload(c, q) ==
  LET ld == c.blk.ld
      m  == IF FileIsFortran THEN ColMajor(q, ld) ELSE RowMajor(q, ld)
  IN IF q < ProdOn(ld, DOMAIN ld)
     THEN [t |-> c.step, c |-> [i \in DOMAIN ld |-> c.blk.off[i] + m[i]],
           sw |-> ChangeEndianness]
     ELSE Garbage

\* change_endianness on one element
Swap(v) == IF v \in {NoVal, Garbage} THEN v ELSE [v EXCEPT !.sw = ~@]

-----------------------------------------------------------------------------
(* Dimensions of the variable as the read sees them                        *)

CCount == Size(chars)
SwapNeeded == FileIsFortran      \* file_is_fortran != futils_is_called_from_fortran()

Dm == LET g == GetDimensions(chars[0].dims, NSteps, CCount)
      IN IF SwapNeeded THEN SwapOrder(g) ELSE g
TimeDim == Dm.timedim
NoTime(a) == IF TimeDim = -1 THEN a ELSE DropAt(a, TimeDim)
StartNoTime == NoTime(req.start)
CountNoTime == NoTime(req.count)
NDimNoTime == Size(CountNoTime)
ItemsRead == ProdOn(CountNoTime, DOMAIN CountNoTime)
StartTime == IF TimeDim > -1 THEN req.start[TimeDim] + 1 ELSE 1
\* variant: stop_time without the - 1
StopTimePastEnd == IF TimeDim > -1 THEN StartTime + req.count[TimeDim] ELSE 1
StopTime == IF TimeDim > -1 THEN StartTime + req.count[TimeDim] - 1 ELSE 1

\* variant: time_index read one time step late
StartIdxNextStep(t) ==
  LET pgoffset == t * nranks
      S == {i \in Idx(CCount) :
              /\ chars[i].offset > PgOffset(pgoffset)
              /\ \/ i = CCount - 1
                 \/ chars[i].offset < PgOffset(pgoffset + 1)}
  IN IF S = {} THEN -1 ELSE MinOf(S)

\* start_idx: first characteristic inside the first PG of time step t
StartIdx(t) ==
  LET pgoffset == (t - 1) * nranks
      S == {i \in Idx(CCount) :
              /\ chars[i].offset > PgOffset(pgoffset)
              /\ \/ i = CCount - 1
                 \/ chars[i].offset < PgOffset(pgoffset + 1)}
  IN IF S = {} THEN -1 ELSE MinOf(S)

-----------------------------------------------------------------------------
(* One block, in caller order with the time axis taken out                 *)

BlockDims(c) ==
  LET d == c.dims
      gd == IF IsGlobal(d) THEN d.gd ELSE d.ld
      sw(a) == IF SwapNeeded THEN RevArr(a) ELSE a
  IN [ld |-> NoTime(sw(d.ld)), gd |-> NoTime(sw(gd)), of |-> NoTime(sw(d.of))]

\* variant: without the start + count > gdims clause
OutOfBoundNoEnd(b) ==
  \E j \in Idx(NDimNoTime) :
     \/ CountNoTime[j] > b.gd[j]
     \/ StartNoTime[j] > b.gd[j]

OutOfBound(b) ==
  \E j \in Idx(NDimNoTime) :
     \/ CountNoTime[j] > b.gd[j]
     \/ StartNoTime[j] > b.gd[j]
     \/ StartNoTime[j] + CountNoTime[j] > b.gd[j]

\* variant: without the clause for a block that covers the slab on both sides
IntersectsNoMiddle(b) ==
  \A j \in Idx(NDimNoTime) :
     LET o == b.of[j]  l == b.ld[j]  s == StartNoTime[j]  n == CountNoTime[j]
     IN \/ o >= s /\ o < s + n
        \/ o + l > s /\ o + l <= s + n

Intersects(b) ==
  \A j \in Idx(NDimNoTime) :
     LET o == b.of[j]  l == b.ld[j]  s == StartNoTime[j]  n == CountNoTime[j]
     IN \/ o >= s /\ o < s + n
        \/ o < s /\ o + l > s + n
        \/ o + l > s /\ o + l <= s + n

HoleBreak(b) ==
  LET NF == {i \in Idx(NDimNoTime) :
               ~(b.of[i] = StartNoTime[i] /\ b.ld[i] = CountNoTime[i])}
  IN IF NF = {} THEN -1 ELSE MaxOf(NF)

\* variant: the head case does not clip the size at the end of the block
ClipUnclamped(b, i) ==
  LET o == b.of[i]  l == b.ld[i]  s == StartNoTime[i]  n == CountNoTime[i]
      isize == o + l
  IN IF s >= o
     THEN IF s < isize
          THEN [size |-> n, odset |-> s - o, ovar |-> 0]
          ELSE [size |-> 0, odset |-> 0, ovar |-> 0]
     ELSE [size |-> IF isize < s + n THEN l ELSE n + s - o,
           odset |-> 0, ovar |-> o - s]

\* head / middle / tail classification of axis i
Clip(b, i) ==
  LET o == b.of[i]  l == b.ld[i]  s == StartNoTime[i]  n == CountNoTime[i]
      isize == o + l
  IN IF s >= o
     THEN IF s < isize
          THEN [size |-> IF s + n > isize THEN isize - s ELSE n,
                odset |-> s - o, ovar |-> 0]
          ELSE [size |-> 0, odset |-> 0, ovar |-> 0]
     ELSE [size |-> IF isize < s + n THEN l ELSE n + s - o,
           odset |-> 0, ovar |-> o - s]

\* A copy: destination cell -> [pos |-> payload element, ok |-> inside the slice buffer]
Src(pos, ok) == [pos |-> pos, ok |-> ok]

\* hole_break = -1: the whole block is the slab
WholeCopy(c, b) ==
  LET n == ProdOn(b.ld, DOMAIN b.ld)
  IN [k \in {base + e : e \in Idx(n)} |-> Src(k - base, TRUE)]

\* hole_break = 0: one contiguous run of rows, appended at write_offset
RowsCopy(c, b) ==
  LET cl == Clip(b, 0)
      datasize == ProdOn(b.ld, Above(0, NDimNoTime))
      slice == cl.size * datasize
      first == IF Legacy THEN 0 ELSE cl.odset * datasize
  IN [k \in {base + writeOffset + e : e \in Idx(slice)} |->
        Src(first + (k - base - writeOffset), TRUE)]

\* general case: bounding-box read, then copy_data
StridedCopy(c, b) ==
  LET nd == NDimNoTime
      hb == HoleBreak(b)
      cl == [i \in Idx(nd) |-> Clip(b, i)]
      size == [i \in Idx(nd) |-> cl[i].size]
      S == hb .. (nd - 1)
      datasize == ProdOn(size, S)
      dsetStride == ProdOn(b.ld, S)
      varStride == ProdOn(CountNoTime, S)
      startIn == SumOn([i \in Idx(nd) |-> ProdOn(b.ld, Above(i, nd)) * cl[i].odset], Idx(nd))
      endIn == SumOn([i \in Idx(nd) |-> ProdOn(b.ld, Above(i, nd))
                                          * (cl[i].odset + cl[i].size - 1)], Idx(nd))
      slice == endIn - startIn + 1
      odset == [i \in Idx(nd) |-> IF Legacy THEN cl[i].odset ELSE 0]
      varOffset == Linear([i \in Idx(nd) |-> cl[i].ovar], CountNoTime)
      dsetOffset == Linear(odset, b.ld)
      outer == [i \in Idx(hb) |-> size[i]]
      tile(l) == RowMajor(l, outer)
      dst(l, e) == base + varOffset
                   + Linear(tile(l), [i \in Idx(hb) |-> CountNoTime[i]]) * varStride + e
      src(l, e) == dsetOffset + Linear(tile(l), [i \in Idx(hb) |-> b.ld[i]]) * dsetStride + e
      pairs == {<<dst(l, e), src(l, e)>> : l \in Idx(ProdOn(outer, Idx(hb))), e \in Idx(datasize)}
      bufLen == IF Legacy THEN ProdOn(b.ld, Idx(nd)) ELSE slice
      first == IF Legacy THEN 0 ELSE startIn
  IN [k \in {p[1] : p \in pairs} |->
        LET q == (CHOOSE p \in pairs : p[1] = k)[2]
        IN Src(first + q, q < bufLen)]

\* Store a copy into the caller's buffer, swapping bytes if asked to.
Store(c, cp, swapIt) ==
  /\ data' = [k \in DOMAIN data |->
                IF k \in DOMAIN cp
                THEN LET v == IF cp[k].ok THEN Payload(c, cp[k].pos) ELSE Garbage
                     IN IF swapIt THEN Swap(v) ELSE v
                ELSE data[k]]
  /\ overflow' = (overflow \/ ~(DOMAIN cp \subseteq DOMAIN data))

-----------------------------------------------------------------------------
(* Reference: the slab the call asks for, independent of the code's view   *)

\* for the request r and the characteristics c
RefStartOf(r) == IF HasTime THEN DropAt(r.start, 0) ELSE r.start
RefCountOf(r) == IF HasTime THEN DropAt(r.count, 0) ELSE r.count
RefFirstStepOf(r) == IF HasTime THEN r.start[0] + 1 ELSE 1
RefNStepsOf(r) == IF HasTime THEN r.count[0] ELSE 1
RefItemsOf(r) == ProdOn(RefCountOf(r), DOMAIN RefCountOf(r))
NCellsOf(r) == RefItemsOf(r) * RefNStepsOf(r)
CallerGDims == IF FileIsFortran THEN RevArr(Arr(GDims)) ELSE Arr(GDims)
RefInBoundsOf(r) ==
  \A i \in DOMAIN RefStartOf(r) : RefStartOf(r)[i] + RefCountOf(r)[i] <= CallerGDims[i]
RefWrittenOf(c, r) ==
  \A t \in RefFirstStepOf(r) .. (RefFirstStepOf(r) + RefNStepsOf(r) - 1) :
     \E i \in DOMAIN c : c[i].step = t
ExpectedOf(r, k) ==
  LET rel == RowMajor(k % RefItemsOf(r), RefCountOf(r))
      cc == [i \in DOMAIN RefCountOf(r) |-> RefStartOf(r)[i] + rel[i]]
  IN [t |-> RefFirstStepOf(r) + k \div RefItemsOf(r),
      c |-> IF FileIsFortran THEN RevArr(cc) ELSE cc,
      sw |-> FALSE]

\* for this call
NCells == NCellsOf(req)
RefInBounds == RefInBoundsOf(req)
RefWritten == RefWrittenOf(chars, req)
Expected(k) == ExpectedOf(req, k)

\* for the input <<chars, req>> of a call: its slab, and whether it can be read
CallSlab(in) == [k \in Idx(NCellsOf(in[2])) |-> ExpectedOf(in[2], k)]
CallPossible(in) == RefInBoundsOf(in[2]) /\ RefWrittenOf(in[1], in[2])

-----------------------------------------------------------------------------
(* Actions                                                                  *)

Init ==
  /\ \E L \in Layouts, ws \in WriteSets :
        /\ chars = MkChars(L, ws)
        /\ nranks = Len(L)
  /\ CCount > 0
  /\ req \in Requests
  /\ pc = "step"
  /\ ts = StartTime
  /\ startIdx = -1 /\ pgc = 0 /\ idx = 0 /\ writeOffset = 0
  /\ base = 0 /\ total = 0
  /\ data = [k \in Idx(NCells) |-> NoVal]
  /\ err = "none"
  /\ overflow = FALSE

\* the time step has no block of this variable: err_no_data_at_timestep
NoDataAtTimestep ==
  /\ pc = "step" /\ ts <= StopTime /\ ts <= NSteps
  /\ StartIdx(ts) < 0
  /\ pc' = "done" /\ err' = "no_data"
  /\ UNCHANGED <<chars, nranks, req, ts, startIdx, pgc, idx, writeOffset, base,
                 total, data, overflow>>

\* variant: the scalar is copied without change_endianness
ReadScalarNoSwap ==
  /\ pc = "step" /\ ts <= StopTime /\ ts <= NSteps
  /\ StartIdx(ts) >= 0
  /\ NDimNoTime = 0
  /\ Store(chars[StartIdx(ts)], [k \in {total} |-> Src(0, TRUE)], FALSE)
  /\ total' = total + 1
  /\ ts' = ts + 1
  /\ UNCHANGED <<chars, nranks, req, pc, startIdx, pgc, idx, writeOffset, base, err>>

\* READ A SCALAR VARIABLE: one element of the step's first block
ReadScalar ==
  /\ pc = "step" /\ ts <= StopTime /\ ts <= NSteps
  /\ StartIdx(ts) >= 0
  /\ NDimNoTime = 0
  /\ Store(chars[StartIdx(ts)], [k \in {total} |-> Src(0, TRUE)], ChangeEndianness)
  /\ total' = total + 1
  /\ ts' = ts + 1
  /\ UNCHANGED <<chars, nranks, req, pc, startIdx, pgc, idx, writeOffset, base, err>>

\* variant: write_offset carried over from the previous time step
BeginArrayStepKeepOffset ==
  /\ pc = "step" /\ ts <= StopTime /\ ts <= NSteps
  /\ StartIdx(ts) >= 0
  /\ NDimNoTime > 0
  /\ startIdx' = StartIdx(ts)
  /\ pgc' = IF nranks > CCount THEN CCount ELSE nranks
  /\ idx' = 0
  /\ pc' = "block"
  /\ UNCHANGED <<chars, nranks, req, ts, writeOffset, base, total, data, err, overflow>>

\* READ AN ARRAY VARIABLE: set up the loop over the step's blocks
BeginArrayStep ==
  /\ pc = "step" /\ ts <= StopTime /\ ts <= NSteps
  /\ StartIdx(ts) >= 0
  /\ NDimNoTime > 0
  /\ startIdx' = StartIdx(ts)
  /\ pgc' = IF nranks > CCount THEN CCount ELSE nranks
  /\ idx' = 0 /\ writeOffset' = 0
  /\ pc' = "block"
  /\ UNCHANGED <<chars, nranks, req, ts, base, total, data, err, overflow>>

\* variant: the time-step loop stops at stop_time instead of after it
FinishReadEarly ==
  /\ pc = "step" /\ ts >= StopTime
  /\ pc' = "done"
  /\ UNCHANGED <<chars, nranks, req, ts, startIdx, pgc, idx, writeOffset, base,
                 total, data, err, overflow>>

FinishRead ==
  /\ pc = "step" /\ ts > StopTime
  /\ pc' = "done"
  /\ UNCHANGED <<chars, nranks, req, ts, startIdx, pgc, idx, writeOffset, base,
                 total, data, err, overflow>>

EndArrayStep ==
  /\ pc = "block" /\ idx >= pgc
  /\ total' = total + ItemsRead
  /\ base' = base + ItemsRead
  /\ ts' = ts + 1
  /\ pc' = "step"
  /\ UNCHANGED <<chars, nranks, req, startIdx, pgc, idx, writeOffset, data, err, overflow>>

\* the block visited at idx; characteristics[start_idx + idx] must exist
Visiting == pc = "block" /\ idx < pgc /\ startIdx + idx < CCount
Blk == BlockDims(chars[startIdx + idx])
Cur == chars[startIdx + idx]

BlockOutOfBound ==
  /\ Visiting /\ OutOfBound(Blk)
  /\ pc' = "done" /\ err' = "out_of_bound"
  /\ UNCHANGED <<chars, nranks, req, ts, startIdx, pgc, idx, writeOffset, base,
                 total, data, overflow>>

SkipBlock ==
  /\ Visiting /\ ~OutOfBound(Blk) /\ ~Intersects(Blk)
  /\ idx' = idx + 1
  /\ UNCHANGED <<chars, nranks, req, pc, ts, startIdx, pgc, writeOffset, base,
                 total, data, err, overflow>>

ReadWholeBlock ==
  /\ Visiting /\ ~OutOfBound(Blk) /\ Intersects(Blk) /\ HoleBreak(Blk) = -1
  /\ Store(Cur, WholeCopy(Cur, Blk), ChangeEndianness)
  /\ idx' = idx + 1
  /\ UNCHANGED <<chars, nranks, req, pc, ts, startIdx, pgc, writeOffset, base, total, err>>

ReadRowsBlock ==
  /\ Visiting /\ ~OutOfBound(Blk) /\ Intersects(Blk) /\ HoleBreak(Blk) = 0
  /\ LET cp == RowsCopy(Cur, Blk)
     IN /\ Store(Cur, cp, ChangeEndianness)
        /\ writeOffset' = writeOffset + Size(cp)
  /\ idx' = idx + 1
  /\ UNCHANGED <<chars, nranks, req, pc, ts, startIdx, pgc, base, total, err>>

ReadStridedBlock ==
  /\ Visiting /\ ~OutOfBound(Blk) /\ Intersects(Blk) /\ HoleBreak(Blk) > 0
  /\ Store(Cur, StridedCopy(Cur, Blk), FALSE)
  /\ idx' = idx + 1
  /\ UNCHANGED <<chars, nranks, req, pc, ts, startIdx, pgc, writeOffset, base, total, err>>

Next ==
  \/ NoDataAtTimestep
  \/ ReadScalar
  \/ BeginArrayStep
  \/ FinishRead
  \/ EndArrayStep
  \/ BlockOutOfBound
  \/ SkipBlock
  \/ ReadWholeBlock
  \/ ReadRowsBlock
  \/ ReadStridedBlock

Spec == Init /\ [][Next]_vars

\* A call runs on the caller's thread until it returns: once a step of the
\* function can be taken, one is.
FairSpec == Spec /\ WF_vars(Next)

-----------------------------------------------------------------------------
(* Properties                                                               *)

TypeOK ==
  /\ pc \in {"step", "block", "done"}
  /\ err \in {"none", "no_data", "out_of_bound"}
  /\ ts \in 1 .. (NSteps + 1) /\ base \in Nat /\ total \in Nat
  /\ startIdx \in -1 .. (CCount - 1)
  /\ pgc \in 0 .. CCount /\ idx \in 0 .. pgc
  /\ writeOffset \in 0 .. ItemsRead
  /\ overflow \in BOOLEAN
  /\ DOMAIN data = Idx(NCells)

\* Every cell of the caller's buffer that the read has written holds the
\* element of the requested slab that belongs there (right time step, right
\* global coordinate, host byte order), and no copy of a block writes
\* outside the buffer: the block copies of read_var_byid, whichever case
\* (whole block, rows appended at write_offset, strided copy_data) handles a
\* block, and in whatever order the blocks are visited, never put an
\* element in another element's place.
NoWrongWrite ==
  /\ ~overflow
  /\ \A k \in DOMAIN data : data[k] \in {NoVal, Expected(k)}

\* When the read returns, it has succeeded exactly when the slab lies inside
\* the global array and every requested time step has data; on success it
\* has filled the whole buffer with the slab and returns its size.
ReadDeliversSlab ==
  pc = "done" =>
     /\ (err = "none") = (RefInBounds /\ RefWritten)
     /\ err = "none" => /\ total = NCells
                        /\ \A k \in DOMAIN data : data[k] = Expected(k)

\* the call as its caller sees it: running until pc is "done", then ok with
\* the buffer and total_size, or failed with a negative return
Read == INSTANCE SlabRead WITH
          Undefined <- NoVal,
          status <- IF pc # "done" THEN "running" ELSE IF err = "none" THEN "ok" ELSE "failed",
          buf <- IF pc = "done" /\ err = "none" THEN data ELSE NoVal,
          ret <- IF pc # "done" THEN 0 ELSE IF err = "none" THEN total ELSE -1,
          input <- <<chars, req>>,
          Slab <- CallSlab,
          Possible <- CallPossible

\* read_var_byid implements the promise of a read: every call returns,
\* successfully exactly when the slab is in bounds and every step has data,
\* with the whole slab in the buffer and its size as the return value; no
\* step before the return shows the caller anything, and none after it
\* changes what it returned.
ImplementsSlabRead == Read!Safety /\ Read!Returns

=============================================================================
