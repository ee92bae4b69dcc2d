\* Fortran-written time-varying array written by rank 0 only, in several
\* time steps, with several ranks in the file.
CONSTANTS
  GDims <- MC_GDims
  NSteps = 2
  HasTime = TRUE
  FileIsFortran = TRUE
  ChangeEndianness = FALSE
  Legacy = FALSE
  Layouts <- ThickFirstLayouts
  WriteSets <- Rank0Writes
  Requests <- AllRequests
  NoVal = NoVal
  Garbage = Garbage

SPECIFICATION Spec
INVARIANT NoWrongWrite
\* one read call: it returns, and its final state has no successor
CHECK_DEADLOCK FALSE
