\* One caller holding up to two varinfos queries a group whose names all start with '/'; the mallocs of inq_var and of the string read may fail, at most twice.
CONSTANTS
  NULL = NULL
  Vars <- MC_Vars
  Attrs <- MC_Attrs
  Queries <- MC_Queries
  NSlots = 2
  FileIsFortran = FALSE
  Faults = {"alloc_vi", "alloc_value", "alloc_gmin", "alloc_gmax", "alloc_tmp"}
  MaxFaults = 2

SPECIFICATION Spec
INVARIANT TypeOK
INVARIANT LookupAgrees
INVARIANT VarinfoAgrees
 
INVARIANT AttrAgrees
