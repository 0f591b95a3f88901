SPECIFICATION FairSpec
CONSTANTS
  Programs <- FewPrograms
  Names = {"A", "B"}
  Labels <- LabelNames
  Vars = {"out", "x", "y", "s", "y%if0"}
  Hosted = {"A", "B"}
  Exclusive = FALSE
  OutOfMemory = TRUE
  MaxObjects = 1
INVARIANTS OneSection InitOnce
PROPERTIES CallReturns
CHECK_DEADLOCK FALSE
