SPECIFICATION FairSpec
CONSTANTS
  Programs <- CompiledPrograms
  Names = {"A", "B"}
  Labels <- LabelNames
  Vars = {"out", "x", "y", "s", "y%if0"}
  Hosted = {"A", "B"}
  Exclusive = FALSE
  OutOfMemory = FALSE
  MaxObjects = 2
PROPERTIES MainReturnsToMain
CHECK_DEADLOCK FALSE
