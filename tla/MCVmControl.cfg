SPECIFICATION FairSpec
CONSTANTS
  Programs <- AllPrograms
  Names = {"A", "B"}
  Labels <- LabelNames
  Vars = {"out", "x", "y", "s", "y%if0"}
  Hosted = {"A", "B"}
  Exclusive = TRUE
  OutOfMemory = FALSE
  MaxObjects = 2
INVARIANTS TypeOK OneSection InitOnce RunsInOwnScope NoNullContext ErrorStopsCall DeclaredOnce JumpsPlaced
PROPERTIES ModuleLifecycleSpec CallReturns StartIsLeft NamesFound CallsGoForward
