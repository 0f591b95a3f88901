SPECIFICATION FairSpec
CONSTANTS
  Reading <- Readings
  TokenLists <- AllLists
  ReadExpr <- Expression
  ReadDecl <- IdenDecl
  Written <- Digits
  IntWidth = 3
  FloatMax = 4
INVARIANTS TypeOK ProgramsRead NothingSkipped FieldsFirst SectionsOnce
PROPERTIES TurnsRunOut Completes
CHECK_DEADLOCK FALSE
