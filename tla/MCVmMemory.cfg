SPECIFICATION Spec
CONSTANTS
  Fields = {"stdout", "stdin", "f"}
  Locals = {"x"}
  Registers <- UsedRegisters
  Objects = {1, 2, 3, 4, 5, 6, 7, 8, 9, 10, 11}
  Inputs <- Lines
  MaxText = 1
  MaxInt = 1
  None = None
  Statements <- PlainStatements
INVARIANTS TypeOK NoStaleAccess OneOwner RulesKept
PROPERTIES OnlyTargetChanges ScriptSpec
CHECK_DEADLOCK FALSE
