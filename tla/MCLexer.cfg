SPECIFICATION FairSpec
CONSTANTS
  Files <- SomeFiles
  Std <- Declaration
  StdTokens <- DeclarationTokens
  Letters = {"k", "x"}
  Digits = {"1"}
  Keywords <- KeywordTexts
  Literals <- LiteralTexts
  Room = 3
INVARIANTS TypeOK InOrder NothingLost LongestMatch
PROPERTIES DeclarationsSurvive TurnsRunOut Completes
CHECK_DEADLOCK FALSE
