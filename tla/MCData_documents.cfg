SPECIFICATION MCSpec
CONSTANTS
  s1 = s1
  s2 = s2
  Writers = {s1, s2}
  Records <- MCRecords
  RecordCap = 3
  Width = 3
  Exact = 4
  MaxInt = 7
  Env <- MCEnv
  Answers <- MCAnswers
  MaxDepth = 3
  Registry <- MCRegistry
  Stores <- MCStores
  ExpressionSize = 4
  Durations <- MCDurations
  Files <- MCFiles
  Bits32 = 3
  EnumNumbers <- MCEnumNumbers
INVARIANT
  DocumentsReadBack
CHECK_DEADLOCK FALSE
