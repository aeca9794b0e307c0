CONSTANTS
  Scripts <- MCScripts
  PipeCap = 3
  BufSize = 3
SPECIFICATION LiveSpec
INVARIANTS
  TypeOK
  Framed
PROPERTIES
  RelaySpec
  SuccessIsAnswered
  FailureIsTold
