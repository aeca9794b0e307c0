CONSTANTS
  Lines <- MCLines
  MaxLines = 7
  DefaultPort = 3
  DefaultLimit = 8
  DefaultBuffer = 9
  Bad = BadArgument
  BadArgument = BadArgument
  Descriptors <- MCDescriptors
SPECIFICATION Spec
INVARIANTS
  TypeOK
  ReadAsWritten
  ListensOnAll
  CleanupInRange
