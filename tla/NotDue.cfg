CONSTANTS
  Conversations <- MCNotDue
  Pipelining = {FALSE}
  MaxBody = 3
  MaxBuffer = 2
  WordSize = 8
  ErrorPages = TRUE
SPECIFICATION Spec
INVARIANTS
  AnswersAreDue
