CONSTANTS
  Conversations <- MCConversations
  Pipelining = {TRUE, FALSE}
  MaxBody = 3
  MaxBuffer = 2
  WordSize = 8
  ErrorPages = FALSE
SPECIFICATION Spec
INVARIANTS
  TypeOK
  AnswersAreDue
  StaysInStep
  BodyIsBounded
  CompleteIsAnswered
