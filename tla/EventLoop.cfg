CONSTANTS
  Fds = {f1, f2, f3, f4}
  NoFd = NoFd
  MaxClients = 2
  Routes = {"page", "cgi"}
  Endings = {"fin", "reset"}
  Exits = {"ok", "failed"}
  Setups <- MCSafeSetups
SPECIFICATION Spec
INVARIANTS
  TypeOK
  EventsFollowState
  IdleIsClean
  CompletedMeansDrained
  ClosesOnlyItsOwn
  TablesAgree
  CgiHasItsClient
  PipeAfterClient
PROPERTIES
  ScanIsOnePass
SYMMETRY Descriptors
ACTION_CONSTRAINT QuietTogether
