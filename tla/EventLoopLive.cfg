CONSTANTS
  Fds = {f1, f2}
  NoFd = NoFd
  MaxClients = 1
  Routes = {"page", "cgi"}
  Endings = {"reset"}
  Exits = {"ok"}
  Setups <- MCShortSends
SPECIFICATION LiveSpec
PROPERTIES
  RequestIsAnswered
  ResetIsNoticed
  IdleIsClosed
  ExitIsReaped
