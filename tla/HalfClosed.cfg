CONSTANTS
  Fds = {f1, f2}
  NoFd = NoFd
  MaxClients = 1
  Routes = {"page"}
  Endings = {"fin"}
  Exits = {"ok"}
  Setups <- MCLaunchFails
SPECIFICATION LiveSpec
PROPERTIES
  HalfClosedIsClosed
