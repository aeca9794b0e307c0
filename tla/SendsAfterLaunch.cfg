CONSTANTS
  Fds = {f1, f2}
  NoFd = NoFd
  MaxClients = 1
  Routes = {"cgi"}
  Endings = {"reset"}
  Exits = {"ok"}
  Setups <- MCBothFail
SPECIFICATION Spec
PROPERTIES
  NoSendAfterLaunch
