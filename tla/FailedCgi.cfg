CONSTANTS
  Fds = {f1, f2}
  NoFd = NoFd
  MaxClients = 1
  Routes = {"cgi"}
  Endings = {"reset"}
  Exits = {"failed"}
  Setups <- MCLaunchFails
SPECIFICATION LiveSpec
PROPERTIES
  RequestIsAnswered
