CONSTANTS
  Scripts <- MCLfScripts
  PipeCap = 3
  BufSize = 3
SPECIFICATION Spec
INVARIANTS
  BodyIsIntact
