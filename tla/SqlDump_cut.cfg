CONSTANTS
  N = 2
  MaxId = 2
  MaxApp = 2
SPECIFICATION Spec
INVARIANT CutArchiveRefused
