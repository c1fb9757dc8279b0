CONSTANTS
  Calls = {c1, c2, c3}
  Types = {t1, t2}
  Handlers = {h1}
  t1 = t1
  t2 = t2
  h1 = h1
  h2 = h2
  None = None
  Ptr <- MCPtr
  Emits <- MCEmitsNothing
  Methods <- MCAllMethods
SPECIFICATION FairSpec
PROPERTY EveryCallReturns
