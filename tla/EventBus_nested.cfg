CONSTANTS
  Calls = {c1, c2, c3, c4}
  Types = {t1, t2}
  Handlers = {h1}
  t1 = t1
  t2 = t2
  h1 = h1
  h2 = h2
  None = None
  Ptr <- MCPtr
  Emits <- MCEmitsOther
  Methods = {"publish", "subscribe"}
SPECIFICATION FairSpec
PROPERTY NestedPublishReturns
CHECK_DEADLOCK FALSE
