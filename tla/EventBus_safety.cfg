CONSTANTS
  Calls = {c1, c2, c3, c4}
  Types = {t1}
  Handlers = {h1, h2}
  t1 = t1
  t2 = t2
  h1 = h1
  h2 = h2
  None = None
  Ptr <- MCPtr
  Emits <- MCEmitsAny
  Methods <- MCAllMethods
SPECIFICATION Spec
SYMMETRY MCSymmetry
INVARIANTS TypeOK SnapshotStable VisibleSubscribersCalled OnceRetired OnceLostOnlyInGap
CHECK_DEADLOCK FALSE
