CONSTANTS
  EntityKeys <- MCEntityKeys
  Fields <- MCFields
  JSONValues <- MCJSONValues
  Exports <- MCExports
  Registries <- MCRegistries
  Current = 3
  MaxTries = 3
  Meaning <- MCMeaning
  Procs = {p1, p2}
  EncKeys = {"k1", "k2"}
  PayloadSet <- MCPayloadSet
  MaxStarts = 2
  CAs = {ca1, ca2}
  Life = 3
  RenewBefore = 1
  MaxTime = 4
  MaxKeys = 4
SPECIFICATION Spec
INVARIANTS FailuresReturnData
CHECK_DEADLOCK FALSE
