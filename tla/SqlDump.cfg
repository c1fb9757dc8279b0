CONSTANTS
  N = 2
  MaxId = 2
  MaxApp = 2
SPECIFICATION Spec
INVARIANTS TypeOK DumpConsistent SequencesAhead
PROPERTY RestoreIsAtomic
