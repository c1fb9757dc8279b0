SPECIFICATION Spec
CONSTANTS
  Fields <- MCFields
  Snake <- MCSnake
  Camel <- MCCamel
  Lexicon <- MCLexicon
  Width32 = 4
  Width64 = 6
  Descriptors <- MCDescriptors
  Requests <- MCRequests
  Codes = {"OK", "Unavailable", "other"}
  ValidIP <- MCValidIP
INVARIANTS RouteNotShadowed MessageFaithful AuditTruthful
