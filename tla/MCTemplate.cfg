SPECIFICATION FairSpec
CONSTANTS
  a = a
  b = b
  c = c
  Keys <- MCKeys
  NoKey = none
  Template = template
  Templates <- MCTemplates
  Credentials <- MCCredentials
  NoCredential = absent
  MaxFaults = 1
INVARIANTS
  TypeOK
  RunsAreOwn
  SentClean
  CredentialWhole
PROPERTIES
  EveryBranchBuilt
CHECK_DEADLOCK FALSE
