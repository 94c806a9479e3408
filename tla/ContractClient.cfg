CONSTANTS
  Timeout = 10
  RetryCount = 2
  MinWait = 1
  MaxWait = 5
SPECIFICATION Spec
INVARIANTS
  TypeOK
  VerdictIsExplained
  RetriesArePaced
PROPERTIES
  ImplementsPermissionCheck
  EveryCheckEnds
