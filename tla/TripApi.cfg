CONSTANTS
  MaxRequests = 2
  Int4Max = 3
  Int8Max = 15
  Nobody = Nobody
SPECIFICATION Spec
INVARIANTS
  TypeOK
  CountedAsAnswered
  OnlyAuthorizedCallsReachTheService
  LabelsMatchAnswers
  StoredSeatsAreAsked
CHECK_DEADLOCK FALSE
