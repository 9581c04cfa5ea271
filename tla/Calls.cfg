CONSTANTS
  c = c
  s = s
  r = r
  Users = {c, s, r}
  KindOf <- MCKindOf
SPECIFICATION FairSpec
INVARIANTS NobodyForgotten LockHasCaller CloseReleasesOthers
PROPERTIES AnswersItsCaller ControlReturns ReceiveReturns SendReturns
CHECK_DEADLOCK FALSE
