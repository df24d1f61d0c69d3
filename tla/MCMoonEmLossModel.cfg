SPECIFICATION Spec
CONSTANTS
  M = 16
  PERCENT = {0, 10, 25, 50, 100}
INVARIANTS
  LossFollowsState
  SharesAsConfigured
