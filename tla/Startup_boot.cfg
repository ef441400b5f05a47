SPECIFICATION Spec
CONSTANTS
  Seconds = {0, 5, 120, 2000}
  Second = 10
  Half = 1024
INVARIANT StartTypeOK
INVARIANT NothingMissingIsUsed
INVARIANT ServesWhatIsConfigured
INVARIANT AuthIsOutermost
PROPERTY ComesUpOrExits
CHECK_DEADLOCK FALSE
