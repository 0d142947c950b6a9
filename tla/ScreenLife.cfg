\* Two screens, of one and of two configurations, on one connection, through VT
\* switches, resets and failures, with an extension that wraps a function at any
\* time.  The server may exit: deadlock is not checked.
SPECIFICATION LifeSpec
CONSTANTS
  Screens = {s1, s2}
  PlatformBus = FALSE
  Generations = 2
  Configs <- MCConfigs
  Called <- MCCalled
  MaxExt = 1
SYMMETRY Symmetry
INVARIANT LifeTypeOK
INVARIANT AssertsHold
INVARIANT EveryLeaveIsCovered
INVARIANT ChainIsWhole
INVARIANT NoHookLeft
CHECK_DEADLOCK FALSE
