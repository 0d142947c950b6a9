\* Three top-level windows and a nesting limit of 1: the limit bites, and does
\* not stop the calls from returning.
SPECIFICATION Spec
CONSTANTS
  Tops = {t1, t2, t3}
  NoWin = NoWin
  ForceBackingStore = FALSE
  CounterRange = 5
  MaxNesting = 1
INVARIANT TypeOK
INVARIANT BoundedRecursion
INVARIANT LevelIsBalanced
INVARIANT ShortJobIsDone
PROPERTY CallsReturn
