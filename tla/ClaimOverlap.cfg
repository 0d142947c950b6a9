CONSTANTS
  Stride = 5
  Height = 3
  Widths = {3, 4}
  Heights = {1, 2}
  Bpps = {8, 16, 32}
  Threshold = 3
  Threshold16 = 4
  CopyareaThreshold = 4
  Scratch = 2
  NoCall = NoCall
SPECIFICATION Spec
INVARIANTS OverlappedCopyIsExact
