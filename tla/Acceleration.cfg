\* Copies through the backend each generation of the server finds, with any one
\* call of the Init functions failing.
CONSTANTS
  Stride = 5
  Height = 3
  Widths = {3, 4}
  Heights = {1, 2}
  Bpps = {8, 16, 32}
  Threshold = 3
  Threshold16 = 4
  CopyareaThreshold = 4
  Scratch = 2
  NoCall = NoCall
  MaxOpen = 2
SPECIFICATION AccelSpec
INVARIANTS AccelTypeOK CopyIsExact RetryIsExact DescriptorsHaveOwner BackendIsOpen
