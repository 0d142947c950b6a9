\* One client window whose size changes between requests: the life of its
\* BOs, its queue, and the order of its frames.
SPECIFICATION Spec
CONSTANTS
  w1 = w1
  w2 = w2
  f1 = f1
  Windows = {w1}
  Clients = {w1}
  Root = Root
  Parent <- FlatTree
  Sizes = {2, 3}
  Positions = {0}
  BOs = {b1, b2, b3, b4}
  NoBO = NoBO
  QueueSize = 2
  NoWin = NoWin
  OffscreenSize = 4
  UseOverlay = TRUE
  NullIdIsSmall = TRUE
  ClientsWriteFront = FALSE
VIEW Reach
SYMMETRY BOSymmetry
INVARIANT TypeOK
INVARIANT RefcountCoversHolders
INVARIANT FrameParity
INVARIANT QueueShape
