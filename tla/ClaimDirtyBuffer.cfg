\* The BO FlushOverlay would copy from has been released.
SPECIFICATION Spec
CONSTANTS
  w1 = w1
  w2 = w2
  f1 = f1
  Windows = {w1}
  Clients = {w1}
  Root = Root
  Parent <- FlatTree
  Sizes = {2, 3}
  Positions = {0}
  BOs = {b1, b2, b3}
  NoBO = NoBO
  QueueSize = 2
  NoWin = NoWin
  OffscreenSize = 4
  UseOverlay = TRUE
  NullIdIsSmall = TRUE
  ClientsWriteFront = FALSE
VIEW Reach
SYMMETRY BOSymmetry
INVARIANT DirtyBufferIsLive
