\* A client window inside a frame, and a second top-level window that moves
\* over it: when the layer may be on screen, and where.
SPECIFICATION Spec
CONSTANTS
  w1 = w1
  w2 = w2
  f1 = f1
  Windows = {w1, w2, f1}
  Clients = {w1}
  Root = Root
  Parent <- FramedTree
  Sizes = {2}
  Positions = {0, 2}
  BOs = {b1, b2}
  NoBO = NoBO
  QueueSize = 2
  NoWin = NoWin
  OffscreenSize = 4
  UseOverlay = TRUE
  NullIdIsSmall = TRUE
  ClientsWriteFront = TRUE
VIEW Reach
SYMMETRY BOSymmetry
INVARIANT LayerOnlyWhenUnobscured
INVARIANT LayerTracksWindow
