\* One pixmap besides the screen's, one window, two DRI2 buffers, and any failing
\* call.
SPECIFICATION Spec
CONSTANTS
  Pixmaps = {p1}
  Screen = Screen
  Scratch = Scratch
  Windows = {w1}
  Buffers = {x1, x2}
  Infos = {i1, i2, i3, i4}
  NoInfo = NoInfo
  NullBuffer = NullBuffer
  Scanout = Scanout
  Invalid = Invalid
  MaxRefs = 2
  Outcomes = {"works", "no_bo", "no_fb", "no_dmabuf", "no_map_1", "no_map_2", "no_map"}
INVARIANT TypeOK
INVARIANT RefcountIsExact
INVARIANT MemoryIsOwned
INVARIANT AccessCanEnd
INVARIANT PixelsExist
PROPERTY ImplementsSharedBo
CHECK_DEADLOCK FALSE
SYMMETRY Symmetry
