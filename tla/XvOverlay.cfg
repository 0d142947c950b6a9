\* Frames that fit twice, and frames that do not fit; windows on the screen, cut
\* by its top, and above it.
SPECIFICATION Spec
CONSTANTS
  GfxLayerSize = 1
  FramebufferSize = 8
  FrameSizes = {3, 8}
  Rows <- RowsUpAndDown
  Heights = {2}
  Colors = {c1, c2}
  Clips = {r1, r2}
  NoClip = NoClip
  Contended = TRUE
SYMMETRY ColorSymmetry
INVARIANT TypeOK
INVARIANT ScalerFollowsVideo
INVARIANT SourceMatchesWindow
INVARIANT KeyColorMatches
INVARIANT FramesStayOffscreen
PROPERTY FramesAlternate
