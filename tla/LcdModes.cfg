\* Two CRTCs and two outputs that either can drive, one lease, any single failure
\* of an action.
SPECIFICATION Spec
CONSTANTS
  o1 = o1
  o2 = o2
  NumCrtcs = 2
  Outputs = {o1, o2}
  CompatOutput = o1
  Encoders <- TwoEncoders
  Modes = {m1, m2}
  NoMode = NoMode
  Foreign = Foreign
  NumLessees = 1
  Outcomes = {"works", "no_fb", "no_rotation", "refused", "not_read_back", "unlisted"}
INVARIANT TypeOK
INVARIANT KernelAgrees
INVARIANT LeasedIsNotConfigured
PROPERTY LesseeKeepsPicture
PROPERTY NoGoneLeaseAfterEnterVT
CHECK_DEADLOCK FALSE
SYMMETRY ModeSymmetry
