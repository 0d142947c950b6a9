\* Two CRTCs that both drive an output, and nothing fails.
SPECIFICATION Spec
CONSTANTS
  o1 = o1
  o2 = o2
  NumCrtcs = 2
  Outputs = {o1, o2}
  CompatOutput = o1
  Encoders <- TwoEncoders
  Modes = {m1}
  NoMode = NoMode
  Foreign = Foreign
  NumLessees = 0
  Outcomes = {"works"}
INVARIANT EnabledCrtcsAreShown
CHECK_DEADLOCK FALSE
