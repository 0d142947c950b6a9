----------------------------- MODULE MCLcdModes -----------------------------
(***************************************************************************)
(* Constants for the TLC runs of LcdModes.                                 *)
(***************************************************************************)
EXTENDS LcdModes, TLC

CONSTANTS o1, o2

\* Either CRTC can feed o1; o2 has an encoder for both and one for CRTC 2 only.
TwoEncoders ==
  [o \in Outputs |-> IF o = o2 THEN {{1, 2}, {2}} ELSE {{1, 2}}]

ModeSymmetry == Permutations(Modes)
=============================================================================
