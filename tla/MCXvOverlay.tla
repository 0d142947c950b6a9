---------------------------- MODULE MCXvOverlay ----------------------------
(***************************************************************************)
(* Constants for the TLC runs of XvOverlay.                                *)
(***************************************************************************)
EXTENDS XvOverlay, TLC

\* A window may be cut by the top of the screen, or be above it.
RowsUpAndDown == {-3, -1, 0}

ColorSymmetry == Permutations(Colors) \union Permutations(Clips)
=============================================================================
