----------------------------- MODULE MCPixmapBo -----------------------------
(***************************************************************************)
(* Constants for the TLC runs of PixmapBo.                                 *)
(***************************************************************************)
EXTENDS PixmapBo, TLC

Symmetry == Permutations(Buffers) \cup Permutations(Infos)
=============================================================================
