----------------------------- MODULE MCMaliDRI2 -----------------------------
(***************************************************************************)
(* Constants for the TLC runs of MaliDRI2.                                 *)
(***************************************************************************)
EXTENDS MaliDRI2Claims, TLC

CONSTANTS w1, w2, f1

\* Every window is a top-level one.
FlatTree == [w \in Windows |-> Root]

\* w1 is the child of the frame f1.
FramedTree == [w \in Windows |-> IF w = w1 THEN f1 ELSE Root]

Reach == <<tree,ptr,state,mali,layer,frame,[b \in BOs |-> IF b \in FreeBOs THEN Unused ELSE bo[b]]>>
BOSymmetry == Permutations(BOs)
=============================================================================
