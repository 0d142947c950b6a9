---------------------------- MODULE MCScreenLife ----------------------------
(***************************************************************************)
(* Small instances of ScreenLife for TLC.                                  *)
(***************************************************************************)
EXTENDS ScreenLife, TLC

\* UMP buffers: no EXA, the tuner, a 2D engine and a layer with a scaler,
\* rotated, with a software cursor.
Ump == [exa |-> FALSE, tuner |-> TRUE, g2d |-> TRUE, xv |-> TRUE, rotate |-> TRUE,
        cursor |-> FALSE]

\* Dumb buffers bring EXA, and no tuner; the cursor is the controller's.
DumbBuffers == [exa |-> TRUE, tuner |-> FALSE, g2d |-> TRUE, xv |-> FALSE, rotate |-> FALSE,
                cursor |-> TRUE]

MCConfigs == {Ump, DumbBuffers}

MCCalled == {"PostValidateTree", "BlockHandler", "DestroyWindow"}

Symmetry == Permutations(Screens)
=============================================================================
