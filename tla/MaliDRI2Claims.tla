--------------------------- MODULE MaliDRI2Claims ---------------------------
(***************************************************************************)
(* What a comment says of the DRI2 glue and the code does not keep: the    *)
(* property of a run that TLC refutes.                                     *)
(***************************************************************************)
EXTENDS MaliDRI2

\* "remember the last up to date BO": what pOverlayDirtyBO remembers can still
\* be read when FlushOverlay copies from it.
DirtyBufferIsLive ==
  mali.pOverlayDirtyBO # NoBO => bo[mali.pOverlayDirtyBO].addr
=============================================================================
