----------------------------- MODULE WindowTree -----------------------------
(***************************************************************************)
(* The part of the X server's window tree the overlay code looks at, and   *)
(* the walk FancyTraverseTree/WindowWalker that decides whether the        *)
(* overlay window is obscured.                                             *)
(*                                                                         *)
(* The screen is one row of pixels: a window covers the columns            *)
(* x .. x+size-1, so that BOXES_OVERLAP is an interval test.  Windows are  *)
(* top-level or children of a top-level window (the frame a window manager *)
(* puts around a client window); a child moves with its frame.             *)
(***************************************************************************)
EXTENDS Integers

CONSTANTS
  Windows,   \* every window other than the root
  Root,      \* the root window
  Parent,    \* Parent[w]: the frame of w, or Root
  Sizes,     \* the window sizes clients ask for; 1 is the 1x1 window
  Positions  \* the columns a top-level window may be moved to

ASSUME WindowTreeAssumption ==
  /\ Root \notin Windows
  /\ Parent \in [Windows -> Windows \union {Root}]
  /\ \A w \in Windows : Parent[w] # Root => Parent[Parent[w]] = Root
  /\ Sizes \subseteq Nat \ {0}
  /\ Positions \subseteq Nat

\* A snapshot of the tree.  below holds <<v, w>> when v and w are siblings and v
\* is lower in the stacking order.
Trees == [exists : SUBSET Windows, mapped : SUBSET Windows,
          x : [Windows -> Positions \union {0}],
          size : [Windows -> Sizes \union {0}],
          below : SUBSET (Windows \X Windows)]

EmptyTree == [exists |-> {}, mapped |-> {}, x |-> [w \in Windows |-> 0],
              size |-> [w \in Windows |-> 0], below |-> {}]

Top(w) == IF Parent[w] = Root THEN w ELSE Parent[w]

\* pWin->realized: the window and its ancestors are mapped.
Realized(t, w) == w \in t.mapped /\ (Parent[w] = Root \/ Parent[w] \in t.mapped)

\* pWin->drawable.x
Column(t, w) == t.x[Top(w)]

\* Mutated form: the walk forgets what is stacked above the frame of w.
VisitedBesideFrame(t, w) ==
  {v \in t.exists : Parent[v] = w \/ <<w, v>> \in t.below}

\* The windows FancyTraverseTree visits after w: the children of w, and
\* everything in the siblings stacked above w or above its frame.
VisitedAfter(t, w) ==
  {v \in t.exists :
     \/ Parent[v] = w
     \/ <<Top(w), Top(v)>> \in t.below
     \/ <<w, v>> \in t.below}

BoxesOverlap(t, v, w) ==
  /\ Column(t, v) < Column(t, w) + t.size[w]
  /\ Column(t, w) < Column(t, v) + t.size[v]

\* bOverlayWinOverlapped after the walk for the overlay window w.
Overlapped(t, w) ==
  \E v \in VisitedAfter(t, w) : Realized(t, v) /\ BoxesOverlap(t, v, w)

-----------------------------------------------------------------------------
\* What the X server does to the tree before it calls the driver's hooks.

Siblings(t, w) == {v \in t.exists \ {w} : Parent[v] = Parent[w]}

\* w above all its siblings.
OnTop(t, w) ==
  {p \in t.below : w \notin {p[1], p[2]}} \union {<<v, w>> : v \in Siblings(t, w)}

Created(t, w, s, x) ==
  [t EXCEPT !.exists = @ \union {w}, !.x[w] = x, !.size[w] = s, !.below = OnTop(t, w)]

Mapped(t, w) == [t EXCEPT !.mapped = @ \union {w}]

Unmapped(t, w) == [t EXCEPT !.mapped = @ \ {w}]

Moved(t, w, x) == [t EXCEPT !.x[w] = x]

Resized(t, w, s) == [t EXCEPT !.size[w] = s]

Raised(t, w) == [t EXCEPT !.below = OnTop(t, w)]

\* A destroyed window leaves no geometry behind.
Destroyed(t, w) ==
  [t EXCEPT !.exists = @ \ {w}, !.mapped = @ \ {w}, !.x[w] = 0, !.size[w] = 0,
            !.below = {p \in @ : w \notin {p[1], p[2]}}]
=============================================================================
