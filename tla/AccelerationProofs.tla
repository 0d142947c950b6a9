------------------------- MODULE AccelerationProofs -------------------------
(***************************************************************************)
(* A copy is exact for every size of the image, every rectangle, every     *)
(* size of the scratch buffer and every threshold, and the 2D backend that *)
(* makes it is open, whichever calls fail.                                 *)
(*                                                                         *)
(* The inductive invariant says for each function what the image is: as it *)
(* was, with the columns of the first parts copied, or with the rows and   *)
(* runs copied that the walk has come past.  A walk is Safe if no pixel is *)
(* read after it was written; that is what the comparison of addresses in  *)
(* overlapped_blt, and of positions in miCopyRegion, has to give.          *)
(***************************************************************************)
EXTENDS Acceleration, TLAPS

-----------------------------------------------------------------------------
\* Where p is in the rectangle, in the order of the walk.
RowOf(c, s, p) == IF s.up THEN c.h - 1 - (p.y - c.dst_y) ELSE p.y - c.dst_y
ColOf(c, s, p) == IF s.back THEN c.w - 1 - (p.x - c.dst_x) ELSE p.x - c.dst_x

Past(c, s, p) ==
  /\ Into(c, p, 0, c.w)
  /\ \/ RowOf(c, s, p) < s.row
     \/ RowOf(c, s, p) = s.row /\ ColOf(c, s, p) < s.col

\* If source and destination overlap, the walk begins where they do.
Safe(c, s) ==
  Same(c) =>
    \/ c.src_y < c.dst_y /\ s.up
    \/ c.src_y > c.dst_y /\ ~s.up
    \/ /\ c.src_y = c.dst_y
       /\ c.src_x < c.dst_x => s.back
       /\ c.src_x > c.dst_x => ~s.back
    \/ c.dst_y - c.src_y >= c.h

\* The copies the two properties are about; the second kind may be torn.
Whole == ~torn /\ ~SplitToTheRight(call)

Untouched(m, c) == \A p \in Point : ~Into(c, p, 0, c.w) => m[p] = p

Before ==
  at \in {"idle", "blt", "cpu"} => image = Fresh /\ ~torn /\ part = 1

InParts ==
  at = "three" =>
    /\ driver.backend = "g2d" /\ G2dWorthIt(call) /\ InThree(call)
    /\ ~torn
    /\ ~SplitToTheRight(call) \/ Disjoint(call)
         => image = Copied(Fresh, call, 0, Cut(call, part))
    /\ Disjoint(call) => Untouched(image, call)

Failed ==
  at = "caller" =>
    /\ Whole => image = Fresh
    /\ Disjoint(call) => Untouched(image, call)

InRows ==
  at = "rows" =>
    /\ Safe(call, scan)
    /\ scan.row \in 0 .. call.h /\ scan.col \in 0 .. call.w - 1
    /\ scan.row = call.h => scan.col = 0
    /\ Whole => \A p \in Point :
                  image[p] = IF Past(call, scan, p) THEN Source(call, p) ELSE p
    /\ Disjoint(call) =>
         /\ Untouched(image, call)
         /\ \A p \in Point : Past(call, scan, p) => image[p] = Source(call, p)

ChainInv ==
  TypeOK /\ Before /\ InParts /\ Failed /\ InRows /\ CopyIsExact /\ RetryIsExact

-----------------------------------------------------------------------------
\* The structures hold what is open, and the backend is one of theirs.
Held == screen.sunxi_disp \union screen.fb_copyarea

Owned == \A k \in Held : opened[k] >= 1

Ready ==
  /\ ~screen.up => screen = Down /\ at = "idle"
  /\ at # "idle" => screen.backend # "none"
  /\ screen.backend # "none" =>
       /\ driver.backend = screen.backend
       /\ driver.backend = "g2d" => {"/dev/disp", "/dev/g2d"} \subseteq screen.sunxi_disp
       /\ driver.backend = "copyarea" => "copyarea" \in screen.fb_copyarea
       /\ driver.backend # "g2d" => fbmem

IInv == AccelTypeOK /\ ChainInv /\ Owned /\ DescriptorsHaveOwner /\ Ready

-----------------------------------------------------------------------------
(***************************************************************************)
(* Points and rectangles.                                                  *)
(***************************************************************************)

\* The numbers of a copy.
LEMMA CallBounds ==
  ASSUME NEW c \in Calls
  PROVE  /\ c.src \in Images /\ c.dst \in Images
         /\ c.src_x \in 0 .. Stride - 1 /\ c.src_y \in 0 .. Height - 1
         /\ c.dst_x \in 0 .. Stride - 1 /\ c.dst_y \in 0 .. Height - 1
         /\ c.w \in Nat \ {0} /\ c.h \in Nat \ {0}
         /\ c.src_x + c.w <= Stride /\ c.dst_x + c.w <= Stride
         /\ c.src_y + c.h <= Height /\ c.dst_y + c.h <= Height
         /\ c.src_x \in Nat /\ c.src_y \in Nat /\ c.dst_x \in Nat /\ c.dst_y \in Nat
         /\ Stride \in Nat \ {0} /\ Height \in Nat \ {0}
  <1>1. Stride \in Nat \ {0} /\ Height \in Nat \ {0}
    BY BlitChainAssumption
  <1>2. /\ c \in [src : Images, dst : Images, bpp : Bpps, window : BOOLEAN,
                  src_x : 0 .. Stride - 1, src_y : 0 .. Height - 1,
                  dst_x : 0 .. Stride - 1, dst_y : 0 .. Height - 1,
                  w : Widths, h : Heights]
        /\ c.src_x + c.w <= Stride /\ c.dst_x + c.w <= Stride
        /\ c.src_y + c.h <= Height /\ c.dst_y + c.h <= Height
    BY DEF Calls
  <1>3. /\ c.src \in Images /\ c.dst \in Images
        /\ c.src_x \in 0 .. Stride - 1 /\ c.src_y \in 0 .. Height - 1
        /\ c.dst_x \in 0 .. Stride - 1 /\ c.dst_y \in 0 .. Height - 1
        /\ c.w \in Widths /\ c.h \in Heights
    BY <1>2
  <1>4. c.w \in Nat \ {0} /\ c.h \in Nat \ {0}
    BY <1>3, BlitChainAssumption
  <1>5. c.src_x \in Nat /\ c.src_y \in Nat /\ c.dst_x \in Nat /\ c.dst_y \in Nat
    BY <1>1, <1>3
  <1> QED
    BY <1>1, <1>2, <1>3, <1>4, <1>5

LEMMA PointBounds ==
  ASSUME NEW p \in Point
  PROVE  /\ p.of \in Images /\ p.x \in 0 .. Stride - 1 /\ p.y \in 0 .. Height - 1
         /\ p.x \in Nat /\ p.y \in Nat
  BY BlitChainAssumption DEF Point

\* The columns of a part are columns of the copy.
LEMMA IntoWhole ==
  ASSUME NEW c \in Calls, NEW p \in Point, NEW from \in Nat, NEW to \in 0 .. c.w,
         Into(c, p, from, to)
  PROVE  Into(c, p, 0, c.w)
  BY CallBounds, PointBounds DEF Into

\* Where a pixel comes from is a point of the source.
LEMMA SourceIsPoint ==
  ASSUME NEW c \in Calls, NEW p \in Point, Into(c, p, 0, c.w)
  PROVE  /\ Source(c, p) \in Point
         /\ Source(c, p).of = c.src
         /\ Source(c, p).x = p.x - c.dst_x + c.src_x
         /\ Source(c, p).y = p.y - c.dst_y + c.src_y
  <1>1. /\ p.x - c.dst_x + c.src_x \in 0 .. Stride - 1
        /\ p.y - c.dst_y + c.src_y \in 0 .. Height - 1
    BY CallBounds, PointBounds DEF Into
  <1>2. c.src \in Images
    BY CallBounds
  <1> QED
    BY <1>1, <1>2 DEF Source, Point

\* No pixel of a copy to another place is read and written.
LEMMA DisjointSource ==
  ASSUME NEW c \in Calls, NEW p \in Point, Into(c, p, 0, c.w), Disjoint(c)
  PROVE  ~Into(c, Source(c, p), 0, c.w)
  <1> DEFINE q == Source(c, p)
  <1>1. /\ q.of = c.src /\ q.x = p.x - c.dst_x + c.src_x /\ q.y = p.y - c.dst_y + c.src_y
    BY SourceIsPoint
  <1> HIDE DEF q
  <1>2. ASSUME Into(c, q, 0, c.w) PROVE FALSE
    BY <1>1, <1>2, CallBounds, PointBounds DEF Into, Disjoint, Same
  <1> QED
    BY <1>2 DEF q

\* An image, point by point.
LEMMA FreshIs ==
  /\ Fresh \in [Point -> Point]
  /\ \A p \in Point : Fresh[p] = p
  BY DEF Fresh

LEMMA CopiedIs ==
  ASSUME NEW c, NEW m \in [Point -> Point], NEW from, NEW to
  PROVE  \A p \in Point :
           Copied(m, c, from, to)[p] = IF Into(c, p, from, to) THEN m[Source(c, p)] ELSE m[p]
  BY DEF Copied

LEMMA CopiedIsImage ==
  ASSUME NEW c \in Calls, NEW m \in [Point -> Point], NEW from \in Nat, NEW to \in 0 .. c.w
  PROVE  Copied(m, c, from, to) \in [Point -> Point]
  <1>1. ASSUME NEW p \in Point
        PROVE  (IF Into(c, p, from, to) THEN m[Source(c, p)] ELSE m[p]) \in Point
    BY IntoWhole, SourceIsPoint
  <1> QED
    BY <1>1 DEF Copied

\* The result of a copy, point by point.
LEMMA ExactIs ==
  ASSUME NEW c \in Calls, NEW m \in [Point -> Point], NEW to \in 0 .. c.w,
         \A p \in Point : m[p] = IF Into(c, p, 0, to) THEN Source(c, p) ELSE p
  PROVE  m = Copied(Fresh, c, 0, to)
  <1>1. Copied(Fresh, c, 0, to) \in [Point -> Point]
    BY FreshIs, CopiedIsImage
  <1>2. ASSUME NEW p \in Point
        PROVE  m[p] = Copied(Fresh, c, 0, to)[p]
    <2>1. Copied(Fresh, c, 0, to)[p] =
            IF Into(c, p, 0, to) THEN Fresh[Source(c, p)] ELSE Fresh[p]
      BY FreshIs, CopiedIs
    <2>2. CASE Into(c, p, 0, to)
      <3>1. Source(c, p) \in Point
        BY <2>2, IntoWhole, SourceIsPoint
      <3> QED
        BY <2>1, <2>2, <3>1, FreshIs
    <2>3. CASE ~Into(c, p, 0, to)
      BY <2>1, <2>3, FreshIs
    <2> QED
      BY <2>2, <2>3
  <1> QED
    BY <1>1, <1>2

LEMMA ExactIsBack ==
  ASSUME NEW c \in Calls, NEW to \in 0 .. c.w, NEW p \in Point
  PROVE  Copied(Fresh, c, 0, to)[p] = IF Into(c, p, 0, to) THEN Source(c, p) ELSE p
  <1>1. Copied(Fresh, c, 0, to)[p] =
          IF Into(c, p, 0, to) THEN Fresh[Source(c, p)] ELSE Fresh[p]
    BY FreshIs, CopiedIs
  <1>2. CASE Into(c, p, 0, to)
    <2>1. Source(c, p) \in Point
      BY <1>2, IntoWhole, SourceIsPoint
    <2> QED
      BY <1>1, <1>2, <2>1, FreshIs
  <1>3. CASE ~Into(c, p, 0, to)
    BY <1>1, <1>3, FreshIs
  <1> QED
    BY <1>2, <1>3

LEMMA NothingCopied ==
  ASSUME NEW c \in Calls
  PROVE  Copied(Fresh, c, 0, 0) = Fresh
  <1>1. Copied(Fresh, c, 0, 0) \in [Point -> Point]
    BY FreshIs, CopiedIsImage, CallBounds
  <1>2. ASSUME NEW p \in Point PROVE Copied(Fresh, c, 0, 0)[p] = Fresh[p]
    <2>1. ~Into(c, p, 0, 0)
      BY CallBounds, PointBounds DEF Into
    <2> QED
      BY <2>1, FreshIs, ExactIsBack, CallBounds
  <1> QED
    BY <1>1, <1>2, FreshIs

\* A further part is exact, if it reads nothing the first parts have written.
LEMMA NextPartIsExact ==
  ASSUME NEW c \in Calls, NEW from \in 0 .. c.w, NEW to \in from .. c.w,
         \A p \in Point : Into(c, p, from, to) => ~Into(c, Source(c, p), 0, from)
  PROVE  Copied(Copied(Fresh, c, 0, from), c, from, to) = Copied(Fresh, c, 0, to)
  <1> DEFINE m == Copied(Fresh, c, 0, from)
             n == Copied(m, c, from, to)
  <1>0. from \in Nat /\ to \in Nat /\ from \in 0 .. c.w /\ to \in 0 .. c.w
    BY CallBounds
  <1>1. m \in [Point -> Point]
    BY <1>0, FreshIs, CopiedIsImage
  <1>2. \A p \in Point : m[p] = IF Into(c, p, 0, from) THEN Source(c, p) ELSE p
    BY <1>0, ExactIsBack
  <1> HIDE DEF m
  <1>3. n \in [Point -> Point]
    BY <1>0, <1>1, CopiedIsImage
  <1>4. ASSUME NEW p \in Point
        PROVE  n[p] = IF Into(c, p, 0, to) THEN Source(c, p) ELSE p
    <2>1. n[p] = IF Into(c, p, from, to) THEN m[Source(c, p)] ELSE m[p]
      BY <1>1, CopiedIs
    <2>2. Into(c, p, 0, to) <=> Into(c, p, 0, from) \/ Into(c, p, from, to)
      BY <1>0, CallBounds, PointBounds DEF Into
    <2>3. CASE Into(c, p, from, to)
      <3>1. Source(c, p) \in Point
        BY <1>0, <2>3, IntoWhole, SourceIsPoint
      <3>2. m[Source(c, p)] = Source(c, p)
        BY <1>2, <2>3, <3>1
      <3> QED
        BY <2>1, <2>2, <2>3, <3>2
    <2>4. CASE ~Into(c, p, from, to)
      BY <1>2, <2>1, <2>2, <2>4
    <2> QED
      BY <2>3, <2>4
  <1> HIDE DEF n
  <1>5. n = Copied(Fresh, c, 0, to)
    BY <1>0, <1>3, <1>4, ExactIs
  <1> QED
    BY <1>5 DEF m, n

-----------------------------------------------------------------------------
(***************************************************************************)
(* The copy in three parts.                                                *)
(***************************************************************************)

\* The parts follow on one another and make up the copy.
LEMMA CutBounds ==
  ASSUME NEW c \in Calls, NEW i \in 1 .. 3
  PROVE  /\ Cut(c, 1) = 0 /\ Cut(c, 4) = c.w
         /\ Cut(c, i) \in 0 .. c.w
         /\ Cut(c, i + 1) \in Cut(c, i) .. c.w
  <1> DEFINE left == c.src_x % 2
             half == (c.w - left) \div 2
  <1>1. c.w \in Nat \ {0} /\ c.src_x \in Nat
    BY CallBounds
  <1>2. left \in 0 .. 1
    BY <1>1
  <1>3. half \in Nat /\ 2 * half <= c.w - left
    BY <1>1, <1>2
  <1>4. Cut(c, 1) = 0 /\ Cut(c, 2) = left /\ Cut(c, 3) = left + 2 * half /\ Cut(c, 4) = c.w
    BY DEF Cut
  <1> HIDE DEF left, half
  <1>5. CASE i = 1
    BY <1>1, <1>2, <1>4, <1>5
  <1>6. CASE i = 2
    BY <1>1, <1>2, <1>3, <1>4, <1>6
  <1>7. CASE i = 3
    BY <1>1, <1>2, <1>3, <1>4, <1>7
  <1> QED
    BY <1>5, <1>6, <1>7

\* A part reads to the right of what the parts before it have written, unless
\* it moves pixels to the right.
LEMMA PartReadsAhead ==
  ASSUME NEW c \in Calls, NEW from \in 0 .. c.w, NEW to \in from .. c.w,
         c.src_x >= c.dst_x \/ Disjoint(c)
  PROVE  \A p \in Point : Into(c, p, from, to) => ~Into(c, Source(c, p), 0, from)
  <1> SUFFICES ASSUME NEW p \in Point, Into(c, p, from, to)
               PROVE  ~Into(c, Source(c, p), 0, from)
    OBVIOUS
  <1>0. from \in Nat /\ to \in 0 .. c.w
    BY CallBounds
  <1>1. Into(c, p, 0, c.w)
    BY <1>0, IntoWhole
  <1>2. Source(c, p) \in Point /\ Source(c, p).x = p.x - c.dst_x + c.src_x
    BY <1>1, SourceIsPoint
  <1>3. CASE c.src_x >= c.dst_x
    BY <1>0, <1>2, <1>3, CallBounds, PointBounds DEF Into
  <1>4. CASE Disjoint(c)
    <2>1. ~Into(c, Source(c, p), 0, c.w)
      BY <1>1, <1>4, DisjointSource
    <2> QED
      BY <1>0, <1>2, <2>1, IntoWhole
  <1> QED
    BY <1>3, <1>4

\* What G2D is asked for, it copies whatever overlaps.
LEMMA WorthIt ==
  ASSUME NEW c, G2dWorthIt(c)
  PROVE  /\ Same(c)
         /\ \A m, from, to : G2dBitblt(m, c, from, to) = Copied(m, c, from, to)
  BY DEF G2dWorthIt, OnScreen, Same, G2dBitblt

-----------------------------------------------------------------------------
(***************************************************************************)
(* The walk over rows and runs.                                            *)
(***************************************************************************)

\* A safe walk does not read what it has written: the source of a pixel that is
\* still to come is not past.
LEMMA SafeWalkReadsAhead ==
  ASSUME NEW c \in Calls, NEW s \in Scans, Safe(c, s), NEW p \in Point,
         Into(c, p, 0, c.w), ~Past(c, s, p),
         RowOf(c, s, p) = s.row
  PROVE  ~Past(c, s, Source(c, p))
  <1> DEFINE q == Source(c, p)
  <1>1. /\ q \in Point /\ q.of = c.src
        /\ q.x = p.x - c.dst_x + c.src_x /\ q.y = p.y - c.dst_y + c.src_y
    BY SourceIsPoint
  <1> HIDE DEF q
  <1>2. s.row \in Nat /\ s.col \in Nat /\ s.up \in BOOLEAN /\ s.back \in BOOLEAN
    BY DEF Scans
  <1>3. SUFFICES ASSUME Past(c, s, q) PROVE FALSE
    BY DEF q
  <1>4. Same(c)
    BY <1>1, <1>3 DEF Past, Into, Same
  <1>5. CASE c.src_y < c.dst_y /\ s.up
    BY <1>1, <1>2, <1>3, <1>5, CallBounds, PointBounds DEF Past, RowOf, ColOf, Into
  <1>6. CASE c.src_y > c.dst_y /\ ~s.up
    BY <1>1, <1>2, <1>3, <1>6, CallBounds, PointBounds DEF Past, RowOf, ColOf, Into
  <1>7. CASE /\ c.src_y = c.dst_y
             /\ c.src_x < c.dst_x => s.back
             /\ c.src_x > c.dst_x => ~s.back
    <2>1. RowOf(c, s, q) = RowOf(c, s, p)
      BY <1>1, <1>7, CallBounds, PointBounds DEF RowOf
    <2>2. ColOf(c, s, q) < s.col /\ ColOf(c, s, p) >= s.col
      BY <1>1, <1>2, <1>3, <2>1, CallBounds, PointBounds DEF Past, RowOf, ColOf
    <2> QED
      BY <1>1, <1>2, <1>7, <2>2, CallBounds, PointBounds DEF ColOf
  <1>8. CASE c.dst_y - c.src_y >= c.h
    BY <1>1, <1>3, <1>8, CallBounds, PointBounds DEF Past, Into
  <1> QED
    BY <1>4, <1>5, <1>6, <1>7, <1>8 DEF Safe

\* A run is not empty and ends with the row.
LEMMA RunBounds ==
  ASSUME NEW c \in Calls, NEW s \in Scans, call = c, scan = s, s.col \in 0 .. c.w - 1
  PROVE  Run \in 1 .. c.w - s.col
  <1> DEFINE left == c.w - s.col
  <1>1. left \in Nat \ {0} /\ s.run \in Nat \ {0}
    BY CallBounds DEF Scans
  <1>2. left % s.run \in 0 .. s.run - 1 /\ left % s.run <= left
    BY <1>1
  <1>3. Run = IF s.back /\ left % s.run # 0 THEN left % s.run
              ELSE IF left < s.run THEN left ELSE s.run
    BY DEF Run
  <1> HIDE DEF left
  <1>4. Run \in 1 .. left
    BY <1>1, <1>2, <1>3
  <1> QED
    BY <1>4 DEF left

\* After a run the walk is past what it was past before, and past the run.
LEMMA RunPasses ==
  ASSUME NEW c \in Calls, NEW s \in Scans, NEW t \in Scans, NEW n \in Nat \ {0},
         s.row \in 0 .. c.h - 1, s.col \in 0 .. c.w - 1, n <= c.w - s.col,
         t.up = s.up, t.back = s.back,
         IF s.col + n < c.w THEN t.row = s.row /\ t.col = s.col + n
                            ELSE t.row = s.row + 1 /\ t.col = 0,
         NEW p \in Point
  PROVE  /\ Past(c, t, p) <=> Past(c, s, p) \/ InRun(c, s, n, p)
         /\ InRun(c, s, n, p) =>
              Into(c, p, 0, c.w) /\ ~Past(c, s, p) /\ RowOf(c, s, p) = s.row
  <1>1. RowOf(c, t, p) = RowOf(c, s, p) /\ ColOf(c, t, p) = ColOf(c, s, p)
    BY DEF RowOf, ColOf
  <1>2. s.row \in Nat /\ s.col \in Nat /\ t.row \in Nat /\ t.col \in Nat
    BY DEF Scans
  <1>3. RowOf(c, s, p) \in Int /\ ColOf(c, s, p) \in Int
    BY CallBounds, PointBounds DEF RowOf, ColOf
  <1>4. InRun(c, s, n, p) <=> /\ Into(c, p, 0, c.w)
                              /\ RowOf(c, s, p) = s.row
                              /\ ColOf(c, s, p) \in s.col .. s.col + n - 1
    <2>1. p.y - c.dst_y \in Int /\ p.x - c.dst_x \in Int /\ c.h \in Int
      BY CallBounds, PointBounds
    <2>2. (p.y - c.dst_y = IF s.up THEN c.h - 1 - s.row ELSE s.row) <=> RowOf(c, s, p) = s.row
      BY <1>2, <2>1 DEF RowOf
    <2> QED
      BY <2>2 DEF InRun, ColOf
  <1>5. Into(c, p, 0, c.w) => ColOf(c, s, p) \in 0 .. c.w - 1
    BY CallBounds, PointBounds DEF Into, ColOf
  <1>6. CASE s.col + n < c.w
    <2>1. t.row = s.row /\ t.col = s.col + n
      BY <1>6
    <2> QED
      BY <1>1, <1>2, <1>3, <1>4, <1>5, <2>1 DEF Past
  <1>7. CASE ~(s.col + n < c.w)
    <2>1. t.row = s.row + 1 /\ t.col = 0 /\ s.col + n = c.w
      BY <1>2, <1>7, CallBounds
    <2> QED
      BY <1>1, <1>2, <1>3, <1>4, <1>5, <2>1, CallBounds DEF Past
  <1> QED
    BY <1>6, <1>7

\* At the beginning the walk is past nothing, at the end past everything.
LEMMA PastEnds ==
  ASSUME NEW c \in Calls, NEW s \in Scans, s.col = 0, NEW p \in Point
  PROVE  /\ s.row = 0 => ~Past(c, s, p)
         /\ s.row = c.h => (Past(c, s, p) <=> Into(c, p, 0, c.w))
  BY CallBounds, PointBounds DEF Past, RowOf, ColOf, Into, Scans

-----------------------------------------------------------------------------
(***************************************************************************)
(* overlapped_blt compares addresses.  A rectangle is no wider than a row  *)
(* of the image, so that addresses tell how the rectangles overlap.        *)
(***************************************************************************)

\* Multiplication by a number of pixels in a row keeps the order.
LEMMA RowsApart ==
  ASSUME NEW n \in Nat \ {0}, NEW a \in Int, NEW b \in Int, a < b
  PROVE  a * n + n <= b * n
  <1>1. PICK d \in Nat : b = a + 1 + d
    <2>1. b - a - 1 \in Nat /\ b = a + 1 + (b - a - 1)
      OBVIOUS
    <2> QED
      BY <2>1
  <1>2. b * n = a * n + n + d * n
    BY <1>1
  <1>3. d * n \in Nat
    BY <1>1
  <1>4. a * n \in Int /\ b * n \in Int
    OBVIOUS
  <1> QED
    BY <1>2, <1>3, <1>4

\* The walk of overlapped_blt is safe.
LEMMA CpuWalkIsSafe ==
  ASSUME NEW c \in Calls, NEW s \in Scans, s.up = RowsUp(c), s.back = MoveBack(c)
  PROVE  Safe(c, s)
  <1> SUFFICES ASSUME Same(c)
               PROVE  \/ c.src_y < c.dst_y /\ s.up
                      \/ c.src_y > c.dst_y /\ ~s.up
                      \/ /\ c.src_y = c.dst_y
                         /\ c.src_x < c.dst_x => s.back
                         /\ c.src_x > c.dst_x => ~s.back
                      \/ c.dst_y - c.src_y >= c.h
    BY DEF Safe
  <1> DEFINE z == IF c.dst = "screen" THEN 0 ELSE Stride * Height
             sy == c.src_y * Stride
             dy == c.dst_y * Stride
             hs == c.h * Stride
  <1>1. z \in Int /\ sy \in Int /\ dy \in Int /\ hs \in Int
    BY CallBounds
  <1>2. SrcBytes(c) = z + sy + c.src_x /\ DstBytes(c) = z + dy + c.dst_x
    BY DEF Same, SrcBytes, DstBytes, Address
  <1>3. Stride * c.h = hs
    BY CallBounds
  <1>4. c.src_y < c.dst_y => sy + Stride <= dy
    BY RowsApart, CallBounds
  <1>5. c.dst_y < c.src_y => dy + Stride <= sy
    BY RowsApart, CallBounds
  <1>6. c.src_y = c.dst_y => sy = dy
    OBVIOUS
  <1>7. c.dst_y - c.src_y < c.h => dy + Stride <= sy + hs
    <2>1. (c.src_y + c.h) * Stride = sy + hs
      BY CallBounds
    <2>2. c.dst_y < c.src_y + c.h => dy + Stride <= (c.src_y + c.h) * Stride
      BY RowsApart, CallBounds
    <2> QED
      BY <2>1, <2>2, CallBounds
  <1> HIDE DEF z, sy, dy, hs
  <1>8. s.up <=> /\ z + sy + c.src_x < z + dy + c.dst_x + c.w
                 /\ z + sy + c.src_x + hs > z + dy + c.dst_x
    BY <1>2, <1>3 DEF RowsUp
  <1>9. s.back <=> ~(z + sy + c.src_x > z + dy + c.dst_x)
    BY <1>2 DEF MoveBack
  <1>10. CASE c.src_y < c.dst_y
    BY <1>1, <1>4, <1>7, <1>8, <1>10, CallBounds
  <1>11. CASE c.src_y > c.dst_y
    BY <1>1, <1>5, <1>8, <1>11, CallBounds
  <1>12. CASE c.src_y = c.dst_y
    BY <1>1, <1>6, <1>9, <1>12, CallBounds
  <1> QED
    BY <1>10, <1>11, <1>12, CallBounds

-----------------------------------------------------------------------------
(***************************************************************************)
(* The steps of a copy.                                                    *)
(***************************************************************************)

LEMMA CallInProgress ==
  ASSUME TypeOK, at # "idle"
  PROVE  call \in Calls
  BY NoCallAssumption DEF TypeOK

\* Before the first pixel there is nothing a retry would have to keep.
LEMMA FreshIsUntouched ==
  ASSUME NEW c
  PROVE  Untouched(Fresh, c)
  BY FreshIs DEF Untouched

\* What is right of an image that is exact, or as it was.
LEMMA CopiedIsUntouched ==
  ASSUME NEW c \in Calls, NEW to \in 0 .. c.w
  PROVE  Untouched(Copied(Fresh, c, 0, to), c)
  BY ExactIsBack, IntoWhole, CallBounds DEF Untouched

\* A copy is asked for when none is being made.
LEMMA RequestSteps ==
  ASSUME ChainInv, NEW c \in Calls, Request(c)
  PROVE  ChainInv'
  <1>1. /\ at = "idle" /\ at' = "blt" /\ call' = c
        /\ UNCHANGED <<driver, part, scan, image, torn>>
        /\ image = Fresh /\ ~torn /\ part = 1 /\ TypeOK
    BY DEF Request, ChainInv, Before
  <1>2. TypeOK'
    BY <1>1, NoCallAssumption DEF TypeOK
  <1>3. Before' /\ InParts' /\ Failed' /\ InRows' /\ CopyIsExact' /\ RetryIsExact'
    BY <1>1 DEF Before, InParts, Failed, InRows, CopyIsExact, RetryIsExact, Fresh
  <1> QED
    BY <1>2, <1>3 DEF ChainInv

LEMMA ReturnSteps ==
  ASSUME ChainInv, Return
  PROVE  ChainInv'
  <1>1. /\ at' = "idle" /\ call' = NoCall /\ driver' = driver
        /\ part' = 1 /\ scan' = Idle /\ image' = Fresh /\ torn' = FALSE /\ TypeOK
    BY DEF Return, ChainInv
  <1>2. TypeOK'
    <2>1. Idle \in Scans
      BY DEF Idle, Scans
    <2>2. /\ driver' \in Drivers /\ call' \in Calls \cup {NoCall}
          /\ part' \in 1 .. 3 /\ scan' \in Scans
          /\ image' \in [Point -> Point]
      BY <1>1, <2>1, FreshIs DEF TypeOK
    <2>3. torn' \in BOOLEAN /\ at' = "idle"
      BY <1>1
    <2> QED
      BY <1>1, <2>2, <2>3 DEF TypeOK
  <1>3. Before' /\ InParts' /\ Failed' /\ InRows' /\ CopyIsExact' /\ RetryIsExact'
    BY <1>1 DEF Before, InParts, Failed, InRows, CopyIsExact, RetryIsExact, Fresh
  <1> QED
    BY <1>2, <1>3 DEF ChainInv

\* A fallback to the CPU backend, or to the caller, before the first pixel.
LEMMA FallbackSteps ==
  ASSUME ChainInv, at \in {"blt", "cpu"}, NEW place \in {"cpu", "caller"}, Goto(place)
  PROVE  ChainInv'
  <1>1. /\ at' = place /\ UNCHANGED <<driver, call, part, scan, image, torn>>
        /\ image = Fresh /\ ~torn /\ part = 1 /\ TypeOK
    BY DEF Goto, ChainInv, Before
  <1>2. TypeOK'
    BY <1>1 DEF TypeOK
  <1>3. Failed'
    BY <1>1, FreshIsUntouched DEF Failed, Untouched, Fresh, Into
  <1>4. Before' /\ InParts' /\ InRows' /\ CopyIsExact' /\ RetryIsExact'
    BY <1>1 DEF Before, InParts, InRows, CopyIsExact, RetryIsExact, Fresh
  <1> QED
    BY <1>2, <1>3, <1>4 DEF ChainInv

LEMMA G2dInThreeSteps ==
  ASSUME ChainInv, G2dInThree
  PROVE  ChainInv'
  <1>1. /\ at = "blt" /\ at' = "three"
        /\ UNCHANGED <<driver, call, part, scan, image, torn>>
        /\ image = Fresh /\ ~torn /\ part = 1 /\ TypeOK
        /\ driver.backend = "g2d" /\ G2dWorthIt(call) /\ InThree(call)
    BY DEF G2dInThree, Goto, ChainInv, Before
  <1>2. TypeOK'
    BY <1>1 DEF TypeOK
  <1>3. call \in Calls
    BY <1>1, CallInProgress
  <1>4. image = Copied(Fresh, call, 0, Cut(call, part))
    BY <1>1, <1>3, NothingCopied, CutBounds
  <1>5. Untouched(image, call)
    BY <1>1, FreshIsUntouched
  <1>6. InParts'
    <2>1. Copied(Fresh, call, 0, Cut(call, part))' = Copied(Fresh, call, 0, Cut(call, part))
      BY <1>1 DEF Copied, Fresh, Cut, Into, Source
    <2>2. Untouched(image, call)' /\ G2dWorthIt(call)' /\ InThree(call)'
      BY <1>1, <1>5 DEF Untouched, Into, G2dWorthIt, InThree, OnScreen, Unsupported, Same
    <2> QED
      BY <1>1, <1>4, <2>1, <2>2 DEF InParts
  <1>7. Before' /\ Failed' /\ InRows' /\ CopyIsExact' /\ RetryIsExact'
    BY <1>1 DEF Before, Failed, InRows, CopyIsExact, RetryIsExact
  <1> QED
    BY <1>2, <1>6, <1>7 DEF ChainInv

\* One call of a backend makes the whole copy, or none of it.
LEMMA WholeCopySteps ==
  ASSUME ChainInv, at = "blt", NEW ok \in BOOLEAN,
         at' = IF ok THEN "done" ELSE "caller",
         image' = IF ok THEN Copied(image, call, 0, call.w) ELSE image,
         UNCHANGED <<driver, call, part, scan, torn>>
  PROVE  ChainInv'
  <1>1. image = Fresh /\ ~torn /\ part = 1 /\ TypeOK
    BY DEF ChainInv, Before
  <1>2. call \in Calls /\ call.w \in 0 .. call.w /\ 0 \in Nat
    BY <1>1, CallInProgress, CallBounds
  <1>3. Copied(Fresh, call, 0, call.w) \in [Point -> Point]
    BY <1>2, FreshIs, CopiedIsImage
  <1>4. TypeOK'
    BY <1>1, <1>2, <1>3, NoCallAssumption DEF TypeOK
  <1>5. CASE ok
    <2>1. at' = "done" /\ image' = Copied(Fresh, call, 0, call.w)
      BY <1>1, <1>5
    <2>2. Exact'
      BY <2>1 DEF Exact
    <2>3. Before' /\ InParts' /\ Failed' /\ InRows' /\ CopyIsExact' /\ RetryIsExact'
      BY <2>1, <2>2 DEF Before, InParts, Failed, InRows, CopyIsExact, RetryIsExact
    <2> QED
      BY <1>4, <2>3 DEF ChainInv
  <1>6. CASE ~ok
    <2>1. at' = "caller" /\ image' = Fresh
      BY <1>1, <1>6
    <2>2. Failed'
      BY <2>1, FreshIsUntouched DEF Failed, Untouched, Into
    <2>3. Before' /\ InParts' /\ InRows' /\ CopyIsExact' /\ RetryIsExact'
      BY <2>1 DEF Before, InParts, InRows, CopyIsExact, RetryIsExact
    <2> QED
      BY <1>4, <2>2, <2>3 DEF ChainInv
  <1> QED
    BY <1>5, <1>6

LEMMA G2dBlitSteps ==
  ASSUME ChainInv, NEW ok \in BOOLEAN, G2dBlit(ok)
  PROVE  ChainInv'
  <1>1. G2dBitblt(image, call, 0, call.w) = Copied(image, call, 0, call.w)
    BY WorthIt DEF G2dBlit
  <1> QED
    BY <1>1, WholeCopySteps DEF G2dBlit

LEMMA CopyareaSteps ==
  ASSUME ChainInv, NEW ok \in BOOLEAN, Copyarea(ok)
  PROVE  ChainInv'
  BY WholeCopySteps DEF Copyarea

\* A part of the copy in three: the image has the columns of the parts made so
\* far, and a failure before the first pixel leaves it as it was.
LEMMA BlitPartSteps ==
  ASSUME ChainInv, NEW ok \in BOOLEAN, BlitPart(ok)
  PROVE  ChainInv'
  <1> DEFINE from == Cut(call, part)
             to == Cut(call, part + 1)
             good == ~SplitToTheRight(call) \/ Disjoint(call)
  <1>1. /\ at = "three" /\ TypeOK /\ part \in 1 .. 3
        /\ driver.backend = "g2d" /\ G2dWorthIt(call) /\ InThree(call) /\ ~torn
        /\ good => image = Copied(Fresh, call, 0, from)
        /\ Disjoint(call) => Untouched(image, call)
    BY DEF BlitPart, ChainInv, InParts, TypeOK
  <1>2. /\ at' = AfterPart(ok) /\ part' = PartAfter(ok)
        /\ image' = IF ok /\ from < to THEN G2dBitblt(image, call, from, to) ELSE image
        /\ torn' <=> (~ok /\ from > 0)
        /\ torn' \in BOOLEAN
        /\ UNCHANGED <<driver, call, scan>>
    BY DEF BlitPart
  <1>3. call \in Calls /\ image \in [Point -> Point]
    BY <1>1, CallInProgress DEF TypeOK
  <1>4. /\ Cut(call, 1) = 0 /\ Cut(call, 4) = call.w
        /\ from \in 0 .. call.w /\ to \in from .. call.w
        /\ call.w \in Nat /\ from \in Nat /\ to \in 0 .. call.w
    BY <1>1, <1>3, CutBounds, CallBounds
  <1>c. SplitToTheRight(call)' = SplitToTheRight(call) /\ Disjoint(call)' = Disjoint(call)
        /\ G2dWorthIt(call)' = G2dWorthIt(call) /\ InThree(call)' = InThree(call)
    BY <1>2 DEF SplitToTheRight, Disjoint, G2dWorthIt, InThree, OnScreen, Unsupported, Same
  <1>5. G2dBitblt(image, call, from, to) = Copied(image, call, from, to)
    BY <1>1, WorthIt
  <1>6. ~SplitToTheRight(call) => call.src_x >= call.dst_x
    BY <1>1, <1>3, CallBounds DEF SplitToTheRight
  <1>7. ASSUME good, ok
        PROVE  image' = Copied(Fresh, call, 0, to)
    <2>1. CASE from = to
      BY <1>1, <1>2, <1>4, <1>7, <2>1
    <2>2. CASE from # to
      <3>1. image' = Copied(Copied(Fresh, call, 0, from), call, from, to)
        BY <1>1, <1>2, <1>4, <1>5, <1>7, <2>2
      <3>2. call.src_x >= call.dst_x \/ Disjoint(call)
        BY <1>6, <1>7
      <3> QED
        BY <1>3, <1>4, <3>1, <3>2, PartReadsAhead, NextPartIsExact
    <2> QED
      BY <2>1, <2>2
  <1> HIDE DEF from, to, good
  <1>8. image' \in [Point -> Point]
    BY <1>2, <1>3, <1>4, <1>5, CopiedIsImage
  <1>9. at' \in {"three", "caller", "done"} /\ part' \in 1 .. 3 /\ torn' \in BOOLEAN
    <2>1. at' \in {"three", "caller", "done"} /\ part' \in 1 .. 3
      BY <1>1, <1>2 DEF AfterPart, PartAfter
    <2> QED
      BY <1>2, <2>1
  <1>10. TypeOK'
    <2>1. call # NoCall /\ driver' \in Drivers /\ call' \in Calls /\ scan' \in Scans
      BY <1>2, <1>3, <1>1, NoCallAssumption DEF TypeOK
    <2> QED
      BY <1>2, <1>8, <1>9, <2>1 DEF TypeOK
  <1>11. CASE ok /\ part < 3
    <2>1. at' = "three" /\ part' = part + 1 /\ ~torn'
      BY <1>1, <1>2, <1>11 DEF AfterPart, PartAfter
    <2>2. good => image' = Copied(Fresh, call, 0, to)
      BY <1>7, <1>11
    <2>3. Disjoint(call) => Untouched(Copied(Fresh, call, 0, to), call)
      BY <1>3, <1>4, CopiedIsUntouched
    <2>4. Disjoint(call) => Untouched(image', call)
      BY <2>2, <2>3 DEF good
    <2>5. InParts'
      <3>1. Copied(Fresh, call, 0, Cut(call, part))' = Copied(Fresh, call, 0, to)
        BY <1>2, <2>1 DEF Copied, Fresh, Cut, Into, Source, to
      <3>2. Untouched(image, call)' <=> Untouched(image', call)
        BY <1>2 DEF Untouched, Into
      <3> QED
        BY <1>1, <1>2, <1>c, <2>1, <2>2, <2>4, <3>1, <3>2 DEF InParts, good
    <2>6. Before' /\ Failed' /\ InRows' /\ CopyIsExact' /\ RetryIsExact'
      BY <2>1 DEF Before, Failed, InRows, CopyIsExact, RetryIsExact
    <2> QED
      BY <1>10, <2>5, <2>6 DEF ChainInv
  <1>12. CASE ok /\ ~(part < 3)
    <2>1. at' = "done" /\ to = call.w
      BY <1>1, <1>2, <1>4, <1>12 DEF AfterPart, to
    <2>2. good => image' = Copied(Fresh, call, 0, call.w)
      BY <1>7, <1>12, <2>1
    <2>3. good => Exact'
      BY <1>2, <2>2 DEF Exact, Copied, Fresh, Into, Source
    <2>4. CopyIsExact' /\ RetryIsExact'
      BY <1>c, <2>3 DEF CopyIsExact, RetryIsExact, good
    <2>5. Before' /\ InParts' /\ Failed' /\ InRows'
      BY <2>1 DEF Before, InParts, Failed, InRows
    <2> QED
      BY <1>10, <2>4, <2>5 DEF ChainInv
  <1>13. CASE ~ok
    <2>1. at' = "caller" /\ image' = image
      BY <1>2, <1>13 DEF AfterPart
    <2>2. Whole' => from = 0 /\ ~SplitToTheRight(call)
      BY <1>2, <1>4, <1>13, <1>c DEF Whole
    <2>3. Whole' => image' = Fresh
      BY <1>1, <1>3, <2>1, <2>2, NothingCopied DEF good
    <2>4. Failed'
      <3>1. Untouched(image, call)' <=> Untouched(image', call)
        BY <1>2 DEF Untouched, Into
      <3>2. Fresh' = Fresh
        BY DEF Fresh
      <3> QED
        BY <1>1, <1>c, <2>1, <2>3, <3>1, <3>2 DEF Failed
    <2>5. Before' /\ InParts' /\ InRows' /\ CopyIsExact' /\ RetryIsExact'
      BY <2>1 DEF Before, InParts, InRows, CopyIsExact, RetryIsExact
    <2> QED
      BY <1>10, <2>4, <2>5 DEF ChainInv
  <1> QED
    BY <1>11, <1>12, <1>13

\* The walk begins: it is past nothing.
LEMMA WalkSteps ==
  ASSUME ChainInv, at \in {"blt", "cpu", "caller"}, NEW s \in Scans,
         s.row = 0, s.col = 0, Safe(call, s),
         at' = "rows", scan' = s, UNCHANGED <<driver, call, part, image, torn>>
  PROVE  ChainInv'
  <1>1. TypeOK
    BY DEF ChainInv
  <1>2. call \in Calls
    BY <1>1, CallInProgress
  <1>3. /\ Whole => image = Fresh
        /\ Disjoint(call) => Untouched(image, call)
    <2>1. CASE at = "caller"
      BY <2>1 DEF ChainInv, Failed
    <2>2. CASE at \in {"blt", "cpu"}
      BY <2>2, FreshIsUntouched DEF ChainInv, Before
    <2> QED
      BY <2>1, <2>2
  <1>4. TypeOK'
    BY <1>1, <1>2, NoCallAssumption DEF TypeOK
  <1>5. \A p \in Point : ~Past(call, s, p)
    BY <1>2, PastEnds
  <1>6. InRows'
    <2>1. s.row \in 0 .. call.h /\ s.col \in 0 .. call.w - 1 /\ (s.row = call.h => s.col = 0)
      BY <1>2, CallBounds
    <2>2. Whole => \A p \in Point : image[p] = IF Past(call, s, p) THEN Source(call, p) ELSE p
      BY <1>3, <1>5, FreshIs
    <2>3. Disjoint(call) => /\ Untouched(image, call)
                            /\ \A p \in Point : Past(call, s, p) => image[p] = Source(call, p)
      BY <1>3, <1>5
    <2>4. /\ Whole' = Whole /\ Disjoint(call)' = Disjoint(call)
          /\ Untouched(image, call)' = Untouched(image, call)
          /\ Safe(call, scan)' = Safe(call, s)
      BY DEF Whole, SplitToTheRight, Disjoint, G2dWorthIt, InThree, OnScreen, Unsupported, Same,
             Untouched, Into, Safe
    <2>5. \A p \in Point : /\ Past(call, scan, p)' = Past(call, s, p)
                           /\ Source(call, p)' = Source(call, p)
      BY DEF Past, Into, RowOf, ColOf, Source
    <2> QED
      BY <2>1, <2>2, <2>3, <2>4, <2>5 DEF InRows
  <1>7. Before' /\ InParts' /\ Failed' /\ CopyIsExact' /\ RetryIsExact'
    BY DEF Before, InParts, Failed, CopyIsExact, RetryIsExact
  <1> QED
    BY <1>4, <1>6, <1>7 DEF ChainInv

LEMMA CpuBltSteps ==
  ASSUME ChainInv, CpuBlt
  PROVE  ChainInv'
  <1> DEFINE s == [up |-> RowsUp(call), back |-> MoveBack(call), run |-> Scratch,
                   row |-> 0, col |-> 0]
  <1>1. /\ at \in {"blt", "cpu"} /\ at' = "rows" /\ scan' = s
        /\ UNCHANGED <<driver, call, part, image, torn>> /\ TypeOK
    BY DEF CpuBlt, InCpu, Walk, ChainInv
  <1>2. call \in Calls
    BY <1>1, CallInProgress
  <1>3. RowsUp(call) \in BOOLEAN /\ MoveBack(call) \in BOOLEAN
    BY DEF RowsUp, MoveBack
  <1>4. s \in Scans
    BY <1>3, BlitChainAssumption DEF Scans
  <1>5. s.row = 0 /\ s.col = 0 /\ s.up = RowsUp(call) /\ s.back = MoveBack(call)
    OBVIOUS
  <1> HIDE DEF s
  <1>6. Safe(call, s)
    BY <1>2, <1>4, <1>5, CpuWalkIsSafe
  <1> QED
    BY <1>1, <1>4, <1>5, <1>6, WalkSteps

\* pixman_blt is only asked where its way through the rows is safe.
LEMMA PixmanBltSteps ==
  ASSUME ChainInv, PixmanBlt
  PROVE  ChainInv'
  <1> DEFINE s == [up |-> FALSE, back |-> FALSE, run |-> 1, row |-> 0, col |-> 0]
  <1>1. /\ at = "caller" /\ at' = "rows" /\ scan' = s
        /\ UNCHANGED <<driver, call, part, image, torn>> /\ TypeOK
        /\ ~Reverse(call) /\ ~Upsidedown(call)
    BY DEF PixmanBlt, Walk, ChainInv
  <1>2. call \in Calls
    BY <1>1, CallInProgress
  <1>3. s \in Scans /\ s.row = 0 /\ s.col = 0 /\ ~s.up /\ ~s.back
    BY DEF Scans
  <1> HIDE DEF s
  <1>4. Safe(call, s)
    BY <1>1, <1>2, <1>3, CallBounds DEF Safe, Reverse, Upsidedown
  <1> QED
    BY <1>1, <1>3, <1>4, WalkSteps

\* fbBlt is told the way.
LEMMA FbBltSteps ==
  ASSUME ChainInv, FbBlt
  PROVE  ChainInv'
  <1> DEFINE s == [up |-> Upsidedown(call), back |-> Reverse(call), run |-> 1,
                   row |-> 0, col |-> 0]
  <1>1. /\ at = "caller" /\ at' = "rows" /\ scan' = s
        /\ UNCHANGED <<driver, call, part, image, torn>> /\ TypeOK
    BY DEF FbBlt, Walk, ChainInv
  <1>2. call \in Calls
    BY <1>1, CallInProgress
  <1>3. Upsidedown(call) \in BOOLEAN /\ Reverse(call) \in BOOLEAN
    BY DEF Upsidedown, Reverse
  <1>4. s \in Scans
    BY <1>3 DEF Scans
  <1>5. s.row = 0 /\ s.col = 0 /\ s.up = Upsidedown(call) /\ s.back = Reverse(call)
    OBVIOUS
  <1> HIDE DEF s
  <1>6. Safe(call, s)
    <2>1. (s.up <=> Upsidedown(call)) /\ (s.back <=> Reverse(call))
      BY <1>5
    <2> QED
      BY <1>2, <2>1, CallBounds DEF Safe, Reverse, Upsidedown
  <1> QED
    BY <1>1, <1>4, <1>5, <1>6, WalkSteps

\* A run is read before any of it is written, and after nothing it reads.
LEMMA CopyRunSteps ==
  ASSUME ChainInv, CopyRun
  PROVE  ChainInv'
  <1> DEFINE n == Run
             t == scan'
             m == image'
  <1>1. /\ at = "rows" /\ at' = "rows" /\ scan.row < call.h /\ TypeOK
        /\ UNCHANGED <<driver, call, at, part, torn>>
        /\ Safe(call, scan)
        /\ scan.row \in 0 .. call.h /\ scan.col \in 0 .. call.w - 1
        /\ Whole => \A p \in Point :
                      image[p] = IF Past(call, scan, p) THEN Source(call, p) ELSE p
        /\ Disjoint(call) =>
             /\ Untouched(image, call)
             /\ \A p \in Point : Past(call, scan, p) => image[p] = Source(call, p)
    BY DEF CopyRun, ChainInv, InRows
  <1>2. call \in Calls /\ scan \in Scans /\ image \in [Point -> Point]
    BY <1>1, CallInProgress DEF TypeOK
  <1>3. n \in 1 .. call.w - scan.col
    BY <1>1, <1>2, RunBounds
  <1>4. m = [p \in Point |-> IF InRun(call, scan, n, p)
                             THEN image[Source(call, p)] ELSE image[p]]
    BY DEF CopyRun
  <1>5. t = IF scan.col + n < call.w
            THEN [scan EXCEPT !.col = scan.col + n]
            ELSE [scan EXCEPT !.row = scan.row + 1, !.col = 0]
    BY DEF CopyRun
  <1>n. call.w \in Nat \ {0} /\ call.h \in Nat \ {0}
        /\ scan.row \in Nat /\ scan.col \in Nat
    BY <1>2, CallBounds DEF Scans
  <1> HIDE DEF n, t, m
  <1>6. /\ t \in Scans /\ t.up = scan.up /\ t.back = scan.back
        /\ IF scan.col + n < call.w THEN t.row = scan.row /\ t.col = scan.col + n
                                    ELSE t.row = scan.row + 1 /\ t.col = 0
    <2>1. CASE scan.col + n < call.w
      <3>1. t = [scan EXCEPT !.col = scan.col + n]
        BY <1>5, <2>1
      <3> QED
        BY <1>2, <1>3, <1>n, <2>1, <3>1 DEF Scans
    <2>2. CASE ~(scan.col + n < call.w)
      <3>1. t = [scan EXCEPT !.row = scan.row + 1, !.col = 0]
        BY <1>5, <2>2
      <3> QED
        <4>1. scan.row + 1 \in Nat /\ 0 \in Nat
          BY <1>n
        <4>2. \A r \in Nat, k \in Nat : [scan EXCEPT !.row = r, !.col = k] \in Scans
          BY <1>2 DEF Scans
        <4>3. t.row = scan.row + 1 /\ t.col = 0 /\ t.up = scan.up /\ t.back = scan.back
          BY <1>2, <3>1 DEF Scans
        <4> QED
          BY <2>2, <3>1, <4>1, <4>2, <4>3
    <2> QED
      BY <2>1, <2>2
  <1>7. ASSUME NEW p \in Point
        PROVE  /\ Past(call, t, p) <=> Past(call, scan, p) \/ InRun(call, scan, n, p)
               /\ InRun(call, scan, n, p) =>
                    /\ Into(call, p, 0, call.w) /\ ~Past(call, scan, p)
                    /\ RowOf(call, scan, p) = scan.row
    <2>1. n \in Nat \ {0} /\ n <= call.w - scan.col /\ scan.row \in 0 .. call.h - 1
      BY <1>1, <1>3, <1>n
    <2> QED
      BY <1>1, <1>2, <1>6, <2>1, RunPasses
  <1>8. ASSUME NEW p \in Point, InRun(call, scan, n, p)
        PROVE  Source(call, p) \in Point /\ ~Past(call, scan, Source(call, p))
    BY <1>1, <1>2, <1>7, <1>8, SourceIsPoint, SafeWalkReadsAhead
  <1>9. m \in [Point -> Point]
    BY <1>2, <1>4, <1>8
  <1>10. \A p \in Point : m[p] = IF InRun(call, scan, n, p)
                                 THEN image[Source(call, p)] ELSE image[p]
    BY <1>4
  <1>11. Whole => \A p \in Point : m[p] = IF Past(call, t, p) THEN Source(call, p) ELSE p
    BY <1>1, <1>7, <1>8, <1>10
  <1>12. ASSUME Disjoint(call)
         PROVE  /\ Untouched(m, call)
                /\ \A p \in Point : Past(call, t, p) => m[p] = Source(call, p)
    <2>1. Untouched(m, call)
      BY <1>1, <1>7, <1>10, <1>12 DEF Untouched
    <2>2. ASSUME NEW p \in Point, InRun(call, scan, n, p)
          PROVE  image[Source(call, p)] = Source(call, p)
      BY <1>1, <1>2, <1>7, <1>8, <1>12, <2>2, DisjointSource DEF Untouched
    <2>3. \A p \in Point : Past(call, t, p) => m[p] = Source(call, p)
      BY <1>1, <1>7, <1>10, <1>12, <2>2
    <2> QED
      BY <2>1, <2>3
  <1>13. TypeOK'
    BY <1>1, <1>2, <1>6, <1>9 DEF TypeOK, t, m
  <1>14. InRows'
    <2>1. /\ t.row \in 0 .. call.h /\ t.col \in 0 .. call.w - 1
          /\ t.row = call.h => t.col = 0
      BY <1>1, <1>3, <1>6, <1>n
    <2>2. Safe(call, t)
      BY <1>1, <1>6 DEF Safe
    <2>3. /\ Whole' = Whole /\ Disjoint(call)' = Disjoint(call)
          /\ Untouched(image, call)' = Untouched(m, call)
          /\ Safe(call, scan)' = Safe(call, t)
      BY <1>1 DEF Whole, SplitToTheRight, Disjoint, G2dWorthIt, InThree, OnScreen, Unsupported,
                  Same, Untouched, Into, Safe, m, t
    <2>4. \A p \in Point : /\ Past(call, scan, p)' = Past(call, t, p)
                           /\ Source(call, p)' = Source(call, p)
      BY <1>1 DEF Past, Into, RowOf, ColOf, Source, t
    <2>5. scan' = t /\ image' = m
      BY DEF t, m
    <2> QED
      BY <1>1, <1>11, <1>12, <2>1, <2>2, <2>3, <2>4, <2>5 DEF InRows
  <1>15. Before' /\ InParts' /\ Failed' /\ CopyIsExact' /\ RetryIsExact'
    BY <1>1 DEF Before, InParts, Failed, CopyIsExact, RetryIsExact
  <1> QED
    BY <1>13, <1>14, <1>15 DEF ChainInv

\* When the walk is past every row, the copy is exact.
LEMMA RowsDoneSteps ==
  ASSUME ChainInv, RowsDone
  PROVE  ChainInv'
  <1>1. /\ at = "rows" /\ at' = "done" /\ scan.row = call.h /\ scan.col = 0 /\ TypeOK
        /\ UNCHANGED <<driver, call, part, scan, image, torn>>
        /\ Whole => \A p \in Point :
                      image[p] = IF Past(call, scan, p) THEN Source(call, p) ELSE p
        /\ Disjoint(call) =>
             /\ Untouched(image, call)
             /\ \A p \in Point : Past(call, scan, p) => image[p] = Source(call, p)
    BY DEF RowsDone, Goto, ChainInv, InRows
  <1>2. call \in Calls /\ scan \in Scans /\ image \in [Point -> Point]
        /\ call.w \in 0 .. call.w
    BY <1>1, CallInProgress, CallBounds DEF TypeOK
  <1>3. \A p \in Point : Past(call, scan, p) <=> Into(call, p, 0, call.w)
    BY <1>1, <1>2, PastEnds
  <1>4. ASSUME Whole \/ Disjoint(call)
        PROVE  Exact
    <2>1. \A p \in Point : image[p] = IF Into(call, p, 0, call.w) THEN Source(call, p) ELSE p
      BY <1>1, <1>3, <1>4 DEF Untouched
    <2> QED
      BY <1>2, <2>1, ExactIs DEF Exact
  <1>5. TypeOK'
    BY <1>1, <1>2, NoCallAssumption DEF TypeOK
  <1>6. CopyIsExact' /\ RetryIsExact'
    <2>1. Exact' <=> Exact
      BY <1>1 DEF Exact, Copied, Fresh, Into, Source
    <2>2. Disjoint(call)' <=> Disjoint(call)
      BY <1>1 DEF Disjoint, Same
    <2>3. SplitToTheRight(call)' <=> SplitToTheRight(call)
      BY <1>1 DEF SplitToTheRight, G2dWorthIt, InThree, OnScreen, Unsupported, Same
    <2> QED
      BY <1>1, <1>4, <2>1, <2>2, <2>3 DEF CopyIsExact, RetryIsExact, Whole
  <1>7. Before' /\ InParts' /\ Failed' /\ InRows'
    BY <1>1 DEF Before, InParts, Failed, InRows
  <1> QED
    BY <1>5, <1>6, <1>7 DEF ChainInv

\* Every step of a copy keeps what is known of the image, and the backend.
LEMMA ChainSteps ==
  ASSUME ChainInv, Next
  PROVE  ChainInv' /\ driver' = driver
  <1>1. CASE \E c \in Calls : Request(c)
    BY <1>1, RequestSteps DEF Request
  <1>2. CASE G2dFallback
    BY <1>2, FallbackSteps DEF G2dFallback, Goto
  <1>3. CASE G2dInThree
    BY <1>3, G2dInThreeSteps DEF G2dInThree, Goto
  <1>4. CASE CopyareaFallback
    BY <1>4, FallbackSteps DEF CopyareaFallback, Goto
  <1>5. CASE \E ok \in BOOLEAN : G2dBlit(ok)
    BY <1>5, G2dBlitSteps DEF G2dBlit
  <1>6. CASE \E ok \in BOOLEAN : BlitPart(ok)
    BY <1>6, BlitPartSteps DEF BlitPart
  <1>7. CASE \E ok \in BOOLEAN : Copyarea(ok)
    BY <1>7, CopyareaSteps DEF Copyarea
  <1>8. CASE CpuFails
    BY <1>8, FallbackSteps DEF CpuFails, InCpu, Goto
  <1>9. CASE CpuBlt
    BY <1>9, CpuBltSteps DEF CpuBlt, Walk
  <1>10. CASE CopyRun
    BY <1>10, CopyRunSteps DEF CopyRun
  <1>11. CASE RowsDone
    BY <1>11, RowsDoneSteps DEF RowsDone, Goto
  <1>12. CASE PixmanBlt
    BY <1>12, PixmanBltSteps DEF PixmanBlt, Walk
  <1>13. CASE FbBlt
    BY <1>13, FbBltSteps DEF FbBlt, Walk
  <1>14. CASE Return
    BY <1>14, ReturnSteps DEF Return
  <1> QED
    BY <1>1, <1>2, <1>3, <1>4, <1>5, <1>6, <1>7, <1>8, <1>9, <1>10, <1>11, <1>12, <1>13, <1>14
       DEF Next, Step

-----------------------------------------------------------------------------
(***************************************************************************)
(* The backend: what the Init functions leave open.                        *)
(***************************************************************************)

\* What an Init function owes its caller: what the structure holds is open, and
\* a descriptor that is open is held.
Settled(r) ==
  /\ r.holds \subseteq r.open /\ r.open \subseteq Kinds
  /\ \A d \in Descriptors : d \in r.open => d \in r.holds

LEMMA OpenedBeforeIsKinds ==
  ASSUME NEW calls, NEW fault
  PROVE  OpenedBefore(calls, fault) \subseteq Kinds
  BY DEF OpenedBefore

LEMMA SunxiDispSettles ==
  ASSUME NEW fault, NEW g2d \in BOOLEAN
  PROVE  /\ Settled(SunxiDispInit(fault, g2d))
         /\ "/dev/g2d" \in SunxiDispInit(fault, g2d).holds
              => "/dev/disp" \in SunxiDispInit(fault, g2d).holds
  <1> DEFINE ks == OpenedBefore(SunxiCalls, fault) \ (IF fbmem THEN {"mapping"} ELSE {})
             holds == IF g2d THEN ks \cup {"/dev/g2d"} ELSE ks
             r == SunxiDispInit(fault, g2d)
  <1>1. ks \subseteq Kinds /\ holds \subseteq Kinds
    BY OpenedBeforeIsKinds DEF Kinds, Descriptors
  <1>2. fault = "none" => "/dev/disp" \in ks
    <2>1. 2 \in DOMAIN SunxiCalls /\ SunxiCalls[2] = "/dev/disp"
          /\ \A k \in 1 .. 2 : SunxiCalls[k] # "none"
      BY DEF SunxiCalls
    <2>2. "/dev/disp" \in Kinds /\ "/dev/disp" # "mapping"
      BY DEF Kinds, Descriptors
    <2> QED
      BY <2>1, <2>2 DEF OpenedBefore
  <1>3. r = IF fault = "none" THEN [holds |-> holds, open |-> holds]
            ELSE [holds |-> {}, open |-> StillOpen(ks)]
    BY DEF SunxiDispInit
  <1> HIDE DEF ks, r
  <1>4. CASE fault = "none"
    <2>1. r.holds = holds /\ r.open = holds
      BY <1>3, <1>4
    <2> QED
      BY <1>1, <1>2, <1>4, <2>1 DEF Settled, r
  <1>5. CASE fault # "none"
    <2>1. r.holds = {} /\ r.open = ks \ Descriptors
      BY <1>3, <1>5 DEF StillOpen
    <2> QED
      BY <1>1, <2>1 DEF Settled, r
  <1> QED
    BY <1>4, <1>5

LEMMA FbCopyareaSettles ==
  ASSUME NEW fault
  PROVE  /\ Settled(FbCopyareaInit(fault))
         /\ FbCopyareaInit(fault).holds # {} => "copyarea" \in FbCopyareaInit(fault).holds
  <1> DEFINE ks == OpenedBefore(CopyareaCalls, fault)
             r == FbCopyareaInit(fault)
  <1>1. ks \subseteq Kinds
    BY OpenedBeforeIsKinds
  <1>2. fault = "none" => "copyarea" \in ks
    <2>1. 1 \in DOMAIN CopyareaCalls /\ CopyareaCalls[1] = "copyarea"
          /\ \A k \in 1 .. 1 : CopyareaCalls[k] # "none"
      BY DEF CopyareaCalls
    <2>2. "copyarea" \in Kinds
      BY DEF Kinds, Descriptors
    <2> QED
      BY <2>1, <2>2 DEF OpenedBefore
  <1>3. r = IF fault = "none" THEN [holds |-> ks, open |-> ks]
            ELSE [holds |-> {}, open |-> StillOpen(ks)]
    BY DEF FbCopyareaInit
  <1> HIDE DEF ks, r
  <1>4. CASE fault = "none"
    <2>1. r.holds = ks /\ r.open = ks
      BY <1>3, <1>4
    <2> QED
      BY <1>1, <1>2, <1>4, <2>1 DEF Settled, r
  <1>5. CASE fault # "none"
    <2>1. r.holds = {} /\ r.open = ks \ Descriptors
      BY <1>3, <1>5 DEF StillOpen
    <2> QED
      BY <1>1, <2>1 DEF Settled, r
  <1> QED
    BY <1>4, <1>5

LEMMA NotTriedSettles == Settled(NotTried) /\ NotTried.holds = {}
  BY DEF NotTried, Settled

\* The backend that is chosen is there.
LEMMA ChosenIsThere ==
  ASSUME NEW sunxi, NEW area, NEW method, NEW vfp \in BOOLEAN
  PROVE  /\ Chosen(sunxi, area, method, vfp) \in {"none", "g2d", "copyarea", "cpu"}
         /\ Chosen(sunxi, area, method, vfp) = "g2d" => "/dev/g2d" \in sunxi
         /\ Chosen(sunxi, area, method, vfp) = "copyarea" => area # {}
         /\ Chosen(sunxi, area, method, vfp) = "cpu" => fbmem
  BY DEF Chosen

\* A generation of the server begins: nothing was held before it.
LEMMA ScreenInitSteps ==
  ASSUME IInv, ScreenInit
  PROVE  IInv'
  <1>1. PICK fault \in {SunxiCalls[i] : i \in DOMAIN SunxiCalls}, g2d \in BOOLEAN, vfp \in BOOLEAN,
             fault2 \in {CopyareaCalls[i] : i \in DOMAIN CopyareaCalls},
             method \in {"unset", "g2d", "copyarea", "other"} :
          LET sunxi == SunxiDispInit(fault, g2d)
              area == IF sunxi.holds = {} /\ fbmem THEN FbCopyareaInit(fault2) ELSE NotTried
              backend == Chosen(sunxi.holds, area.holds, method, vfp)
          IN /\ screen' = [up |-> TRUE, sunxi_disp |-> sunxi.holds,
                           fb_copyarea |-> area.holds, backend |-> backend]
             /\ opened' = Opening(opened, sunxi.open \cup area.open)
             /\ driver' \in IF backend = "none" THEN {driver}
                            ELSE {d \in Drivers : d.backend = backend /\ d.bpp = driver.bpp}
    BY DEF ScreenInit
  <1> DEFINE sunxi == SunxiDispInit(fault, g2d)
             area == IF sunxi.holds = {} /\ fbmem THEN FbCopyareaInit(fault2) ELSE NotTried
             backend == Chosen(sunxi.holds, area.holds, method, vfp)
  <1>2. /\ screen' = [up |-> TRUE, sunxi_disp |-> sunxi.holds,
                      fb_copyarea |-> area.holds, backend |-> backend]
        /\ opened' = Opening(opened, sunxi.open \cup area.open)
        /\ driver' \in IF backend = "none" THEN {driver}
                       ELSE {d \in Drivers : d.backend = backend /\ d.bpp = driver.bpp}
    BY <1>1
  <1>3. Settled(sunxi) /\ ("/dev/g2d" \in sunxi.holds => "/dev/disp" \in sunxi.holds)
    BY SunxiDispSettles
  <1>4. /\ Settled(area)
        /\ area.holds # {} => "copyarea" \in area.holds /\ fbmem
    BY FbCopyareaSettles, NotTriedSettles
  <1>5. /\ backend \in {"none", "g2d", "copyarea", "cpu"}
        /\ backend = "g2d" => "/dev/g2d" \in sunxi.holds
        /\ backend = "copyarea" => area.holds # {}
        /\ backend = "cpu" => fbmem
    BY ChosenIsThere
  <1> HIDE DEF sunxi, area, backend
  <1>6. /\ ~screen.up /\ screen = Down /\ at = "idle"
        /\ UNCHANGED <<call, at, part, scan, image, torn, fbmem>>
        /\ \A k \in Kinds : opened'[k] <= MaxOpen
        /\ ChainInv /\ AccelTypeOK /\ DescriptorsHaveOwner /\ MaxOpen \in Nat \ {0}
    BY AccelerationAssumption DEF ScreenInit, IInv, Ready
  <1>7. driver' \in Drivers /\ (backend # "none" => driver'.backend = backend)
    BY <1>2, <1>6 DEF AccelTypeOK, TypeOK
  <1>8. ChainInv'
    <2>1. TypeOK'
      BY <1>6, <1>7 DEF AccelTypeOK, TypeOK
    <2>2. Before'
      BY <1>6 DEF ChainInv, Before, Fresh
    <2>3. InParts' /\ Failed' /\ InRows' /\ CopyIsExact' /\ RetryIsExact'
      BY <1>6 DEF InParts, Failed, InRows, CopyIsExact, RetryIsExact
    <2> QED
      BY <2>1, <2>2, <2>3 DEF ChainInv
  <1>9. /\ screen'.up = TRUE /\ screen'.sunxi_disp = sunxi.holds
        /\ screen'.fb_copyarea = area.holds /\ screen'.backend = backend
    BY <1>2
  <1>10. \A k \in Kinds : opened'[k] = IF k \in sunxi.open \cup area.open
                                      THEN opened[k] + 1 ELSE opened[k]
    BY <1>2 DEF Opening
  <1>11. \A k \in Kinds : opened[k] \in Nat
    BY <1>6 DEF AccelTypeOK
  <1>12. AccelTypeOK'
    <2>1. screen' \in [up : BOOLEAN, sunxi_disp : SUBSET Kinds, fb_copyarea : SUBSET Kinds,
                       backend : {"none", "g2d", "copyarea", "cpu"}]
      BY <1>2, <1>3, <1>4, <1>5 DEF Settled
    <2>2. opened' \in [Kinds -> 0 .. MaxOpen]
      <3>1. \A k \in Kinds : opened'[k] \in 0 .. MaxOpen
        BY <1>6, <1>10, <1>11
      <3>2. opened' = [k \in Kinds |-> opened'[k]]
        BY <1>2 DEF Opening
      <3> QED
        BY <3>1, <3>2
    <2>3. TypeOK' /\ fbmem' \in BOOLEAN
      BY <1>6, <1>8 DEF ChainInv, AccelTypeOK
    <2> QED
      BY <2>1, <2>2, <2>3 DEF AccelTypeOK
  <1>13. Owned'
    <2>1. \A k \in sunxi.holds \union area.holds : k \in Kinds /\ k \in sunxi.open \union area.open
      BY <1>3, <1>4 DEF Settled
    <2>2. \A k \in sunxi.holds \union area.holds : opened'[k] >= 1
      BY <1>10, <1>11, <2>1
    <2> QED
      BY <1>9, <2>2 DEF Owned, Held
  <1>14. DescriptorsHaveOwner'
    <2>1. \A d \in Descriptors : opened[d] = 0
      BY <1>6 DEF DescriptorsHaveOwner, Down
    <2>2. \A d \in Descriptors : d \in Kinds /\
            (d \in sunxi.open \union area.open <=> d \in sunxi.holds \union area.holds)
      BY <1>3, <1>4 DEF Settled, Kinds
    <2>3. \A d \in Descriptors :
            opened'[d] = IF d \in sunxi.holds \union area.holds THEN 1 ELSE 0
      BY <1>10, <2>1, <2>2
    <2> QED
      BY <1>9, <2>3 DEF DescriptorsHaveOwner
  <1>15. Ready'
    BY <1>3, <1>4, <1>5, <1>6, <1>7, <1>9 DEF Ready
  <1> QED
    BY <1>8, <1>12, <1>13, <1>14, <1>15 DEF IInv

\* What the structures hold is closed, and nothing else is.
LEMMA CloseScreenSteps ==
  ASSUME IInv, CloseScreen
  PROVE  IInv'
  <1>1. /\ screen.up /\ at = "idle" /\ screen' = Down
        /\ opened' = Closing(opened, Held)
        /\ UNCHANGED <<driver, call, at, part, scan, image, torn, fbmem>>
        /\ ChainInv /\ AccelTypeOK /\ DescriptorsHaveOwner /\ Owned
        /\ MaxOpen \in Nat \ {0}
    BY AccelerationAssumption DEF CloseScreen, IInv, Held, vars
  <1>2. ChainInv'
    <2>1. TypeOK'
      BY <1>1 DEF AccelTypeOK, TypeOK
    <2>2. Before'
      BY <1>1 DEF ChainInv, Before, Fresh
    <2>3. InParts' /\ Failed' /\ InRows' /\ CopyIsExact' /\ RetryIsExact'
      BY <1>1 DEF InParts, Failed, InRows, CopyIsExact, RetryIsExact
    <2> QED
      BY <2>1, <2>2, <2>3 DEF ChainInv
  <1>3. /\ Held' = {} /\ screen'.up = FALSE /\ screen'.backend = "none"
        /\ screen'.sunxi_disp = {} /\ screen'.fb_copyarea = {}
    BY <1>1 DEF Held, Down
  <1>4. \A k \in Kinds : /\ opened[k] \in 0 .. MaxOpen
                         /\ k \in Held => opened[k] >= 1
                         /\ opened'[k] = IF k \in Held THEN opened[k] - 1 ELSE opened[k]
    BY <1>1 DEF AccelTypeOK, Owned, Closing
  <1>5. AccelTypeOK'
    <2>1. screen' \in [up : BOOLEAN, sunxi_disp : SUBSET Kinds, fb_copyarea : SUBSET Kinds,
                       backend : {"none", "g2d", "copyarea", "cpu"}]
      BY <1>1 DEF Down
    <2>2. opened' \in [Kinds -> 0 .. MaxOpen]
      <3>1. \A k \in Kinds : opened'[k] \in 0 .. MaxOpen
        BY <1>1, <1>4
      <3>2. opened' = [k \in Kinds |-> opened'[k]]
        BY <1>1 DEF Closing
      <3> QED
        BY <3>1, <3>2
    <2>3. TypeOK' /\ fbmem' \in BOOLEAN
      BY <1>1, <1>2 DEF ChainInv, AccelTypeOK
    <2> QED
      BY <2>1, <2>2, <2>3 DEF AccelTypeOK
  <1>6. Owned'
    BY <1>3 DEF Owned
  <1>7. DescriptorsHaveOwner'
    <2>1. \A d \in Descriptors : d \in Kinds /\ opened[d] = IF d \in Held THEN 1 ELSE 0
      BY <1>1 DEF DescriptorsHaveOwner, Held, Kinds
    <2>2. \A d \in Descriptors : opened'[d] = 0
      BY <1>4, <2>1
    <2> QED
      BY <1>3, <2>2 DEF DescriptorsHaveOwner, Held
  <1>8. Ready'
    BY <1>1, <1>3 DEF Ready
  <1> QED
    BY <1>2, <1>5, <1>6, <1>7, <1>8 DEF IInv

\* A step of a copy changes nothing the structures hold.
LEMMA BlitSteps ==
  ASSUME IInv, Blit
  PROVE  IInv'
  <1>1. ChainInv' /\ driver' = driver
    BY ChainSteps DEF IInv, Blit
  <1>2. UNCHANGED <<fbmem, screen, opened>> /\ screen.backend # "none"
    BY DEF Blit
  <1>3. AccelTypeOK'
    BY <1>1, <1>2 DEF IInv, AccelTypeOK, ChainInv
  <1>4. Owned' /\ DescriptorsHaveOwner'
    BY <1>2 DEF IInv, Owned, Held, DescriptorsHaveOwner
  <1>5. Ready'
    <2>1. screen.up
      BY <1>2 DEF IInv, Ready, Down
    <2> QED
      BY <1>1, <1>2, <2>1 DEF IInv, Ready
  <1> QED
    BY <1>1, <1>3, <1>4, <1>5 DEF IInv

-----------------------------------------------------------------------------
(***************************************************************************)
(* The invariant and what follows.                                         *)
(***************************************************************************)

LEMMA InitHolds ==
  AccelInit => IInv
  <1> SUFFICES ASSUME AccelInit PROVE IInv
    OBVIOUS
  <1>1. /\ driver \in Drivers /\ call = NoCall /\ at = "idle" /\ part = 1 /\ scan = Idle
        /\ image = Fresh /\ torn = FALSE /\ fbmem \in BOOLEAN /\ screen = Down
        /\ opened = [k \in Kinds |-> 0] /\ MaxOpen \in Nat \ {0}
    BY AccelerationAssumption DEF AccelInit, Init
  <1>2. TypeOK
    <2>1. scan \in Scans /\ image \in [Point -> Point]
      <3>1. Idle \in Scans
        BY DEF Idle, Scans
      <3> QED
        BY <1>1, <3>1, FreshIs
    <2>2. part \in 1 .. 3 /\ torn \in BOOLEAN
      <3>1. part \in 1 .. 3
        BY <1>1
      <3>2. torn \in BOOLEAN
        BY <1>1, Zenon
      <3> QED
        BY <3>1, <3>2
    <2> QED
      BY <1>1, <2>1, <2>2 DEF TypeOK
  <1>3. ChainInv
    BY <1>1, <1>2 DEF ChainInv, Before, InParts, Failed, InRows, CopyIsExact, RetryIsExact
  <1>4. AccelTypeOK
    <2>1. screen \in [up : BOOLEAN, sunxi_disp : SUBSET Kinds, fb_copyarea : SUBSET Kinds,
                      backend : {"none", "g2d", "copyarea", "cpu"}]
      BY <1>1 DEF Down
    <2>2. opened \in [Kinds -> 0 .. MaxOpen]
      BY <1>1
    <2> QED
      BY <1>1, <1>2, <2>1, <2>2 DEF AccelTypeOK
  <1>5. Owned /\ DescriptorsHaveOwner /\ Ready
    BY <1>1 DEF Owned, Held, Down, DescriptorsHaveOwner, Ready, Kinds
  <1> QED
    BY <1>3, <1>4, <1>5 DEF IInv

LEMMA StutterHolds ==
  ASSUME IInv, UNCHANGED accelVars
  PROVE  IInv'
  <1>1. UNCHANGED <<driver, call, at, part, scan, image, torn, fbmem, screen, opened>>
    BY DEF accelVars, vars
  <1>2. TypeOK' /\ AccelTypeOK'
    BY <1>1 DEF IInv, AccelTypeOK, TypeOK
  <1>3. /\ Whole' = Whole /\ Disjoint(call)' = Disjoint(call) /\ Exact' = Exact
        /\ SplitToTheRight(call)' = SplitToTheRight(call)
        /\ G2dWorthIt(call)' = G2dWorthIt(call) /\ InThree(call)' = InThree(call)
        /\ Untouched(image, call)' = Untouched(image, call)
        /\ Safe(call, scan)' = Safe(call, scan)
        /\ Fresh' = Fresh
        /\ Copied(Fresh, call, 0, Cut(call, part))' = Copied(Fresh, call, 0, Cut(call, part))
    BY <1>1 DEF Whole, SplitToTheRight, Disjoint, G2dWorthIt, InThree, OnScreen, Unsupported,
                Same, Untouched, Into, Safe, Exact, Copied, Fresh, Source, Cut
  <1>4. \A p \in Point : /\ Past(call, scan, p)' = Past(call, scan, p)
                         /\ Source(call, p)' = Source(call, p)
    BY <1>1 DEF Past, Into, RowOf, ColOf, Source
  <1>5. Before' /\ InParts' /\ Failed'
    BY <1>1, <1>3 DEF IInv, ChainInv, Before, InParts, Failed
  <1>6. InRows'
    BY <1>1, <1>3, <1>4 DEF IInv, ChainInv, InRows
  <1>7. CopyIsExact' /\ RetryIsExact'
    BY <1>1, <1>3 DEF IInv, ChainInv, CopyIsExact, RetryIsExact
  <1>8. Owned' /\ DescriptorsHaveOwner' /\ Ready'
    BY <1>1 DEF IInv, Owned, Held, DescriptorsHaveOwner, Ready
  <1> QED
    BY <1>2, <1>5, <1>6, <1>7, <1>8 DEF IInv, ChainInv

\* What is known of a copy, and of the backend that makes it, holds in every
\* state.
THEOREM IInvHolds == AccelSpec => []IInv
  <1>1. IInv /\ [AccelNext]_accelVars => IInv'
    BY ScreenInitSteps, CloseScreenSteps, BlitSteps, StutterHolds DEF AccelNext
  <1> QED
    BY InitHolds, <1>1, PTL DEF AccelSpec

\* Type correctness, of the copies and of the backends.
THEOREM TypeCorrect == AccelSpec => []AccelTypeOK
  <1>1. IInv => AccelTypeOK
    BY DEF IInv
  <1> QED
    BY <1>1, IInvHolds, PTL

\* A copy that is done has moved every pixel of the rectangle and no other, in
\* whatever way source and destination overlap: through G2D, in three parts or
\* not, through copyarea, the runs of the CPU backend, pixman_blt and fbBlt, and
\* every fallback between them.
THEOREM CopyCorrect == AccelSpec => []CopyIsExact
  <1>1. IInv => CopyIsExact
    BY DEF IInv, ChainInv
  <1> QED
    BY <1>1, IInvHolds, PTL

\* A copy between places that have no pixel in common comes out right even if
\* a part of it fails after others were made, and the caller makes it again.
THEOREM RetryCorrect == AccelSpec => []RetryIsExact
  <1>1. IInv => RetryIsExact
    BY DEF IInv, ChainInv
  <1> QED
    BY <1>1, IInvHolds, PTL

\* Whichever calls of the Init functions fail, in every generation of the server:
\* a descriptor is open exactly if a structure holds it, and once.
THEOREM DescriptorsCorrect == AccelSpec => []DescriptorsHaveOwner
  <1>1. IInv => DescriptorsHaveOwner
    BY DEF IInv
  <1> QED
    BY <1>1, IInvHolds, PTL

\* A copy goes to the backend of this generation, and its device is open.
THEOREM BackendCorrect == AccelSpec => []BackendIsOpen
  <1>1. IInv => BackendIsOpen
    BY DEF IInv, Ready, BackendIsOpen
  <1> QED
    BY <1>1, IInvHolds, PTL
=============================================================================
