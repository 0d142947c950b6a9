------------------------------ MODULE BlitChain ------------------------------
(***************************************************************************)
(* How a rectangle of pixels is copied.  A 2D backend behind blt2d_i       *)
(* (sunxi G2D, the copyarea ioctl of fbdev, or the CPU backend) is tried   *)
(* first; each of the first two falls back to the CPU backend, and what    *)
(* none of them does is left to pixman_blt and fbBlt (sunxi_x_g2d.c).      *)
(* "A counterpart for pixman_blt, which supports overlapped copies": the   *)
(* hard part is that source and destination share memory, and that a copy  *)
(* is made in parts.                                                       *)
(*                                                                         *)
(* The screen is the framebuffer; any other pixmap is in system memory.    *)
(* Memory is not filled with colors but with origins: image holds, for     *)
(* each point, the point its pixel was at when the copy was asked for.     *)
(***************************************************************************)
EXTENDS Integers

CONSTANTS
  Stride,            \* pixels in a row
  Height,            \* rows of an image
  Widths, Heights,   \* sizes of the copies asked for
  Bpps,              \* bits per pixel, of the screen and of pixmaps
  Threshold,         \* G2D_BLT_SIZE_THRESHOLD, in pixels
  Threshold16,       \* G2D_BLT_SIZE_THRESHOLD_16BPP
  CopyareaThreshold, \* COPYAREA_BLT_SIZE_THRESHOLD
  Scratch,           \* SCRATCHSIZE, in pixels
  NoCall             \* no copy is being made

ASSUME BlitChainAssumption ==
  /\ Stride \in Nat \ {0} /\ Height \in Nat \ {0} /\ Scratch \in Nat \ {0}
  /\ Widths \subseteq Nat \ {0} /\ Heights \subseteq Nat \ {0}
  /\ Bpps \subseteq Nat
  /\ {Threshold, Threshold16, CopyareaThreshold} \subseteq Nat

VARIABLES
  driver,  \* the backend ScreenInit chose, and what it can do
  call,    \* the copy being made
  at,      \* the function it is in
  part,    \* the part of a copy in three that is next
  scan,    \* how rows are copied, and how much is done
  image,   \* where the pixels came from
  torn     \* a part was copied and another one failed (history)

vars == <<driver, call, at, part, scan, image, torn>>

Images == {"screen", "pixmap"}
Point == [of : Images, x : 0 .. Stride - 1, y : 0 .. Height - 1]

Drivers == {d \in [backend : {"g2d", "copyarea", "cpu"}, do_copyarea : BOOLEAN,
                   cpu : {"twopass", "noop"}, bpp : Bpps] :
              d.do_copyarea => d.backend = "copyarea"}

\* The destination and the source of a copy in an image of Stride by Height.
\* window: the call comes from CopyWindow, not from CopyArea.
Calls == {c \in [src : Images, dst : Images, bpp : Bpps, window : BOOLEAN,
                 src_x : 0 .. Stride - 1, src_y : 0 .. Height - 1,
                 dst_x : 0 .. Stride - 1, dst_y : 0 .. Height - 1,
                 w : Widths, h : Heights] :
            /\ c.src_x + c.w <= Stride /\ c.dst_x + c.w <= Stride
            /\ c.src_y + c.h <= Height /\ c.dst_y + c.h <= Height}

ASSUME NoCallAssumption == NoCall \notin Calls

Scans == [up : BOOLEAN, back : BOOLEAN, run : Nat \ {0}, row : Nat, col : Nat]

Fresh == [p \in Point |-> p]

TypeOK ==
  /\ driver \in Drivers /\ call \in Calls \cup {NoCall}
  /\ at \in {"idle", "blt", "three", "cpu", "caller", "rows", "done"}
  /\ (at = "idle") = (call = NoCall)
  /\ part \in 1 .. 3 /\ scan \in Scans
  /\ image \in [Point -> Point] /\ torn \in BOOLEAN

-----------------------------------------------------------------------------
(***************************************************************************)
(* What a copy means.                                                      *)
(***************************************************************************)
\* Is p one of the columns from .. to - 1 of the destination?
Into(c, p, from, to) ==
  /\ p.of = c.dst
  /\ p.x - c.dst_x \in from .. to - 1
  /\ p.y - c.dst_y \in 0 .. c.h - 1

Source(c, p) == [of |-> c.src, x |-> p.x - c.dst_x + c.src_x,
                               y |-> p.y - c.dst_y + c.src_y]

Copied(m, c, from, to) ==
  [p \in Point |-> IF Into(c, p, from, to) THEN m[Source(c, p)] ELSE m[p]]

Same(c) == c.src = c.dst

\* "Unsupported overlapping type": G2D reads what it has just written.
Unsupported(c) == Same(c) /\ c.src_y = c.dst_y /\ c.src_x + 1 < c.dst_x

\* One BITBLT: the rectangle with columns from .. to - 1 of the call's.
G2dBitblt(m, c, from, to) ==
  IF Unsupported(c)
  THEN [p \in Point |->
          IF Into(c, p, from, to)
          THEN m[[of |-> c.src, y |-> p.y,
                  x |-> c.src_x + from + ((p.x - c.dst_x - from) % (c.dst_x - c.src_x))]]
          ELSE m[p]]
  ELSE Copied(m, c, from, to)

-----------------------------------------------------------------------------
\* miCopyRegion, for one box: in which order rows and pixels must be walked.
Upsidedown(c) == Same(c) /\ c.src_y < c.dst_y
Reverse(c) == Same(c) /\ c.src_x < c.dst_x

Idle == [up |-> FALSE, back |-> FALSE, run |-> 1, row |-> 0, col |-> 0]

Init ==
  /\ driver \in Drivers
  /\ call = NoCall /\ at = "idle"
  /\ part = 1 /\ scan = Idle /\ image = Fresh /\ torn = FALSE

\* A box of a CopyArea (xCopyArea keeps other depths to itself) or a CopyWindow.
Request(c) ==
  /\ at = "idle"
  /\ "screen" \in {c.src, c.dst} => c.bpp = driver.bpp
  /\ ~c.window => c.bpp \in {16, 32}
  /\ c.window => Same(c)
  /\ call' = c /\ at' = "blt"
  /\ UNCHANGED <<driver, part, scan, image, torn>>

Return ==
  /\ at = "done"
  /\ call' = NoCall /\ at' = "idle"
  /\ part' = 1 /\ scan' = Idle /\ image' = Fresh /\ torn' = FALSE
  /\ UNCHANGED driver

Goto(place) == at' = place /\ UNCHANGED <<driver, call, part, scan, image, torn>>

-----------------------------------------------------------------------------
(***************************************************************************)
(* sunxi_g2d_blt.                                                          *)
(***************************************************************************)
OnScreen(c) == c.src = "screen" /\ c.dst = "screen"

G2dWorthIt(c) ==
  /\ OnScreen(c)
  /\ c.w * c.h >= IF c.bpp = 16 THEN Threshold16 ELSE Threshold
  /\ ~Unsupported(c)

\* "Do a 16-bit using 32-bit mode if possible."
InThree(c) ==
  /\ c.bpp = 16 /\ c.src_x % 2 = c.dst_x % 2
  /\ ~(Same(c) /\ c.src_y = c.dst_y /\ c.src_x < c.dst_x)

G2dFallback ==
  /\ at = "blt" /\ driver.backend = "g2d"
  /\ ~G2dWorthIt(call) \/ (~InThree(call) /\ call.bpp \notin {16, 32})
  /\ Goto("cpu")

G2dInThree ==
  /\ at = "blt" /\ driver.backend = "g2d"
  /\ G2dWorthIt(call) /\ InThree(call)
  /\ Goto("three")

G2dBlit(ok) ==
  /\ at = "blt" /\ driver.backend = "g2d"
  /\ G2dWorthIt(call) /\ ~InThree(call) /\ call.bpp \in {16, 32}
  /\ at' = IF ok THEN "done" ELSE "caller"
  /\ image' = IF ok THEN G2dBitblt(image, call, 0, call.w) ELSE image
  /\ UNCHANGED <<driver, call, part, scan, torn>>

\* sunxi_g2d_blit_r5g6b5_in_three: the left edge, the pairs of pixels in the
\* middle, the right edge.  Part i has the columns Cut(c, i) .. Cut(c, i + 1) - 1.
Cut(c, i) ==
  LET left == c.src_x % 2 IN
  CASE i = 1 -> 0
    [] i = 2 -> left
    [] i = 3 -> left + 2 * ((c.w - left) \div 2)
    [] OTHER -> c.w

\* Mutants: a fourth part; a failing ioctl that is reported as a finished copy.
PartBeyond(ok) == IF ok THEN part + 1 ELSE part
AfterPartIgnored(ok) == IF part = 3 \/ ~ok THEN "done" ELSE "three"

PartAfter(ok) == IF ok /\ part < 3 THEN part + 1 ELSE part

AfterPart(ok) ==
  IF ~ok THEN "caller" ELSE IF part = 3 THEN "done" ELSE "three"

BlitPart(ok) ==
  LET from == Cut(call, part)
      to == Cut(call, part + 1)
  IN /\ at = "three" /\ (from = to => ok)
     /\ at' = AfterPart(ok) /\ part' = PartAfter(ok)
     /\ image' = IF ok /\ from < to THEN G2dBitblt(image, call, from, to) ELSE image
     /\ torn' = (~ok /\ from > 0)
     /\ UNCHANGED <<driver, call, scan>>

-----------------------------------------------------------------------------
(***************************************************************************)
(* fb_copyarea_blt.  The kernel's copyarea copes with every overlap.       *)
(***************************************************************************)
CopyareaCan(c) ==
  driver.do_copyarea /\ OnScreen(c) /\ c.w * c.h >= CopyareaThreshold

CopyareaFallback ==
  /\ at = "blt" /\ driver.backend = "copyarea" /\ ~CopyareaCan(call)
  /\ Goto("cpu")

Copyarea(ok) ==
  /\ at = "blt" /\ driver.backend = "copyarea" /\ CopyareaCan(call)
  /\ at' = IF ok THEN "done" ELSE "caller"
  /\ image' = IF ok THEN Copied(image, call, 0, call.w) ELSE image
  /\ UNCHANGED <<driver, call, part, scan, torn>>

-----------------------------------------------------------------------------
(***************************************************************************)
(* The CPU backend: overlapped_blt, twopass_blt_8bpp and, for each row,    *)
(* twopass_memmove with a scratch buffer.                                  *)
(***************************************************************************)
\* An address counted in pixels; the pixmap is somewhere else.
Address(of, x, y) == (IF of = "screen" THEN 0 ELSE Stride * Height) + y * Stride + x

SrcBytes(c) == Address(c.src, c.src_x, c.src_y)
DstBytes(c) == Address(c.dst, c.dst_x, c.dst_y)

CpuCan(c) == driver.cpu = "twopass" /\ c.src = "screen" /\ c.bpp % 8 = 0

\* From the last row up, and in a row from the right?
RowsUp(c) ==
  /\ SrcBytes(c) < DstBytes(c) + c.w
  /\ SrcBytes(c) + Stride * c.h > DstBytes(c)

\* Mutant: twopass_memmove as a memcpy.
MoveForward(c) == FALSE

MoveBack(c) == ~(SrcBytes(c) > DstBytes(c))

InCpu == at = "cpu" \/ (at = "blt" /\ driver.backend = "cpu")

CpuFails ==
  /\ InCpu /\ ~CpuCan(call)
  /\ Goto("caller")

Walk(up, back, run) ==
  /\ at' = "rows"
  /\ scan' = [up |-> up, back |-> back, run |-> run, row |-> 0, col |-> 0]
  /\ UNCHANGED <<driver, call, part, image, torn>>

CpuBlt ==
  /\ InCpu /\ CpuCan(call)
  /\ Walk(RowsUp(call), MoveBack(call), Scratch)

\* The next run of a row: whole scratch buffers, and the remainder at the right
\* end, which is the first one from the right.
Run ==
  LET left == call.w - scan.col IN
  IF scan.back /\ left % scan.run # 0 THEN left % scan.run
  ELSE IF left < scan.run THEN left ELSE scan.run

InRun(c, s, n, p) ==
  /\ Into(c, p, 0, c.w)
  /\ p.y - c.dst_y = IF s.up THEN c.h - 1 - s.row ELSE s.row
  /\ LET i == p.x - c.dst_x IN
     IF s.back THEN c.w - 1 - i \in s.col .. s.col + n - 1
               ELSE i \in s.col .. s.col + n - 1

CopyRun ==
  /\ at = "rows" /\ scan.row < call.h
  /\ image' = [p \in Point |-> IF InRun(call, scan, Run, p)
                               THEN image[Source(call, p)] ELSE image[p]]
  /\ scan' = IF scan.col + Run < call.w
             THEN [scan EXCEPT !.col = scan.col + Run]
             ELSE [scan EXCEPT !.row = scan.row + 1, !.col = 0]
  /\ UNCHANGED <<driver, call, at, part, torn>>

RowsDone ==
  /\ at = "rows" /\ scan.row = call.h
  /\ Goto("done")

-----------------------------------------------------------------------------
(***************************************************************************)
(* xCopyNtoN and xCopyWindowProc, after the backend has failed.            *)
(***************************************************************************)
\* pixman_blt knows no overlap: it goes down the rows and to the right.
PixmanBlt ==
  /\ at = "caller" /\ ~call.window
  /\ ~Reverse(call) /\ ~Upsidedown(call)
  /\ Walk(FALSE, FALSE, 1)

\* pixman_blt may also refuse.
FbBlt ==
  /\ at = "caller"
  /\ Walk(Upsidedown(call), Reverse(call), 1)

Step ==
  \/ G2dFallback \/ G2dInThree \/ CopyareaFallback
  \/ \E ok \in BOOLEAN : G2dBlit(ok) \/ BlitPart(ok) \/ Copyarea(ok)
  \/ CpuFails \/ CpuBlt \/ CopyRun \/ RowsDone
  \/ PixmanBlt \/ FbBlt

Next == (at = "idle" /\ \E c \in Calls : Request(c)) \/ Step \/ Return

Spec == Init /\ [][Next]_vars

-----------------------------------------------------------------------------
Exact == image = Copied(Fresh, call, 0, call.w)

\* The copy in three moves its columns to the right: see OverlappedCopyIsExact.
SplitToTheRight(c) ==
  /\ driver.backend = "g2d" /\ G2dWorthIt(c) /\ InThree(c)
  /\ c.src_x < c.dst_x

\* Through every backend, every fallback and every failure before the first
\* pixel: a copy that is done has moved each pixel from its place in the source
\* to its place in the destination, as it was before the copy, and no other.
CopyIsExact ==
  at = "done" /\ ~torn /\ ~SplitToTheRight(call) => Exact

Disjoint(c) ==
  \/ ~Same(c)
  \/ c.src_x + c.w <= c.dst_x \/ c.dst_x + c.w <= c.src_x
  \/ c.src_y + c.h <= c.dst_y \/ c.dst_y + c.h <= c.src_y

\* When a copy in three fails after its first part, the caller makes the whole
\* copy again, on what is there now.  It comes out right if source and
\* destination have no pixel in common.
RetryIsExact == at = "done" /\ Disjoint(call) => Exact

\* What interfaces.h says of overlapped_blt, "A counterpart for pixman_blt, which
\* supports overlapped copies", of every overlap, the copy in three included.
OverlappedCopyIsExact == at = "done" /\ ~torn => Exact
=============================================================================
