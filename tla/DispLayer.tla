------------------------------ MODULE DispLayer ------------------------------
(***************************************************************************)
(* The overlay layer of sunxi_disp.c: what the driver remembers of it in   *)
(* sunxi_disp_t and what the display controller was last told.  Only the   *)
(* vertical axis is kept; every operator maps a layer to the layer that    *)
(* the function of the same purpose leaves.                                *)
(***************************************************************************)
EXTENDS Integers

CONSTANTS
  GfxLayerSize,     \* gfx_layer_size: the primary layer is memory 0 .. here
  FramebufferSize   \* framebuffer_size: the offscreen part ends here

ASSUME DispLayerAssumption ==
  GfxLayerSize \in Nat /\ FramebufferSize \in Nat /\ GfxLayerSize <= FramebufferSize

Span == [y : Int, h : Int]

\* The fake rectangle outside the screen (x = -1).
Nowhere == [y |-> 0, h |-> 0]

\* Memory the layer scans out; "none" is the setting of sunxi_layer_reserve.
Source == [kind : {"none", "dri2", "video"}, offset : Nat, size : Nat]

\* scaler, format, buf and win_y are the fields layer_* of sunxi_disp_t; the
\* rest is the controller's: the layer is open, it has a scaler, its memory, the
\* part of it that is shown and where, and the color key (the layer is below the
\* screen).  asked and denied are history: the last output window asked for, and
\* whether the last request for the scaler failed.
Layers == [scaler : BOOLEAN, format : {"rgb", "yuv"}, buf : Span, win_y : Int,
           open : BOOLEAN, scaled : BOOLEAN, source : Source, src : Span, scn : Span,
           keyed : BOOLEAN, asked : Span, denied : BOOLEAN]

\* sunxi_layer_reserve
Reserved ==
  [scaler |-> FALSE, format |-> "rgb", buf |-> Nowhere, win_y |-> 0,
   open |-> FALSE, scaled |-> FALSE,
   source |-> [kind |-> "none", offset |-> 0, size |-> 0],
   src |-> Nowhere, scn |-> Nowhere,
   keyed |-> FALSE, asked |-> Nowhere, denied |-> FALSE]

\* sunxi_layer_change_work_mode: the scaler may be in use elsewhere.
WithScaler(d, free) ==
  IF d.scaler THEN d
  ELSE [d EXCEPT !.scaler = free, !.scaled = free, !.denied = ~free]

WithoutScaler(d) == [d EXCEPT !.scaler = FALSE, !.scaled = FALSE]

Input(d, format, source, buf) ==
  [d EXCEPT !.format = format, !.source = source, !.buf = buf, !.src = buf]

SetRgbInput(d, source, h) ==
  Input(WithoutScaler(d), "rgb", source, [y |-> 0, h |-> h])

SetYuvInput(d, source, buf, free) ==
  LET scaled == WithScaler(d, free) IN
  IF scaled.scaler THEN Input(scaled, "yuv", source, buf) ELSE scaled

\* The rows of a window at y that are above the screen.
Above(y) == IF y < 0 THEN -y ELSE 0

\* Mutated form: the source is only adjusted for a window above the screen.
NeedsCutNow(d, y) == d.format = "yuv" /\ y < 0

\* Negative positions of video need the source adjusted, and so does the first
\* window that is back on the screen.
NeedsCut(d, y) == d.format = "yuv" /\ (y < 0 \/ d.win_y < 0)

SetOutputWindow(d, w) ==
  LET hidden == Above(w.y)
      skipped == (hidden * d.buf.h) \div w.h
      asked == [d EXCEPT !.asked = w]
      placed == [asked EXCEPT !.win_y = w.y, !.scn = w]
  IN CASE ~NeedsCut(d, w.y) -> placed
       [] NeedsCut(d, w.y) /\ (d.buf.h <= skipped \/ w.h <= hidden) ->
            [asked EXCEPT !.scn = Nowhere]
       [] OTHER ->
            [placed EXCEPT !.src = [y |-> d.buf.y + skipped, h |-> d.buf.h - skipped],
                           !.scn = [y |-> w.y + hidden, h |-> w.h - hidden]]

Show(d, free) ==
  [(IF d.format = "yuv" THEN WithScaler(d, free) ELSE d) EXCEPT !.open = TRUE]

\* Mutated form: the layer is only closed.
HideOnly(d) == [d EXCEPT !.open = FALSE]

Hide(d) == [WithoutScaler(d) EXCEPT !.open = FALSE]

SetColorKey(d) == [d EXCEPT !.keyed = TRUE]

DisableColorKey(d) == [d EXCEPT !.keyed = FALSE]
=============================================================================
