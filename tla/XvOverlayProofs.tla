-------------------------- MODULE XvOverlayProofs ---------------------------
(***************************************************************************)
(* Proofs about XvOverlay, for every size of the framebuffer and of the    *)
(* frames, every position and height of a window, and every color.         *)
(***************************************************************************)
EXTENDS XvOverlay, TLAPS

-----------------------------------------------------------------------------
(***************************************************************************)
(* The functions of sunxi_disp.c keep the type of the layer.               *)
(***************************************************************************)
\* Anything set_output_window may be asked for.
Window == [y : Int, h : Nat \ {0}]

\* The rows above the screen are a natural number.
LEMMA AboveType ==
  ASSUME NEW y \in Int
  PROVE  Above(y) \in Nat
BY DEF Above

\* Dividing by the height of a window.
LEMMA Quotient ==
  ASSUME NEW a \in Nat, NEW b \in Nat \ {0}
  PROVE  /\ a \div b \in Nat
         /\ a - (a \div b) * b \in 0 .. b - 1
  OBVIOUS

\* Cutting less than the whole window cuts less than the whole frame.
LEMMA SmallerCut ==
  ASSUME NEW hidden \in Nat, NEW size \in Nat \ {0}, NEW h \in Nat \ {0}, hidden < h
  PROVE  (hidden * size) \div h < size
<1> DEFINE a == hidden * size
<1>1. a \in Nat /\ a < size * h
  OBVIOUS
<1> HIDE DEF a
<1> DEFINE q == a \div h
<1>2. q \in Nat /\ a - q * h \in 0 .. h - 1
  BY <1>1, Quotient
<1> HIDE DEF q
<1>3. q * h <= a
  BY <1>1, <1>2
<1>4. q >= size => q * h >= size * h
  BY <1>2
<1>5. q < size
  BY <1>1, <1>2, <1>3, <1>4
<1>6. QED
  BY <1>5 DEF a, q

-----------------------------------------------------------------------------
\* The functions of sunxi_disp.c, one by one.
LEMMA ScalerTypes ==
  ASSUME NEW d \in Layers, NEW free \in BOOLEAN
  PROVE  /\ WithScaler(d, free) \in Layers
         /\ WithoutScaler(d) \in Layers
BY DEF Layers, WithScaler, WithoutScaler

LEMMA InputTypes ==
  ASSUME NEW d \in Layers, NEW free \in BOOLEAN, NEW source \in Source,
         NEW buf \in Span, NEW h \in Nat
  PROVE  /\ SetRgbInput(d, source, h) \in Layers
         /\ SetYuvInput(d, source, buf, free) \in Layers
<1>1. \A e \in Layers, f \in {"rgb", "yuv"}, b \in Span :
        Input(e, f, source, b) \in Layers
  BY DEF Layers, Input
<1>2. [y |-> 0, h |-> h] \in Span
  BY DEF Span
<1>3. QED
  BY <1>1, <1>2, ScalerTypes DEF SetRgbInput, SetYuvInput

LEMMA OutputWindowType ==
  ASSUME NEW d \in Layers, NEW w \in Window
  PROVE  SetOutputWindow(d, w) \in Layers
<1> DEFINE hidden == Above(w.y)
           skipped == (hidden * d.buf.h) \div w.h
<1>1. hidden \in Int /\ w.y \in Int /\ w.h \in Int /\ d.buf.y \in Int /\ d.buf.h \in Int
  BY AboveType DEF Window, Layers, Span
<1>2. skipped \in Int
  BY <1>1 DEF Window
<1> HIDE DEF hidden, skipped
<1>3. /\ w \in Span
      /\ Nowhere \in Span
      /\ [y |-> d.buf.y + skipped, h |-> d.buf.h - skipped] \in Span
      /\ [y |-> w.y + hidden, h |-> w.h - hidden] \in Span
  BY <1>1, <1>2 DEF Window, Span, Nowhere
<1> DEFINE asked == [d EXCEPT !.asked = w]
           placed == [asked EXCEPT !.win_y = w.y, !.scn = w]
<1>4. asked \in Layers
  BY <1>3 DEF Layers
<1> HIDE DEF asked
<1>5. placed \in Layers
  BY <1>1, <1>3, <1>4 DEF Layers
<1> HIDE DEF placed
<1>6. [asked EXCEPT !.scn = Nowhere] \in Layers
  BY <1>3, <1>4 DEF Layers
<1>7. [placed EXCEPT !.src = [y |-> d.buf.y + skipped, h |-> d.buf.h - skipped],
                     !.scn = [y |-> w.y + hidden, h |-> w.h - hidden]] \in Layers
  BY <1>3, <1>5 DEF Layers
<1>8. QED
  BY <1>5, <1>6, <1>7 DEF SetOutputWindow, asked, placed, hidden, skipped

LEMMA ShowHideTypes ==
  ASSUME NEW d \in Layers, NEW free \in BOOLEAN
  PROVE  /\ Show(d, free) \in Layers
         /\ Hide(d) \in Layers
         /\ SetColorKey(d) \in Layers
         /\ DisableColorKey(d) \in Layers
<1>1. \A e \in Layers, b \in BOOLEAN :
        [e EXCEPT !.open = b] \in Layers /\ [e EXCEPT !.keyed = b] \in Layers
  BY DEF Layers
<1>2. QED
  BY <1>1, ScalerTypes DEF Show, Hide, SetColorKey, DisableColorKey

\* What set_output_window leaves alone.
LEMMA WindowKeeps ==
  ASSUME NEW d \in Layers, NEW w \in Window
  PROVE  LET e == SetOutputWindow(d, w)
         IN /\ e.scaler = d.scaler /\ e.scaled = d.scaled /\ e.denied = d.denied
            /\ e.open = d.open /\ e.keyed = d.keyed
            /\ e.format = d.format /\ e.source = d.source /\ e.buf = d.buf
BY DEF SetOutputWindow, Layers

\* What showing a layer leaves alone.
LEMMA ShowKeeps ==
  ASSUME NEW d \in Layers, NEW free \in BOOLEAN
  PROVE  LET e == Show(d, free)
         IN /\ e.format = d.format /\ e.source = d.source /\ e.buf = d.buf
            /\ e.src = d.src /\ e.scn = d.scn /\ e.asked = d.asked
            /\ e.win_y = d.win_y /\ e.keyed = d.keyed
BY DEF Show, WithScaler, Layers

\* What hiding it leaves alone.
LEMMA HideKeeps ==
  ASSUME NEW d \in Layers
  PROVE  LET e == Hide(d)
         IN /\ e.format = d.format /\ e.source = d.source /\ e.buf = d.buf
            /\ e.src = d.src /\ e.scn = d.scn /\ e.asked = d.asked
            /\ e.win_y = d.win_y /\ e.keyed = d.keyed
BY DEF Hide, WithoutScaler, Layers

-----------------------------------------------------------------------------
(***************************************************************************)
(* The scaler.                                                             *)
(***************************************************************************)
ScalerKept(d) ==
  /\ ~d.open => ~d.scaled
  /\ d.open /\ d.format = "yuv" => d.scaled \/ d.denied
  /\ d.scaler = d.scaled

\* Whatever was done to a layer before, it has the scaler it needs once it is
\* shown, and none once it is hidden.
LEMMA ShowHideScaler ==
  ASSUME NEW d \in Layers, NEW free \in BOOLEAN, d.scaler = d.scaled
  PROVE  ScalerKept(Show(d, free)) /\ ScalerKept(Hide(d))
BY DEF ScalerKept, Show, Hide, WithScaler, WithoutScaler, Layers

LEMMA InputScaler ==
  ASSUME NEW d \in Layers, NEW free \in BOOLEAN, NEW source \in Source,
         NEW buf \in Span, NEW h \in Nat, d.scaler = d.scaled
  PROVE  /\ SetRgbInput(d, source, h).scaler = SetRgbInput(d, source, h).scaled
         /\ SetYuvInput(d, source, buf, free).scaler = SetYuvInput(d, source, buf, free).scaled
BY DEF SetRgbInput, SetYuvInput, Input, WithScaler, WithoutScaler, Layers

-----------------------------------------------------------------------------
(***************************************************************************)
(* The part of the video that is shown.                                    *)
(***************************************************************************)
\* What set_output_window relies on: the source is not cut, unless the window
\* remembered is one that cut it.
Cuttable(d) ==
  d.format = "yuv" => d.buf.h > 0 /\ (d.win_y >= 0 => d.src = d.buf)

\* The rows of the video are where the window asked for has them.
Placed(d) ==
  LET w == d.asked
      cut == d.scn.y - w.y
  IN IF w.y + w.h <= 0 THEN d.scn = Nowhere
     ELSE /\ d.scn.y = w.y + Above(w.y)
          /\ d.scn.y + d.scn.h = w.y + w.h
          /\ d.src.y + d.src.h = d.buf.y + d.buf.h
          /\ cut * d.buf.h - (d.src.y - d.buf.y) * w.h \in 0 .. w.h - 1

CutKept(d) == Cuttable(d) /\ (d.format = "yuv" /\ d.asked.h > 0 => Placed(d))

\* After set_output_window the picture is in its place, whatever the window was
\* and is.
LEMMA OutputWindowCut ==
  ASSUME NEW d \in Layers, NEW w \in Window, Cuttable(d)
  PROVE  CutKept(SetOutputWindow(d, w))
<1> DEFINE e == SetOutputWindow(d, w)
           hidden == Above(w.y)
           skipped == (hidden * d.buf.h) \div w.h
<1> SUFFICES CutKept(e)
  OBVIOUS
<1>1. e.format = d.format
  BY WindowKeeps
<1>2. CASE d.format # "yuv"
  BY <1>1, <1>2 DEF CutKept, Cuttable
<1>3. CASE d.format = "yuv"
  <2>1. /\ w.y \in Int /\ w.h \in Nat \ {0} /\ hidden \in Nat
        /\ d.buf.y \in Int /\ d.buf.h \in Nat \ {0}
        /\ d.win_y >= 0 => d.src = d.buf
        /\ d.win_y \in Int
    BY <1>3, AboveType DEF Window, Layers, Span, Cuttable
  <2>2. hidden = IF w.y < 0 THEN -w.y ELSE 0
    BY DEF Above
  <2>3. /\ skipped \in Nat
        /\ hidden * d.buf.h - skipped * w.h \in 0 .. w.h - 1
    <3>1. hidden * d.buf.h \in Nat
      BY <2>1
    <3>2. QED
      BY <2>1, <3>1, Quotient
  <2>4. hidden < w.h => skipped < d.buf.h
    BY <2>1, SmallerCut
  <2>5. hidden = 0 => skipped = 0
    <3>1. hidden = 0 => hidden * d.buf.h = 0
      BY <2>1
    <3>2. QED
      BY <2>1, <3>1
  <2>6. e.buf = d.buf /\ e.asked = w
    BY WindowKeeps DEF SetOutputWindow, Layers
  <2> HIDE DEF skipped, hidden
  <2>7. CASE ~NeedsCut(d, w.y)
    <3>1. /\ e.src = d.src /\ e.win_y = w.y /\ e.scn = w
          /\ w.y >= 0 /\ d.win_y >= 0
      BY <1>3, <2>1, <2>7 DEF SetOutputWindow, NeedsCut, Layers
    <3> HIDE DEF e
    <3>2. e.src = e.buf
      BY <2>1, <2>6, <3>1
    <3>3. Placed(e)
      <4>1. (e.scn.y - w.y) * e.buf.h - (e.src.y - e.buf.y) * w.h = 0
        BY <2>1, <2>6, <3>1, <3>2
      <4>2. QED
        BY <2>1, <2>6, <3>1, <3>2, <4>1 DEF Placed, Above
    <3>4. QED
      BY <2>1, <2>6, <3>2, <3>3 DEF CutKept, Cuttable
  <2>8. CASE NeedsCut(d, w.y) /\ (d.buf.h <= skipped \/ w.h <= hidden)
    <3>1. e.src = d.src /\ e.win_y = d.win_y /\ e.scn = Nowhere
      BY <2>8 DEF SetOutputWindow, Layers, skipped, hidden
    <3>2. w.y + w.h <= 0
      BY <2>1, <2>2, <2>3, <2>4, <2>8
    <3> HIDE DEF e
    <3>3. QED
      BY <2>1, <2>6, <3>1, <3>2 DEF CutKept, Cuttable, Placed
  <2>9. CASE NeedsCut(d, w.y) /\ ~(d.buf.h <= skipped \/ w.h <= hidden)
    <3>1. /\ e.src = [y |-> d.buf.y + skipped, h |-> d.buf.h - skipped]
          /\ e.scn = [y |-> w.y + hidden, h |-> w.h - hidden]
          /\ e.win_y = w.y
      BY <2>9 DEF SetOutputWindow, Layers, skipped, hidden
    <3> HIDE DEF e
    <3>2. w.y + w.h > 0
      BY <2>1, <2>2, <2>9
    <3>3. Placed(e)
      <4>1. /\ e.scn.y - w.y = hidden /\ e.src.y - e.buf.y = skipped
            /\ e.scn.y = w.y + hidden /\ e.scn.y + e.scn.h = w.y + w.h
            /\ e.src.y + e.src.h = e.buf.y + e.buf.h
        BY <2>1, <2>3, <2>6, <3>1
      <4>2. (e.scn.y - e.asked.y) * e.buf.h - (e.src.y - e.buf.y) * e.asked.h
              = hidden * d.buf.h - skipped * w.h
        BY <2>6, <4>1
      <4>3. e.scn.y = e.asked.y + Above(e.asked.y)
        BY <2>6, <4>1 DEF hidden
      <4>4. (e.scn.y - e.asked.y) * e.buf.h - (e.src.y - e.buf.y) * e.asked.h
              \in 0 .. e.asked.h - 1
        BY <2>3, <2>6, <4>2
      <4>5. ~(e.asked.y + e.asked.h <= 0)
        BY <2>1, <2>6, <3>2
      <4>6. QED
        BY <2>6, <4>1, <4>3, <4>4, <4>5 DEF Placed
    <3>4. w.y >= 0 => e.src = e.buf
      <4>1. d.buf = [y |-> d.buf.y, h |-> d.buf.h]
        BY DEF Layers, Span
      <4>2. QED
        BY <2>1, <2>2, <2>5, <2>6, <3>1, <4>1
    <3>5. QED
      BY <2>1, <2>6, <3>1, <3>3, <3>4 DEF CutKept, Cuttable
  <2>10. QED
    BY <2>7, <2>8, <2>9
<1>4. QED
  BY <1>2, <1>3

\* CutKept only reads these fields.
LEMMA SameCut ==
  ASSUME NEW d \in Layers, NEW e \in Layers, CutKept(d),
         e.format = d.format, e.buf = d.buf, e.src = d.src, e.scn = d.scn,
         e.asked = d.asked, e.win_y = d.win_y
  PROVE  CutKept(e)
BY DEF CutKept, Cuttable, Placed

\* Video scanned out is in the offscreen memory.
Offscreen(d) ==
  d.source.kind = "video" =>
    /\ GfxLayerSize <= d.source.offset
    /\ d.source.offset + d.source.size <= FramebufferSize

LayerInv(d) == d \in Layers /\ ScalerKept(d) /\ CutKept(d) /\ Offscreen(d)

-----------------------------------------------------------------------------
(***************************************************************************)
(* What the callers do with the layer.                                     *)
(***************************************************************************)
LEMMA MoveLayer ==
  ASSUME NEW d, LayerInv(d), NEW w \in Window
  PROVE  /\ LayerInv(SetOutputWindow(d, w))
         /\ SetOutputWindow(d, w).keyed = d.keyed
         /\ SetOutputWindow(d, w).source = d.source
<1>1. d \in Layers
  BY DEF LayerInv
<1>2. SetOutputWindow(d, w) \in Layers
  BY <1>1, OutputWindowType
<1>3. CutKept(SetOutputWindow(d, w))
  BY <1>1, OutputWindowCut DEF LayerInv, CutKept
<1>4. QED
  BY <1>1, <1>2, <1>3, WindowKeeps DEF LayerInv, ScalerKept, Offscreen

LEMMA ShowHideLayer ==
  ASSUME NEW d, LayerInv(d), NEW free \in BOOLEAN
  PROVE  /\ LayerInv(Show(d, free)) /\ LayerInv(Hide(d))
         /\ Show(d, free).keyed = d.keyed /\ Hide(d).keyed = d.keyed
         /\ Show(d, free).source = d.source /\ Hide(d).source = d.source
<1>1. d \in Layers /\ d.scaler = d.scaled /\ CutKept(d) /\ Offscreen(d)
  BY DEF LayerInv, ScalerKept
<1>2. CutKept(Show(d, free)) /\ CutKept(Hide(d))
  BY <1>1, ShowHideTypes, ShowKeeps, HideKeeps, SameCut
<1>3. Offscreen(Show(d, free)) /\ Offscreen(Hide(d))
  BY <1>1, ShowKeeps, HideKeeps DEF Offscreen
<1>4. QED
  BY <1>1, <1>2, <1>3, ShowHideTypes, ShowHideScaler, ShowKeeps, HideKeeps DEF LayerInv

LEMMA KeyLayer ==
  ASSUME NEW d, LayerInv(d)
  PROVE  /\ LayerInv(SetColorKey(d)) /\ SetColorKey(d).keyed
         /\ LayerInv(DisableColorKey(d)) /\ ~DisableColorKey(d).keyed
         /\ SetColorKey(d).source = d.source /\ DisableColorKey(d).source = d.source
<1>1. d \in Layers
  BY DEF LayerInv
<1> DEFINE on == SetColorKey(d)
           off == DisableColorKey(d)
<1>2. on \in Layers /\ off \in Layers
  BY <1>1, ShowHideTypes
<1>3. \A e \in {on, off} :
        /\ e.format = d.format /\ e.buf = d.buf /\ e.src = d.src /\ e.scn = d.scn
        /\ e.asked = d.asked /\ e.win_y = d.win_y /\ e.source = d.source
        /\ e.scaler = d.scaler /\ e.scaled = d.scaled /\ e.denied = d.denied
        /\ e.open = d.open
  BY <1>1 DEF SetColorKey, DisableColorKey, Layers
<1>4. on.keyed /\ ~off.keyed
  BY <1>1 DEF SetColorKey, DisableColorKey, Layers
<1> HIDE DEF on, off
<1>5. CutKept(on) /\ CutKept(off)
  BY <1>1, <1>2, <1>3, SameCut DEF LayerInv
<1>6. LayerInv(on) /\ LayerInv(off)
  BY <1>2, <1>3, <1>5 DEF LayerInv, ScalerKept, Offscreen
<1>7. QED
  BY <1>3, <1>4, <1>6 DEF on, off

\* xPutImage, once there is room: the input, the window, and the layer is shown.
LEMMA PutLayer ==
  ASSUME NEW d, LayerInv(d), NEW free \in BOOLEAN, NEW w \in Window,
         NEW offset \in Nat, NEW size \in Nat \ {0},
         GfxLayerSize <= offset, offset + size <= FramebufferSize
  PROVE  LET frame == [kind |-> "video", offset |-> offset, size |-> size]
             input == SetYuvInput(d, frame, [y |-> 0, h |-> size], free)
             e == Show(SetOutputWindow(input, w), free)
         IN LayerInv(e) /\ e.keyed = d.keyed /\ e.source \in {d.source, frame}
<1> DEFINE frame == [kind |-> "video", offset |-> offset, size |-> size]
           buf == [y |-> 0, h |-> size]
           input == SetYuvInput(d, frame, buf, free)
           moved == SetOutputWindow(input, w)
<1>1. /\ d \in Layers /\ d.scaler = d.scaled /\ CutKept(d) /\ Offscreen(d)
      /\ frame \in Source /\ buf \in Span
  BY DEF LayerInv, ScalerKept, Source, Span
<1>2. input \in Layers /\ input.scaler = input.scaled
  BY <1>1, InputTypes, InputScaler
<1>3. \/ /\ input.format = "yuv" /\ input.source = frame
         /\ input.buf = buf /\ input.src = buf
      \/ /\ input.format = d.format /\ input.source = d.source
         /\ input.buf = d.buf /\ input.src = d.src /\ input.win_y = d.win_y
  BY <1>1 DEF SetYuvInput, Input, WithScaler, Layers
<1>4. input.keyed = d.keyed
  BY <1>1 DEF SetYuvInput, Input, WithScaler, Layers
<1>5. Cuttable(input)
  <2>1. buf.h > 0
    OBVIOUS
  <2> HIDE DEF buf, frame, input
  <2>2. QED
    BY <1>1, <1>3, <2>1 DEF CutKept, Cuttable
<1>6. Offscreen(input) /\ input.source \in {d.source, frame}
  <2>1. frame.offset = offset /\ frame.size = size
    OBVIOUS
  <2> HIDE DEF buf, frame, input
  <2>2. QED
    BY <1>1, <1>3, <2>1 DEF Offscreen
<1> HIDE DEF input, frame, buf
<1>7. moved \in Layers /\ CutKept(moved)
  BY <1>2, <1>5, OutputWindowType, OutputWindowCut
<1>8. /\ moved.scaler = moved.scaled /\ moved.keyed = d.keyed
      /\ moved.source = input.source
  BY <1>2, <1>4, WindowKeeps
<1> HIDE DEF moved
<1>9. CutKept(Show(moved, free))
  BY <1>7, ShowHideTypes, ShowKeeps, SameCut
<1>10. LayerInv(Show(moved, free))
  BY <1>6, <1>7, <1>8, <1>9, ShowHideTypes, ShowHideScaler, ShowKeeps DEF LayerInv, Offscreen
<1>11. Show(moved, free).keyed = d.keyed /\ Show(moved, free).source \in {d.source, frame}
  BY <1>6, <1>7, <1>8, ShowKeeps
<1>12. QED
  BY <1>10, <1>11 DEF moved, input, frame, buf

LEMMA Dri2WindowType ==
  ASSUME NEW o \in Dri2
  PROVE  Dri2Window(o) \in Window
<1> DEFINE height == CHOOSE h \in Heights : TRUE
<1>1. height \in Heights
  BY XvOverlayAssumption
<1>2. Dri2Window(o) = [y |-> o.y, h |-> height]
  BY DEF Dri2Window
<1> HIDE DEF height
<1>3. height \in Nat \ {0}
  BY <1>1, XvOverlayAssumption
<1>4. o.y \in Rows \union {0}
  BY DEF Dri2
<1>5. o.y \in Int
  <2>1. Rows \subseteq Int /\ 0 \in Int
    BY XvOverlayAssumption
  <2>2. QED
    BY <1>4, <2>1, Zenon
<1>6. QED
  BY <1>2, <1>3, <1>5 DEF Window

\* The DRI2 overlay window follows the tree.
LEMMA UpdateLayer ==
  ASSUME NEW d, LayerInv(d), NEW o \in Dri2, NEW visible \in BOOLEAN, NEW free \in BOOLEAN
  PROVE  LET r == UpdateOverlay(d, o, visible, free)
         IN /\ LayerInv(r.disp) /\ r.disp.keyed = d.keyed /\ r.disp.source = d.source
            /\ r.dri2 \in Dri2
<1> DEFINE placed == IF o.overlay_y # o.y THEN SetOutputWindow(d, Dri2Window(o)) ELSE d
<1>1. LayerInv(placed) /\ placed.keyed = d.keyed /\ placed.source = d.source
  BY Dri2WindowType, MoveLayer
<1>2. /\ [o EXCEPT !.enabled = TRUE, !.overlay_y = o.y] \in Dri2
      /\ [o EXCEPT !.enabled = FALSE] \in Dri2
  BY DEF Dri2
<1> HIDE DEF placed
<1>3. /\ LayerInv(Show(placed, free)) /\ Show(placed, free).keyed = d.keyed
      /\ Show(placed, free).source = d.source
      /\ LayerInv(Hide(d)) /\ Hide(d).keyed = d.keyed /\ Hide(d).source = d.source
  BY <1>1, ShowHideLayer
<1>4. QED
  BY <1>1, <1>2, <1>3 DEF UpdateOverlay, placed

\* A DRI2 frame on the layer.
LEMMA SwapLayer ==
  ASSUME NEW d, LayerInv(d), NEW o \in Dri2, NEW free \in BOOLEAN
  PROVE  LET placed == SetOutputWindow(d, Dri2Window(o))
             e == Show(SetRgbInput(placed, Dri2Frame, Dri2Window(o).h), free)
         IN LayerInv(e) /\ e.keyed = d.keyed /\ e.source = Dri2Frame
<1> DEFINE placed == SetOutputWindow(d, Dri2Window(o))
           h == Dri2Window(o).h
           e == SetRgbInput(placed, Dri2Frame, h)
<1>1. placed \in Layers /\ placed.scaler = placed.scaled /\ placed.keyed = d.keyed
  BY Dri2WindowType, MoveLayer DEF LayerInv, ScalerKept
<1>2. Dri2Frame \in Source /\ Dri2Frame.kind = "dri2" /\ h \in Nat /\ Nowhere \in Span
  BY Dri2WindowType, DispLayerAssumption DEF Dri2Frame, Source, Window, Nowhere, Span
<1> HIDE DEF placed, h
<1>3. e \in Layers /\ e.scaler = e.scaled
  BY <1>1, <1>2, InputTypes, InputScaler
<1>4. e.format = "rgb" /\ e.source = Dri2Frame /\ e.keyed = placed.keyed
  BY <1>1 DEF SetRgbInput, Input, WithoutScaler, Layers
<1> HIDE DEF e
<1>5. LayerInv(Show(e, free))
  BY <1>2, <1>3, <1>4, ShowHideTypes, ShowHideScaler, ShowKeeps
    DEF LayerInv, CutKept, Cuttable, Offscreen
<1>6. QED
  BY <1>1, <1>3, <1>4, <1>5, ShowKeeps DEF e, placed, h

-----------------------------------------------------------------------------
(***************************************************************************)
(* Types, the scaler, the picture and its memory, together.                *)
(***************************************************************************)
Inv == TypeOK /\ LayerInv(disp)

LEMMA FreeType == Free \subseteq BOOLEAN
BY DEF Free

\* The offset of a frame there is room for.
LEMMA OffsetRange ==
  ASSUME xv \in Video, NEW size \in Nat
  PROVE  Offset(size) \in Nat /\ GfxLayerSize <= Offset(size)
BY DispLayerAssumption DEF Offset, Video

LEMMA PutImageInv ==
  ASSUME Inv, NEW size \in FrameSizes, NEW w \in Windows, NEW clip \in Clips,
         NEW free \in Free, PutImage(size, w, clip, free)
  PROVE  Inv'
<1> DEFINE offset == Offset(size)
           keyed == IF xv.colorKeyEnabled THEN disp ELSE SetColorKey(disp)
<1>1. size \in Nat \ {0} /\ w \in Window /\ free \in BOOLEAN
  BY FreeType, XvOverlayAssumption DEF Windows, Window
<1>2. offset \in Nat /\ GfxLayerSize <= offset
  BY <1>1, OffsetRange DEF Inv, TypeOK
<1>3. LayerInv(keyed)
  BY KeyLayer DEF Inv
<1> HIDE DEF offset, keyed
<1>4. LayerInv(disp')
  <2>1. CASE NoRoom(offset, size)
    BY <2>1 DEF PutImage, Inv, offset
  <2>2. CASE ~NoRoom(offset, size)
    <3>1. offset + size <= FramebufferSize
      BY <1>1, <1>2, <2>2, DispLayerAssumption DEF NoRoom
    <3>2. QED
      BY <1>1, <1>2, <1>3, <2>2, <3>1, PutLayer DEF PutImage, offset, keyed
  <2>3. QED
    BY <2>1, <2>2
<1>5. xv' \in Video
  <2>1. CASE NoRoom(offset, size)
    BY <1>2, <2>1 DEF PutImage, Inv, TypeOK, Video, offset
  <2>2. CASE ~NoRoom(offset, size)
    <3>1. /\ NextOffset(offset, size) \in Nat
          /\ [offset |-> offset, size |-> size] \in [offset : Nat, size : Nat]
      BY <1>1, <1>2 DEF NextOffset
    <3> DEFINE key == IF xv.colorKeyEnabled THEN xv.key ELSE xv.colorKey
               steady == xv.steady /\ xv.written.size \in {0, size}
               painted == IF xv.clip # clip THEN xv.colorKey ELSE xv.painted
               next == NextOffset(offset, size)
               written == [offset |-> offset, size |-> size]
    <3>2. key \in Colors /\ painted \in Colors /\ steady \in BOOLEAN /\ 1 - xv.puts \in {0, 1}
      BY DEF Inv, TypeOK, Video
    <3>3. xv' = [xv EXCEPT !.overlay_data_offs = next, !.colorKeyEnabled = TRUE,
                           !.key = key, !.puts = 1 - @, !.written = written,
                           !.steady = steady, !.clip = clip, !.painted = painted]
      BY <2>2 DEF PutImage, offset
    <3> HIDE DEF key, steady, painted, next, written
    <3>4. QED
      BY <3>1, <3>2, <3>3 DEF Inv, TypeOK, Video, next, written
  <2>3. QED
    BY <2>1, <2>2
<1>6. dri2' = dri2
  BY DEF PutImage
<1>7. QED
  BY <1>4, <1>5, <1>6 DEF Inv, TypeOK, LayerInv

LEMMA PortInv ==
  ASSUME Inv,
         \/ \E w \in Windows : ReputImage(w)
         \/ \E cleanup \in BOOLEAN : StopVideo(cleanup)
         \/ \E color \in Colors : SetColorKeyAttribute(color)
  PROVE  Inv'
<1>1. CASE \E w \in Windows : ReputImage(w)
  <2>1. PICK w \in Windows : ReputImage(w)
    BY <1>1
  <2>2. w \in Window
    BY XvOverlayAssumption DEF Windows, Window
  <2>3. LayerInv(disp')
    BY <2>1, <2>2, MoveLayer DEF Inv, ReputImage
  <2>4. QED
    BY <2>1, <2>3 DEF Inv, TypeOK, LayerInv, ReputImage
<1>2. CASE \E cleanup \in BOOLEAN : StopVideo(cleanup)
  <2>1. PICK cleanup \in BOOLEAN : StopVideo(cleanup)
    BY <1>2
  <2>2. LayerInv(Hide(disp))
    BY ShowHideLayer DEF Inv
  <2>3. LayerInv(disp')
    BY <2>1, <2>2, KeyLayer DEF Inv, StopVideo
  <2>4. xv' \in Video /\ dri2' = dri2
    BY <2>1 DEF Inv, TypeOK, Video, StopVideo
  <2>5. QED
    BY <2>3, <2>4 DEF Inv, TypeOK, LayerInv
<1>3. CASE \E color \in Colors : SetColorKeyAttribute(color)
  <2>1. PICK color \in Colors : SetColorKeyAttribute(color)
    BY <1>3
  <2>2. LayerInv(disp')
    BY <2>1, KeyLayer DEF Inv, SetColorKeyAttribute
  <2>3. xv' \in Video /\ dri2' = dri2
    BY <2>1 DEF Inv, TypeOK, Video, SetColorKeyAttribute, ClipAfterNewColor
  <2>4. QED
    BY <2>2, <2>3 DEF Inv, TypeOK, LayerInv
<1>4. QED
  BY <1>1, <1>2, <1>3

\* A step of the DRI2 side also leaves the color key and the port alone, and its
\* own frame is the only one it shows.
Dri2Step ==
  \/ \E y \in Rows : Dri2Start(y)
  \/ \E y \in Rows, visible \in BOOLEAN, free \in Free : Dri2Update(y, visible, free)
  \/ \E visible \in BOOLEAN, free \in Free : Dri2Swap(visible, free)
  \/ Dri2Destroy

LEMMA Dri2Inv ==
  ASSUME Inv, Dri2Step
  PROVE  /\ Inv'
         /\ xv' = xv /\ disp'.keyed = disp.keyed
         /\ disp'.source \in {disp.source, Dri2Frame}
<1>1. CASE \E y \in Rows : Dri2Start(y)
  BY <1>1 DEF Inv, TypeOK, Dri2, LayerInv, Dri2Start
<1>2. CASE \E y \in Rows, visible \in BOOLEAN, free \in Free : Dri2Update(y, visible, free)
  <2>1. PICK y \in Rows, visible \in BOOLEAN, free \in Free : Dri2Update(y, visible, free)
    BY <1>2
  <2>2. [dri2 EXCEPT !.y = y] \in Dri2 /\ free \in BOOLEAN
    BY FreeType DEF Inv, TypeOK, Dri2
  <2>3. LayerInv(disp') /\ dri2' \in Dri2 /\ disp'.keyed = disp.keyed
        /\ disp'.source = disp.source
    BY <2>1, <2>2, UpdateLayer DEF Inv, Dri2Update
  <2>4. QED
    BY <2>1, <2>3 DEF Inv, TypeOK, LayerInv, Dri2Update
<1>3. CASE \E visible \in BOOLEAN, free \in Free : Dri2Swap(visible, free)
  <2>1. PICK visible \in BOOLEAN, free \in Free : Dri2Swap(visible, free)
    BY <1>3
  <2>2. free \in BOOLEAN /\ dri2 \in Dri2
    BY FreeType DEF Inv, TypeOK
  <2> DEFINE r == UpdateOverlay(disp, dri2, visible, free)
  <2>3. LayerInv(r.disp) /\ r.dri2 \in Dri2 /\ r.disp.keyed = disp.keyed
        /\ r.disp.source = disp.source
    BY <2>2, UpdateLayer DEF Inv
  <2> DEFINE e == Show(SetRgbInput(SetOutputWindow(r.disp, Dri2Window(dri2)),
                                   Dri2Frame, Dri2Window(dri2).h), free)
  <2>4. LayerInv(e) /\ e.keyed = disp.keyed /\ e.source = Dri2Frame
    BY <2>2, <2>3, SwapLayer
  <2>5. /\ disp' \in {e, r.disp} /\ dri2' = r.dri2 /\ xv' = xv
    BY <2>1 DEF Dri2Swap
  <2> HIDE DEF e, r
  <2>6. QED
    BY <2>3, <2>4, <2>5 DEF Inv, TypeOK, LayerInv
<1>4. CASE Dri2Destroy
  <2>1. LayerInv(disp') /\ disp'.keyed = disp.keyed /\ disp'.source = disp.source
    BY <1>4, ShowHideLayer DEF Inv, Dri2Destroy
  <2>2. dri2' \in Dri2 /\ xv' = xv
    BY <1>4 DEF Inv, TypeOK, Dri2, Dri2Destroy
  <2>3. QED
    BY <2>1, <2>2 DEF Inv, TypeOK, LayerInv
<1>5. QED
  BY <1>1, <1>2, <1>3, <1>4 DEF Dri2Step

LEMMA InitInv == Init => Inv
<1> SUFFICES ASSUME Init PROVE Inv
  OBVIOUS
<1>1. Reserved \in Layers
  BY DEF Reserved, Layers, Source, Span, Nowhere
<1>2. ScalerKept(Reserved) /\ CutKept(Reserved) /\ Offscreen(Reserved)
  BY DEF Reserved, ScalerKept, CutKept, Cuttable, Offscreen
<1>3. xv \in Video /\ dri2 \in Dri2
  BY DEF Init, Video, Dri2
<1>4. QED
  BY <1>1, <1>2, <1>3 DEF Init, Inv, TypeOK, LayerInv

LEMMA NextInv == Inv /\ [Next]_vars => Inv'
<1> SUFFICES ASSUME Inv, [Next]_vars PROVE Inv'
  OBVIOUS
<1>1. CASE UNCHANGED vars
  BY <1>1 DEF vars, Inv, TypeOK, LayerInv
<1>2. CASE Next
  BY <1>2, PutImageInv, PortInv, Dri2Inv DEF Next, Dri2Step
<1>3. QED
  BY <1>1, <1>2

LEMMA InvCorrect == Spec => []Inv
BY InitInv, NextInv, PTL DEF Spec

\* The types of the layer, the port and the DRI2 window, for every size of the
\* framebuffer and the frames.
THEOREM TypeCorrect == Spec => []TypeOK
<1>1. Inv => TypeOK
  BY DEF Inv
<1>2. QED
  BY <1>1, InvCorrect, PTL

\* The scaler is held exactly as long as it is needed, whoever uses the layer.
THEOREM ScalerCorrect == Spec => []ScalerFollowsVideo
<1>1. Inv => ScalerFollowsVideo
  BY DEF Inv, LayerInv, ScalerKept, ScalerFollowsVideo
<1>2. QED
  BY <1>1, InvCorrect, PTL

\* The rows of a video are in their place, for every frame and every window.
THEOREM PlaceCorrect == Spec => []SourceMatchesWindow
<1>1. Inv => SourceMatchesWindow
  BY DEF Inv, LayerInv, CutKept, Placed, SourceMatchesWindow
<1>2. QED
  BY <1>1, InvCorrect, PTL

\* No frame on display reaches out of the offscreen memory, for every sequence of
\* frame sizes.
THEOREM OffscreenCorrect == Spec => []FramesStayOffscreen
<1>1. Inv => FramesStayOffscreen
  BY DEF Inv, LayerInv, Offscreen, FramesStayOffscreen
<1>2. QED
  BY <1>1, InvCorrect, PTL

-----------------------------------------------------------------------------
(***************************************************************************)
(* The color key.                                                          *)
(***************************************************************************)
\* A region counts as painted only while the key is enabled, and the enabled key
\* is the attribute's color.
KeyInv ==
  /\ disp.keyed = xv.colorKeyEnabled
  /\ xv.colorKeyEnabled => xv.key = xv.colorKey
  /\ ~xv.colorKeyEnabled => xv.clip = NoClip
  /\ xv.clip # NoClip => xv.painted = xv.colorKey

LEMMA PutImageKey ==
  ASSUME Inv, KeyInv, NEW size \in FrameSizes, NEW w \in Windows, NEW clip \in Clips,
         NEW free \in Free, PutImage(size, w, clip, free)
  PROVE  KeyInv'
<1> DEFINE offset == Offset(size)
<1>1. CASE NoRoom(offset, size)
  BY <1>1 DEF PutImage, KeyInv, Inv, TypeOK, Video
<1>2. CASE ~NoRoom(offset, size)
  <2>1. disp'.keyed
    <3>1. size \in Nat \ {0} /\ w \in Window /\ free \in BOOLEAN
      BY FreeType, XvOverlayAssumption DEF Windows, Window
    <3>2. offset \in Nat /\ GfxLayerSize <= offset /\ offset + size <= FramebufferSize
      BY <1>2, <3>1, OffsetRange, DispLayerAssumption DEF NoRoom, Inv, TypeOK
    <3> DEFINE keyed == IF xv.colorKeyEnabled THEN disp ELSE SetColorKey(disp)
    <3>3. LayerInv(keyed) /\ keyed.keyed
      BY KeyLayer DEF Inv, KeyInv
    <3> HIDE DEF offset, keyed
    <3>4. QED
      BY <1>2, <3>1, <3>2, <3>3, PutLayer DEF PutImage, offset, keyed
  <2>2. /\ xv'.colorKeyEnabled = TRUE /\ xv'.clip = clip
        /\ xv'.key = IF xv.colorKeyEnabled THEN xv.key ELSE xv.colorKey
        /\ xv'.colorKey = xv.colorKey
        /\ xv'.painted = IF xv.clip # clip THEN xv.colorKey ELSE xv.painted
    BY ZenonT(30), <1>2 DEF PutImage, Inv, TypeOK, Video
  <2>3. clip # NoClip
    BY XvOverlayAssumption
  <2>4. QED
    BY <2>1, <2>2, <2>3 DEF KeyInv
<1>3. QED
  BY <1>1, <1>2

LEMMA NextKey == Inv /\ KeyInv /\ [Next]_vars => KeyInv'
<1> SUFFICES ASSUME Inv, KeyInv, [Next]_vars PROVE KeyInv'
  OBVIOUS
<1>1. CASE \E size \in FrameSizes, w \in Windows, clip \in Clips, free \in Free :
             PutImage(size, w, clip, free)
  BY <1>1, PutImageKey
<1>2. CASE \E w \in Windows : ReputImage(w)
  <2>1. PICK w \in Windows : ReputImage(w)
    BY <1>2
  <2>2. disp'.keyed = disp.keyed /\ xv' = xv
    BY <2>1, WindowKeeps, XvOverlayAssumption DEF Inv, TypeOK, ReputImage, Windows, Window
  <2>3. QED
    BY <2>2 DEF KeyInv
<1>3. CASE \E cleanup \in BOOLEAN : StopVideo(cleanup)
  <2>1. PICK cleanup \in BOOLEAN : StopVideo(cleanup)
    BY <1>3
  <2>2. /\ xv'.clip = NoClip /\ xv'.key = xv.key /\ xv'.colorKey = xv.colorKey
        /\ IF cleanup THEN xv'.colorKeyEnabled = FALSE
                      ELSE xv'.colorKeyEnabled = xv.colorKeyEnabled
    BY <2>1 DEF Inv, TypeOK, Video, StopVideo
  <2>3. IF cleanup THEN disp'.keyed = FALSE ELSE disp'.keyed = disp.keyed
    BY <2>1 DEF StopVideo, DisableColorKey, Hide, WithoutScaler, Inv, TypeOK, Layers
  <2>4. QED
    BY <2>2, <2>3 DEF KeyInv
<1>4. CASE \E color \in Colors : SetColorKeyAttribute(color)
  BY <1>4 DEF SetColorKeyAttribute, ClipAfterNewColor, SetColorKey, KeyInv, Inv, TypeOK,
              Video, Layers
<1>5. CASE Dri2Step
  BY <1>5, Dri2Inv DEF KeyInv
<1>6. CASE UNCHANGED vars
  BY <1>6 DEF vars, KeyInv
<1>7. QED
  BY <1>1, <1>2, <1>3, <1>4, <1>5, <1>6 DEF Next, Dri2Step

\* The painted region has the color the controller looks for, for every set of
\* colors and regions.
THEOREM KeyColorCorrect == Spec => []KeyColorMatches
<1>1. Init => KeyInv
  BY DEF Init, Reserved, KeyInv
<1>2. KeyInv => KeyColorMatches
  BY DEF KeyInv, KeyColorMatches
<1>3. QED
  BY <1>1, <1>2, NextKey, InvCorrect, PTL DEF Spec

-----------------------------------------------------------------------------
(***************************************************************************)
(* The frames take turns.                                                  *)
(***************************************************************************)
\* With frames of one size, the next place is the one after the last frame, and
\* the last frame is the first of the offscreen memory or has room for another
\* one before it.
CycleInv ==
  xv.steady =>
    /\ xv.written.size = 0 => disp.source.kind # "video" /\ xv.overlay_data_offs = 0
    /\ xv.written.size # 0 =>
         /\ xv.overlay_data_offs = xv.written.offset + xv.written.size
         /\ GfxLayerSize <= xv.written.offset
         /\ \/ xv.written.offset = GfxLayerSize
            \/ GfxLayerSize + xv.written.size <= xv.written.offset
         /\ disp.source.kind = "video" => disp.source.size = xv.written.size

\* What a frame does to the history, and where it goes.
LEMMA PutImageCycle ==
  ASSUME Inv, CycleInv, NEW size \in FrameSizes, NEW w \in Windows, NEW clip \in Clips,
         NEW free \in Free, PutImage(size, w, clip, free)
  PROVE  /\ CycleInv'
         /\ xv'.puts # xv.puts /\ xv'.steady =>
              /\ xv.steady /\ xv.written.size \in {0, size}
              /\ xv'.written = [offset |-> Offset(size), size |-> size]
<1> DEFINE offset == Offset(size)
           frame == [kind |-> "video", offset |-> offset, size |-> size]
<1>1. size \in Nat \ {0} /\ w \in Window /\ free \in BOOLEAN
  BY FreeType, XvOverlayAssumption DEF Windows, Window
<1>2. offset \in Nat /\ GfxLayerSize <= offset
  BY <1>1, OffsetRange DEF Inv, TypeOK
<1>3. CASE NoRoom(offset, size)
  BY <1>3 DEF PutImage, CycleInv, Inv, TypeOK, Video
<1>4. CASE ~NoRoom(offset, size)
  <2>1. /\ xv'.steady = (xv.steady /\ xv.written.size \in {0, size})
        /\ xv'.written = [offset |-> offset, size |-> size]
        /\ xv'.overlay_data_offs = offset + size
    BY <1>4 DEF PutImage, Inv, TypeOK, Video, NextOffset
  <2>2. disp'.source \in {disp.source, frame}
    <3>1. offset + size <= FramebufferSize
      BY <1>1, <1>2, <1>4, DispLayerAssumption DEF NoRoom
    <3> DEFINE keyed == IF xv.colorKeyEnabled THEN disp ELSE SetColorKey(disp)
    <3>2. LayerInv(keyed) /\ keyed.source = disp.source
      BY KeyLayer DEF Inv
    <3> HIDE DEF offset, keyed
    <3>3. QED
      BY <1>1, <1>2, <1>4, <3>1, <3>2, PutLayer DEF PutImage, offset, keyed
  <2>3. offset \in {GfxLayerSize, xv.overlay_data_offs}
    BY DEF Offset
  <2>4. xv.written.offset \in Nat /\ xv.written.size \in Nat /\ GfxLayerSize \in Nat
    BY DispLayerAssumption DEF Inv, TypeOK, Video
  <2>5. ASSUME xv.steady, xv.written.size \in {0, size}
        PROVE  /\ offset = GfxLayerSize \/ GfxLayerSize + size <= offset
               /\ disp'.source.kind = "video" => disp'.source.size = size
    <3>1. CASE xv.written.size = 0
      <4>1. disp.source.kind # "video" /\ frame.size = size /\ xv.overlay_data_offs = 0
        BY <2>5, <3>1 DEF CycleInv
      <4>2. offset = GfxLayerSize
        BY <1>2, <2>3, <2>4, <4>1
      <4>3. QED
        BY <2>2, <4>1, <4>2
    <3>2. CASE xv.written.size = size
      <4>1. /\ xv.overlay_data_offs = xv.written.offset + size
            /\ GfxLayerSize <= xv.written.offset
            /\ disp.source.kind = "video" => disp.source.size = size
            /\ frame.size = size
        BY <1>1, <2>5, <3>2 DEF CycleInv
      <4> HIDE DEF offset, frame
      <4>2. QED
        BY <1>1, <2>2, <2>3, <2>4, <4>1
    <3>3. QED
      BY <2>5, <3>1, <3>2
  <2>6. xv'.steady => xv.steady /\ xv.written.size \in {0, size}
    BY <2>1
  <2>7. xv'.written.offset = offset /\ xv'.written.size = size /\ size # 0
    BY <1>1, <2>1
  <2> HIDE DEF offset, frame
  <2>8. CycleInv'
    BY <1>2, <2>1, <2>5, <2>6, <2>7 DEF CycleInv
  <2>9. QED
    BY <2>1, <2>6, <2>8 DEF offset
<1>5. QED
  BY <1>3, <1>4

LEMMA NextCycle == Inv /\ CycleInv /\ [Next]_vars => CycleInv'
<1> SUFFICES ASSUME Inv, CycleInv, [Next]_vars PROVE CycleInv'
  OBVIOUS
<1>1. CASE \E size \in FrameSizes, w \in Windows, clip \in Clips, free \in Free :
             PutImage(size, w, clip, free)
  BY <1>1, PutImageCycle
<1>2. CASE \/ \E w \in Windows : ReputImage(w)
           \/ \E cleanup \in BOOLEAN : StopVideo(cleanup)
           \/ \E color \in Colors : SetColorKeyAttribute(color)
           \/ Dri2Step
           \/ UNCHANGED vars
  <2>1. disp'.source \in {disp.source, Dri2Frame}
    <3>1. \A w \in Windows : w \in Window
      BY XvOverlayAssumption DEF Windows, Window
    <3>2. disp \in Layers /\ LayerInv(disp)
      BY DEF Inv, TypeOK
    <3>3. CASE \E w \in Windows : ReputImage(w)
      BY <3>1, <3>2, <3>3, MoveLayer DEF ReputImage
    <3>4. CASE \E cleanup \in BOOLEAN : StopVideo(cleanup)
      BY <3>2, <3>4, ShowHideLayer, KeyLayer DEF StopVideo
    <3>5. CASE \E color \in Colors : SetColorKeyAttribute(color)
      BY <3>2, <3>5, KeyLayer DEF SetColorKeyAttribute
    <3>6. QED
      BY <1>2, <3>3, <3>4, <3>5, Dri2Inv DEF vars
  <2>2. /\ xv'.steady = xv.steady /\ xv'.written = xv.written
        /\ xv'.overlay_data_offs = xv.overlay_data_offs
    BY <1>2, Dri2Inv
      DEF Inv, TypeOK, Video, ReputImage, StopVideo, SetColorKeyAttribute, vars
  <2>3. Dri2Frame.kind # "video"
    BY DEF Dri2Frame
  <2>4. QED
    BY <2>1, <2>2, <2>3 DEF CycleInv
<1>3. QED
  BY <1>1, <1>2 DEF Next, Dri2Step

\* With frames of one size, for every size of which two fit, no frame is written
\* over the one on display.
THEOREM FramesAlternateCorrect == Spec => FramesAlternate
<1> DEFINE Alternate ==
      /\ xv'.puts # xv.puts
      /\ xv'.steady
      /\ 2 * xv'.written.size <= FramebufferSize - GfxLayerSize
      /\ disp.open /\ disp.source.kind = "video"
      /\ disp.source.offset = xv.written.offset
      => ~Overlap(disp.source, xv'.written)
<1>1. Init => CycleInv
  BY DEF Init, Reserved, CycleInv
<1>2. Inv /\ CycleInv /\ [Next]_vars => [Alternate]_vars
  <2> SUFFICES ASSUME Inv, CycleInv, Next,
                      xv'.puts # xv.puts, xv'.steady,
                      2 * xv'.written.size <= FramebufferSize - GfxLayerSize,
                      disp.source.kind = "video",
                      disp.source.offset = xv.written.offset
               PROVE  ~Overlap(disp.source, xv'.written)
    BY DEF vars
  <2>1. PICK size \in FrameSizes, w \in Windows, clip \in Clips, free \in Free :
          PutImage(size, w, clip, free)
    BY Dri2Inv DEF Next, Dri2Step, ReputImage, StopVideo, SetColorKeyAttribute,
                   Inv, TypeOK, Video
  <2>2. /\ xv.steady /\ xv.written.size \in {0, size}
        /\ xv'.written = [offset |-> Offset(size), size |-> size]
    BY <2>1, PutImageCycle
  <2>3. /\ size \in Nat \ {0} /\ GfxLayerSize \in Nat /\ FramebufferSize \in Nat
        /\ xv.written.offset \in Nat /\ xv.overlay_data_offs \in Nat
    BY XvOverlayAssumption, DispLayerAssumption DEF Inv, TypeOK, Video
  <2>4. /\ xv.written.size = size /\ disp.source.size = size
        /\ xv.overlay_data_offs = xv.written.offset + size
        /\ GfxLayerSize <= xv.written.offset
        /\ xv.written.offset = GfxLayerSize \/ GfxLayerSize + size <= xv.written.offset
    BY <2>2, <2>3 DEF CycleInv
  <2> DEFINE offset == Offset(size)
             last == xv.written.offset
  <2>5. \/ offset = last + size
        \/ offset = GfxLayerSize /\ last + size + size > FramebufferSize
    BY <2>3, <2>4 DEF Offset
  <2>6. 2 * size <= FramebufferSize - GfxLayerSize
    BY <2>2
  <2> HIDE DEF offset
  <2>7. offset + size <= last \/ last + size <= offset
    BY <2>3, <2>4, <2>5, <2>6
  <2>8. xv'.written.offset = offset /\ xv'.written.size = size
    BY <2>2 DEF offset
  <2>9. offset \in Nat
    BY <2>3, <2>4, <2>5
  <2>10. QED
    BY <2>3, <2>4, <2>7, <2>8, <2>9 DEF Overlap
<1>3. Spec => []CycleInv
  BY <1>1, NextCycle, InvCorrect, PTL DEF Spec
<1>4. QED
  BY <1>2, <1>3, InvCorrect, PTL DEF Spec, FramesAlternate
=============================================================================
