------------------------------ MODULE XvOverlay ------------------------------
(***************************************************************************)
(* The XV port of sunxi_video.c, on the layer it shares with the DRI2      *)
(* overlay window.  Nothing in the driver keeps the two apart: the layer   *)
(* shows what the last caller set.  Each action is one call of the server. *)
(* Of the DRI2 side (module MaliDRI2) only the calls on the layer are      *)
(* kept; whether its window is viewable and unobscured is a free choice.   *)
(***************************************************************************)
EXTENDS DispLayer

CONSTANTS
  FrameSizes,  \* rows of the video frames, each row one unit of memory
  Rows,        \* the rows of the screen, and above it, where windows are put
  Heights,     \* the heights windows have
  Colors,      \* color keys
  Clips,       \* clip regions of the window the video is in
  NoClip,      \* the empty region
  Contended    \* the scaler may be in use elsewhere

ASSUME XvOverlayAssumption ==
  /\ FrameSizes \subseteq Nat \ {0}
  /\ Rows \subseteq Int
  /\ Heights \subseteq Nat \ {0} /\ Heights # {}
  /\ NoClip \notin Clips
  /\ Contended \in BOOLEAN

VARIABLES
  disp,  \* the layer
  xv,    \* SunxiVideo, and the color the clip region was painted with
  dri2   \* the overlay window of DRI2, and overlay_y, bOverlayWinEnabled

vars == <<disp, xv, dri2>>

\* key is the color key register.  puts, written and steady are history: puts
\* alternates with every frame copied to the offscreen memory, written is the
\* memory of the last one, and steady says that the client only ever sent frames
\* of one size.
Video == [colorKey : Colors, key : Colors, colorKeyEnabled : BOOLEAN,
          painted : Colors, clip : Clips \union {NoClip},
          overlay_data_offs : Nat, puts : {0, 1},
          written : [offset : Nat, size : Nat], steady : BOOLEAN]

Dri2 == [exists : BOOLEAN, y : Rows \union {0}, overlay_y : Rows \union {0},
         enabled : BOOLEAN]

TypeOK == disp \in Layers /\ xv \in Video /\ dri2 \in Dri2

Init ==
  /\ disp = Reserved
  /\ \E c \in Colors :
       xv = [colorKey |-> c, key |-> c, colorKeyEnabled |-> FALSE, painted |-> c,
             clip |-> NoClip, overlay_data_offs |-> 0, puts |-> 0,
             written |-> [offset |-> 0, size |-> 0], steady |-> TRUE]
  /\ dri2 = [exists |-> FALSE, y |-> 0, overlay_y |-> 0, enabled |-> FALSE]

\* May the layer get the scaler, if it asks?
Free == IF Contended THEN BOOLEAN ELSE {TRUE}

Windows == [y : Rows, h : Heights]

-----------------------------------------------------------------------------
(***************************************************************************)
(* The XV port.                                                            *)
(***************************************************************************)
\* Where the next frame goes.
Offset(size) ==
  IF xv.overlay_data_offs < GfxLayerSize \/ xv.overlay_data_offs + size > FramebufferSize
  THEN GfxLayerSize ELSE xv.overlay_data_offs

\* Mutated form: the primary layer is forgotten.
NoRoomAtAll(offset, size) == size > FramebufferSize

NoRoom(offset, size) == offset + size > FramebufferSize

\* Mutated form: every frame goes to the same place.
StayingAt(offset, size) == offset

\* Mutated form: the frames go down from the first one.
GoingDown(offset, size) == offset - size

NextOffset(offset, size) == offset + size

\* A frame that is not clipped away.  There is no room for some frames.
PutImage(size, w, clip, free) ==
  LET offset == Offset(size)
      frame == [kind |-> "video", offset |-> offset, size |-> size]
      keyed == IF xv.colorKeyEnabled THEN disp ELSE SetColorKey(disp)
      key == IF xv.colorKeyEnabled THEN xv.key ELSE xv.colorKey
      input == SetYuvInput(keyed, frame, [y |-> 0, h |-> size], free)
  IN /\ IF NoRoom(offset, size)
        THEN /\ xv' = [xv EXCEPT !.overlay_data_offs = offset, !.steady = FALSE]
             /\ UNCHANGED disp
        ELSE /\ disp' = Show(SetOutputWindow(input, w), free)
             /\ xv' = [xv EXCEPT !.overlay_data_offs = NextOffset(offset, size),
                                 !.colorKeyEnabled = TRUE, !.key = key,
                                 !.puts = 1 - @,
                                 !.written = [offset |-> offset, size |-> size],
                                 !.steady = @ /\ xv.written.size \in {0, size},
                                 !.clip = clip,
                                 !.painted = IF xv.clip # clip THEN xv.colorKey ELSE @]
     /\ UNCHANGED dri2

\* The window the video is in was moved.
ReputImage(w) ==
  /\ disp' = SetOutputWindow(disp, w)
  /\ UNCHANGED <<xv, dri2>>

StopVideo(cleanup) ==
  /\ disp' = IF cleanup THEN DisableColorKey(Hide(disp)) ELSE disp
  /\ xv' = [xv EXCEPT !.colorKeyEnabled = @ /\ ~cleanup, !.clip = NoClip]
  /\ UNCHANGED dri2

\* Mutated form: the region painted with the old color is not forgotten.
ClipKept(r) == r.clip

ClipAfterNewColor(r) == NoClip

SetColorKeyAttribute(color) ==
  /\ disp' = SetColorKey(disp)
  /\ xv' = [xv EXCEPT !.colorKey = color, !.key = color, !.colorKeyEnabled = TRUE,
                      !.clip = ClipAfterNewColor(xv)]
  /\ UNCHANGED dri2

-----------------------------------------------------------------------------
(***************************************************************************)
(* The DRI2 overlay window.                                                *)
(***************************************************************************)
Dri2Window(o) == [y |-> o.y, h |-> CHOOSE h \in Heights : TRUE]

Dri2Frame == [kind |-> "dri2", offset |-> GfxLayerSize, size |-> 1]

\* UpdateOverlay, for a window that is or is not to be on the layer.
UpdateOverlay(d, o, visible, free) ==
  LET moved == o.overlay_y # o.y
      placed == IF moved THEN SetOutputWindow(d, Dri2Window(o)) ELSE d
  IN CASE visible -> [disp |-> IF o.enabled THEN placed ELSE Show(placed, free),
                      dri2 |-> [o EXCEPT !.enabled = TRUE, !.overlay_y = o.y]]
       [] ~visible -> [disp |-> IF o.enabled THEN Hide(d) ELSE d,
                       dri2 |-> [o EXCEPT !.enabled = FALSE]]

\* A client gets its first overlay buffer.
Dri2Start(y) ==
  /\ ~dri2.exists
  /\ dri2' = [dri2 EXCEPT !.exists = TRUE, !.y = y]
  /\ UNCHANGED <<disp, xv>>

\* The window tree changes around the overlay window or moves it.
Dri2Update(y, visible, free) ==
  LET r == UpdateOverlay(disp, [dri2 EXCEPT !.y = y], visible, free) IN
  /\ dri2.exists
  /\ disp' = r.disp /\ dri2' = r.dri2
  /\ UNCHANGED xv

Dri2Swap(visible, free) ==
  LET r == UpdateOverlay(disp, dri2, visible, free)
      placed == SetOutputWindow(r.disp, Dri2Window(dri2))
  IN /\ dri2.exists
     /\ dri2' = r.dri2
     /\ disp' = IF r.dri2.enabled
                THEN Show(SetRgbInput(placed, Dri2Frame, Dri2Window(dri2).h), free)
                ELSE r.disp
     /\ UNCHANGED xv

\* DestroyWindow leaves bOverlayWinEnabled.
Dri2Destroy ==
  /\ dri2.exists
  /\ disp' = Hide(disp)
  /\ dri2' = [dri2 EXCEPT !.exists = FALSE]
  /\ UNCHANGED xv

Next ==
  \/ \E size \in FrameSizes, w \in Windows, clip \in Clips, free \in Free :
       PutImage(size, w, clip, free)
  \/ \E w \in Windows : ReputImage(w)
  \/ \E cleanup \in BOOLEAN : StopVideo(cleanup)
  \/ \E color \in Colors : SetColorKeyAttribute(color)
  \/ \E y \in Rows : Dri2Start(y)
  \/ \E y \in Rows, visible \in BOOLEAN, free \in Free : Dri2Update(y, visible, free)
  \/ \E visible \in BOOLEAN, free \in Free : Dri2Swap(visible, free)
  \/ Dri2Destroy

Spec == Init /\ [][Next]_vars

-----------------------------------------------------------------------------
\* The scaler is held exactly as long as it is needed, whoever uses the layer: a
\* hidden layer keeps no other user of the scaler out, and video is shown through
\* it unless the scaler was refused.
ScalerFollowsVideo ==
  /\ ~disp.open => ~disp.scaled
  /\ disp.open /\ disp.format = "yuv" => disp.scaled \/ disp.denied
  /\ disp.scaler = disp.scaled

\* Wherever a window was moved before, also above the screen and out of it: each
\* row of the video is at its place in the window last asked for (rounded to
\* rows of the video), and nothing of it is lost below.
SourceMatchesWindow ==
  LET w == disp.asked
      cut == disp.scn.y - w.y
  IN disp.open /\ disp.format = "yuv" /\ w.h > 0 =>
       IF w.y + w.h <= 0 THEN disp.scn = Nowhere
       ELSE /\ disp.scn.y = w.y + Above(w.y)
            /\ disp.scn.y + disp.scn.h = w.y + w.h
            /\ disp.src.y + disp.src.h = disp.buf.y + disp.buf.h
            /\ cut * disp.buf.h - (disp.src.y - disp.buf.y) * w.h \in 0 .. w.h - 1

\* The keyed region is painted with the color the controller looks for, although
\* it is only painted again when the clip region has changed, and the driver
\* knows whether the controller looks for it at all.
KeyColorMatches ==
  /\ disp.keyed = xv.colorKeyEnabled
  /\ disp.keyed /\ xv.clip # NoClip => xv.painted = xv.key

\* No frame of the video reaches into the primary layer or out of the
\* framebuffer, whatever sizes the frames have.
FramesStayOffscreen ==
  disp.source.kind = "video" =>
    /\ GfxLayerSize <= disp.source.offset
    /\ disp.source.offset + disp.source.size <= FramebufferSize

Overlap(r, s) == r.offset < s.offset + s.size /\ s.offset < r.offset + r.size

\* "Cycle through different overlay offsets (to prevent tearing)": as long as all
\* frames have one size, none is written over the one on display, if there is
\* room for two.
FramesAlternate ==
  [][ /\ xv'.puts # xv.puts
      /\ xv'.steady
      /\ 2 * xv'.written.size <= FramebufferSize - GfxLayerSize
      /\ disp.open /\ disp.source.kind = "video"
      /\ disp.source.offset = xv.written.offset
      => ~Overlap(disp.source, xv'.written) ]_vars
=============================================================================
