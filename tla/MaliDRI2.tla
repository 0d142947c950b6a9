------------------------------ MODULE MaliDRI2 ------------------------------
(***************************************************************************)
(* The DRI2 glue of sunxi_mali_ump_dri2.c: which buffer objects (BOs) a    *)
(* window's DRI2 requests get, how CopyRegion presents them, and when the  *)
(* display controller layer (the "overlay") covers the overlay window.     *)
(*                                                                         *)
(* The X server is single threaded: every action is one call of the        *)
(* server into the driver, or one request that changes the window tree     *)
(* together with the hooks it runs.  A DRI2GetBuffers request is two       *)
(* calls, CreateBuffer2 and then DestroyBuffer2 of the buffer it replaces; *)
(* in between, the replaced buffer sits in the slot Replaced(w) and        *)
(* nothing else can run.                                                   *)
(***************************************************************************)
EXTENDS WindowTree, BufferInfo

CONSTANTS
  NoWin,             \* NULL for pOverlayWin
  OffscreenSize,     \* framebuffer_size - gfx_layer_size
  UseOverlay,        \* disp # NULL and ump_fb_secure_id is valid
  NullIdIsSmall,     \* bo_null_secure_id <= 2
  ClientsWriteFront  \* clients may draw to the buffer that is on display

ASSUME MaliDRI2Assumption ==
  /\ Clients \subseteq Windows
  /\ IsFiniteSet(Clients)
  /\ NoWin \notin Windows
  /\ OffscreenSize \in Nat
  /\ UseOverlay \in BOOLEAN
  /\ NullIdIsSmall \in BOOLEAN
  /\ ClientsWriteFront \in BOOLEAN

VARIABLES
  tree,   \* the X server's window tree
  bo,     \* the BOInfoRec structures
  ptr,    \* who points at them: one entry per slot of BufferInfo
  state,  \* DRI2WindowStateRec of each client window
  mali,   \* the overlay fields of FBTurboMaliDRI2
  layer,  \* the display controller layer
  frame   \* history: where the last frame swapped in a window went

vars == <<tree, bo, ptr, state, mali, layer, frame>>

\* buf_request_cnt and buf_swap_cnt are only read as "& 1": parities suffice.
WindowState == [allocated : BOOLEAN, size : Sizes \union {0},
                requests : {0, 1}, swaps : {0, 1},
                head : Indices, tail : Indices]

NoState == [allocated |-> FALSE, size |-> 0, requests |-> 0, swaps |-> 0,
            head |-> 0, tail |-> 0]

OverlayFields == [pOverlayWin : Clients \union {NoWin},
                  pOverlayDirtyBO : BOs \union {NoBO},
                  bOverlayWinEnabled : BOOLEAN,
                  bHardwareCursorIsInUse : BOOLEAN,
                  overlay_x : Positions \union {0}]

Layer == [shown : BOOLEAN, x : Positions \union {0},
          size : Sizes \union {0}, src : BOs \union {NoBO}]

\* "flipped": only the layer shows the last frame; "flushed": the layer does,
\* and the window's pixmap has it too; "copied": only the pixmap has it.
FrameStatus == {"none", "flipped", "flushed", "copied"}

TypeOK ==
  /\ tree \in Trees
  /\ bo \in [BOs -> BOInfo]
  /\ ptr \in [Slots -> BOs \union {NoBO}]
  /\ state \in [Clients -> WindowState]
  /\ mali \in OverlayFields
  /\ layer \in Layer
  /\ frame \in [Clients -> FrameStatus]

Init ==
  /\ tree = EmptyTree
  /\ bo = [b \in BOs |-> Unused]
  /\ ptr = [s \in Slots |-> NoBO]
  /\ state = [w \in Clients |-> NoState]
  /\ mali = [pOverlayWin |-> NoWin, pOverlayDirtyBO |-> NoBO,
             bOverlayWinEnabled |-> FALSE, bHardwareCursorIsInUse |-> FALSE,
             overlay_x |-> 0]
  /\ layer = [shown |-> FALSE, x |-> 0, size |-> 0, src |-> NoBO]
  /\ frame = [w \in Clients |-> "none"]

\* No DRI2GetBuffers request is half way through.
BetweenRequests == \A w \in Clients : ptr[Replaced(w)] = NoBO

\* Structures calloc may return: no pointer of the driver leads to them.
FreeBOs == {b \in BOs : /\ \A s \in Slots : ptr[s] # b
                        /\ mali.pOverlayDirtyBO # b
                        /\ layer.src # b}

-----------------------------------------------------------------------------
(***************************************************************************)
(* The overlay.  The operators below map an overlay status, a record with  *)
(* the fields mali, layer and frame, to the status a C function leaves.    *)
(***************************************************************************)
Overlay == [mali |-> mali, layer |-> layer, frame |-> frame]

SetOverlay(o) == mali' = o.mali /\ layer' = o.layer /\ frame' = o.frame

\* Copy pOverlayDirtyBO to the window and forget it.
FlushOverlay(o) ==
  IF o.mali.pOverlayWin # NoWin /\ o.mali.pOverlayDirtyBO # NoBO
  THEN [o EXCEPT !.mali.pOverlayDirtyBO = NoBO,
                 !.frame[o.mali.pOverlayWin] = IF @ = "flipped" THEN "flushed" ELSE @]
  ELSE o

\* sunxi_layer_hide and the frame it takes off the screen.
HideLayer(o) == [o EXCEPT !.layer.shown = FALSE]

DisableOverlay(o) ==
  IF o.mali.bOverlayWinEnabled
  THEN [HideLayer(o) EXCEPT !.mali.bOverlayWinEnabled = FALSE]
  ELSE o

\* Mutated form: the layer is shown where it was left.
EnableOverlayInPlace(o, t) ==
  [o EXCEPT !.mali.overlay_x = Column(t, o.mali.pOverlayWin),
            !.mali.bOverlayWinEnabled = TRUE,
            !.layer.shown = @ \/ ~o.mali.bOverlayWinEnabled]

\* The window is unobscured: follow it if it moved, and show the layer.
EnableOverlay(o, t) ==
  LET w == o.mali.pOverlayWin
      moved == o.mali.overlay_x # Column(t, w)
  IN [o EXCEPT !.mali.overlay_x = Column(t, w),
               !.mali.bOverlayWinEnabled = TRUE,
               !.layer.x = IF moved THEN Column(t, w) ELSE @,
               !.layer.size = IF moved THEN t.size[w] ELSE @,
               !.layer.shown = @ \/ ~o.mali.bOverlayWinEnabled]

UpdateOverlay(o, t) ==
  LET w == o.mali.pOverlayWin IN
  CASE w = NoWin \/ ~UseOverlay -> o
    [] w # NoWin /\ UseOverlay
         /\ (~o.mali.bHardwareCursorIsInUse \/ w \notin t.mapped) -> DisableOverlay(o)
    [] w # NoWin /\ UseOverlay /\ o.mali.bHardwareCursorIsInUse
         /\ w \in t.mapped /\ Overlapped(t, w) ->
           IF o.mali.bOverlayWinEnabled THEN DisableOverlay(FlushOverlay(o)) ELSE o
    [] OTHER -> EnableOverlay(o, t)

-----------------------------------------------------------------------------
(***************************************************************************)
(* The window tree.  A request that changes it ends in PostValidateTree    *)
(* when the window is (or was) realized; the hook calls UpdateOverlay.     *)
(***************************************************************************)
ChangeTree(t, validated) ==
  /\ BetweenRequests
  /\ tree' = t
  /\ IF validated THEN SetOverlay(UpdateOverlay(Overlay, t))
                  ELSE UNCHANGED <<mali, layer, frame>>
  /\ UNCHANGED <<bo, ptr, state>>

CreateWindow(w) ==
  /\ w \notin tree.exists
  /\ Parent[w] \in tree.exists \union {Root}
  /\ \E s \in Sizes, x \in Positions : ChangeTree(Created(tree, w, s, x), FALSE)

MapWindow(w) ==
  /\ w \in tree.exists \ tree.mapped
  /\ ChangeTree(Mapped(tree, w), Realized(Mapped(tree, w), w))

UnmapWindow(w) ==
  /\ w \in tree.mapped
  /\ ChangeTree(Unmapped(tree, w), Realized(tree, w))

MoveWindow(w) ==
  /\ w \in tree.exists /\ Top(w) = w
  /\ \E x \in Positions \ {tree.x[w]} : ChangeTree(Moved(tree, w, x), Realized(tree, w))

ResizeWindow(w) ==
  /\ w \in tree.exists
  /\ \E s \in Sizes \ {tree.size[w]} : ChangeTree(Resized(tree, w, s), Realized(tree, w))

RaiseWindow(w) ==
  /\ w \in tree.exists
  /\ Raised(tree, w) # tree
  /\ ChangeTree(Raised(tree, w), Realized(tree, w))

\* The server unmaps the window (PostValidateTree runs), then calls the hook.
\* DRI2 has destroyed the drawable's buffers before.
DestroyWindow(w) ==
  LET unmapped == IF Realized(tree, w) THEN UpdateOverlay(Overlay, Unmapped(tree, w))
                                       ELSE Overlay
      owner == unmapped.mali.pOverlayWin = w
  IN /\ BetweenRequests
     /\ w \in tree.exists
     /\ \A v \in tree.exists : Parent[v] # w
     /\ tree' = Destroyed(tree, w)
     /\ IF w \in Clients
        THEN /\ ptr[Buffer(w)] = NoBO
             /\ bo' = Unref(Unref(Unref(bo, ptr[Mem(w)]), ptr[Back(w)]), ptr[Front(w)])
             /\ ptr' = [s \in Slots |-> IF s[2] = w THEN NoBO ELSE ptr[s]]
             /\ state' = [state EXCEPT ![w] = NoState]
             /\ mali' = [unmapped.mali EXCEPT !.pOverlayWin = IF owner THEN NoWin ELSE @]
             /\ layer' = [unmapped.layer EXCEPT !.shown = IF owner THEN FALSE ELSE @]
             /\ frame' = [unmapped.frame EXCEPT ![w] = "none"]
        ELSE /\ SetOverlay(unmapped)
             /\ UNCHANGED <<bo, ptr, state>>

EnableHWCursor ==
  /\ BetweenRequests
  /\ SetOverlay(UpdateOverlay([Overlay EXCEPT !.mali.bHardwareCursorIsInUse = TRUE], tree))
  /\ UNCHANGED <<tree, bo, ptr, state>>

DisableHWCursor ==
  /\ BetweenRequests
  /\ SetOverlay(UpdateOverlay([Overlay EXCEPT !.mali.bHardwareCursorIsInUse = FALSE], tree))
  /\ UNCHANGED <<tree, bo, ptr, state>>

\* A screenshot.
GetImage ==
  /\ BetweenRequests
  /\ SetOverlay(FlushOverlay(Overlay))
  /\ UNCHANGED <<tree, bo, ptr, state>>

-----------------------------------------------------------------------------
(***************************************************************************)
(* MaliDRI2CreateBuffer2 and MaliDRI2DestroyBuffer2.                       *)
(***************************************************************************)
\* Mutated form: nobody asks whether the overlay is taken.
CanShareOverlay(w) ==
  UseOverlay /\ tree.size[w] # 1 /\ 2 * tree.size[w] <= OffscreenSize

CanUseOverlay(w) ==
  /\ UseOverlay
  /\ mali.pOverlayWin \in {NoWin, w}
  /\ tree.size[w] # 1
  /\ 2 * tree.size[w] <= OffscreenSize

\* The parity of buf_request_cnt once this request is counted.
RequestParity(w) == 1 - state[w].requests

\* An even request whose size is not the one the odd request saved.
NeedResizeWorkaround(w) ==
  /\ RequestParity(w) = 0
  /\ tree.size[w] # state[w].size
  /\ NullIdIsSmall

\* The bookkeeping of every BackLeft request.
Booked(w) ==
  [state[w] EXCEPT !.allocated = TRUE,
                   !.requests = RequestParity(w),
                   !.size = IF RequestParity(w) = 1 THEN tree.size[w] ELSE @]

\* The drawable gets a new buffer; the server still has the old one.
Handover(p, w, b) == [p EXCEPT ![Buffer(w)] = b, ![Replaced(w)] = ptr[Buffer(w)]]

RequestBuffer(w) == BetweenRequests /\ w \in tree.exists

\* An attachment other than BackLeft gets a dummy and changes nothing else.
CreateDummyBuffer(w, b) ==
  /\ RequestBuffer(w)
  /\ b \in FreeBOs
  /\ bo' = [bo EXCEPT ![b] = Fresh("aux", tree.size[w], 1)]
  /\ ptr' = Handover(ptr, w, b)
  /\ UNCHANGED <<tree, state, mali, layer, frame>>

\* Mutated form: bo_add_to_queue overwrites the slot at the head.
QueueOverwrites(w) == FALSE

\* bo_add_to_queue refuses a BO when the slot at the head is taken; the caller
\* counts the queue's reference all the same.
QueueOverflow(w) == ptr[Queue(w, state[w].head)] # NoBO

CreateOverlayBuffer(w, b) ==
  LET kind == IF RequestParity(w) = 1 THEN "odd" ELSE "even"
      queued == IF QueueOverflow(w) THEN ptr ELSE [ptr EXCEPT ![Queue(w, state[w].head)] = b]
  IN /\ RequestBuffer(w)
     /\ CanUseOverlay(w)
     /\ b \in FreeBOs
     /\ bo' = [Unref(bo, ptr[Mem(w)]) EXCEPT ![b] = Fresh(kind, tree.size[w], 2)]
     /\ ptr' = Handover([queued EXCEPT ![Mem(w)] = NoBO], w, b)
     /\ state' = [state EXCEPT ![w] =
                    [Booked(w) EXCEPT !.head = IF QueueOverflow(w) THEN @ ELSE NextIndex(@)]]
     /\ mali' = [mali EXCEPT !.pOverlayWin = w]
     /\ UNCHANGED <<tree, layer, frame>>

\* Mutated form: the released buffers are not forgotten.
KeepOverlayPointers(w) == ptr

\* The non-overlay path first drops the overlay's back and front buffers.
DropOverlayBuffers(w) == Unref(Unref(bo, ptr[Back(w)]), ptr[Front(w)])
DropOverlayPointers(w) == [ptr EXCEPT ![Back(w)] = NoBO, ![Front(w)] = NoBO]

CreateNullBuffer(w, b) ==
  /\ RequestBuffer(w)
  /\ ~CanUseOverlay(w)
  /\ NeedResizeWorkaround(w)
  /\ b \in FreeBOs
  /\ bo' = [Unref(DropOverlayBuffers(w), ptr[Mem(w)])
              EXCEPT ![b] = Fresh("null", tree.size[w], 1)]
  /\ ptr' = Handover([DropOverlayPointers(w) EXCEPT ![Mem(w)] = NoBO], w, b)
  /\ state' = [state EXCEPT ![w] = Booked(w)]
  /\ UNCHANGED <<tree, mali, layer, frame>>

ReuseMemBuffer(w) ==
  LET mem == ptr[Mem(w)] IN
  /\ RequestBuffer(w)
  /\ ~CanUseOverlay(w)
  /\ ~NeedResizeWorkaround(w)
  /\ mem # NoBO
  /\ bo[mem].size = tree.size[w]
  /\ bo' = [DropOverlayBuffers(w) EXCEPT ![mem].refcount = @ + 1]
  /\ ptr' = Handover(DropOverlayPointers(w), w, mem)
  /\ state' = [state EXCEPT ![w] = Booked(w)]
  /\ UNCHANGED <<tree, mali, layer, frame>>

AllocMemBuffer(w, b) ==
  LET mem == ptr[Mem(w)] IN
  /\ RequestBuffer(w)
  /\ ~CanUseOverlay(w)
  /\ ~NeedResizeWorkaround(w)
  /\ mem # NoBO => bo[mem].size # tree.size[w]
  /\ b \in FreeBOs
  /\ bo' = [Unref(DropOverlayBuffers(w), mem) EXCEPT ![b] = Fresh("mem", tree.size[w], 2)]
  /\ ptr' = Handover([DropOverlayPointers(w) EXCEPT ![Mem(w)] = b], w, b)
  /\ state' = [state EXCEPT ![w] = Booked(w)]
  /\ UNCHANGED <<tree, mali, layer, frame>>

DestroyBuffer(s) ==
  /\ ptr[s] # NoBO
  /\ mali' = [mali EXCEPT !.pOverlayDirtyBO = IF @ = ptr[s] THEN NoBO ELSE @]
  /\ bo' = Unref(bo, ptr[s])
  /\ ptr' = [ptr EXCEPT ![s] = NoBO]
  /\ UNCHANGED <<tree, state, layer, frame>>

\* The second half of DRI2GetBuffers.
DestroyReplacedBuffer(w) == DestroyBuffer(Replaced(w))

\* The client gave the drawable up, or the window is about to be destroyed.
DestroyDrawableBuffer(w) == BetweenRequests /\ DestroyBuffer(Buffer(w))

-----------------------------------------------------------------------------
(***************************************************************************)
(* MaliDRI2CopyRegion2: a buffer swap.  A swap status has the fields bo,   *)
(* back, front and swaps, and each operator is one paragraph of the        *)
(* function.                                                               *)
(***************************************************************************)
\* bo_fetch_from_queue: NULL when the two ends meet.
QueueEmpty(w) == state[w].tail = state[w].head
Fetched(w) == IF QueueEmpty(w) THEN NoBO ELSE ptr[Queue(w, state[w].tail)]

Live(f, b) == b # NoBO /\ f[b].addr

\* Two distinct buffers with an address: they can be told apart by checksum.
Comparable(r) == Live(r.bo, r.front) /\ Live(r.bo, r.back) /\ r.front # r.back

\* Only one of the two is compared per swap; the outcome of the comparison of
\* sampled bytes is any that the drawing of the client can produce.
OrderCheck(r, front_modified, back_modified) ==
  LET forgotten == [r.bo EXCEPT ![r.front].has_checksum = FALSE,
                                ![r.back].has_checksum = FALSE]
      passed == [forgotten EXCEPT ![r.front].passed = TRUE, ![r.back].passed = TRUE]
  IN [r EXCEPT !.bo = IF back_modified /\ ~front_modified THEN passed ELSE forgotten,
               !.back = IF front_modified THEN r.front ELSE @,
               !.front = IF front_modified THEN r.back ELSE @]

\* Mutated form: the flags of a BO from the queue are not looked at.
OrderIgnored(r, b) == FALSE

\* An odd frame is never taken by the swap that makes the count even, nor an
\* even one by the swap that makes it odd: that swap is skipped.
WrongOrder(r, b) ==
  b # NoBO /\ \/ r.bo[b].kind = "odd" /\ r.swaps = 1
              \/ r.bo[b].kind = "even" /\ r.swaps = 0

SwapBuffers(r, b) ==
  IF WrongOrder(r, b) THEN r
  ELSE [r EXCEPT !.back = r.front, !.front = r.back, !.swaps = 1 - @]

ReplaceFront(r, b) ==
  IF b = NoBO THEN r ELSE [r EXCEPT !.bo = Unref(@, r.front), !.front = b]

SaveChecksums(r) ==
  [r EXCEPT !.bo = [b \in BOs |->
     IF b \in {r.front, r.back} /\ ~r.bo[b].passed
     THEN [r.bo[b] EXCEPT !.has_checksum = TRUE] ELSE r.bo[b]]]

\* The last part: the frame b is copied to the window, or shown by the layer.
CopyToWindow(o, w) ==
  [o EXCEPT !.mali.pOverlayDirtyBO = NoBO, !.frame[w] = "copied"]

FlipLayer(o, w, b) ==
  [o EXCEPT !.mali.pOverlayDirtyBO = b, !.frame[w] = "flipped",
            !.layer = [shown |-> TRUE, x |-> Column(tree, w),
                       size |-> tree.size[w], src |-> b]]

Present(w, b, f) ==
  LET o == UpdateOverlay(Overlay, tree) IN
  IF ~o.mali.bOverlayWinEnabled \/ f[b].handle THEN CopyToWindow(o, w)
                                               ELSE FlipLayer(o, w, b)

\* The slots after the swap.
SwappedPtr(w, r) ==
  [ptr EXCEPT ![Back(w)] = r.back, ![Front(w)] = r.front,
              ![Queue(w, state[w].tail)] = IF QueueEmpty(w) THEN @ ELSE NoBO]

BeforeSwap(w) ==
  [bo |-> bo, back |-> ptr[Back(w)], front |-> ptr[Front(w)], swaps |-> state[w].swaps]

\* The order is only checked when no new BO comes out of the queue.
NeedsOrderCheck(w) == Fetched(w) = NoBO /\ Comparable(BeforeSwap(w))

AfterSwap(w, front_modified, back_modified) ==
  LET r == IF NeedsOrderCheck(w)
           THEN OrderCheck(BeforeSwap(w), front_modified, back_modified)
           ELSE BeforeSwap(w)
  IN ReplaceFront(SwapBuffers(r, Fetched(w)), Fetched(w))

Shown(w, r) == IF r.front # NoBO THEN r.front ELSE ptr[Mem(w)]

\* For a window of this screen: the return for a window of another one that has no
\* PRIME drawable changes nothing.
CopyRegion(w, front_modified, back_modified) ==
  LET r == AfterSwap(w, front_modified, back_modified)
      shown == Shown(w, r)
      live == Live(r.bo, shown)
      r3 == IF live /\ Comparable(r) THEN SaveChecksums(r) ELSE r
  IN /\ BetweenRequests
     /\ ptr[Buffer(w)] # NoBO
     /\ bo[ptr[Buffer(w)]].kind # "aux"
     /\ state[w].allocated
     /\ front_modified => /\ ClientsWriteFront
                          /\ NeedsOrderCheck(w)
                          /\ bo[ptr[Front(w)]].has_checksum
     /\ back_modified => NeedsOrderCheck(w) /\ bo[ptr[Back(w)]].has_checksum
     /\ bo' = r3.bo
     /\ ptr' = SwappedPtr(w, r3)
     /\ state' = [state EXCEPT ![w].swaps = r3.swaps,
                               ![w].tail = IF QueueEmpty(w) THEN @ ELSE NextIndex(@)]
     /\ IF live THEN SetOverlay(Present(w, shown, r3.bo))
                ELSE UNCHANGED <<mali, layer, frame>>
     /\ UNCHANGED tree

-----------------------------------------------------------------------------
TreeStep ==
  \E w \in Windows :
    \/ CreateWindow(w)
    \/ MapWindow(w)
    \/ UnmapWindow(w)
    \/ MoveWindow(w)
    \/ ResizeWindow(w)
    \/ RaiseWindow(w)
    \/ DestroyWindow(w)

HookStep == EnableHWCursor \/ DisableHWCursor \/ GetImage

BufferStep ==
  \E w \in Clients :
    \/ \E b \in BOs : \/ CreateDummyBuffer(w, b)
                      \/ CreateOverlayBuffer(w, b)
                      \/ CreateNullBuffer(w, b)
                      \/ AllocMemBuffer(w, b)
    \/ ReuseMemBuffer(w)
    \/ DestroyReplacedBuffer(w)
    \/ DestroyDrawableBuffer(w)

SwapStep ==
  \E w \in Clients, front_modified, back_modified \in BOOLEAN :
    CopyRegion(w, front_modified, back_modified)

Next == TreeStep \/ HookStep \/ BufferStep \/ SwapStep

Spec == Init /\ [][Next]_vars

-----------------------------------------------------------------------------
(***************************************************************************)
(* Properties.                                                             *)
(***************************************************************************)
\* A BO is released only when the last pointer to it is gone: the reference
\* count covers the window state's pointers and the DRI2 buffers, through
\* every order of requests, swaps, fallbacks and window destruction
\* (refcount++ in CreateBuffer2 against unref_bo_info).
RefcountCoversHolders ==
  \A b \in BOs : Cardinality(Holders(ptr, b)) <= bo[b].refcount

\* The offscreen framebuffer has one owner: BOs that wrap it are the back,
\* front or queued buffer of no window but pOverlayWin, so two windows never
\* scan out or copy from each other's frames (the pOverlayWin test of
\* CreateBuffer2 against the clean-up of DestroyWindow).
OverlayHasOneOwner ==
  \A w \in Clients, b \in BOs :
    /\ bo[b].kind \in Frames
    /\ \/ ptr[Back(w)] = b \/ ptr[Front(w)] = b
       \/ \E i \in Indices : ptr[Queue(w, i)] = b
    => w = mali.pOverlayWin

\* What the walk of UpdateOverlay has to find: a window that can be seen in front
\* of w, as it is inside w, or as it or its frame is stacked above w or w's frame.
Obscured(w) ==
  \E v \in tree.exists \ {w} :
    /\ Realized(tree, v) /\ BoxesOverlap(tree, v, w)
    /\ \/ Parent[v] = w
       \/ \E p \in {w, Top(w)}, q \in {v, Top(v)} : <<p, q>> \in tree.below

\* The layer is on screen only for an overlay window that exists, only while
\* the hardware cursor (which is above the layer) is in use, and, if the window
\* is viewable, only while nothing visible is above it.
LayerOnlyWhenUnobscured ==
  layer.shown =>
    /\ mali.bOverlayWinEnabled
    /\ mali.bHardwareCursorIsInUse
    /\ mali.pOverlayWin \in tree.exists
    /\ Realized(tree, mali.pOverlayWin) => ~Obscured(mali.pOverlayWin)

\* The layer is where the overlay window is whenever both are visible, although
\* set_output_window is skipped while overlay_x says the window has not moved.
LayerTracksWindow ==
  layer.shown /\ Realized(tree, mali.pOverlayWin)
    => layer.x = Column(tree, mali.pOverlayWin)

\* BO_MUST_BE_ODD_FRAME and BO_MUST_BE_EVEN_FRAME are respected: after every
\* swap the parity of the front buffer is that of buf_swap_cnt, and the back
\* buffer has the other one, so the two never are the same memory.
FrameParity ==
  \A w \in Clients :
    LET front == ptr[Front(w)] back == ptr[Back(w)] IN
    /\ front # NoBO /\ bo[front].kind \in Frames =>
         (bo[front].kind = "odd") = (state[w].swaps = 1)
    /\ back # NoBO /\ bo[back].kind \in Frames =>
         (bo[back].kind = "odd") = (state[w].swaps = 0)

\* The queue is the cyclic interval from tail to head: BOs inside it, NULL
\* outside, either way around when the two ends meet.
QueueShape ==
  \A w \in Clients, i \in Indices :
    LET head == state[w].head tail == state[w].tail IN
    head # tail =>
      (ptr[Queue(w, i)] # NoBO) =
        IF tail < head THEN tail <= i /\ i < head ELSE tail <= i \/ i < head
=============================================================================
