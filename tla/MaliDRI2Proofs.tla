--------------------------- MODULE MaliDRI2Proofs ---------------------------
(***************************************************************************)
(* Proofs about MaliDRI2, for every window tree, every set of clients and  *)
(* every queue size.                                                       *)
(***************************************************************************)
EXTENDS MaliDRI2, FiniteSetTheorems, TLAPS

USE DEF Frames, Kinds, WindowSlots

-----------------------------------------------------------------------------
(***************************************************************************)
(* Types.                                                                  *)
(***************************************************************************)
Pointer == BOs \union {NoBO}

\* The two records the operators of MaliDRI2 work on.
OverlayStatus == [mali : OverlayFields, layer : Layer, frame : [Clients -> FrameStatus]]
SwapStatus == [bo : [BOs -> BOInfo], back : Pointer, front : Pointer, swaps : {0, 1}]

\* The named slots are slots, and distinct names are distinct slots.
LEMMA SlotNames ==
  ASSUME NEW w \in Clients
  PROVE  /\ Mem(w) \in Slots
         /\ Back(w) \in Slots
         /\ Front(w) \in Slots
         /\ Buffer(w) \in Slots
         /\ Replaced(w) \in Slots
         /\ \A i \in Indices : Queue(w, i) \in Slots
BY DEF Slots, Mem, Back, Front, Buffer, Replaced, Queue

\* The ring index stays in the ring.
LEMMA NextIndexInRing ==
  ASSUME NEW i \in Indices
  PROVE  NextIndex(i) \in Indices
BY BufferInfoAssumption DEF Indices, NextIndex

\* unref_bo_info leaves a BOInfoRec.
LEMMA DroppedType ==
  ASSUME NEW r \in BOInfo
  PROVE  Dropped(r) \in BOInfo
<1>1. r.refcount - 1 \in Int /\ 0 \in Nat
  BY DEF BOInfo
<1>2. QED
  BY Zenon, <1>1 DEF Dropped, BOInfo

\* unref_bo_info keeps the array of BO infos well typed.
LEMMA UnrefType ==
  ASSUME NEW f \in [BOs -> BOInfo], NEW p \in Pointer
  PROVE  Unref(f, p) \in [BOs -> BOInfo]
<1>1. CASE p = NoBO
  BY <1>1 DEF Unref
<1>2. CASE p # NoBO
  <2>1. p \in BOs
    BY <1>2 DEF Pointer
  <2>2. Dropped(f[p]) \in BOInfo
    BY <2>1, DroppedType
  <2>3. QED
    BY <1>2, <2>1, <2>2 DEF Unref
<1>3. QED
  BY <1>1, <1>2

\* calloc and the assignments that follow make a BOInfoRec.
LEMMA FreshType ==
  ASSUME NEW k \in Kinds, NEW n \in Nat, NEW c \in Int
  PROVE  Fresh(k, n, c) \in BOInfo
BY DEF Fresh, BOInfo

-----------------------------------------------------------------------------
\* The operators on overlay records.

\* FlushOverlay keeps the types of the overlay's state.
LEMMA FlushType ==
  ASSUME NEW o \in OverlayStatus
  PROVE  FlushOverlay(o) \in OverlayStatus
<1>1. CASE o.mali.pOverlayWin # NoWin /\ o.mali.pOverlayDirtyBO # NoBO
  <2> DEFINE w == o.mali.pOverlayWin
  <2>1. w \in Clients
    BY <1>1 DEF OverlayStatus, OverlayFields
  <2>2. [o.mali EXCEPT !.pOverlayDirtyBO = NoBO] \in OverlayFields
    BY DEF OverlayStatus, OverlayFields
  <2>3. [o.frame EXCEPT ![w] = IF @ = "flipped" THEN "flushed" ELSE @] \in [Clients -> FrameStatus]
    BY <2>1 DEF OverlayStatus, FrameStatus
  <2>4. FlushOverlay(o) =
          [mali |-> [o.mali EXCEPT !.pOverlayDirtyBO = NoBO], layer |-> o.layer,
           frame |-> [o.frame EXCEPT ![w] = IF @ = "flipped" THEN "flushed" ELSE @]]
    BY <1>1 DEF FlushOverlay, OverlayStatus
  <2>5. QED
    BY <2>2, <2>3, <2>4 DEF OverlayStatus
<1>2. QED
  BY <1>1 DEF FlushOverlay

\* Hiding the layer keeps the types of the overlay's state.
LEMMA DisableType ==
  ASSUME NEW o \in OverlayStatus
  PROVE  DisableOverlay(o) \in OverlayStatus
BY DEF DisableOverlay, HideLayer, OverlayStatus, OverlayFields, Layer

\* A window's column is a position.
LEMMA ColumnType ==
  ASSUME NEW t \in Trees, NEW w \in Windows
  PROVE  /\ Column(t, w) \in Positions \union {0}
         /\ t.size[w] \in Sizes \union {0}
BY WindowTreeAssumption DEF Column, Top, Trees

\* Showing the layer keeps the types of the overlay's state.
LEMMA EnableType ==
  ASSUME NEW o \in OverlayStatus, NEW t \in Trees, o.mali.pOverlayWin # NoWin
  PROVE  EnableOverlay(o, t) \in OverlayStatus
<1> DEFINE w == o.mali.pOverlayWin
<1>1. w \in Windows
  BY MaliDRI2Assumption DEF OverlayStatus, OverlayFields
<1>2. Column(t, w) \in Positions \union {0} /\ t.size[w] \in Sizes \union {0}
  BY <1>1, ColumnType
<1>3. QED
  BY Zenon, <1>2 DEF EnableOverlay, OverlayStatus, OverlayFields, Layer

\* UpdateOverlay keeps the types of the overlay's state.
LEMMA UpdateType ==
  ASSUME NEW o \in OverlayStatus, NEW t \in Trees
  PROVE  UpdateOverlay(o, t) \in OverlayStatus
<1> DEFINE w == o.mali.pOverlayWin
<1>1. CASE w = NoWin \/ ~UseOverlay
  BY <1>1 DEF UpdateOverlay
<1>2. CASE w # NoWin /\ UseOverlay
  <2>1. DisableOverlay(o) \in OverlayStatus
    BY DisableType
  <2>2. DisableOverlay(FlushOverlay(o)) \in OverlayStatus
    BY FlushType, DisableType
  <2>3. EnableOverlay(o, t) \in OverlayStatus
    BY <1>2, EnableType
  <2>4. UpdateOverlay(o, t) \in {o, DisableOverlay(o), DisableOverlay(FlushOverlay(o)),
                                 EnableOverlay(o, t)}
    BY Zenon, <1>2 DEF UpdateOverlay
  <2>5. QED
    BY <2>1, <2>2, <2>3, <2>4
<1>3. QED
  BY <1>1, <1>2

-----------------------------------------------------------------------------
\* What the X server does to the tree keeps it a tree.

\* Restacking keeps the stacking order a relation on windows.
LEMMA OnTopType ==
  ASSUME NEW t \in Trees, NEW w \in Windows
  PROVE  OnTop(t, w) \in SUBSET (Windows \X Windows)
BY DEF OnTop, Siblings, Trees

\* Mapping, unmapping, raising and destroying keep the type of the tree.
LEMMA TreeTypes ==
  ASSUME NEW t \in Trees, NEW w \in Windows
  PROVE  /\ Mapped(t, w) \in Trees
         /\ Unmapped(t, w) \in Trees
         /\ Raised(t, w) \in Trees
         /\ Destroyed(t, w) \in Trees
<1>1. OnTop(t, w) \in SUBSET (Windows \X Windows)
  BY OnTopType
<1>2. Mapped(t, w) \in Trees /\ Unmapped(t, w) \in Trees
  BY DEF Mapped, Unmapped, Trees
<1>3. Raised(t, w) \in Trees
  BY <1>1 DEF Raised, Trees
<1>4. Destroyed(t, w) \in Trees
  BY DEF Destroyed, Trees
<1>5. QED
  BY <1>2, <1>3, <1>4

\* Creating, moving and resizing keep the type of the tree.
LEMMA GeometryTypes ==
  ASSUME NEW t \in Trees, NEW w \in Windows
  PROVE  /\ \A s \in Sizes, x \in Positions : Created(t, w, s, x) \in Trees
         /\ \A x \in Positions : Moved(t, w, x) \in Trees
         /\ \A s \in Sizes : Resized(t, w, s) \in Trees
<1>1. OnTop(t, w) \in SUBSET (Windows \X Windows)
  BY OnTopType
<1>2. ASSUME NEW s \in Sizes, NEW x \in Positions
      PROVE  Created(t, w, s, x) \in Trees
  BY <1>1 DEF Created, Trees
<1>3. \A x \in Positions : Moved(t, w, x) \in Trees
  BY DEF Moved, Trees
<1>4. \A s \in Sizes : Resized(t, w, s) \in Trees
  BY DEF Resized, Trees
<1>5. QED
  BY <1>2, <1>3, <1>4

-----------------------------------------------------------------------------
\* The operators on swap records.

\* Setting a flag of a BOInfoRec keeps its type.
LEMMA FlagTypes ==
  ASSUME NEW f \in [BOs -> BOInfo], NEW p \in BOs, NEW v \in BOOLEAN
  PROVE  /\ [f EXCEPT ![p].has_checksum = v] \in [BOs -> BOInfo]
         /\ [f EXCEPT ![p].passed = v] \in [BOs -> BOInfo]
         /\ [f[p] EXCEPT !.has_checksum = v] \in BOInfo
BY DEF BOInfo

\* The checksum comparison keeps the types of the swap status.
LEMMA OrderCheckType ==
  ASSUME NEW r \in SwapStatus, r.front \in BOs, r.back \in BOs,
         NEW fm \in BOOLEAN, NEW bm \in BOOLEAN
  PROVE  OrderCheck(r, fm, bm) \in SwapStatus
<1> DEFINE f1 == [r.bo EXCEPT ![r.front].has_checksum = FALSE]
           forgotten == [f1 EXCEPT ![r.back].has_checksum = FALSE]
           p1 == [forgotten EXCEPT ![r.front].passed = TRUE]
           passed == [p1 EXCEPT ![r.back].passed = TRUE]
<1>1. r.bo \in [BOs -> BOInfo]
  BY DEF SwapStatus
<1>2. f1 \in [BOs -> BOInfo]
  BY <1>1, FlagTypes
<1>3. forgotten \in [BOs -> BOInfo]
  BY <1>2, FlagTypes
<1>4. p1 \in [BOs -> BOInfo]
  BY <1>3, FlagTypes
<1>5. passed \in [BOs -> BOInfo]
  BY <1>4, FlagTypes
<1> HIDE DEF f1, forgotten, p1, passed
<1>6. OrderCheck(r, fm, bm) =
        [r EXCEPT !.bo = IF bm /\ ~fm THEN passed ELSE forgotten,
                  !.back = IF fm THEN r.front ELSE @,
                  !.front = IF fm THEN r.back ELSE @]
  BY Zenon DEF OrderCheck, f1, forgotten, p1, passed
<1>7. QED
  BY <1>3, <1>5, <1>6 DEF SwapStatus

\* The swap keeps the types of the swap status.
LEMMA SwapType ==
  ASSUME NEW r \in SwapStatus, NEW b \in Pointer
  PROVE  SwapBuffers(r, b) \in SwapStatus
<1>1. 1 - r.swaps \in {0, 1}
  BY DEF SwapStatus
<1>2. CASE WrongOrder(r, b)
  BY <1>2 DEF SwapBuffers
<1>3. CASE ~WrongOrder(r, b)
  BY <1>1, <1>3 DEF SwapBuffers, SwapStatus
<1>4. QED
  BY <1>2, <1>3

\* Replacing the front buffer keeps the types of the swap status.
LEMMA ReplaceFrontType ==
  ASSUME NEW r \in SwapStatus, NEW b \in Pointer
  PROVE  ReplaceFront(r, b) \in SwapStatus
<1>1. Unref(r.bo, r.front) \in [BOs -> BOInfo]
  BY UnrefType DEF SwapStatus
<1>2. QED
  BY <1>1 DEF ReplaceFront, SwapStatus

\* Saving the checksums keeps the types of the swap status.
LEMMA SaveChecksumsType ==
  ASSUME NEW r \in SwapStatus
  PROVE  SaveChecksums(r) \in SwapStatus
<1>1. ASSUME NEW b \in BOs
      PROVE  [r.bo[b] EXCEPT !.has_checksum = TRUE] \in BOInfo
  BY FlagTypes DEF SwapStatus
<1>2. QED
  BY <1>1 DEF SaveChecksums, SwapStatus

-----------------------------------------------------------------------------
\* What a swap computes.

\* The queue yields a BO or NULL.
LEMMA FetchedType ==
  ASSUME TypeOK, NEW w \in Clients
  PROVE  Fetched(w) \in Pointer
<1>1. Queue(w, state[w].tail) \in Slots
  BY SlotNames DEF TypeOK, WindowState
<1>2. QED
  BY <1>1 DEF Fetched, TypeOK, Pointer

\* The swap starts from a typed status.
LEMMA BeforeSwapType ==
  ASSUME TypeOK, NEW w \in Clients
  PROVE  BeforeSwap(w) \in SwapStatus
BY SlotNames DEF BeforeSwap, SwapStatus, TypeOK, WindowState, Pointer

\* The paragraphs of CopyRegion2 before the display keep the types.
LEMMA AfterSwapType ==
  ASSUME TypeOK, NEW w \in Clients, NEW fm \in BOOLEAN, NEW bm \in BOOLEAN
  PROVE  AfterSwap(w, fm, bm) \in SwapStatus
<1> DEFINE r == IF NeedsOrderCheck(w) THEN OrderCheck(BeforeSwap(w), fm, bm)
                                      ELSE BeforeSwap(w)
<1>1. BeforeSwap(w) \in SwapStatus /\ Fetched(w) \in Pointer
  BY BeforeSwapType, FetchedType
<1>2. ASSUME NeedsOrderCheck(w)
      PROVE  OrderCheck(BeforeSwap(w), fm, bm) \in SwapStatus
  <2>1. BeforeSwap(w).front \in BOs /\ BeforeSwap(w).back \in BOs
    BY <1>1, <1>2 DEF NeedsOrderCheck, Comparable, Live, SwapStatus, Pointer
  <2>2. QED
    BY <1>1, <2>1, OrderCheckType
<1>3. r \in SwapStatus
  BY <1>1, <1>2
<1>4. SwapBuffers(r, Fetched(w)) \in SwapStatus
  BY <1>1, <1>3, SwapType
<1>5. ReplaceFront(SwapBuffers(r, Fetched(w)), Fetched(w)) \in SwapStatus
  BY <1>1, <1>4, ReplaceFrontType
<1>6. QED
  BY <1>5 DEF AfterSwap

-----------------------------------------------------------------------------
\* Overlay records and the variables they stand for.

\* The overlay's part of a typed state is typed.
LEMMA OverlayType ==
  TypeOK => Overlay \in OverlayStatus
BY DEF TypeOK, Overlay, OverlayStatus

\* Assigning a typed overlay status leaves typed variables.
LEMMA SetOverlayType ==
  ASSUME NEW o \in OverlayStatus, SetOverlay(o)
  PROVE  mali' \in OverlayFields /\ layer' \in Layer /\ frame' \in [Clients -> FrameStatus]
BY DEF SetOverlay, OverlayStatus

\* Showing a frame, by copy or by flip, keeps the types.
LEMMA PresentType ==
  ASSUME TypeOK, NEW w \in Clients, NEW b \in BOs, NEW f
  PROVE  Present(w, b, f) \in OverlayStatus
<1> DEFINE o == UpdateOverlay(Overlay, tree)
<1>1. o \in OverlayStatus
  BY OverlayType, UpdateType DEF TypeOK
<1> HIDE DEF o
<1>2. CopyToWindow(o, w) \in OverlayStatus
  BY <1>1 DEF CopyToWindow, OverlayStatus, OverlayFields, FrameStatus
<1>3. [shown |-> TRUE, x |-> Column(tree, w), size |-> tree.size[w], src |-> b] \in Layer
  BY ColumnType, MaliDRI2Assumption DEF TypeOK, Layer
<1>4. FlipLayer(o, w, b) \in OverlayStatus
  BY <1>1, <1>3 DEF FlipLayer, OverlayStatus, OverlayFields, FrameStatus
<1>5. QED
  BY <1>2, <1>4 DEF Present, o

\* Handing a buffer to the drawable keeps the type of the pointers.
LEMMA HandoverType ==
  ASSUME TypeOK, NEW p \in [Slots -> Pointer], NEW w \in Clients, NEW b \in BOs
  PROVE  Handover(p, w, b) \in [Slots -> Pointer]
BY SlotNames DEF Handover, TypeOK, Pointer

\* The bookkeeping of a request keeps the type of the window state.
LEMMA BookedType ==
  ASSUME TypeOK, NEW w \in Clients
  PROVE  Booked(w) \in WindowState
<1>1. tree.size[w] \in Sizes \union {0}
  BY MaliDRI2Assumption, ColumnType DEF TypeOK
<1>2. state[w] \in WindowState /\ RequestParity(w) \in {0, 1}
  BY DEF TypeOK, WindowState, RequestParity
<1>3. QED
  BY Zenon, <1>1, <1>2 DEF Booked, WindowState

\* A window that exists has a size.
LEMMA SizeType ==
  ASSUME TypeOK, NEW w \in Clients
  PROVE  tree.size[w] \in Nat
BY MaliDRI2Assumption, WindowTreeAssumption, ColumnType DEF TypeOK

-----------------------------------------------------------------------------
\* Every action keeps the types.

\* A change of the tree with its hook keeps the types.
LEMMA ChangeTreeType ==
  ASSUME TypeOK, NEW t \in Trees, NEW validated \in BOOLEAN, ChangeTree(t, validated)
  PROVE  TypeOK'
<1>1. mali' \in OverlayFields /\ layer' \in Layer /\ frame' \in [Clients -> FrameStatus]
  <2>1. CASE validated
    <3>1. UpdateOverlay(Overlay, t) \in OverlayStatus
      BY OverlayType, UpdateType
    <3>2. QED
      BY <2>1, <3>1, SetOverlayType DEF ChangeTree
  <2>2. CASE ~validated
    BY <2>2 DEF ChangeTree, TypeOK
  <2>3. QED
    BY <2>1, <2>2
<1>2. QED
  BY <1>1 DEF ChangeTree, TypeOK

\* DestroyWindow keeps the types.
LEMMA DestroyWindowType ==
  ASSUME TypeOK, NEW w \in Windows, DestroyWindow(w)
  PROVE  TypeOK'
<1> DEFINE un == IF Realized(tree, w) THEN UpdateOverlay(Overlay, Unmapped(tree, w))
                                      ELSE Overlay
           owner == un.mali.pOverlayWin = w
<1>1. un \in OverlayStatus
  BY OverlayType, UpdateType, TreeTypes DEF TypeOK
<1>2. tree' \in Trees
  BY TreeTypes DEF DestroyWindow, TypeOK
<1>3. CASE w \in Clients
  <2>1. bo' \in [BOs -> BOInfo]
    <3>1. \A s \in {Mem(w), Back(w), Front(w)} : ptr[s] \in Pointer
      BY <1>3, SlotNames DEF TypeOK, Pointer
    <3>2. Unref(bo, ptr[Mem(w)]) \in [BOs -> BOInfo]
      BY <3>1, UnrefType DEF TypeOK
    <3>3. Unref(Unref(bo, ptr[Mem(w)]), ptr[Back(w)]) \in [BOs -> BOInfo]
      BY <3>1, <3>2, UnrefType
    <3>4. Unref(Unref(Unref(bo, ptr[Mem(w)]), ptr[Back(w)]), ptr[Front(w)]) \in [BOs -> BOInfo]
      BY <3>1, <3>3, UnrefType
    <3>5. QED
      BY <1>3, <3>4 DEF DestroyWindow
  <2>2. ptr' \in [Slots -> Pointer]
    BY <1>3 DEF DestroyWindow, TypeOK, Pointer
  <2>3. state' \in [Clients -> WindowState]
    <3>1. NoState \in WindowState
      BY BufferInfoAssumption DEF NoState, WindowState, Indices
    <3>2. QED
      BY <1>3, <3>1 DEF DestroyWindow, TypeOK
  <2>4. /\ mali' = [un.mali EXCEPT !.pOverlayWin = IF owner THEN NoWin ELSE @]
        /\ layer' = [un.layer EXCEPT !.shown = IF owner THEN FALSE ELSE @]
        /\ frame' = [un.frame EXCEPT ![w] = "none"]
    BY <1>3 DEF DestroyWindow
  <2> HIDE DEF un
  <2>5. mali' \in OverlayFields /\ layer' \in Layer /\ frame' \in [Clients -> FrameStatus]
    BY <1>1, <1>3, <2>4 DEF OverlayStatus, OverlayFields, Layer, FrameStatus
  <2>6. QED
    BY <1>2, <2>1, <2>2, <2>3, <2>5 DEF TypeOK, Pointer
<1>4. CASE w \notin Clients
  <2>1. SetOverlay(un) /\ UNCHANGED <<bo, ptr, state>>
    BY <1>4 DEF DestroyWindow
  <2> HIDE DEF un
  <2>2. QED
    BY <1>1, <1>2, <2>1, SetOverlayType DEF TypeOK
<1>5. QED
  BY <1>3, <1>4

\* The cursor hooks and GetImage keep the types.
LEMMA HookStepType ==
  ASSUME TypeOK, HookStep
  PROVE  TypeOK'
<1>1. Overlay \in OverlayStatus
  BY OverlayType
<1>2. ASSUME NEW v \in BOOLEAN
      PROVE  UpdateOverlay([Overlay EXCEPT !.mali.bHardwareCursorIsInUse = v], tree) \in OverlayStatus
  <2>1. [Overlay EXCEPT !.mali.bHardwareCursorIsInUse = v] \in OverlayStatus
    BY <1>1 DEF OverlayStatus, OverlayFields
  <2>2. QED
    BY <2>1, UpdateType DEF TypeOK
<1>3. CASE EnableHWCursor
  BY <1>2, <1>3, SetOverlayType DEF EnableHWCursor, TypeOK
<1>4. CASE DisableHWCursor
  BY <1>2, <1>4, SetOverlayType DEF DisableHWCursor, TypeOK
<1>5. CASE GetImage
  BY <1>1, <1>5, FlushType, SetOverlayType DEF GetImage, TypeOK
<1>6. QED
  BY <1>3, <1>4, <1>5 DEF HookStep

\* Every request on the window tree keeps the types.
LEMMA TreeStepType ==
  ASSUME TypeOK, TreeStep
  PROVE  TypeOK'
<1> SUFFICES ASSUME NEW w \in Windows,
                    \/ CreateWindow(w) \/ MapWindow(w) \/ UnmapWindow(w) \/ MoveWindow(w)
                    \/ ResizeWindow(w) \/ RaiseWindow(w) \/ DestroyWindow(w)
             PROVE  TypeOK'
  BY DEF TreeStep
<1> USE DEF Realized
<1>1. tree \in Trees
  BY DEF TypeOK
<1>2. CASE CreateWindow(w)
  BY <1>1, <1>2, GeometryTypes, ChangeTreeType DEF CreateWindow
<1>3. CASE MapWindow(w)
  BY <1>1, <1>3, TreeTypes, ChangeTreeType DEF MapWindow
<1>4. CASE UnmapWindow(w)
  BY <1>1, <1>4, TreeTypes, ChangeTreeType DEF UnmapWindow
<1>5. CASE MoveWindow(w)
  BY <1>1, <1>5, GeometryTypes, ChangeTreeType DEF MoveWindow
<1>6. CASE ResizeWindow(w)
  BY <1>1, <1>6, GeometryTypes, ChangeTreeType DEF ResizeWindow
<1>7. CASE RaiseWindow(w)
  BY <1>1, <1>7, TreeTypes, ChangeTreeType DEF RaiseWindow
<1>8. CASE DestroyWindow(w)
  BY <1>8, DestroyWindowType
<1>9. QED
  BY <1>2, <1>3, <1>4, <1>5, <1>6, <1>7, <1>8

\* The request for another attachment keeps the types.
LEMMA CreateDummyType ==
  ASSUME TypeOK, NEW w \in Clients, NEW b \in BOs, CreateDummyBuffer(w, b)
  PROVE  TypeOK'
<1>1. Fresh("aux", tree.size[w], 1) \in BOInfo
  BY SizeType, FreshType
<1>2. Handover(ptr, w, b) \in [Slots -> Pointer]
  BY HandoverType DEF TypeOK, Pointer
<1>3. QED
  BY <1>1, <1>2 DEF CreateDummyBuffer, TypeOK, Pointer

\* A request served from the framebuffer keeps the types.
LEMMA CreateOverlayType ==
  ASSUME TypeOK, NEW w \in Clients, NEW b \in BOs, CreateOverlayBuffer(w, b)
  PROVE  TypeOK'
<1> DEFINE kind == IF RequestParity(w) = 1 THEN "odd" ELSE "even"
           queued == IF QueueOverflow(w) THEN ptr ELSE [ptr EXCEPT ![Queue(w, state[w].head)] = b]
           p == [queued EXCEPT ![Mem(w)] = NoBO]
           st == [Booked(w) EXCEPT !.head = IF QueueOverflow(w) THEN @ ELSE NextIndex(@)]
<1>1. Fresh(kind, tree.size[w], 2) \in BOInfo
  BY SizeType, FreshType
<1>2. Unref(bo, ptr[Mem(w)]) \in [BOs -> BOInfo]
  BY SlotNames, UnrefType DEF TypeOK, Pointer
<1>3. bo' \in [BOs -> BOInfo]
  BY <1>1, <1>2 DEF CreateOverlayBuffer
<1>4. p \in [Slots -> Pointer]
  BY SlotNames DEF TypeOK, Pointer
<1>5. ptr' \in [Slots -> Pointer]
  BY <1>4, HandoverType DEF CreateOverlayBuffer
<1>6. st \in WindowState
  <2>1. Booked(w) \in WindowState
    BY BookedType
  <2>2. NextIndex(Booked(w).head) \in Indices
    BY <2>1, NextIndexInRing DEF WindowState
  <2>3. QED
    BY <2>1, <2>2 DEF WindowState
<1>7. state' \in [Clients -> WindowState]
  BY <1>6 DEF CreateOverlayBuffer, TypeOK
<1>8. mali' \in OverlayFields
  BY DEF CreateOverlayBuffer, TypeOK, OverlayFields
<1>9. QED
  BY <1>3, <1>5, <1>7, <1>8 DEF CreateOverlayBuffer, TypeOK, Pointer

\* The pointers and BOs the non-overlay path leaves before it picks a buffer.
LEMMA DropOverlayType ==
  ASSUME TypeOK, NEW w \in Clients
  PROVE  /\ DropOverlayBuffers(w) \in [BOs -> BOInfo]
         /\ DropOverlayPointers(w) \in [Slots -> Pointer]
         /\ ptr[Mem(w)] \in Pointer
<1>1. ptr[Back(w)] \in Pointer /\ ptr[Front(w)] \in Pointer /\ ptr[Mem(w)] \in Pointer
  BY SlotNames DEF TypeOK, Pointer
<1>2. Unref(bo, ptr[Back(w)]) \in [BOs -> BOInfo]
  BY <1>1, UnrefType DEF TypeOK
<1>3. DropOverlayBuffers(w) \in [BOs -> BOInfo]
  BY <1>1, <1>2, UnrefType DEF DropOverlayBuffers
<1>4. DropOverlayPointers(w) \in [Slots -> Pointer]
  BY DEF DropOverlayPointers, TypeOK, Pointer
<1>5. QED
  BY <1>1, <1>3, <1>4

\* A request served from memory, or by the dummy, keeps the types.
LEMMA MemPathType ==
  ASSUME TypeOK, NEW w \in Clients
  PROVE  /\ \A b \in BOs : CreateNullBuffer(w, b) => TypeOK'
         /\ \A b \in BOs : AllocMemBuffer(w, b) => TypeOK'
         /\ ReuseMemBuffer(w) => TypeOK'
<1>1. /\ DropOverlayBuffers(w) \in [BOs -> BOInfo]
      /\ DropOverlayPointers(w) \in [Slots -> Pointer]
      /\ ptr[Mem(w)] \in Pointer
  BY DropOverlayType
<1>2. Unref(DropOverlayBuffers(w), ptr[Mem(w)]) \in [BOs -> BOInfo]
  BY <1>1, UnrefType
<1>3. [state EXCEPT ![w] = Booked(w)] \in [Clients -> WindowState]
  BY BookedType DEF TypeOK
<1>4. ASSUME NEW b \in BOs, CreateNullBuffer(w, b)
      PROVE  TypeOK'
  <2>1. Fresh("null", tree.size[w], 1) \in BOInfo
    BY SizeType, FreshType
  <2>2. [DropOverlayPointers(w) EXCEPT ![Mem(w)] = NoBO] \in [Slots -> Pointer]
    BY <1>1 DEF Pointer
  <2>3. ptr' \in [Slots -> Pointer]
    BY <1>4, <2>2, HandoverType DEF CreateNullBuffer
  <2>4. QED
    BY <1>2, <1>3, <1>4, <2>1, <2>3 DEF CreateNullBuffer, TypeOK, Pointer
<1>5. ASSUME NEW b \in BOs, AllocMemBuffer(w, b)
      PROVE  TypeOK'
  <2>1. Fresh("mem", tree.size[w], 2) \in BOInfo
    BY SizeType, FreshType
  <2>2. [DropOverlayPointers(w) EXCEPT ![Mem(w)] = b] \in [Slots -> Pointer]
    BY <1>1 DEF Pointer
  <2>3. ptr' \in [Slots -> Pointer]
    BY <1>5, <2>2, HandoverType DEF AllocMemBuffer
  <2>4. QED
    BY <1>2, <1>3, <1>5, <2>1, <2>3 DEF AllocMemBuffer, TypeOK, Pointer
<1>6. ASSUME ReuseMemBuffer(w)
      PROVE  TypeOK'
  <2>1. ptr[Mem(w)] \in BOs
    BY <1>1, <1>6 DEF ReuseMemBuffer, Pointer
  <2>2. bo' \in [BOs -> BOInfo]
    BY <1>1, <1>6, <2>1 DEF ReuseMemBuffer, BOInfo
  <2>3. ptr' \in [Slots -> Pointer]
    BY <1>1, <1>6, <2>1, HandoverType DEF ReuseMemBuffer
  <2>4. QED
    BY <1>3, <1>6, <2>2, <2>3 DEF ReuseMemBuffer, TypeOK, Pointer
<1>7. QED
  BY <1>4, <1>5, <1>6

\* DestroyBuffer2 keeps the types.
LEMMA DestroyBufferType ==
  ASSUME TypeOK, NEW s \in Slots, DestroyBuffer(s)
  PROVE  TypeOK'
<1>1. bo' \in [BOs -> BOInfo]
  BY UnrefType DEF DestroyBuffer, TypeOK, Pointer
<1>2. mali' \in OverlayFields
  BY DEF DestroyBuffer, TypeOK, OverlayFields
<1>3. QED
  BY <1>1, <1>2 DEF DestroyBuffer, TypeOK

\* A swap keeps the types.
LEMMA CopyRegionType ==
  ASSUME TypeOK, NEW w \in Clients, NEW fm \in BOOLEAN, NEW bm \in BOOLEAN,
         CopyRegion(w, fm, bm)
  PROVE  TypeOK'
<1> DEFINE r == AfterSwap(w, fm, bm)
           live == Live(r.bo, Shown(w, r))
           r3 == IF live /\ Comparable(r) THEN SaveChecksums(r) ELSE r
<1>1. r \in SwapStatus
  BY AfterSwapType
<1>2. r3 \in SwapStatus
  BY <1>1, SaveChecksumsType
<1>3. Shown(w, r) \in Pointer
  BY <1>1, SlotNames DEF Shown, SwapStatus, TypeOK, Pointer
<1>4. bo' \in [BOs -> BOInfo]
  BY <1>2 DEF CopyRegion, SwapStatus
<1>5. ptr' \in [Slots -> Pointer]
  <2>1. SwappedPtr(w, r3) \in [Slots -> Pointer]
    BY <1>2 DEF SwappedPtr, SwapStatus, TypeOK, Pointer
  <2>2. QED
    BY <2>1 DEF CopyRegion
<1>6. state' \in [Clients -> WindowState]
  <2>1. state[w] \in WindowState /\ state[w].tail \in Indices
    BY DEF TypeOK, WindowState
  <2>2. NextIndex(state[w].tail) \in Indices
    BY <2>1, NextIndexInRing
  <2>3. r3.swaps \in {0, 1}
    BY <1>2 DEF SwapStatus
  <2>4. state' = [state EXCEPT ![w] = [state[w] EXCEPT
                    !.swaps = r3.swaps,
                    !.tail = IF QueueEmpty(w) THEN @ ELSE NextIndex(@)]]
    BY DEF CopyRegion, TypeOK, WindowState
  <2> HIDE DEF r3
  <2>5. [state[w] EXCEPT !.swaps = r3.swaps,
                         !.tail = IF QueueEmpty(w) THEN @ ELSE NextIndex(@)] \in WindowState
    BY <2>1, <2>2, <2>3 DEF WindowState
  <2>6. QED
    BY <2>4, <2>5 DEF TypeOK
<1>7. mali' \in OverlayFields /\ layer' \in Layer /\ frame' \in [Clients -> FrameStatus]
  <2>1. CASE live
    <3>1. Shown(w, r) \in BOs
      BY <1>3, <2>1 DEF Live, Pointer
    <3>2. Present(w, Shown(w, r), r3.bo) \in OverlayStatus
      BY <3>1, PresentType
    <3>3. QED
      BY <2>1, <3>2, SetOverlayType DEF CopyRegion
  <2>2. CASE ~live
    BY <2>2 DEF CopyRegion, TypeOK
  <2>3. QED
    BY <2>1, <2>2
<1>8. QED
  BY <1>4, <1>5, <1>6, <1>7 DEF CopyRegion, TypeOK, Pointer

\* The code never stores anything but a BO in a pointer, an index of the ring
\* in its head and tail, a reachable geometry in the layer.
THEOREM TypeCorrect == Spec => []TypeOK
<1>1. Init => TypeOK
  <2>1. 0 \in Indices
    BY BufferInfoAssumption DEF Indices
  <2>2. Unused \in BOInfo
    <3>1. Fresh("aux", 0, 0) \in BOInfo
      BY FreshType
    <3>2. ASSUME NEW r \in BOInfo, NEW v \in BOOLEAN
          PROVE  [r EXCEPT !.addr = v] \in BOInfo
      BY DEF BOInfo
    <3>3. QED
      BY <3>1, <3>2 DEF Unused
  <2>3. EmptyTree \in Trees
    BY DEF EmptyTree, Trees
  <2>4. QED
    BY <2>1, <2>2, <2>3 DEF Init, TypeOK, NoState, WindowState, OverlayFields, Layer, FrameStatus
<1>2. TypeOK /\ [Next]_vars => TypeOK'
  <2> SUFFICES ASSUME TypeOK, [Next]_vars
               PROVE  TypeOK'
    OBVIOUS
  <2>1. CASE TreeStep
    BY <2>1, TreeStepType
  <2>2. CASE HookStep
    BY <2>2, HookStepType
  <2>3. CASE BufferStep
    <3>1. PICK w \in Clients :
            \/ \E b \in BOs : \/ CreateDummyBuffer(w, b) \/ CreateOverlayBuffer(w, b)
                              \/ CreateNullBuffer(w, b) \/ AllocMemBuffer(w, b)
            \/ ReuseMemBuffer(w)
            \/ DestroyReplacedBuffer(w)
            \/ DestroyDrawableBuffer(w)
      BY <2>3 DEF BufferStep
    <3>2. CASE DestroyReplacedBuffer(w) \/ DestroyDrawableBuffer(w)
      BY <3>2, SlotNames, DestroyBufferType DEF DestroyReplacedBuffer, DestroyDrawableBuffer
    <3>3. QED
      BY <3>1, <3>2, CreateDummyType, CreateOverlayType, MemPathType
  <2>4. CASE SwapStep
    BY <2>4, CopyRegionType DEF SwapStep
  <2>5. CASE UNCHANGED vars
    BY <2>5 DEF vars, TypeOK
  <2>6. QED
    BY <2>1, <2>2, <2>3, <2>4, <2>5 DEF Next
<1>3. QED
  BY <1>1, <1>2, PTL DEF Spec

-----------------------------------------------------------------------------
(***************************************************************************)
(* Reference counts.                                                       *)
(***************************************************************************)
\* The count of holders is a number: there are finitely many slots.
LEMMA SlotsFinite == IsFiniteSet(Slots)
<1> DEFINE Triple(A, B, C) == [p \in (A \X B) \X C |-> <<p[1][1], p[1][2], p[2]>>]
<1>1. ASSUME NEW A, NEW B, NEW C, IsFiniteSet(A), IsFiniteSet(B), IsFiniteSet(C)
      PROVE  IsFiniteSet(A \X B \X C)
  <2>1. IsFiniteSet((A \X B) \X C)
    BY <1>1, FS_Product
  <2>2. Triple(A, B, C) \in Surjection((A \X B) \X C, A \X B \X C)
    <3>1. Triple(A, B, C) \in [(A \X B) \X C -> A \X B \X C]
      OBVIOUS
    <3>2. ASSUME NEW q \in A \X B \X C
          PROVE  \E p \in (A \X B) \X C : Triple(A, B, C)[p] = q
      <4>1. <<<<q[1], q[2]>>, q[3]>> \in (A \X B) \X C
        OBVIOUS
      <4>2. QED
        BY <4>1
    <3>3. QED
      BY <3>1, <3>2 DEF Surjection
  <2>3. QED
    BY <2>1, <2>2, FS_Surjection
<1>2. IsFiniteSet(Clients) /\ IsFiniteSet(Indices) /\ IsFiniteSet({0})
  <2>1. IsFiniteSet(0 .. QueueSize - 1)
    <3>1. 0 \in Int /\ QueueSize - 1 \in Int
      BY BufferInfoAssumption
    <3>2. QED
      BY <3>1, FS_Interval
  <2>2. QED
    BY <2>1, MaliDRI2Assumption, FS_Singleton DEF Indices
<1>3. IsFiniteSet(WindowSlots) /\ IsFiniteSet({"queue"})
  <2>1. IsFiniteSet({"mem"})
    BY FS_Singleton
  <2>2. IsFiniteSet({"mem", "back"})
    <3>1. {"mem"} \union {"back"} = {"mem", "back"}
      OBVIOUS
    <3>2. QED
      BY <2>1, <3>1, FS_AddElement
  <2>3. IsFiniteSet({"mem", "back", "front"})
    <3>1. {"mem", "back"} \union {"front"} = {"mem", "back", "front"}
      OBVIOUS
    <3>2. QED
      BY <2>2, <3>1, FS_AddElement
  <2>4. IsFiniteSet({"mem", "back", "front", "buffer"})
    <3>1. {"mem", "back", "front"} \union {"buffer"} = {"mem", "back", "front", "buffer"}
      OBVIOUS
    <3>2. QED
      BY <2>3, <3>1, FS_AddElement
  <2>5. IsFiniteSet({"mem", "back", "front", "buffer", "replaced"})
    <3>1. {"mem", "back", "front", "buffer"} \union {"replaced"}
            = {"mem", "back", "front", "buffer", "replaced"}
      OBVIOUS
    <3>2. QED
      BY <2>4, <3>1, FS_AddElement
  <2>6. QED
    BY <2>5, FS_Singleton
<1>4. IsFiniteSet(WindowSlots \X Clients \X {0}) /\ IsFiniteSet({"queue"} \X Clients \X Indices)
  BY <1>1, <1>2, <1>3
<1>5. QED
  BY <1>4, FS_Union DEF Slots

\* How many references v is to b.
Tally(v, b) == IF v = b THEN 1 ELSE 0

HolderCount(p, b) == Cardinality(Holders(p, b))

\* There are finitely many slots, so the holders of a BO are counted by a
\* natural number.
LEMMA HolderCountType ==
  ASSUME NEW p, NEW b
  PROVE  IsFiniteSet(Holders(p, b)) /\ HolderCount(p, b) \in Nat
<1>1. Holders(p, b) \in SUBSET Slots
  BY DEF Holders
<1>2. QED
  BY <1>1, SlotsFinite, FS_Subset, FS_CardinalityType DEF HolderCount

\* Storing into the slot s takes away the reference that was there.
LEMMA StoreCount ==
  ASSUME NEW p, NEW q, NEW b, NEW s \in Slots, \A t \in Slots \ {s} : q[t] = p[t]
  PROVE  HolderCount(q, b) = HolderCount(p, b) - Tally(p[s], b) + Tally(q[s], b)
<1> DEFINE rest == Holders(p, b) \ {s}
<1>1. IsFiniteSet(Holders(p, b)) /\ HolderCount(p, b) \in Nat
  BY HolderCountType
<1>2. IsFiniteSet(rest) /\ Cardinality(rest) = HolderCount(p, b) - Tally(p[s], b)
  <2>1. s \in Holders(p, b) <=> p[s] = b
    BY DEF Holders
  <2>2. QED
    BY <1>1, <2>1, FS_RemoveElement DEF HolderCount, Tally
<1>3. Holders(q, b) = IF q[s] = b THEN rest \union {s} ELSE rest
  BY DEF Holders
<1>4. Cardinality(rest \union {s}) = Cardinality(rest) + 1
  BY <1>2, FS_AddElement
<1>5. QED
  BY <1>2, <1>3, <1>4, <1>1 DEF HolderCount, Tally

\* unref_bo_info takes one reference away, and only from its argument.
LEMMA UnrefCount ==
  ASSUME NEW f \in [BOs -> BOInfo], NEW v \in Pointer, NEW b \in BOs
  PROVE  Unref(f, v)[b].refcount = f[b].refcount - Tally(v, b)
<1>1. f[b].refcount \in Int /\ b # NoBO
  BY BufferInfoAssumption DEF BOInfo
<1>2. CASE v = b
  <2>1. Unref(f, v)[b] = Dropped(f[b])
    BY <1>1, <1>2 DEF Unref
  <2>2. Dropped(f[b]).refcount = f[b].refcount - 1
    BY DEF Dropped, BOInfo
  <2>3. QED
    BY <1>2, <2>1, <2>2 DEF Tally
<1>3. CASE v # b
  BY <1>1, <1>3 DEF Unref, Tally
<1>4. QED
  BY <1>2, <1>3

Covered(f, p) == \A b \in BOs : HolderCount(p, b) <= f[b].refcount

\* if (s) unref_bo_info(s); s = NULL
LEMMA ReleaseCovered ==
  ASSUME NEW f \in [BOs -> BOInfo], NEW p \in [Slots -> Pointer], NEW s \in Slots,
         Covered(f, p)
  PROVE  Covered(Unref(f, p[s]), [p EXCEPT ![s] = NoBO])
<1> DEFINE q == [p EXCEPT ![s] = NoBO]
<1> SUFFICES ASSUME NEW b \in BOs
             PROVE  HolderCount(q, b) <= Unref(f, p[s])[b].refcount
  BY DEF Covered
<1>1. \A t \in Slots \ {s} : q[t] = p[t]
  OBVIOUS
<1>2. q[s] = NoBO
  OBVIOUS
<1> HIDE DEF q
<1>3. HolderCount(q, b) = HolderCount(p, b) - Tally(p[s], b) + Tally(NoBO, b)
  BY <1>1, <1>2, StoreCount
<1>4. Tally(NoBO, b) = 0 /\ Tally(p[s], b) \in {0, 1}
  BY BufferInfoAssumption DEF Tally
<1>5. Unref(f, p[s])[b].refcount = f[b].refcount - Tally(p[s], b)
  BY UnrefCount
<1>6. /\ HolderCount(p, b) <= f[b].refcount
      /\ HolderCount(p, b) \in Nat
      /\ f[b].refcount \in Int
  BY HolderCountType DEF Covered, BOInfo
<1>7. QED
  BY <1>3, <1>4, <1>5, <1>6

\* The slots of a window are pairwise distinct.
LEMMA SlotsDistinct ==
  ASSUME NEW w \in Clients
  PROVE  /\ Mem(w) # Back(w) /\ Mem(w) # Front(w) /\ Back(w) # Front(w)
         /\ Buffer(w) # Replaced(w)
         /\ {Mem(w), Back(w), Front(w)} \intersect {Buffer(w), Replaced(w)} = {}
         /\ \A i \in Indices :
              Queue(w, i) \notin {Mem(w), Back(w), Front(w), Buffer(w), Replaced(w)}
BY DEF Mem, Back, Front, Buffer, Replaced, Queue

\* A BO no slot points at has no holders.
LEMMA AbsentCount ==
  ASSUME NEW p, NEW b, \A s \in Slots : p[s] # b
  PROVE  HolderCount(p, b) = 0
<1>1. Holders(p, b) = {}
  BY DEF Holders
<1>2. QED
  BY <1>1, FS_EmptySet DEF HolderCount

\* The drawable's new buffer is one more reference; the one it replaces is not.
LEMMA HandoverCount ==
  ASSUME NEW p \in [Slots -> Pointer], NEW w \in Clients, NEW b \in BOs, NEW c \in BOs,
         p[Replaced(w)] = NoBO, p[Buffer(w)] = ptr[Buffer(w)]
  PROVE  HolderCount(Handover(p, w, b), c) = HolderCount(p, c) + Tally(b, c)
<1> DEFINE q1 == [p EXCEPT ![Buffer(w)] = b]
           q2 == [q1 EXCEPT ![Replaced(w)] = ptr[Buffer(w)]]
<1>1. Buffer(w) \in Slots /\ Replaced(w) \in Slots /\ Buffer(w) # Replaced(w)
  BY SlotNames, SlotsDistinct
<1>2. /\ \A t \in Slots \ {Buffer(w)} : q1[t] = p[t]
      /\ q1[Buffer(w)] = b
      /\ q1[Replaced(w)] = NoBO
  BY <1>1
<1>3. /\ \A t \in Slots \ {Replaced(w)} : q2[t] = q1[t]
      /\ q2[Replaced(w)] = p[Buffer(w)]
  BY <1>1
<1>4. Handover(p, w, b) = q2
  BY DEF Handover
<1> HIDE DEF q1, q2
<1>5. HolderCount(q1, c) = HolderCount(p, c) - Tally(p[Buffer(w)], c) + Tally(b, c)
  BY <1>1, <1>2, StoreCount
<1>6. HolderCount(q2, c) = HolderCount(q1, c) - Tally(NoBO, c) + Tally(p[Buffer(w)], c)
  BY <1>1, <1>2, <1>3, StoreCount
<1>7. /\ Tally(NoBO, c) = 0
      /\ Tally(p[Buffer(w)], c) \in {0, 1}
      /\ Tally(b, c) \in {0, 1}
      /\ HolderCount(p, c) \in Nat
  BY BufferInfoAssumption, HolderCountType DEF Tally
<1>8. QED
  BY <1>4, <1>5, <1>6, <1>7

\* A new BO starts with as many references as it has holders.
LEMMA GiveOutCovered ==
  ASSUME NEW f \in [BOs -> BOInfo], NEW p \in [Slots -> Pointer],
         NEW w \in Clients, NEW b \in BOs, NEW k, NEW size, NEW n \in Nat,
         p[Replaced(w)] = NoBO, p[Buffer(w)] = ptr[Buffer(w)],
         \A c \in BOs \ {b} : HolderCount(p, c) <= f[c].refcount,
         HolderCount(p, b) + 1 <= n
  PROVE  Covered([f EXCEPT ![b] = Fresh(k, size, n)], Handover(p, w, b))
<1> DEFINE g == [f EXCEPT ![b] = Fresh(k, size, n)]
<1> SUFFICES ASSUME NEW c \in BOs
             PROVE  HolderCount(Handover(p, w, b), c) <= g[c].refcount
  BY DEF Covered
<1>1. HolderCount(Handover(p, w, b), c) = HolderCount(p, c) + Tally(b, c)
  BY HandoverCount
<1>2. HolderCount(p, c) \in Nat
  BY HolderCountType
<1>3. CASE c = b
  <2>1. g[c].refcount = n /\ Tally(b, c) = 1
    BY <1>3 DEF Fresh, Tally
  <2>2. QED
    BY <1>1, <1>2, <1>3, <2>1
<1>4. CASE c # b
  <2>1. g[c] = f[c] /\ Tally(b, c) = 0
    BY <1>4 DEF Tally
  <2>2. QED
    BY <1>1, <1>2, <1>4, <2>1
<1>5. QED
  BY <1>3, <1>4

\* One pointer of the window state is set to a BO nothing else points at.
LEMMA PutCount ==
  ASSUME NEW p, NEW q, NEW b, NEW s \in Slots,
         p[s] = NoBO, q[s] = b, b # NoBO,
         \A t \in Slots \ {s} : q[t] = p[t],
         \A t \in Slots : p[t] # b
  PROVE  /\ HolderCount(q, b) = 1
         /\ \A c \in BOs \ {b} : HolderCount(q, c) = HolderCount(p, c)
<1>1. HolderCount(p, b) = 0
  BY AbsentCount
<1>2. Tally(NoBO, b) = 0 /\ Tally(b, b) = 1
  BY DEF Tally
<1>3. HolderCount(q, b) = HolderCount(p, b) - Tally(NoBO, b) + Tally(b, b)
  BY StoreCount
<1>4. ASSUME NEW c \in BOs \ {b}
      PROVE  HolderCount(q, c) = HolderCount(p, c)
  <2>1. Tally(NoBO, c) = 0 /\ Tally(b, c) = 0
    BY BufferInfoAssumption DEF Tally
  <2>2. HolderCount(q, c) = HolderCount(p, c) - Tally(NoBO, c) + Tally(b, c)
    BY StoreCount
  <2>3. HolderCount(p, c) \in Nat
    BY HolderCountType
  <2>4. QED
    BY <2>1, <2>2, <2>3
<1>5. QED
  BY <1>1, <1>2, <1>3, <1>4

\* In between two requests, the three releases of the paths that drop buffers.
LEMMA DropOverlayCovered ==
  ASSUME TypeOK, NEW w \in Clients, Covered(bo, ptr)
  PROVE  /\ Covered(DropOverlayBuffers(w), DropOverlayPointers(w))
         /\ Covered(Unref(DropOverlayBuffers(w), ptr[Mem(w)]),
                    [DropOverlayPointers(w) EXCEPT ![Mem(w)] = NoBO])
<1> DEFINE f1 == Unref(bo, ptr[Back(w)])
           p1 == [ptr EXCEPT ![Back(w)] = NoBO]
<1>1. bo \in [BOs -> BOInfo] /\ ptr \in [Slots -> Pointer]
  BY DEF TypeOK, Pointer
<1>2. Mem(w) \in Slots /\ Back(w) \in Slots /\ Front(w) \in Slots
  BY SlotNames
<1>3. Covered(f1, p1)
  BY <1>1, <1>2, ReleaseCovered
<1>4. f1 \in [BOs -> BOInfo] /\ p1 \in [Slots -> Pointer]
  BY <1>1, <1>2, UnrefType DEF Pointer
<1>5. p1[Front(w)] = ptr[Front(w)]
  BY <1>1, <1>2, SlotsDistinct
<1>6. Covered(DropOverlayBuffers(w), DropOverlayPointers(w))
  BY <1>2, <1>3, <1>4, <1>5, ReleaseCovered DEF DropOverlayBuffers, DropOverlayPointers
<1>7. DropOverlayPointers(w)[Mem(w)] = ptr[Mem(w)]
  BY <1>1, <1>2, SlotsDistinct DEF DropOverlayPointers
<1>8. Covered(Unref(DropOverlayBuffers(w), DropOverlayPointers(w)[Mem(w)]),
              [DropOverlayPointers(w) EXCEPT ![Mem(w)] = NoBO])
  BY <1>2, <1>6, DropOverlayType, ReleaseCovered
<1>9. QED
  BY <1>6, <1>7, <1>8

\* What the request paths leave alone until the hand-over.
LEMMA DropOverlaySlots ==
  ASSUME TypeOK, BetweenRequests, NEW w \in Clients
  PROVE  /\ DropOverlayPointers(w)[Replaced(w)] = NoBO
         /\ DropOverlayPointers(w)[Buffer(w)] = ptr[Buffer(w)]
         /\ DropOverlayPointers(w)[Mem(w)] = ptr[Mem(w)]
         /\ \A s \in Slots : DropOverlayPointers(w)[s] \in {ptr[s], NoBO}
BY SlotNames, SlotsDistinct DEF DropOverlayPointers, BetweenRequests, TypeOK

\* The dummy's count of 1 covers the one slot that gets it.
LEMMA CreateDummyCovered ==
  ASSUME TypeOK, Covered(bo, ptr), NEW w \in Clients, NEW b \in BOs,
         CreateDummyBuffer(w, b)
  PROVE  Covered(bo', ptr')
<1>1. bo \in [BOs -> BOInfo] /\ ptr \in [Slots -> Pointer]
  BY DEF TypeOK, Pointer
<1>2. HolderCount(ptr, b) = 0
  BY AbsentCount DEF CreateDummyBuffer, FreeBOs
<1>3. ptr[Replaced(w)] = NoBO
  BY DEF CreateDummyBuffer, RequestBuffer, BetweenRequests
<1>4. \A c \in BOs \ {b} : HolderCount(ptr, c) <= bo[c].refcount
  BY DEF Covered
<1>5. HolderCount(ptr, b) + 1 <= 1
  BY <1>2
<1>6. Covered([bo EXCEPT ![b] = Fresh("aux", tree.size[w], 1)], Handover(ptr, w, b))
  BY <1>1, <1>3, <1>4, <1>5, GiveOutCovered
<1>7. QED
  BY <1>6 DEF CreateDummyBuffer

\* The count of 2 covers the queue and the DRI2 buffer, and the allocated
\* buffer is released with the pointer to it.
LEMMA CreateOverlayCovered ==
  ASSUME TypeOK, Covered(bo, ptr), NEW w \in Clients, NEW b \in BOs,
         CreateOverlayBuffer(w, b)
  PROVE  Covered(bo', ptr')
<1> DEFINE kind == IF RequestParity(w) = 1 THEN "odd" ELSE "even"
           slot == Queue(w, state[w].head)
           queued == IF QueueOverflow(w) THEN ptr ELSE [ptr EXCEPT ![slot] = b]
           p == [queued EXCEPT ![Mem(w)] = NoBO]
           p0 == [ptr EXCEPT ![Mem(w)] = NoBO]
           f == Unref(bo, ptr[Mem(w)])
<1>1. bo \in [BOs -> BOInfo] /\ ptr \in [Slots -> Pointer]
  BY DEF TypeOK, Pointer
<1>2. /\ Mem(w) \in Slots /\ Buffer(w) \in Slots /\ Replaced(w) \in Slots /\ slot \in Slots
      /\ Mem(w) \notin {Buffer(w), Replaced(w), slot}
      /\ slot \notin {Buffer(w), Replaced(w)}
  BY SlotNames, SlotsDistinct DEF TypeOK, WindowState
<1>3. Covered(f, p0) /\ f \in [BOs -> BOInfo]
  BY <1>1, <1>2, ReleaseCovered, UnrefType
<1>4. \A t \in Slots : p0[t] # b
  BY <1>1, BufferInfoAssumption DEF CreateOverlayBuffer, FreeBOs
<1>5. /\ HolderCount(p, b) + 1 <= 2
      /\ \A c \in BOs \ {b} : HolderCount(p, c) <= f[c].refcount
  <2>1. CASE QueueOverflow(w)
    <3>1. p = p0
      BY <2>1
    <3>2. HolderCount(p0, b) = 0
      BY <1>4, AbsentCount
    <3> HIDE DEF p, p0, f
    <3>3. QED
      BY <1>3, <3>1, <3>2 DEF Covered
  <2>2. CASE ~QueueOverflow(w)
    <3>1. p0[slot] = NoBO
      BY <1>1, <1>2, <2>2 DEF QueueOverflow
    <3>2. p[slot] = b
      BY <1>1, <1>2, <2>2
    <3>3. \A t \in Slots \ {slot} : p[t] = p0[t]
      BY <1>1, <1>2, <2>2
    <3> HIDE DEF p, p0, slot
    <3>4. b # NoBO
      BY BufferInfoAssumption
    <3>5. /\ HolderCount(p, b) = 1
          /\ \A c \in BOs \ {b} : HolderCount(p, c) = HolderCount(p0, c)
      BY <1>2, <1>4, <3>1, <3>2, <3>3, <3>4, PutCount
    <3>6. QED
      BY <1>3, <3>5 DEF Covered
  <2>3. QED
    BY <2>1, <2>2
<1>6. p[Replaced(w)] = NoBO /\ p[Buffer(w)] = ptr[Buffer(w)]
  BY <1>1, <1>2 DEF CreateOverlayBuffer, RequestBuffer, BetweenRequests
<1>7. p \in [Slots -> Pointer]
  BY <1>1, <1>2 DEF Pointer
<1>8. bo' = [f EXCEPT ![b] = Fresh(kind, tree.size[w], 2)] /\ ptr' = Handover(p, w, b)
  BY DEF CreateOverlayBuffer
<1> HIDE DEF p, f, kind
<1>9. QED
  BY <1>3, <1>5, <1>6, <1>7, <1>8, GiveOutCovered

\* On the paths from memory every slot that is cleared is released, and
\* every slot that is filled is counted.
LEMMA MemPathCovered ==
  ASSUME TypeOK, Covered(bo, ptr), NEW w \in Clients
  PROVE  /\ \A b \in BOs : CreateNullBuffer(w, b) => Covered(bo', ptr')
         /\ \A b \in BOs : AllocMemBuffer(w, b) => Covered(bo', ptr')
         /\ ReuseMemBuffer(w) => Covered(bo', ptr')
<1> DEFINE f == DropOverlayBuffers(w)
           p == DropOverlayPointers(w)
           f0 == Unref(f, ptr[Mem(w)])
           p0 == [p EXCEPT ![Mem(w)] = NoBO]
<1>1. /\ Mem(w) \in Slots /\ Buffer(w) \in Slots /\ Replaced(w) \in Slots
      /\ Mem(w) \notin {Buffer(w), Replaced(w)}
  BY SlotNames, SlotsDistinct
<1>2. Covered(f, p) /\ Covered(f0, p0)
  BY DropOverlayCovered
<1>3. f \in [BOs -> BOInfo] /\ p \in [Slots -> Pointer] /\ ptr[Mem(w)] \in Pointer
  BY DropOverlayType
<1>4. f0 \in [BOs -> BOInfo] /\ p0 \in [Slots -> Pointer]
  BY <1>3, UnrefType DEF Pointer
<1>5. ASSUME NEW b \in BOs, b \in FreeBOs, BetweenRequests
      PROVE  /\ \A t \in Slots : p0[t] # b
             /\ p0[Replaced(w)] = NoBO /\ p0[Buffer(w)] = ptr[Buffer(w)]
  <2>1. \A t \in Slots : p[t] # b
    BY <1>5, DropOverlaySlots, BufferInfoAssumption DEF FreeBOs
  <2>2. QED
    BY <1>1, <1>3, <1>5, <2>1, DropOverlaySlots, BufferInfoAssumption
<1>6. ASSUME NEW b \in BOs, CreateNullBuffer(w, b)
      PROVE  Covered(bo', ptr')
  <2>1. b \in FreeBOs /\ BetweenRequests
    BY <1>6 DEF CreateNullBuffer, RequestBuffer
  <2>2. bo' = [f0 EXCEPT ![b] = Fresh("null", tree.size[w], 1)] /\ ptr' = Handover(p0, w, b)
    BY <1>6 DEF CreateNullBuffer
  <2>3. HolderCount(p0, b) + 1 <= 1
    <3>1. HolderCount(p0, b) = 0
      BY <1>5, <2>1, AbsentCount
    <3>2. QED
      BY <3>1
  <2>4. \A c \in BOs \ {b} : HolderCount(p0, c) <= f0[c].refcount
    BY <1>2 DEF Covered
  <2> HIDE DEF f, p, f0, p0
  <2>5. QED
    BY <1>4, <1>5, <2>1, <2>2, <2>3, <2>4, GiveOutCovered
<1>7. ASSUME NEW b \in BOs, AllocMemBuffer(w, b)
      PROVE  Covered(bo', ptr')
  <2> DEFINE q == [p EXCEPT ![Mem(w)] = b]
  <2>1. b \in FreeBOs /\ BetweenRequests
    BY <1>7 DEF AllocMemBuffer, RequestBuffer
  <2>2. bo' = [f0 EXCEPT ![b] = Fresh("mem", tree.size[w], 2)] /\ ptr' = Handover(q, w, b)
    BY <1>7 DEF AllocMemBuffer
  <2>3. /\ p0[Mem(w)] = NoBO /\ q[Mem(w)] = b /\ b # NoBO
        /\ \A t \in Slots \ {Mem(w)} : q[t] = p0[t]
    BY <1>1, <1>3, BufferInfoAssumption
  <2>4. q \in [Slots -> Pointer]
    BY <1>1, <1>3 DEF Pointer
  <2>5. q[Replaced(w)] = NoBO /\ q[Buffer(w)] = ptr[Buffer(w)]
    BY <1>1, <1>5, <2>1, <2>3
  <2> HIDE DEF f, p, f0, p0, q
  <2>6. /\ HolderCount(q, b) = 1
        /\ \A c \in BOs \ {b} : HolderCount(q, c) = HolderCount(p0, c)
    BY <1>1, <1>5, <2>1, <2>3, PutCount
  <2>7. /\ HolderCount(q, b) + 1 <= 2
        /\ \A c \in BOs \ {b} : HolderCount(q, c) <= f0[c].refcount
    BY <1>2, <2>6 DEF Covered
  <2>8. QED
    BY <1>4, <2>2, <2>4, <2>5, <2>7, GiveOutCovered
<1>8. ASSUME ReuseMemBuffer(w)
      PROVE  Covered(bo', ptr')
  <2> DEFINE mem == ptr[Mem(w)]
  <2>1. mem \in BOs /\ BetweenRequests
    BY <1>3, <1>8 DEF ReuseMemBuffer, RequestBuffer, Pointer
  <2>2. bo' = [f EXCEPT ![mem].refcount = @ + 1] /\ ptr' = Handover(p, w, mem)
    BY <1>8 DEF ReuseMemBuffer
  <2>3. ASSUME NEW c \in BOs
        PROVE  HolderCount(ptr', c) <= bo'[c].refcount
    <3>1. HolderCount(ptr', c) = HolderCount(p, c) + Tally(mem, c)
      BY <1>3, <2>1, <2>2, DropOverlaySlots, HandoverCount
    <3>2. bo'[c].refcount = f[c].refcount + Tally(mem, c)
      BY <1>3, <2>1, <2>2 DEF Tally, BOInfo
    <3>3. HolderCount(p, c) <= f[c].refcount /\ HolderCount(p, c) \in Nat
            /\ f[c].refcount \in Int /\ Tally(mem, c) \in {0, 1}
      BY <1>2, <1>3, HolderCountType DEF Covered, BOInfo, Tally
    <3>4. QED
      BY <3>1, <3>2, <3>3
  <2>4. QED
    BY <2>3 DEF Covered
<1>9. QED
  BY <1>6, <1>7, <1>8

\* DestroyBuffer2 releases what it clears.
LEMMA DestroyBufferCovered ==
  ASSUME TypeOK, Covered(bo, ptr), NEW s \in Slots, DestroyBuffer(s)
  PROVE  Covered(bo', ptr')
BY ReleaseCovered DEF DestroyBuffer, TypeOK, Pointer

\* DestroyWindow releases the three pointers it clears; the queue it frees
\* without a release leaves counts too high, never too low.
LEMMA DestroyWindowCovered ==
  ASSUME TypeOK, Covered(bo, ptr), NEW w \in Windows, DestroyWindow(w)
  PROVE  Covered(bo', ptr')
<1>1. CASE w \in Clients
  <2> DEFINE f1 == Unref(bo, ptr[Mem(w)])
             f2 == Unref(f1, ptr[Back(w)])
             f3 == Unref(f2, ptr[Front(w)])
             p1 == [ptr EXCEPT ![Mem(w)] = NoBO]
             p2 == [p1 EXCEPT ![Back(w)] = NoBO]
             p3 == [p2 EXCEPT ![Front(w)] = NoBO]
  <2>1. /\ Mem(w) \in Slots /\ Back(w) \in Slots /\ Front(w) \in Slots
        /\ Mem(w) # Back(w) /\ Mem(w) # Front(w) /\ Back(w) # Front(w)
    BY <1>1, SlotNames, SlotsDistinct
  <2>2. bo \in [BOs -> BOInfo] /\ ptr \in [Slots -> Pointer]
    BY DEF TypeOK, Pointer
  <2>3. /\ p1 \in [Slots -> Pointer] /\ p2 \in [Slots -> Pointer]
        /\ p1[Back(w)] = ptr[Back(w)] /\ p2[Front(w)] = ptr[Front(w)]
    BY <2>1, <2>2 DEF Pointer
  <2>4. f1 \in [BOs -> BOInfo] /\ f2 \in [BOs -> BOInfo] /\ f3 \in [BOs -> BOInfo]
    BY <2>1, <2>2, UnrefType
  <2>5. Covered(f1, p1)
    BY <2>1, <2>2, ReleaseCovered
  <2>6. Covered(f2, p2)
    BY <2>1, <2>3, <2>4, <2>5, ReleaseCovered
  <2>7. Covered(f3, p3)
    BY <2>1, <2>3, <2>4, <2>6, ReleaseCovered
  <2>8. bo' = f3 /\ ptr' = [s \in Slots |-> IF s[2] = w THEN NoBO ELSE ptr[s]]
    BY <1>1 DEF DestroyWindow
  <2>9. \A s \in Slots : ptr'[s] \in {p3[s], NoBO}
    <3>1. Mem(w)[2] = w /\ Back(w)[2] = w /\ Front(w)[2] = w
      BY DEF Mem, Back, Front
    <3>2. QED
      BY <2>1, <2>2, <2>8, <3>1
  <2> HIDE DEF f1, f2, f3, p1, p2, p3
  <2>10. ASSUME NEW b \in BOs
         PROVE  HolderCount(ptr', b) <= f3[b].refcount
    <3>1. Holders(ptr', b) \in SUBSET Holders(p3, b)
      BY <2>9, BufferInfoAssumption DEF Holders
    <3>2. HolderCount(ptr', b) <= HolderCount(p3, b)
      BY <3>1, HolderCountType, FS_Subset DEF HolderCount
    <3>3. HolderCount(p3, b) <= f3[b].refcount
      BY <2>7 DEF Covered
    <3>4. HolderCount(ptr', b) \in Nat /\ HolderCount(p3, b) \in Nat /\ f3[b].refcount \in Int
      BY <2>4, HolderCountType DEF BOInfo
    <3>5. QED
      BY <3>2, <3>3, <3>4
  <2>11. QED
    BY <2>8, <2>10 DEF Covered
<1>2. CASE w \notin Clients
  BY <1>2 DEF DestroyWindow, Covered
<1>3. QED
  BY <1>1, <1>2

\* Back and front are the two BOs they were, in either order, and nobody has
\* gained or lost a reference.
Reordered(r, w) ==
  /\ r \in SwapStatus
  /\ \/ r.back = ptr[Back(w)] /\ r.front = ptr[Front(w)]
     \/ r.back = ptr[Front(w)] /\ r.front = ptr[Back(w)]
  /\ \A b \in BOs : r.bo[b].refcount = bo[b].refcount

\* The checksum comparison exchanges back and front, or leaves them.
LEMMA OrderCheckReordered ==
  ASSUME TypeOK, NEW w \in Clients, NEW fm \in BOOLEAN, NEW bm \in BOOLEAN,
         NeedsOrderCheck(w)
  PROVE  Reordered(OrderCheck(BeforeSwap(w), fm, bm), w)
<1> DEFINE r == BeforeSwap(w)
           s == OrderCheck(r, fm, bm)
<1>1. r \in SwapStatus /\ r.front \in BOs /\ r.back \in BOs
  BY BeforeSwapType DEF NeedsOrderCheck, Comparable, Live, SwapStatus, Pointer
<1>2. s \in SwapStatus
  BY <1>1, OrderCheckType
<1>3. r.bo = bo /\ r.back = ptr[Back(w)] /\ r.front = ptr[Front(w)]
  BY DEF BeforeSwap
<1>4. bo \in [BOs -> BOInfo]
  BY DEF TypeOK
<1>5. \A b \in BOs : s.bo[b].refcount = r.bo[b].refcount
  <2>1. ASSUME NEW f \in [BOs -> BOInfo], NEW p \in BOs, NEW v \in BOOLEAN
        PROVE  /\ \A b \in BOs : [f EXCEPT ![p].has_checksum = v][b].refcount = f[b].refcount
               /\ \A b \in BOs : [f EXCEPT ![p].passed = v][b].refcount = f[b].refcount
    BY DEF BOInfo
  <2> DEFINE f1 == [r.bo EXCEPT ![r.front].has_checksum = FALSE]
             f2 == [f1 EXCEPT ![r.back].has_checksum = FALSE]
             f3 == [f2 EXCEPT ![r.front].passed = TRUE]
             f4 == [f3 EXCEPT ![r.back].passed = TRUE]
  <2>2. f1 \in [BOs -> BOInfo] /\ f2 \in [BOs -> BOInfo] /\ f3 \in [BOs -> BOInfo]
    BY <1>1, <1>3, <1>4, FlagTypes
  <2>3. \A b \in BOs : f1[b].refcount = r.bo[b].refcount
    BY <1>1, <1>3, <1>4, <2>1
  <2>4. \A b \in BOs : f2[b].refcount = f1[b].refcount
    BY <1>1, <2>1, <2>2
  <2>5. \A b \in BOs : f3[b].refcount = f2[b].refcount
    BY <1>1, <2>1, <2>2
  <2>6. \A b \in BOs : f4[b].refcount = f3[b].refcount
    BY <1>1, <2>1, <2>2
  <2> HIDE DEF f1, f2, f3, f4
  <2>7. s.bo \in {f2, f4}
    BY <1>1 DEF OrderCheck, SwapStatus, f1, f2, f3, f4
  <2>8. QED
    BY <2>3, <2>4, <2>5, <2>6, <2>7
<1>6. /\ s.back = IF fm THEN r.front ELSE r.back
      /\ s.front = IF fm THEN r.back ELSE r.front
  BY <1>1 DEF OrderCheck, SwapStatus
<1>7. QED
  BY <1>2, <1>3, <1>5, <1>6 DEF Reordered

\* So does the swap.
LEMMA SwapReordered ==
  ASSUME NEW w \in Clients, NEW r, NEW b \in Pointer, Reordered(r, w)
  PROVE  Reordered(SwapBuffers(r, b), w)
<1>1. SwapBuffers(r, b) \in SwapStatus
  BY SwapType DEF Reordered
<1>2. CASE WrongOrder(r, b)
  BY <1>2 DEF SwapBuffers
<1>3. CASE ~WrongOrder(r, b)
  <2>1. /\ SwapBuffers(r, b).back = r.front
        /\ SwapBuffers(r, b).front = r.back
        /\ SwapBuffers(r, b).bo = r.bo
    BY <1>3 DEF SwapBuffers, Reordered, SwapStatus
  <2>2. QED
    BY <1>1, <2>1 DEF Reordered
<1>4. QED
  BY <1>2, <1>3

\* Saving checksums touches no count.
LEMMA SaveChecksumsCount ==
  ASSUME NEW r \in SwapStatus
  PROVE  /\ SaveChecksums(r).back = r.back /\ SaveChecksums(r).front = r.front
         /\ \A b \in BOs : SaveChecksums(r).bo[b].refcount = r.bo[b].refcount
BY DEF SaveChecksums, SwapStatus, BOInfo

\* A swap that takes a BO out of the queue gives the queue's reference to
\* the front buffer and releases the one it replaces.
LEMMA CopyRegionCovered ==
  ASSUME TypeOK, Covered(bo, ptr), NEW w \in Clients, NEW fm \in BOOLEAN, NEW bm \in BOOLEAN,
         CopyRegion(w, fm, bm)
  PROVE  Covered(bo', ptr')
<1> DEFINE checked == IF NeedsOrderCheck(w) THEN OrderCheck(BeforeSwap(w), fm, bm)
                                            ELSE BeforeSwap(w)
           b == Fetched(w)
           s == SwapBuffers(checked, b)
           r == AfterSwap(w, fm, bm)
           r3 == IF Live(r.bo, Shown(w, r)) /\ Comparable(r) THEN SaveChecksums(r) ELSE r
           slot == Queue(w, state[w].tail)
           kept == IF QueueEmpty(w) THEN ptr[slot] ELSE NoBO
           p1 == [ptr EXCEPT ![Back(w)] = r3.back]
           p2 == [p1 EXCEPT ![Front(w)] = r3.front]
           p3 == [p2 EXCEPT ![slot] = kept]
<1>1. b \in Pointer
  BY FetchedType
<1>2. Reordered(s, w)
  <2>1. Reordered(checked, w)
    BY OrderCheckReordered, BeforeSwapType DEF Reordered, BeforeSwap
  <2>2. QED
    BY <1>1, <2>1, SwapReordered
<1>3. r = ReplaceFront(s, b) /\ r \in SwapStatus
  BY AfterSwapType DEF AfterSwap
<1>4. /\ r3.back = r.back /\ r3.front = r.front
      /\ \A c \in BOs : r3.bo[c].refcount = r.bo[c].refcount
  BY <1>3, SaveChecksumsCount
<1>5. bo' = r3.bo /\ ptr' = p3
  <2>1. /\ Back(w) \in Slots /\ Front(w) \in Slots /\ slot \in Slots
        /\ Back(w) # slot /\ Front(w) # slot
    BY SlotNames, SlotsDistinct DEF TypeOK, WindowState
  <2>2. p2[slot] = ptr[slot]
    BY <2>1 DEF TypeOK
  <2>3. ptr' = SwappedPtr(w, r3)
    BY DEF CopyRegion
  <2>4. SwappedPtr(w, r3) = p3
    <3> HIDE DEF r3
    <3>1. QED
      BY <2>1, <2>2 DEF SwappedPtr, TypeOK
  <2>5. QED
    BY <2>3, <2>4 DEF CopyRegion
<1>6. /\ Back(w) \in Slots /\ Front(w) \in Slots /\ slot \in Slots
      /\ Back(w) # Front(w) /\ Back(w) # slot /\ Front(w) # slot
      /\ ptr \in [Slots -> Pointer]
  BY SlotNames, SlotsDistinct DEF TypeOK, WindowState, Pointer
<1>7. b = IF QueueEmpty(w) THEN NoBO ELSE ptr[slot]
  BY DEF Fetched
<1>8. /\ \A t \in Slots \ {Back(w)} : p1[t] = ptr[t]
      /\ p1[Back(w)] = r3.back
  BY <1>6
<1>9. /\ \A t \in Slots \ {Front(w)} : p2[t] = p1[t]
      /\ p2[Front(w)] = r3.front
  BY <1>6
<1>10. /\ \A t \in Slots \ {slot} : p3[t] = p2[t]
       /\ p3[slot] = kept
  BY <1>6
<1> HIDE DEF checked, s, r, r3, p1, p2, p3, slot, b
<1>11. ASSUME NEW c \in BOs
       PROVE  HolderCount(p3, c) <= r3.bo[c].refcount
  <2>1. HolderCount(p1, c) = HolderCount(ptr, c) - Tally(ptr[Back(w)], c) + Tally(r3.back, c)
    BY <1>6, <1>8, StoreCount
  <2>2. HolderCount(p2, c) = HolderCount(p1, c) - Tally(ptr[Front(w)], c) + Tally(r3.front, c)
    <3>1. p1[Front(w)] = ptr[Front(w)]
      BY <1>6, <1>8
    <3>2. HolderCount(p2, c) = HolderCount(p1, c) - Tally(p1[Front(w)], c) + Tally(p2[Front(w)], c)
      BY <1>6, <1>9, StoreCount
    <3>3. QED
      BY <1>9, <3>1, <3>2
  <2>3. HolderCount(p3, c) = HolderCount(p2, c) - Tally(ptr[slot], c) + Tally(kept, c)
    <3>1. p2[slot] = ptr[slot]
      BY <1>6, <1>8, <1>9
    <3>2. HolderCount(p3, c) = HolderCount(p2, c) - Tally(p2[slot], c) + Tally(p3[slot], c)
      BY <1>6, <1>10, StoreCount
    <3>3. QED
      BY <1>10, <3>1, <3>2
  <2>4. \A v : Tally(v, c) \in {0, 1}
    BY DEF Tally
  <2>5. Tally(NoBO, c) = 0
    BY BufferInfoAssumption DEF Tally
  <2>6. /\ HolderCount(ptr, c) \in Nat /\ bo[c].refcount \in Int
        /\ HolderCount(ptr, c) <= bo[c].refcount
    BY HolderCountType DEF Covered, TypeOK, BOInfo
  <2>7. Tally(kept, c) - Tally(ptr[slot], c) = 0 - Tally(b, c)
    BY <1>7, <2>4, <2>5
  <2>8. Tally(s.back, c) + Tally(s.front, c) = Tally(ptr[Back(w)], c) + Tally(ptr[Front(w)], c)
    BY <1>2, <2>4 DEF Reordered
  <2>9. s.bo[c].refcount = bo[c].refcount
    BY <1>2 DEF Reordered
  <2>10. s \in SwapStatus
    BY <1>2 DEF Reordered
  <2>11. CASE b = NoBO
    <3>1. r = s
      BY <1>3, <2>11 DEF ReplaceFront
    <3>2. HolderCount(p3, c) = HolderCount(ptr, c)
      <4>1. r3.back = s.back /\ r3.front = s.front
        BY <1>4, <3>1
      <4>2. Tally(b, c) = 0
        BY <2>5, <2>11
      <4>3. Tally(r3.back, c) + Tally(r3.front, c) = Tally(ptr[Back(w)], c) + Tally(ptr[Front(w)], c)
        BY <2>8, <4>1
      <4>4. QED
        BY <2>1, <2>2, <2>3, <2>4, <2>6, <2>7, <4>2, <4>3
    <3>3. r3.bo[c].refcount = bo[c].refcount
      BY <1>4, <2>9, <3>1
    <3>4. QED
      BY <2>6, <3>2, <3>3
  <2>12. CASE b # NoBO
    <3>1. r.back = s.back /\ r.front = b /\ r.bo = Unref(s.bo, s.front)
      BY <1>3, <2>10, <2>12 DEF ReplaceFront, SwapStatus
    <3>2. r.bo[c].refcount = bo[c].refcount - Tally(s.front, c)
      <4>1. s.bo \in [BOs -> BOInfo] /\ s.front \in Pointer
        BY <2>10 DEF SwapStatus
      <4>2. QED
        BY <2>9, <3>1, <4>1, UnrefCount
    <3>3. HolderCount(p3, c) = HolderCount(ptr, c) - Tally(s.front, c)
      <4>1. Tally(r3.back, c) = Tally(s.back, c) /\ Tally(r3.front, c) = Tally(b, c)
        BY <1>4, <3>1
      <4>2. QED
        BY <2>1, <2>2, <2>3, <2>4, <2>6, <2>7, <2>8, <4>1
    <3>4. r3.bo[c].refcount = bo[c].refcount - Tally(s.front, c)
      BY <1>4, <3>2
    <3>5. Tally(s.front, c) \in {0, 1}
      BY <2>4
    <3>6. QED
      BY <2>6, <3>3, <3>4, <3>5
  <2>13. QED
    BY <2>11, <2>12
<1>12. QED
  BY <1>5, <1>11 DEF Covered

\* No BO is released while the window state, a drawable or the server's
\* half-finished request still points at it.  Counting is inductive with the
\* types alone: every path of the code takes and gives back its references in
\* the same call.
THEOREM RefcountCorrect == Spec => []RefcountCoversHolders
<1>1. RefcountCoversHolders <=> Covered(bo, ptr)
  BY DEF RefcountCoversHolders, Covered, HolderCount
<1>2. Init => Covered(bo, ptr)
  <2> SUFFICES ASSUME Init, NEW b \in BOs
               PROVE  HolderCount(ptr, b) <= bo[b].refcount
    BY DEF Covered
  <2>1. \A s \in Slots : ptr[s] # b
    BY BufferInfoAssumption DEF Init
  <2>2. HolderCount(ptr, b) = 0
    BY <2>1, AbsentCount
  <2>3. bo[b].refcount = 0
    BY DEF Init, Unused, Fresh
  <2>4. QED
    BY <2>2, <2>3
<1>3. TypeOK /\ Covered(bo, ptr) /\ [Next]_vars => Covered(bo', ptr')
  <2> SUFFICES ASSUME TypeOK, Covered(bo, ptr), [Next]_vars
               PROVE  Covered(bo', ptr')
    OBVIOUS
  <2>1. CASE TreeStep
    <3>1. PICK w \in Windows :
            \/ CreateWindow(w) \/ MapWindow(w) \/ UnmapWindow(w) \/ MoveWindow(w)
            \/ ResizeWindow(w) \/ RaiseWindow(w) \/ DestroyWindow(w)
      BY <2>1 DEF TreeStep
    <3>2. CASE DestroyWindow(w)
      BY <3>2, DestroyWindowCovered
    <3>3. CASE ~DestroyWindow(w)
      <4>1. UNCHANGED <<bo, ptr>>
        BY <3>1, <3>3 DEF CreateWindow, MapWindow, UnmapWindow, MoveWindow, ResizeWindow,
                          RaiseWindow, ChangeTree
      <4>2. QED
        BY <4>1 DEF Covered
    <3>4. QED
      BY <3>2, <3>3
  <2>2. CASE HookStep
    BY <2>2 DEF HookStep, EnableHWCursor, DisableHWCursor, GetImage, Covered
  <2>3. CASE BufferStep
    <3>1. PICK w \in Clients :
            \/ \E b \in BOs : \/ CreateDummyBuffer(w, b) \/ CreateOverlayBuffer(w, b)
                              \/ CreateNullBuffer(w, b) \/ AllocMemBuffer(w, b)
            \/ ReuseMemBuffer(w)
            \/ DestroyReplacedBuffer(w)
            \/ DestroyDrawableBuffer(w)
      BY <2>3 DEF BufferStep
    <3>2. CASE DestroyReplacedBuffer(w) \/ DestroyDrawableBuffer(w)
      BY <3>2, SlotNames, DestroyBufferCovered DEF DestroyReplacedBuffer, DestroyDrawableBuffer
    <3>3. QED
      BY <3>1, <3>2, CreateDummyCovered, CreateOverlayCovered, MemPathCovered
  <2>4. CASE SwapStep
    BY <2>4, CopyRegionCovered DEF SwapStep
  <2>5. CASE UNCHANGED vars
    BY <2>5 DEF vars, Covered
  <2>6. QED
    BY <2>1, <2>2, <2>3, <2>4, <2>5 DEF Next
<1>4. Covered(bo, ptr)' <=> Covered(bo', ptr')
  BY DEF Covered, HolderCount, Holders
<1>5. QED
  BY <1>1, <1>2, <1>3, <1>4, TypeCorrect, PTL DEF Spec

-----------------------------------------------------------------------------
(***************************************************************************)
(* The owner of the overlay and the order of the frames.                   *)
(***************************************************************************)
LEMMA UnrefKind ==
  ASSUME NEW f \in [BOs -> BOInfo], NEW v \in Pointer, NEW b \in BOs
  PROVE  Unref(f, v)[b].kind = f[b].kind
<1>1. Dropped(f[b]).kind = f[b].kind
  BY DEF Dropped, BOInfo
<1>2. QED
  BY <1>1 DEF Unref

\* UpdateOverlay and FlushOverlay never change the owner.
LEMMA UpdateOwner ==
  ASSUME NEW o \in OverlayStatus, NEW t \in Trees
  PROVE  /\ FlushOverlay(o).mali.pOverlayWin = o.mali.pOverlayWin
         /\ UpdateOverlay(o, t).mali.pOverlayWin = o.mali.pOverlayWin
<1>1. ASSUME NEW u \in OverlayStatus
      PROVE  /\ FlushOverlay(u).mali.pOverlayWin = u.mali.pOverlayWin
             /\ DisableOverlay(u).mali.pOverlayWin = u.mali.pOverlayWin
             /\ EnableOverlay(u, t).mali.pOverlayWin = u.mali.pOverlayWin
  BY DEF FlushOverlay, DisableOverlay, HideLayer, EnableOverlay, OverlayStatus, OverlayFields
<1>2. FlushOverlay(o) \in OverlayStatus
  BY FlushType
<1>3. CASE o.mali.pOverlayWin = NoWin \/ ~UseOverlay
  BY <1>1, <1>3 DEF UpdateOverlay
<1>4. CASE o.mali.pOverlayWin # NoWin /\ UseOverlay
  <2>1. UpdateOverlay(o, t) \in {o, DisableOverlay(o), DisableOverlay(FlushOverlay(o)),
                                 EnableOverlay(o, t)}
    BY Zenon, <1>4 DEF UpdateOverlay
  <2>2. QED
    BY <1>1, <1>2, <2>1
<1>5. QED
  BY <1>3, <1>4

\* What every step but a swap does to the frames of the windows: it drops some
\* and queues some for the owner, but reorders none.
Kept ==
  /\ \A v \in Clients :
       /\ ptr'[Back(v)] \in {ptr[Back(v)], NoBO}
       /\ ptr'[Front(v)] \in {ptr[Front(v)], NoBO}
       /\ \A i \in Indices : \/ ptr'[Queue(v, i)] \in {ptr[Queue(v, i)], NoBO}
                             \/ v = mali'.pOverlayWin
       /\ \/ /\ state'[v].swaps = state[v].swaps
             /\ v = mali.pOverlayWin => v = mali'.pOverlayWin
          \/ /\ ptr'[Back(v)] = NoBO /\ ptr'[Front(v)] = NoBO
             /\ \A i \in Indices : ptr'[Queue(v, i)] = NoBO
  /\ \A b \in BOs : (\E s \in Slots : ptr[s] = b) => bo'[b].kind = bo[b].kind

\* A change of the tree keeps the owner and the frames of every window.
LEMMA ChangeTreeKept ==
  ASSUME TypeOK, NEW t \in Trees, NEW validated \in BOOLEAN, ChangeTree(t, validated)
  PROVE  Kept
<1>1. mali'.pOverlayWin = mali.pOverlayWin
  <2>1. CASE validated
    BY <2>1, OverlayType, UpdateOwner DEF ChangeTree, SetOverlay, Overlay
  <2>2. CASE ~validated
    BY <2>2 DEF ChangeTree
  <2>3. QED
    BY <2>1, <2>2
<1>2. UNCHANGED <<bo, ptr, state>>
  BY DEF ChangeTree
<1>3. QED
  BY <1>1, <1>2 DEF Kept

\* So do the cursor hooks and GetImage.
LEMMA HookStepKept ==
  ASSUME TypeOK, HookStep
  PROVE  Kept
<1>1. Overlay \in OverlayStatus /\ tree \in Trees
  BY OverlayType DEF TypeOK
<1>2. ASSUME NEW v \in BOOLEAN
      PROVE  LET o == [Overlay EXCEPT !.mali.bHardwareCursorIsInUse = v]
             IN  o \in OverlayStatus /\ o.mali.pOverlayWin = mali.pOverlayWin
  BY <1>1 DEF Overlay, OverlayStatus, OverlayFields
<1>3. mali'.pOverlayWin = mali.pOverlayWin
  <2>1. CASE EnableHWCursor
    BY <1>1, <1>2, <2>1, UpdateOwner DEF EnableHWCursor, SetOverlay
  <2>2. CASE DisableHWCursor
    BY <1>1, <1>2, <2>2, UpdateOwner DEF DisableHWCursor, SetOverlay
  <2>3. CASE GetImage
    BY <1>1, <2>3, UpdateOwner DEF GetImage, SetOverlay, Overlay
  <2>4. QED
    BY <2>1, <2>2, <2>3 DEF HookStep
<1>4. UNCHANGED <<bo, ptr, state>>
  BY DEF HookStep, EnableHWCursor, DisableHWCursor, GetImage
<1>5. QED
  BY <1>3, <1>4 DEF Kept

\* DestroyWindow clears every slot of the window, the owner's with the owner.
LEMMA DestroyWindowKept ==
  ASSUME TypeOK, NEW w \in Windows, DestroyWindow(w)
  PROVE  Kept
<1> DEFINE un == IF Realized(tree, w) THEN UpdateOverlay(Overlay, Unmapped(tree, w))
                                      ELSE Overlay
           owner == un.mali.pOverlayWin = w
<1>1. un \in OverlayStatus /\ un.mali.pOverlayWin = mali.pOverlayWin
  BY OverlayType, UpdateType, UpdateOwner, TreeTypes DEF TypeOK, Overlay
<1>2. CASE w \in Clients
  <2>1. \A v \in Clients \ {w} : v = mali.pOverlayWin => v = mali'.pOverlayWin
    <3>1. mali' = [un.mali EXCEPT !.pOverlayWin = IF owner THEN NoWin ELSE @]
      BY <1>2 DEF DestroyWindow
    <3> HIDE DEF un
    <3>2. mali'.pOverlayWin = IF owner THEN NoWin ELSE un.mali.pOverlayWin
      BY <1>1, <3>1 DEF OverlayStatus, OverlayFields
    <3>3. QED
      BY <1>1, <3>2
  <2>2. \A s \in Slots : ptr'[s] = IF s[2] = w THEN NoBO ELSE ptr[s]
    BY <1>2 DEF DestroyWindow
  <2>3. /\ \A v \in Clients : Back(v)[2] = v /\ Front(v)[2] = v
        /\ \A v \in Clients, i \in Indices : Queue(v, i)[2] = v
    BY DEF Back, Front, Queue
  <2>4. /\ ptr'[Back(w)] = NoBO /\ ptr'[Front(w)] = NoBO
        /\ \A i \in Indices : ptr'[Queue(w, i)] = NoBO
    BY <1>2, <2>2, <2>3, SlotNames
  <2>5. \A v \in Clients \ {w} :
          /\ ptr'[Back(v)] = ptr[Back(v)] /\ ptr'[Front(v)] = ptr[Front(v)]
          /\ \A i \in Indices : ptr'[Queue(v, i)] = ptr[Queue(v, i)]
          /\ state'[v] = state[v]
    <3>1. \A v \in Clients \ {w} : state'[v] = state[v]
      BY <1>2 DEF DestroyWindow, TypeOK
    <3>2. QED
      BY <2>2, <2>3, <3>1, SlotNames
  <2>6. \A b \in BOs : bo'[b].kind = bo[b].kind
    <3>1. /\ bo \in [BOs -> BOInfo]
          /\ \A s \in {Mem(w), Back(w), Front(w)} : ptr[s] \in Pointer
      BY <1>2, SlotNames DEF TypeOK, Pointer
    <3>2. Unref(bo, ptr[Mem(w)]) \in [BOs -> BOInfo]
      BY <3>1, UnrefType
    <3>3. Unref(Unref(bo, ptr[Mem(w)]), ptr[Back(w)]) \in [BOs -> BOInfo]
      BY <3>1, <3>2, UnrefType
    <3>4. bo' = Unref(Unref(Unref(bo, ptr[Mem(w)]), ptr[Back(w)]), ptr[Front(w)])
      BY <1>2 DEF DestroyWindow
    <3>5. QED
      BY <3>1, <3>2, <3>3, <3>4, UnrefKind
  <2>7. QED
    BY <2>1, <2>4, <2>5, <2>6 DEF Kept
<1>3. CASE w \notin Clients
  <2>1. UNCHANGED <<bo, ptr, state>> /\ mali' = un.mali
    BY <1>3 DEF DestroyWindow, SetOverlay
  <2>2. QED
    BY <1>1, <2>1 DEF Kept
<1>4. QED
  BY <1>2, <1>3

\* The hand-over touches neither the window state nor its frames.
LEMMA HandoverSlots ==
  ASSUME NEW p \in [Slots -> Pointer], NEW w \in Clients, NEW b
  PROVE  \A v \in Clients :
           /\ Handover(p, w, b)[Back(v)] = p[Back(v)]
           /\ Handover(p, w, b)[Front(v)] = p[Front(v)]
           /\ \A i \in Indices : Handover(p, w, b)[Queue(v, i)] = p[Queue(v, i)]
<1> SUFFICES ASSUME NEW v \in Clients
             PROVE  /\ Handover(p, w, b)[Back(v)] = p[Back(v)]
                    /\ Handover(p, w, b)[Front(v)] = p[Front(v)]
                    /\ \A i \in Indices : Handover(p, w, b)[Queue(v, i)] = p[Queue(v, i)]
  OBVIOUS
<1>1. /\ Back(v) \notin {Buffer(w), Replaced(w)}
      /\ Front(v) \notin {Buffer(w), Replaced(w)}
      /\ \A i \in Indices : Queue(v, i) \notin {Buffer(w), Replaced(w)}
  BY DEF Back, Front, Queue, Buffer, Replaced
<1>2. Back(v) \in Slots /\ Front(v) \in Slots /\ \A i \in Indices : Queue(v, i) \in Slots
  BY SlotNames
<1>3. QED
  BY <1>1, <1>2 DEF Handover

\* The bookkeeping of a request does not count a swap.
LEMMA BookedSwaps ==
  ASSUME TypeOK, NEW w \in Clients
  PROVE  Booked(w).swaps = state[w].swaps
BY DEF Booked, TypeOK, WindowState

\* A dummy is no frame.
LEMMA CreateDummyKept ==
  ASSUME TypeOK, NEW w \in Clients, NEW b \in BOs, CreateDummyBuffer(w, b)
  PROVE  Kept
<1>1. ptr \in [Slots -> Pointer]
  BY DEF TypeOK, Pointer
<1>2. \A c \in BOs \ {b} : bo'[c] = bo[c]
  BY DEF CreateDummyBuffer, TypeOK
<1>3. \A s \in Slots : ptr[s] # b
  BY DEF CreateDummyBuffer, FreeBOs
<1>4. UNCHANGED <<state, mali>> /\ ptr' = Handover(ptr, w, b)
  BY DEF CreateDummyBuffer
<1>5. QED
  BY <1>1, <1>2, <1>3, <1>4, HandoverSlots DEF Kept

\* The window a framebuffer BO is queued for becomes, or is, the owner, and
\* its front and back buffers stay.
LEMMA CreateOverlayKept ==
  ASSUME TypeOK, NEW w \in Clients, NEW b \in BOs, CreateOverlayBuffer(w, b)
  PROVE  Kept
<1> DEFINE slot == Queue(w, state[w].head)
           queued == IF QueueOverflow(w) THEN ptr ELSE [ptr EXCEPT ![slot] = b]
           p == [queued EXCEPT ![Mem(w)] = NoBO]
<1>1. ptr \in [Slots -> Pointer] /\ bo \in [BOs -> BOInfo]
  BY DEF TypeOK, Pointer
<1>2. p \in [Slots -> Pointer]
  BY <1>1 DEF Pointer
<1>3. \A s \in Slots \ {slot} : p[s] \in {ptr[s], NoBO}
  BY <1>1
<1>4. \A v \in Clients :
        /\ Back(v) \in Slots \ {slot} /\ Front(v) \in Slots \ {slot}
        /\ v # w => \A i \in Indices : Queue(v, i) \in Slots \ {slot}
  BY SlotNames DEF Back, Front, Queue
<1>5. mali'.pOverlayWin = w /\ mali.pOverlayWin \in {NoWin, w}
  BY DEF CreateOverlayBuffer, CanUseOverlay, TypeOK, OverlayFields
<1>6. NoWin \notin Clients
  BY MaliDRI2Assumption
<1>7. \A v \in Clients : state'[v].swaps = state[v].swaps
  <2>1. [Booked(w) EXCEPT !.head = IF QueueOverflow(w) THEN @ ELSE NextIndex(@)].swaps
          = state[w].swaps
    BY BookedType, BookedSwaps DEF WindowState
  <2>2. QED
    BY <2>1 DEF CreateOverlayBuffer, TypeOK
<1>8. \A c \in BOs : (\E s \in Slots : ptr[s] = c) => bo'[c].kind = bo[c].kind
  <2>1. \A s \in Slots : ptr[s] # b
    BY DEF CreateOverlayBuffer, FreeBOs
  <2>2. ptr[Mem(w)] \in Pointer
    BY <1>1, SlotNames
  <2>3. \A c \in BOs \ {b} : bo'[c] = Unref(bo, ptr[Mem(w)])[c]
    BY <1>1, <2>2, UnrefType DEF CreateOverlayBuffer
  <2>4. QED
    BY <1>1, <2>1, <2>2, <2>3, UnrefKind
<1>9. ptr' = Handover(p, w, b)
  BY DEF CreateOverlayBuffer
<1> HIDE DEF p, slot
<1>10. QED
  BY <1>2, <1>3, <1>4, <1>5, <1>6, <1>7, <1>8, <1>9, HandoverSlots DEF Kept

\* The three outcomes of the non-overlay path: the same release, the same
\* bookkeeping, and pointers that differ in bo_mem_ptr only.
LEMMA MemPathKept ==
  ASSUME TypeOK, NEW w \in Clients, NEW p \in [Slots -> Pointer], NEW b \in BOs,
         \A s \in Slots \ {Mem(w)} : p[s] = DropOverlayPointers(w)[s],
         ptr' = Handover(p, w, b),
         state' = [state EXCEPT ![w] = Booked(w)],
         mali' = mali,
         \A c \in BOs : (\E s \in Slots : ptr[s] = c)
           => \/ bo'[c].kind = DropOverlayBuffers(w)[c].kind
              \/ bo'[c].kind = Unref(DropOverlayBuffers(w), ptr[Mem(w)])[c].kind
  PROVE  Kept
<1>1. ptr \in [Slots -> Pointer] /\ bo \in [BOs -> BOInfo]
  BY DEF TypeOK, Pointer
<1>2. \A s \in Slots : DropOverlayPointers(w)[s] \in {ptr[s], NoBO}
  BY <1>1 DEF DropOverlayPointers
<1>3. \A v \in Clients :
        /\ Back(v) \in Slots \ {Mem(w)} /\ Front(v) \in Slots \ {Mem(w)}
        /\ \A i \in Indices : Queue(v, i) \in Slots \ {Mem(w)}
  BY SlotNames DEF Back, Front, Queue, Mem
<1>4. \A v \in Clients : state'[v].swaps = state[v].swaps
  BY BookedSwaps DEF TypeOK
<1>5. \A c \in BOs : /\ DropOverlayBuffers(w)[c].kind = bo[c].kind
                     /\ Unref(DropOverlayBuffers(w), ptr[Mem(w)])[c].kind = bo[c].kind
  <2>1. ptr[Back(w)] \in Pointer /\ ptr[Front(w)] \in Pointer /\ ptr[Mem(w)] \in Pointer
    BY <1>1, SlotNames
  <2>2. Unref(bo, ptr[Back(w)]) \in [BOs -> BOInfo]
    BY <1>1, <2>1, UnrefType
  <2>3. \A c \in BOs : DropOverlayBuffers(w)[c].kind = bo[c].kind
    BY <1>1, <2>1, <2>2, UnrefKind DEF DropOverlayBuffers
  <2>4. DropOverlayBuffers(w) \in [BOs -> BOInfo]
    BY DropOverlayType
  <2>5. QED
    BY <2>1, <2>3, <2>4, UnrefKind
<1>6. QED
  BY <1>2, <1>3, <1>4, <1>5, HandoverSlots DEF Kept

\* The fall back to the dummy drops the front and back buffers.
LEMMA CreateNullKept ==
  ASSUME TypeOK, NEW w \in Clients, NEW b \in BOs, CreateNullBuffer(w, b)
  PROVE  Kept
<1> DEFINE f0 == Unref(DropOverlayBuffers(w), ptr[Mem(w)])
           p == [DropOverlayPointers(w) EXCEPT ![Mem(w)] = NoBO]
<1>1. /\ bo' = [f0 EXCEPT ![b] = Fresh("null", tree.size[w], 1)]
      /\ ptr' = Handover(p, w, b)
      /\ state' = [state EXCEPT ![w] = Booked(w)]
      /\ mali' = mali
      /\ \A s \in Slots : ptr[s] # b
  BY DEF CreateNullBuffer, FreeBOs
<1>2. /\ f0 \in [BOs -> BOInfo] /\ p \in [Slots -> Pointer]
      /\ \A s \in Slots \ {Mem(w)} : p[s] = DropOverlayPointers(w)[s]
  BY DropOverlayType, UnrefType DEF Pointer
<1> HIDE DEF p
<1>3. QED
  BY <1>1, <1>2, MemPathKept

\* So does the allocation of a buffer.
LEMMA AllocMemKept ==
  ASSUME TypeOK, NEW w \in Clients, NEW b \in BOs, AllocMemBuffer(w, b)
  PROVE  Kept
<1> DEFINE f0 == Unref(DropOverlayBuffers(w), ptr[Mem(w)])
           p == [DropOverlayPointers(w) EXCEPT ![Mem(w)] = b]
<1>1. /\ bo' = [f0 EXCEPT ![b] = Fresh("mem", tree.size[w], 2)]
      /\ ptr' = Handover(p, w, b)
      /\ state' = [state EXCEPT ![w] = Booked(w)]
      /\ mali' = mali
      /\ \A s \in Slots : ptr[s] # b
  BY DEF AllocMemBuffer, FreeBOs
<1>2. /\ f0 \in [BOs -> BOInfo] /\ p \in [Slots -> Pointer]
      /\ \A s \in Slots \ {Mem(w)} : p[s] = DropOverlayPointers(w)[s]
  BY DropOverlayType, UnrefType DEF Pointer
<1> HIDE DEF p
<1>3. QED
  BY <1>1, <1>2, MemPathKept

\* So does the reuse of the allocated buffer.
LEMMA ReuseMemKept ==
  ASSUME TypeOK, NEW w \in Clients, ReuseMemBuffer(w)
  PROVE  Kept
<1> DEFINE mem == ptr[Mem(w)]
           f == DropOverlayBuffers(w)
           p == DropOverlayPointers(w)
<1>1. /\ bo' = [f EXCEPT ![mem].refcount = @ + 1]
      /\ ptr' = Handover(p, w, mem)
      /\ state' = [state EXCEPT ![w] = Booked(w)]
      /\ mali' = mali
      /\ mem # NoBO
  BY DEF ReuseMemBuffer
<1>2. f \in [BOs -> BOInfo] /\ p \in [Slots -> Pointer] /\ mem \in BOs
  BY <1>1, DropOverlayType DEF Pointer
<1>3. \A c \in BOs : bo'[c].kind = f[c].kind
  BY <1>1, <1>2 DEF BOInfo
<1> HIDE DEF p
<1>4. QED
  BY <1>1, <1>2, <1>3, MemPathKept DEF p

\* DestroyBuffer2 touches no buffer of the window state.
LEMMA DestroyBufferKept ==
  ASSUME TypeOK, NEW w \in Clients, NEW s \in {Buffer(w), Replaced(w)}, DestroyBuffer(s)
  PROVE  Kept
<1>1. ptr \in [Slots -> Pointer] /\ bo \in [BOs -> BOInfo] /\ ptr[s] \in Pointer
  BY SlotNames DEF TypeOK, Pointer
<1>2. \A v \in Clients :
        /\ Back(v) # s /\ Front(v) # s
        /\ \A i \in Indices : Queue(v, i) # s
  BY DEF Back, Front, Queue, Buffer, Replaced
<1>3. \A t \in Slots \ {s} : ptr'[t] = ptr[t]
  BY <1>1 DEF DestroyBuffer
<1>4. \A b \in BOs : bo'[b].kind = bo[b].kind
  BY <1>1, UnrefKind DEF DestroyBuffer
<1>5. mali'.pOverlayWin = mali.pOverlayWin /\ state' = state
  BY DEF DestroyBuffer, TypeOK, OverlayFields
<1>6. QED
  BY <1>2, <1>3, <1>4, <1>5, SlotNames DEF Kept

\* Every step but a swap keeps the owner and the parity of the frames.
LEMMA StepKept ==
  ASSUME TypeOK, TreeStep \/ HookStep \/ BufferStep \/ UNCHANGED vars
  PROVE  Kept
<1>1. CASE TreeStep
  <2>1. PICK w \in Windows :
          \/ CreateWindow(w) \/ MapWindow(w) \/ UnmapWindow(w) \/ MoveWindow(w)
          \/ ResizeWindow(w) \/ RaiseWindow(w) \/ DestroyWindow(w)
    BY <1>1 DEF TreeStep
  <2>2. CASE DestroyWindow(w)
    BY <2>2, DestroyWindowKept
  <2>3. CASE ~DestroyWindow(w)
    <3>1. tree \in Trees
      BY DEF TypeOK
    <3>2. \E t \in Trees, validated \in BOOLEAN : ChangeTree(t, validated)
      <4> USE DEF Realized
      <4>1. CASE CreateWindow(w)
        BY <3>1, <4>1, GeometryTypes DEF CreateWindow
      <4>2. CASE MapWindow(w) \/ UnmapWindow(w) \/ RaiseWindow(w)
        BY <3>1, <4>2, TreeTypes DEF MapWindow, UnmapWindow, RaiseWindow
      <4>3. CASE MoveWindow(w)
        BY <3>1, <4>3, GeometryTypes DEF MoveWindow
      <4>4. CASE ResizeWindow(w)
        BY <3>1, <4>4, GeometryTypes DEF ResizeWindow
      <4>5. QED
        BY <2>1, <2>3, <4>1, <4>2, <4>3, <4>4
    <3>3. QED
      BY <3>2, ChangeTreeKept
  <2>4. QED
    BY <2>2, <2>3
<1>2. CASE HookStep
  BY <1>2, HookStepKept
<1>3. CASE BufferStep
  <2>1. PICK w \in Clients :
          \/ \E b \in BOs : \/ CreateDummyBuffer(w, b) \/ CreateOverlayBuffer(w, b)
                            \/ CreateNullBuffer(w, b) \/ AllocMemBuffer(w, b)
          \/ ReuseMemBuffer(w)
          \/ DestroyReplacedBuffer(w)
          \/ DestroyDrawableBuffer(w)
    BY <1>3 DEF BufferStep
  <2>2. CASE DestroyReplacedBuffer(w) \/ DestroyDrawableBuffer(w)
    BY <2>2, DestroyBufferKept DEF DestroyReplacedBuffer, DestroyDrawableBuffer
  <2>3. QED
    BY <2>1, <2>2, CreateDummyKept, CreateOverlayKept, CreateNullKept, AllocMemKept, ReuseMemKept
<1>4. CASE UNCHANGED vars
  BY <1>4 DEF vars, Kept
<1>5. QED
  BY <1>1, <1>2, <1>3, <1>4

\* Every part of a swap leaves the kinds of the BOs alone.
SameKinds(f) == \A b \in BOs : f[b].kind = bo[b].kind

\* The order check changes no kind, and no order unless the front buffer was
\* modified.
LEMMA OrderCheckKinds ==
  ASSUME TypeOK, NEW w \in Clients, NEW fm \in BOOLEAN, NEW bm \in BOOLEAN,
         NeedsOrderCheck(w)
  PROVE  LET s == OrderCheck(BeforeSwap(w), fm, bm)
         IN  /\ SameKinds(s.bo)
             /\ s.swaps = state[w].swaps
             /\ ~fm => s.back = ptr[Back(w)] /\ s.front = ptr[Front(w)]
<1> DEFINE r == BeforeSwap(w)
           s == OrderCheck(r, fm, bm)
           f1 == [r.bo EXCEPT ![r.front].has_checksum = FALSE]
           f2 == [f1 EXCEPT ![r.back].has_checksum = FALSE]
           f3 == [f2 EXCEPT ![r.front].passed = TRUE]
           f4 == [f3 EXCEPT ![r.back].passed = TRUE]
<1>1. r \in SwapStatus /\ r.front \in BOs /\ r.back \in BOs
  BY BeforeSwapType DEF NeedsOrderCheck, Comparable, Live, SwapStatus, Pointer
<1>2. /\ r.bo = bo /\ r.back = ptr[Back(w)] /\ r.front = ptr[Front(w)]
      /\ r.swaps = state[w].swaps
      /\ bo \in [BOs -> BOInfo]
  BY DEF BeforeSwap, TypeOK
<1>3. ASSUME NEW f \in [BOs -> BOInfo], NEW p \in BOs, NEW v \in BOOLEAN
      PROVE  /\ \A b \in BOs : [f EXCEPT ![p].has_checksum = v][b].kind = f[b].kind
             /\ \A b \in BOs : [f EXCEPT ![p].passed = v][b].kind = f[b].kind
  BY DEF BOInfo
<1>4. f1 \in [BOs -> BOInfo] /\ f2 \in [BOs -> BOInfo] /\ f3 \in [BOs -> BOInfo]
  BY <1>1, <1>2, FlagTypes
<1>5. \A b \in BOs : f1[b].kind = r.bo[b].kind
  BY <1>1, <1>2, <1>3
<1>6. \A b \in BOs : f2[b].kind = f1[b].kind
  BY <1>1, <1>3, <1>4
<1>7. \A b \in BOs : f3[b].kind = f2[b].kind
  BY <1>1, <1>3, <1>4
<1>8. \A b \in BOs : f4[b].kind = f3[b].kind
  BY <1>1, <1>3, <1>4
<1> HIDE DEF f1, f2, f3, f4
<1>9. s.bo \in {f2, f4}
  BY <1>1 DEF OrderCheck, SwapStatus, f1, f2, f3, f4
<1>10. SameKinds(s.bo)
  BY <1>2, <1>5, <1>6, <1>7, <1>8, <1>9 DEF SameKinds
<1>11. /\ s.swaps = r.swaps
       /\ ~fm => s.back = r.back /\ s.front = r.front
  BY <1>1 DEF OrderCheck, SwapStatus
<1>12. QED
  BY <1>2, <1>10, <1>11

\* The state a swap leaves, in terms of the status before its swap paragraph.
Checked(w, fm, bm) ==
  IF NeedsOrderCheck(w) THEN OrderCheck(BeforeSwap(w), fm, bm) ELSE BeforeSwap(w)

\* When clients do not draw to the front buffer, the checksum comparison
\* never exchanges the buffers.
LEMMA CheckedFrames ==
  ASSUME TypeOK, NEW w \in Clients, NEW fm \in BOOLEAN, NEW bm \in BOOLEAN
  PROVE  /\ Reordered(Checked(w, fm, bm), w)
         /\ SameKinds(Checked(w, fm, bm).bo)
         /\ Checked(w, fm, bm).swaps = state[w].swaps
         /\ ~fm => /\ Checked(w, fm, bm).back = ptr[Back(w)]
                   /\ Checked(w, fm, bm).front = ptr[Front(w)]
<1>1. CASE NeedsOrderCheck(w)
  BY <1>1, OrderCheckReordered, OrderCheckKinds DEF Checked
<1>2. CASE ~NeedsOrderCheck(w)
  BY <1>2, BeforeSwapType DEF Checked, BeforeSwap, Reordered, SameKinds
<1>3. QED
  BY <1>1, <1>2

\* Showing a frame does not change the owner.
LEMMA PresentOwner ==
  ASSUME TypeOK, NEW w \in Clients, NEW b, NEW f
  PROVE  Present(w, b, f).mali.pOverlayWin = mali.pOverlayWin
<1> DEFINE o == UpdateOverlay(Overlay, tree)
<1>1. o \in OverlayStatus /\ o.mali.pOverlayWin = mali.pOverlayWin
  BY OverlayType, UpdateType, UpdateOwner DEF TypeOK, Overlay
<1> HIDE DEF o
<1>2. /\ CopyToWindow(o, w).mali.pOverlayWin = o.mali.pOverlayWin
      /\ FlipLayer(o, w, b).mali.pOverlayWin = o.mali.pOverlayWin
  BY <1>1 DEF CopyToWindow, FlipLayer, OverlayStatus, OverlayFields
<1>3. QED
  BY <1>1, <1>2 DEF Present, o

\* A swap keeps the owner and the parity of the frames.
LEMMA CopyRegionFrames ==
  ASSUME TypeOK, NEW w \in Clients, NEW fm \in BOOLEAN, NEW bm \in BOOLEAN,
         CopyRegion(w, fm, bm)
  PROVE  LET s == SwapBuffers(Checked(w, fm, bm), Fetched(w))
             b == Fetched(w)
         IN  /\ mali'.pOverlayWin = mali.pOverlayWin
             /\ SameKinds(bo')
             /\ \A v \in Clients \ {w} :
                  /\ ptr'[Back(v)] = ptr[Back(v)] /\ ptr'[Front(v)] = ptr[Front(v)]
                  /\ state'[v] = state[v]
             /\ \A v \in Clients, i \in Indices :
                  ptr'[Queue(v, i)] \in {ptr[Queue(v, i)], NoBO}
             /\ ptr'[Back(w)] = s.back
             /\ ptr'[Front(w)] = IF b = NoBO THEN s.front ELSE b
             /\ state'[w].swaps = s.swaps
<1> DEFINE c == Checked(w, fm, bm)
           b == Fetched(w)
           s == SwapBuffers(c, b)
           r == AfterSwap(w, fm, bm)
           r3 == IF Live(r.bo, Shown(w, r)) /\ Comparable(r) THEN SaveChecksums(r) ELSE r
<1>1. Reordered(c, w) /\ SameKinds(c.bo) /\ b \in Pointer
  BY CheckedFrames, FetchedType
<1>2. s \in SwapStatus /\ s.bo = c.bo
  <2>1. s \in SwapStatus
    BY <1>1, SwapType DEF Reordered
  <2>2. s.bo = c.bo
    BY <1>1 DEF SwapBuffers, Reordered, SwapStatus
  <2>3. QED
    BY <2>1, <2>2
<1>3. r = ReplaceFront(s, b) /\ r \in SwapStatus
  BY AfterSwapType DEF AfterSwap, Checked
<1>4. /\ r.back = s.back
      /\ r.front = IF b = NoBO THEN s.front ELSE b
      /\ r.swaps = s.swaps
      /\ r.bo = IF b = NoBO THEN s.bo ELSE Unref(s.bo, s.front)
  BY <1>2, <1>3 DEF ReplaceFront, SwapStatus
<1>5. SameKinds(r.bo)
  BY <1>1, <1>2, <1>4, UnrefKind DEF SameKinds, SwapStatus
<1>6. /\ r3.back = r.back /\ r3.front = r.front /\ r3.swaps = r.swaps
      /\ SameKinds(r3.bo)
  <2>1. /\ SaveChecksums(r).back = r.back /\ SaveChecksums(r).front = r.front
        /\ SaveChecksums(r).swaps = r.swaps
        /\ \A d \in BOs : SaveChecksums(r).bo[d].kind = r.bo[d].kind
    BY <1>3 DEF SaveChecksums, SwapStatus, BOInfo
  <2>2. QED
    BY <1>5, <2>1 DEF SameKinds
<1>7. /\ bo' = r3.bo
      /\ ptr' = SwappedPtr(w, r3)
      /\ state' = [state EXCEPT ![w].swaps = r3.swaps,
                                ![w].tail = IF QueueEmpty(w) THEN @ ELSE NextIndex(@)]
  BY DEF CopyRegion
<1>8. mali'.pOverlayWin = mali.pOverlayWin
  <2>1. CASE Live(r.bo, Shown(w, r))
    BY <2>1, PresentOwner DEF CopyRegion, SetOverlay
  <2>2. CASE ~Live(r.bo, Shown(w, r))
    BY <2>2 DEF CopyRegion
  <2>3. QED
    BY <2>1, <2>2
<1> HIDE DEF r, r3, s, c, b
<1>9. state'[w].swaps = r3.swaps /\ \A v \in Clients \ {w} : state'[v] = state[v]
  BY <1>7 DEF TypeOK, WindowState
<1>10. /\ \A v \in Clients : Back(v) \in Slots /\ Front(v) \in Slots
       /\ \A v \in Clients, i \in Indices : Queue(v, i) \in Slots
       /\ Queue(w, state[w].tail) \in Slots
  BY SlotNames DEF TypeOK, WindowState
<1>11. /\ \A v \in Clients \ {w} : /\ Back(v) \notin {Back(w), Front(w), Queue(w, state[w].tail)}
                                   /\ Front(v) \notin {Back(w), Front(w), Queue(w, state[w].tail)}
       /\ \A v \in Clients, i \in Indices : Queue(v, i) \notin {Back(w), Front(w)}
       /\ Back(w) # Front(w)
       /\ Queue(w, state[w].tail) \notin {Back(w), Front(w)}
  BY DEF Back, Front, Queue
<1>12. ptr \in [Slots -> Pointer]
  BY DEF TypeOK, Pointer
<1>13. /\ \A v \in Clients \ {w} : ptr'[Back(v)] = ptr[Back(v)] /\ ptr'[Front(v)] = ptr[Front(v)]
       /\ \A v \in Clients, i \in Indices : ptr'[Queue(v, i)] \in {ptr[Queue(v, i)], NoBO}
       /\ ptr'[Back(w)] = r3.back
       /\ ptr'[Front(w)] = r3.front
  BY <1>7, <1>10, <1>11, <1>12 DEF SwappedPtr
<1>14. QED
  BY <1>4, <1>6, <1>7, <1>8, <1>9, <1>13 DEF s, c, b

\* A frame that comes out of the queue was in one of its slots.
LEMMA FetchedSlot ==
  ASSUME TypeOK, NEW w \in Clients, Fetched(w) # NoBO
  PROVE  \E i \in Indices : Fetched(w) = ptr[Queue(w, i)]
BY DEF Fetched, TypeOK, WindowState

\* Two windows never use the offscreen framebuffer: pOverlayWin is the only
\* one with frames that wrap it, whatever windows come, go and resize.
THEOREM OverlayOwnerCorrect == Spec => []OverlayHasOneOwner
<1>1. Init => OverlayHasOneOwner
  BY BufferInfoAssumption, SlotNames DEF Init, OverlayHasOneOwner, Unused, Fresh
<1>2. TypeOK /\ OverlayHasOneOwner /\ [Next]_vars => OverlayHasOneOwner'
  <2> SUFFICES ASSUME TypeOK, OverlayHasOneOwner, [Next]_vars,
                      NEW v \in Clients, NEW b \in BOs,
                      bo'[b].kind \in Frames,
                      \/ ptr'[Back(v)] = b \/ ptr'[Front(v)] = b
                      \/ \E i \in Indices : ptr'[Queue(v, i)] = b
               PROVE  v = mali'.pOverlayWin
    BY DEF OverlayHasOneOwner, Back, Front, Queue
  <2>1. b # NoBO
    BY BufferInfoAssumption
  <2>2. CASE TreeStep \/ HookStep \/ BufferStep \/ UNCHANGED vars
    <3>1. Kept
      BY <2>2, StepKept
    <3>2. CASE v = mali'.pOverlayWin
      BY <3>2
    <3>3. CASE v # mali'.pOverlayWin
      <4>1. \/ ptr[Back(v)] = b \/ ptr[Front(v)] = b
            \/ \E i \in Indices : ptr[Queue(v, i)] = b
        BY <2>1, <3>1, <3>3 DEF Kept
      <4>2. bo'[b].kind = bo[b].kind
        BY <3>1, <4>1, SlotNames DEF Kept
      <4>3. v = mali.pOverlayWin
        BY <4>1, <4>2 DEF OverlayHasOneOwner
      <4>4. QED
        BY <2>1, <3>1, <3>3, <4>3 DEF Kept
    <3>4. QED
      BY <3>2, <3>3
  <2>3. CASE SwapStep
    <3>1. PICK w \in Clients, fm \in BOOLEAN, bm \in BOOLEAN : CopyRegion(w, fm, bm)
      BY <2>3 DEF SwapStep
    <3> DEFINE s == SwapBuffers(Checked(w, fm, bm), Fetched(w))
    <3>2. /\ mali'.pOverlayWin = mali.pOverlayWin
          /\ SameKinds(bo')
          /\ \A u \in Clients \ {w} :
               ptr'[Back(u)] = ptr[Back(u)] /\ ptr'[Front(u)] = ptr[Front(u)]
          /\ \A u \in Clients, i \in Indices : ptr'[Queue(u, i)] \in {ptr[Queue(u, i)], NoBO}
          /\ ptr'[Back(w)] = s.back
          /\ ptr'[Front(w)] = IF Fetched(w) = NoBO THEN s.front ELSE Fetched(w)
      BY <3>1, CopyRegionFrames
    <3>3. Reordered(s, w)
      BY CheckedFrames, FetchedType, SwapReordered
    <3> HIDE DEF s
    <3>4. \/ ptr[Back(v)] = b \/ ptr[Front(v)] = b
          \/ \E i \in Indices : ptr[Queue(v, i)] = b
      <4>1. CASE v = w
        <5>1. \/ s.back = b \/ s.front = b
              \/ Fetched(w) # NoBO /\ Fetched(w) = b
              \/ \E i \in Indices : ptr[Queue(v, i)] = b
          BY <2>1, <3>2, <4>1
        <5>2. QED
          BY <3>3, <4>1, <5>1, FetchedSlot DEF Reordered
      <4>2. CASE v # w
        BY <2>1, <3>2, <4>2
      <4>3. QED
        BY <4>1, <4>2
    <3>5. bo[b].kind \in Frames
      BY <3>2 DEF SameKinds
    <3>6. QED
      BY <3>2, <3>4, <3>5 DEF OverlayHasOneOwner
  <2>4. QED
    BY <2>2, <2>3 DEF Next
<1>3. QED
  BY <1>1, <1>2, TypeCorrect, PTL DEF Spec

\* As long as clients leave the displayed buffer alone, the odd and the even
\* half of the offscreen framebuffer alternate on screen, through every resize,
\* every skipped swap and every loss of the overlay.
THEOREM FrameParityCorrect ==
  ASSUME ~ClientsWriteFront
  PROVE  Spec => []FrameParity
<1>1. Init => FrameParity
  BY SlotNames DEF Init, FrameParity
<1>2. TypeOK /\ FrameParity /\ [Next]_vars => FrameParity'
  <2> SUFFICES ASSUME TypeOK, FrameParity, [Next]_vars, NEW v \in Clients
               PROVE  /\ ptr'[Front(v)] # NoBO /\ bo'[ptr'[Front(v)]].kind \in Frames =>
                           (bo'[ptr'[Front(v)]].kind = "odd") = (state'[v].swaps = 1)
                      /\ ptr'[Back(v)] # NoBO /\ bo'[ptr'[Back(v)]].kind \in Frames =>
                           (bo'[ptr'[Back(v)]].kind = "odd") = (state'[v].swaps = 0)
    BY DEF FrameParity, Back, Front
  <2> DEFINE back == ptr[Back(v)]
             front == ptr[Front(v)]
  <2>1. /\ back \in Pointer /\ front \in Pointer
        /\ Back(v) \in Slots /\ Front(v) \in Slots
    BY SlotNames DEF TypeOK, Pointer
  <2>2. /\ front # NoBO /\ bo[front].kind \in Frames =>
             (bo[front].kind = "odd") = (state[v].swaps = 1)
        /\ back # NoBO /\ bo[back].kind \in Frames =>
             (bo[back].kind = "odd") = (state[v].swaps = 0)
    BY DEF FrameParity
  <2>3. CASE TreeStep \/ HookStep \/ BufferStep \/ UNCHANGED vars
    <3>1. Kept
      BY <2>3, StepKept
    <3>2. /\ ptr'[Front(v)] \in {front, NoBO} /\ ptr'[Back(v)] \in {back, NoBO}
          /\ \/ state'[v].swaps = state[v].swaps
             \/ ptr'[Back(v)] = NoBO /\ ptr'[Front(v)] = NoBO
      BY <3>1 DEF Kept
    <3>3. /\ front # NoBO => bo'[front].kind = bo[front].kind
          /\ back # NoBO => bo'[back].kind = bo[back].kind
      BY <2>1, <3>1 DEF Kept, Pointer
    <3>4. QED
      BY <2>2, <3>2, <3>3
  <2>4. CASE SwapStep
    <3>1. PICK w \in Clients, fm \in BOOLEAN, bm \in BOOLEAN : CopyRegion(w, fm, bm)
      BY <2>4 DEF SwapStep
    <3> DEFINE c == Checked(w, fm, bm)
               b == Fetched(w)
               s == SwapBuffers(c, b)
    <3>2. /\ SameKinds(bo')
          /\ \A u \in Clients \ {w} :
               /\ ptr'[Back(u)] = ptr[Back(u)] /\ ptr'[Front(u)] = ptr[Front(u)]
               /\ state'[u] = state[u]
          /\ ptr'[Back(w)] = s.back
          /\ ptr'[Front(w)] = IF b = NoBO THEN s.front ELSE b
          /\ state'[w].swaps = s.swaps
      BY <3>1, CopyRegionFrames
    <3>3. ~fm
      BY <3>1 DEF CopyRegion
    <3>4. /\ SameKinds(c.bo) /\ c.swaps = state[w].swaps
          /\ c.back = ptr[Back(w)] /\ c.front = ptr[Front(w)]
          /\ c \in SwapStatus
      BY <3>3, CheckedFrames DEF Reordered
    <3>5. b \in Pointer /\ state[w].swaps \in {0, 1}
      BY FetchedType DEF TypeOK, WindowState
    <3>6. CASE v # w
      BY <2>1, <2>2, <3>2, <3>6 DEF SameKinds, Pointer
    <3>7. CASE v = w
      <4> HIDE DEF c, b
      <4>1. WrongOrder(c, b) <=>
              b # NoBO /\ \/ bo[b].kind = "odd" /\ state[w].swaps = 1
                          \/ bo[b].kind = "even" /\ state[w].swaps = 0
        BY <3>4, <3>5 DEF WrongOrder, SameKinds, Pointer
      <4>2. CASE WrongOrder(c, b)
        <5>1. s.back = back /\ s.swaps = state[w].swaps /\ b # NoBO
          BY <3>4, <3>7, <4>1, <4>2 DEF SwapBuffers
        <5>2. QED
          BY <2>1, <2>2, <3>2, <3>5, <3>7, <4>1, <4>2, <5>1 DEF SameKinds, Pointer
      <4>3. CASE ~WrongOrder(c, b)
        <5>1. s.back = front /\ s.front = back /\ s.swaps = 1 - state[w].swaps
          BY <3>4, <3>7, <4>3 DEF SwapBuffers, SwapStatus
        <5> HIDE DEF s
        <5>2. (s.swaps = 1) = (state[w].swaps = 0) /\ (s.swaps = 0) = (state[w].swaps = 1)
          BY <3>5, <5>1
        <5>3. CASE b = NoBO
          BY <2>1, <2>2, <3>2, <3>7, <5>1, <5>2, <5>3 DEF SameKinds, Pointer
        <5>4. CASE b # NoBO
          BY <2>1, <2>2, <3>2, <3>5, <3>7, <4>1, <4>3, <5>1, <5>2, <5>4 DEF SameKinds, Pointer
        <5>5. QED
          BY <5>3, <5>4
      <4>4. QED
        BY <4>2, <4>3
    <3>8. QED
      BY <3>6, <3>7
  <2>5. QED
    BY <2>3, <2>4 DEF Next
<1>3. QED
  BY <1>1, <1>2, TypeCorrect, PTL DEF Spec

-----------------------------------------------------------------------------
(***************************************************************************)
(* The shape of the queue.                                                 *)
(***************************************************************************)
\* Index i is from tail on and before head.
Inside(head, tail, i) ==
  IF tail < head THEN tail <= i /\ i < head ELSE tail <= i \/ i < head

\* QueueShape of one window; when the two ends meet, the queue is empty or, after
\* an overflow, full.
Ring(p, head, tail, w) ==
  IF head # tail
  THEN \A i \in Indices : p[Queue(w, i)] # NoBO <=> Inside(head, tail, i)
  ELSE \/ \A i \in Indices : p[Queue(w, i)] = NoBO
       \/ \A i \in Indices : p[Queue(w, i)] # NoBO

Rings == \A w \in Clients : Ring(ptr, state[w].head, state[w].tail, w)

\* The index after the last is the first.
LEMMA NextIndexIs ==
  ASSUME NEW i \in Indices
  PROVE  /\ i \in Int /\ 0 <= i /\ i < QueueSize /\ QueueSize \in Int
         /\ NextIndex(i) = IF i = QueueSize - 1 THEN 0 ELSE i + 1
<1>1. QueueSize \in Nat \ {0} /\ i \in Int /\ 0 <= i /\ i < QueueSize
  BY BufferInfoAssumption DEF Indices
<1>2. CASE i = QueueSize - 1
  BY <1>1, <1>2 DEF NextIndex
<1>3. CASE i # QueueSize - 1
  BY <1>1, <1>3 DEF NextIndex
<1>4. QED
  BY <1>1, <1>2, <1>3

\* bo_add_to_queue fills the slot at the head and moves it on.
LEMMA RingAdds ==
  ASSUME NEW p, NEW q, NEW w, NEW h \in Indices, NEW t \in Indices,
         Ring(p, h, t, w), p[Queue(w, h)] = NoBO, q[Queue(w, h)] # NoBO,
         \A i \in Indices \ {h} : q[Queue(w, i)] = p[Queue(w, i)]
  PROVE  Ring(q, NextIndex(h), t, w)
<1> DEFINE n == NextIndex(h)
<1>1. /\ h \in Int /\ 0 <= h /\ h < QueueSize /\ QueueSize \in Int
      /\ t \in Int /\ 0 <= t /\ t < QueueSize
      /\ n = IF h = QueueSize - 1 THEN 0 ELSE h + 1
      /\ n \in Int
  BY NextIndexIs
<1> HIDE DEF n
<1>2. \A i \in Indices : i \in Int /\ 0 <= i /\ i < QueueSize
  BY NextIndexIs
<1>3. \A i \in Indices : p[Queue(w, i)] # NoBO <=> h # t /\ Inside(h, t, i)
  BY DEF Ring
<1>4. \A i \in Indices : q[Queue(w, i)] # NoBO <=> i = h \/ (h # t /\ Inside(h, t, i))
  BY <1>3
<1>5. CASE n # t
  <2>1. \A i \in Indices : i = h \/ (h # t /\ Inside(h, t, i)) <=> Inside(n, t, i)
    BY <1>1, <1>2, <1>5 DEF Inside
  <2>2. QED
    BY <1>4, <1>5, <2>1 DEF Ring, n
<1>6. CASE n = t
  <2>1. \A i \in Indices : i = h \/ (h # t /\ Inside(h, t, i))
    BY <1>1, <1>2, <1>6 DEF Inside
  <2>2. QED
    BY <1>4, <1>6, <2>1 DEF Ring, n
<1>7. QED
  BY <1>5, <1>6

\* bo_fetch_from_queue clears the slot at the tail and moves it on.
LEMMA RingTakes ==
  ASSUME NEW p, NEW q, NEW w, NEW h \in Indices, NEW t \in Indices,
         Ring(p, h, t, w), h # t, q[Queue(w, t)] = NoBO,
         \A i \in Indices \ {t} : q[Queue(w, i)] = p[Queue(w, i)]
  PROVE  Ring(q, h, NextIndex(t), w)
<1> DEFINE n == NextIndex(t)
<1>1. /\ h \in Int /\ 0 <= h /\ h < QueueSize /\ QueueSize \in Int
      /\ t \in Int /\ 0 <= t /\ t < QueueSize
      /\ n = IF t = QueueSize - 1 THEN 0 ELSE t + 1
      /\ n \in Int
  BY NextIndexIs
<1> HIDE DEF n
<1>2. \A i \in Indices : i \in Int /\ 0 <= i /\ i < QueueSize
  BY NextIndexIs
<1>3. \A i \in Indices : q[Queue(w, i)] # NoBO <=> i # t /\ Inside(h, t, i)
  BY DEF Ring
<1>4. CASE n # h
  <2>1. \A i \in Indices : i # t /\ Inside(h, t, i) <=> Inside(h, n, i)
    BY <1>1, <1>2, <1>4 DEF Inside
  <2>2. QED
    BY <1>3, <1>4, <2>1 DEF Ring, n
<1>5. CASE n = h
  <2>1. \A i \in Indices : ~(i # t /\ Inside(h, t, i))
    BY <1>1, <1>2, <1>5 DEF Inside
  <2>2. QED
    BY <1>3, <1>5, <2>1 DEF Ring, n
<1>6. QED
  BY <1>4, <1>5

\* Two queues with the same BOs and the same ends have the same shape.
LEMMA RingSame ==
  ASSUME NEW p, NEW q, NEW w, NEW h, NEW t, Ring(p, h, t, w),
         \A i \in Indices : q[Queue(w, i)] = p[Queue(w, i)]
  PROVE  Ring(q, h, t, w)
BY DEF Ring

\* The step leaves the queue of v as it is.
QueueKept(v) ==
  /\ state'[v].head = state[v].head /\ state'[v].tail = state[v].tail
  /\ \A i \in Indices : ptr'[Queue(v, i)] = ptr[Queue(v, i)]

\* Requests that do not use the overlay leave all queues as they are.
LEMMA MemPathQueues ==
  ASSUME TypeOK, NEW w \in Clients, NEW p \in [Slots -> Pointer], NEW b,
         p = DropOverlayPointers(w) \/
           (\E m \in Pointer : p = [DropOverlayPointers(w) EXCEPT ![Mem(w)] = m]),
         ptr' = Handover(p, w, b),
         state' = [state EXCEPT ![w] = Booked(w)],
         NEW v \in Clients
  PROVE  QueueKept(v)
<1>1. \A i \in Indices : /\ Queue(v, i) \in Slots
                         /\ Queue(v, i) \notin {Mem(w), Back(w), Front(w)}
  BY SlotNames DEF Queue, Mem, Back, Front
<1>2. ptr \in [Slots -> Pointer]
  BY DEF TypeOK, Pointer
<1>3. \A i \in Indices : DropOverlayPointers(w)[Queue(v, i)] = ptr[Queue(v, i)]
  BY <1>1, <1>2 DEF DropOverlayPointers
<1>4. DropOverlayPointers(w) \in [Slots -> Pointer]
  BY <1>2 DEF DropOverlayPointers, Pointer
<1>5. \A i \in Indices : p[Queue(v, i)] = ptr[Queue(v, i)]
  BY <1>1, <1>3, <1>4
<1>6. \A i \in Indices : ptr'[Queue(v, i)] = ptr[Queue(v, i)]
  BY <1>5, HandoverSlots
<1>7. Booked(w).head = state[w].head /\ Booked(w).tail = state[w].tail
  BY DEF Booked, TypeOK, WindowState
<1>8. QED
  BY <1>6, <1>7 DEF QueueKept, TypeOK

\* A step that does not touch the queue of v.
LEMMA CreateDummyQueues ==
  ASSUME TypeOK, NEW w \in Clients, NEW b \in BOs, CreateDummyBuffer(w, b), NEW v \in Clients
  PROVE  QueueKept(v)
<1>1. ptr \in [Slots -> Pointer]
  BY DEF TypeOK, Pointer
<1>2. QED
  BY <1>1, HandoverSlots DEF CreateDummyBuffer, QueueKept

LEMMA MemPathsQueues ==
  ASSUME TypeOK, NEW w \in Clients, NEW v \in Clients,
         \/ ReuseMemBuffer(w)
         \/ \E b \in BOs : CreateNullBuffer(w, b) \/ AllocMemBuffer(w, b)
  PROVE  QueueKept(v)
<1> DEFINE d == DropOverlayPointers(w)
           Set(m) == [d EXCEPT ![Mem(w)] = m]
<1>1. d \in [Slots -> Pointer]
  BY DEF TypeOK, Pointer, DropOverlayPointers
<1>2. \A m \in Pointer : Set(m) \in [Slots -> Pointer]
  BY <1>1
<1>3. NoBO \in Pointer /\ \A b \in BOs : b \in Pointer
  BY DEF Pointer
<1>4. CASE ReuseMemBuffer(w)
  BY <1>1, <1>4, MemPathQueues DEF ReuseMemBuffer
<1>5. CASE \E b \in BOs : CreateNullBuffer(w, b)
  <2>1. PICK b \in BOs : CreateNullBuffer(w, b)
    BY <1>5
  <2>2. ptr' = Handover(Set(NoBO), w, b) /\ state' = [state EXCEPT ![w] = Booked(w)]
    BY <2>1 DEF CreateNullBuffer
  <2>3. QED
    BY <1>2, <1>3, <2>2, MemPathQueues
<1>6. CASE \E b \in BOs : AllocMemBuffer(w, b)
  <2>1. PICK b \in BOs : AllocMemBuffer(w, b)
    BY <1>6
  <2>2. ptr' = Handover(Set(b), w, b) /\ state' = [state EXCEPT ![w] = Booked(w)]
    BY <2>1 DEF AllocMemBuffer
  <2>3. QED
    BY <1>2, <1>3, <2>2, MemPathQueues
<1>7. QED
  BY <1>4, <1>5, <1>6

\* A buffer the server gives up was in no queue's slot.
LEMMA DestroyBufferQueues ==
  ASSUME TypeOK, NEW w \in Clients, NEW s \in {Buffer(w), Replaced(w)}, DestroyBuffer(s),
         NEW v \in Clients
  PROVE  QueueKept(v)
<1>0. \A i \in Indices : Queue(v, i) \in Slots
  BY SlotNames
<1>1. \A i \in Indices : Queue(v, i) # s
  BY DEF Queue, Buffer, Replaced
<1>2. ptr \in [Slots -> Pointer]
  BY DEF TypeOK, Pointer
<1>3. \A t \in Slots \ {s} : ptr'[t] = ptr[t]
  BY <1>2 DEF DestroyBuffer
<1>4. UNCHANGED state
  BY DEF DestroyBuffer
<1>5. QED
  BY <1>0, <1>1, <1>3, <1>4 DEF QueueKept

\* The window that goes away leaves an empty queue; the others keep theirs.
LEMMA DestroyWindowQueues ==
  ASSUME TypeOK, NEW w \in Windows, DestroyWindow(w), NEW v \in Clients,
         Ring(ptr, state[v].head, state[v].tail, v)
  PROVE  Ring(ptr', state'[v].head, state'[v].tail, v)
<1>1. CASE w \in Clients
  <2>1. /\ \A s \in Slots : ptr'[s] = IF s[2] = w THEN NoBO ELSE ptr[s]
        /\ state' = [state EXCEPT ![w] = NoState]
    BY <1>1 DEF DestroyWindow
  <2>2. \A i \in Indices : Queue(v, i) \in Slots /\ Queue(v, i)[2] = v
    BY SlotNames DEF Queue
  <2>3. CASE v = w
    <3>1. state'[v].head = 0 /\ state'[v].tail = 0
      BY <1>1, <2>1, <2>3 DEF NoState, TypeOK
    <3>2. \A i \in Indices : ptr'[Queue(v, i)] = NoBO
      BY <2>1, <2>2, <2>3
    <3>3. QED
      BY <3>1, <3>2 DEF Ring
  <2>4. CASE v # w
    <3>1. state'[v] = state[v]
      BY <2>1, <2>4 DEF TypeOK
    <3>2. \A i \in Indices : ptr'[Queue(v, i)] = ptr[Queue(v, i)]
      BY <2>1, <2>2, <2>4
    <3>3. QED
      BY <3>1, <3>2, RingSame
  <2>5. QED
    BY <2>3, <2>4
<1>2. CASE w \notin Clients
  BY <1>2 DEF DestroyWindow
<1>3. QED
  BY <1>1, <1>2

\* A frame is queued at the head, unless the slot there is taken.
LEMMA CreateOverlayQueues ==
  ASSUME TypeOK, NEW w \in Clients, NEW b \in BOs, CreateOverlayBuffer(w, b),
         NEW v \in Clients, Ring(ptr, state[v].head, state[v].tail, v)
  PROVE  Ring(ptr', state'[v].head, state'[v].tail, v)
<1> DEFINE h == state[w].head
           slot == Queue(w, h)
           queued == IF QueueOverflow(w) THEN ptr ELSE [ptr EXCEPT ![slot] = b]
           p == [queued EXCEPT ![Mem(w)] = NoBO]
           n == IF QueueOverflow(w) THEN h ELSE NextIndex(h)
<1>1. /\ ptr \in [Slots -> Pointer] /\ state \in [Clients -> WindowState]
      /\ h \in Indices /\ state[w].tail \in Indices
  BY DEF TypeOK, Pointer, WindowState
<1>2. p \in [Slots -> Pointer] /\ slot \in Slots
  BY <1>1, SlotNames DEF Pointer
<1>3. ptr' = Handover(p, w, b)
  BY DEF CreateOverlayBuffer
<1>4. state' = [state EXCEPT ![w] = [Booked(w) EXCEPT !.head = n]]
  BY DEF CreateOverlayBuffer, Booked, TypeOK, WindowState
<1>5. \A i \in Indices : Queue(v, i) \in Slots /\ Queue(v, i) # Mem(w)
  BY SlotNames DEF Queue, Mem
<1>6. \A i \in Indices : p[Queue(v, i)] = queued[Queue(v, i)]
  BY <1>1, <1>2, <1>5
<1> HIDE DEF p
<1>7. \A i \in Indices : ptr'[Queue(v, i)] = queued[Queue(v, i)]
  BY <1>2, <1>3, <1>6, HandoverSlots
<1>8. CASE v # w
  <2>1. \A i \in Indices : Queue(v, i) # slot
    BY <1>8 DEF Queue
  <2>2. \A i \in Indices : ptr'[Queue(v, i)] = ptr[Queue(v, i)]
    BY <1>1, <1>5, <1>7, <2>1
  <2>3. state'[v] = state[v]
    BY <1>1, <1>4, <1>8
  <2>4. QED
    BY <2>2, <2>3, RingSame
<1>9. CASE v = w
  <2>1. state'[w].head = n /\ state'[w].tail = state[w].tail
    BY <1>1, <1>4 DEF Booked, WindowState
  <2>2. CASE QueueOverflow(w)
    BY <1>7, <1>9, <2>1, <2>2, RingSame
  <2>3. CASE ~QueueOverflow(w)
    <3>1. \A i \in Indices \ {h} : Queue(w, i) # slot
      BY DEF Queue
    <3>2. \A i \in Indices \ {h} : ptr'[Queue(w, i)] = ptr[Queue(w, i)]
      BY <1>1, <1>5, <1>7, <1>9, <2>3, <3>1
    <3>3. ptr'[Queue(w, h)] # NoBO /\ ptr[Queue(w, h)] = NoBO
      BY <1>1, <1>2, <1>7, <1>9, <2>3, BufferInfoAssumption DEF QueueOverflow
    <3>4. QED
      BY <1>1, <1>9, <2>1, <2>3, <3>2, <3>3, RingAdds
  <2>4. QED
    BY <2>2, <2>3
<1>10. QED
  BY <1>8, <1>9

\* A swap takes the frame at the tail, if there is one.
LEMMA CopyRegionQueues ==
  ASSUME TypeOK, NEW w \in Clients, NEW fm \in BOOLEAN, NEW bm \in BOOLEAN,
         CopyRegion(w, fm, bm),
         NEW v \in Clients, Ring(ptr, state[v].head, state[v].tail, v)
  PROVE  Ring(ptr', state'[v].head, state'[v].tail, v)
<1> DEFINE t == state[w].tail
           slot == Queue(w, t)
<1>1. /\ ptr \in [Slots -> Pointer] /\ state \in [Clients -> WindowState]
      /\ t \in Indices /\ state[w].head \in Indices
  BY DEF TypeOK, Pointer, WindowState
<1>2. PICK r : /\ ptr' = SwappedPtr(w, r)
               /\ state' = [state EXCEPT ![w].swaps = r.swaps,
                                         ![w].tail = IF QueueEmpty(w) THEN @ ELSE NextIndex(@)]
  BY DEF CopyRegion
<1>3. \A i \in Indices : Queue(v, i) \in Slots \ {Back(w), Front(w)}
  BY SlotNames DEF Queue, Back, Front
<1>4. \A i \in Indices : ptr'[Queue(v, i)] =
        IF Queue(v, i) = slot /\ ~QueueEmpty(w) THEN NoBO ELSE ptr[Queue(v, i)]
  BY <1>1, <1>2, <1>3 DEF SwappedPtr
<1>5. CASE v # w
  <2>1. \A i \in Indices : Queue(v, i) # slot
    BY <1>5 DEF Queue
  <2>2. state'[v] = state[v]
    BY <1>1, <1>2, <1>5
  <2>3. QED
    BY <1>4, <2>1, <2>2, RingSame
<1>6. CASE v = w
  <2>1. /\ state'[w].head = state[w].head
        /\ state'[w].tail = IF QueueEmpty(w) THEN t ELSE NextIndex(t)
    BY <1>1, <1>2 DEF WindowState
  <2>2. CASE QueueEmpty(w)
    BY <1>4, <1>6, <2>1, <2>2, RingSame
  <2>3. CASE ~QueueEmpty(w)
    <3>1. \A i \in Indices \ {t} : Queue(w, i) # slot
      BY DEF Queue
    <3>2. QED
      BY <1>1, <1>4, <1>6, <2>1, <2>3, <3>1, RingTakes DEF QueueEmpty
  <2>4. QED
    BY <2>2, <2>3
<1>7. QED
  BY <1>5, <1>6

\* The ring queue of every window is a queue, whatever its size and whichever
\* requests, swaps and overflows come in which order: the slots from tail to head
\* hold BOs and the others NULL.
THEOREM QueueShapeCorrect == Spec => []QueueShape
<1>1. Init => Rings
  BY SlotNames DEF Init, Rings, Ring, NoState
<1>2. TypeOK /\ Rings /\ [Next]_vars => Rings'
  <2> SUFFICES ASSUME TypeOK, Rings, [Next]_vars, NEW v \in Clients
               PROVE  Ring(ptr', state'[v].head, state'[v].tail, v)
    BY DEF Rings, Ring, Queue
  <2>1. Ring(ptr, state[v].head, state[v].tail, v)
    BY DEF Rings
  <2>2. QueueKept(v) => Ring(ptr', state'[v].head, state'[v].tail, v)
    BY <2>1, RingSame DEF QueueKept
  <2>3. CASE TreeStep
    <3>1. PICK w \in Windows :
            \/ CreateWindow(w) \/ MapWindow(w) \/ UnmapWindow(w) \/ MoveWindow(w)
            \/ ResizeWindow(w) \/ RaiseWindow(w) \/ DestroyWindow(w)
      BY <2>3 DEF TreeStep
    <3>2. CASE DestroyWindow(w)
      BY <2>1, <3>2, DestroyWindowQueues
    <3>3. CASE ~DestroyWindow(w)
      <4>1. UNCHANGED <<ptr, state>>
        BY <3>1, <3>3 DEF CreateWindow, MapWindow, UnmapWindow, MoveWindow, ResizeWindow,
                          RaiseWindow, ChangeTree
      <4>2. QED
        BY <2>1, <4>1
    <3>4. QED
      BY <3>2, <3>3
  <2>4. CASE HookStep
    BY <2>1, <2>4 DEF HookStep, EnableHWCursor, DisableHWCursor, GetImage
  <2>5. CASE BufferStep
    <3>1. PICK w \in Clients :
            \/ \E b \in BOs : \/ CreateDummyBuffer(w, b) \/ CreateOverlayBuffer(w, b)
                              \/ CreateNullBuffer(w, b) \/ AllocMemBuffer(w, b)
            \/ ReuseMemBuffer(w)
            \/ DestroyReplacedBuffer(w)
            \/ DestroyDrawableBuffer(w)
      BY <2>5 DEF BufferStep
    <3>2. CASE DestroyReplacedBuffer(w) \/ DestroyDrawableBuffer(w)
      BY <2>2, <3>2, DestroyBufferQueues DEF DestroyReplacedBuffer, DestroyDrawableBuffer
    <3>3. CASE \E b \in BOs : CreateOverlayBuffer(w, b)
      BY <2>1, <3>3, CreateOverlayQueues
    <3>4. CASE \E b \in BOs : CreateDummyBuffer(w, b)
      BY <2>2, <3>4, CreateDummyQueues
    <3>5. CASE ReuseMemBuffer(w) \/ \E b \in BOs : CreateNullBuffer(w, b) \/ AllocMemBuffer(w, b)
      BY <2>2, <3>5, MemPathsQueues
    <3>6. QED
      BY <3>1, <3>2, <3>3, <3>4, <3>5
  <2>6. CASE SwapStep
    BY <2>1, <2>6, CopyRegionQueues DEF SwapStep
  <2>7. CASE UNCHANGED vars
    BY <2>1, <2>7 DEF vars
  <2>8. QED
    BY <2>3, <2>4, <2>5, <2>6, <2>7 DEF Next
<1>3. Rings => QueueShape
  BY DEF Rings, Ring, Inside, QueueShape
<1>4. QED
  BY <1>1, <1>2, <1>3, TypeCorrect, PTL DEF Spec

-----------------------------------------------------------------------------
(***************************************************************************)
(* When the layer is on screen, and where.                                 *)
(***************************************************************************)
\* Obscured, in tree t.
ObscuredIn(t, w) ==
  \E v \in t.exists \ {w} :
    /\ Realized(t, v) /\ BoxesOverlap(t, v, w)
    /\ \/ Parent[v] = w
       \/ \E p \in {w, Top(w)}, q \in {v, Top(v)} : <<p, q>> \in t.below

\* Only windows that exist are mapped, and the stacking order relates siblings.
GoodTree(t) ==
  /\ t \in Trees
  /\ t.mapped \subseteq t.exists
  /\ \A v, w \in Windows : <<v, w>> \in t.below => Parent[v] = Parent[w]

\* The layer is where set_output_window put it, for an overlay window that exists.
GoodLayer(o, t) ==
  /\ o.mali.bOverlayWinEnabled => UseOverlay
  /\ o.layer.x = o.mali.overlay_x
  /\ o.mali.pOverlayWin \in t.exists \union {NoWin}
  /\ o.layer.shown => o.mali.bOverlayWinEnabled /\ o.mali.pOverlayWin # NoWin

\* What a shown layer relies on.
Unobscured(o, t) ==
  LET w == o.mali.pOverlayWin IN
  o.layer.shown =>
    /\ o.mali.bHardwareCursorIsInUse
    /\ Realized(t, w) => ~ObscuredIn(t, w) /\ o.mali.overlay_x = Column(t, w)

\* A BO without a handle of its own that can be read wraps the framebuffer, and
\* bo_mem_ptr does not.
GoodBOs ==
  /\ \A b \in BOs : bo[b].addr /\ ~bo[b].handle => bo[b].kind \in Frames
  /\ \A w \in Clients : ptr[Mem(w)] # NoBO => bo[ptr[Mem(w)]].kind = "mem"

OverlayInv == GoodTree(tree) /\ GoodLayer(Overlay, tree) /\ Unobscured(Overlay, tree) /\ GoodBOs

\* The frame of a window is a top-level window, and the two are stacked apart.
LEMMA TopIs ==
  ASSUME NEW w \in Windows
  PROVE  /\ Top(w) \in Windows /\ Parent[Top(w)] = Root
         /\ Parent[w] # w /\ Parent[w] \in Windows \union {Root}
         /\ Parent[w] # Root => Parent[Parent[w]] = Root
         /\ Top(w) = w <=> Parent[w] = Root
         /\ Root \notin Windows
BY WindowTreeAssumption DEF Top

\* FancyTraverseTree comes to every window that can be in front of w.
LEMMA WalkFinds ==
  ASSUME NEW t, GoodTree(t), NEW w \in Windows, ~Overlapped(t, w)
  PROVE  ~ObscuredIn(t, w)
<1> SUFFICES ASSUME NEW v \in t.exists \ {w}, Realized(t, v), BoxesOverlap(t, v, w),
                    Parent[v] # w,
                    NEW p \in {w, Top(w)}, NEW q \in {v, Top(v)}, <<p, q>> \in t.below
             PROVE  v \in VisitedAfter(t, w)
  BY DEF ObscuredIn, Overlapped, VisitedAfter
<1>1. v \in Windows /\ t.below \subseteq Windows \X Windows
  BY DEF GoodTree, Trees
<1>2. /\ Top(w) \in Windows /\ Parent[Top(w)] = Root
      /\ Top(v) \in Windows /\ Parent[Top(v)] = Root
      /\ Top(w) = w <=> Parent[w] = Root
      /\ Top(v) = v <=> Parent[v] = Root
  BY <1>1, TopIs
<1>3. Parent[p] = Parent[q]
  BY <1>1, <1>2 DEF GoodTree
<1>4. <<p, q>> \in {<<w, v>>, <<Top(w), Top(v)>>}
  BY <1>2, <1>3
<1>5. QED
  BY <1>4 DEF VisitedAfter

\* Restacking leaves siblings beside siblings.
LEMMA OnTopSiblings ==
  ASSUME NEW t, GoodTree(t), NEW w \in Windows
  PROVE  \A u, v \in Windows : <<u, v>> \in OnTop(t, w) =>
           Parent[u] = Parent[v] /\ (<<u, v>> \in t.below \/ v = w)
BY DEF GoodTree, OnTop, Siblings

\* What the server does to the tree keeps it a good one.
LEMMA GoodTrees ==
  ASSUME NEW t, GoodTree(t), NEW w \in Windows
  PROVE  /\ \A s \in Sizes, x \in Positions : GoodTree(Created(t, w, s, x))
         /\ w \in t.exists => GoodTree(Mapped(t, w))
         /\ GoodTree(Unmapped(t, w))
         /\ \A x \in Positions : GoodTree(Moved(t, w, x))
         /\ \A s \in Sizes : GoodTree(Resized(t, w, s))
         /\ GoodTree(Raised(t, w))
         /\ GoodTree(Destroyed(t, w))
<1>1. /\ t \in Trees /\ t.mapped \subseteq t.exists
      /\ \A u, v \in Windows : <<u, v>> \in t.below => Parent[u] = Parent[v]
  BY DEF GoodTree
<1>2. \A s \in Sizes, x \in Positions : GoodTree(Created(t, w, s, x))
  <2> SUFFICES ASSUME NEW s \in Sizes, NEW x \in Positions
               PROVE  GoodTree(Created(t, w, s, x))
    OBVIOUS
  <2>1. Created(t, w, s, x) \in Trees
    BY <1>1, GeometryTypes
  <2>2. /\ Created(t, w, s, x).mapped = t.mapped
        /\ Created(t, w, s, x).exists = t.exists \union {w}
        /\ Created(t, w, s, x).below = OnTop(t, w)
    BY <1>1 DEF Created, Trees
  <2>3. QED
    BY <1>1, <2>1, <2>2, OnTopSiblings DEF GoodTree
<1>3. w \in t.exists => GoodTree(Mapped(t, w))
  <2>1. /\ Mapped(t, w).mapped = t.mapped \union {w}
        /\ Mapped(t, w).exists = t.exists /\ Mapped(t, w).below = t.below
    BY <1>1 DEF Mapped, Trees
  <2>2. QED
    BY <1>1, <2>1, TreeTypes DEF GoodTree
<1>4. GoodTree(Unmapped(t, w))
  <2>1. /\ Unmapped(t, w).mapped = t.mapped \ {w}
        /\ Unmapped(t, w).exists = t.exists /\ Unmapped(t, w).below = t.below
    BY <1>1 DEF Unmapped, Trees
  <2>2. QED
    BY <1>1, <2>1, TreeTypes DEF GoodTree
<1>5. \A x \in Positions : GoodTree(Moved(t, w, x))
  <2>1. \A x \in Positions : /\ Moved(t, w, x).mapped = t.mapped
                             /\ Moved(t, w, x).exists = t.exists
                             /\ Moved(t, w, x).below = t.below
    BY <1>1 DEF Moved, Trees
  <2>2. QED
    BY <1>1, <2>1, GeometryTypes DEF GoodTree
<1>6. \A s \in Sizes : GoodTree(Resized(t, w, s))
  <2>1. \A s \in Sizes : /\ Resized(t, w, s).mapped = t.mapped
                         /\ Resized(t, w, s).exists = t.exists
                         /\ Resized(t, w, s).below = t.below
    BY <1>1 DEF Resized, Trees
  <2>2. QED
    BY <1>1, <2>1, GeometryTypes DEF GoodTree
<1>7. GoodTree(Raised(t, w))
  <2>1. /\ Raised(t, w).mapped = t.mapped
        /\ Raised(t, w).exists = t.exists
        /\ Raised(t, w).below = OnTop(t, w)
    BY <1>1 DEF Raised, Trees
  <2>2. \A u, v \in Windows : <<u, v>> \in Raised(t, w).below => Parent[u] = Parent[v]
    BY <2>1, OnTopSiblings
  <2>3. Raised(t, w) \in Trees
    BY <1>1, TreeTypes
  <2>4. QED
    BY <1>1, <2>1, <2>2, <2>3 DEF GoodTree
<1>8. GoodTree(Destroyed(t, w))
  <2>1. /\ Destroyed(t, w).mapped = t.mapped \ {w}
        /\ Destroyed(t, w).exists = t.exists \ {w}
        /\ Destroyed(t, w).below \subseteq t.below
    BY <1>1 DEF Destroyed, Trees
  <2>2. QED
    BY <1>1, <2>1, TreeTypes DEF GoodTree
<1>9. QED
  BY <1>2, <1>3, <1>4, <1>5, <1>6, <1>7, <1>8

-----------------------------------------------------------------------------
\* From t to u nothing changes that can be seen.
SameView(t, u) ==
  /\ \A v \in Windows : Realized(u, v) <=> Realized(t, v)
  /\ \A v \in Windows : Realized(t, v) => Column(u, v) = Column(t, v) /\ u.size[v] = t.size[v]
  /\ \A v, w \in Windows : Realized(t, v) /\ Realized(t, w) =>
       \A p \in {w, Top(w)}, q \in {v, Top(v)} : <<p, q>> \in u.below => <<p, q>> \in t.below

LEMMA ViewKept ==
  ASSUME NEW t, GoodTree(t), NEW u, GoodTree(u), SameView(t, u),
         NEW w \in Windows, Realized(u, w), ~ObscuredIn(t, w)
  PROVE  Realized(t, w) /\ ~ObscuredIn(u, w) /\ Column(u, w) = Column(t, w)
<1>1. Realized(t, w) /\ Column(u, w) = Column(t, w) /\ u.size[w] = t.size[w]
  BY DEF SameView
<1>2. SUFFICES ASSUME NEW v \in u.exists \ {w}, Realized(u, v), BoxesOverlap(u, v, w),
                      \/ Parent[v] = w
                      \/ \E p \in {w, Top(w)}, q \in {v, Top(v)} : <<p, q>> \in u.below
               PROVE  ObscuredIn(t, w)
  BY <1>1 DEF ObscuredIn
<1>3. v \in Windows
  BY DEF GoodTree, Trees
<1>4. Realized(t, v) /\ Column(u, v) = Column(t, v) /\ u.size[v] = t.size[v]
  BY <1>2, <1>3 DEF SameView
<1>5. v \in t.exists
  BY <1>4 DEF GoodTree, Realized
<1>6. BoxesOverlap(t, v, w)
  BY <1>1, <1>2, <1>4 DEF BoxesOverlap
<1>7. \/ Parent[v] = w
      \/ \E p \in {w, Top(w)}, q \in {v, Top(v)} : <<p, q>> \in t.below
  BY <1>1, <1>2, <1>3, <1>4 DEF SameView
<1>8. QED
  BY <1>2, <1>4, <1>5, <1>6, <1>7 DEF ObscuredIn

\* A frame of a window that is realized is realized.
LEMMA TopRealized ==
  ASSUME NEW t, NEW v \in Windows, Realized(t, v)
  PROVE  Realized(t, Top(v)) /\ v \in t.mapped /\ Top(v) \in t.mapped
BY TopIs DEF Realized, Top

\* A window that is not realized can be created, mapped, unmapped, moved, resized or
\* raised without anybody seeing it.
LEMMA CreatedView ==
  ASSUME NEW t, GoodTree(t), NEW w \in Windows, w \notin t.exists,
         NEW s \in Sizes, NEW x \in Positions
  PROVE  SameView(t, Created(t, w, s, x))
<1> DEFINE u == Created(t, w, s, x)
<1>1. t \in Trees /\ w \notin t.mapped
  BY DEF GoodTree
<1>2. /\ u.mapped = t.mapped /\ u.below = OnTop(t, w)
      /\ \A v \in Windows \ {w} : u.x[v] = t.x[v] /\ u.size[v] = t.size[v]
  BY <1>1 DEF Created, Trees
<1> HIDE DEF u
<1>3. \A v \in Windows : Realized(u, v) <=> Realized(t, v)
  BY <1>2 DEF Realized
<1>4. \A v \in Windows : Realized(t, v) =>
        v # w /\ Top(v) # w /\ v \in Windows /\ Top(v) \in Windows
  BY <1>1, TopRealized, TopIs
<1>5. \A v \in Windows : Realized(t, v) => Column(u, v) = Column(t, v) /\ u.size[v] = t.size[v]
  BY <1>2, <1>4 DEF Column
<1>6. \A p, q \in Windows : <<p, q>> \in u.below /\ q # w => <<p, q>> \in t.below
  BY <1>2, OnTopSiblings
<1>7. QED
  BY <1>3, <1>4, <1>5, <1>6 DEF SameView, u

LEMMA RaisedView ==
  ASSUME NEW t, GoodTree(t), NEW w \in Windows, ~Realized(t, w)
  PROVE  SameView(t, Raised(t, w))
<1> DEFINE u == Raised(t, w)
<1>1. t \in Trees
  BY DEF GoodTree
<1>2. u.mapped = t.mapped /\ u.below = OnTop(t, w) /\ u.x = t.x /\ u.size = t.size
  BY <1>1 DEF Raised, Trees
<1> HIDE DEF u
<1>3. \A v \in Windows : Realized(u, v) <=> Realized(t, v)
  BY <1>2 DEF Realized
<1>4. \A v \in Windows : Realized(t, v) =>
        v # w /\ Top(v) # w /\ v \in Windows /\ Top(v) \in Windows
  BY TopRealized, TopIs
<1>5. \A v \in Windows : Column(u, v) = Column(t, v) /\ u.size[v] = t.size[v]
  BY <1>2 DEF Column
<1>6. \A p, q \in Windows : <<p, q>> \in u.below /\ q # w => <<p, q>> \in t.below
  BY <1>2, OnTopSiblings
<1>7. QED
  BY <1>3, <1>4, <1>5, <1>6 DEF SameView, u

LEMMA MappedView ==
  ASSUME NEW t, GoodTree(t), NEW w \in Windows
  PROVE  /\ ~Realized(Mapped(t, w), w) => SameView(t, Mapped(t, w))
         /\ ~Realized(t, w) => SameView(t, Unmapped(t, w))
<1>1. t \in Trees
  BY DEF GoodTree
<1>2. ASSUME NEW u, u.below = t.below, u.x = t.x, u.size = t.size,
             \A v \in Windows : Realized(u, v) <=> Realized(t, v)
      PROVE  SameView(t, u)
  BY <1>2 DEF SameView, Column
<1>3. ASSUME ~Realized(Mapped(t, w), w)
      PROVE  SameView(t, Mapped(t, w))
  <2> DEFINE u == Mapped(t, w)
  <2>1. u.mapped = t.mapped \union {w} /\ u.below = t.below /\ u.x = t.x /\ u.size = t.size
    BY <1>1 DEF Mapped, Trees
  <2> HIDE DEF u
  <2>2. Parent[w] # Root
    BY <1>3, <2>1 DEF Realized, u
  <2>3. \A v \in Windows : Realized(u, v) <=> Realized(t, v)
    BY <1>3, <2>1, <2>2, TopIs DEF Realized, u
  <2>4. QED
    BY <1>2, <2>1, <2>3 DEF u
<1>4. ASSUME ~Realized(t, w)
      PROVE  SameView(t, Unmapped(t, w))
  <2> DEFINE u == Unmapped(t, w)
  <2>1. u.mapped = t.mapped \ {w} /\ u.below = t.below /\ u.x = t.x /\ u.size = t.size
    BY <1>1 DEF Unmapped, Trees
  <2> HIDE DEF u
  <2>2. \A v \in Windows : Realized(u, v) <=> Realized(t, v)
    BY <1>4, <2>1, TopIs DEF Realized
  <2>3. QED
    BY <1>2, <2>1, <2>2 DEF u
<1>5. QED
  BY <1>3, <1>4

LEMMA GeometryView ==
  ASSUME NEW t, GoodTree(t), NEW w \in Windows, ~Realized(t, w)
  PROVE  /\ Top(w) = w => \A x \in Positions : SameView(t, Moved(t, w, x))
         /\ \A s \in Sizes : SameView(t, Resized(t, w, s))
<1>1. t \in Trees
  BY DEF GoodTree
<1>2. ASSUME NEW u, u.mapped = t.mapped, u.below = t.below,
             \A v \in Windows \ {w} : u.x[v] = t.x[v] /\ u.size[v] = t.size[v],
             Top(w) # w => u.x = t.x
      PROVE  SameView(t, u)
  <2>1. \A v \in Windows : Realized(u, v) <=> Realized(t, v)
    BY <1>2 DEF Realized
  <2>2. \A v \in Windows : Realized(t, v) =>
          v # w /\ Top(v) # w /\ v \in Windows /\ Top(v) \in Windows
    BY TopRealized, TopIs
  <2>3. \A v \in Windows : Realized(t, v) => Column(u, v) = Column(t, v) /\ u.size[v] = t.size[v]
    BY <1>2, <2>2 DEF Column
  <2>4. QED
    BY <1>2, <2>1, <2>3 DEF SameView
<1>3. ASSUME Top(w) = w, NEW x \in Positions
      PROVE  SameView(t, Moved(t, w, x))
  <2>1. LET u == Moved(t, w, x) IN
        /\ u.mapped = t.mapped /\ u.below = t.below
        /\ \A v \in Windows \ {w} : u.x[v] = t.x[v] /\ u.size[v] = t.size[v]
    BY <1>1 DEF Moved, Trees
  <2>2. QED
    BY <1>2, <1>3, <2>1
<1>4. ASSUME NEW s \in Sizes
      PROVE  SameView(t, Resized(t, w, s))
  <2>1. LET u == Resized(t, w, s) IN
        /\ u.mapped = t.mapped /\ u.below = t.below /\ u.x = t.x
        /\ \A v \in Windows \ {w} : u.x[v] = t.x[v] /\ u.size[v] = t.size[v]
    BY <1>1 DEF Resized, Trees
  <2>2. QED
    BY <1>2, <2>1
<1>5. QED
  BY <1>3, <1>4

\* Nor is the end of a window seen that was unmapped before, and has no children.
LEMMA DestroyedView ==
  ASSUME NEW t, GoodTree(t), NEW w \in Windows, \A v \in t.exists : Parent[v] # w,
         NEW u \in {t, Unmapped(t, w)}, ~Realized(u, w)
  PROVE  SameView(u, Destroyed(t, w))
<1> DEFINE d == Destroyed(t, w)
<1>1. t \in Trees /\ t.mapped \subseteq t.exists /\ t.exists \subseteq Windows
  BY DEF GoodTree, Trees
<1>2. /\ u.mapped \in {t.mapped, t.mapped \ {w}}
      /\ u.below = t.below /\ u.x = t.x /\ u.size = t.size
  BY <1>1 DEF Unmapped, Trees
<1>3. /\ d.mapped = t.mapped \ {w} /\ d.below \subseteq t.below
      /\ \A v \in Windows \ {w} : d.x[v] = t.x[v] /\ d.size[v] = t.size[v]
  BY <1>1 DEF Destroyed, Trees
<1> HIDE DEF d
<1>4. \A v \in Windows : Realized(u, v) => v # w /\ Top(v) # w /\ Top(v) \in Windows
  BY <1>1, <1>2, TopRealized, TopIs
<1>5. \A v \in Windows : Realized(d, v) <=> Realized(u, v)
  BY <1>1, <1>2, <1>3, <1>4 DEF Realized, Top
<1>6. \A v \in Windows : Realized(u, v) => Column(d, v) = Column(u, v) /\ d.size[v] = u.size[v]
  BY <1>2, <1>3, <1>4 DEF Column
<1>7. QED
  BY <1>2, <1>3, <1>5, <1>6 DEF SameView, d

-----------------------------------------------------------------------------
\* UpdateOverlay, from any state the layer can be in after a change of the tree or
\* of the cursor, makes the layer right again.
LEMMA UpdateIsGood ==
  ASSUME NEW o \in OverlayStatus, NEW t, GoodTree(t), GoodLayer(o, t)
  PROVE  LET u == UpdateOverlay(o, t) IN
         /\ GoodLayer(u, t) /\ Unobscured(u, t)
         /\ u.mali.bOverlayWinEnabled /\ u.mali.pOverlayWin # NoWin =>
              /\ u.mali.bHardwareCursorIsInUse /\ u.mali.overlay_x = Column(t, u.mali.pOverlayWin)
              /\ ~ObscuredIn(t, u.mali.pOverlayWin)
<1> DEFINE w == o.mali.pOverlayWin
           u == UpdateOverlay(o, t)
           Goal == /\ GoodLayer(u, t) /\ Unobscured(u, t)
                   /\ u.mali.bOverlayWinEnabled /\ u.mali.pOverlayWin # NoWin =>
                        /\ u.mali.bHardwareCursorIsInUse
                        /\ u.mali.overlay_x = Column(t, u.mali.pOverlayWin)
                        /\ ~ObscuredIn(t, u.mali.pOverlayWin)
<1>1. /\ o.mali.bOverlayWinEnabled => UseOverlay
      /\ o.layer.x = o.mali.overlay_x
      /\ w \in t.exists \union {NoWin}
      /\ o.layer.shown => o.mali.bOverlayWinEnabled /\ w # NoWin
  BY DEF GoodLayer
<1>2. CASE w = NoWin \/ ~UseOverlay
  <2>1. u = o
    BY <1>2 DEF UpdateOverlay
  <2>2. QED
    BY <1>1, <1>2, <2>1 DEF GoodLayer, Unobscured
<1>3. ASSUME NEW d \in OverlayStatus, d.layer = o.layer,
             d.mali.pOverlayWin = w, d.mali.bOverlayWinEnabled <=> o.mali.bOverlayWinEnabled,
             d.mali.overlay_x = o.mali.overlay_x, u = DisableOverlay(d)
      PROVE  Goal
  <2>1. /\ ~u.mali.bOverlayWinEnabled /\ ~u.layer.shown
        /\ u.mali.pOverlayWin = w /\ u.mali.overlay_x = o.mali.overlay_x
        /\ u.layer.x = o.layer.x
    <3>1. CASE d.mali.bOverlayWinEnabled
      BY <1>3, <3>1 DEF DisableOverlay, HideLayer, OverlayStatus, OverlayFields, Layer
    <3>2. CASE ~d.mali.bOverlayWinEnabled
      BY <1>1, <1>3, <3>2 DEF DisableOverlay
    <3>3. QED
      BY <3>1, <3>2
  <2> HIDE DEF u
  <2>2. QED
    BY <1>1, <2>1 DEF GoodLayer, Unobscured
<1>4. CASE /\ w # NoWin /\ UseOverlay
           /\ ~o.mali.bHardwareCursorIsInUse \/ w \notin t.mapped
  <2>1. u = DisableOverlay(o)
    BY <1>4 DEF UpdateOverlay
  <2>2. QED
    BY <1>3, <2>1
<1>5. CASE /\ w # NoWin /\ UseOverlay /\ o.mali.bHardwareCursorIsInUse /\ w \in t.mapped
           /\ Overlapped(t, w)
  <2>1. CASE o.mali.bOverlayWinEnabled
    <3>1. u = DisableOverlay(FlushOverlay(o))
      BY <1>5, <2>1 DEF UpdateOverlay
    <3>2. /\ FlushOverlay(o) \in OverlayStatus /\ FlushOverlay(o).layer = o.layer
          /\ FlushOverlay(o).mali.pOverlayWin = w
          /\ FlushOverlay(o).mali.bOverlayWinEnabled <=> o.mali.bOverlayWinEnabled
          /\ FlushOverlay(o).mali.overlay_x = o.mali.overlay_x
      <4>1. FlushOverlay(o) \in OverlayStatus
        BY FlushType
      <4>2. QED
        BY <4>1 DEF FlushOverlay, OverlayStatus, OverlayFields
    <3>3. QED
      BY <1>3, <3>1, <3>2
  <2>2. CASE ~o.mali.bOverlayWinEnabled
    <3>1. u = o
      BY <1>5, <2>2 DEF UpdateOverlay
    <3>2. QED
      BY <1>1, <2>2, <3>1 DEF GoodLayer, Unobscured
  <2>3. QED
    BY <2>1, <2>2
<1>6. CASE /\ w # NoWin /\ UseOverlay /\ o.mali.bHardwareCursorIsInUse /\ w \in t.mapped
           /\ ~Overlapped(t, w)
  <2>1. u = EnableOverlay(o, t)
    BY <1>6 DEF UpdateOverlay
  <2>2. /\ u.mali.pOverlayWin = w /\ u.mali.overlay_x = Column(t, w)
        /\ u.mali.bOverlayWinEnabled /\ u.mali.bHardwareCursorIsInUse
        /\ u.layer.x = Column(t, w)
    <3>1. o.mali \in OverlayFields /\ o.layer \in Layer
      BY DEF OverlayStatus
    <3>2. u.mali = [o.mali EXCEPT !.overlay_x = Column(t, w), !.bOverlayWinEnabled = TRUE]
      BY <2>1, <3>1 DEF EnableOverlay, OverlayStatus
    <3>3. u.layer.x = IF o.mali.overlay_x # Column(t, w) THEN Column(t, w) ELSE o.layer.x
      <4> DEFINE moved == o.mali.overlay_x # Column(t, w)
                 place == [o.layer EXCEPT !.x = IF moved THEN Column(t, w) ELSE @,
                                          !.size = IF moved THEN t.size[w] ELSE @,
                                          !.shown = @ \/ ~o.mali.bOverlayWinEnabled]
      <4>1. u.layer = place
        BY <2>1, <3>1 DEF EnableOverlay, OverlayStatus
      <4>2. place.x = IF moved THEN Column(t, w) ELSE o.layer.x
        BY <3>1 DEF Layer
      <4>3. QED
        BY <4>1, <4>2
    <3>4. u.layer.x = Column(t, w)
      BY <1>1, <3>3
    <3>5. QED
      BY <1>6, <3>1, <3>2, <3>4 DEF OverlayFields
  <2>3. w \in Windows /\ w \in t.exists
    BY <1>1, <1>6 DEF GoodTree, Trees
  <2>4. ~ObscuredIn(t, w)
    BY <1>6, <2>3, WalkFinds
  <2> HIDE DEF u
  <2>5. GoodLayer(u, t)
    BY <1>6, <2>2, <2>3 DEF GoodLayer
  <2>6. Unobscured(u, t)
    BY <2>2, <2>4 DEF Unobscured
  <2>7. QED
    BY <2>2, <2>4, <2>5, <2>6 DEF u
<1>7. QED
  BY <1>2, <1>4, <1>5, <1>6

\* A step that is seen by nobody.
LEMMA ViewGood ==
  ASSUME NEW o \in OverlayStatus, NEW t, GoodTree(t), NEW u, GoodTree(u), SameView(t, u),
         o.mali.pOverlayWin \in u.exists \union {NoWin}, GoodLayer(o, t), Unobscured(o, t)
  PROVE  GoodLayer(o, u) /\ Unobscured(o, u)
<1> DEFINE w == o.mali.pOverlayWin
<1>1. GoodLayer(o, u)
  BY DEF GoodLayer
<1>2. ASSUME o.layer.shown, Realized(u, w)
      PROVE  ~ObscuredIn(u, w) /\ o.mali.overlay_x = Column(u, w)
  <2>1. w \in Windows
    BY <1>2 DEF GoodLayer, GoodTree, Trees
  <2>2. Realized(t, w)
    BY <1>2, <2>1 DEF SameView
  <2>3. ~ObscuredIn(t, w) /\ o.mali.overlay_x = Column(t, w)
    BY <1>2, <2>2 DEF Unobscured
  <2>4. QED
    BY <1>2, <2>1, <2>3, ViewKept
<1>3. QED
  BY <1>1, <1>2 DEF Unobscured

\* A request that changes the tree ends with the layer right, whether or not the
\* hook has run.
LEMMA ChangeTreeGood ==
  ASSUME TypeOK, OverlayInv, NEW t, GoodTree(t), tree.exists \subseteq t.exists,
         NEW validated \in BOOLEAN, ChangeTree(t, validated),
         ~validated => SameView(tree, t)
  PROVE  GoodTree(tree') /\ GoodLayer(Overlay', tree') /\ Unobscured(Overlay', tree')
<1>1. Overlay \in OverlayStatus
  BY OverlayType
<1>2. tree' = t
  BY DEF ChangeTree
<1>3. GoodTree(tree) /\ GoodLayer(Overlay, tree) /\ Unobscured(Overlay, tree)
  BY DEF OverlayInv
<1>4. CASE validated
  <2>1. GoodLayer(Overlay, t)
    BY <1>3 DEF GoodLayer
  <2>2. SetOverlay(UpdateOverlay(Overlay, t))
    BY <1>4 DEF ChangeTree
  <2>3. UpdateOverlay(Overlay, t) \in OverlayStatus
    BY <1>1, UpdateType DEF GoodTree
  <2>4. Overlay' = UpdateOverlay(Overlay, t)
    BY <2>2, <2>3 DEF SetOverlay, Overlay, OverlayStatus
  <2>5. GoodLayer(Overlay', t) /\ Unobscured(Overlay', t)
    BY <1>1, <2>1, <2>4, UpdateIsGood
  <2>6. QED
    BY <1>2, <2>5
<1>5. CASE ~validated
  <2>1. Overlay' = Overlay
    BY <1>5 DEF ChangeTree, Overlay
  <2>2. Overlay.mali.pOverlayWin \in t.exists \union {NoWin}
    BY <1>3 DEF GoodLayer
  <2>3. GoodLayer(Overlay', t) /\ Unobscured(Overlay', t)
    BY <1>1, <1>3, <1>5, <2>1, <2>2, ViewGood
  <2>4. QED
    BY <1>2, <2>3
<1>6. QED
  BY <1>4, <1>5

LEMMA DestroyWindowGood ==
  ASSUME TypeOK, OverlayInv, NEW w \in Windows, DestroyWindow(w)
  PROVE  GoodTree(tree') /\ GoodLayer(Overlay', tree') /\ Unobscured(Overlay', tree')
<1> DEFINE u == IF Realized(tree, w) THEN Unmapped(tree, w) ELSE tree
           un == IF Realized(tree, w) THEN UpdateOverlay(Overlay, Unmapped(tree, w))
                                      ELSE Overlay
           d == Destroyed(tree, w)
           owner == un.mali.pOverlayWin = w
<1>1. GoodTree(tree) /\ GoodLayer(Overlay, tree) /\ Unobscured(Overlay, tree)
  BY DEF OverlayInv
<1>2. Overlay \in OverlayStatus /\ GoodTree(u) /\ GoodTree(d)
  BY <1>1, OverlayType, GoodTrees
<1>3. un \in OverlayStatus
  BY <1>2, UpdateType DEF GoodTree
<1>4. u.exists = tree.exists /\ d.exists = tree.exists \ {w}
  BY <1>1 DEF Unmapped, Destroyed, GoodTree, Trees
<1>5. GoodLayer(un, u) /\ Unobscured(un, u)
  <2>1. CASE Realized(tree, w)
    <3>1. GoodLayer(Overlay, u)
      BY <1>1, <1>4 DEF GoodLayer
    <3>2. QED
      BY <1>2, <2>1, <3>1, UpdateIsGood
  <2>2. CASE ~Realized(tree, w)
    BY <1>1, <2>2
  <2>3. QED
    BY <2>1, <2>2
<1>6. ~Realized(u, w)
  BY <1>1 DEF Realized, Unmapped, GoodTree, Trees
<1>7. SameView(u, d)
  BY <1>1, <1>6, DestroyedView DEF DestroyWindow
<1>8. tree' = d /\ w \in tree.exists
  BY DEF DestroyWindow
<1>9. CASE ~owner
  <2>1. un.mali.pOverlayWin \in d.exists \union {NoWin}
    BY <1>4, <1>5, <1>9 DEF GoodLayer
  <2>2. GoodLayer(un, d) /\ Unobscured(un, d)
    BY <1>2, <1>3, <1>5, <1>7, <2>1, ViewGood
  <2> HIDE DEF un, d
  <2>3. mali' = un.mali /\ layer' = un.layer
    <3>1. CASE w \in Clients
      <4>1. /\ mali' = [un.mali EXCEPT !.pOverlayWin = IF owner THEN NoWin ELSE @]
            /\ layer' = [un.layer EXCEPT !.shown = IF owner THEN FALSE ELSE @]
        BY <3>1 DEF DestroyWindow, un
      <4>2. QED
        BY <1>3, <1>9, <4>1 DEF OverlayStatus, OverlayFields, Layer
    <3>2. CASE w \notin Clients
      BY <3>2 DEF DestroyWindow, SetOverlay, un
    <3>3. QED
      BY <3>1, <3>2
  <2>4. Overlay'.mali = un.mali /\ Overlay'.layer = un.layer
    BY <2>3 DEF Overlay
  <2>5. GoodLayer(Overlay', d) /\ Unobscured(Overlay', d)
    BY <2>2, <2>4 DEF GoodLayer, Unobscured
  <2>6. QED
    BY <1>2, <1>8, <2>5
<1>10. CASE owner
  <2>1. w \in Clients
    BY <1>3, <1>10, MaliDRI2Assumption DEF OverlayStatus, OverlayFields
  <2> HIDE DEF un, d
  <2>2. /\ mali' = [un.mali EXCEPT !.pOverlayWin = NoWin]
        /\ layer' = [un.layer EXCEPT !.shown = FALSE]
    BY <1>10, <2>1 DEF DestroyWindow, un
  <2>3. /\ mali'.pOverlayWin = NoWin /\ ~layer'.shown
        /\ mali'.bOverlayWinEnabled <=> un.mali.bOverlayWinEnabled
        /\ mali'.overlay_x = un.mali.overlay_x /\ layer'.x = un.layer.x
    BY <1>3, <2>2 DEF OverlayStatus, OverlayFields, Layer
  <2>4. Overlay'.mali = mali' /\ Overlay'.layer = layer'
    BY DEF Overlay
  <2>5. GoodLayer(Overlay', d) /\ Unobscured(Overlay', d)
    BY <1>5, <2>3, <2>4 DEF GoodLayer, Unobscured
  <2>6. QED
    BY <1>2, <1>8, <2>5
<1>11. QED
  BY <1>9, <1>10

LEMMA TreeStepGood ==
  ASSUME TypeOK, OverlayInv, TreeStep
  PROVE  GoodTree(tree') /\ GoodLayer(Overlay', tree') /\ Unobscured(Overlay', tree')
<1>1. PICK w \in Windows :
        \/ CreateWindow(w) \/ MapWindow(w) \/ UnmapWindow(w) \/ MoveWindow(w)
        \/ ResizeWindow(w) \/ RaiseWindow(w) \/ DestroyWindow(w)
  BY DEF TreeStep
<1>2. GoodTree(tree)
  BY DEF OverlayInv
<1>3. ASSUME NEW t, GoodTree(t), tree.exists \subseteq t.exists,
             NEW validated, validated \in BOOLEAN, ~validated => SameView(tree, t),
             ChangeTree(t, validated)
      PROVE  GoodTree(tree') /\ GoodLayer(Overlay', tree') /\ Unobscured(Overlay', tree')
  BY <1>3, ChangeTreeGood
<1>4. tree \in Trees
  BY DEF TypeOK
<1>5. CASE CreateWindow(w)
  <2>1. PICK s \in Sizes, x \in Positions : ChangeTree(Created(tree, w, s, x), FALSE)
    BY <1>5 DEF CreateWindow
  <2>2. w \notin tree.exists
    BY <1>5 DEF CreateWindow
  <2>3. tree.exists \subseteq Created(tree, w, s, x).exists
    BY <1>4 DEF Created, Trees
  <2>4. QED
    BY <1>2, <1>3, <2>1, <2>2, <2>3, GoodTrees, CreatedView
<1>6. CASE MapWindow(w)
  <2>1. Mapped(tree, w).exists = tree.exists
    BY <1>4 DEF Mapped, Trees
  <2>2. w \in tree.exists /\ ChangeTree(Mapped(tree, w), Realized(Mapped(tree, w), w))
    BY <1>6 DEF MapWindow
  <2>3. Realized(Mapped(tree, w), w) \in BOOLEAN
    BY DEF Realized
  <2>4. QED
    BY <1>2, <1>3, <2>1, <2>2, <2>3, GoodTrees, MappedView
<1>7. CASE UnmapWindow(w)
  <2>1. Unmapped(tree, w).exists = tree.exists
    BY <1>4 DEF Unmapped, Trees
  <2>2. ChangeTree(Unmapped(tree, w), Realized(tree, w))
    BY <1>7 DEF UnmapWindow
  <2>3. Realized(tree, w) \in BOOLEAN
    BY DEF Realized
  <2>4. QED
    BY <1>2, <1>3, <2>1, <2>2, <2>3, GoodTrees, MappedView
<1>8. CASE MoveWindow(w)
  <2>1. PICK x \in Positions : ChangeTree(Moved(tree, w, x), Realized(tree, w))
    BY <1>8 DEF MoveWindow
  <2>2. Moved(tree, w, x).exists = tree.exists
    BY <1>4 DEF Moved, Trees
  <2>3. Realized(tree, w) \in BOOLEAN /\ Top(w) = w
    BY <1>8 DEF Realized, MoveWindow
  <2>4. QED
    BY <1>2, <1>3, <2>1, <2>2, <2>3, GoodTrees, GeometryView
<1>9. CASE ResizeWindow(w)
  <2>1. PICK s \in Sizes : ChangeTree(Resized(tree, w, s), Realized(tree, w))
    BY <1>9 DEF ResizeWindow
  <2>2. Resized(tree, w, s).exists = tree.exists
    BY <1>4 DEF Resized, Trees
  <2>3. Realized(tree, w) \in BOOLEAN
    BY DEF Realized
  <2>4. QED
    BY <1>2, <1>3, <2>1, <2>2, <2>3, GoodTrees, GeometryView
<1>10. CASE RaiseWindow(w)
  <2>1. ChangeTree(Raised(tree, w), Realized(tree, w))
    BY <1>10 DEF RaiseWindow
  <2>2. Raised(tree, w).exists = tree.exists
    BY <1>4 DEF Raised, Trees
  <2>3. Realized(tree, w) \in BOOLEAN
    BY DEF Realized
  <2>4. QED
    BY <1>2, <1>3, <2>1, <2>2, <2>3, GoodTrees, RaisedView
<1>11. CASE DestroyWindow(w)
  BY <1>11, DestroyWindowGood
<1>12. QED
  BY <1>1, <1>5, <1>6, <1>7, <1>8, <1>9, <1>10, <1>11

LEMMA HookStepGood ==
  ASSUME TypeOK, OverlayInv, HookStep
  PROVE  GoodTree(tree') /\ GoodLayer(Overlay', tree') /\ Unobscured(Overlay', tree')
<1>1. GoodTree(tree) /\ GoodLayer(Overlay, tree) /\ Unobscured(Overlay, tree)
  BY DEF OverlayInv
<1>2. Overlay \in OverlayStatus /\ tree \in Trees
  BY OverlayType DEF TypeOK
<1>3. tree' = tree
  BY DEF HookStep, EnableHWCursor, DisableHWCursor, GetImage
<1>4. ASSUME NEW o \in OverlayStatus, SetOverlay(o)
      PROVE  Overlay' = o
  BY <1>4 DEF SetOverlay, Overlay, OverlayStatus
<1>5. ASSUME NEW v \in BOOLEAN,
             SetOverlay(UpdateOverlay([Overlay EXCEPT !.mali.bHardwareCursorIsInUse = v], tree))
      PROVE  GoodLayer(Overlay', tree) /\ Unobscured(Overlay', tree)
  <2> DEFINE o == [Overlay EXCEPT !.mali.bHardwareCursorIsInUse = v]
  <2>1. o \in OverlayStatus
    BY <1>2 DEF OverlayStatus, OverlayFields
  <2>2. GoodLayer(o, tree)
    BY <1>1, <1>2 DEF GoodLayer, OverlayStatus, OverlayFields
  <2> HIDE DEF o
  <2>3. Overlay' = UpdateOverlay(o, tree)
    BY <1>2, <1>4, <1>5, <2>1, UpdateType DEF o
  <2>4. QED
    BY <1>1, <2>1, <2>2, <2>3, UpdateIsGood
<1>6. CASE EnableHWCursor
  BY <1>1, <1>3, <1>5, <1>6 DEF EnableHWCursor
<1>7. CASE DisableHWCursor
  BY <1>1, <1>3, <1>5, <1>7 DEF DisableHWCursor
<1>8. CASE GetImage
  <2>1. Overlay' = FlushOverlay(Overlay)
    BY <1>2, <1>4, <1>8, FlushType DEF GetImage
  <2>2. /\ FlushOverlay(Overlay).layer = Overlay.layer
        /\ FlushOverlay(Overlay).mali \in
             {Overlay.mali, [Overlay.mali EXCEPT !.pOverlayDirtyBO = NoBO]}
    BY <1>2 DEF FlushOverlay, OverlayStatus
  <2>3. LET m == [Overlay.mali EXCEPT !.pOverlayDirtyBO = NoBO] IN
        /\ m.pOverlayWin = Overlay.mali.pOverlayWin
        /\ m.bOverlayWinEnabled = Overlay.mali.bOverlayWinEnabled
        /\ m.bHardwareCursorIsInUse = Overlay.mali.bHardwareCursorIsInUse
        /\ m.overlay_x = Overlay.mali.overlay_x
    BY <1>2 DEF OverlayStatus, OverlayFields
  <2>4. /\ Overlay'.layer = Overlay.layer
        /\ Overlay'.mali.pOverlayWin = Overlay.mali.pOverlayWin
        /\ Overlay'.mali.bOverlayWinEnabled = Overlay.mali.bOverlayWinEnabled
        /\ Overlay'.mali.bHardwareCursorIsInUse = Overlay.mali.bHardwareCursorIsInUse
        /\ Overlay'.mali.overlay_x = Overlay.mali.overlay_x
    BY <2>1, <2>2, <2>3
  <2>5. GoodLayer(Overlay', tree) /\ Unobscured(Overlay', tree)
    BY Zenon, <1>1, <2>4 DEF GoodLayer, Unobscured
  <2>6. QED
    BY <1>1, <1>3, <2>5
<1>9. QED
  BY <1>6, <1>7, <1>8 DEF HookStep

-----------------------------------------------------------------------------
\* What addr, handle and kind of a BO say together.
GoodBO(r) == r.addr /\ ~r.handle => r.kind \in Frames

\* unref_bo_info forgets both.
LEMMA UnrefGood ==
  ASSUME NEW f \in [BOs -> BOInfo], NEW v \in Pointer, \A b \in BOs : GoodBO(f[b])
  PROVE  /\ Unref(f, v) \in [BOs -> BOInfo]
         /\ \A b \in BOs : GoodBO(Unref(f, v)[b])
<1>1. \A r \in BOInfo : GoodBO(r) => GoodBO(Dropped(r))
  BY DEF GoodBO, Dropped, BOInfo
<1>2. QED
  BY <1>1, UnrefType DEF Unref

\* A new BO sets both, or addr for the framebuffer only.
LEMMA FreshGood ==
  ASSUME NEW f \in [BOs -> BOInfo], NEW b \in BOs, NEW k \in Kinds, NEW n, NEW c,
         \A d \in BOs : GoodBO(f[d])
  PROVE  \A d \in BOs : GoodBO([f EXCEPT ![b] = Fresh(k, n, c)][d])
<1>1. GoodBO(Fresh(k, n, c))
  BY DEF GoodBO, Fresh
<1>2. QED
  BY <1>1

\* The checksum flags say nothing about addr and handle.
LEMMA FlagGood ==
  ASSUME NEW f \in [BOs -> BOInfo], NEW p \in BOs, NEW v \in BOOLEAN,
         \A b \in BOs : GoodBO(f[b])
  PROVE  /\ \A b \in BOs : GoodBO([f EXCEPT ![p].has_checksum = v][b])
         /\ \A b \in BOs : GoodBO([f EXCEPT ![p].passed = v][b])
<1>1. \A r \in BOInfo : GoodBO(r) => /\ GoodBO([r EXCEPT !.has_checksum = v])
                                     /\ GoodBO([r EXCEPT !.passed = v])
  BY DEF GoodBO, BOInfo
<1>2. QED
  BY <1>1

LEMMA OrderCheckGood ==
  ASSUME NEW r \in SwapStatus, r.front \in BOs, r.back \in BOs, NEW fm \in BOOLEAN,
         NEW bm \in BOOLEAN, \A b \in BOs : GoodBO(r.bo[b])
  PROVE  \A b \in BOs : GoodBO(OrderCheck(r, fm, bm).bo[b])
<1> DEFINE f1 == [r.bo EXCEPT ![r.front].has_checksum = FALSE]
           f2 == [f1 EXCEPT ![r.back].has_checksum = FALSE]
           f3 == [f2 EXCEPT ![r.front].passed = TRUE]
           f4 == [f3 EXCEPT ![r.back].passed = TRUE]
<1>1. r.bo \in [BOs -> BOInfo]
  BY DEF SwapStatus
<1>2. f1 \in [BOs -> BOInfo] /\ \A b \in BOs : GoodBO(f1[b])
  BY <1>1, FlagTypes, FlagGood
<1>3. f2 \in [BOs -> BOInfo] /\ \A b \in BOs : GoodBO(f2[b])
  <2> HIDE DEF f1
  <2>1. QED
    BY <1>2, FlagTypes, FlagGood
<1>4. f3 \in [BOs -> BOInfo] /\ \A b \in BOs : GoodBO(f3[b])
  <2> HIDE DEF f2
  <2>1. QED
    BY <1>3, FlagTypes, FlagGood
<1>5. \A b \in BOs : GoodBO(f4[b])
  <2> HIDE DEF f3
  <2>1. QED
    BY <1>4, FlagGood
<1> HIDE DEF f1, f2, f3, f4
<1>6. OrderCheck(r, fm, bm).bo \in {f2, f4}
  BY DEF OrderCheck, SwapStatus, f1, f2, f3, f4
<1>7. QED
  BY <1>3, <1>5, <1>6

\* So a swap makes no such BO either.
LEMMA AfterSwapGood ==
  ASSUME TypeOK, NEW w \in Clients, NEW fm \in BOOLEAN, NEW bm \in BOOLEAN,
         \A b \in BOs : GoodBO(bo[b])
  PROVE  LET r == AfterSwap(w, fm, bm) IN
         /\ \A b \in BOs : GoodBO(r.bo[b])
         /\ \A b \in BOs : GoodBO(SaveChecksums(r).bo[b])
<1> DEFINE c == Checked(w, fm, bm)
           b == Fetched(w)
           s == SwapBuffers(c, b)
           r == AfterSwap(w, fm, bm)
<1>1. c \in SwapStatus /\ b \in Pointer
  BY CheckedFrames, FetchedType DEF Reordered
<1>2. \A d \in BOs : GoodBO(c.bo[d])
  <2>1. BeforeSwap(w) \in SwapStatus /\ \A d \in BOs : GoodBO(BeforeSwap(w).bo[d])
    BY BeforeSwapType DEF BeforeSwap
  <2>2. CASE NeedsOrderCheck(w)
    <3>1. BeforeSwap(w).front \in BOs /\ BeforeSwap(w).back \in BOs
      BY <2>1, <2>2 DEF NeedsOrderCheck, Comparable, Live, SwapStatus, Pointer
    <3>2. QED
      BY <2>1, <2>2, <3>1, OrderCheckGood DEF Checked
  <2>3. CASE ~NeedsOrderCheck(w)
    BY <2>1, <2>3 DEF Checked
  <2>4. QED
    BY <2>2, <2>3
<1> HIDE DEF c, b
<1>3. s \in SwapStatus /\ s.bo = c.bo
  <2>1. s \in SwapStatus
    BY <1>1, SwapType
  <2>2. s.bo = c.bo
    BY <1>1 DEF SwapBuffers, SwapStatus
  <2>3. QED
    BY <2>1, <2>2
<1>4. r = ReplaceFront(s, b) /\ r \in SwapStatus
  BY AfterSwapType DEF AfterSwap, Checked, c, b
<1> HIDE DEF s, r
<1>5. r.bo \in {s.bo, Unref(s.bo, s.front)}
  BY <1>3, <1>4 DEF ReplaceFront, SwapStatus
<1>6. \A d \in BOs : GoodBO(r.bo[d])
  BY <1>2, <1>3, <1>5, UnrefGood DEF SwapStatus
<1>7. \A d \in BOs : GoodBO(SaveChecksums(r).bo[d])
  <2>1. \A x \in BOInfo : GoodBO(x) => GoodBO([x EXCEPT !.has_checksum = TRUE])
    BY DEF GoodBO, BOInfo
  <2>2. SaveChecksums(r).bo = [d \in BOs |->
          IF d \in {r.front, r.back} /\ ~r.bo[d].passed
          THEN [r.bo[d] EXCEPT !.has_checksum = TRUE] ELSE r.bo[d]]
    BY <1>4 DEF SaveChecksums, SwapStatus
  <2>3. QED
    BY <1>4, <1>6, <2>1, <2>2 DEF SwapStatus
<1>8. QED
  BY <1>6, <1>7 DEF r

-----------------------------------------------------------------------------
\* Who wins bo_mem_ptr has allocated memory.
MemKept ==
  \A v \in Clients : \/ ptr'[Mem(v)] \in {ptr[Mem(v)], NoBO}
                     \/ ptr'[Mem(v)] \in BOs /\ bo'[ptr'[Mem(v)]].kind = "mem"

LEMMA GoodBOsKept ==
  ASSUME TypeOK, GoodBOs, MemKept, \A b \in BOs : GoodBO(bo'[b]),
         \A b \in BOs : (\E s \in Slots : ptr[s] = b) => bo'[b].kind = bo[b].kind
  PROVE  GoodBOs'
<1>1. \A b \in BOs : bo'[b].addr /\ ~bo'[b].handle => bo'[b].kind \in Frames
  BY DEF GoodBO
<1>2. ASSUME NEW v \in Clients, ptr'[Mem(v)] # NoBO
      PROVE  bo'[ptr'[Mem(v)]].kind = "mem"
  <2>1. Mem(v) \in Slots /\ ptr[Mem(v)] \in Pointer
    BY SlotNames DEF TypeOK, Pointer
  <2>2. CASE ptr'[Mem(v)] = ptr[Mem(v)]
    BY <1>2, <2>1, <2>2 DEF GoodBOs, Pointer
  <2>3. QED
    BY <1>2, <2>2 DEF MemKept
<1>3. QED
  BY <1>1, <1>2 DEF GoodBOs, Mem

\* The hand-over does not touch bo_mem_ptr.
LEMMA HandoverMem ==
  ASSUME NEW p \in [Slots -> Pointer], NEW w \in Clients, NEW b, NEW v \in Clients
  PROVE  Handover(p, w, b)[Mem(v)] = p[Mem(v)]
<1>1. Mem(v) \in Slots
  BY SlotNames
<1>2. Mem(v) \notin {Buffer(w), Replaced(w)}
  BY DEF Mem, Buffer, Replaced
<1>3. QED
  BY <1>1, <1>2 DEF Handover

\* Steps that leave bo_mem_ptr alone or clear it.
LEMMA TreeStepBOs ==
  ASSUME TypeOK, GoodBOs, TreeStep
  PROVE  MemKept /\ \A b \in BOs : GoodBO(bo'[b])
<1>1. \A b \in BOs : GoodBO(bo[b])
  BY DEF GoodBOs, GoodBO
<1>2. PICK w \in Windows :
        \/ CreateWindow(w) \/ MapWindow(w) \/ UnmapWindow(w) \/ MoveWindow(w)
        \/ ResizeWindow(w) \/ RaiseWindow(w) \/ DestroyWindow(w)
  BY DEF TreeStep
<1>3. CASE UNCHANGED <<bo, ptr>>
  BY <1>1, <1>3 DEF MemKept
<1>4. CASE DestroyWindow(w) /\ w \in Clients
  <2>1. \A s \in Slots : ptr'[s] \in {ptr[s], NoBO}
    BY <1>4 DEF DestroyWindow
  <2>2. MemKept
    BY <2>1, SlotNames DEF MemKept
  <2>3. /\ bo \in [BOs -> BOInfo]
        /\ \A s \in {Mem(w), Back(w), Front(w)} : ptr[s] \in Pointer
    BY <1>4, SlotNames DEF TypeOK, Pointer
  <2> DEFINE f1 == Unref(bo, ptr[Mem(w)])
             f2 == Unref(f1, ptr[Back(w)])
  <2>4. f1 \in [BOs -> BOInfo] /\ \A b \in BOs : GoodBO(f1[b])
    BY <1>1, <2>3, UnrefGood
  <2>5. f2 \in [BOs -> BOInfo] /\ \A b \in BOs : GoodBO(f2[b])
    <3> HIDE DEF f1
    <3>1. QED
      BY <2>3, <2>4, UnrefGood
  <2>6. bo' = Unref(f2, ptr[Front(w)])
    BY <1>4 DEF DestroyWindow
  <2> HIDE DEF f2
  <2>7. \A b \in BOs : GoodBO(bo'[b])
    BY <2>3, <2>5, <2>6, UnrefGood
  <2>8. QED
    BY <2>2, <2>7
<1>5. CASE DestroyWindow(w) /\ w \notin Clients
  BY <1>3, <1>5 DEF DestroyWindow
<1>6. CASE ~DestroyWindow(w)
  BY <1>2, <1>3, <1>6 DEF CreateWindow, MapWindow, UnmapWindow, MoveWindow, ResizeWindow,
                          RaiseWindow, ChangeTree
<1>7. QED
  BY <1>4, <1>5, <1>6

LEMMA CreateDummyBOs ==
  ASSUME TypeOK, GoodBOs, NEW w \in Clients, NEW b \in BOs, CreateDummyBuffer(w, b)
  PROVE  MemKept /\ \A d \in BOs : GoodBO(bo'[d])
<1>1. ptr \in [Slots -> Pointer] /\ bo \in [BOs -> BOInfo]
  BY DEF TypeOK, Pointer
<1>2. \A d \in BOs : GoodBO(bo[d])
  BY DEF GoodBOs, GoodBO
<1>3. /\ bo' = [bo EXCEPT ![b] = Fresh("aux", tree.size[w], 1)]
      /\ ptr' = Handover(ptr, w, b)
  BY DEF CreateDummyBuffer
<1>4. \A d \in BOs : GoodBO(bo'[d])
  BY <1>1, <1>2, <1>3, FreshGood
<1>5. QED
  BY <1>1, <1>3, <1>4, HandoverMem DEF MemKept

LEMMA CreateOverlayBOs ==
  ASSUME TypeOK, GoodBOs, NEW w \in Clients, NEW b \in BOs, CreateOverlayBuffer(w, b)
  PROVE  MemKept /\ \A d \in BOs : GoodBO(bo'[d])
<1> DEFINE kind == IF RequestParity(w) = 1 THEN "odd" ELSE "even"
           slot == Queue(w, state[w].head)
           queued == IF QueueOverflow(w) THEN ptr ELSE [ptr EXCEPT ![slot] = b]
           p == [queued EXCEPT ![Mem(w)] = NoBO]
           f == Unref(bo, ptr[Mem(w)])
<1>1. ptr \in [Slots -> Pointer] /\ bo \in [BOs -> BOInfo] /\ ptr[Mem(w)] \in Pointer
  BY SlotNames DEF TypeOK, Pointer
<1>2. \A d \in BOs : GoodBO(bo[d])
  BY DEF GoodBOs, GoodBO
<1>3. f \in [BOs -> BOInfo] /\ \A d \in BOs : GoodBO(f[d])
  BY <1>1, <1>2, UnrefGood
<1>4. bo' = [f EXCEPT ![b] = Fresh(kind, tree.size[w], 2)] /\ ptr' = Handover(p, w, b)
  BY DEF CreateOverlayBuffer
<1>5. kind \in Kinds
  OBVIOUS
<1> HIDE DEF f, kind
<1>6. \A d \in BOs : GoodBO(bo'[d])
  BY <1>3, <1>4, <1>5, FreshGood
<1>7. p \in [Slots -> Pointer]
  BY <1>1 DEF Pointer
<1>8. \A v \in Clients : p[Mem(v)] \in {ptr[Mem(v)], NoBO}
  <2>1. \A v \in Clients : Mem(v) \in Slots /\ Mem(v) # slot
    BY SlotNames DEF Mem, Queue
  <2>2. QED
    BY <1>1, <2>1
<1> HIDE DEF p
<1>9. MemKept
  BY <1>4, <1>7, <1>8, HandoverMem DEF MemKept
<1>10. QED
  BY <1>6, <1>9

LEMMA DropOverlayGood ==
  ASSUME TypeOK, GoodBOs, NEW w \in Clients
  PROVE  /\ \A d \in BOs : GoodBO(DropOverlayBuffers(w)[d])
         /\ \A d \in BOs : GoodBO(Unref(DropOverlayBuffers(w), ptr[Mem(w)])[d])
         /\ Unref(DropOverlayBuffers(w), ptr[Mem(w)]) \in [BOs -> BOInfo]
         /\ \A v \in Clients : DropOverlayPointers(w)[Mem(v)] = ptr[Mem(v)]
<1>1. ptr[Back(w)] \in Pointer /\ ptr[Front(w)] \in Pointer /\ bo \in [BOs -> BOInfo]
  BY SlotNames DEF TypeOK, Pointer
<1>2. \A d \in BOs : GoodBO(bo[d])
  BY DEF GoodBOs, GoodBO
<1> DEFINE f == Unref(bo, ptr[Back(w)])
<1>3. f \in [BOs -> BOInfo] /\ \A d \in BOs : GoodBO(f[d])
  BY <1>1, <1>2, UnrefGood
<1>4. DropOverlayBuffers(w) = Unref(f, ptr[Front(w)])
  BY DEF DropOverlayBuffers
<1> HIDE DEF f
<1>5. \A d \in BOs : GoodBO(DropOverlayBuffers(w)[d])
  BY <1>1, <1>3, <1>4, UnrefGood
<1>6. /\ \A d \in BOs : GoodBO(Unref(DropOverlayBuffers(w), ptr[Mem(w)])[d])
      /\ Unref(DropOverlayBuffers(w), ptr[Mem(w)]) \in [BOs -> BOInfo]
  BY <1>5, DropOverlayType, UnrefGood
<1>7. \A v \in Clients : DropOverlayPointers(w)[Mem(v)] = ptr[Mem(v)]
  <2>1. \A v \in Clients : Mem(v) \in Slots /\ Mem(v) \notin {Back(w), Front(w)}
    BY SlotNames DEF Mem, Back, Front
  <2>2. QED
    BY <2>1 DEF DropOverlayPointers, TypeOK
<1>8. QED
  BY <1>5, <1>6, <1>7

LEMMA MemPathBOs ==
  ASSUME TypeOK, GoodBOs, NEW w \in Clients,
         \/ ReuseMemBuffer(w)
         \/ \E b \in BOs : CreateNullBuffer(w, b) \/ AllocMemBuffer(w, b)
  PROVE  MemKept /\ \A d \in BOs : GoodBO(bo'[d])
<1> DEFINE f == DropOverlayBuffers(w)
           g == Unref(DropOverlayBuffers(w), ptr[Mem(w)])
           q == DropOverlayPointers(w)
<1>1. /\ \A d \in BOs : GoodBO(f[d]) /\ GoodBO(g[d])
      /\ f \in [BOs -> BOInfo] /\ g \in [BOs -> BOInfo]
      /\ q \in [Slots -> Pointer] /\ ptr[Mem(w)] \in Pointer
      /\ \A v \in Clients : q[Mem(v)] = ptr[Mem(v)]
  BY DropOverlayGood, DropOverlayType
<1>2. /\ \A v \in Clients : Mem(v) \in Slots
      /\ \A v \in Clients : v # w => Mem(v) # Mem(w)
  BY SlotNames DEF Mem
<1>3. CASE ReuseMemBuffer(w)
  <2> DEFINE mem == ptr[Mem(w)]
  <2>1. bo' = [f EXCEPT ![mem].refcount = @ + 1] /\ ptr' = Handover(q, w, mem) /\ mem # NoBO
    BY <1>3 DEF ReuseMemBuffer
  <2>2. \A v \in Clients : ptr'[Mem(v)] = ptr[Mem(v)]
    BY <1>1, <2>1, HandoverMem
  <2>3. \A d \in BOs : GoodBO(bo'[d])
    <3>1. \A r \in BOInfo : GoodBO(r) => GoodBO([r EXCEPT !.refcount = @ + 1])
      BY DEF GoodBO, BOInfo
    <3>2. mem \in BOs
      BY <1>1, <2>1 DEF Pointer
    <3> HIDE DEF f
    <3>3. QED
      BY <1>1, <2>1, <3>1, <3>2
  <2>4. QED
    BY <2>2, <2>3 DEF MemKept
<1>4. CASE \E b \in BOs : CreateNullBuffer(w, b)
  <2>1. PICK b \in BOs : CreateNullBuffer(w, b)
    BY <1>4
  <2> DEFINE p == [q EXCEPT ![Mem(w)] = NoBO]
  <2>2. bo' = [g EXCEPT ![b] = Fresh("null", tree.size[w], 1)] /\ ptr' = Handover(p, w, b)
    BY <2>1 DEF CreateNullBuffer
  <2> HIDE DEF g, q
  <2>3. \A d \in BOs : GoodBO(bo'[d])
    BY <1>1, <2>2, FreshGood
  <2>4. p \in [Slots -> Pointer] /\ \A v \in Clients : p[Mem(v)] \in {ptr[Mem(v)], NoBO}
    BY <1>1, <1>2 DEF Pointer
  <2> HIDE DEF p
  <2>5. QED
    BY <2>2, <2>3, <2>4, HandoverMem DEF MemKept
<1>5. CASE \E b \in BOs : AllocMemBuffer(w, b)
  <2>1. PICK b \in BOs : AllocMemBuffer(w, b)
    BY <1>5
  <2> DEFINE p == [q EXCEPT ![Mem(w)] = b]
  <2>2. bo' = [g EXCEPT ![b] = Fresh("mem", tree.size[w], 2)] /\ ptr' = Handover(p, w, b)
    BY <2>1 DEF AllocMemBuffer
  <2> HIDE DEF g, q
  <2>3. \A d \in BOs : GoodBO(bo'[d])
    BY <1>1, <2>2, FreshGood
  <2>4. p \in [Slots -> Pointer] /\ \A v \in Clients : p[Mem(v)] = IF v = w THEN b ELSE ptr[Mem(v)]
    BY <1>1, <1>2 DEF Pointer
  <2>5. bo'[b].kind = "mem"
    BY <1>1, <2>2 DEF Fresh
  <2> HIDE DEF p
  <2>6. QED
    BY <2>2, <2>3, <2>4, <2>5, HandoverMem DEF MemKept
<1>6. QED
  BY <1>3, <1>4, <1>5

LEMMA DestroyBufferBOs ==
  ASSUME TypeOK, GoodBOs, NEW w \in Clients, NEW s \in {Buffer(w), Replaced(w)}, DestroyBuffer(s)
  PROVE  MemKept /\ \A d \in BOs : GoodBO(bo'[d])
<1>1. ptr \in [Slots -> Pointer] /\ bo \in [BOs -> BOInfo] /\ ptr[s] \in Pointer
  BY SlotNames DEF TypeOK, Pointer
<1>2. \A d \in BOs : GoodBO(bo[d])
  BY DEF GoodBOs, GoodBO
<1>3. \A d \in BOs : GoodBO(bo'[d])
  BY <1>1, <1>2, UnrefGood DEF DestroyBuffer
<1>4. \A t \in Slots : ptr'[t] \in {ptr[t], NoBO}
  BY <1>1 DEF DestroyBuffer
<1>5. MemKept
  BY <1>4, SlotNames DEF MemKept
<1>6. QED
  BY <1>3, <1>5

\* No request moves or shows the layer; the first one for the overlay makes the
\* window its owner, while the layer is hidden.
LEMMA BufferStepGood ==
  ASSUME TypeOK, OverlayInv, BufferStep
  PROVE  OverlayInv'
<1>1. PICK w \in Clients :
        \/ \E b \in BOs : \/ CreateDummyBuffer(w, b) \/ CreateOverlayBuffer(w, b)
                          \/ CreateNullBuffer(w, b) \/ AllocMemBuffer(w, b)
        \/ ReuseMemBuffer(w)
        \/ DestroyReplacedBuffer(w)
        \/ DestroyDrawableBuffer(w)
  BY DEF BufferStep
<1>2. GoodTree(tree) /\ GoodLayer(Overlay, tree) /\ Unobscured(Overlay, tree) /\ GoodBOs
  BY DEF OverlayInv
<1>3. MemKept /\ \A d \in BOs : GoodBO(bo'[d])
  BY <1>1, <1>2, CreateDummyBOs, CreateOverlayBOs, MemPathBOs, DestroyBufferBOs
     DEF DestroyReplacedBuffer, DestroyDrawableBuffer
<1>4. GoodBOs'
  BY <1>2, <1>3, StepKept, GoodBOsKept DEF Kept
<1>5. tree' = tree /\ layer' = layer
  BY <1>1 DEF CreateDummyBuffer, CreateOverlayBuffer, CreateNullBuffer, AllocMemBuffer,
              ReuseMemBuffer, DestroyReplacedBuffer, DestroyDrawableBuffer, DestroyBuffer
<1>6. /\ mali'.bOverlayWinEnabled = mali.bOverlayWinEnabled
      /\ mali'.bHardwareCursorIsInUse = mali.bHardwareCursorIsInUse
      /\ mali'.overlay_x = mali.overlay_x
      /\ \/ mali'.pOverlayWin = mali.pOverlayWin
         \/ mali.pOverlayWin = NoWin /\ mali'.pOverlayWin \in tree.exists
  <2>1. mali \in OverlayFields
    BY DEF TypeOK
  <2>2. CASE \E b \in BOs : CreateOverlayBuffer(w, b)
    <3>1. /\ mali' = [mali EXCEPT !.pOverlayWin = w] /\ mali.pOverlayWin \in {NoWin, w}
          /\ w \in tree.exists
      BY <2>2 DEF CreateOverlayBuffer, CanUseOverlay, RequestBuffer
    <3>2. QED
      BY <2>1, <3>1 DEF OverlayFields
  <2>3. CASE DestroyReplacedBuffer(w) \/ DestroyDrawableBuffer(w)
    <3>1. \E d \in BOs \union {NoBO} : mali' = [mali EXCEPT !.pOverlayDirtyBO = d]
      BY <2>1, <2>3 DEF DestroyReplacedBuffer, DestroyDrawableBuffer, DestroyBuffer, OverlayFields
    <3>2. QED
      BY <2>1, <3>1 DEF OverlayFields
  <2>4. CASE mali' = mali
    BY <2>4
  <2>5. QED
    BY <1>1, <2>2, <2>3, <2>4 DEF CreateDummyBuffer, CreateNullBuffer, AllocMemBuffer,
                                  ReuseMemBuffer
<1>7. GoodTree(tree')
  BY <1>2, <1>5
<1>8. /\ Overlay.mali = mali /\ Overlay.layer = layer
      /\ Overlay'.mali = mali' /\ Overlay'.layer = layer'
  BY DEF Overlay
<1>9. GoodLayer(Overlay', tree') /\ Unobscured(Overlay', tree')
  <2>1. CASE mali'.pOverlayWin = mali.pOverlayWin
    BY Zenon, <1>2, <1>5, <1>6, <1>8, <2>1 DEF GoodLayer, Unobscured
  <2>2. CASE mali.pOverlayWin = NoWin /\ mali'.pOverlayWin \in tree.exists
    <3>1. ~layer.shown
      BY <1>2, <1>8, <2>2 DEF GoodLayer
    <3>2. GoodLayer(Overlay', tree')
      BY <1>2, <1>5, <1>6, <1>8, <2>2, <3>1 DEF GoodLayer
    <3>3. Unobscured(Overlay', tree')
      BY <1>5, <1>8, <3>1 DEF Unobscured
    <3>4. QED
      BY <3>2, <3>3
  <2>3. QED
    BY <1>6, <2>1, <2>2
<1>10. QED
  BY <1>4, <1>7, <1>9, <1>8 DEF OverlayInv

\* The layer is turned to a frame of the overlay window, where the window is, or to
\* nothing.
LEMMA CopyRegionGood ==
  ASSUME TypeOK, OverlayInv, OverlayHasOneOwner', NEW w \in Clients, NEW fm \in BOOLEAN,
         NEW bm \in BOOLEAN, CopyRegion(w, fm, bm)
  PROVE  OverlayInv'
<1> DEFINE r == AfterSwap(w, fm, bm)
           shown == Shown(w, r)
           live == Live(r.bo, shown)
           r3 == IF live /\ Comparable(r) THEN SaveChecksums(r) ELSE r
           u == UpdateOverlay(Overlay, tree)
           done == Present(w, shown, r3.bo)
<1>1. GoodTree(tree) /\ GoodLayer(Overlay, tree) /\ Unobscured(Overlay, tree) /\ GoodBOs
  BY DEF OverlayInv
<1>2. /\ mali'.pOverlayWin = mali.pOverlayWin
      /\ SameKinds(bo')
  BY CopyRegionFrames
<1>3. r \in SwapStatus /\ shown \in Pointer
  <2>1. r \in SwapStatus
    BY AfterSwapType
  <2>2. QED
    BY <2>1, SlotNames DEF Shown, SwapStatus, TypeOK, Pointer
<1>4. /\ bo' = r3.bo /\ ptr' = SwappedPtr(w, r3) /\ tree' = tree
      /\ live => SetOverlay(done)
      /\ ~live => UNCHANGED <<mali, layer, frame>>
  BY DEF CopyRegion
<1>5. /\ r3.front = r.front
      /\ \A d \in BOs : /\ r3.bo[d].addr = r.bo[d].addr /\ r3.bo[d].handle = r.bo[d].handle
                        /\ r3.bo[d].kind = r.bo[d].kind
  <2>1. /\ SaveChecksums(r).front = r.front
        /\ \A d \in BOs : /\ SaveChecksums(r).bo[d].addr = r.bo[d].addr
                          /\ SaveChecksums(r).bo[d].handle = r.bo[d].handle
                          /\ SaveChecksums(r).bo[d].kind = r.bo[d].kind
    BY <1>3 DEF SaveChecksums, SwapStatus, BOInfo
  <2>2. QED
    BY <2>1
<1>6. GoodBOs'
  <2>1. \A d \in BOs : GoodBO(bo[d])
    BY <1>1 DEF GoodBOs, GoodBO
  <2>2. \A d \in BOs : GoodBO(bo'[d])
    BY <1>4, <2>1, AfterSwapGood
  <2> HIDE DEF r3
  <2>3. \A v \in Clients : ptr'[Mem(v)] = ptr[Mem(v)]
    <3>1. \A v \in Clients : /\ Mem(v) \in Slots
                             /\ Mem(v) \notin {Back(w), Front(w), Queue(w, state[w].tail)}
      BY SlotNames DEF Mem, Back, Front, Queue
    <3>2. QED
      BY <1>4, <3>1 DEF SwappedPtr, TypeOK
  <2>4. MemKept
    BY <2>3 DEF MemKept
  <2>5. QED
    BY <1>1, <1>2, <2>2, <2>4, GoodBOsKept DEF SameKinds
<1>7. ptr'[Front(w)] = r.front
  <2> HIDE DEF r3, r
  <2>1. Front(w) \in Slots /\ Front(w) \notin {Back(w), Queue(w, state[w].tail)}
    BY SlotNames DEF Front, Back, Queue
  <2>2. QED
    BY <1>4, <1>5, <2>1 DEF SwappedPtr, TypeOK
<1>8. u \in OverlayStatus /\ u.mali.pOverlayWin = mali.pOverlayWin /\ tree \in Trees
  BY OverlayType, UpdateType, UpdateOwner DEF TypeOK, Overlay
<1>9. /\ GoodLayer(u, tree) /\ Unobscured(u, tree)
      /\ u.mali.bOverlayWinEnabled /\ u.mali.pOverlayWin # NoWin =>
           /\ u.mali.bHardwareCursorIsInUse /\ u.mali.overlay_x = Column(tree, u.mali.pOverlayWin)
           /\ ~ObscuredIn(tree, u.mali.pOverlayWin)
  BY <1>1, OverlayType, UpdateIsGood
<1>10. ASSUME live, ~r3.bo[shown].handle
       PROVE  w = mali.pOverlayWin
  <2>1. shown \in BOs /\ r.bo[shown].addr
    BY <1>3, <1>10 DEF Live, Pointer
  <2>2. bo'[shown].addr /\ ~bo'[shown].handle
    BY <1>4, <1>5, <1>10, <2>1
  <2>3. bo'[shown].kind \in Frames
    BY <1>6, <2>1, <2>2 DEF GoodBOs
  <2>4. CASE r.front # NoBO
    <3>1. shown = r.front
      BY <2>4 DEF Shown
    <3>2. ptr'[Front(w)] = shown
      BY <1>7, <3>1
    <3> HIDE DEF shown
    <3>3. w = mali'.pOverlayWin
      BY <2>1, <2>3, <3>2 DEF OverlayHasOneOwner, Front
    <3>4. QED
      BY <1>2, <3>3
  <2>5. CASE r.front = NoBO
    <3>1. shown = ptr[Mem(w)]
      BY <2>5 DEF Shown
    <3> HIDE DEF shown
    <3>2. shown # NoBO
      BY <2>1, BufferInfoAssumption
    <3>3. bo[shown].kind = "mem"
      BY <1>1, <3>1, <3>2 DEF GoodBOs
    <3>4. QED
      BY <1>2, <2>1, <2>3, <3>3 DEF SameKinds
  <2>6. QED
    BY <2>4, <2>5
<1> HIDE DEF r, r3, shown, u
<1>11. CASE ~live
  <2>1. Overlay' = Overlay
    BY <1>4, <1>11 DEF Overlay
  <2>2. QED
    BY <1>1, <1>4, <1>6, <2>1 DEF OverlayInv
<1>12. CASE live
  <2>1. /\ Overlay'.mali = done.mali /\ Overlay'.layer = done.layer
    BY <1>4, <1>12 DEF SetOverlay, Overlay
  <2>2. CASE ~u.mali.bOverlayWinEnabled \/ r3.bo[shown].handle
    <3>1. done = CopyToWindow(u, w)
      BY <2>2 DEF Present, u
    <3>2. /\ done.layer = u.layer
          /\ done.mali = [u.mali EXCEPT !.pOverlayDirtyBO = NoBO]
      BY <1>8, <3>1 DEF CopyToWindow, OverlayStatus
    <3>3. /\ done.mali.pOverlayWin = u.mali.pOverlayWin
          /\ done.mali.bOverlayWinEnabled = u.mali.bOverlayWinEnabled
          /\ done.mali.bHardwareCursorIsInUse = u.mali.bHardwareCursorIsInUse
          /\ done.mali.overlay_x = u.mali.overlay_x
      BY <1>8, <3>2 DEF OverlayStatus, OverlayFields
    <3> HIDE DEF done
    <3>4. GoodLayer(Overlay', tree) /\ Unobscured(Overlay', tree)
      BY Zenon, <1>9, <2>1, <3>2, <3>3 DEF GoodLayer, Unobscured
    <3>5. QED
      BY <1>1, <1>4, <1>6, <3>4 DEF OverlayInv
  <2>3. CASE u.mali.bOverlayWinEnabled /\ ~r3.bo[shown].handle
    <3>1. done = FlipLayer(u, w, shown)
      BY <2>3 DEF Present, u
    <3>2. /\ done.layer = [shown |-> TRUE, x |-> Column(tree, w),
                           size |-> tree.size[w], src |-> shown]
          /\ done.mali = [u.mali EXCEPT !.pOverlayDirtyBO = shown]
      BY <1>8, <3>1 DEF FlipLayer, OverlayStatus
    <3>3. /\ done.mali.pOverlayWin = u.mali.pOverlayWin
          /\ done.mali.bOverlayWinEnabled = u.mali.bOverlayWinEnabled
          /\ done.mali.bHardwareCursorIsInUse = u.mali.bHardwareCursorIsInUse
          /\ done.mali.overlay_x = u.mali.overlay_x
      BY <1>8, <3>2 DEF OverlayStatus, OverlayFields
    <3> HIDE DEF done
    <3>4. u.mali.pOverlayWin = w /\ w # NoWin
      BY <1>8, <1>10, <1>12, <2>3, MaliDRI2Assumption
    <3>5. Overlay'.layer.x = Column(tree, w)
      BY <2>1, <3>2
    <3>6. GoodLayer(Overlay', tree)
      BY <1>9, <2>1, <2>3, <3>3, <3>4, <3>5 DEF GoodLayer
    <3>7. Unobscured(Overlay', tree)
      BY <1>9, <2>1, <2>3, <3>3, <3>4 DEF Unobscured
    <3>8. QED
      BY <1>1, <1>4, <1>6, <3>6, <3>7 DEF OverlayInv
  <2>4. QED
    BY <2>2, <2>3
<1>13. QED
  BY <1>11, <1>12

LEMMA StepGood ==
  ASSUME TypeOK, OverlayInv, OverlayHasOneOwner', [Next]_vars
  PROVE  OverlayInv'
<1>1. GoodBOs /\ \A b \in BOs : GoodBO(bo[b])
  BY DEF OverlayInv, GoodBOs, GoodBO
<1>2. CASE TreeStep
  <2>1. GoodBOs'
    BY <1>1, <1>2, TreeStepBOs, StepKept, GoodBOsKept DEF Kept
  <2>2. QED
    BY <1>2, <2>1, TreeStepGood DEF OverlayInv
<1>3. CASE HookStep
  <2>1. UNCHANGED <<bo, ptr>>
    BY <1>3 DEF HookStep, EnableHWCursor, DisableHWCursor, GetImage
  <2>2. GoodBOs'
    BY <1>1, <2>1 DEF GoodBOs, Mem
  <2>3. QED
    BY <1>3, <2>2, HookStepGood DEF OverlayInv
<1>4. CASE BufferStep
  BY <1>4, BufferStepGood
<1>5. CASE SwapStep
  BY <1>5, CopyRegionGood DEF SwapStep
<1>6. CASE UNCHANGED vars
  <2>1. Overlay' = Overlay /\ tree' = tree /\ UNCHANGED <<bo, ptr>>
    BY <1>6 DEF vars, Overlay
  <2>2. GoodBOs'
    BY <1>1, <2>1 DEF GoodBOs, Mem
  <2>3. QED
    BY <2>1, <2>2 DEF OverlayInv
<1>7. QED
  BY <1>2, <1>3, <1>4, <1>5, <1>6 DEF Next

LEMMA InitGood ==
  ASSUME Init
  PROVE  OverlayInv
<1>1. GoodTree(tree)
  <2>1. tree \in Trees
    BY DEF Init, EmptyTree, Trees
  <2>2. tree.mapped = {} /\ tree.below = {}
    BY DEF Init, EmptyTree
  <2>3. QED
    BY <2>1, <2>2 DEF GoodTree
<1>2. GoodLayer(Overlay, tree) /\ Unobscured(Overlay, tree)
  BY DEF Init, Overlay, GoodLayer, Unobscured
<1>3. GoodBOs
  <2>1. \A b \in BOs : ~bo[b].addr
    BY DEF Init, Unused, Fresh
  <2>2. \A w \in Clients : ptr[Mem(w)] = NoBO
    BY SlotNames DEF Init
  <2>3. QED
    BY <2>1, <2>2 DEF GoodBOs
<1>4. QED
  BY <1>1, <1>2, <1>3 DEF OverlayInv

\* The tree and the layer are in order in every state.
THEOREM OverlayInvHolds == Spec => []OverlayInv
<1>1. TypeOK /\ OverlayInv /\ OverlayHasOneOwner' /\ [Next]_vars => OverlayInv'
  BY StepGood
<1>2. QED
  BY InitGood, <1>1, TypeCorrect, OverlayOwnerCorrect, PTL DEF Spec

\* Nothing that can be seen is ever in front of the window the layer is shown for,
\* whatever windows are created, mapped, moved, resized, raised and destroyed, and
\* the cursor is above the layer.
THEOREM LayerOnlyWhenUnobscuredCorrect == Spec => []LayerOnlyWhenUnobscured
<1>1. OverlayInv => LayerOnlyWhenUnobscured
  <2>1. \A w : ObscuredIn(tree, w) <=> Obscured(w)
    BY DEF ObscuredIn, Obscured
  <2>2. Overlay.mali = mali /\ Overlay.layer = layer
    BY DEF Overlay
  <2>3. QED
    BY <2>1, <2>2 DEF OverlayInv, GoodLayer, Unobscured, LayerOnlyWhenUnobscured
<1>2. QED
  BY <1>1, OverlayInvHolds, PTL

\* The layer is where the overlay window is, although the controller is not told of
\* windows that move back, move unseen, or lose and regain the overlay.
THEOREM LayerTracksWindowCorrect == Spec => []LayerTracksWindow
<1>1. OverlayInv => LayerTracksWindow
  <2>1. Overlay.mali = mali /\ Overlay.layer = layer
    BY DEF Overlay
  <2>2. QED
    BY <2>1 DEF OverlayInv, GoodLayer, Unobscured, LayerTracksWindow
<1>2. QED
  BY <1>1, OverlayInvHolds, PTL
=============================================================================
