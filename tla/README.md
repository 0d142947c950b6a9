# A TLA+ model of xf86-video-fbturbo

`xf86-video-fbturbo` is an X.Org video driver for boards with a plain Linux
framebuffer, the Allwinner (sunxi) display engine and Mali GPUs, and for DRM/KMS
devices. This directory holds TLA+ modules of its parts, the TLC configurations
that model-check them, and proofs for TLAPS. Every definition is a translation of
code under `src/`; `PROJECT.json` says which lines each stands for.

To run (all modules need the TLA+ community modules, the proofs need TLAPS):

    tlc -workers 2 -config MaliDRI2Frames.cfg MCMaliDRI2
    tlapm MaliDRI2Proofs.tla

The module and the configuration of each run are in `PROJECT.json`.

## 1. Inventory

The driver has no thread of its own. The X server calls it from one thread, so
what interleaves are *calls*: requests of clients, hooks on the window tree, VT
switches, server resets, cursor changes. The hard part is that a call leaves state
that later calls of another kind, or from another client, rely on. Failures enter
through ioctls and allocations.

| Component | Source | State | Operations | What makes it correct |
|---|---|---|---|---|
| DRI2 integration for Mali | `sunxi_mali_ump_dri2.[ch]` | `BOInfoRec`s with a reference count, `DRI2WindowStateRec` per window (mem/back/front pointers, ring queue of 16, request and swap counters), `FBTurboMaliDRI2` (overlay window, dirty BO, cached position, cursor flag) | `CreateBuffer2`, `DestroyBuffer2`, `CopyRegion2`, hooks `PostValidateTree`, `DestroyWindow`, `GetImage`, `EnableHWCursor`, `DisableHWCursor`; pixmap migration | no BO released while referenced, one owner of the overlay, odd and even frames keep their places, the layer never hides a window above it |
| Display engine | `sunxi_disp.[ch]`, `sunxi_disp_ioctl.h`, `g2d_driver.h` | `sunxi_disp_t`: layer format, source rectangle, cached window, scaler flag, framebuffer sizes | layer reserve, input, window, show, hide, color key; cursor registers; G2D fill and blit | scaler held as long as needed, source cut matches the window |
| XV overlay | `sunxi_video.[ch]` | `SunxiVideo`: offset of the next frame, color key, cached clip region | `PutImage`, `ReputImage`, `StopVideo`, port attributes | frames inside the offscreen memory, no tearing, key color consistent |
| Hardware cursor | `sunxi_disp_hwcursor.[ch]` | cursor image and palette | load, show, hide, move | tells DRI2 when the cursor is above the layer |
| DRM connection and VT | `fbdev.c` | `connection` (fd, open and master counts), `vtSema`, `drmFD` | `PreInit`, `ScreenInit`, `EnterVT`, `LeaveVT`, `CloseScreen` | no more drops than were counted, asserts hold |
| Screen life cycle | `fbdev.c`, `fbdev_priv.[ch]` | `FBDevRec`, wrapped screen functions | `PreInit`, `ScreenInit`, `CloseScreen`, `BlockHandler`, shadow updates | wrap and unwrap in opposite order, resources given back once |
| Backing store tuner | `backing_store_tuner.[ch]` | call counter, nesting level | `PostValidateTree`, `ReparentWindow` | bounded recursion, the job is done |
| Blit chain | `sunxi_x_g2d.[ch]`, `fb_copyarea.[ch]`, `cpu_backend.[ch]`, `interfaces.h` | counters, fallback pointers | `overlapped_blt` through G2D, fb copyarea, CPU | a blit is done exactly once, in the right order for overlaps |
| BO backends | `fbdev_bo_*.c`, `armsoc_dumb.c`, `drmmode_dumb.c` | handle tables (uthash), reference counts, mappings | create, import, map, switch use, release | counts, no double close |
| KMS | `fbdev_lcd.[ch]`, `fbdev_vc4.[ch]` | CRTCs, outputs, modes, leases | mode set, DPMS, VT switches, leases | what the kernel shows agrees with the server's records; what a lessee shows is not disturbed while the server has the VT |
| EXA null | `fbdev_exa_null.c` | pixmap private (BO) | create, modify, access, destroy pixmap | a pixmap's memory exists as long as the pixmap |
| Rest | `compat-api.h`, `uthash.h`, `test/`, `man/` | - | - | demos and third-party code |

How they interact: DRI2 and XV both drive the one layer of the display engine;
DRI2 is called by the hardware cursor; DRI2's `PostValidateTree` hook and the
backing store tuner's wrap the same screen function, and a dozen other functions
are wrapped by several parts; `FBTurboMaliDRI2_Close` closes the DRM descriptor
that `fbdev.c` shares among the screens; pixmaps, windows and DRI2 buffers share
`BOInfoRec`s; the scanout BO is the screen pixmap's memory and the framebuffer of
every mode set; the blit chain is called by `xCopyNtoN` below everything that
copies, and lives on what `ScreenInit` managed to open.

`PROJECT.json` lists the hazards, each at its line, with the properties that would
catch it going wrong or the reason why none does.

## 2. Modules

| Module | Models | Extends |
|---|---|---|
| `WindowTree` | the server's window tree, `FancyTraverseTree`/`WindowWalker` | - |
| `BufferInfo` | `BOInfoRec`, `unref_bo_info`, the counted pointers as *slots* | - |
| `MaliDRI2` | requests, swaps, overlay and hooks of the DRI2 glue | `WindowTree`, `BufferInfo` |
| `MaliDRI2Claims` | what comments say and the code does not keep | `MaliDRI2` |
| `MCMaliDRI2` | constants for TLC | `MaliDRI2Claims` |
| `MaliDRI2Proofs` | theorems for TLAPS | `MaliDRI2` |
| `DispLayer` | the layer functions of `sunxi_disp.c`, as operators on a layer | - |
| `XvOverlay`, `MCXvOverlay` | the XV port, composed with the layer calls of DRI2 | `DispLayer` |
| `XvOverlayProofs` | theorems for TLAPS | `XvOverlay` |
| `DrmMaster` | the shared DRM connection and its master count | - |
| `DrmMasterProofs` | theorems for TLAPS | `DrmMaster` |
| `ScreenLife`, `MCScreenLife` | the wrapped functions of the screen through calls, extensions and server generations | `DrmMaster` |
| `ScreenLifeProofs` | theorems for TLAPS | `ScreenLife`, `DrmMasterProofs` |
| `BackingStoreTuner` | the backing store heuristics | - |
| `BackingStoreTunerProofs` | theorems for TLAPS | `BackingStoreTuner` |
| `BlitChain` | copies of rectangles through the 2D backends and their fallbacks | - |
| `Acceleration` | opening, choosing and closing the backends over server generations, composed with the copies | `BlitChain` |
| `AccelerationProofs` | theorems for TLAPS, about the copies too | `Acceleration` |
| `PixmapBo`, `MCPixmapBo` | pixmaps, DRI2 buffers and window states that share BOs; both BO backends | uses `SharedBo` |
| `PixmapBoProofs` | theorems for TLAPS | `PixmapBo` |
| `SharedBo` | what sharing promises: an object lives as long as its users | - |
| `LcdModes`, `MCLcdModes` | mode sets, power saving, VT switches and leases, against the kernel | - |
| `LcdModesProofs` | theorems for TLAPS | `LcdModes` |

### MaliDRI2

Variables and code: `tree` is the server's window tree (two levels: frames and the
client windows in them; the screen is one row of pixels, so that `BOXES_OVERLAP`
is an interval test). `bo` are the `BOInfoRec`s, `ptr` all counted pointers to
them in one array of slots: `bo_mem_ptr`, `bo_back_ptr`, `bo_front_ptr`,
`bo_queue[i]`, and the `driverPrivate` of the buffer a drawable has and of the one
the server has just replaced. `state` is `DRI2WindowStateRec` without the
pointers, `mali` the overlay fields of `FBTurboMaliDRI2`, `layer` the display
engine's layer, and `frame` is history: whether the last frame of a window is on
the layer only, in the window too, or in the window only.

Actions: the seven window tree requests run `PostValidateTree` (thus
`UpdateOverlay`) when the window is realized; `EnableHWCursor`, `DisableHWCursor`
and `GetImage` are hooks. A `DRI2GetBuffers` request is `CreateBuffer2`, one of
five actions for its five paths, followed by `DestroyReplacedBuffer`; between the
two nothing else runs (`BetweenRequests`). `CopyRegion` is the whole of
`MaliDRI2CopyRegion2`, written as a pipeline of operators, one per paragraph of
the function. `buf_request_cnt` and `buf_swap_cnt` are kept as parities, which is
all the code reads.

What the model assumes: the UMP backend without EXA (the hooks `GetImage` and
`DestroyPixmap` are only wrapped then, and pixmap migration does not run);
allocation of buffers does not fail; the hardware cursor starts out disabled. The outcome of
the sampled comparison of buffers (`front_modified`, `back_modified`) is free,
except that it can only be true for a buffer that has a checksum; with
`ClientsWriteFront = FALSE` clients never draw to the buffer on display.

### DispLayer and XvOverlay

`disp` has the `layer_*` fields of `sunxi_disp_t` and what the controller was last
told. Only the vertical axis is kept, the one with the workaround for windows above
the screen, and a frame's size is its number of rows. The request for a scaler may
fail (`Contended`), other ioctls do not. Of DRI2 only the calls on the layer are
kept: `Dri2Update` and `Dri2Swap` are the layer part of `UpdateOverlay` and
`MaliDRI2CopyRegion2`, with a free choice of whether the window is visible, which
`MaliDRI2` models in full.

### DrmMaster

The server calls PreInit, ScreenInit, EnterVT, LeaveVT and CloseScreen for each
screen in turn; `server` holds the phase and the screens still to be called. The
kernel's opinion (`device`) is kept beside the driver's (`connection`). Any
kernel call and mode set may fail. A failed `assert` leads to the phase
`"aborted"`. Counters are bounded by `Generations`, the number of server resets + 1.
Whether the server clears `vtSema` around `LeaveVT` is left open: it depends on
the server's version. The driver opens the device itself; for a descriptor that the
server manages (`XF86_PDEV_SERVER_FD`) nothing is counted, and `SetDRMMaster` returns
at once (`fbdev.c:695`).

### ScreenLife

A behaviour of `ScreenLife` is one of `DrmMaster` with more variables: `ServerStep`
is a step of `DrmMaster`'s `Next` together with what the same call does to the
functions of the screen. `hooks` has, per screen, the functions in the screen
(`slot`) and what everybody who wrapped one keeps (`saved`). `Initialised` and
`Closed` wrap and put back in the order of `FBDevScreenInit` and `FBDevCloseScreen`;
the server's own modules (`exa`, `xv`, `crtc`) take part, since the driver initialises
them in the middle. Three slots are called while the server runs
(`PostValidateTree`, `BlockHandler`, `DestroyWindow`, which stand for the three ways a
wrapper can be written), through `CallHook`, `CallLast` and `ReturnFromHook`; an
extension may wrap any of them before, after or in the middle of a call, and is
gone after it. The two configurations are those of UMP and of dumb buffers.

### PixmapBo

`pix` are pixmaps: reference count, driver private, and where the pixels are. `info`
are the `BOInfoRec`s, `bo` the backend's objects with their own count, mapping,
framebuffer id, `dma_buf` and the count of external accesses. `useDumb` chooses the
backend and, with it, EXA. Of the calls an action makes one kind may fail
(`Outcomes`). A step into a failed `assert` or a use of an object that is gone
leads to the phase `"dead"`, which the properties do not exclude: the code does have
such paths (section 3), and they end the server. `MaxRefs` bounds the references to a
pixmap. `CreateNullBuffer` stands for the requests after a resize; the dummy buffer of
other attachments, which leaves the window's BO alone, is left out. Not modelled: `calloc` that fails, a shadow framebuffer over dumb buffers,
DRI2 switched off by option.

The module implements `SharedBo`: an abstract user for every pixmap, window, DRI2
buffer and for `fPtr->scanout`, whose object is the handle of the record it points to,
and `live` the objects the backend has. `ImplementsSharedBo` says that every step of
the driver is one user joining, leaving or creating an object, that an object is freed
in the step its last user leaves, and that nothing else happens to it.

### LcdModes

`crtc` and `output` are what the X server has on record, `kernel` what the display
does. An action is a call of the server into the driver with the bookkeeping the
server does around it: a mode set (`xf86CrtcSetModeTransform` with its undo after a
failure), DPMS, `ScreenInit`, `CreateScreenResources`, the first block handler,
`LeaveVT`, `EnterVT`, and the three lease calls. While the VT is away another program
may show anything on one CRTC and on connectors that are not leased (`HeldCrtcs`, `HeldOutputs`),
and leaves the leased ones as they are; a lessee may set its CRTCs or close
its lease at any time, whoever has the VT. Besides the calls of a mode set the listing of
the lessees may fail (`"unlisted"`): then `ValidateLeases` changes nothing, as in the code.
A mode stands for its timings, position and rotation. `unsure` is
history: it marks the CRTCs of which the server could not know, because a failure
was only logged or because `fbdev_set_desired_modes` passed over them.

### BackingStoreTuner

`frames` is the stack of calls of `xPostValidateTree` in progress. A nested call
begins inside `ChangeWindowAttributes`, before or after the window's `backStorage`
changed; while a window is being redirected it is not redirected again.
`PostValidateTreeCount` wraps at `CounterRange` (2^32 in the code). `WF_vars(Step)`
says that a call in progress goes on: the server is one thread and does nothing
else before the hook returns. Nothing is assumed of the requests.

### BlitChain

`image` is the memory of the screen and of one pixmap. It holds origins instead of
colors: for each point, the point its pixel was at when the copy was asked for, so
that one image stands for all contents. `call` has the arguments of
`overlapped_blt`, `at` is the function the copy is in, and `scan` the loops over
rows and runs of pixels: of `twopass_memmove` with its scratch buffer, or of
`pixman_blt` and `fbBlt`, which copy pixel by pixel. `Request` is a box of
`xCopyArea` or `xCopyWindow`, and `Return` goes on to the next one.

What is outside `src/` is modelled as the code relies on it: `miCopyRegion` sets
`reverse` and `upsidedown` for copies within one image; the kernel's copyarea copes
with every overlap; G2D copes with every overlap but the one the code calls
unsupported, where it reads what it has just written; an ioctl that fails has
copied nothing. Any ioctl may fail, and `pixman_blt` may refuse. An address counts
pixels, since strides are whole pixels.

### Acceleration

`screen` is what this generation's `sunxi_disp_t` and `fb_copyarea_t` hold and the
backend chosen by `FBDevScreenInit`; `opened` counts what the kernel has open for the
server. Any one call of each Init function may fail, with the error path the code
takes. In between the copies of `BlitChain` run with the backend found. What is left
open by an error path stays in `opened`; `MaxOpen` bounds it.

## 3. Runs

| Run | Checks | Shows |
|---|---|---|
| `frames` | `TypeOK`, `RefcountCoversHolders`, `FrameParity`, `QueueShape` | one window, two sizes (one fits the overlay, one does not), four BOs and a ring of two: every order of requests, swaps, resizes and destruction; the ring overflows |
| `tree` | `LayerOnlyWhenUnobscured`, `LayerTracksWindow` | a client in a frame and another top-level window, two positions, raised, moved, mapped and unmapped in every order |
| `share` | `OverlayHasOneOwner` | two clients compete for the overlay |
| `screens` | `LifeTypeOK`, `AssertsHold`, `EveryLeaveIsCovered`, `ChainIsWhole`, `NoHookLeft` | two screens of one or of two configurations, two generations, all failures, VT switches in between, an extension that comes and goes during calls |
| `tuner` | `TypeOK`, `BoundedRecursion`, `LevelIsBalanced`, `ShortJobIsDone`, `CallsReturn` | three windows, nesting limit 1, liveness |
| `xv` | `TypeOK`, `ScalerFollowsVideo`, `SourceMatchesWindow`, `KeyColorMatches`, `FramesStayOffscreen`, `FramesAlternate` | frames that fit twice and that do not fit; windows on, across and above the upper edge; DRI2 on the same layer |
| `blit` | `AccelTypeOK`, `CopyIsExact`, `RetryIsExact`, `DescriptorsHaveOwner`, `BackendIsOpen` | every copy of 3 or 4 by 1 or 2 pixels in two images of 5 by 3, with the backend a generation has found, all fallbacks and failures |
| `pixmaps` | `TypeOK`, `RefcountIsExact`, `MemoryIsOwned`, `AccessCanEnd`, `PixelsExist`, `ImplementsSharedBo` | a pixmap, the screen's and the scratch pixmap, a window, two DRI2 buffers, both backends, every failing call; the refinement |
| `lcd` | `TypeOK`, `KernelAgrees`, `LeasedIsNotConfigured`, `LesseeKeepsPicture`, `NoGoneLeaseAfterEnterVT` | two CRTCs that share two outputs, two modes, a lease, any failing call |
| `claim_overlap`, `claim_dirty_buffer`, `claim_enabled_crtcs` | one property each | end in a violation, see below |

Bounds. A ring of 2 fills, overflows and wraps like one of 16. Two positions are
enough to be beside or above a window, two sizes to fit or not to fit the
offscreen memory. A third BO per window is needed for front, back and queued at
once; the fourth lets stale pointers meet reused structures. `VIEW Reach` of
`MCMaliDRI2` hides the content of structures nothing points to, which no action
reads; BOs are symmetric. The nesting limit 4 is scaled to 1, with
more windows than the limit allows. For copies, a width of 3 is the least that has a
left or a right edge beside a pair of pixels, and a remainder beside a scratch buffer
of 2; a height of 2 with a third row is the least that overlaps diagonally; 4 has
both edges, and one row of it leaves room for a source apart from the destination.
The thresholds (1000, 2500 and 90 pixels) are 3 and 4, so that copies fall on both
sides of each except the first.

Two screens are the least that share a connection. The second generation is the first
that begins with what another one left behind: open descriptors, counts, `PointerMoved`;
for the counts, the proofs of section 4 cover every number. One extension at a time can be before, after or inside the call of every
other wrapper. Four `BOInfoRec`s are one for the pixmap, one for the window and one for
each DRI2 buffer, and `MaxRefs = 2` is a pixmap that is referenced once more while it
is destroyed. With two CRTCs and two outputs a mode set can take the connector of the
other CRTC; the first output has one encoder for both CRTCs, the second one also an
encoder for CRTC 2 only. `MaxOpen = 2` lets one descriptor too many be seen; an error
path that loses a mapping is taken twice. The symmetry of each run is between values no
property tells apart.

Runs that end in a violation. Each checks one sentence of a comment, and TLC shows
a behaviour of the code that breaks it (`findings` in `PROJECT.json`):

* `claim_dirty_buffer`: `pOverlayDirtyBO` is not counted as a reference. A later
  request or swap releases the BO it remembers, and the next `FlushOverlay` copies
  from a `NULL` address.
* `claim_enabled_crtcs`: at a VT switch back the driver is to set the hardware as the
  server needs it. `fbdev_set_desired_modes` has a loop without braces
  (`fbdev_lcd.c:1394`): it tests the element behind the last output, and a match
  leaves the loop over the CRTCs, so an enabled CRTC stays dark although nothing
  failed.
* `claim_overlap`: G2D copies 16 bpp in up to three parts, from left to right. The
  guard excludes a move to the right only within the same rows, so a diagonal one
  reads source pixels an earlier part has overwritten. `CopyIsExact` leaves out this
  case (`SplitToTheRight`) and copies that were torn by a failure, of which
  `RetryIsExact` speaks.

Other observations of the same kind, without a run.

*DRI2 and the layer.* A full ring has `head = tail` and is taken for an empty one
(`sunxi_mali_ump_dri2.c:633`); it takes 16 buffer requests without a swap.
`MaliDRI2CopyRegion2` sets the window before the input format, so the first DRI2 frame
after a video is placed by the rules for video (line 1263, `sunxi_disp.c:491`).
Unmapping a window whose frame is not mapped runs no hook, so the layer can stay on
for a window nobody sees, and for this reason `LayerOnlyWhenUnobscured` and
`LayerTracksWindow` speak of windows that are viewable. `MaliDRI2DestroyBuffer2` forgets
the dirty BO while the layer still shows it, so a screenshot misses that frame.

*DRM master.* `FBTurboOpenDRM`, `FBDevScreenInit` and `FBTurboEnterVT` each add one to
the count, and only the last is taken back by `LeaveVT`. So while the descriptor is open
the count never returns to 0: `drmSetMaster` and `drmDropMaster` (`fbdev.c:705`, `724`) are
not called then, and the driver is still DRM master when another program has the VT. `FBTurboMaliDRI2_Close` closes the descriptor that
`connection.fd` goes on holding; in the next generation the driver counts a master of a
closed descriptor. `AssertsHold` and `EveryLeaveIsCovered` show that the counts survive
this, and nothing else of it.

*BOs.* The comments at `fbdev_bo_dumb.c:37` and `79` say that `ext_access_cnt` counts the
DRI2 buffers that wrap a pixmap, and that CPU access must be synchronised while it is
positive. The code does something else. It registers one access when it allocates the back
buffer of a window (`sunxi_mali_ump_dri2.c:936`), none for the buffer of a pixmap
(736-759), and no second one for a window buffer that is reused (898-914); a swap ends and
renews the one access (1017, 1054), and a DRI2 buffer that is destroyed ends none. So the
CPU maps a pixmap that a client renders to without waiting for the hardware.
`AccessCanEnd` says no more than what the code relies on: an access that a swap ends has
been registered.
`dumb_bo_new` and `ump_bo_new` return a handle although the allocation inside
failed, so that the first use meets a `NULL` object instead of the fallback announced
at `sunxi_mali_ump_dri2.c:664`. A mapping that fails twice and then works exports the
object a second time, and the assert of `armsoc_bo_del` ends the server. A pixmap of
`createpix()` is never destroyed, and the reference an EXA front buffer takes is not
given back. The hook for `DestroyPixmap` un-migrates a pixmap that still has other
references. `MigratePixmapToBO` copies from `NULL` for a pixmap that EXA has stepped out
of. `alpha_supported` is always `FALSE`, so the second try of `armsoc_bo_add_fb` never
runs.

*Screen life.* The block handler and `PointerMoved` are never put back. `xCopyWindow`
and `xCreateGC` call functions of fb instead of what they found. `FBTurboMaliDRI2_Close`
runs when xv has been closed, and puts back the `DestroyWindow` it found, which was
xv's; `NoHookLeft` is about the functions of the driver. When `FBTurboMaliDRI2_Init`
fails with EXA on, the descriptor is closed before `CloseScreen` releases the scanout
buffer. In `sunxi_disp_init` the error paths behind the `mmap` do not unmap, and the
last one leaves the layer requested; `DescriptorsHaveOwner` is about descriptors.

*Backing store.* The outer call of the hook bails out whenever a nested call happened,
also when that one returned early because of the nesting limit
(`backing_store_tuner.c:118`), so `ShortJobIsDone` speaks of jobs within the limit.

*Modes.* In a server without KMS modes `set_mode_major` reports success, so
`crtc->mode` stays zero after the first block handler; the result of
`fbdev_set_desired_modes` is ignored there (`fbdev.c:2589`). When the VT comes back the
driver calls `drmModeSetCrtc` with no framebuffer for every CRTC the server has on record as
disabled (`fbdev_lcd.c:1381-1387`, under the comment "Skip disabled CRTCs"). The CRTCs of a
lease are among them, so what a living lessee shows is turned off: `LesseeKeepsPicture` is
about every step but this one. If `drmModeListLessees` fails, no lease is validated
(`fbdev_lcd.c:1129`), `fbdev_set_desired_modes` is successful nevertheless, and a lease that
is gone stays on record at least until the next VT switch:
`NoGoneLeaseAfterEnterVT` is about an `EnterVT` for which the kernel lists its lessees, and the
run has the other one, too.

## 4. Proofs

`MaliDRI2Proofs` proves, for every window tree, every finite set of clients, every
set of BOs, every queue size and every offscreen size:

* `TypeCorrect`: `Spec => []TypeOK`.
* `RefcountCorrect`: `Spec => []RefcountCoversHolders`. The invariant is inductive
  beside the types. The argument counts slots: storing a BO in a slot adds at most
  one holder (`StoreCount`), forgetting slots removes their holders before the count
  goes down (`ReleaseCovered`), a request gives out one new holder per reference
  counted (`GiveOutCovered`), and a swap moves holders around without adding any
  (`CopyRegionCovered`).
* `OverlayOwnerCorrect`: `Spec => []OverlayHasOneOwner`. The invariant is inductive:
  a step either keeps the kinds of the BOs in a window's slots, or it is an overlay
  request of the owner, or a fall back that clears them; a swap reorders the slots of
  one window.
* `FrameParityCorrect`: `~ClientsWriteFront => (Spec => []FrameParity)`. The invariant
  is inductive: a swap either counts and exchanges back and front, or
  (`WrongOrder`) does neither, so what comes out of the queue always has the parity
  the count asks for; every other step keeps the kinds and the counts, or clears
  back and front together. The assumption is necessary: without it the order check
  may exchange front and back without counting.
* `QueueShapeCorrect`: `Spec => []QueueShape`. The property says nothing when head and
  tail meet, and is not inductive for that reason. The invariant `Rings` adds that the
  queue is then all empty or, after an overflow, all full. `RingAdds` and `RingTakes` are
  the two steps on a ring, and one lemma per action shows which of them it makes.
* `LayerOnlyWhenUnobscuredCorrect`, `LayerTracksWindowCorrect`: `Spec => []P` for the two
  properties of the layer, by one invariant, `OverlayInv`: the tree is a tree
  (`GoodTree`), the layer is where `overlay_x` says and on screen only if it may be
  (`GoodLayer`), nothing above covers it (`Unobscured`), and a BO without memory
  of its own wraps the offscreen framebuffer (`GoodBOs`). Two lemmas carry it. `WalkFinds`: the walk of
  `FancyTraverseTree` from the overlay window meets every window that can be in front of
  it, so `UpdateOverlay` misses none. `ViewKept`: what a window tree request changes
  without `PostValidateTree` is not visible.

`XvOverlayProofs` proves all that the run `xv` checks, for every size of the
framebuffer and of the frames, every set of window rows and heights, colors and clip
regions:

* `TypeCorrect`, `ScalerCorrect`, `PlaceCorrect`, `OffscreenCorrect`: `Spec => []P` for
  `TypeOK`, `ScalerFollowsVideo`, `SourceMatchesWindow`, `FramesStayOffscreen`. Each
  layer function is shown to keep `LayerInv` of a layer record, which is the types,
  `ScalerKept`, `CutKept` and `Offscreen`; the actions of both users of the layer
  are then compositions of these functions (`PutLayer`, `UpdateLayer`, `SwapLayer`).
  `SourceMatchesWindow` is not inductive: the source is only reset when the window
  remembered in `layer_win_y` was above the screen, so `CutKept` adds that for any
  other remembered window the source is uncut. The division by the window's height is
  kept to two lemmas, `Quotient` and `SmallerCut`.
* `KeyColorCorrect`: `Spec => []KeyColorMatches`, with `KeyInv`: a clip region counts
  as painted only while the key is enabled, and the enabled key is the attribute's
  color.
* `FramesAlternateCorrect`: `Spec => FramesAlternate`, an action property, with
  `CycleInv`: the next offset is right behind the last frame, and with frames of one
  size the last frame is the first of the offscreen memory or has room for another
  one before it.

`DrmMasterProofs` proves, for every finite number of screens and generations, whether
`PreInit` opens the device once or twice, and whichever calls fail:

* `AssertsCorrect`, `CoverCorrect`: `Spec => []P` for
  `AssertsHold`, `EveryLeaveIsCovered`. Neither is inductive:
  that a drop finds a count above zero depends on what all screens have done before. The
  invariant `DrmInv` keeps the accounts: a screen that is initialised accounts for one
  reference until it is closed (`Held`), and for a second one while it has the VT
  (`Twice`); the count is at least the sum of the two cardinalities. `ScreenInit` puts a
  screen into both sets and counts two, `LeaveVT` takes it out of `Twice`, `EnterVT` puts
  it back, `CloseScreen` takes it out of `Held`, and a call that fails ends the server
  before anyone relies on the account. The helpers are a lemma each (`SetCounts`,
  `DropCounts`, `OpenCounts`, `EnterCounts`); `Sound` relates the count to the kernel.
  By `LifeImplementsMaster` below they hold of `ScreenLife` as well.

`ScreenLifeProofs` proves the rest of what the run `screens` checks, for any finite set of
screens, any number of generations, all 64 configurations, every set of called functions
whose wrappers call on, and extensions that wrap any of them at any time:

* `LifeTypeCorrect`, `ChainIsWholeCorrect`, `NoHookLeftCorrect`: `LifeSpec => []P` for
  `LifeTypeOK`, `ChainIsWhole`, `NoHookLeft`. None is inductive: what `CloseScreen` puts
  back is what `ScreenInit` found. The invariant `LifeInv` divides the screens by `Held` of
  `DrmMasterProofs`: an initialised screen is `InUse`, any other is `Unused`. `InUse` gives
  for each slot the list of all who wrapped it (`Linked`, `Complete`), with the `k` of them
  who are in the middle of a call in front. A call and its return change `k` and nothing
  else of the list (`LinkedCall`, `LinkedReturn`); an extension is inserted behind those `k`
  (`LinkedExtends`) or taken out there (`LinkedGone`), so who is being called still wraps
  again what he should. That FBTurboMaliDRI2 comes before the tuner in every list, because
  it is initialised after it, is what makes the order of `FBDevCloseScreen` right.
* `InitialisedIs` and `ClosedIs` are the two long lemmas, about `FBDevScreenInit` and
  `FBDevCloseScreen`. Both go through the pipeline stage by stage and keep account of who has
  wrapped (`Stage`) or put back (`Closing`) so far, and show that the list of every slot is
  whole at the end, and that a function of the driver that is in a screen has still to be
  put back.
* `LifeImplementsMaster`: `LifeSpec => Spec`. The calls of the functions leave the
  connection alone, so that the accounts of `DrmMaster` are kept while they run.

`PixmapBoProofs` proves all that the run `pixmaps` checks, for any finite sets of pixmaps,
windows, DRI2 buffers and BOs, both backends, and whichever calls fail:

* `TypeCorrect`, `RefcountCorrect`, `MemoryCorrect`, `HardwareUseCorrect`, `PixelsCorrect`:
  `Spec => []P` for `TypeOK`, `RefcountIsExact`, `MemoryIsOwned`, `AccessCanEnd`,
  `PixelsExist`. The invariant `IInv` speaks of the record the operators of `PixmapBo` work
  on: before `ScreenInit` it is `Bare`, while the server runs it is `Good`, and of a server
  that died of an assert it says nothing. `Good` is one conjunct per question: every
  count is the number of its holders (`Counted`), a record has an object of its own exactly while it is
  counted (`Backed`), and what the screen, the scratch pixmap, pixmaps, buffers and windows hold is
  what their state says (`ScreenSet`, `ScratchSet`, `PixmapsSet`, `BuffersSet`,
  `WindowsSet`, `HardwareSet`). The helpers of the backends have a lemma each, and an action
  is their composition.
* `SharedBoImplemented`: `Spec => ImplementsSharedBo`. Every step is a step of `SharedBo`
  under the refinement mapping, or a stutter, by `Counted` and `Backed` before and after it.
* `LiveIsUsedCorrect`: `SharedBo` keeps its promise, which is inductive: the objects in
  memory are those somebody uses. `PromiseCorrect` is the conclusion from the two: it
  holds of the driver.

`BackingStoreTunerProofs` proves the safety properties of the run `tuner`, for any finite set
of windows, every nesting limit and every range of the counter:

* `TypeCorrect`, `RecursionBounded`, `LevelCorrect`, `ShortJobDone`: `Spec => []P` for
  `TypeOK`, `BoundedRecursion`, `LevelIsBalanced`, `ShortJobIsDone`. The invariant `IInv`
  has four parts: the types; every call but the first was made by the one below it, at the
  next level (`WellNested`); every nested call has a window being changed (`Purposeful`);
  and in a short job a window that is not yet as it shall be is being changed by a call in
  progress, or the innermost call has it still ahead (`OnTrack`).

`AccelerationProofs` proves all that the run `blit` checks, for every size of the images, the
copies and the scratch buffer, all thresholds and every number of generations:

* `CopyCorrect`, `RetryCorrect`: `Spec => []P` for `CopyIsExact`, `RetryIsExact`. The
  invariant `ChainInv` says what has been done at each place of a copy: which points already
  have their pixel, which are as they were, and that what is still to be read has not been
  written. The loops are `Safe` walks: a point is written only after every point that is
  to be read from it. `CpuWalkIsSafe` derives this from `reverse` and `upsidedown` and the
  order of addresses; forwards, backwards and through the scratch buffer are its cases.
* `TypeCorrect`, `DescriptorsCorrect`, `BackendCorrect`: `Spec => []P` for `AccelTypeOK`,
  `DescriptorsHaveOwner`, `BackendIsOpen`, with `Owned` (what a structure of the
  screen holds is open) and `Ready` (a copy
  runs only on a backend that was opened).

`LcdModesProofs` proves all that the run `lcd` checks, for any number of CRTCs and leases, any
finite set of outputs with any encoders, any modes, and whichever single call of an action fails:

* `TypeCorrect`, `KernelAgreesCorrect`, `LeasedCorrect`: `Spec => []P` for `TypeOK`,
  `KernelAgrees`, `LeasedIsNotConfigured`; `NoGoneLeaseCorrect`, `LesseeKeepsPictureCorrect`:
  `Spec => P` for the action properties `NoGoneLeaseAfterEnterVT` and `LesseeKeepsPicture`.
  They rest on `IInvCorrect`. `NoGoneLeaseCorrect` admits every failing call but that of
  `drmModeListLessees`, for which the code promises nothing (section 3).
* The inductive invariant `IInv` is the claim `Holds` about the record (the *status*) that
  the functions of `LcdModes` work on. `Sound` is needed by all of them: the types; no output
  on a CRTC its encoders do not reach (`PossibleRoutes`); and `LeasesFit`, that leases
  exclude each other and what the server uses, and that what is set again when a lease
  ends is its own, without which its end could take a connector from a CRTC the server
  shows. `KernelAgrees` itself is not inductive: the first block handler calls
  `fbdev_set_desired_modes`, whose failure nobody looks at and which passes over CRTCs. So in
  the phases before it every CRTC is already as it should be (`AllSafe`: shown, or off, and with the
  mode it shall have), and what the handler does to a CRTC keeps that, or marks it `unsure`.
* One lemma for each function says how it can end, what it leaves alone, and which claims about which
  CRTCs it keeps: `ModeSetCases` and `ModeSetFacts` for `set_mode_major` with its undo,
  `DisableUnusedFacts`, `ValidateLeasesFacts`, `SetOneTurn`, `OnFacts`, `DownFacts`. A mode set
  may take connectors from another CRTC. `LitFacts` shows that the kernel and the records
  leave that CRTC the same ones, and that it is dark only when none is left to it on
  record; a set that fails gives the records back and has taken nothing, or the CRTCs it has
  taken from are `unsure` (`Vouched`).
* `LesseeKeepsPictureCorrect` goes through the same functions with another question: a CRTC
  that shows the whole of a living lease keeps it (`KeepsPicture`). A mode set takes only the
  connectors the server has routed, and by `IInv` none of these is leased (`MayDriveFacts`); power
  saving and `xf86DisableUnusedFunctions` pass over what is leased; the end of one lease sets
  again only what was its own. There is one lemma per action, ending in `NextKeeps`.
* The loops over CRTCs and outputs have an invariant each, one set of statuses per step
  (`EachReaches`). That a loop keeps it is shown without an induction theorem, from the
  least step that would not (`Least`, by the library's `NatLessThanWellFounded` and `WFMin`);
  that the recursive function in `Each` exists is shown in the same way (`LoopExists`).

The proofs use the named assumptions of the modules on their constants (finite and
disjoint sets of windows, BOs and screens; sizes and bounds that are numbers), which TLC
evaluates in every run. `NoCallAssumption` of `BlitChain` says that the value for "no call"
is not a call.

Every safety invariant, every action property and the refinement that the passing runs check
is a theorem, for every value of the constants that the named assumptions admit (and, for
`FrameParity`, with `ClientsWriteFront = FALSE`, as in its run). Only model-checked is the liveness of the tuner
(`CallsReturn`), which is out of the prover's reach; it is checked under weak fairness of the hook's
own steps, which a single-threaded server gives. A run that ends in a violation needs no
proof: its counterexample is one.

## 5. Plan

Done: `WindowTree`, `BufferInfo`, `MaliDRI2` (1), `DrmMaster`, `BackingStoreTuner`,
`DispLayer`, `XvOverlay`, `BlitChain` (2), `PixmapBo` over `SharedBo` (3), `LcdModes` (4),
`ScreenLife` and `Acceleration` (5), with the proofs of section 4.

Left:

1. An abstract FIFO of frames that the ring queue and the swap implement, as a
   refinement, in the region where the ring does not overflow.
2. Pixmap migration under UMP together with the overlay of `MaliDRI2`: the two share
   `BOInfoRec`s but are modelled on separate state.

Not modelled, and why:

* `fbdev_vc4.c`: single ioctls around tables of constants.
* Probing, options, visuals, color maps, video modes of fbdev, shadow and DGA in `fbdev.c`:
  they keep no state that a later call relies on, beyond the choice of a configuration,
  which `ScreenLife` and `PixmapBo` leave open.
* Cursor images and palettes (`sunxi_disp_hwcursor.c`, `LoadCursorARGB`): a computation
  without state; the calls into DRI2 are in `MaliDRI2`.
* The decision in `FBTurboMaliDRI2_Init` whether the overlay can be used: it is a constant
  of `MaliDRI2`.
* `xPutImage` and the other operations of `sunxi_x_g2d.c` that only go to fb; the refusals
  of the null EXA driver.
* `arm_asm.S` (straight-line copying, a copy in address order to the model), `uthash.h`
  (third party), `compat-api.h`, logging, and the demo programs under `test/`.
