------------------------------ MODULE PixmapBo ------------------------------
(***************************************************************************)
(* The memory of pixmaps and of the DRI2 buffers made of them: BOInfo      *)
(* records that pixmaps, DRI2 buffers and window states share, and the     *)
(* buffer objects of the backend behind them (fbdev_bo_dumb.c over         *)
(* armsoc_dumb.c, or fbdev_bo_ump.c).                                      *)
(*                                                                         *)
(* With dumb buffers the server runs EXA, which asks the driver for the    *)
(* memory of every pixmap; with UMP a pixmap has memory of its own until   *)
(* DRI2 wants it, when it is migrated.                                     *)
(***************************************************************************)
EXTENDS Integers, FiniteSets

CONSTANTS
  Pixmaps,        \* pixmaps of clients and of redirected windows
  Screen,         \* the screen pixmap
  Scratch,        \* the pixmap header the server keeps for temporary use
  Windows, Buffers,
  Infos, NoInfo,  \* BOInfoRecs
  NullBuffer,     \* a DRI2 buffer without memory
  Scanout,        \* fPtr->scanout
  Invalid,        \* FBTURBO_BO_INVALID_HANDLE
  MaxRefs,        \* bound on the references to one pixmap
  Outcomes        \* what an action's calls to the kernel can end in

AllPixmaps == Pixmaps \cup {Screen, Scratch}

\* The records of the screen and the scratch pixmap have their names, and the BO
\* a record allocates has the record's.
Records == Infos \cup {Screen, Scratch}
Handles == Records \cup {Scanout}

\* No dumb buffer is left; drmModeAddFB fails; no dma_buf; the first one, two, or
\* all mmap()s of an action fail.
AllOutcomes == {"works", "no_bo", "no_fb", "no_dmabuf", "no_map_1", "no_map_2", "no_map"}

ASSUME PixmapBoAssumption ==
  /\ Screen # Scratch /\ {Screen, Scratch} \cap Pixmaps = {}
  /\ IsFiniteSet(Pixmaps) /\ IsFiniteSet(Windows) /\ IsFiniteSet(Buffers)
  /\ Windows \cap Buffers = {} /\ AllPixmaps \cap (Windows \cup Buffers) = {}
  /\ Scanout \notin AllPixmaps \cup Windows \cup Buffers
  /\ {NoInfo, NullBuffer, Scanout} \cap Records = {}
  /\ NoInfo # NullBuffer /\ Scanout \notin {NoInfo, NullBuffer}
  /\ {Screen, Scratch} \cap Infos = {} /\ Invalid \notin Handles
  /\ MaxRefs \in Nat \ {0}
  /\ "works" \in Outcomes /\ Outcomes \subseteq AllOutcomes

VARIABLES
  server,  \* phase; useDumb, which is also fPtr->UseEXA
  pix,     \* PixmapRec: refcnt, driver private, where the pixels are
  win,     \* windows: pixmap; and bo_mem_ptr of DRI2WindowStateRec
  buf,     \* DRI2 buffers: driverPrivate
  info,    \* BOInfoRec: refcount, handle, whether there is an addr
  bo       \* the backend's buffer objects

vars == <<server, pix, win, buf, info, bo>>

NoPixmap == [refcnt |-> 0, info |-> NoInfo, ptr |-> "null"]
NoBO == [refcnt |-> 0, accel |-> FALSE, mapped |-> FALSE, ext |-> 0,
         dmabuf |-> FALSE, fb |-> FALSE]
Released == [refcount |-> 0, handle |-> Invalid, addr |-> FALSE]

TypeOK ==
  /\ server \in [phase : {"screen_init", "resources", "running", "dead"}, useDumb : BOOLEAN]
  /\ pix \in [AllPixmaps -> [refcnt : 0 .. MaxRefs, info : Records \cup {NoInfo},
                             ptr : {"null", "own", "bo"}]]
  /\ win \in [Windows -> [pixmap : AllPixmaps, mem : Infos \cup {NoInfo}]]
  /\ buf \in [Buffers -> Records \cup {NoInfo, NullBuffer}]
  /\ info \in [Records -> [refcount : Nat, handle : Handles \cup {Invalid}, addr : BOOLEAN]]
  /\ bo \in [Handles -> [refcnt : Nat, accel : BOOLEAN, mapped : BOOLEAN, ext : {0, 1},
                         dmabuf : BOOLEAN, fb : BOOLEAN]]

NothingYet ==
  [pix |-> [p \in AllPixmaps |-> NoPixmap],
   win |-> [w \in Windows |-> [pixmap |-> Screen, mem |-> NoInfo]],
   buf |-> [x \in Buffers |-> NoInfo],
   info |-> [i \in Records |-> Released],
   bo |-> [h \in Handles |-> NoBO]]

Init ==
  /\ server \in [phase : {"screen_init"}, useDumb : BOOLEAN]
  /\ pix = NothingYet.pix /\ win = NothingYet.win /\ buf = NothingYet.buf
  /\ info = NothingYet.info /\ bo = NothingYet.bo

-----------------------------------------------------------------------------
(***************************************************************************)
(* The backend, on a status r with the variables' names as fields.         *)
(***************************************************************************)
Status == [server |-> server, pix |-> pix, win |-> win, buf |-> buf, info |-> info, bo |-> bo]

\* An assert fails, or the server uses a NULL pointer.
Die(r) == [r EXCEPT !.server.phase = "dead"]

\* The memory of a server that died is gone with it.
Become(r) ==
  LET left == IF r.server.phase = "dead" THEN NothingYet ELSE r
  IN /\ server' = r.server
     /\ pix' = left.pix /\ win' = left.win /\ buf' = left.buf
     /\ info' = left.info /\ bo' = left.bo

\* The k-th mmap() of an action.
Maps(outcome, k) ==
  k > (CASE outcome = "no_map_1" -> 1 [] outcome = "no_map_2" -> 2
         [] outcome = "no_map" -> 3 [] OTHER -> 0)

\* The memory of a handle used while it is not there.
Use(r, h, used) == IF r.bo[h].refcnt = 0 THEN Die(r) ELSE used

\* armsoc_bo_new_with_dim
ArmsocNew == [NoBO EXCEPT !.refcnt = 1, !.accel = TRUE]

\* armsoc_bo_map: the whole buffer is mapped once.
ArmsocMap(m, works) == [m EXCEPT !.mapped = @ \/ works]

\* armsoc_bo_set_dmabuf
SetDmabuf(m, outcome) == [m EXCEPT !.dmabuf = outcome # "no_dmabuf"]

\* armsoc_bo_del asserts that no dma_buf is left.
ArmsocDel(r, h) == IF r.bo[h].dmabuf THEN Die(r) ELSE [r EXCEPT !.bo[h] = NoBO]

\* armsoc_bo_unreference
ArmsocUnreference(r, h) ==
  IF r.bo[h].refcnt = 1 THEN ArmsocDel(r, h) ELSE [r EXCEPT !.bo[h].refcnt = @ - 1]

\* armsoc_bo_reference
ArmsocReference(r, h) == [r EXCEPT !.bo[h].refcnt = @ + 1]

\* armsoc_bo_add_fb asserts that there is none.
ArmsocAddFB(r, h, outcome) ==
  IF r.bo[h].fb THEN Die(r) ELSE [r EXCEPT !.bo[h].fb = outcome # "no_fb"]

\* "For pixmaps that are scanout or backing for windows, we accelerate them".
IsAccel(usage) == usage \in {"backing", "scanout"}

\* dumb_bo_new returns a handle that has no armsoc_bo if none could be allocated,
\* and the next call uses that NULL.
DumbNew(r, h, usage, outcome) ==
  CASE IsAccel(usage) /\ outcome = "no_bo" -> Die(r)
    [] IsAccel(usage) /\ outcome # "no_bo" -> [r EXCEPT !.bo[h] = ArmsocNew]
    [] OTHER -> [r EXCEPT !.bo[h] = [NoBO EXCEPT !.refcnt = 1]]

\* ump_bo_new, too, returns a handle when there was no memory.
UmpNew(r, h, outcome) ==
  IF outcome = "no_bo" THEN Die(r) ELSE [r EXCEPT !.bo[h] = [NoBO EXCEPT !.refcnt = 1]]

BoNew(r, h, usage, outcome) ==
  IF r.server.useDumb THEN DumbNew(r, h, usage, outcome) ELSE UmpNew(r, h, outcome)

\* A map while the hardware uses the BO gets a dma_buf to wait for it.
BoMap(r, h, works, outcome) ==
  LET m == ArmsocMap(r.bo[h], works)
      synced == IF m.ext > 0 /\ ~m.dmabuf THEN SetDmabuf(m, outcome) ELSE m
  IN Use(r, h, IF r.bo[h].accel THEN [r EXCEPT !.bo[h] = synced] ELSE [r EXCEPT !.bo[h].mapped = TRUE])

BoUnmap(r, h) == Use(r, h, r)

BoHold(r, h) == Use(r, h, ArmsocReference(r, h))

BoRelease(r, h) ==
  Use(r, h, IF r.bo[h].accel THEN ArmsocUnreference(r, h) ELSE [r EXCEPT !.bo[h] = NoBO])

\* ARMSOCRegisterExternalAccess
RegisterExternalAccess(r, h) == [r EXCEPT !.bo[h].ext = @ + 1]

\* ARMSOCDeregisterExternalAccess: a dma_buf is closed with the last access.
DeregisterExternalAccess(r, h) ==
  IF r.bo[h].ext = 0 THEN Die(r)
  ELSE [r EXCEPT !.bo[h].ext = @ - 1, !.bo[h].dmabuf = @ /\ r.bo[h].ext > 1]

\* Mutated form: the access of the hardware does not end.
NeverDeregister(r, h, bCPU) ==
  IF r.bo[h].accel /\ ~bCPU THEN RegisterExternalAccess(r, h) ELSE r

\* Only dumb buffers keep count; ump_bo_switch_hw_usage returns early for a BO
\* that has memory.
SwitchHwUsage(r, h, bCPU) ==
  CASE ~r.bo[h].accel -> r
    [] r.bo[h].accel /\ bCPU -> DeregisterExternalAccess(r, h)
    [] r.bo[h].accel /\ ~bCPU -> RegisterExternalAccess(r, h)

AddFB(r, h, outcome) == IF r.bo[h].accel THEN ArmsocAddFB(r, h, outcome) ELSE r

-----------------------------------------------------------------------------
(***************************************************************************)
(* BOInfoRec.                                                              *)
(***************************************************************************)
FreeInfos(r) == {i \in Infos : r.info[i].refcount = 0}

\* unmap, release, free(handle)
DropHandle(r, i) ==
  LET h == r.info[i].handle
  IN IF h = Invalid THEN r
     ELSE [BoRelease(BoUnmap(r, h), h) EXCEPT !.info[i].handle = Invalid, !.info[i].addr = FALSE]

\* Mutated form: a swapped test, and the last reference keeps the BO.
UnrefOneLate(r, i) ==
  IF r.info[i].refcount < 1 THEN [DropHandle(r, i) EXCEPT !.info[i] = Released]
  ELSE [r EXCEPT !.info[i].refcount = @ - 1]

\* unref_bo_info
Unref(r, i) ==
  IF r.info[i].refcount <= 1 THEN [DropHandle(r, i) EXCEPT !.info[i] = Released]
  ELSE [r EXCEPT !.info[i].refcount = @ - 1]

UnrefMem(r, w) ==
  IF r.win[w].mem = NoInfo THEN r
  ELSE [Unref(r, r.win[w].mem) EXCEPT !.win[w].mem = NoInfo]

HasAddr(r, i) == r.bo[i].mapped

\* A buffer for record i: new, get_pitch, map.
Allocate(r, i, usage, works, outcome) ==
  LET made == BoMap(BoNew(r, i, usage, outcome), i, works, outcome)
  IN [made EXCEPT !.info[i].handle = i, !.info[i].addr = HasAddr(made, i)]

\* FBTurboCreatePixmap2.  An empty pixmap has no BO.
CreatePixmap2(r, i, usage, empty, outcome) ==
  LET fresh == [r EXCEPT !.info[i] = [Released EXCEPT !.refcount = 1]]
  IN IF empty THEN fresh ELSE Allocate(fresh, i, usage, Maps(outcome, 1), outcome)

\* "Someone is messing with the memory allocation. Let's step out of the picture."
StepOut(r, i) == DropHandle(r, i)

\* "Replacing the pixmap's current bo with the scanout bo"
TakeScanout(r, i) ==
  LET old == r.info[i].handle
      held == [BoHold(r, Scanout) EXCEPT !.info[i].handle = Scanout, !.info[i].addr = TRUE]
  IN IF old = Invalid THEN held ELSE BoRelease([held EXCEPT !.bo[old].dmabuf = FALSE], old)

\* FBTurboModifyPixmapHeader: data is what pPixData points at.  A buffer without
\* addr is allocated again.  With the sizes the server passes, the rest is left
\* as it is.
ModifyPixmapHeader(r, i, usage, empty, data, outcome) ==
  CASE data = "foreign" -> StepOut(r, i)
    [] data = "scanout" /\ r.info[i].handle # Scanout -> TakeScanout(r, i)
    [] data = "none" /\ ~empty /\ ~r.info[i].addr ->
         Allocate(DropHandle(r, i), i, usage, Maps(outcome, 2), outcome)
    [] OTHER -> r

\* exaCreatePixmap of the server, around the two calls of the driver.
ExaCreatePixmap(r, i, usage, outcome) ==
  ModifyPixmapHeader(CreatePixmap2(r, i, usage, FALSE, outcome), i, usage, FALSE, "none", outcome)

-----------------------------------------------------------------------------
(***************************************************************************)
(* The screen.                                                             *)
(***************************************************************************)
\* The scanout buffer is allocated and mapped; without the memory, ScreenInit fails.
ScreenInit ==
  \E outcome \in Outcomes \cap {"works", "no_bo", "no_map"} :
    LET r == BoMap(BoNew(Status, Scanout, "scanout", outcome), Scanout, Maps(outcome, 1), outcome)
    IN /\ server.phase = "screen_init"
       /\ CASE ~server.useDumb -> Become([Status EXCEPT !.server.phase = "resources"])
            [] server.useDumb /\ r.server.phase # "dead" /\ r.bo[Scanout].mapped ->
                 Become([r EXCEPT !.server.phase = "resources"])
            [] OTHER -> Become(Die(r))

\* The server creates an empty pixmap and points it at the scanout buffer; then
\* FBDevCreateScreenResources adjusts it without new data.
CreateScreenResources ==
  LET r1 == CreatePixmap2(Status, Screen, "plain", TRUE, "works")
      r2 == ModifyPixmapHeader(r1, Screen, "plain", FALSE, "scanout", "works")
      r3 == ModifyPixmapHeader(r2, Screen, "plain", FALSE, "none", "works")
      r == IF server.useDumb THEN [r3 EXCEPT !.pix[Screen].info = Screen]
           ELSE [Status EXCEPT !.pix[Screen].ptr = "own"]
  IN /\ server.phase = "resources"
     /\ Become([r EXCEPT !.server.phase = "running", !.pix[Screen].refcnt = 1])

-----------------------------------------------------------------------------
(***************************************************************************)
(* Pixmaps.                                                                *)
(***************************************************************************)
CreatePixmap(p, usage) ==
  \E outcome \in Outcomes \ {"no_fb", "no_dmabuf"}, i \in FreeInfos(Status) :
    /\ server.phase = "running"
    /\ p \in Pixmaps /\ pix[p].refcnt = 0
    /\ Become(IF server.useDumb
              THEN [ExaCreatePixmap(Status, i, usage, outcome)
                      EXCEPT !.pix[p] = [NoPixmap EXCEPT !.refcnt = 1, !.info = i]]
              ELSE [Status EXCEPT !.pix[p] = [NoPixmap EXCEPT !.refcnt = 1, !.ptr = "own"]])

\* A GC or a window uses the pixmap too.
UsePixmap(p) ==
  /\ server.phase = "running"
  /\ p \in Pixmaps /\ pix[p].refcnt \in 1 .. MaxRefs - 1
  /\ Become([Status EXCEPT !.pix[p].refcnt = @ + 1])

DropReference(r, p) ==
  IF r.pix[p].refcnt = 1 THEN [r EXCEPT !.pix[p] = NoPixmap]
  ELSE [r EXCEPT !.pix[p].refcnt = @ - 1]

\* FBTurboDestroyPixmap, which EXA calls for the last reference.
ExaDestroyPixmap(r, p) ==
  LET i == r.pix[p].info
  IN IF r.pix[p].refcnt = 1 /\ i # NoInfo /\ r.info[i].handle # Scanout THEN Unref(r, i) ELSE r

\* Mutated form: the BO is left to the DRI2 buffers.
DestroyKeepsBo(r, p) == [r EXCEPT !.pix[p].info = NoInfo, !.pix[p].ptr = "own"]

\* Mutated form: the pixmap is not taken back.
HookForgetsPixmap(r, p) == IF r.pix[p].info = NoInfo THEN r ELSE Unref(r, r.pix[p].info)

\* The hook of FBTurboMaliDRI2 takes the pixmap back to its own memory, whatever
\* the number of references.  It is only there under UMP, where no record has the
\* handle of the scanout buffer, so the test for it is left out.
HookDestroyPixmap(r, p) ==
  IF r.pix[p].info = NoInfo THEN r
  ELSE [Unref(r, r.pix[p].info) EXCEPT !.pix[p].info = NoInfo, !.pix[p].ptr = "own"]

Destroyed(r, p) ==
  DropReference(IF r.server.useDumb THEN ExaDestroyPixmap(r, p) ELSE HookDestroyPixmap(r, p), p)

DestroyPixmap(p) ==
  /\ server.phase = "running"
  /\ p \in Pixmaps /\ pix[p].refcnt > 0
  /\ pix[p].refcnt = 1 => \A w \in Windows : win[w].pixmap # p
  /\ Become(Destroyed(Status, p))

\* GetScratchPixmapHeader: the header is created once, and pointed at new data.
ScratchHeader(r) ==
  LET have == r.pix[Scratch].refcnt = 1
      made == IF have THEN r
              ELSE [CreatePixmap2(r, Scratch, "plain", TRUE, "works")
                      EXCEPT !.pix[Scratch] = [NoPixmap EXCEPT !.refcnt = 1, !.info = Scratch]]
  IN IF r.server.useDumb
     THEN ModifyPixmapHeader(made, Scratch, "plain", FALSE, "foreign", "works")
     ELSE r

\* PrepareAccess and FinishAccess of EXA, around what the server draws.
AccessPixmap(p) ==
  \E outcome \in Outcomes \cap {"works", "no_dmabuf"} :
    LET h == info[pix[p].info].handle
    IN /\ server.phase = "running" /\ server.useDumb
       /\ pix[p].refcnt > 0
       /\ h # Invalid /\ info[pix[p].info].addr
       /\ Become(BoUnmap(BoMap(Status, h, TRUE, outcome), h))

\* Composite gives a window a pixmap of its own, and takes it back.
RedirectWindow(w, p) ==
  \E outcome \in Outcomes \ {"no_fb", "no_dmabuf"}, i \in FreeInfos(Status) :
    /\ server.phase = "running" /\ server.useDumb
    /\ win[w].pixmap = Screen /\ p \in Pixmaps /\ pix[p].refcnt = 0
    /\ Become([ExaCreatePixmap(Status, i, "backing", outcome) EXCEPT
                 !.win[w].pixmap = p, !.pix[p] = [NoPixmap EXCEPT !.refcnt = 1, !.info = i]])

UnredirectWindow(w) ==
  /\ server.phase = "running"
  /\ win[w].pixmap # Screen
  /\ Become(Destroyed([Status EXCEPT !.win[w].pixmap = Screen], win[w].pixmap))

-----------------------------------------------------------------------------
(***************************************************************************)
(* DRI2 buffers.                                                           *)
(***************************************************************************)
\* The pixels of a pixmap move to a BO; a record that lost its BO has no addr to
\* copy them to.
MigratePixmapToBO(r, p, i, outcome) ==
  LET have == r.pix[p].info
      created == CreatePixmap2(r, i, "plain", FALSE, outcome)
  IN IF have = NoInfo THEN [created EXCEPT !.pix[p].info = i, !.pix[p].ptr = "bo"]
     ELSE IF r.info[have].handle = Invalid THEN Die(r)
     ELSE r

\* MaliDRI2CreateBuffer2 for a pixmap, which can be the one of a window with EXA;
\* the reference taken for a front buffer is never dropped.
CreatePixmapBuffer(x, p, front) ==
  \E outcome \in Outcomes \cap {"works", "no_bo"}, i \in FreeInfos(Status) :
    LET held == [Status EXCEPT !.pix[p].refcnt = IF front THEN @ + 1 ELSE @]
        made == MigratePixmapToBO(held, p, i, outcome)
    IN /\ server.phase = "running"
       /\ buf[x] = NoInfo
       /\ p # Scratch /\ pix[p].refcnt > 0
       /\ front => server.useDumb /\ pix[p].refcnt < MaxRefs
       /\ ~front => p # Screen
       /\ Become([made EXCEPT !.info[made.pix[p].info].refcount = @ + 1,
                              !.buf[x] = made.pix[p].info])

\* A back buffer of a window.  The window has any size at any request, which
\* decides between the three ways to make one (see NeedResizeWorkaround and
\* ReuseMemBuffer of MaliDRI2).
MayRequest(x) == server.phase = "running" /\ server.useDumb /\ buf[x] = NoInfo

\* The first requests after a resize (need_window_resize_bug_workaround); with dumb
\* buffers there is no BO of the null secure id.  Other attachments than the back
\* buffer get such a buffer, too, which leaves the window's BO alone; that request
\* is left out.
CreateNullBuffer(x, w) ==
  /\ MayRequest(x)
  /\ Become([UnrefMem(Status, w) EXCEPT !.buf[x] = NullBuffer])

\* "Reuse the existing BO if we can"
ReuseMemBuffer(x, w) ==
  LET i == win[w].mem
  IN /\ MayRequest(x)
     /\ i # NoInfo
     /\ Become([Status EXCEPT !.info[i].refcount = @ + 1, !.buf[x] = i])

\* Mutated form: the window state does not count.
MemNotCounted(r, i) == r

MemCounted(r, i) == [r EXCEPT !.info[i].refcount = @ + 1]

\* Mutated form: the hardware is not registered.
NotHandedOver(r, i) == r

HandedToHW(r, i) == SwitchHwUsage(r, i, FALSE)

\* The pixmap of createpix() is only a way to its BO.  The buffer takes the
\* pixmap's reference, and the pixmap itself is forgotten.  prepare_flip adds a
\* framebuffer if the window can flip.
AllocMemBuffer(x, w) ==
  \E outcome \in Outcomes, canflip \in BOOLEAN, i \in FreeInfos(Status) :
    LET r1 == ExaCreatePixmap(Status, i, IF canflip THEN "scanout" ELSE "backing", outcome)
        r2 == HandedToHW(r1, i)
        r3 == IF r2.info[i].addr THEN r2
              ELSE LET m == BoMap(r2, i, Maps(outcome, 3), outcome)
                   IN [m EXCEPT !.info[i].addr = m.bo[i].mapped]
        r4 == MemCounted([UnrefMem(r3, w) EXCEPT !.win[w].mem = i], i)
        r5 == IF canflip THEN AddFB(r4, i, outcome) ELSE r4
    IN /\ MayRequest(x)
       /\ Become([r5 EXCEPT !.buf[x] = i])

DestroyBuffer(x) ==
  /\ server.phase = "running"
  /\ buf[x] # NoInfo
  /\ Become([IF buf[x] = NullBuffer THEN Status ELSE Unref(Status, buf[x]) EXCEPT !.buf[x] = NoInfo])

\* MaliDRI2CopyRegion2 without an overlay copies from the window's BO.
CopyRegion(w) ==
  LET h == info[win[w].mem].handle
      copied == ScratchHeader(SwitchHwUsage(Status, h, TRUE))
  IN /\ server.phase = "running" /\ server.useDumb
     /\ win[w].mem # NoInfo /\ info[win[w].mem].addr
     /\ Become(SwitchHwUsage(copied, h, FALSE))

DestroyWindow(w) ==
  /\ server.phase = "running" /\ win[w].pixmap = Screen
  /\ Become(UnrefMem(Status, w))

Next ==
  \/ ScreenInit \/ CreateScreenResources
  \/ \E p \in Pixmaps, usage \in {"plain", "backing"} : CreatePixmap(p, usage)
  \/ \E p \in Pixmaps : UsePixmap(p) \/ DestroyPixmap(p)
  \/ \E p \in Pixmaps \cup {Screen} : AccessPixmap(p)
  \/ \E w \in Windows, p \in Pixmaps : RedirectWindow(w, p)
  \/ \E w \in Windows : UnredirectWindow(w) \/ CopyRegion(w) \/ DestroyWindow(w)
  \/ \E x \in Buffers, p \in Pixmaps \cup {Screen}, front \in BOOLEAN :
       CreatePixmapBuffer(x, p, front)
  \/ \E x \in Buffers, w \in Windows :
       CreateNullBuffer(x, w) \/ ReuseMemBuffer(x, w) \/ AllocMemBuffer(x, w)
  \/ \E x \in Buffers : DestroyBuffer(x)

Spec == Init /\ [][Next]_vars

-----------------------------------------------------------------------------
(***************************************************************************)
(* What must hold.                                                         *)
(***************************************************************************)
Holders(i) ==
  {p \in AllPixmaps : pix[p].refcnt > 0 /\ pix[p].info = i}
    \cup {x \in Buffers : buf[x] = i} \cup {w \in Windows : win[w].mem = i}

\* Every BOInfo has exactly the references counted that pixmaps, DRI2 buffers and
\* windows have to it, although five functions raise the count and a reference of
\* a pixmap becomes one of a buffer: nothing is released too early or kept.
RefcountIsExact ==
  server.phase = "running" => \A i \in Records : info[i].refcount = Cardinality(Holders(i))

\* The BO of every record that has one exists, is nobody else's unless it is the
\* scanout buffer, and every BO that exists belongs to a record that is held.
MemoryIsOwned ==
  server.phase = "running" =>
    /\ \A i \in Records : info[i].handle \in {Invalid, i, Scanout}
    /\ \A i \in Records : bo[i].refcnt = (IF info[i].handle = i /\ info[i].refcount > 0 THEN 1 ELSE 0)
    /\ server.useDumb =>
         bo[Scanout].refcnt = 1 + Cardinality({i \in Records : info[i].handle = Scanout})

\* Before it reads the BO of a window, a swap ends an access of the hardware to it,
\* however many buffers share the BO and whatever was swapped before, and
\* ARMSOCDeregisterExternalAccess asserts that one was registered.  A dma_buf is
\* cleared with the last access, so there is none without an access to end.
AccessCanEnd ==
  server.phase = "running" =>
    \A h \in Handles : bo[h].refcnt > 0 =>
      /\ \A w \in Windows : win[w].mem = h => bo[h].ext > 0
      /\ bo[h].dmabuf => bo[h].ext > 0

\* The pixels of a live pixmap are in memory that exists: its own, or a BO its
\* record still holds, also when the DRI2 buffers for it are gone, or were made
\* after the pixmap had been taken back to its own memory.
PixelsExist ==
  server.phase = "running" =>
    \A p \in Pixmaps : pix[p].refcnt > 0 =>
      /\ pix[p].ptr = "own" => ~server.useDumb
      /\ pix[p].info = NoInfo => pix[p].ptr = "own"
      /\ pix[p].info # NoInfo => bo[pix[p].info].refcnt = 1

\* Who uses a BO: pixmaps, windows, DRI2 buffers, and fPtr->scanout.
InfoOf(u) == CASE u \in AllPixmaps -> pix[u].info [] u \in Windows -> win[u].mem [] OTHER -> buf[u]

ObjectOf(u) ==
  IF u = Scanout THEN IF bo[Scanout].refcnt > 0 THEN Scanout ELSE Invalid
  ELSE IF InfoOf(u) \in Records THEN info[InfoOf(u)].handle ELSE Invalid

Shared == INSTANCE SharedBo WITH
  Users <- AllPixmaps \cup Windows \cup Buffers \cup {Scanout}, Objects <- Handles, None <- Invalid,
  object <- [u \in AllPixmaps \cup Windows \cup Buffers \cup {Scanout} |-> ObjectOf(u)],
  live <- {h \in Handles : bo[h].refcnt > 0}

\* Every step of the driver is one of SharedBo: a BO is allocated for one user or
\* for the two that share it, and freed in the very step its last user leaves it,
\* although a user's record, the record's count and the BO's count all have to
\* agree for that.
ImplementsSharedBo == Shared!Spec
=============================================================================
