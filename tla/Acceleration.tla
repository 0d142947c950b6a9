---------------------------- MODULE Acceleration ----------------------------
(***************************************************************************)
(* Where the 2D backend of BlitChain comes from.  ScreenInit opens the     *)
(* display engine of sunxi (sunxi_disp_init) or, failing that, tries the   *)
(* copyarea ioctl of the framebuffer (fb_copyarea_init), and chooses; any  *)
(* of the calls it makes may fail, and what was opened before has to be    *)
(* given back.  CloseScreen gives back the rest, and the next server       *)
(* generation opens everything again.                                      *)
(***************************************************************************)
EXTENDS BlitChain, Sequences

CONSTANT MaxOpen  \* bound on what the server has open of a kind

ASSUME AccelerationAssumption == MaxOpen \in Nat \ {0}

VARIABLES
  fbmem,   \* the server has mapped the framebuffer (fPtr->fbmem # NULL)
  screen,  \* is the screen up; what its sunxi_disp_t and fb_copyarea_t hold, and
           \* the backend of SunxiG2D_private
  opened   \* the kernel's side: how many of each kind are open

accelVars == <<vars, fbmem, screen, opened>>

Descriptors == {"/dev/disp", "/dev/fb0", "/dev/g2d", "copyarea"}
Kinds == Descriptors \cup {"mapping", "layer"}

AccelTypeOK ==
  /\ TypeOK
  /\ fbmem \in BOOLEAN
  /\ screen \in [up : BOOLEAN, sunxi_disp : SUBSET Kinds, fb_copyarea : SUBSET Kinds,
                 backend : {"none", "g2d", "copyarea", "cpu"}]
  /\ opened \in [Kinds -> 0 .. MaxOpen]

Down == [up |-> FALSE, sunxi_disp |-> {}, fb_copyarea |-> {}, backend |-> "none"]

AccelInit ==
  /\ Init
  /\ fbmem \in BOOLEAN
  /\ screen = Down
  /\ opened = [k \in Kinds |-> 0]

Opening(n, ks) == [k \in Kinds |-> IF k \in ks THEN n[k] + 1 ELSE n[k]]
Closing(n, ks) == [k \in Kinds |-> IF k \in ks THEN n[k] - 1 ELSE n[k]]

-----------------------------------------------------------------------------
(***************************************************************************)
(* The Init functions.  A result has what the structure holds ({} for      *)
(* NULL) and what remains open.  fault is the first call that fails, or    *)
(* "none"; calls that open nothing are taken together.                     *)
(***************************************************************************)
SunxiCalls == <<"device", "/dev/disp", "version", "/dev/fb0", "info", "mapping",
                "layer_hdl", "layer", "set_para", "none">>

CopyareaCalls == <<"copyarea", "dummy", "info", "none">>

\* What the calls before the first fault have opened.
OpenedBefore(calls, fault) ==
  Kinds \cap {calls[i] : i \in {j \in DOMAIN calls : \A k \in 1 .. j : calls[k] # fault}}

\* Mutated form: the framebuffer device is not closed.
StillOpenDisp(ks) == ks \ {"/dev/disp", "copyarea"}

\* The error paths close the descriptors; the mapping and the layer are left.
StillOpen(ks) == ks \ Descriptors

\* The mapping of the server is used if there is one.  /dev/g2d need not open.
SunxiDispInit(fault, g2d) ==
  LET ks == OpenedBefore(SunxiCalls, fault) \ (IF fbmem THEN {"mapping"} ELSE {})
      holds == IF g2d THEN ks \cup {"/dev/g2d"} ELSE ks
  IN IF fault = "none" THEN [holds |-> holds, open |-> holds]
     ELSE [holds |-> {}, open |-> StillOpen(ks)]

FbCopyareaInit(fault) ==
  LET ks == OpenedBefore(CopyareaCalls, fault) IN
  IF fault = "none" THEN [holds |-> ks, open |-> ks]
  ELSE [holds |-> {}, open |-> StillOpen(ks)]

NotTried == [holds |-> {}, open |-> {}]

-----------------------------------------------------------------------------
\* Mutated form: that there is a display engine is taken for a G2D.
ChosenWithoutG2d(sunxi, copyarea, method, vfp) ==
  CASE method \in {"unset", "g2d"} /\ sunxi # {} -> "g2d"
    [] (method = "copyarea" \/ (method = "unset" /\ sunxi = {})) /\ copyarea # {} -> "copyarea"
    [] OTHER -> IF fbmem /\ vfp THEN "cpu" ELSE "none"

\* The first backend that is there and that the option AccelMethod allows.
Chosen(sunxi, copyarea, method, vfp) ==
  LET g2d == method \in {"unset", "g2d"} /\ "/dev/g2d" \in sunxi
      area == method \in {"unset", "copyarea"} /\ copyarea # {}
  IN CASE g2d -> "g2d"
       [] ~g2d /\ area -> "copyarea"
       [] ~g2d /\ ~area /\ fbmem /\ vfp -> "cpu"
       [] OTHER -> "none"

\* The part of FBDevScreenInit about the 2D backend.
ScreenInit ==
  /\ ~screen.up
  /\ \E fault \in {SunxiCalls[i] : i \in DOMAIN SunxiCalls}, g2d, vfp \in BOOLEAN,
        fault2 \in {CopyareaCalls[i] : i \in DOMAIN CopyareaCalls},
        method \in {"unset", "g2d", "copyarea", "other"} :
       LET sunxi == SunxiDispInit(fault, g2d)
           area == IF sunxi.holds = {} /\ fbmem THEN FbCopyareaInit(fault2) ELSE NotTried
           backend == Chosen(sunxi.holds, area.holds, method, vfp)
       IN /\ screen' = [up |-> TRUE, sunxi_disp |-> sunxi.holds,
                        fb_copyarea |-> area.holds, backend |-> backend]
          /\ opened' = Opening(opened, sunxi.open \cup area.open)
          /\ driver' \in IF backend = "none" THEN {driver}
                         ELSE {d \in Drivers : d.backend = backend /\ d.bpp = driver.bpp}
  /\ \A k \in Kinds : opened'[k] <= MaxOpen
  /\ UNCHANGED <<call, at, part, scan, image, torn, fbmem>>

\* sunxi_disp_close and fb_copyarea_close give back what the structure holds.
CloseScreen ==
  /\ screen.up /\ at = "idle"
  /\ screen' = Down
  /\ opened' = Closing(opened, screen.sunxi_disp \cup screen.fb_copyarea)
  /\ UNCHANGED <<vars, fbmem>>

\* The copies BlitChain makes, if SunxiG2D_private is there to hook them.
Blit ==
  /\ screen.backend # "none"
  /\ Next
  /\ UNCHANGED <<fbmem, screen, opened>>

AccelNext == ScreenInit \/ CloseScreen \/ Blit

AccelSpec == AccelInit /\ [][AccelNext]_accelVars

-----------------------------------------------------------------------------
\* Whichever call of an Init function fails, and however many generations the
\* server goes through: every descriptor that is open belongs to the structure that
\* will close it, and is open once.
DescriptorsHaveOwner ==
  \A d \in Descriptors :
    opened[d] = IF d \in screen.sunxi_disp \cup screen.fb_copyarea THEN 1 ELSE 0

\* A copy goes to the backend that this generation has chosen, whose device is
\* open: blt2d_self, which SunxiG2D caches, is never one of an earlier generation
\* or of a device that did not open.
BackendIsOpen ==
  at # "idle" =>
    /\ driver.backend = screen.backend
    /\ driver.backend = "g2d" => {"/dev/disp", "/dev/g2d"} \subseteq screen.sunxi_disp
    /\ driver.backend = "copyarea" => "copyarea" \in screen.fb_copyarea
    /\ driver.backend # "g2d" => fbmem
=============================================================================
