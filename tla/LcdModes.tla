------------------------------ MODULE LcdModes ------------------------------
(***************************************************************************)
(* The CRTCs, outputs, modes and leases of one screen (fbdev_lcd.c): what  *)
(* the X server believes the display shows and what the kernel shows.      *)
(* A mode stands for a mode with its position and rotation.                *)
(*                                                                         *)
(* Between the server's start and its end the driver is called for mode    *)
(* sets of clients (RandR), for power saving, for leases, and at VT        *)
(* switches.  While the VT is away another program uses the display, and   *)
(* the holder of a lease uses its part of it at any time.                  *)
(***************************************************************************)
EXTENDS Integers, FiniteSets

CONSTANTS
  NumCrtcs,      \* CRTCs of the kernel; config->crtc[] has them in this order
  Outputs,       \* the connectors
  CompatOutput,  \* config->output[config->compat_output]
  Encoders,      \* per connector: the possible_crtcs of each of its encoders
  Modes, NoMode,
  Foreign,       \* the mode set by another program
  NumLessees,    \* leases there can be at a time; their lessee ids
  Outcomes       \* what the calls a mode set makes can end in

Crtcs == 1 .. NumCrtcs
NoCrtc == 0
Lessees == 1 .. NumLessees

\* add_fb fails; calloc() or xf86CrtcRotate() fails; drmModeSetCrtc() fails;
\* drmModeGetCrtc() fails or tells of another mode after it; drmModeListLessees()
\* fails.
AllOutcomes == {"works", "no_fb", "no_rotation", "refused", "not_read_back", "unlisted"}

ASSUME LcdModesAssumption ==
  /\ NumCrtcs \in Nat \ {0} /\ NumLessees \in Nat
  /\ IsFiniteSet(Outputs) /\ CompatOutput \in Outputs
  /\ Encoders \in [Outputs -> SUBSET SUBSET Crtcs]
  /\ Modes # {} /\ NoMode \notin Modes /\ Foreign \notin Modes \cup {NoMode}
  /\ "works" \in Outcomes /\ Outcomes \subseteq AllOutcomes

VARIABLES
  server,   \* phase of the server; known is FALSE for a driver without KMS
  output,   \* xf86OutputRec: crtc; exists is FALSE if it could not be set up
  crtc,     \* xf86CrtcRec: enabled, mode, desiredMode
  scanout,  \* fb_id of the scanout buffer: none without a buffer, 0, or added
  kernel,   \* per CRTC the mode and the connectors; DPMS; the live lessees
  lease,    \* the RandR leases, with what a CRTC showed when it was leased
  unsure,   \* history: CRTCs with a failure nobody was told in time
  asleep    \* history: CRTCs that are off to save power

vars == <<server, output, crtc, scanout, kernel, lease, unsure, asleep>>

Phases == {"screen_init", "resources", "first_block", "running", "away", "dead"}
Off == [mode |-> NoMode, routes |-> {}]
Shown == [mode : Modes \cup {NoMode, Foreign}, routes : SUBSET Outputs]
NoLease == [crtcs |-> {}, outputs |-> {}, was |-> [c \in Crtcs |-> Off]]

Servers == [phase : Phases, isDummy : BOOLEAN]
OutputRecs == [exists : BOOLEAN, crtc : Crtcs \cup {NoCrtc}]
CrtcRecs == [enabled : BOOLEAN, mode : Modes \cup {NoMode}, desiredMode : Modes \cup {NoMode}]
Scanouts == {"none", "no_fb", "fb"}
Kernels == [crtc : [Crtcs -> Shown], on : SUBSET Outputs, lessees : SUBSET Lessees]
Leases == [crtcs : SUBSET Crtcs, outputs : SUBSET Outputs, was : [Crtcs -> Shown]]

TypeOK ==
  /\ server \in Servers
  /\ output \in [Outputs -> OutputRecs]
  /\ \A o \in Outputs : output[o].crtc # NoCrtc /\ ~server.isDummy =>
       \A e \in Encoders[o] : output[o].crtc \in e
  /\ crtc \in [Crtcs -> CrtcRecs]
  /\ scanout \in Scanouts
  /\ kernel \in Kernels
  /\ lease \in [Lessees -> Leases]
  /\ unsure \in SUBSET Crtcs
  /\ asleep \in SUBSET Crtcs

-----------------------------------------------------------------------------
(***************************************************************************)
(* The setup.                                                              *)
(***************************************************************************)
CrtcsOf(isDummy) == IF isDummy THEN {1} ELSE Crtcs

\* Mutated form: one of the encoders is enough.
CrtcsOfAnyEncoder(o, isDummy) == IF isDummy THEN {1} ELSE UNION Encoders[o]

\* A CRTC can drive an output if all its encoders can be fed by it.
PossibleCrtcs(o, isDummy) ==
  IF isDummy THEN {1} ELSE {c \in Crtcs : \A e \in Encoders[o] : c \in e}

\* FBDEV_lcd_init, and the first configuration the server finds for it: a
\* connector whose data cannot be read has no output, the others are connected.
Init ==
  \E isDummy \in BOOLEAN, found \in SUBSET Outputs, fb \in {"none", "no_fb"},
     mode \in Modes, drives \in [Outputs -> Crtcs \cup {NoCrtc}] :
    /\ CompatOutput \in found
    /\ isDummy => found = {CompatOutput}
    /\ drives[CompatOutput] # NoCrtc
    /\ \A o \in Outputs :
         drives[o] # NoCrtc => o \in found /\ drives[o] \in PossibleCrtcs(o, isDummy)
    /\ server = [phase |-> "screen_init", isDummy |-> isDummy]
    /\ output = [o \in Outputs |-> [exists |-> o \in found, crtc |-> drives[o]]]
    /\ crtc = [c \in Crtcs |->
                 LET on == c \in {drives[o] : o \in Outputs}
                 IN [enabled |-> on, mode |-> NoMode,
                     desiredMode |-> IF on THEN mode ELSE NoMode]]
    /\ scanout = fb
    /\ kernel = [crtc |-> [c \in Crtcs |-> Off], on |-> {}, lessees |-> {}]
    /\ lease = [l \in Lessees |-> NoLease]
    /\ unsure = {} /\ asleep = {}

-----------------------------------------------------------------------------
(***************************************************************************)
(* The kernel, on a status r with the variables' names as fields, whether  *)
(* the last call worked, and how the loop over the CRTCs goes on.          *)
(***************************************************************************)
Statuses ==
  [server : Servers, output : [Outputs -> OutputRecs], crtc : [Crtcs -> CrtcRecs],
   scanout : Scanouts, kernel : Kernels, lease : [Lessees -> Leases],
   unsure : SUBSET Crtcs, asleep : SUBSET Crtcs,
   ok : BOOLEAN, next : {"crtc", "break", "fail", "crash"}]

Status == [server |-> server, output |-> output, crtc |-> crtc, scanout |-> scanout,
           kernel |-> kernel, lease |-> lease, unsure |-> unsure, asleep |-> asleep,
           ok |-> TRUE, next |-> "crtc"]

Become(r) ==
  /\ server' = r.server /\ output' = r.output /\ crtc' = r.crtc /\ scanout' = r.scanout
  /\ kernel' = r.kernel /\ lease' = r.lease /\ unsure' = r.unsure /\ asleep' = r.asleep

RoutesOf(r, c) == {o \in Outputs : r.output[o].crtc = c}

\* A connector has one CRTC; a CRTC that loses its last connector is turned off.
DrmModeSetCrtc(k, c, shown) ==
  [k EXCEPT !.crtc = [d \in Crtcs |->
     IF d = c THEN shown
     ELSE IF k.crtc[d].routes \subseteq shown.routes THEN Off
     ELSE [k.crtc[d] EXCEPT !.routes = @ \ shown.routes]]]

-----------------------------------------------------------------------------
(***************************************************************************)
(* The driver's functions for a CRTC and an output.                        *)
(***************************************************************************)
\* fbdev_lcd_output_dpms, for a set of outputs.
OutputDpms(r, outputs, on) ==
  [r EXCEPT !.kernel.on = IF on THEN @ \cup outputs ELSE @ \ outputs]

\* Mutated form: an output that was switched off stays off.
LightCrtcOnly(r, c, shown) == [r EXCEPT !.kernel = DrmModeSetCrtc(@, c, shown)]

\* The mode is set and "any outputs on this crtc that may have been disabled"
\* are turned on.
Light(r, c, shown) ==
  OutputDpms([r EXCEPT !.kernel = DrmModeSetCrtc(@, c, shown)], shown.routes, TRUE)

\* A CRTC that the kernel changed without an effect on the server's records.
Unsure(r, k, c) == r.unsure \cup {c} \cup {d \in Crtcs : r.kernel.crtc[d] # k.crtc[d]}

SetModeMajor(r0, c, mode, outcome) ==
  LET r1 == IF r0.scanout = "no_fb" THEN [r0 EXCEPT !.scanout = "fb"] ELSE r0
      r == [r1 EXCEPT !.crtc[c].mode = mode, !.ok = TRUE]
      shown == [mode |-> mode, routes |-> RoutesOf(r, c)]
      k == DrmModeSetCrtc(r.kernel, c, shown)
      refused == outcome = "refused" \/ mode = NoMode \/ shown.routes = {}
  IN IF r0.server.isDummy THEN [r0 EXCEPT !.ok = TRUE]
     ELSE IF r0.scanout = "no_fb" /\ outcome = "no_fb" THEN [r0 EXCEPT !.ok = FALSE]
     ELSE IF outcome = "no_rotation" THEN [r EXCEPT !.ok = FALSE]
     ELSE IF r.scanout = "none" THEN r
     ELSE IF refused THEN [r EXCEPT !.ok = FALSE]
     ELSE IF outcome = "not_read_back"
          THEN [r EXCEPT !.kernel = k, !.ok = FALSE, !.unsure = Unsure(r, k, c)]
     ELSE [Light(r, c, shown) EXCEPT !.unsure = @ \ {c}, !.asleep = @ \ {c}]

\* fbdev_lcd_crtc_dpms.  A failure is only logged.
CrtcDpmsOn(r, c, outcome) ==
  LET set == SetModeMajor(r, c, r.crtc[c].mode, outcome)
  IN IF set.ok THEN set ELSE [set EXCEPT !.unsure = @ \cup {c}]

CrtcDpmsOff(r, c, outcome) ==
  IF r.server.isDummy THEN r
  ELSE IF outcome = "refused" THEN [r EXCEPT !.unsure = @ \cup {c}]
  ELSE [OutputDpms([r EXCEPT !.kernel = DrmModeSetCrtc(@, c, Off)], RoutesOf(r, c), FALSE)
          EXCEPT !.unsure = @ \ {c}]

\* A loop: F[i] for the i of 1 .. n in S, one after the other.
Each(n, S, F, r) ==
  LET after[i \in 0 .. n] ==
        IF i = 0 THEN r ELSE IF i \in S THEN F[i][after[i - 1]] ELSE after[i - 1]
  IN after[n]

\* One call in an action may end otherwise than it should, the one for CRTC at.
OutcomeAt(c, at, outcome) == IF c = at THEN outcome ELSE "works"

-----------------------------------------------------------------------------
(***************************************************************************)
(* The X server, outside the repository: what it does around the calls of  *)
(* the driver when a client sets a mode, and for leases.  It leaves leased *)
(* CRTCs and outputs alone.                                                *)
(***************************************************************************)
CrtcIsLeased(r, c) == \E l \in Lessees : c \in r.lease[l].crtcs
OutputIsLeased(r, o) == \E l \in Lessees : o \in r.lease[l].outputs

\* xf86DisableUnusedFunctions
TurnOff(outcome) ==
  [c \in Crtcs |-> [s \in Statuses |->
     [CrtcDpmsOff(s, c, outcome) EXCEPT !.crtc[c].mode = NoMode]]]

DisableUnused(r, outcome) ==
  LET idle == {o \in Outputs : r.output[o].crtc = NoCrtc /\ ~OutputIsLeased(r, o)}
      unused == {c \in Crtcs : ~r.crtc[c].enabled /\ ~CrtcIsLeased(r, c)}
  IN Each(NumCrtcs, unused, TurnOff(outcome),
          IF r.server.isDummy THEN r ELSE OutputDpms(r, idle, FALSE))

\* xf86RandR12CrtcSet with a mode: what a failed mode set wrote is put back.
RandRSet(r0, c, mode, outputs, outcome) ==
  LET r == [r0 EXCEPT !.crtc[c].enabled = TRUE,
              !.output = [o \in Outputs |->
                 IF o \in outputs THEN [@[o] EXCEPT !.crtc = c]
                 ELSE IF @[o].crtc = c THEN [@[o] EXCEPT !.crtc = NoCrtc] ELSE @[o]]]
      set == SetModeMajor(r, c, mode, outcome)
  IN IF set.ok
     THEN DisableUnused([set EXCEPT !.crtc[c].desiredMode = mode], outcome)
     ELSE [set EXCEPT !.crtc = r0.crtc, !.output = r0.output]

\* xf86CrtcLeaseStarted: the lessee finds the CRTCs as they are.
LeaseStarted(r, l, cs, os) ==
  [r EXCEPT !.lease[l] = [crtcs |-> cs, outputs |-> os,
              was |-> [c \in Crtcs |-> IF c \in cs /\ r.crtc[c].enabled
                                       THEN [mode |-> r.crtc[c].mode, routes |-> RoutesOf(r, c)]
                                       ELSE Off]],
            !.crtc = [c \in Crtcs |-> IF c \in cs THEN [@[c] EXCEPT !.enabled = FALSE] ELSE @[c]],
            !.output = [o \in Outputs |-> IF o \in os THEN [@[o] EXCEPT !.crtc = NoCrtc] ELSE @[o]]]

\* xf86CrtcLeaseTerminated: what ran before the lease is set again.
Again(was, outcome) ==
  [c \in Crtcs |-> [s \in Statuses |-> RandRSet(s, c, was[c].mode, was[c].routes, outcome)]]

LeaseTerminated(r, l, outcome) ==
  LET was == r.lease[l].was
      ran == {c \in Crtcs : was[c].mode \in Modes}
      ended == [r EXCEPT !.lease[l] = NoLease]
  IN DisableUnused(Each(NumCrtcs, ran, Again(was, outcome), ended), outcome)

-----------------------------------------------------------------------------
(***************************************************************************)
(* Leases and the desired modes.                                           *)
(***************************************************************************)
IsLease(r, l) == r.lease[l].crtcs # {}

\* Mutated form: a lease that is gone is kept.
NoLeaseIsGone(r) == {}

GoneLeases(r) == {l \in Lessees : IsLease(r, l) /\ l \notin r.kernel.lessees}

\* fbdev_validate_leases.  Its other early returns do not happen here: there is a
\* screen, and the server has set vtSema before it calls EnterVT.
EndLease(outcome) ==
  [l \in Lessees |-> [s \in Statuses |-> LeaseTerminated(s, l, outcome)]]

ValidateLeases(r, outcome) ==
  IF outcome = "unlisted" THEN r ELSE Each(NumLessees, GoneLeases(r), EndLease(outcome), r)

\* Mutated form: "Skip disabled CRTCs" to the letter.
LeaveDisabled(r, c, set_hw, outcome) == r

TurnOffDisabled(r, c, set_hw, outcome) ==
  IF ~set_hw \/ r.server.isDummy THEN r
  ELSE IF outcome = "refused" THEN [r EXCEPT !.unsure = @ \cup {c}]
  ELSE [r EXCEPT !.kernel = DrmModeSetCrtc(@, c, Off), !.unsure = @ \ {c}]

\* The mode an enabled CRTC shall have is set, or only recorded.  The server
\* gave every CRTC it enabled a desired mode.
SetDesired(r0, c, set_hw, outcome) ==
  LET zeroed == [r0 EXCEPT !.crtc[c].mode = NoMode]
      set == IF set_hw THEN SetModeMajor(zeroed, c, r0.crtc[c].desiredMode, outcome)
             ELSE [r0 EXCEPT !.crtc[c].mode = r0.crtc[c].desiredMode,
                             !.ok = outcome # "no_rotation"]
  IN IF set.ok THEN set ELSE [set EXCEPT !.next = "fail"]

\* The CRTCs from c on are not reached, or c is passed over.
NotSet(r, cs, set_hw) == IF set_hw THEN [r EXCEPT !.unsure = @ \cup cs] ELSE r

\* The loop over the outputs only logs; what is tested is the element behind
\* the array.  beyond is what its CRTC reads as; NoCrtc if the server dies of it.
OtherCrtc(r, c, set_hw, beyond) ==
  IF beyond = NoCrtc THEN [r EXCEPT !.next = "crash"]
  ELSE IF beyond = c THEN [NotSet(r, {d \in Crtcs : d >= c}, set_hw) EXCEPT !.next = "break"]
  ELSE NotSet(r, {c}, set_hw)

\* fbdev_set_desired_modes
SetOne(set_hw, at, outcome, beyond) ==
  [c \in Crtcs |-> [r \in Statuses |->
     IF r.next # "crtc" THEN NotSet(r, {c}, set_hw)
     ELSE IF ~r.crtc[c].enabled
     THEN TurnOffDisabled(r, c, set_hw, OutcomeAt(c, at, outcome))
     ELSE IF r.output[CompatOutput].crtc = c
     THEN SetDesired(r, c, set_hw, OutcomeAt(c, at, outcome))
     ELSE OtherCrtc(r, c, set_hw, beyond)]]

SetDesiredModes(r0, set_hw, at, outcome, beyond) ==
  LET r1 == Each(NumCrtcs, CrtcsOf(r0.server.isDummy), SetOne(set_hw, at, outcome, beyond), r0)
  IN IF r1.next \in {"fail", "crash"} THEN [r1 EXCEPT !.ok = FALSE]
     ELSE [ValidateLeases(r1, OutcomeAt(NumCrtcs, at, outcome)) EXCEPT !.ok = TRUE]

-----------------------------------------------------------------------------
(***************************************************************************)
(* The calls of the server.                                                *)
(***************************************************************************)
\* The server goes on in phase next, or gives up.
Continue(r, next, gives_up) ==
  Become([r EXCEPT !.server.phase =
            IF r.next = "crash" \/ (gives_up /\ ~r.ok) THEN "dead" ELSE next])

DesiredModesWith(phase, set_hw, next, gives_up, at, outcome, beyond) ==
  /\ server.phase = phase
  /\ Continue(SetDesiredModes(Status, set_hw, at, outcome, beyond), next, gives_up)

DesiredModesAt(phase, set_hw, next, gives_up) ==
  \E at \in Crtcs, outcome \in Outcomes, beyond \in Crtcs \cup {NoCrtc} :
    DesiredModesWith(phase, set_hw, next, gives_up, at, outcome, beyond)

\* The end of ScreenInit calls EnterVT.
ScreenInit == DesiredModesAt("screen_init", TRUE, "resources", TRUE)

\* The modes are only recorded, since the screen is not a GPU screen.
CreateScreenResources == DesiredModesAt("resources", FALSE, "first_block", TRUE)

\* FBDevBlockHandler_oneshot does not look at the result.
BlockHandlerOneshot == DesiredModesAt("first_block", TRUE, "running", FALSE)

EnterVT == DesiredModesAt("away", TRUE, "running", TRUE)

\* What the lessees hold, as far as the kernel knows them.
HeldCrtcs == UNION {lease[l].crtcs : l \in kernel.lessees}
HeldOutputs == UNION {lease[l].outputs : l \in kernel.lessees}

\* Another program then uses the display: one CRTC, for some of the outputs, which
\* it may leave without power.  It leaves alone what is leased.
LeaveVT ==
  \E c \in Crtcs, routes \in SUBSET (Outputs \ HeldOutputs) :
    LET blank == [kernel EXCEPT !.on = @ \cap HeldOutputs,
                    !.crtc = [d \in Crtcs |-> IF d \in HeldCrtcs THEN @[d] ELSE Off]]
    IN /\ server.phase = "running"
       /\ server' = [server EXCEPT !.phase = "away"]
       /\ kernel' = IF c \in HeldCrtcs \/ routes = {} THEN blank
                    ELSE DrmModeSetCrtc(blank, c, [mode |-> Foreign, routes |-> routes])
       /\ UNCHANGED <<output, crtc, scanout, lease, unsure, asleep>>

SetCrtcConfig(c, mode, outputs) ==
  \E outcome \in Outcomes :
    /\ server.phase = "running"
    /\ c \in CrtcsOf(server.isDummy) /\ ~CrtcIsLeased(Status, c)
    /\ outputs # {}
    /\ \A o \in outputs : /\ output[o].exists /\ ~OutputIsLeased(Status, o)
                          /\ c \in PossibleCrtcs(o, server.isDummy)
    /\ Become(RandRSet(Status, c, mode, outputs, outcome))

DisableCrtc(c) ==
  \E outcome \in Outcomes :
    /\ server.phase = "running"
    /\ crtc[c].enabled
    /\ LET off == [Status EXCEPT !.crtc[c].enabled = FALSE,
                     !.output = [o \in Outputs |->
                        IF @[o].crtc = c THEN [@[o] EXCEPT !.crtc = NoCrtc] ELSE @[o]]]
       IN Become(DisableUnused(off, outcome))

EnabledCrtcs == {c \in Crtcs : crtc[c].enabled}
RoutedOutputs == {o \in Outputs : output[o].crtc # NoCrtc}

\* xf86DPMSSet: the CRTCs before the outputs when the power comes back.
On(at, outcome) ==
  [c \in Crtcs |-> [r \in Statuses |-> CrtcDpmsOn(r, c, OutcomeAt(c, at, outcome))]]

PowerOn ==
  \E at \in Crtcs, outcome \in Outcomes :
    /\ server.phase = "running"
    /\ Become(OutputDpms(Each(NumCrtcs, EnabledCrtcs, On(at, outcome), Status),
                        RoutedOutputs, TRUE))

Down(at, outcome) ==
  [c \in Crtcs |-> [r \in Statuses |->
     [CrtcDpmsOff(r, c, OutcomeAt(c, at, outcome)) EXCEPT !.asleep = @ \cup {c}]]]

PowerOff ==
  \E at \in Crtcs, outcome \in Outcomes :
    /\ server.phase = "running"
    /\ Become(Each(NumCrtcs, EnabledCrtcs, Down(at, outcome),
                  OutputDpms(Status, RoutedOutputs, FALSE)))

\* A lease takes CRTCs together with the outputs they drive.  fbdev_create_lease
\* changes nothing when the kernel refuses.
CreateLease(l, cs, os) ==
  /\ server.phase = "running" /\ ~server.isDummy
  /\ ~IsLease(Status, l) /\ l \notin kernel.lessees
  /\ cs # {} /\ os # {}
  /\ \A c \in cs : ~CrtcIsLeased(Status, c)
  /\ \A o \in os : output[o].exists /\ ~OutputIsLeased(Status, o)
  /\ \A o \in RoutedOutputs : o \in os <=> output[o].crtc \in cs
  /\ Become([LeaseStarted(Status, l, cs, os) EXCEPT !.kernel.lessees = @ \cup {l}])

\* Mutated form: the lease ends for the server whatever the kernel says.
EndsForServer(revoked) == TRUE

\* "drmModeRevokeLease() == 0"
EndsWith(revoked) == revoked

\* fbdev_terminate_lease: the client frees the lease, or is gone.  The kernel
\* may refuse, and does for a lessee that is gone.
TerminateLease(l) ==
  \E revoked \in BOOLEAN, outcome \in Outcomes :
    LET r == [Status EXCEPT !.kernel.lessees = IF revoked THEN @ \ {l} ELSE @]
    IN /\ server.phase \in {"running", "away"}
       /\ IsLease(Status, l)
       /\ revoked => l \in kernel.lessees
       /\ Become(IF EndsWith(revoked) THEN LeaseTerminated(r, l, outcome) ELSE r)

\* The holder of the lease uses it, or closes it, whoever has the VT.
LesseeSets(l, c) ==
  /\ l \in kernel.lessees /\ c \in lease[l].crtcs /\ server.phase \in {"running", "away"}
  /\ kernel' = [DrmModeSetCrtc(kernel, c, [mode |-> Foreign, routes |-> lease[l].outputs])
                  EXCEPT !.on = @ \cup lease[l].outputs]
  /\ UNCHANGED <<server, output, crtc, scanout, lease, unsure, asleep>>

LesseeCloses(l) ==
  /\ l \in kernel.lessees
  /\ kernel' = [kernel EXCEPT !.lessees = @ \ {l},
                  !.crtc = [c \in Crtcs |->
                     IF c \in lease[l].crtcs /\ @[c].mode = Foreign THEN Off ELSE @[c]]]
  /\ UNCHANGED <<server, output, crtc, scanout, lease, unsure, asleep>>

Next ==
  \/ ScreenInit \/ CreateScreenResources \/ BlockHandlerOneshot
  \/ LeaveVT \/ EnterVT
  \/ PowerOn \/ PowerOff
  \/ \E c \in Crtcs, mode \in Modes, outputs \in SUBSET Outputs : SetCrtcConfig(c, mode, outputs)
  \/ \E c \in Crtcs : DisableCrtc(c)
  \/ \E l \in Lessees, cs \in SUBSET Crtcs, os \in SUBSET Outputs : CreateLease(l, cs, os)
  \/ \E l \in Lessees : TerminateLease(l)
  \/ \E l \in Lessees, c \in Crtcs : LesseeSets(l, c)
  \/ \E l \in Lessees : LesseeCloses(l)

Spec == Init /\ [][Next]_vars

-----------------------------------------------------------------------------
(***************************************************************************)
(* What must hold.                                                         *)
(***************************************************************************)
\* The kernel shows what the server has on record for CRTC c.
IsShown(c) ==
  LET routes == {o \in Outputs : output[o].crtc = c}
  IN /\ kernel.crtc[c] = [mode |-> crtc[c].mode, routes |-> routes]
     /\ routes \subseteq kernel.on

Drives(c) == crtc[c].enabled /\ \E o \in Outputs : output[o].crtc = c
ShowsAtAll == server.phase = "running" /\ ~server.isDummy /\ scanout = "fb"

\* The kernel's CRTCs agree with the server's records: one that drives outputs
\* shows its mode on exactly these, and they are powered; a disabled one is off.
\* Mode sets that take connectors from another CRTC, failed sets the server
\* undoes, other programs at a VT switch and ended leases must not break this.
\* Left out is what nobody was told of: failures that are only logged, and CRTCs
\* fbdev_set_desired_modes passes over.
KernelAgrees ==
  ShowsAtAll => \A c \in Crtcs \ unsure :
    ~CrtcIsLeased(Status, c) =>
      /\ Drives(c) /\ c \notin asleep => IsShown(c)
      /\ ~crtc[c].enabled => kernel.crtc[c] = Off

\* What the holder of a living lease shows stays on the display until he changes or
\* closes it: no mode set, power saving, refused or other lease of the server takes
\* a connector, a CRTC or the power from him.  Left out is the return of the VT:
\* fbdev_set_desired_modes turns the CRTCs of every lease off, for the server has
\* them on record as disabled.
LesseeKeepsPicture ==
  [][\A l \in kernel.lessees \cap kernel'.lessees : \A c \in lease[l].crtcs :
       /\ kernel.crtc[c] = [mode |-> Foreign, routes |-> lease[l].outputs]
       /\ lease[l].outputs \subseteq kernel.on
       /\ ~(server.phase = "away" /\ server'.phase # "away")
       => \/ /\ kernel'.crtc[c] = kernel.crtc[c]
             /\ lease[l].outputs \subseteq kernel'.on
          \/ \E d \in lease[l].crtcs : LesseeSets(l, d)]_vars

\* The server's side of it: while a lease lives in the kernel it is on record, with
\* its CRTCs disabled and no output of it in use, whatever terminations the kernel
\* refused.  This speaks of the records, not of what the display shows.
LeasedIsNotConfigured ==
  \A l \in kernel.lessees :
    /\ IsLease(Status, l)
    /\ \A c \in lease[l].crtcs : ~crtc[c].enabled
    /\ \A o \in lease[l].outputs : output[o].crtc = NoCrtc

\* "Validate leases on VT re-entry": when EnterVT has returned and the kernel could
\* list its lessees, no lease is on record that the kernel has not.
NoGoneLeaseAfterEnterVT ==
  [][/\ server.phase = "away" /\ server'.phase = "running"
     /\ \E l \in Lessees : lease'[l].crtcs # {} /\ l \notin kernel'.lessees
     => ~\E at \in Crtcs, outcome \in Outcomes \ {"unlisted"}, beyond \in Crtcs \cup {NoCrtc} :
           DesiredModesWith("away", TRUE, "running", TRUE, at, outcome, beyond)]_vars

-----------------------------------------------------------------------------
(***************************************************************************)
(* What comments say and the code does not keep.                           *)
(***************************************************************************)
\* EnterVT is to "set the HW state as needed by the X server": when nothing
\* fails, every CRTC that drives outputs is shown.
EnabledCrtcsAreShown ==
  ShowsAtAll => \A c \in Crtcs \ asleep : Drives(c) => IsShown(c)
=============================================================================
