------------------------------ MODULE DrmMaster ------------------------------
(***************************************************************************)
(* The DRM connection the screens of one X server share (fbdev.c): who     *)
(* opens it, who is counted as needing DRM master, and when the kernel is  *)
(* told.  The X server calls the driver in phases, each screen in turn;    *)
(* an action is one such call.                                             *)
(***************************************************************************)
EXTENDS Integers, FiniteSets

CONSTANTS
  Screens,      \* the screens of the configuration
  PlatformBus,  \* FBTURBO_XSERVER_PLATFORM_BUS: PreInit opens the DRM twice
  Generations   \* bound on the server generations

ASSUME DrmMasterAssumption ==
  /\ IsFiniteSet(Screens)
  /\ PlatformBus \in BOOLEAN
  /\ Generations \in Nat \ {0}

VARIABLES
  server,      \* the X server: its phase, the screens still to be called in it
  connection,  \* struct FBTurboConnection; fd is TRUE for a descriptor >= 0
  device,      \* the kernel's side of that descriptor: is it open, is it master
  scrn         \* per screen: drmFD >= 0, fEntPtr->fd # 0, vtSema, MaliDRI2
               \* is on

vars == <<server, connection, device, scrn>>

Phases == {"preinit", "init", "running", "leaving", "away", "entering",
           "closing", "exited", "aborted"}

\* A failed assert() ends the server in the phase "aborted".
TypeOK ==
  /\ server \in [phase : Phases, todo : SUBSET Screens, last : BOOLEAN,
                 generation : 1 .. Generations]
  /\ connection \in [fd : BOOLEAN, open_count : Nat, master_count : Nat]
  /\ device \in [open : BOOLEAN, master : BOOLEAN]
  /\ scrn \in [Screens -> [drmFD : BOOLEAN, entFD : BOOLEAN,
                           vtSema : BOOLEAN, mali : BOOLEAN]]

Init ==
  /\ server = [phase |-> "preinit", todo |-> Screens, last |-> FALSE, generation |-> 1]
  /\ connection = [fd |-> FALSE, open_count |-> 0, master_count |-> 0]
  /\ device = [open |-> FALSE, master |-> FALSE]
  /\ scrn = [s \in Screens |-> [drmFD |-> FALSE, entFD |-> FALSE,
                                vtSema |-> FALSE, mali |-> FALSE]]

-----------------------------------------------------------------------------
(***************************************************************************)
(* The helpers, as maps of a status with the fields connection, device and *)
(* ok (the function succeeded); asserted is FALSE after a failed assert.   *)
(***************************************************************************)
Status == [connection |-> connection, device |-> device, ok |-> TRUE, asserted |-> TRUE]

\* Mutated form: only the call that reaches the kernel is counted.
SetDRMMasterOnce(r, outcome) ==
  IF r.connection.fd /\ r.connection.master_count = 0 /\ outcome
  THEN [r EXCEPT !.connection.master_count = 1, !.device.master = r.device.open]
  ELSE r

\* outcome says whether the kernel call, if there is one, succeeds.  The driver
\* opens the device itself: for a descriptor the server manages, which counts
\* nothing, the function returns at once.
SetDRMMaster(r, outcome) ==
  LET first == r.connection.master_count = 0
      ok == r.device.open /\ outcome
  IN CASE ~r.connection.fd -> r
       [] r.connection.fd /\ ~first -> [r EXCEPT !.connection.master_count = @ + 1]
       [] r.connection.fd /\ first /\ ok ->
            [r EXCEPT !.connection.master_count = 1, !.device.master = TRUE]
       [] OTHER -> [r EXCEPT !.ok = FALSE]

LastReference(n) == n = 1

DropDRMMaster(r, outcome) ==
  LET count == r.connection.master_count
      last == LastReference(count)
      ok == r.device.open /\ outcome
  IN CASE ~r.connection.fd -> r
       [] r.connection.fd /\ count = 0 -> [r EXCEPT !.asserted = FALSE]
       [] r.connection.fd /\ count > 0 /\ (~last \/ ok) ->
            [r EXCEPT !.connection.master_count = @ - 1,
                      !.device.master = IF last THEN FALSE ELSE @]
       [] OTHER -> [r EXCEPT !.ok = FALSE]

\* drmClose: the kernel drops master with the descriptor.
CloseDevice(r) == [r EXCEPT !.device = [open |-> FALSE, master |-> FALSE]]

\* A status of FBTurboOpenDRM also has drmFD and entFD of the screen.  opened
\* says that some device opens, version that it can be made master.
OpenDRM(r, opened, version) ==
  CASE r.connection.fd ->
         [r EXCEPT !.connection.open_count = @ + 1,
                   !.connection.master_count = @ + 1, !.drmFD = TRUE,
                   !.asserted = @ /\ r.connection.open_count > 0]
    [] ~r.connection.fd /\ ~r.entFD /\ opened /\ version ->
         [r EXCEPT !.connection = [fd |-> TRUE, open_count |-> 1, master_count |-> 1],
                   !.device = [open |-> TRUE, master |-> TRUE],
                   !.drmFD = TRUE, !.entFD = TRUE,
                   !.asserted = @ /\ r.connection.open_count = 0
                                  /\ r.connection.master_count = 0]
    [] ~r.connection.fd /\ ~r.entFD /\ opened /\ ~version ->
         [r EXCEPT !.drmFD = FALSE, !.entFD = TRUE]
    [] OTHER -> [r EXCEPT !.drmFD = FALSE]

-----------------------------------------------------------------------------
(***************************************************************************)
(* The calls of the server.                                                *)
(***************************************************************************)
\* The server calls screen s in this phase; after the last one comes next.
Turn(s, phase, next) ==
  /\ server.phase = phase
  /\ s \in server.todo
  /\ server' = IF server.todo = {s}
               THEN [server EXCEPT !.phase = next,
                       !.todo = IF next \in {"running", "away"} THEN {} ELSE Screens]
               ELSE [server EXCEPT !.todo = @ \ {s}]

Exit(s, phase, how) ==
  /\ server.phase = phase
  /\ s \in server.todo
  /\ server' = [server EXCEPT !.phase = how, !.todo = {}]

\* A call that returns with status r goes on to the next screen, unless an
\* assert failed or the server gives up because of the result.
Return(s, phase, next, r, gives_up) ==
  /\ connection' = r.connection
  /\ device' = r.device
  /\ IF ~r.asserted THEN Exit(s, phase, "aborted")
     ELSE IF gives_up THEN Exit(s, phase, "exited")
     ELSE Turn(s, phase, next)

PreInit(s) ==
  \E opened, version \in BOOLEAN :
    LET r0 == [connection |-> connection, device |-> device, ok |-> TRUE,
               asserted |-> TRUE, drmFD |-> scrn[s].drmFD, entFD |-> scrn[s].entFD]
        r1 == IF PlatformBus THEN OpenDRM(r0, opened, version) ELSE r0
        r == OpenDRM(r1, opened, version)
    IN /\ Return(s, "preinit", "init", r, FALSE)
       /\ scrn' = [scrn EXCEPT ![s].drmFD = r.drmFD, ![s].entFD = r.entFD]

\* fbdev_set_desired_modes is the part of EnterVT that may fail at any time.
EnteredVT(r, outcome, modes) ==
  LET r1 == SetDRMMaster(r, outcome) IN
  IF r1.ok THEN [r1 EXCEPT !.ok = modes] ELSE r1

\* dri2: FBTurboMaliDRI2_Init is called ("off" if not) and works, or fails
\* and closes the device.
ScreenInit(s) ==
  \E outcome, modes \in BOOLEAN, dri2 \in {"off", "works", "fails"} :
    LET r1 == SetDRMMaster(Status, outcome)
        r2 == IF r1.ok THEN EnteredVT(r1, outcome, modes) ELSE r1
        tried == r2.ok /\ scrn[s].drmFD /\ dri2 # "off"
        r3 == IF tried /\ dri2 = "fails" THEN CloseDevice(r2) ELSE r2
    IN /\ Return(s, "init", "running", r3, ~r3.ok)
       /\ scrn' = [scrn EXCEPT ![s].vtSema = r1.ok,
                               ![s].mali = tried /\ dri2 = "works",
                               ![s].drmFD = @ /\ ~(tried /\ dri2 = "fails")]

\* Whether vtSema is cleared around LeaveVT is up to the server's version; the
\* driver does not do it.
LeaveVT(s) ==
  \E outcome, vtSema \in BOOLEAN :
    /\ Return(s, "leaving", "away", DropDRMMaster(Status, outcome), FALSE)
    /\ scrn' = [scrn EXCEPT ![s].vtSema = @ /\ vtSema]

EnterVT(s) ==
  \E outcome, modes \in BOOLEAN :
    LET r == EnteredVT(Status, outcome, modes) IN
    /\ Return(s, "entering", "running", r, ~r.ok)
    /\ scrn' = [scrn EXCEPT ![s].vtSema = TRUE]

\* FBTurboMaliDRI2_Close closes the device; LeaveVT is called for a screen that
\* has the VT.  The screens are initialised again in the next generation.
CloseScreen(s) ==
  \E outcome \in BOOLEAN :
    LET r1 == IF scrn[s].mali THEN CloseDevice(Status) ELSE Status
        r == IF scrn[s].vtSema THEN DropDRMMaster(r1, outcome) ELSE r1
        final == server.last /\ server.todo = {s}
    IN /\ Return(s, "closing", "init", r, final)
       /\ scrn' = [scrn EXCEPT ![s].vtSema = FALSE, ![s].mali = FALSE,
                               ![s].drmFD = @ /\ ~scrn[s].mali]

\* The server turns to all screens: to switch away from the VT and back, to
\* reset (a new generation) or to exit.
Begin(from, phase) ==
  /\ server.phase = from
  /\ server' = [server EXCEPT !.phase = phase, !.todo = Screens]
  /\ UNCHANGED <<connection, device, scrn>>

SwitchAway == Begin("running", "leaving")

SwitchBack == Begin("away", "entering")

Reset ==
  /\ server.phase = "running"
  /\ server.generation < Generations
  /\ server' = [server EXCEPT !.phase = "closing", !.todo = Screens, !.generation = @ + 1]
  /\ UNCHANGED <<connection, device, scrn>>

Terminate ==
  /\ server.phase \in {"running", "away"}
  /\ server' = [server EXCEPT !.phase = "closing", !.todo = Screens, !.last = TRUE]
  /\ UNCHANGED <<connection, device, scrn>>

Next ==
  \/ \E s \in Screens :
       \/ PreInit(s)
       \/ ScreenInit(s)
       \/ LeaveVT(s)
       \/ EnterVT(s)
       \/ CloseScreen(s)
  \/ SwitchAway
  \/ SwitchBack
  \/ Reset
  \/ Terminate

Spec == Init /\ [][Next]_vars

-----------------------------------------------------------------------------
\* The asserts of FBTurboDropDRMMaster and FBTurboOpenDRM hold: whatever the
\* order of VT switches, resets and failures, LeaveVT and CloseScreen never
\* drop master more often than it was counted.
AssertsHold == server.phase # "aborted"

\* The count covers every screen that has the VT and will be asked to leave it.
EveryLeaveIsCovered ==
  connection.fd =>
    connection.master_count >= Cardinality({s \in Screens : scrn[s].vtSema})
=============================================================================
