----------------------------- MODULE ScreenLife -----------------------------
(***************************************************************************)
(* The functions of the screen that the parts of the driver wrap in        *)
(* ScreenInit and put back in CloseScreen, on top of DrmMaster's life of   *)
(* the screens.  Everybody who wraps a function keeps the one he found;    *)
(* the X server and its extensions wrap the same functions, before, after  *)
(* and in the middle of a call.                                            *)
(***************************************************************************)
EXTENDS DrmMaster, Sequences, SequencesExt

CONSTANTS
  Configs,   \* the configurations of a screen
  Called,    \* the wrapped functions that are called while the server runs
  MaxExt     \* bound on the functions an extension has wrapped at a time

VARIABLES
  hooks,  \* per screen: its configuration, the functions in the screen (slot)
          \* and those that were found (saved)
  stack   \* the wrappers that are being called, innermost last

lifeVars == <<server, connection, device, scrn, hooks, stack>>

\* Who wraps what.  "ext" is an extension that may do so at any time; "crtc", "xv"
\* and "exa" are modules of the server that the driver initialises.
Wraps ==
  ({"tuner"} \X {"PostValidateTree", "ReparentWindow"})
    \cup ({"g2d"} \X {"CopyWindow", "CreateGC"})
    \cup ({"fbdev"} \X {"CreateScreenResources", "CloseScreen", "BlockHandler", "PointerMoved"})
    \cup ({"crtc"} \X {"CreateScreenResources", "CloseScreen"})
    \cup ({"xv"} \X {"DestroyWindow", "CloseScreen"})
    \cup ({"exa"} \X {"CopyWindow", "CreateGC", "GetImage", "DestroyPixmap", "CloseScreen"})
    \cup ({"mali"} \X {"DestroyWindow", "PostValidateTree", "GetImage", "DestroyPixmap",
                       "EnableHWCursor", "DisableHWCursor"})
    \cup ({"ext"} \X Called)

Slots == {w[2] : w \in Wraps}
Driver == {"tuner", "g2d", "fbdev", "oneshot", "mali"}
Functions == {w[1] : w \in Wraps} \cup {"server", "oneshot"}

\* The functions whose wrappers call on: xCopyWindow and xCreateGC call the
\* functions of fb, FBDevPointerMoved leaves the screen as it is, and
\* CreateScreenResources and CloseScreen are called by the server's own steps.
CallOn == {"PostValidateTree", "ReparentWindow", "BlockHandler", "DestroyWindow",
           "GetImage", "DestroyPixmap"}

Configurations == [exa : BOOLEAN, tuner : BOOLEAN, g2d : BOOLEAN, xv : BOOLEAN,
                   rotate : BOOLEAN, cursor : BOOLEAN]

ASSUME ScreenLifeAssumption ==
  Configs \subseteq Configurations /\ Called \subseteq CallOn /\ MaxExt \in Nat

LifeTypeOK ==
  /\ TypeOK
  /\ hooks \in [Screens -> [config : Configurations, slot : [Slots -> Functions],
                            saved : [Wraps -> Functions \cup {"none"}]]]
  /\ stack \in Seq([screen : Screens, function : Functions, slot : Slots, called : BOOLEAN])

NoSlots == [x \in Slots |-> "server"]
NothingSaved == [w \in Wraps |-> "none"]

LifeInit ==
  /\ Init
  /\ hooks \in [Screens -> [config : Configs, slot : {NoSlots}, saved : {NothingSaved}]]
  /\ stack = <<>>

-----------------------------------------------------------------------------
(***************************************************************************)
(* Wrapping and unwrapping, on the record h of a screen.                   *)
(***************************************************************************)
\* What a part of the server wraps.
Names(who) == {w[2] : w \in {v \in Wraps : v[1] = who}}

\* The macro wrap, and what the Init functions do by hand, for one who wraps the
\* functions in names.
Wrap(h, who, names) ==
  [h EXCEPT !.saved = [w \in Wraps |-> IF w \in {who} \X names THEN h.slot[w[2]] ELSE @[w]],
            !.slot = [x \in Slots |-> IF x \in names THEN who ELSE @[x]]]

\* The functions that were found are put back, whatever is in the screen now.
Unwrap(h, who, names) ==
  [h EXCEPT !.slot = [x \in Slots |-> IF x \in names THEN h.saved[<<who, x>>] ELSE @[x]],
            !.saved = [w \in Wraps |-> IF w \in {who} \X names THEN "none" ELSE @[w]]]

\* Mutated form: the test for a second generation is missing.
PointerWrappedAgain(h) == Wrap(h, "fbdev", {"PointerMoved"})

\* pScrn and fPtr outlive the screen: PointerMoved is wrapped once and for all.
PointerWrapped(h) ==
  IF h.saved[<<"fbdev", "PointerMoved">>] # "none" THEN h
  ELSE Wrap(h, "fbdev", {"PointerMoved"})

TunerInit(h) == Wrap(h, "tuner", Names("tuner"))

G2DInit(h) == Wrap(h, "g2d", Names("g2d"))

\* The functions put back by FBDevCloseScreen.
ScreenNames == {"CreateScreenResources", "CloseScreen"}

\* The block handler is the one-shot one first.
BlockHandlerWrapped(h) ==
  [Wrap(h, "fbdev", {"BlockHandler"}) EXCEPT !.slot["BlockHandler"] = "oneshot"]

\* xf86CrtcScreenInit
CrtcInit(h) == Wrap(h, "crtc", Names("crtc"))

\* xf86XVScreenInit wraps, for the adaptor of SunxiVideo_Init or a generic one.
XvInit(h) == IF h.config.xv THEN Wrap(h, "xv", Names("xv")) ELSE h

\* exaDriverInit, which InitNullEXA calls.
ExaInit(h) == IF h.config.exa THEN Wrap(h, "exa", Names("exa")) ELSE h

\* A new SunxiDispHardwareCursor has no callbacks, and Close frees it with those it
\* has.  "server" stands for no callback.
CursorNames == {"EnableHWCursor", "DisableHWCursor"}

CursorInit(h) ==
  [h EXCEPT !.slot = [x \in Slots |-> IF x \in CursorNames THEN "server" ELSE @[x]]]

\* With EXA, FBTurboMaliDRI2 wraps DestroyWindow only; it wraps the callbacks of a
\* hardware cursor.
MaliNames(config) ==
  {"DestroyWindow"}
    \cup (IF config.exa THEN {} ELSE {"PostValidateTree", "GetImage", "DestroyPixmap"})
    \cup (IF config.cursor THEN CursorNames ELSE {})

MaliInit(h) == Wrap(h, "mali", MaliNames(h.config))

\* Mutated form: the test for EXA is missing, and functions are put back that were
\* never found.
MaliClosedWithEXA(h) == Unwrap(h, "mali", MaliNames([h.config EXCEPT !.exa = FALSE]))

MaliClosed(h) == Unwrap(h, "mali", MaliNames(h.config))

\* A new ScreenRec in every generation; the wrappers in the order of ScreenInit.
Fresh(h) ==
  [h EXCEPT !.slot = [x \in Slots |-> IF x = "PointerMoved" THEN @[x] ELSE "server"]]

Initialised(h, mali) ==
  LET c == h.config
      h1 == IF c.rotate THEN PointerWrapped(Fresh(h)) ELSE Fresh(h)
      h2 == IF c.tuner THEN TunerInit(h1) ELSE h1
      h3 == IF c.g2d THEN G2DInit(h2) ELSE h2
      h4 == BlockHandlerWrapped(Wrap(h3, "fbdev", ScreenNames))
      h5 == ExaInit(CursorInit(XvInit(CrtcInit(h4))))
  IN IF mali THEN MaliInit(h5) ELSE h5

\* Mutated form: the tuner goes first, and FBTurboMaliDRI2 puts its hook back.
TunerClosedFirst(h, mali) ==
  LET h1 == IF h.config.tuner THEN Unwrap(h, "tuner", Names("tuner")) ELSE h
      h2 == IF mali THEN MaliClosed(h1) ELSE h1
      h3 == IF h.config.g2d THEN Unwrap(h2, "g2d", Names("g2d")) ELSE h2
  IN Unwrap(h3, "fbdev", ScreenNames)

\* FBDevCloseScreen.  The block handler stays.
DriverClosed(h, mali) ==
  LET h1 == IF mali THEN MaliClosed(h) ELSE h
      h2 == IF h.config.g2d THEN Unwrap(h1, "g2d", Names("g2d")) ELSE h1
      h3 == IF h.config.tuner THEN Unwrap(h2, "tuner", Names("tuner")) ELSE h2
  IN Unwrap(h3, "fbdev", ScreenNames)

\* The server calls the CloseScreen wrapped last; each puts back what it found and
\* calls the next.
Closed(h, mali) ==
  LET h1 == Unwrap(h, "ext", {x \in Called : h.saved[<<"ext", x>>] # "none"})
      h2 == IF h.config.exa THEN Unwrap(h1, "exa", Names("exa")) ELSE h1
      h3 == IF h.config.xv THEN Unwrap(h2, "xv", Names("xv")) ELSE h2
  IN DriverClosed(Unwrap(h3, "crtc", {"CloseScreen"}), mali)

-----------------------------------------------------------------------------
(***************************************************************************)
(* A call of a wrapped function: it puts back what it found, calls that,   *)
(* looks up what is there now and wraps it again.                          *)
(***************************************************************************)
Running == server.phase = "running"

Owner(f) == IF f = "oneshot" THEN "fbdev" ELSE f

\* The caller on the stack has called the next function.
Calling(st) == IF st = <<>> THEN st ELSE [st EXCEPT ![Len(st)].called = TRUE]

MayCall(s, slot) ==
  \/ stack = <<>>
  \/ /\ stack # <<>>
     /\ LET top == stack[Len(stack)] IN top.screen = s /\ top.slot = slot /\ ~top.called

\* An extension like XV wraps PostValidateTree when it has something to do after
\* it, and is not there any more when it has been called.
CallHook(s, slot) ==
  LET f == hooks[s].slot[slot]
      next == hooks[s].saved[<<Owner(f), slot>>]
  IN /\ Running /\ MayCall(s, slot)
     /\ slot \in Called /\ f # "server"
     /\ hooks' = [hooks EXCEPT ![s] =
                    IF f = "ext" THEN Unwrap(@, f, {slot}) ELSE [@ EXCEPT !.slot[slot] = next]]
     /\ stack' = IF f = "ext" THEN stack
                 ELSE Append(Calling(stack), [screen |-> s, function |-> Owner(f),
                                              slot |-> slot, called |-> FALSE])
     /\ UNCHANGED vars

\* The end of the chain.
CallLast(s, slot) ==
  /\ Running /\ stack # <<>> /\ MayCall(s, slot)
  /\ hooks[s].slot[slot] = "server"
  /\ stack' = Calling(stack)
  /\ UNCHANGED <<vars, hooks>>

\* Mutated form: what was wrapped meanwhile is not looked up.
RewrapWithoutLooking(h, f, slot) == [h EXCEPT !.slot[slot] = f]

Rewrap(h, f, slot) == Wrap(h, f, {slot})

ReturnFromHook ==
  LET top == stack[Len(stack)] IN
  /\ stack # <<>> /\ top.called
  /\ hooks' = [hooks EXCEPT ![top.screen] = Rewrap(@, top.function, top.slot)]
  /\ stack' = Front(stack)
  /\ UNCHANGED vars

Extended == {e \in Screens \X Called : hooks[e[1]].saved[<<"ext", e[2]>>] # "none"}

ExtensionWraps(s, slot) ==
  /\ Running
  /\ slot \in Called /\ hooks[s].saved[<<"ext", slot>>] = "none"
  /\ Cardinality(Extended) < MaxExt
  /\ hooks' = [hooks EXCEPT ![s] = Wrap(@, "ext", {slot})]
  /\ UNCHANGED <<vars, stack>>

\* It is the turn of screen s in this step of the server, which did not give up.
Turned(s) ==
  \/ server.phase = server'.phase /\ s \in server.todo \ server'.todo
  \/ /\ server.phase # server'.phase
     /\ server.todo = {s}
     /\ server'.phase # "aborted"
     /\ server'.phase = "exited" => server.phase = "closing"

\* UseDumb, and with it EXA, needs the DRM.
HooksOf(s) ==
  CASE Turned(s) /\ server.phase = "preinit" ->
         [hooks[s] EXCEPT !.config.exa = @ /\ scrn'[s].drmFD]
    [] Turned(s) /\ server.phase = "init" -> Initialised(hooks[s], scrn'[s].mali)
    [] Turned(s) /\ server.phase = "closing" -> Closed(hooks[s], scrn[s].mali)
    [] OTHER -> hooks[s]

\* The server's own steps are those of DrmMaster, and none comes in the middle of a
\* call.
ServerStep ==
  /\ stack = <<>>
  /\ Next
  /\ hooks' = [s \in Screens |-> HooksOf(s)]
  /\ UNCHANGED stack

LifeNext ==
  \/ ServerStep
  \/ \E s \in Screens, slot \in Slots :
       CallHook(s, slot) \/ CallLast(s, slot) \/ ExtensionWraps(s, slot)
  \/ ReturnFromHook

LifeSpec == LifeInit /\ [][LifeNext]_lifeVars

-----------------------------------------------------------------------------
(***************************************************************************)
(* What must hold.                                                         *)
(***************************************************************************)
Wrappers == [x \in Slots |-> {w \in Wraps : w[2] = x}]

\* A call of the slot goes to those in c, one after the other, and then to the server.
Calls(h, slot, c) ==
  \A i \in 0 .. Len(c) :
    LET next == IF i = 0 THEN h.slot[slot] ELSE h.saved[<<c[i], slot>>]
    IN Owner(next) = IF i = Len(c) THEN "server" ELSE c[i + 1]

\* Those in the middle of a call, which are not in the screen meanwhile.
InCall(s, slot) ==
  {stack[i].function : i \in {j \in DOMAIN stack : stack[j].screen = s /\ stack[j].slot = slot}}

Installed(h, slot) == {w[1] : w \in {x \in Wrappers[slot] : h.saved[x] # "none"}}

\* Between the calls and in the middle of one, whoever wrapped a function is
\* reached by a call of it, unless he is being called: nobody loses a hook, none is
\* there twice, and the calls end in the server, whichever extensions come and go
\* and however many generations the screen has seen.
ChainIsWhole ==
  server.phase \in {"running", "leaving", "away", "entering"} =>
    \A s \in Screens, slot \in Slots :
      \E c \in SetToSeqs(Installed(hooks[s], slot) \ InCall(s, slot)) : Calls(hooks[s], slot, c)

\* The screens that have been closed in this generation.
ClosedScreens ==
  IF server.phase = "closing" \/ (server.phase = "exited" /\ server.last)
  THEN Screens \ server.todo
  ELSE IF server.phase = "init" /\ server.generation > 1 THEN server.todo ELSE {}

\* A closed screen has no function of the driver in it, in whichever order the
\* functions were wrapped and by whoever they were wrapped in between; the private
\* records the driver's functions use are freed by then.  The block handler and
\* PointerMoved stay.
NoHookLeft ==
  \A s \in ClosedScreens, slot \in Slots \ {"BlockHandler", "PointerMoved"} :
    hooks[s].slot[slot] \notin Driver
=============================================================================
