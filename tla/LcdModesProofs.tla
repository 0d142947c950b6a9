-------------------------- MODULE LcdModesProofs ---------------------------
(***************************************************************************)
(* Proofs about LcdModes, for any number of CRTCs, outputs, leases and     *)
(* modes.  A call is a chain of functions on a status; each has a lemma    *)
(* that says what it leaves alone and which claims about the CRTCs it      *)
(* keeps, and the loops have an invariant each.                            *)
(***************************************************************************)
EXTENDS LcdModes, WellFoundedInduction, TLAPS

-----------------------------------------------------------------------------
(***************************************************************************)
(* A loop ends where its invariant leads: by the least step that would not. *)
(***************************************************************************)
\* A set of natural numbers has a least one.
LEMMA Least ==
  ASSUME NEW T \in SUBSET Nat, T # {}
  PROVE  \E x \in T : \A y \in T : x <= y
<1>1. IsWellFoundedOn(OpToRel(<, Nat), Nat)
  BY NatLessThanWellFounded
<1>2. PICK x \in T : \A y \in T : ~ (<<y, x>> \in OpToRel(<, Nat))
  BY <1>1, WFMin
<1>3. \A y \in T : ~ (y < x)
  BY <1>2 DEF OpToRel
<1>4. \A y \in T : x <= y
  <2> SUFFICES ASSUME NEW y \in T PROVE x <= y
    OBVIOUS
  <2>1. x \in Nat /\ y \in Nat
    BY <1>2
  <2> QED
    BY <1>3, <2>1
<1> QED
  BY <1>2, <1>4

\* f runs through the loop of Each.
IsLoop(f, n, S, F, r) ==
  f = [i \in 0 .. n |-> IF i = 0 THEN r ELSE IF i \in S THEN F[i][f[i - 1]] ELSE f[i - 1]]

\* There is a function that is the loop.
LEMMA LoopExists ==
  ASSUME NEW n \in Nat, NEW S, NEW F, NEW r
  PROVE  \E f : IsLoop(f, n, S, F, r)
<1> DEFINE T == {m \in Nat : ~ \E f : IsLoop(f, m, S, F, r)}
<1> SUFFICES ASSUME T # {} PROVE FALSE
  OBVIOUS
<1>1. PICK m \in T : \A y \in T : m <= y
  BY Least
<1>2. CASE m = 0
  <2> DEFINE f == [i \in 0 .. 0 |-> r]
  <2>1. IsLoop(f, 0, S, F, r)
    BY DEF IsLoop
  <2> QED
    BY <1>1, <1>2, <2>1
<1>3. CASE m # 0
  <2>1. m - 1 \in Nat /\ m - 1 \notin T
    BY <1>1, <1>3
  <2>2. PICK f : IsLoop(f, m - 1, S, F, r)
    BY <2>1
  <2> DEFINE g == [i \in 0 .. m |-> IF i = 0 THEN r ELSE IF i \in S THEN F[i][f[i - 1]] ELSE f[i - 1]]
  <2>3. \A i \in 0 .. m - 1 : g[i] = f[i]
    BY <2>2, <1>1 DEF IsLoop
  <2>4. IsLoop(g, m, S, F, r)
    <3>1. \A i \in 0 .. m : i # 0 => i - 1 \in 0 .. m - 1
      BY <1>1
    <3>2. \A i \in 0 .. m : i # 0 => g[i - 1] = f[i - 1]
      BY <3>1, <2>3
    <3> QED
      BY <3>2 DEF IsLoop
  <2> QED
    BY <1>1, <2>4
<1> QED
  BY <1>2, <1>3

\* Each is the last value of that function.
LEMMA EachIsLoop ==
  ASSUME NEW n \in Nat, NEW S, NEW F, NEW r
  PROVE  \E f : IsLoop(f, n, S, F, r) /\ Each(n, S, F, r) = f[n]
<1> DEFINE f == CHOOSE f : IsLoop(f, n, S, F, r)
<1>1. IsLoop(f, n, S, F, r)
  BY LoopExists
<1>2. Each(n, S, F, r) = f[n]
  BY DEF Each, IsLoop
<1> QED
  BY <1>1, <1>2

\* The sets At[i] are an invariant of the loop after step i.
LEMMA EachReaches ==
  ASSUME NEW n \in Nat, NEW S, NEW F, NEW r, NEW At,
         r \in At[0],
         \A i \in 1 .. n : \A s \in At[i - 1] :
           /\ i \in S => F[i][s] \in At[i]
           /\ i \notin S => s \in At[i]
  PROVE  Each(n, S, F, r) \in At[n]
<1>1. PICK f : IsLoop(f, n, S, F, r) /\ Each(n, S, F, r) = f[n]
  BY EachIsLoop
<1> DEFINE T == {i \in 0 .. n : f[i] \notin At[i]}
<1> SUFFICES ASSUME T # {} PROVE FALSE
  BY <1>1
<1>0. T \in SUBSET Nat
  OBVIOUS
<1> HIDE DEF T
<1>2. PICK m \in T : \A y \in T : m <= y
  BY <1>0, Least
<1> USE DEF T
<1>3. f[0] = r /\ \A i \in 1 .. n : f[i] = IF i \in S THEN F[i][f[i - 1]] ELSE f[i - 1]
  BY <1>1 DEF IsLoop
<1>4. m # 0
  BY <1>3
<1>5. m \in 1 .. n /\ m - 1 \in 0 .. n /\ f[m - 1] \in At[m - 1]
  BY <1>2, <1>4
<1>6. f[m] \in At[m]
  BY <1>3, <1>5
<1> QED
  BY <1>6

\* CRTC c is enabled and has outputs.
DrivenBy(r, c) == r.crtc[c].enabled /\ RoutesOf(r, c) # {}
\* The kernel shows what is on record for CRTC c.
ShownAt(r, c) ==
  DrivenBy(r, c) /\ c \notin r.asleep /\ c \notin r.unsure =>
    /\ r.kernel.crtc[c] = [mode |-> r.crtc[c].mode, routes |-> RoutesOf(r, c)]
    /\ RoutesOf(r, c) \subseteq r.kernel.on
\* A disabled CRTC is off.
OffAt(r, c) ==
  ~r.crtc[c].enabled /\ c \notin r.unsure /\ ~CrtcIsLeased(r, c) => r.kernel.crtc[c] = Off
\* There is something the display can show.
Real(r) == ~r.server.isDummy /\ r.scanout # "none"
\* KernelAgrees, of a status.
Agree(r) == Real(r) => \A c \in Crtcs : ShownAt(r, c) /\ OffAt(r, c)
\* The leases exclude each other and what the server uses, and can be undone.
LeasesFit(r) ==
  /\ \A l, m \in Lessees : l # m =>
       /\ r.lease[l].crtcs \cap r.lease[m].crtcs = {}
       /\ r.lease[l].outputs \cap r.lease[m].outputs = {}
  /\ \A l \in Lessees :
       /\ \A c \in r.lease[l].crtcs : ~r.crtc[c].enabled
       /\ \A o \in r.lease[l].outputs : r.output[o].crtc = NoCrtc
       /\ \A c \in Crtcs :
            /\ r.lease[l].was[c].routes \subseteq r.lease[l].outputs
            /\ r.lease[l].was[c].mode \in Modes => c \in r.lease[l].crtcs
            /\ \A o \in r.lease[l].was[c].routes : \A e \in Encoders[o] : c \in e
       /\ r.server.isDummy => r.lease[l].crtcs = {}
       /\ l \in r.kernel.lessees => r.lease[l].crtcs # {} /\ r.lease[l].outputs # {}

-----------------------------------------------------------------------------
(***************************************************************************)
(* What is claimed about a CRTC, and what the kernel does to it.           *)
(***************************************************************************)
\* What no call of the driver's own functions changes.
Stays(r, q) ==
  /\ q \in Statuses
  /\ q.server = r.server /\ q.output = r.output /\ q.lease = r.lease
  /\ q.kernel.lessees = r.kernel.lessees /\ q.next = r.next

\* Where nothing is unsure, the kernel is as it was.
Vouched(r, q) ==
  /\ q.asleep = r.asleep /\ q.kernel.on = r.kernel.on
  /\ \A d \in Crtcs : d \notin q.unsure => d \notin r.unsure /\ q.kernel.crtc[d] = r.kernel.crtc[d]

\* What a CRTC shows that is off.
LEMMA OffShown == Off \in Shown /\ Off.routes = {} /\ Off.mode = NoMode
BY DEF Off, Shown

\* The kernel sets CRTC c: what the others show.
LEMMA SetCrtcFacts ==
  ASSUME NEW k \in Kernels, NEW c \in Crtcs, NEW shown \in Shown
  PROVE  LET q == DrmModeSetCrtc(k, c, shown)
         IN /\ q \in Kernels /\ q.on = k.on /\ q.lessees = k.lessees
            /\ q.crtc[c] = shown
            /\ \A d \in Crtcs \ {c} : k.crtc[d] = Off => q.crtc[d] = Off
            /\ \A d \in Crtcs \ {c} :
                 k.crtc[d].routes # {} /\ k.crtc[d].routes \cap shown.routes = {} =>
                   q.crtc[d] = k.crtc[d]
            /\ \A d \in Crtcs \ {c} :
                 ~(k.crtc[d].routes \subseteq shown.routes) =>
                   q.crtc[d] = [mode |-> k.crtc[d].mode, routes |-> k.crtc[d].routes \ shown.routes]
<1> DEFINE crtcs == [d \in Crtcs |->
                      IF d = c THEN shown
                      ELSE IF k.crtc[d].routes \subseteq shown.routes THEN Off
                      ELSE [k.crtc[d] EXCEPT !.routes = @ \ shown.routes]]
           q == DrmModeSetCrtc(k, c, shown)
<1>1. k.crtc \in [Crtcs -> Shown] /\ k.on \in SUBSET Outputs /\ k.lessees \in SUBSET Lessees
  BY DEF Kernels
<1>2. \A d \in Crtcs : k.crtc[d].routes \in SUBSET Outputs /\ k.crtc[d].mode \in Modes \cup {NoMode, Foreign}
  BY <1>1 DEF Shown
<1>3. crtcs \in [Crtcs -> Shown]
  <2> SUFFICES ASSUME NEW d \in Crtcs PROVE crtcs[d] \in Shown
    OBVIOUS
  <2>1. [k.crtc[d] EXCEPT !.routes = @ \ shown.routes] \in Shown
    BY <1>1, <1>2 DEF Shown
  <2> QED
    BY <2>1, OffShown
<1>4. q = [k EXCEPT !.crtc = crtcs]
  BY DEF DrmModeSetCrtc
<1>5. q \in Kernels /\ q.on = k.on /\ q.lessees = k.lessees /\ q.crtc = crtcs
  BY <1>1, <1>3, <1>4 DEF Kernels
<1>6. crtcs[c] = shown
  OBVIOUS
<1>7. ASSUME NEW d \in Crtcs \ {c}, k.crtc[d] = Off PROVE crtcs[d] = Off
  BY <1>7, OffShown
<1>8. ASSUME NEW d \in Crtcs \ {c}, k.crtc[d].routes # {}, k.crtc[d].routes \cap shown.routes = {}
      PROVE  crtcs[d] = k.crtc[d]
  <2>1. ~(k.crtc[d].routes \subseteq shown.routes)
    BY <1>8
  <2>2. k.crtc[d].routes \ shown.routes = k.crtc[d].routes
    BY <1>8
  <2>3. k.crtc[d] \in Shown
    BY <1>1
  <2>4. [k.crtc[d] EXCEPT !.routes = k.crtc[d].routes] = k.crtc[d]
    BY <2>3 DEF Shown
  <2>5. crtcs[d] = [k.crtc[d] EXCEPT !.routes = k.crtc[d].routes \ shown.routes]
    BY <2>1
  <2> QED
    BY <2>2, <2>4, <2>5
<1>10. ASSUME NEW d \in Crtcs \ {c}, ~(k.crtc[d].routes \subseteq shown.routes)
       PROVE  crtcs[d] = [mode |-> k.crtc[d].mode, routes |-> k.crtc[d].routes \ shown.routes]
  <2>1. crtcs[d] = [k.crtc[d] EXCEPT !.routes = k.crtc[d].routes \ shown.routes]
    BY <1>10
  <2>2. k.crtc[d] \in Shown
    BY <1>1
  <2> HIDE DEF crtcs
  <2> QED
    BY <2>1, <2>2 DEF Shown
<1> HIDE DEF crtcs, q
<1>9. /\ q \in Kernels /\ q.on = k.on /\ q.lessees = k.lessees
      /\ q.crtc[c] = shown
      /\ \A d \in Crtcs \ {c} : k.crtc[d] = Off => q.crtc[d] = Off
      /\ \A d \in Crtcs \ {c} :
           k.crtc[d].routes # {} /\ k.crtc[d].routes \cap shown.routes = {} =>
             q.crtc[d] = k.crtc[d]
      /\ \A d \in Crtcs \ {c} :
           ~(k.crtc[d].routes \subseteq shown.routes) =>
             q.crtc[d] = [mode |-> k.crtc[d].mode, routes |-> k.crtc[d].routes \ shown.routes]
  BY <1>5, <1>6, <1>7, <1>8, <1>10
<1> QED
  BY <1>9 DEF q

\* The kernel turns CRTC c off.
LEMMA SetCrtcOff ==
  ASSUME NEW k \in Kernels, NEW c \in Crtcs
  PROVE  LET q == DrmModeSetCrtc(k, c, Off)
         IN /\ q \in Kernels /\ q.on = k.on /\ q.lessees = k.lessees
            /\ q.crtc[c] = Off
            /\ \A d \in Crtcs \ {c} : k.crtc[d] = Off => q.crtc[d] = Off
            /\ \A d \in Crtcs \ {c} : k.crtc[d].routes # {} => q.crtc[d] = k.crtc[d]
<1>1. Off \in Shown
  BY OffShown
<1>2. \A s : s \cap Off.routes = {}
  BY OffShown
<1> SUFFICES ASSUME NEW off \in Shown, off = Off, NEW q, q = DrmModeSetCrtc(k, c, off)
             PROVE  /\ q \in Kernels /\ q.on = k.on /\ q.lessees = k.lessees
                    /\ q.crtc[c] = off
                    /\ \A d \in Crtcs \ {c} : k.crtc[d] = Off => q.crtc[d] = Off
                    /\ \A d \in Crtcs \ {c} : k.crtc[d].routes # {} => q.crtc[d] = k.crtc[d]
  BY <1>1
<1>3. /\ q \in Kernels /\ q.on = k.on /\ q.lessees = k.lessees
      /\ q.crtc[c] = off
      /\ \A d \in Crtcs \ {c} : k.crtc[d] = Off => q.crtc[d] = Off
      /\ \A d \in Crtcs \ {c} :
           k.crtc[d].routes # {} /\ k.crtc[d].routes \cap off.routes = {} => q.crtc[d] = k.crtc[d]
  BY SetCrtcFacts
<1> QED
  BY <1>2, <1>3

\* No output has two CRTCs.
LEMMA RoutesFacts ==
  ASSUME NEW r \in Statuses, NEW c
  PROVE  /\ RoutesOf(r, c) \in SUBSET Outputs
         /\ \A d : d # c => RoutesOf(r, c) \cap RoutesOf(r, d) = {}
         /\ \A q : q.output = r.output => RoutesOf(q, c) = RoutesOf(r, c)
BY DEF RoutesOf

\* fbdev_lcd_output_dpms switches outputs and changes nothing else.
LEMMA DpmsFacts ==
  ASSUME NEW r \in Statuses, NEW outs \in SUBSET Outputs, NEW on \in BOOLEAN
  PROVE  LET q == OutputDpms(r, outs, on)
         IN /\ Stays(r, q) /\ q.crtc = r.crtc /\ q.scanout = r.scanout
            /\ q.unsure = r.unsure /\ q.asleep = r.asleep /\ q.ok = r.ok
            /\ q.kernel.crtc = r.kernel.crtc
            /\ q.kernel.on = IF on THEN r.kernel.on \cup outs ELSE r.kernel.on \ outs
<1> DEFINE K == [r.kernel EXCEPT !.on = IF on THEN r.kernel.on \cup outs ELSE r.kernel.on \ outs]
           q == OutputDpms(r, outs, on)
<1>1. r.kernel \in Kernels
  BY DEF Statuses
<1>2. /\ K \in Kernels /\ K.crtc = r.kernel.crtc /\ K.lessees = r.kernel.lessees
      /\ K.on = IF on THEN r.kernel.on \cup outs ELSE r.kernel.on \ outs
  BY <1>1 DEF Kernels
<1>3. q = [r EXCEPT !.kernel = K]
  BY DEF OutputDpms
<1> HIDE DEF K, q
<1>4. /\ Stays(r, q) /\ q.crtc = r.crtc /\ q.scanout = r.scanout
      /\ q.unsure = r.unsure /\ q.asleep = r.asleep /\ q.ok = r.ok
      /\ q.kernel = K
  BY <1>2, <1>3 DEF Stays, Statuses
<1> QED
  BY <1>2, <1>4 DEF q

-----------------------------------------------------------------------------
(***************************************************************************)
(* fbdev_lcd_crtc_set_mode_major: how it can end.                          *)
(***************************************************************************)
\* The status with another kernel.
LEMMA WithKernel ==
  ASSUME NEW r \in Statuses, NEW k \in Kernels, k.lessees = r.kernel.lessees
  PROVE  LET q == [r EXCEPT !.kernel = k]
         IN /\ Stays(r, q) /\ q.crtc = r.crtc /\ q.scanout = r.scanout /\ q.kernel = k
            /\ q.unsure = r.unsure /\ q.asleep = r.asleep /\ q.ok = r.ok
BY DEF Stays, Statuses

\* What Light does to the kernel.
LEMMA LightFacts ==
  ASSUME NEW r \in Statuses, NEW c \in Crtcs, NEW shown \in Shown
  PROVE  LET q == Light(r, c, shown)
         IN /\ Stays(r, q) /\ q.crtc = r.crtc /\ q.scanout = r.scanout
            /\ q.unsure = r.unsure /\ q.asleep = r.asleep /\ q.ok = r.ok
            /\ q.kernel.crtc = DrmModeSetCrtc(r.kernel, c, shown).crtc
            /\ q.kernel.on = r.kernel.on \cup shown.routes
<1> DEFINE k == DrmModeSetCrtc(r.kernel, c, shown)
           s == [r EXCEPT !.kernel = k]
           q == OutputDpms(s, shown.routes, TRUE)
<1>1. r.kernel \in Kernels
  BY DEF Statuses
<1>2. k \in Kernels /\ k.on = r.kernel.on /\ k.lessees = r.kernel.lessees
  BY <1>1, SetCrtcFacts
<1> HIDE DEF k
<1>3. /\ Stays(r, s) /\ s.crtc = r.crtc /\ s.scanout = r.scanout /\ s.kernel = k
      /\ s.unsure = r.unsure /\ s.asleep = r.asleep /\ s.ok = r.ok
  BY <1>2, WithKernel
<1> HIDE DEF s
<1>4. shown.routes \in SUBSET Outputs
  BY DEF Shown
<1>5. s \in Statuses
  BY <1>3 DEF Stays
<1>6. /\ Stays(s, q) /\ q.crtc = s.crtc /\ q.scanout = s.scanout
      /\ q.unsure = s.unsure /\ q.asleep = s.asleep /\ q.ok = s.ok
      /\ q.kernel.crtc = s.kernel.crtc
      /\ q.kernel.on = s.kernel.on \cup shown.routes
  BY <1>4, <1>5, DpmsFacts
<1>7. q = Light(r, c, shown)
  BY DEF Light, k, s
<1> HIDE DEF q
<1>8. /\ Stays(r, q) /\ q.crtc = r.crtc /\ q.scanout = r.scanout
      /\ q.unsure = r.unsure /\ q.asleep = r.asleep /\ q.ok = r.ok
      /\ q.kernel.crtc = k.crtc
      /\ q.kernel.on = r.kernel.on \cup shown.routes
  BY <1>2, <1>3, <1>6 DEF Stays
<1> QED
  BY <1>7, <1>8 DEF k

\* A mode set writes the mode on record, or does not come so far.
ModeOnRecord(r, q, c, mode) == q.crtc = [r.crtc EXCEPT ![c].mode = mode]

\* The ends of a mode set: a dummy, no framebuffer, no buffer, refused, lit.
LEMMA ModeSetCases ==
  ASSUME NEW r \in Statuses, NEW c \in Crtcs, NEW mode \in Modes \cup {NoMode}, NEW outcome
  PROVE  LET q == SetModeMajor(r, c, mode, outcome)
             shown == [mode |-> mode, routes |-> RoutesOf(r, c)]
         IN /\ Stays(r, q)
            /\ \/ /\ r.server.isDummy /\ q.ok
                  /\ Vouched(r, q) /\ q.crtc = r.crtc /\ q.scanout = r.scanout
               \/ /\ ~r.server.isDummy /\ ~q.ok
                  /\ Vouched(r, q) /\ q.crtc = r.crtc /\ q.scanout = r.scanout
                  /\ r.scanout = "no_fb"
               \/ /\ ~r.server.isDummy /\ r.scanout = "none" /\ q.scanout = "none"
                  /\ Vouched(r, q) /\ ModeOnRecord(r, q, c, mode)
               \/ /\ ~r.server.isDummy /\ r.scanout # "none" /\ q.scanout = "fb" /\ ~q.ok
                  /\ Vouched(r, q) /\ ModeOnRecord(r, q, c, mode)
               \/ /\ ~r.server.isDummy /\ r.scanout # "none" /\ q.scanout = "fb" /\ q.ok
                  /\ ModeOnRecord(r, q, c, mode)
                  /\ RoutesOf(r, c) # {} /\ mode # NoMode
                  /\ q.kernel.crtc = DrmModeSetCrtc(r.kernel, c, shown).crtc
                  /\ q.kernel.on = r.kernel.on \cup RoutesOf(r, c)
                  /\ q.unsure = r.unsure \ {c} /\ q.asleep = r.asleep \ {c}
<1> DEFINE r1 == IF r.scanout = "no_fb" THEN [r EXCEPT !.scanout = "fb"] ELSE r
           m == [r1 EXCEPT !.crtc[c].mode = mode, !.ok = TRUE]
           shown == [mode |-> mode, routes |-> RoutesOf(m, c)]
           k == DrmModeSetCrtc(m.kernel, c, shown)
           refused == outcome = "refused" \/ mode = NoMode \/ shown.routes = {}
           bad == [m EXCEPT !.kernel = k, !.ok = FALSE, !.unsure = Unsure(m, k, c)]
           lit == [Light(m, c, shown) EXCEPT !.unsure = @ \ {c}, !.asleep = @ \ {c}]
           q == SetModeMajor(r, c, mode, outcome)
<1>1. q = IF r.server.isDummy THEN [r EXCEPT !.ok = TRUE]
          ELSE IF r.scanout = "no_fb" /\ outcome = "no_fb" THEN [r EXCEPT !.ok = FALSE]
          ELSE IF outcome = "no_rotation" THEN [m EXCEPT !.ok = FALSE]
          ELSE IF m.scanout = "none" THEN m
          ELSE IF refused THEN [m EXCEPT !.ok = FALSE]
          ELSE IF outcome = "not_read_back" THEN bad
          ELSE lit
  BY DEF SetModeMajor
<1>2. /\ r1 \in Statuses /\ Stays(r, r1) /\ Vouched(r, r1) /\ r1.crtc = r.crtc
      /\ r1.kernel = r.kernel /\ r1.unsure = r.unsure
      /\ r1.scanout = IF r.scanout = "no_fb" THEN "fb" ELSE r.scanout
  BY DEF Stays, Statuses, Vouched, Scanouts
<1> HIDE DEF r1
<1>3. r1.crtc \in [Crtcs -> CrtcRecs] /\ r.scanout \in Scanouts
  BY <1>2 DEF Statuses
<1>4. [r1.crtc EXCEPT ![c].mode = mode] \in [Crtcs -> CrtcRecs]
  BY <1>3 DEF CrtcRecs
<1>5. /\ m \in Statuses /\ Stays(r, m) /\ Vouched(r, m) /\ ModeOnRecord(r, m, c, mode) /\ m.ok
      /\ m.kernel = r.kernel /\ m.unsure = r.unsure
      /\ m.scanout = r1.scanout
  BY <1>2, <1>4 DEF Stays, Statuses, Vouched, ModeOnRecord
<1> HIDE DEF m
<1>6. RoutesOf(m, c) = RoutesOf(r, c) /\ RoutesOf(m, c) \in SUBSET Outputs
  BY <1>5, RoutesFacts DEF Stays
<1>7. shown = [mode |-> mode, routes |-> RoutesOf(r, c)] /\ shown \in Shown
  BY <1>6 DEF Shown
<1>8. m.kernel \in Kernels
  BY <1>5 DEF Statuses
<1>9. k \in Kernels /\ k.on = r.kernel.on /\ k.lessees = r.kernel.lessees
  BY <1>5, <1>7, <1>8, SetCrtcFacts
<1> HIDE DEF shown
<1>10. CASE r.server.isDummy
  <2>1. q = [r EXCEPT !.ok = TRUE]
    BY <1>1, <1>10
  <2>2. Stays(r, q) /\ q.ok /\ Vouched(r, q) /\ q.crtc = r.crtc /\ q.scanout = r.scanout
    BY <2>1 DEF Stays, Statuses, Vouched
  <2> QED
    BY <1>10, <2>2
<1>11. CASE ~r.server.isDummy /\ r.scanout = "no_fb" /\ outcome = "no_fb"
  <2>1. q = [r EXCEPT !.ok = FALSE]
    BY <1>1, <1>11
  <2>2. Stays(r, q) /\ ~q.ok /\ Vouched(r, q) /\ q.crtc = r.crtc /\ q.scanout = r.scanout
    BY <2>1 DEF Stays, Statuses, Vouched
  <2> QED
    BY <1>11, <2>2
<1>12. CASE /\ ~r.server.isDummy /\ ~(r.scanout = "no_fb" /\ outcome = "no_fb")
            /\ outcome = "no_rotation" \/ (m.scanout # "none" /\ refused)
  <2>1. q = [m EXCEPT !.ok = FALSE]
    BY <1>1, <1>12
  <2>2. /\ Stays(r, q) /\ ~q.ok /\ Vouched(r, q) /\ ModeOnRecord(r, q, c, mode)
        /\ q.scanout = m.scanout
    BY <2>1, <1>5 DEF Stays, Statuses, Vouched, ModeOnRecord
  <2> QED
    BY <1>2, <1>3, <1>5, <1>12, <2>2 DEF Scanouts
<1>13. CASE ~r.server.isDummy /\ outcome # "no_rotation" /\ m.scanout = "none"
  <2>1. r.scanout = "none" /\ q = m
    BY <1>1, <1>2, <1>3, <1>5, <1>13 DEF Scanouts
  <2> QED
    BY <1>5, <1>13, <2>1
<1>14. CASE /\ ~r.server.isDummy /\ ~(r.scanout = "no_fb" /\ outcome = "no_fb")
            /\ m.scanout # "none" /\ ~refused /\ outcome = "not_read_back"
  <2>1. q = bad
    BY <1>1, <1>14
  <2>2. Unsure(m, k, c) \in SUBSET Crtcs
    BY <1>5 DEF Unsure, Statuses
  <2> DEFINE u == Unsure(m, k, c)
  <2>3. \A d \in Crtcs : d \notin u => d \notin r.unsure /\ k.crtc[d] = r.kernel.crtc[d]
    BY <1>5 DEF Unsure
  <2> HIDE DEF u, k
  <2>4. /\ q \in Statuses /\ q.kernel = k /\ q.unsure = u /\ ~q.ok /\ q.scanout = m.scanout
        /\ q.server = m.server /\ q.output = m.output /\ q.lease = m.lease /\ q.next = m.next
        /\ q.crtc = m.crtc /\ q.asleep = m.asleep
    BY <1>5, <1>9, <2>1, <2>2 DEF Statuses, u
  <2>5. Stays(r, q) /\ ModeOnRecord(r, q, c, mode)
    BY <1>5, <1>9, <2>4 DEF Stays, ModeOnRecord
  <2>6. Vouched(r, q)
    BY <1>5, <1>9, <2>3, <2>4 DEF Vouched
  <2>7. r.scanout # "none" /\ q.scanout = "fb"
    BY <1>2, <1>3, <1>5, <1>14, <2>4 DEF Scanouts
  <2> QED
    BY <1>14, <2>4, <2>5, <2>6, <2>7
<1>15. CASE /\ ~r.server.isDummy /\ ~(r.scanout = "no_fb" /\ outcome = "no_fb")
            /\ m.scanout # "none" /\ ~refused /\ outcome # "not_read_back" /\ outcome # "no_rotation"
  <2>1. q = lit
    BY <1>1, <1>15
  <2> DEFINE L == Light(m, c, shown)
  <2>0. m \in Statuses /\ shown \in Shown
    BY <1>5, <1>7
  <2>2. /\ Stays(m, L) /\ L.crtc = m.crtc /\ L.scanout = m.scanout
        /\ L.unsure = m.unsure /\ L.asleep = m.asleep /\ L.ok = m.ok
        /\ L.kernel.crtc = k.crtc
        /\ L.kernel.on = m.kernel.on \cup shown.routes
    BY <2>0, LightFacts
  <2>3. q = [L EXCEPT !.unsure = @ \ {c}, !.asleep = @ \ {c}]
    BY <2>1
  <2>4. k = DrmModeSetCrtc(r.kernel, c, [mode |-> mode, routes |-> RoutesOf(r, c)])
    BY <1>5, <1>7
  <2> HIDE DEF L, k
  <2>5. /\ Stays(L, q) /\ q.crtc = L.crtc /\ q.scanout = L.scanout /\ q.ok = L.ok
        /\ q.kernel = L.kernel /\ q.unsure = L.unsure \ {c} /\ q.asleep = L.asleep \ {c}
    BY <2>2, <2>3 DEF Stays, Statuses
  <2>6. Stays(r, q) /\ ModeOnRecord(r, q, c, mode) /\ q.ok
    BY <1>5, <2>2, <2>5 DEF Stays, ModeOnRecord
  <2>7. /\ q.kernel.crtc = k.crtc /\ q.kernel.on = r.kernel.on \cup RoutesOf(r, c)
        /\ q.unsure = r.unsure \ {c} /\ q.asleep = r.asleep \ {c}
    BY <1>5, <1>6, <1>7, <2>2, <2>5 DEF Vouched
  <2>8. r.scanout # "none" /\ q.scanout = "fb"
    BY <1>2, <1>3, <1>5, <1>15, <2>2, <2>5 DEF Scanouts
  <2>9. RoutesOf(r, c) # {} /\ mode # NoMode
    BY <1>7, <1>15
  <2> QED
    BY <1>15, <2>4, <2>6, <2>7, <2>8, <2>9
<1> QED
  BY <1>10, <1>11, <1>12, <1>13, <1>14, <1>15

\* What a claim about CRTC d is made of.
LEMMA ShownStays ==
  ASSUME NEW r \in Statuses, NEW q \in Statuses, NEW d \in Crtcs, ShownAt(r, d),
         q.output = r.output,
         q.crtc[d].enabled => r.crtc[d].enabled, q.crtc[d].mode = r.crtc[d].mode,
         d \notin q.unsure => d \notin r.unsure,
         d \notin q.asleep => d \notin r.asleep,
         d \notin q.unsure /\ RoutesOf(r, d) # {} /\ r.kernel.crtc[d].routes = RoutesOf(r, d) =>
           q.kernel.crtc[d] = r.kernel.crtc[d],
         d \notin q.unsure /\ d \notin q.asleep =>
           RoutesOf(r, d) \cap r.kernel.on \subseteq q.kernel.on
  PROVE  ShownAt(q, d)
<1> SUFFICES ASSUME DrivenBy(q, d), d \notin q.asleep, d \notin q.unsure
             PROVE  /\ q.kernel.crtc[d] = [mode |-> q.crtc[d].mode, routes |-> RoutesOf(q, d)]
                    /\ RoutesOf(q, d) \subseteq q.kernel.on
  BY DEF ShownAt
<1>1. RoutesOf(q, d) = RoutesOf(r, d)
  BY RoutesFacts
<1>2. DrivenBy(r, d) /\ RoutesOf(r, d) # {} /\ d \notin r.asleep /\ d \notin r.unsure
  BY <1>1 DEF DrivenBy
<1>3. /\ r.kernel.crtc[d] = [mode |-> r.crtc[d].mode, routes |-> RoutesOf(r, d)]
      /\ RoutesOf(r, d) \subseteq r.kernel.on
  BY <1>2 DEF ShownAt
<1>4. r.kernel.crtc[d].routes = RoutesOf(r, d)
  BY <1>3
<1>5. q.kernel.crtc[d] = r.kernel.crtc[d]
  BY <1>2, <1>4
<1>6. RoutesOf(r, d) \subseteq q.kernel.on
  BY <1>3
<1> QED
  BY <1>1, <1>3, <1>5, <1>6

\* What the claim that CRTC d is off is made of.
LEMMA OffStays ==
  ASSUME NEW r \in Statuses, NEW q \in Statuses, NEW d \in Crtcs, OffAt(r, d),
         q.lease = r.lease, r.crtc[d].enabled => q.crtc[d].enabled,
         d \notin q.unsure => d \notin r.unsure,
         d \notin q.unsure /\ r.kernel.crtc[d] = Off => q.kernel.crtc[d] = Off
  PROVE  OffAt(q, d)
BY DEF OffAt, CrtcIsLeased

\* What the records and the claims are after a mode set.
LEMMA ModeSetFacts ==
  ASSUME NEW r \in Statuses, NEW c \in Crtcs, NEW mode \in Modes \cup {NoMode}, NEW outcome
  PROVE  LET q == SetModeMajor(r, c, mode, outcome)
         IN /\ Stays(r, q) /\ (Real(q) <=> Real(r))
            /\ \A d \in Crtcs : /\ q.crtc[d].enabled = r.crtc[d].enabled
                                /\ q.crtc[d].desiredMode = r.crtc[d].desiredMode
                                /\ d # c => q.crtc[d].mode = r.crtc[d].mode
            /\ q.crtc[c].mode = mode \/ q.crtc[c].mode = r.crtc[c].mode
            /\ r.scanout # "no_fb" => q.scanout = r.scanout
            /\ q.asleep \subseteq r.asleep /\ r.unsure \ {c} \subseteq q.unsure
            /\ \A d \in Crtcs \ {c} : /\ ShownAt(r, d) => ShownAt(q, d)
                                      /\ OffAt(r, d) => OffAt(q, d)
            /\ r.crtc[c].enabled => OffAt(q, c)
            /\ Real(r) /\ q.ok => q.scanout = "fb" /\ q.crtc[c].mode = mode /\ ShownAt(q, c)
            /\ ~r.server.isDummy /\ q.ok => q.crtc[c].mode = mode
            /\ ~q.ok => Vouched(r, q)
            /\ Real(r) /\ ~q.ok =>
                 \/ q.scanout = "fb" /\ q.crtc[c].mode = mode
                 \/ r.scanout = "no_fb" /\ q.scanout = "no_fb" /\ q.crtc = r.crtc
<1> DEFINE q == SetModeMajor(r, c, mode, outcome)
           shown == [mode |-> mode, routes |-> RoutesOf(r, c)]
           k == DrmModeSetCrtc(r.kernel, c, shown)
           lit == /\ ~r.server.isDummy /\ r.scanout # "none" /\ q.scanout = "fb" /\ q.ok
                  /\ ModeOnRecord(r, q, c, mode)
                  /\ RoutesOf(r, c) # {} /\ mode # NoMode
                  /\ q.kernel.crtc = k.crtc
                  /\ q.kernel.on = r.kernel.on \cup RoutesOf(r, c)
                  /\ q.unsure = r.unsure \ {c} /\ q.asleep = r.asleep \ {c}
           unlit == Vouched(r, q) /\ (q.crtc = r.crtc \/ ModeOnRecord(r, q, c, mode))
<1>1. /\ Stays(r, q)
      /\ \/ unlit /\ r.server.isDummy /\ q.ok /\ q.crtc = r.crtc /\ q.scanout = r.scanout
         \/ /\ unlit /\ ~r.server.isDummy /\ ~q.ok
            /\ q.crtc = r.crtc /\ q.scanout = r.scanout /\ r.scanout = "no_fb"
         \/ /\ unlit /\ ~r.server.isDummy /\ r.scanout = "none" /\ q.scanout = "none"
            /\ ModeOnRecord(r, q, c, mode)
         \/ /\ unlit /\ ~r.server.isDummy /\ r.scanout # "none" /\ q.scanout = "fb" /\ ~q.ok
            /\ ModeOnRecord(r, q, c, mode)
         \/ lit
  BY ModeSetCases
<1> HIDE DEF q
<1>2. /\ r.crtc \in [Crtcs -> CrtcRecs] /\ r.kernel \in Kernels /\ r.scanout \in Scanouts
      /\ q \in Statuses /\ q.output = r.output /\ q.lease = r.lease
  BY <1>1 DEF Statuses, Stays
<1>3. shown \in Shown /\ shown.routes = RoutesOf(r, c)
  BY RoutesFacts DEF Shown
<1>0. r.kernel \in Kernels /\ shown \in Shown
  BY <1>2, <1>3
<1> HIDE DEF shown
<1>4. /\ k \in Kernels /\ k.crtc[c] = shown
      /\ \A d \in Crtcs \ {c} : r.kernel.crtc[d] = Off => k.crtc[d] = Off
      /\ \A d \in Crtcs \ {c} :
           r.kernel.crtc[d].routes # {} /\ r.kernel.crtc[d].routes \cap shown.routes = {} =>
             k.crtc[d] = r.kernel.crtc[d]
  <2> DEFINE before == r.kernel
             after == DrmModeSetCrtc(before, c, shown)
  <2>1. before \in Kernels /\ shown \in Shown
    BY <1>0
  <2> HIDE DEF before
  <2>2. /\ after \in Kernels /\ after.crtc[c] = shown
        /\ \A d \in Crtcs \ {c} : before.crtc[d] = Off => after.crtc[d] = Off
        /\ \A d \in Crtcs \ {c} :
             before.crtc[d].routes # {} /\ before.crtc[d].routes \cap shown.routes = {} =>
               after.crtc[d] = before.crtc[d]
    BY <2>1, SetCrtcFacts
  <2> QED
    BY <2>2 DEF before
<1> USE DEF shown
<1> HIDE DEF k
<1>5. Real(q) <=> Real(r)
  BY <1>1 DEF Real, Stays
<1>6. ASSUME NEW d \in Crtcs
      PROVE  /\ q.crtc[d].enabled = r.crtc[d].enabled
             /\ q.crtc[d].desiredMode = r.crtc[d].desiredMode
             /\ d # c => q.crtc[d].mode = r.crtc[d].mode
  BY <1>1, <1>2 DEF ModeOnRecord, CrtcRecs
<1>7. /\ ModeOnRecord(r, q, c, mode) => q.crtc[c].mode = mode
      /\ q.crtc[c].mode = mode \/ q.crtc[c].mode = r.crtc[c].mode
  BY <1>1, <1>2 DEF ModeOnRecord, CrtcRecs
<1>8. q.asleep \subseteq r.asleep /\ r.unsure \ {c} \subseteq q.unsure
  <2>1. r.unsure \subseteq Crtcs
    BY DEF Statuses
  <2> QED
    BY <1>1, <2>1 DEF Vouched
<1>9. ASSUME NEW d \in Crtcs \ {c}, ShownAt(r, d) PROVE ShownAt(q, d)
  <2>1. CASE unlit
    BY <1>2, <1>6, <1>9, <2>1, ShownStays DEF Vouched
  <2>2. CASE lit
    <3>1. RoutesOf(r, c) \cap RoutesOf(r, d) = {}
      BY RoutesFacts
    <3>2. RoutesOf(r, d) # {} /\ r.kernel.crtc[d].routes = RoutesOf(r, d) =>
            q.kernel.crtc[d] = r.kernel.crtc[d]
      BY <1>3, <1>4, <2>2, <3>1
    <3>3. RoutesOf(r, d) \cap r.kernel.on \subseteq q.kernel.on
      BY <2>2
    <3>4. (d \notin q.unsure => d \notin r.unsure) /\ (d \notin q.asleep => d \notin r.asleep)
      BY <2>2
    <3> HIDE DEF lit
    <3> QED
      BY <1>2, <1>6, <1>9, <3>2, <3>3, <3>4, ShownStays
  <2> QED
    BY <1>1, <2>1, <2>2
<1>10. ASSUME NEW d \in Crtcs \ {c}, OffAt(r, d) PROVE OffAt(q, d)
  <2>1. CASE unlit
    BY <1>2, <1>6, <1>10, <2>1, OffStays DEF Vouched
  <2>2. CASE lit
    BY <1>2, <1>4, <1>6, <1>10, <2>2, OffStays
  <2> QED
    BY <1>1, <2>1, <2>2
<1>11. r.crtc[c].enabled => OffAt(q, c)
  BY <1>6 DEF OffAt
<1>12. ASSUME Real(r), q.ok PROVE q.scanout = "fb" /\ q.crtc[c].mode = mode /\ ShownAt(q, c)
  <2>1. lit
    BY <1>1, <1>12 DEF Real
  <2>2. RoutesOf(q, c) = RoutesOf(r, c)
    BY <1>2, RoutesFacts
  <2> QED
    BY <1>4, <1>7, <2>1, <2>2 DEF ShownAt
<1>13. ~r.server.isDummy /\ q.ok => q.crtc[c].mode = mode
  BY <1>1, <1>7
<1>14. ~q.ok => Vouched(r, q)
  BY <1>1
<1>15. Real(r) /\ ~q.ok =>
         \/ q.scanout = "fb" /\ q.crtc[c].mode = mode
         \/ r.scanout = "no_fb" /\ q.scanout = "no_fb" /\ q.crtc = r.crtc
  BY <1>1, <1>7 DEF Real
<1>16. r.scanout # "no_fb" => q.scanout = r.scanout
  BY <1>1, <1>2 DEF Scanouts
<1>17. /\ Stays(r, q) /\ (Real(q) <=> Real(r))
       /\ \A d \in Crtcs : /\ q.crtc[d].enabled = r.crtc[d].enabled
                           /\ q.crtc[d].desiredMode = r.crtc[d].desiredMode
                           /\ d # c => q.crtc[d].mode = r.crtc[d].mode
       /\ q.crtc[c].mode = mode \/ q.crtc[c].mode = r.crtc[c].mode
       /\ r.scanout # "no_fb" => q.scanout = r.scanout
       /\ q.asleep \subseteq r.asleep /\ r.unsure \ {c} \subseteq q.unsure
       /\ \A d \in Crtcs \ {c} : /\ ShownAt(r, d) => ShownAt(q, d)
                                 /\ OffAt(r, d) => OffAt(q, d)
       /\ r.crtc[c].enabled => OffAt(q, c)
       /\ Real(r) /\ q.ok => q.scanout = "fb" /\ q.crtc[c].mode = mode /\ ShownAt(q, c)
       /\ ~r.server.isDummy /\ q.ok => q.crtc[c].mode = mode
       /\ ~q.ok => Vouched(r, q)
       /\ Real(r) /\ ~q.ok =>
            \/ q.scanout = "fb" /\ q.crtc[c].mode = mode
            \/ r.scanout = "no_fb" /\ q.scanout = "no_fb" /\ q.crtc = r.crtc
  <2>1. Stays(r, q)
    BY <1>1
  <2> HIDE DEF lit, unlit, shown
  <2> QED
    BY <1>5, <1>6, <1>7, <1>8, <1>9, <1>10, <1>11, <1>12, <1>13, <1>14, <1>15, <1>16, <2>1
<1> QED
  BY <1>17 DEF q

-----------------------------------------------------------------------------
(***************************************************************************)
(* Turning a CRTC off.                                                     *)
(***************************************************************************)
\* The claims about the CRTCs when CRTC c is turned off.
GoesOff(r, q, c) ==
  /\ Stays(r, q) /\ q.crtc = r.crtc /\ q.scanout = r.scanout
  /\ q.asleep = r.asleep /\ r.unsure \ {c} \subseteq q.unsure
  /\ \A d \in Crtcs \ {c} : /\ ShownAt(r, d) => ShownAt(q, d)
                            /\ OffAt(r, d) => OffAt(q, d)
  /\ ~r.server.isDummy => OffAt(q, c)
  /\ ~r.crtc[c].enabled => ShownAt(q, c)

\* The kernel turns it off.
LEMMA KernelGoesOff ==
  ASSUME NEW r \in Statuses, NEW q, NEW c \in Crtcs,
         Stays(r, q), q.crtc = r.crtc, q.scanout = r.scanout, q.asleep = r.asleep,
         q.unsure = r.unsure \ {c},
         q.kernel.crtc = DrmModeSetCrtc(r.kernel, c, Off).crtc,
         r.kernel.on \ RoutesOf(r, c) \subseteq q.kernel.on
  PROVE  GoesOff(r, q, c)
<1> DEFINE k == DrmModeSetCrtc(r.kernel, c, Off)
<1>1. r.kernel \in Kernels
  BY DEF Statuses
<1>2. /\ k.crtc[c] = Off
      /\ \A d \in Crtcs \ {c} : r.kernel.crtc[d] = Off => k.crtc[d] = Off
      /\ \A d \in Crtcs \ {c} : r.kernel.crtc[d].routes # {} => k.crtc[d] = r.kernel.crtc[d]
  BY <1>1, SetCrtcOff
<1> HIDE DEF k
<1>3. q.kernel.crtc = k.crtc /\ q \in Statuses /\ q.output = r.output /\ q.lease = r.lease
  BY DEF k, Stays
<1>4. ASSUME NEW d \in Crtcs \ {c}, ShownAt(r, d) PROVE ShownAt(q, d)
  <2>1. RoutesOf(r, c) \cap RoutesOf(r, d) = {}
    BY RoutesFacts
  <2>2. RoutesOf(r, d) \cap r.kernel.on \subseteq q.kernel.on
    BY <2>1
  <2> QED
    BY <1>2, <1>3, <1>4, <2>2, ShownStays
<1>5. ASSUME NEW d \in Crtcs \ {c}, OffAt(r, d) PROVE OffAt(q, d)
  BY <1>2, <1>3, <1>5, OffStays
<1>6. OffAt(q, c)
  BY <1>2, <1>3 DEF OffAt
<1>7. ~r.crtc[c].enabled => ShownAt(q, c)
  BY DEF ShownAt, DrivenBy
<1> QED
  BY <1>4, <1>5, <1>6, <1>7 DEF GoesOff

\* The kernel refuses.
LEMMA FailsToGoOff ==
  ASSUME NEW r \in Statuses, NEW c \in Crtcs
  PROVE  GoesOff(r, [r EXCEPT !.unsure = @ \cup {c}], c)
<1> DEFINE q == [r EXCEPT !.unsure = @ \cup {c}]
<1>1. /\ Stays(r, q) /\ q.crtc = r.crtc /\ q.scanout = r.scanout /\ q.asleep = r.asleep
      /\ q.unsure = r.unsure \cup {c} /\ q.kernel = r.kernel /\ q \in Statuses
      /\ q.output = r.output /\ q.lease = r.lease
  BY DEF Stays, Statuses
<1> HIDE DEF q
<1>2. \A d \in Crtcs \ {c} : /\ ShownAt(r, d) => ShownAt(q, d)
                             /\ OffAt(r, d) => OffAt(q, d)
  BY <1>1, ShownStays, OffStays
<1>3. OffAt(q, c) /\ (~r.crtc[c].enabled => ShownAt(q, c))
  BY <1>1 DEF OffAt, ShownAt, DrivenBy
<1>4. GoesOff(r, q, c)
  BY <1>1, <1>2, <1>3 DEF GoesOff
<1> QED
  BY <1>4 DEF q

\* There is nothing to turn off without KMS.
LEMMA NothingGoesOff ==
  ASSUME NEW r \in Statuses, NEW c \in Crtcs, r.server.isDummy
  PROVE  GoesOff(r, r, c)
BY DEF GoesOff, Stays, ShownAt, DrivenBy

\* A CRTC that the server turns off.
LEMMA CrtcOffFacts ==
  ASSUME NEW r \in Statuses, NEW c \in Crtcs, NEW outcome
  PROVE  GoesOff(r, CrtcDpmsOff(r, c, outcome), c)
<1>1. CASE r.server.isDummy
  BY <1>1, NothingGoesOff DEF CrtcDpmsOff
<1>2. CASE ~r.server.isDummy /\ outcome = "refused"
  BY <1>2, FailsToGoOff DEF CrtcDpmsOff
<1>3. CASE ~r.server.isDummy /\ outcome # "refused"
  <2> DEFINE k == DrmModeSetCrtc(r.kernel, c, Off)
             s == [r EXCEPT !.kernel = k]
             d == OutputDpms(s, RoutesOf(r, c), FALSE)
             q == [d EXCEPT !.unsure = @ \ {c}]
  <2>1. r.kernel \in Kernels
    BY DEF Statuses
  <2>2. k \in Kernels /\ k.on = r.kernel.on /\ k.lessees = r.kernel.lessees
    BY <2>1, SetCrtcOff
  <2> HIDE DEF k
  <2>3. /\ Stays(r, s) /\ s.crtc = r.crtc /\ s.scanout = r.scanout /\ s.kernel = k
        /\ s.unsure = r.unsure /\ s.asleep = r.asleep
    BY <2>2, WithKernel
  <2> HIDE DEF s
  <2>4. RoutesOf(r, c) \in SUBSET Outputs /\ s \in Statuses
    BY <2>3, RoutesFacts DEF Stays
  <2>5. /\ Stays(s, d) /\ d.crtc = s.crtc /\ d.scanout = s.scanout
        /\ d.unsure = s.unsure /\ d.asleep = s.asleep
        /\ d.kernel.crtc = s.kernel.crtc
        /\ d.kernel.on = s.kernel.on \ RoutesOf(r, c)
    <3> DEFINE outs == RoutesOf(r, c)
    <3>1. outs \in SUBSET Outputs
      BY <2>4
    <3> HIDE DEF outs
    <3>2. LET o == OutputDpms(s, outs, FALSE)
          IN /\ Stays(s, o) /\ o.crtc = s.crtc /\ o.scanout = s.scanout
             /\ o.unsure = s.unsure /\ o.asleep = s.asleep
             /\ o.kernel.crtc = s.kernel.crtc
             /\ o.kernel.on = s.kernel.on \ outs
      BY ZenonT(30), <2>4, <3>1, DpmsFacts
    <3> QED
      BY <3>2 DEF outs
  <2> HIDE DEF d
  <2>6. /\ Stays(d, q) /\ q.crtc = d.crtc /\ q.scanout = d.scanout /\ q.kernel = d.kernel
        /\ q.unsure = d.unsure \ {c} /\ q.asleep = d.asleep
    BY <2>5 DEF Stays, Statuses
  <2>7. q = CrtcDpmsOff(r, c, outcome)
    BY <1>3 DEF CrtcDpmsOff, k, s, d
  <2> HIDE DEF q
  <2>8. /\ Stays(r, q) /\ q.crtc = r.crtc /\ q.scanout = r.scanout
        /\ q.asleep = r.asleep /\ q.unsure = r.unsure \ {c}
        /\ q.kernel.crtc = k.crtc
        /\ q.kernel.on = r.kernel.on \ RoutesOf(r, c)
    BY <2>2, <2>3, <2>5, <2>6 DEF Stays
  <2>9. GoesOff(r, q, c)
    BY <2>8, KernelGoesOff DEF k
  <2> QED
    BY <2>7, <2>9
<1> QED
  BY <1>1, <1>2, <1>3

\* A disabled CRTC when the desired modes are set.
LEMMA TurnOffDisabledFacts ==
  ASSUME NEW r \in Statuses, NEW c \in Crtcs, NEW outcome
  PROVE  GoesOff(r, TurnOffDisabled(r, c, TRUE, outcome), c)
<1>1. CASE r.server.isDummy
  BY <1>1, NothingGoesOff DEF TurnOffDisabled
<1>2. CASE ~r.server.isDummy /\ outcome = "refused"
  BY <1>2, FailsToGoOff DEF TurnOffDisabled
<1>3. CASE ~r.server.isDummy /\ outcome # "refused"
  <2> DEFINE k == DrmModeSetCrtc(r.kernel, c, Off)
             q == [r EXCEPT !.kernel = k, !.unsure = @ \ {c}]
  <2>1. r.kernel \in Kernels
    BY DEF Statuses
  <2>2. k \in Kernels /\ k.on = r.kernel.on /\ k.lessees = r.kernel.lessees
    BY <2>1, SetCrtcOff
  <2>3. q = TurnOffDisabled(r, c, TRUE, outcome)
    BY <1>3 DEF TurnOffDisabled
  <2> HIDE DEF k
  <2>4. /\ Stays(r, q) /\ q.crtc = r.crtc /\ q.scanout = r.scanout /\ q.kernel = k
        /\ q.unsure = r.unsure \ {c} /\ q.asleep = r.asleep
    BY <2>2 DEF Stays, Statuses
  <2> HIDE DEF q
  <2>5. q.kernel.crtc = DrmModeSetCrtc(r.kernel, c, Off).crtc /\ r.kernel.on \ RoutesOf(r, c) \subseteq q.kernel.on
    BY <2>2, <2>4 DEF k
  <2>6. GoesOff(r, q, c)
    BY <2>4, <2>5, KernelGoesOff
  <2> QED
    BY <2>3, <2>6
<1> QED
  BY <1>1, <1>2, <1>3

-----------------------------------------------------------------------------
(***************************************************************************)
(* xf86DisableUnusedFunctions.                                             *)
(***************************************************************************)
\* The claims about the CRTCs that show something.
AgreeShown(r) == Real(r) => \A c \in Crtcs : ShownAt(r, c)

\* What is neither changed by turning off what is unused.
SameRecords(r, q) ==
  /\ Stays(r, q) /\ q.scanout = r.scanout /\ q.asleep = r.asleep
  /\ \A d \in Crtcs : /\ q.crtc[d].enabled = r.crtc[d].enabled
                      /\ q.crtc[d].desiredMode = r.crtc[d].desiredMode

\* A disabled CRTC has no mode.
LEMMA NoModeFacts ==
  ASSUME NEW r \in Statuses, NEW c \in Crtcs, ~r.crtc[c].enabled
  PROVE  LET q == [r EXCEPT !.crtc[c].mode = NoMode]
         IN /\ SameRecords(r, q)
            /\ \A d \in Crtcs : /\ ShownAt(r, d) => ShownAt(q, d)
                                /\ OffAt(r, d) => OffAt(q, d)
<1> DEFINE q == [r EXCEPT !.crtc[c].mode = NoMode]
           cs == [r.crtc EXCEPT ![c].mode = NoMode]
<1>1. r.crtc \in [Crtcs -> CrtcRecs]
  BY DEF Statuses
<1>2. /\ cs \in [Crtcs -> CrtcRecs]
      /\ \A d \in Crtcs : /\ cs[d].enabled = r.crtc[d].enabled
                          /\ cs[d].desiredMode = r.crtc[d].desiredMode
                          /\ d # c => cs[d].mode = r.crtc[d].mode
  BY <1>1 DEF CrtcRecs
<1>3. q = [r EXCEPT !.crtc = cs]
  OBVIOUS
<1> HIDE DEF cs, q
<1>4. /\ Stays(r, q) /\ q.scanout = r.scanout /\ q.asleep = r.asleep /\ q.crtc = cs
      /\ q.unsure = r.unsure /\ q.kernel = r.kernel /\ q.lease = r.lease /\ q.output = r.output
      /\ q \in Statuses
  BY <1>2, <1>3 DEF Stays, Statuses
<1>5. SameRecords(r, q)
  BY <1>2, <1>4 DEF SameRecords
<1>6. ASSUME NEW d \in Crtcs \ {c}, ShownAt(r, d) PROVE ShownAt(q, d)
  BY <1>2, <1>4, <1>6, ShownStays
<1>7. ShownAt(q, c)
  BY <1>2, <1>4 DEF ShownAt, DrivenBy
<1>8. ASSUME NEW d \in Crtcs, OffAt(r, d) PROVE OffAt(q, d)
  BY <1>2, <1>4, <1>8, OffStays
<1>9. /\ SameRecords(r, q)
      /\ \A d \in Crtcs : /\ ShownAt(r, d) => ShownAt(q, d)
                          /\ OffAt(r, d) => OffAt(q, d)
  BY <1>5, <1>6, <1>7, <1>8
<1> QED
  BY <1>9 DEF q

\* The first i CRTCs are turned off if they are unused.
TurnedOff(r, s, i) ==
  /\ SameRecords(r, s)
  /\ AgreeShown(r) /\ Real(r) =>
       (\A d \in Crtcs : ShownAt(s, d)) /\ (\A d \in Crtcs : d <= i => OffAt(s, d))

\* CRTCs are numbers.
LEMMA CrtcsNat == NumCrtcs \in Nat /\ Crtcs = 1 .. NumCrtcs
BY LcdModesAssumption DEF Crtcs

\* What is unused is off afterwards, if all that is shown was right.
LEMMA DisableUnusedFacts ==
  ASSUME NEW r \in Statuses, NEW outcome
  PROVE  LET q == DisableUnused(r, outcome)
         IN SameRecords(r, q) /\ (AgreeShown(r) => Agree(q))
<1> DEFINE idle == {o \in Outputs : r.output[o].crtc = NoCrtc /\ ~OutputIsLeased(r, o)}
           unused == {c \in Crtcs : ~r.crtc[c].enabled /\ ~CrtcIsLeased(r, c)}
           r1 == IF r.server.isDummy THEN r ELSE OutputDpms(r, idle, FALSE)
           F == TurnOff(outcome)
           At == [i \in 0 .. NumCrtcs |-> {s \in Statuses : TurnedOff(r, s, i)}]
           q == Each(NumCrtcs, unused, F, r1)
<1>1. q = DisableUnused(r, outcome)
  BY DEF DisableUnused
<1>2. /\ SameRecords(r, r1) /\ r1 \in Statuses
      /\ \A d \in Crtcs : ShownAt(r, d) => ShownAt(r1, d)
  <2>1. CASE r.server.isDummy
    BY <2>1 DEF SameRecords, Stays
  <2>2. CASE ~r.server.isDummy
    <3>1. /\ Stays(r, r1) /\ r1.crtc = r.crtc /\ r1.scanout = r.scanout
          /\ r1.unsure = r.unsure /\ r1.asleep = r.asleep
          /\ r1.kernel.crtc = r.kernel.crtc /\ r1.kernel.on = r.kernel.on \ idle
      <4>1. idle \in SUBSET Outputs /\ r1 = OutputDpms(r, idle, FALSE)
        BY <2>2
      <4> HIDE DEF idle, r1
      <4> QED
        BY <4>1, DpmsFacts
    <3>2. r1 \in Statuses /\ r1.output = r.output
      BY <3>1 DEF Stays
    <3>3. ASSUME NEW d \in Crtcs, ShownAt(r, d) PROVE ShownAt(r1, d)
      <4>1. RoutesOf(r, d) \cap idle = {}
        BY DEF RoutesOf, Crtcs, NoCrtc
      <4>2. RoutesOf(r, d) \cap r.kernel.on \subseteq r1.kernel.on
        BY <3>1, <4>1
      <4> HIDE DEF r1, idle
      <4> QED
        BY <3>1, <3>2, <3>3, <4>2, ShownStays
    <3> HIDE DEF r1
    <3> QED
      BY <3>1, <3>2, <3>3 DEF SameRecords
  <2> QED
    BY <2>1, <2>2
<1> HIDE DEF r1
<1>3. r1 \in At[0]
  <2>1. \A d \in Crtcs : ~(d <= 0)
    BY CrtcsNat
  <2>2. TurnedOff(r, r1, 0)
    BY <1>2, <2>1 DEF TurnedOff, AgreeShown
  <2> QED
    BY <1>2, <2>2, CrtcsNat
<1>4. ASSUME NEW i \in 1 .. NumCrtcs, NEW s \in At[i - 1]
      PROVE  /\ i \in unused => F[i][s] \in At[i]
             /\ i \notin unused => s \in At[i]
  <2>1. i \in Crtcs /\ i - 1 \in 0 .. NumCrtcs /\ i \in 0 .. NumCrtcs
    BY CrtcsNat
  <2>2. s \in Statuses /\ TurnedOff(r, s, i - 1)
    BY <2>1
  <2>3. \A d \in Crtcs : d <= i => d = i \/ d <= i - 1
    BY CrtcsNat
  <2>4. CASE i \in unused
    <3> DEFINE t == CrtcDpmsOff(s, i, outcome)
               u == [t EXCEPT !.crtc[i].mode = NoMode]
    <3>1. F[i][s] = u
      BY <2>1, <2>2 DEF TurnOff
    <3>2. GoesOff(s, t, i)
      BY <2>1, <2>2, CrtcOffFacts
    <3> HIDE DEF t
    <3>3. ~r.crtc[i].enabled /\ ~s.crtc[i].enabled
      BY <2>1, <2>2, <2>4 DEF TurnedOff, SameRecords
    <3>4. t \in Statuses /\ ~t.crtc[i].enabled
      BY <3>2, <3>3 DEF GoesOff, Stays
    <3>5. /\ SameRecords(t, u)
          /\ \A d \in Crtcs : /\ ShownAt(t, d) => ShownAt(u, d)
                              /\ OffAt(t, d) => OffAt(u, d)
      BY <2>1, <3>4, NoModeFacts
    <3> HIDE DEF u
    <3>6. SameRecords(s, t) /\ SameRecords(s, u)
      BY <3>2, <3>5 DEF GoesOff, SameRecords, Stays
    <3>7. SameRecords(r, u) /\ u \in Statuses
      BY <2>2, <3>6 DEF TurnedOff, SameRecords, Stays
    <3>8. ASSUME AgreeShown(r), Real(r)
          PROVE (\A d \in Crtcs : ShownAt(u, d)) /\ (\A d \in Crtcs : d <= i => OffAt(u, d))
      <4>1. (\A d \in Crtcs : ShownAt(s, d)) /\ (\A d \in Crtcs : d <= i - 1 => OffAt(s, d))
        BY <2>2, <3>8 DEF TurnedOff
      <4>2. ~s.server.isDummy
        BY <2>2, <3>8 DEF TurnedOff, SameRecords, Stays, Real
      <4>3. ASSUME NEW d \in Crtcs PROVE ShownAt(t, d) /\ (d <= i => OffAt(t, d))
        BY <2>1, <2>3, <3>2, <3>3, <4>1, <4>2 DEF GoesOff
      <4> QED
        BY <3>5, <4>3
    <3>9. TurnedOff(r, u, i)
      BY <3>7, <3>8 DEF TurnedOff
    <3> QED
      BY <2>1, <2>4, <3>1, <3>7, <3>9
  <2>5. CASE i \notin unused
    <3>1. s.crtc[i].enabled \/ CrtcIsLeased(s, i)
      BY <2>1, <2>2, <2>5 DEF TurnedOff, SameRecords, Stays, CrtcIsLeased
    <3>2. OffAt(s, i)
      BY <3>1 DEF OffAt
    <3>3. TurnedOff(r, s, i)
      BY <2>2, <2>3, <3>2 DEF TurnedOff
    <3> QED
      BY <2>1, <2>2, <2>5, <3>3
  <2> QED
    BY <2>4, <2>5
<1> HIDE DEF At, unused, F
<1>5. q \in At[NumCrtcs]
  BY <1>3, <1>4, CrtcsNat, EachReaches
<1>6. q \in Statuses /\ TurnedOff(r, q, NumCrtcs)
  BY <1>5, CrtcsNat DEF At
<1> HIDE DEF q
<1>7. SameRecords(r, q)
  BY <1>6 DEF TurnedOff
<1>8. ASSUME AgreeShown(r) PROVE Agree(q)
  <2> SUFFICES ASSUME Real(q) PROVE \A c \in Crtcs : ShownAt(q, c) /\ OffAt(q, c)
    BY DEF Agree
  <2>1. Real(r)
    BY <1>7 DEF Real, SameRecords, Stays
  <2>2. \A d \in Crtcs : d <= NumCrtcs
    BY CrtcsNat
  <2> QED
    BY <1>6, <1>8, <2>1, <2>2 DEF TurnedOff
<1>9. SameRecords(r, q) /\ (AgreeShown(r) => Agree(q))
  BY <1>7, <1>8
<1> QED
  BY <1>1, <1>9

-----------------------------------------------------------------------------
(***************************************************************************)
(* The leases fit what is configured, and a mode set keeps this.           *)
(***************************************************************************)
\* A CRTC on record can drive its outputs.
PossibleRoutes(r) ==
  \A o \in Outputs : r.output[o].crtc # NoCrtc /\ ~r.server.isDummy =>
    \A e \in Encoders[o] : r.output[o].crtc \in e

\* What the claims about a status rest on.
Sound(r) == r \in Statuses /\ PossibleRoutes(r) /\ LeasesFit(r)

\* What the server's handling of CRTCs and outputs leaves alone.
SameLeases(r, q) ==
  /\ q.server = r.server /\ q.lease = r.lease
  /\ q.kernel.lessees = r.kernel.lessees /\ q.next = r.next

\* Leases that fit still fit when CRTCs are disabled.
LEMMA SoundStays ==
  ASSUME NEW r, NEW q \in Statuses, Sound(r), SameLeases(r, q), q.output = r.output,
         \A d \in Crtcs : q.crtc[d].enabled => r.crtc[d].enabled
  PROVE  Sound(q)
<1>1. PossibleRoutes(q)
  BY DEF Sound, PossibleRoutes, SameLeases
<1>2. r.lease \in [Lessees -> Leases]
  BY DEF Sound, Statuses
<1>3. \A l \in Lessees : r.lease[l].crtcs \subseteq Crtcs
  BY <1>2 DEF Leases
<1>4. LeasesFit(q)
  BY <1>3 DEF Sound, LeasesFit, SameLeases
<1> QED
  BY <1>1, <1>4 DEF Sound

\* CRTC c is configured for outputs, as xf86RandR12CrtcSet does it.
Configured(r0, c, outputs) ==
  [r0 EXCEPT !.crtc[c].enabled = TRUE,
     !.output = [o \in Outputs |->
        IF o \in outputs THEN [@[o] EXCEPT !.crtc = c]
        ELSE IF @[o].crtc = c THEN [@[o] EXCEPT !.crtc = NoCrtc] ELSE @[o]]]

\* CRTC c gets the outputs, and loses those it had.
LEMMA ConfiguredFacts ==
  ASSUME NEW r0 \in Statuses, NEW c \in Crtcs, NEW outputs \in SUBSET Outputs
  PROVE  LET r == Configured(r0, c, outputs)
         IN /\ r \in Statuses /\ SameLeases(r0, r) /\ r.scanout = r0.scanout
            /\ r.kernel = r0.kernel /\ r.unsure = r0.unsure /\ r.asleep = r0.asleep /\ r.ok = r0.ok
            /\ r.crtc[c].enabled /\ r.crtc[c].mode = r0.crtc[c].mode
            /\ \A d \in Crtcs \ {c} : r.crtc[d] = r0.crtc[d]
            /\ \A o \in Outputs : r.output[o].crtc =
                 IF o \in outputs THEN c
                 ELSE IF r0.output[o].crtc = c THEN NoCrtc ELSE r0.output[o].crtc
            /\ RoutesOf(r, c) = outputs
            /\ \A d \in Crtcs \ {c} : RoutesOf(r, d) = RoutesOf(r0, d) \ outputs
<1> DEFINE cs == [r0.crtc EXCEPT ![c].enabled = TRUE]
           os == [o \in Outputs |->
                   IF o \in outputs THEN [r0.output[o] EXCEPT !.crtc = c]
                   ELSE IF r0.output[o].crtc = c THEN [r0.output[o] EXCEPT !.crtc = NoCrtc]
                   ELSE r0.output[o]]
           r == Configured(r0, c, outputs)
<1>1. r = [r0 EXCEPT !.crtc = cs, !.output = os]
  BY DEF Configured
<1>2. r0.crtc \in [Crtcs -> CrtcRecs] /\ r0.output \in [Outputs -> OutputRecs]
  BY DEF Statuses
<1>3. /\ cs \in [Crtcs -> CrtcRecs] /\ cs[c].enabled /\ cs[c].mode = r0.crtc[c].mode
      /\ \A d \in Crtcs \ {c} : cs[d] = r0.crtc[d]
  BY <1>2 DEF CrtcRecs
<1>4. ASSUME NEW o \in Outputs
      PROVE  /\ os[o] \in OutputRecs
             /\ os[o].crtc = IF o \in outputs THEN c
                             ELSE IF r0.output[o].crtc = c THEN NoCrtc ELSE r0.output[o].crtc
  <2>1. r0.output[o] \in OutputRecs
    BY <1>2
  <2>2. /\ [r0.output[o] EXCEPT !.crtc = c] \in OutputRecs
        /\ [r0.output[o] EXCEPT !.crtc = c].crtc = c
        /\ [r0.output[o] EXCEPT !.crtc = NoCrtc] \in OutputRecs
        /\ [r0.output[o] EXCEPT !.crtc = NoCrtc].crtc = NoCrtc
    BY <2>1 DEF OutputRecs
  <2> QED
    BY <2>1, <2>2
<1>5. os \in [Outputs -> OutputRecs]
  BY <1>4
<1> HIDE DEF cs, os, r
<1>6. /\ r \in Statuses /\ SameLeases(r0, r) /\ r.scanout = r0.scanout
      /\ r.kernel = r0.kernel /\ r.unsure = r0.unsure /\ r.asleep = r0.asleep /\ r.ok = r0.ok
      /\ r.crtc = cs /\ r.output = os
  BY <1>1, <1>3, <1>5 DEF SameLeases, Statuses
<1>7. c # NoCrtc /\ \A d \in Crtcs : d # NoCrtc
  BY CrtcsNat DEF NoCrtc
<1>8. RoutesOf(r, c) = outputs
  BY <1>4, <1>6, <1>7 DEF RoutesOf
<1>9. ASSUME NEW d \in Crtcs \ {c} PROVE RoutesOf(r, d) = RoutesOf(r0, d) \ outputs
  BY <1>4, <1>6, <1>7 DEF RoutesOf
<1>10. /\ r \in Statuses /\ SameLeases(r0, r) /\ r.scanout = r0.scanout
       /\ r.kernel = r0.kernel /\ r.unsure = r0.unsure /\ r.asleep = r0.asleep /\ r.ok = r0.ok
       /\ r.crtc[c].enabled /\ r.crtc[c].mode = r0.crtc[c].mode
       /\ \A d \in Crtcs \ {c} : r.crtc[d] = r0.crtc[d]
       /\ \A o \in Outputs : r.output[o].crtc =
            IF o \in outputs THEN c
            ELSE IF r0.output[o].crtc = c THEN NoCrtc ELSE r0.output[o].crtc
       /\ RoutesOf(r, c) = outputs
       /\ \A d \in Crtcs \ {c} : RoutesOf(r, d) = RoutesOf(r0, d) \ outputs
  BY <1>3, <1>4, <1>6, <1>8, <1>9
<1> QED
  BY <1>10 DEF r

\* A free CRTC gets free outputs that it can drive.
MayDrive(r, c, outputs) ==
  /\ ~CrtcIsLeased(r, c)
  /\ \A o \in outputs : /\ ~OutputIsLeased(r, o)
                        /\ ~r.server.isDummy => \A e \in Encoders[o] : c \in e

\* The leases still fit.
LEMMA ConfiguredIsSound ==
  ASSUME NEW r0, Sound(r0), NEW c \in Crtcs, NEW outputs \in SUBSET Outputs,
         MayDrive(r0, c, outputs)
  PROVE  Sound(Configured(r0, c, outputs))
<1> DEFINE r == Configured(r0, c, outputs)
<1>1. r0 \in Statuses
  BY DEF Sound
<1>2. /\ r \in Statuses /\ SameLeases(r0, r)
      /\ \A d \in Crtcs \ {c} : r.crtc[d] = r0.crtc[d]
      /\ \A o \in Outputs : r.output[o].crtc =
           IF o \in outputs THEN c
           ELSE IF r0.output[o].crtc = c THEN NoCrtc ELSE r0.output[o].crtc
  BY <1>1, ConfiguredFacts
<1> HIDE DEF r
<1>3. r0.lease \in [Lessees -> Leases]
  BY <1>1 DEF Statuses
<1>4. \A l \in Lessees : r0.lease[l].crtcs \subseteq Crtcs /\ r0.lease[l].outputs \subseteq Outputs
  BY <1>3 DEF Leases
<1>5. PossibleRoutes(r)
  BY <1>2 DEF Sound, PossibleRoutes, MayDrive, SameLeases
<1>6. ASSUME NEW l \in Lessees
      PROVE  /\ \A d \in r.lease[l].crtcs : ~r.crtc[d].enabled
             /\ \A o \in r.lease[l].outputs : r.output[o].crtc = NoCrtc
  <2>1. c \notin r0.lease[l].crtcs /\ r0.lease[l].outputs \cap outputs = {}
    BY DEF MayDrive, CrtcIsLeased, OutputIsLeased
  <2>2. r.lease = r0.lease
    BY <1>2 DEF SameLeases
  <2>3. \A d \in r0.lease[l].crtcs : ~r0.crtc[d].enabled
    BY DEF Sound, LeasesFit
  <2>4. \A o \in r0.lease[l].outputs : r0.output[o].crtc = NoCrtc
    BY DEF Sound, LeasesFit
  <2>5. \A d \in r.lease[l].crtcs : ~r.crtc[d].enabled
    BY <1>2, <1>4, <2>1, <2>2, <2>3
  <2>6. ASSUME NEW o \in r.lease[l].outputs PROVE r.output[o].crtc = NoCrtc
    <3>1. o \in Outputs /\ o \notin outputs /\ r0.output[o].crtc = NoCrtc
      BY <1>4, <2>1, <2>2, <2>4
    <3> QED
      BY <1>2, <3>1
  <2> QED
    BY <2>5, <2>6
<1>7. LeasesFit(r)
  BY <1>2, <1>6 DEF Sound, LeasesFit, SameLeases
<1>8. Sound(r)
  BY <1>2, <1>5, <1>7 DEF Sound
<1> QED
  BY <1>8 DEF r

-----------------------------------------------------------------------------
(***************************************************************************)
(* xf86RandR12CrtcSet.                                                     *)
(***************************************************************************)
\* Only what the mode shall be is written.
LEMMA DesiredFacts ==
  ASSUME NEW r \in Statuses, NEW c \in Crtcs, NEW mode \in Modes
  PROVE  LET q == [r EXCEPT !.crtc[c].desiredMode = mode]
         IN /\ Stays(r, q) /\ q.scanout = r.scanout
            /\ \A d \in Crtcs : /\ q.crtc[d].enabled = r.crtc[d].enabled
                                /\ ShownAt(r, d) => ShownAt(q, d)
<1> DEFINE q == [r EXCEPT !.crtc[c].desiredMode = mode]
           cs == [r.crtc EXCEPT ![c].desiredMode = mode]
<1>1. r.crtc \in [Crtcs -> CrtcRecs]
  BY DEF Statuses
<1>2. /\ cs \in [Crtcs -> CrtcRecs]
      /\ \A d \in Crtcs : /\ cs[d].enabled = r.crtc[d].enabled
                          /\ cs[d].mode = r.crtc[d].mode
  BY <1>1 DEF CrtcRecs
<1>3. q = [r EXCEPT !.crtc = cs]
  OBVIOUS
<1> HIDE DEF cs, q
<1>4. /\ Stays(r, q) /\ q.scanout = r.scanout /\ q.asleep = r.asleep /\ q.crtc = cs
      /\ q.unsure = r.unsure /\ q.kernel = r.kernel /\ q.output = r.output
      /\ q \in Statuses
  BY <1>2, <1>3 DEF Stays, Statuses
<1>5. ASSUME NEW d \in Crtcs, ShownAt(r, d) PROVE ShownAt(q, d)
  BY <1>2, <1>4, <1>5, ShownStays
<1>6. /\ Stays(r, q) /\ q.scanout = r.scanout
      /\ \A d \in Crtcs : /\ q.crtc[d].enabled = r.crtc[d].enabled
                          /\ ShownAt(r, d) => ShownAt(q, d)
  BY <1>2, <1>4, <1>5
<1> QED
  BY <1>6 DEF q

\* The claims survive a mode set that worked: other CRTCs lose their outputs in
\* the kernel as they do on record.
LEMMA LitFacts ==
  ASSUME NEW r0 \in Statuses, NEW c \in Crtcs, NEW mode \in Modes,
         NEW outputs \in SUBSET Outputs, NEW outcome, AgreeShown(r0),
         SetModeMajor(Configured(r0, c, outputs), c, mode, outcome).ok
  PROVE  AgreeShown(SetModeMajor(Configured(r0, c, outputs), c, mode, outcome))
<1> DEFINE r == Configured(r0, c, outputs)
           s == SetModeMajor(r, c, mode, outcome)
           shown == [mode |-> mode, routes |-> RoutesOf(r, c)]
           k == DrmModeSetCrtc(r.kernel, c, shown)
<1>1. /\ r \in Statuses /\ SameLeases(r0, r) /\ r.scanout = r0.scanout
      /\ r.kernel = r0.kernel /\ r.unsure = r0.unsure /\ r.asleep = r0.asleep
      /\ \A d \in Crtcs \ {c} : r.crtc[d] = r0.crtc[d]
      /\ RoutesOf(r, c) = outputs
      /\ \A d \in Crtcs \ {c} : RoutesOf(r, d) = RoutesOf(r0, d) \ outputs
  BY ConfiguredFacts
<1> HIDE DEF r
<1> SUFFICES ASSUME Real(s) PROVE \A d \in Crtcs : ShownAt(s, d)
  BY DEF AgreeShown, r
<1>2. s.ok
  BY DEF r
<1>3. mode \in Modes \cup {NoMode}
  OBVIOUS
<1>4. /\ Stays(r, s) /\ (Real(s) <=> Real(r))
      /\ \A d \in Crtcs : s.crtc[d].enabled = r.crtc[d].enabled
      /\ \A d \in Crtcs \ {c} : s.crtc[d].mode = r.crtc[d].mode
      /\ Real(r) /\ s.ok => ShownAt(s, c)
  BY <1>1, <1>3, ModeSetFacts
<1>5. Real(r) /\ ~r.server.isDummy /\ r.scanout # "none"
  BY <1>4 DEF Real
<1>6. /\ s.kernel.crtc = k.crtc
      /\ s.kernel.on = r.kernel.on \cup RoutesOf(r, c)
      /\ s.unsure = r.unsure \ {c} /\ s.asleep = r.asleep \ {c}
  BY <1>1, <1>2, <1>3, <1>5, ModeSetCases
<1>7. ShownAt(s, c)
  BY <1>2, <1>4, <1>5
<1>8. Real(r0)
  BY <1>1, <1>5 DEF Real, SameLeases
<1>9. r.kernel \in Kernels /\ shown \in Shown /\ shown.routes = outputs
  BY <1>1 DEF Statuses, Shown
<1>10. r.kernel \in Kernels /\ shown \in Shown
  BY <1>9
<1> HIDE DEF shown
<1>11. \A d \in Crtcs \ {c} :
         ~(r.kernel.crtc[d].routes \subseteq shown.routes) =>
           k.crtc[d] = [mode |-> r.kernel.crtc[d].mode, routes |-> r.kernel.crtc[d].routes \ shown.routes]
  BY <1>10, SetCrtcFacts
<1> HIDE DEF k, s
<1>12. ASSUME NEW d \in Crtcs \ {c} PROVE ShownAt(s, d)
  <2> SUFFICES ASSUME DrivenBy(s, d), d \notin s.asleep, d \notin s.unsure
               PROVE  /\ s.kernel.crtc[d] = [mode |-> s.crtc[d].mode, routes |-> RoutesOf(s, d)]
                      /\ RoutesOf(s, d) \subseteq s.kernel.on
    BY DEF ShownAt
  <2>1. s.output = r.output
    BY <1>4 DEF Stays
  <2>2. RoutesOf(s, d) = RoutesOf(r0, d) \ outputs
    BY <1>1, <2>1, RoutesFacts
  <2>3. RoutesOf(r0, d) \ outputs # {} /\ r0.crtc[d].enabled
    BY <1>1, <1>4, <2>2 DEF DrivenBy
  <2>4. d \notin r0.asleep /\ d \notin r0.unsure
    BY <1>1, <1>6
  <2>5. /\ r0.kernel.crtc[d] = [mode |-> r0.crtc[d].mode, routes |-> RoutesOf(r0, d)]
        /\ RoutesOf(r0, d) \subseteq r0.kernel.on
    BY <1>8, <2>3, <2>4 DEF AgreeShown, ShownAt, DrivenBy
  <2>6. r.kernel.crtc[d].routes = RoutesOf(r0, d) /\ r.kernel.crtc[d].mode = r0.crtc[d].mode
    BY <1>1, <2>5
  <2>7. k.crtc[d] = [mode |-> r0.crtc[d].mode, routes |-> RoutesOf(r0, d) \ outputs]
    BY <1>9, <1>11, <2>3, <2>6
  <2>8. s.crtc[d].mode = r0.crtc[d].mode
    BY <1>1, <1>4
  <2> QED
    BY <1>1, <1>6, <2>2, <2>5, <2>7, <2>8
<1> QED
  BY <1>7, <1>12

\* A client's mode set, or one for a lease that ended.
LEMMA RandRSetFacts ==
  ASSUME NEW r0, Sound(r0), NEW c \in Crtcs, NEW mode \in Modes,
         NEW outputs \in SUBSET Outputs, MayDrive(r0, c, outputs), NEW outcome
  PROVE  LET q == RandRSet(r0, c, mode, outputs, outcome)
         IN /\ Sound(q) /\ SameLeases(r0, q) /\ (Real(q) <=> Real(r0))
            /\ AgreeShown(r0) => AgreeShown(q)
            /\ Agree(r0) => Agree(q)
<1> DEFINE r == Configured(r0, c, outputs)
           s == SetModeMajor(r, c, mode, outcome)
           t == [s EXCEPT !.crtc[c].desiredMode = mode]
           q == RandRSet(r0, c, mode, outputs, outcome)
<1>1. q = IF s.ok THEN DisableUnused(t, outcome)
          ELSE [s EXCEPT !.crtc = r0.crtc, !.output = r0.output]
  BY DEF RandRSet, Configured
<1>2. r0 \in Statuses /\ mode \in Modes \cup {NoMode}
  BY DEF Sound
<1>3. /\ r \in Statuses /\ SameLeases(r0, r) /\ r.scanout = r0.scanout
      /\ r.kernel = r0.kernel /\ r.unsure = r0.unsure /\ r.asleep = r0.asleep
  BY <1>2, ConfiguredFacts
<1>4. Sound(r)
  BY ConfiguredIsSound
<1>5. s.ok /\ AgreeShown(r0) => AgreeShown(s)
  BY <1>2, LitFacts
<1> HIDE DEF r
<1>6. /\ Stays(r, s) /\ (Real(s) <=> Real(r))
      /\ \A d \in Crtcs : s.crtc[d].enabled = r.crtc[d].enabled
      /\ ~s.ok => Vouched(r, s)
  BY <1>2, <1>3, ModeSetFacts
<1> HIDE DEF s, q
<1>7. SameLeases(r0, s) /\ (Real(s) <=> Real(r0)) /\ s \in Statuses
  BY <1>3, <1>6 DEF SameLeases, Stays, Real
<1>8. CASE s.ok
  <2>1. /\ Stays(s, t) /\ t.scanout = s.scanout
        /\ \A d \in Crtcs : /\ t.crtc[d].enabled = s.crtc[d].enabled
                            /\ ShownAt(s, d) => ShownAt(t, d)
    BY <1>7, DesiredFacts
  <2>2. q = DisableUnused(t, outcome)
    BY <1>1, <1>8
  <2> HIDE DEF t
  <2>3. t \in Statuses
    BY <2>1 DEF Stays
  <2>4. SameRecords(t, q) /\ (AgreeShown(t) => Agree(q))
    BY <2>2, <2>3, DisableUnusedFacts
  <2>5. /\ SameLeases(r0, q) /\ SameLeases(r, q) /\ q.output = r.output /\ q \in Statuses
        /\ (Real(q) <=> Real(r0)) /\ (Real(t) <=> Real(s))
    BY <1>3, <1>6, <1>7, <2>1, <2>4 DEF SameLeases, SameRecords, Stays, Real
  <2>6. \A d \in Crtcs : q.crtc[d].enabled = r.crtc[d].enabled
    BY <1>6, <2>1, <2>4 DEF SameRecords
  <2>7. Sound(q)
    BY <1>4, <2>5, <2>6, SoundStays
  <2>8. AgreeShown(r0) => Agree(q)
    BY <1>5, <1>8, <2>1, <2>4, <2>5 DEF AgreeShown
  <2>9. (Agree(q) => AgreeShown(q)) /\ (Agree(r0) => AgreeShown(r0))
    BY DEF Agree, AgreeShown
  <2> QED
    BY <2>5, <2>7, <2>8, <2>9 DEF q
<1>9. CASE ~s.ok
  <2>1. q = [s EXCEPT !.crtc = r0.crtc, !.output = r0.output]
    BY <1>1, <1>9
  <2>2. r0.crtc \in [Crtcs -> CrtcRecs] /\ r0.output \in [Outputs -> OutputRecs]
    BY <1>2 DEF Statuses
  <2>3. /\ q \in Statuses /\ SameLeases(s, q) /\ q.crtc = r0.crtc /\ q.output = r0.output
        /\ q.scanout = s.scanout /\ q.kernel = s.kernel /\ q.unsure = s.unsure /\ q.asleep = s.asleep
    BY <1>7, <2>1, <2>2 DEF Statuses, SameLeases
  <2>4. SameLeases(r0, q) /\ (Real(q) <=> Real(r0)) /\ q.lease = r0.lease
    BY <1>7, <2>3 DEF SameLeases, Real
  <2>5. Sound(q)
    BY <2>3, <2>4, SoundStays
  <2>6. Vouched(r0, q)
    BY <1>3, <1>6, <1>9, <2>3 DEF Vouched
  <2>7. \A d \in Crtcs : (ShownAt(r0, d) => ShownAt(q, d)) /\ (OffAt(r0, d) => OffAt(q, d))
    BY <1>2, <2>3, <2>4, <2>6, ShownStays, OffStays DEF Vouched
  <2>8. (AgreeShown(r0) => AgreeShown(q)) /\ (Agree(r0) => Agree(q))
    BY <2>4, <2>7 DEF Agree, AgreeShown
  <2> QED
    BY <2>4, <2>5, <2>8 DEF q
<1> QED
  BY <1>8, <1>9

-----------------------------------------------------------------------------
(***************************************************************************)
(* What a lessee shows, while the server works on what is not leased.      *)
(***************************************************************************)
\* The kernel shows CRTC c on the outputs os as before.
KeepsPicture(k, m, c, os) ==
  k.crtc[c].routes = os /\ os \subseteq k.on => m.crtc[c] = k.crtc[c] /\ os \subseteq m.on

\* A CRTC and outputs that are leased.
LeasedPart(r, c, os) ==
  os # {} /\ CrtcIsLeased(r, c) /\ \A o \in os : OutputIsLeased(r, o)

\* No leased CRTC is disturbed.
Spared(r, q) ==
  \A c \in Crtcs, os \in SUBSET Outputs :
    LeasedPart(r, c, os) => KeepsPicture(r.kernel, q.kernel, c, os)

\* No leased output is on record as driven.
Unrouted(r) == \A l \in Lessees : \A o \in r.lease[l].outputs : r.output[o].crtc = NoCrtc

\* Leases that fit are not routed.
LEMMA SoundUnrouted ==
  ASSUME NEW r, Sound(r)
  PROVE  r \in Statuses /\ Unrouted(r)
BY DEF Sound, LeasesFit, Unrouted

\* One call after the other.
LEMMA SparedTwice ==
  ASSUME NEW r, NEW s, NEW t, Spared(r, s), Spared(s, t), s.lease = r.lease
  PROVE  Spared(r, t)
<1> SUFFICES ASSUME NEW c \in Crtcs, NEW os \in SUBSET Outputs, LeasedPart(r, c, os)
             PROVE  KeepsPicture(r.kernel, t.kernel, c, os)
  BY DEF Spared
<1>1. LeasedPart(s, c, os)
  BY DEF LeasedPart, CrtcIsLeased, OutputIsLeased
<1>2. KeepsPicture(r.kernel, s.kernel, c, os) /\ KeepsPicture(s.kernel, t.kernel, c, os)
  BY <1>1 DEF Spared
<1> QED
  BY <1>2 DEF KeepsPicture

\* What changes no CRTC and takes the power from no leased output.
LEMMA SparedSame ==
  ASSUME NEW r, NEW q, q.kernel.crtc = r.kernel.crtc,
         \A o \in r.kernel.on : OutputIsLeased(r, o) => o \in q.kernel.on
  PROVE  Spared(r, q)
BY DEF Spared, KeepsPicture, LeasedPart

\* The kernel sets another CRTC, for other outputs.
LEMMA PictureKept ==
  ASSUME NEW k \in Kernels, NEW c \in Crtcs, NEW shown \in Shown, NEW d \in Crtcs \ {c},
         NEW os \in SUBSET Outputs, os # {}, os \cap shown.routes = {}
  PROVE  KeepsPicture(k, DrmModeSetCrtc(k, c, shown), d, os)
<1> DEFINE m == DrmModeSetCrtc(k, c, shown)
<1>1. /\ m.on = k.on
      /\ \A e \in Crtcs \ {c} :
           k.crtc[e].routes # {} /\ k.crtc[e].routes \cap shown.routes = {} => m.crtc[e] = k.crtc[e]
  BY SetCrtcFacts
<1> HIDE DEF m
<1>2. KeepsPicture(k, m, d, os)
  BY <1>1 DEF KeepsPicture
<1> QED
  BY <1>2 DEF m

\* A CRTC that is not leased has no leased output.
LEMMA RoutesNotLeased ==
  ASSUME NEW r, Unrouted(r), NEW c \in Crtcs
  PROVE  \A o \in RoutesOf(r, c) : ~OutputIsLeased(r, o)
BY CrtcsNat DEF Unrouted, OutputIsLeased, RoutesOf, NoCrtc

\* The server sets or turns off a CRTC that is not leased.
LEMMA OtherSpared ==
  ASSUME NEW r \in Statuses, Unrouted(r), NEW c \in Crtcs, ~CrtcIsLeased(r, c),
         NEW shown \in Shown, shown.routes \subseteq RoutesOf(r, c), NEW q,
         q.kernel.crtc = DrmModeSetCrtc(r.kernel, c, shown).crtc,
         r.kernel.on \ RoutesOf(r, c) \subseteq q.kernel.on
  PROVE  Spared(r, q)
<1> SUFFICES ASSUME NEW d \in Crtcs, NEW os \in SUBSET Outputs, LeasedPart(r, d, os)
             PROVE  KeepsPicture(r.kernel, q.kernel, d, os)
  BY DEF Spared
<1>1. d # c /\ os # {}
  BY DEF LeasedPart
<1>2. os \cap RoutesOf(r, c) = {}
  BY RoutesNotLeased DEF LeasedPart
<1>3. os \cap shown.routes = {}
  BY <1>2
<1>4. r.kernel \in Kernels
  BY DEF Statuses
<1> DEFINE m == DrmModeSetCrtc(r.kernel, c, shown)
<1>5. KeepsPicture(r.kernel, m, d, os)
  BY <1>1, <1>3, <1>4, PictureKept
<1>6. q.kernel.crtc = m.crtc
  OBVIOUS
<1> HIDE DEF m
<1> QED
  BY <1>2, <1>5, <1>6 DEF KeepsPicture

\* What a mode set does to the kernel, however it ends.
LEMMA ModeSetSpares ==
  ASSUME NEW r \in Statuses, Unrouted(r), NEW c \in Crtcs, ~CrtcIsLeased(r, c),
         NEW mode \in Modes \cup {NoMode}, NEW outcome
  PROVE  Spared(r, SetModeMajor(r, c, mode, outcome))
<1> DEFINE r1 == IF r.scanout = "no_fb" THEN [r EXCEPT !.scanout = "fb"] ELSE r
           m == [r1 EXCEPT !.crtc[c].mode = mode, !.ok = TRUE]
           shown == [mode |-> mode, routes |-> RoutesOf(m, c)]
           k == DrmModeSetCrtc(m.kernel, c, shown)
           lit == Light(m, c, shown)
           q == SetModeMajor(r, c, mode, outcome)
<1>1. /\ r1 \in Statuses /\ r1.kernel = r.kernel /\ r1.output = r.output
  BY DEF Statuses, Scanouts
<1> HIDE DEF r1
<1>2. [r1.crtc EXCEPT ![c].mode = mode] \in [Crtcs -> CrtcRecs]
  BY <1>1 DEF Statuses, CrtcRecs
<1>3. m \in Statuses /\ m.kernel = r.kernel /\ m.output = r.output
  BY <1>1, <1>2 DEF Statuses
<1>4. \/ q = [r EXCEPT !.ok = TRUE] \/ q = [r EXCEPT !.ok = FALSE]
      \/ q = m \/ q = [m EXCEPT !.ok = FALSE]
      \/ q = [m EXCEPT !.kernel = k, !.ok = FALSE, !.unsure = Unsure(m, k, c)]
      \/ q = [lit EXCEPT !.unsure = @ \ {c}, !.asleep = @ \ {c}]
  BY DEF SetModeMajor, r1
<1> HIDE DEF m
<1>5. RoutesOf(m, c) = RoutesOf(r, c) /\ RoutesOf(m, c) \in SUBSET Outputs
  BY <1>3, RoutesFacts
<1>6. shown \in Shown /\ shown.routes = RoutesOf(r, c)
  BY <1>5 DEF Shown
<1> HIDE DEF shown
<1>7. /\ lit.kernel.crtc = k.crtc /\ lit.kernel.on = r.kernel.on \cup shown.routes
      /\ lit \in Statuses
  BY <1>3, <1>6, LightFacts DEF Stays
<1>8. k \in Kernels /\ k.on = r.kernel.on /\ k = DrmModeSetCrtc(r.kernel, c, shown)
  <2>1. r.kernel \in Kernels
    BY DEF Statuses
  <2> QED
    BY <1>3, <1>6, <2>1, SetCrtcFacts
<1> HIDE DEF k, lit, q
<1>9. \/ q.kernel = r.kernel
      \/ q.kernel.crtc = k.crtc /\ r.kernel.on \subseteq q.kernel.on
  BY <1>3, <1>4, <1>7, <1>8 DEF Statuses
<1>10. CASE q.kernel = r.kernel
  <2>1. Spared(r, q)
    BY <1>10, SparedSame
  <2> QED
    BY <2>1 DEF q
<1>11. CASE q.kernel.crtc = k.crtc /\ r.kernel.on \subseteq q.kernel.on
  <2>1. Spared(r, q)
    BY <1>6, <1>8, <1>11, OtherSpared
  <2> QED
    BY <2>1 DEF q
<1> QED
  BY <1>9, <1>10, <1>11

\* A CRTC that is not leased is turned off.
LEMMA OffSpares ==
  ASSUME NEW r \in Statuses, Unrouted(r), NEW c \in Crtcs, ~CrtcIsLeased(r, c), NEW outcome
  PROVE  Spared(r, CrtcDpmsOff(r, c, outcome))
<1> DEFINE q == CrtcDpmsOff(r, c, outcome)
           k == DrmModeSetCrtc(r.kernel, c, Off)
           s == [r EXCEPT !.kernel = k]
           d == OutputDpms(s, RoutesOf(r, c), FALSE)
<1>1. q = r \/ q = [r EXCEPT !.unsure = @ \cup {c}] \/ q = [d EXCEPT !.unsure = @ \ {c}]
  BY DEF CrtcDpmsOff
<1>2. r.kernel \in Kernels
  BY DEF Statuses
<1>3. k \in Kernels /\ k.on = r.kernel.on /\ k.lessees = r.kernel.lessees
  BY <1>2, SetCrtcOff
<1>4. k = DrmModeSetCrtc(r.kernel, c, Off)
  OBVIOUS
<1> HIDE DEF k
<1>5. Stays(r, s) /\ s.kernel = k
  BY <1>3, WithKernel
<1>6. d = [s EXCEPT !.kernel.on = @ \ RoutesOf(r, c)]
  BY DEF OutputDpms
<1> HIDE DEF s
<1>7. s \in Statuses
  BY <1>5 DEF Stays
<1>8. d.kernel.crtc = k.crtc /\ d.kernel.on = k.on \ RoutesOf(r, c)
  BY <1>3, <1>5, <1>6, <1>7 DEF Statuses, Kernels
<1>10. [d EXCEPT !.unsure = @ \ {c}].kernel = d.kernel
  BY <1>6, <1>7 DEF Statuses
<1> HIDE DEF d, q
<1>9. \/ q.kernel = r.kernel
      \/ q.kernel.crtc = k.crtc /\ r.kernel.on \ RoutesOf(r, c) \subseteq q.kernel.on
  BY <1>1, <1>3, <1>8, <1>10 DEF Statuses
<1>11. CASE q.kernel = r.kernel
  <2>1. Spared(r, q)
    BY <1>11, SparedSame
  <2> QED
    BY <2>1 DEF q
<1>12. CASE q.kernel.crtc = k.crtc /\ r.kernel.on \ RoutesOf(r, c) \subseteq q.kernel.on
  <2>1. Off \in Shown /\ Off.routes \subseteq RoutesOf(r, c)
    BY OffShown
  <2> DEFINE off == Off
  <2>2. off \in Shown /\ off.routes \subseteq RoutesOf(r, c) /\ k = DrmModeSetCrtc(r.kernel, c, off)
    BY <1>4, <2>1
  <2> HIDE DEF off
  <2>3. Spared(r, q)
    BY <1>12, <2>2, OtherSpared
  <2> QED
    BY <2>3 DEF q
<1> QED
  BY <1>9, <1>11, <1>12

\* A call that spares what is leased, and changes no lease and no output on record.
SparingCall(r, q) ==
  q \in Statuses /\ q.lease = r.lease /\ q.output = r.output /\ Spared(r, q)

\* A loop of such calls.
LEMMA LoopSpares ==
  ASSUME NEW r, NEW s0, SparingCall(r, s0), NEW S, NEW F,
         \A c \in Crtcs : \A s \in Statuses :
           c \in S /\ s.lease = r.lease /\ s.output = r.output => SparingCall(s, F[c][s])
  PROVE  SparingCall(r, Each(NumCrtcs, S, F, s0))
<1> DEFINE Kept == {s \in Statuses : SparingCall(r, s)}
           At == [i \in 0 .. NumCrtcs |-> Kept]
           q == Each(NumCrtcs, S, F, s0)
<1>1. s0 \in Kept
  BY DEF SparingCall
<1>2. ASSUME NEW s \in Kept, NEW c \in Crtcs, c \in S
      PROVE  F[c][s] \in Kept
  <2>1. SparingCall(r, s) /\ SparingCall(s, F[c][s])
    BY <1>2 DEF SparingCall
  <2> DEFINE u == F[c][s]
  <2> HIDE DEF u
  <2>2. SparingCall(r, u)
    BY <2>1, SparedTwice DEF SparingCall, u
  <2>3. u \in Kept
    BY <2>2 DEF SparingCall
  <2> QED
    BY <2>3 DEF u
<1> HIDE DEF Kept
<1>3. \A i \in 0 .. NumCrtcs : At[i] = Kept
  OBVIOUS
<1>4. s0 \in At[0] /\ At[NumCrtcs] = Kept
  BY <1>1, <1>3, CrtcsNat
<1>5. \A i \in 1 .. NumCrtcs : i \in Crtcs /\ i \in 0 .. NumCrtcs /\ i - 1 \in 0 .. NumCrtcs
  BY CrtcsNat
<1> HIDE DEF At
<1>6. \A i \in 1 .. NumCrtcs : \A s \in At[i - 1] :
        /\ i \in S => F[i][s] \in At[i]
        /\ i \notin S => s \in At[i]
  BY <1>2, <1>3, <1>5
<1>7. q \in At[NumCrtcs]
  BY <1>4, <1>6, CrtcsNat, EachReaches
<1> HIDE DEF q
<1>8. SparingCall(r, q)
  BY <1>4, <1>7 DEF Kept
<1> QED
  BY <1>8 DEF q

\* Outputs that are not leased are switched.
LEMMA DpmsSpares ==
  ASSUME NEW r \in Statuses, NEW outs \in SUBSET Outputs, \A o \in outs : ~OutputIsLeased(r, o),
         NEW on \in BOOLEAN
  PROVE  SparingCall(r, OutputDpms(r, outs, on))
<1> DEFINE on2 == IF on THEN r.kernel.on \cup outs ELSE r.kernel.on \ outs
           K == [r.kernel EXCEPT !.on = on2]
           q == [r EXCEPT !.kernel = K]
<1>1. q = OutputDpms(r, outs, on)
  BY DEF OutputDpms
<1>2. on2 \in SUBSET Outputs /\ \A o \in r.kernel.on : OutputIsLeased(r, o) => o \in on2
  BY DEF Statuses, Kernels
<1> HIDE DEF on2
<1>3. /\ K \in Kernels /\ K.lessees = r.kernel.lessees
      /\ K.crtc = r.kernel.crtc /\ K.on = on2
  BY <1>2 DEF Statuses, Kernels
<1> HIDE DEF K
<1>4. Stays(r, q) /\ q.kernel = K
  BY <1>3, WithKernel
<1> HIDE DEF q
<1>5. SparingCall(r, q)
  BY <1>2, <1>3, <1>4, SparedSame DEF SparingCall, Stays
<1> QED
  BY <1>1, <1>5

\* xf86DisableUnusedFunctions leaves out what is leased.
LEMMA DisableUnusedSpares ==
  ASSUME NEW r \in Statuses, Unrouted(r), NEW outcome
  PROVE  Spared(r, DisableUnused(r, outcome))
<1> DEFINE idle == {o \in Outputs : r.output[o].crtc = NoCrtc /\ ~OutputIsLeased(r, o)}
           unused == {c \in Crtcs : ~r.crtc[c].enabled /\ ~CrtcIsLeased(r, c)}
           r1 == IF r.server.isDummy THEN r ELSE OutputDpms(r, idle, FALSE)
           F == TurnOff(outcome)
           q == Each(NumCrtcs, unused, F, r1)
<1>1. q = DisableUnused(r, outcome)
  BY DEF DisableUnused
<1>2. SparingCall(r, r1)
  <2>1. CASE r.server.isDummy
    BY <2>1, SparedSame DEF SparingCall
  <2>2. CASE ~r.server.isDummy
    <3>1. idle \in SUBSET Outputs /\ \A o \in idle : ~OutputIsLeased(r, o)
      OBVIOUS
    <3> HIDE DEF idle
    <3> QED
      BY <2>2, <3>1, DpmsSpares
  <2> QED
    BY <2>1, <2>2
<1> HIDE DEF r1
<1>3. ASSUME NEW c \in Crtcs, NEW s \in Statuses, c \in unused, s.lease = r.lease,
             s.output = r.output
      PROVE  SparingCall(s, F[c][s])
  <2> DEFINE t == CrtcDpmsOff(s, c, outcome)
             u == [t EXCEPT !.crtc[c].mode = NoMode]
  <2>1. ~CrtcIsLeased(s, c) /\ Unrouted(s)
    BY <1>3 DEF CrtcIsLeased, Unrouted
  <2>2. F[c][s] = u
    BY DEF TurnOff
  <2>3. GoesOff(s, t, c) /\ Spared(s, t)
    BY <2>1, CrtcOffFacts, OffSpares
  <2> HIDE DEF t
  <2>4. t \in Statuses /\ t.lease = s.lease /\ t.output = s.output
    BY <2>3 DEF GoesOff, Stays
  <2>5. [t.crtc EXCEPT ![c].mode = NoMode] \in [Crtcs -> CrtcRecs]
    BY <2>4 DEF Statuses, CrtcRecs
  <2>6. u \in Statuses /\ u.lease = s.lease /\ u.output = s.output /\ u.kernel = t.kernel
    BY <2>4, <2>5 DEF Statuses
  <2> HIDE DEF u
  <2>7. SparingCall(s, u)
    BY <2>3, <2>6 DEF Spared, SparingCall
  <2> QED
    BY <2>2, <2>7
<1> HIDE DEF unused, F
<1>4. SparingCall(r, q)
  BY <1>2, <1>3, LoopSpares
<1> HIDE DEF q
<1> QED
  BY <1>1, <1>4 DEF SparingCall

\* A mode set with a free CRTC and free outputs.
LEMMA RandRSetSpares ==
  ASSUME NEW r0, Sound(r0), NEW c \in Crtcs, NEW mode \in Modes,
         NEW outputs \in SUBSET Outputs, MayDrive(r0, c, outputs), NEW outcome
  PROVE  Spared(r0, RandRSet(r0, c, mode, outputs, outcome))
<1> DEFINE r == Configured(r0, c, outputs)
           s == SetModeMajor(r, c, mode, outcome)
           t == [s EXCEPT !.crtc[c].desiredMode = mode]
           q == RandRSet(r0, c, mode, outputs, outcome)
<1>1. q = IF s.ok THEN DisableUnused(t, outcome)
          ELSE [s EXCEPT !.crtc = r0.crtc, !.output = r0.output]
  BY DEF RandRSet, Configured
<1>2. r0 \in Statuses /\ mode \in Modes \cup {NoMode}
  BY DEF Sound
<1>3. SameLeases(r0, r) /\ r.kernel = r0.kernel
  BY <1>2, ConfiguredFacts
<1>4. Sound(r)
  BY ConfiguredIsSound
<1>5. r \in Statuses /\ Unrouted(r)
  BY <1>4, SoundUnrouted
<1> HIDE DEF r
<1>6. ~CrtcIsLeased(r, c) /\ r.lease = r0.lease
  BY <1>3 DEF MayDrive, CrtcIsLeased, SameLeases
<1>7. Spared(r, s) /\ Stays(r, s)
  BY <1>2, <1>5, <1>6, ModeSetSpares, ModeSetCases
<1> HIDE DEF s, q
<1>8. Spared(r0, r)
  BY <1>3, SparedSame
<1>9. Spared(r0, s)
  BY <1>6, <1>7, <1>8, SparedTwice
<1>10. s \in Statuses /\ s.lease = r.lease /\ s.output = r.output
  BY <1>7 DEF Stays
<1>11. CASE s.ok
  <2>1. Stays(s, t)
    BY <1>10, DesiredFacts
  <2>2. t.kernel = s.kernel
    BY <1>10 DEF Statuses
  <2>3. q = DisableUnused(t, outcome)
    BY <1>1, <1>11
  <2> HIDE DEF t
  <2>4. t \in Statuses /\ t.lease = r0.lease /\ Unrouted(t)
    BY <1>5, <1>6, <1>10, <2>1 DEF Stays, Unrouted
  <2>5. Spared(t, q)
    BY <2>3, <2>4, DisableUnusedSpares
  <2>6. Spared(r0, t)
    BY <1>9, <2>2 DEF Spared
  <2>7. Spared(r0, q)
    BY <2>4, <2>5, <2>6, SparedTwice
  <2> QED
    BY <2>7 DEF q
<1>12. CASE ~s.ok
  <2>1. q.kernel = s.kernel
    BY <1>1, <1>10, <1>12 DEF Statuses
  <2>2. Spared(r0, q)
    BY <1>9, <2>1 DEF Spared
  <2> QED
    BY <2>2 DEF q
<1> QED
  BY <1>11, <1>12

-----------------------------------------------------------------------------
(***************************************************************************)
(* Leases end.                                                             *)
(***************************************************************************)
\* The record of no lease.
LEMMA NoLeaseType ==
  /\ NoLease \in Leases /\ NoLease.crtcs = {} /\ NoLease.outputs = {}
  /\ \A c \in Crtcs : NoLease.was[c].routes = {} /\ NoLease.was[c].mode = NoMode
BY OffShown DEF NoLease, Leases

\* The server forgets a lease the kernel does not have.
LEMMA EndedFacts ==
  ASSUME NEW r, Sound(r), NEW l \in Lessees, l \notin r.kernel.lessees
  PROVE  LET q == [r EXCEPT !.lease[l] = NoLease]
         IN /\ Sound(q) /\ q.server = r.server /\ q.next = r.next /\ q.scanout = r.scanout
            /\ q.kernel = r.kernel /\ q.lease = [r.lease EXCEPT ![l] = NoLease]
            /\ AgreeShown(r) => AgreeShown(q)
<1> DEFINE q == [r EXCEPT !.lease[l] = NoLease]
           ls == [r.lease EXCEPT ![l] = NoLease]
<1>1. r \in Statuses /\ r.lease \in [Lessees -> Leases]
  BY DEF Sound, Statuses
<1>2. /\ ls \in [Lessees -> Leases] /\ ls[l] = NoLease
      /\ \A m \in Lessees \ {l} : ls[m] = r.lease[m]
  BY <1>1, NoLeaseType
<1>3. q = [r EXCEPT !.lease = ls]
  OBVIOUS
<1> HIDE DEF q, ls
<1>4. /\ q \in Statuses /\ q.server = r.server /\ q.next = r.next /\ q.scanout = r.scanout
      /\ q.kernel = r.kernel /\ q.lease = ls /\ q.crtc = r.crtc /\ q.output = r.output
      /\ q.unsure = r.unsure /\ q.asleep = r.asleep
  BY <1>1, <1>2, <1>3 DEF Statuses
<1>5. PossibleRoutes(q)
  BY <1>4 DEF Sound, PossibleRoutes
<1>6. NoMode \notin Modes
  BY LcdModesAssumption
<1>7. ASSUME NEW m \in Lessees
      PROVE  /\ \A c \in q.lease[m].crtcs : ~q.crtc[c].enabled
             /\ \A o \in q.lease[m].outputs : q.output[o].crtc = NoCrtc
             /\ \A c \in Crtcs :
                  /\ q.lease[m].was[c].routes \subseteq q.lease[m].outputs
                  /\ q.lease[m].was[c].mode \in Modes => c \in q.lease[m].crtcs
                  /\ \A o \in q.lease[m].was[c].routes : \A e \in Encoders[o] : c \in e
             /\ q.server.isDummy => q.lease[m].crtcs = {}
             /\ m \in q.kernel.lessees => q.lease[m].crtcs # {} /\ q.lease[m].outputs # {}
  <2>1. CASE m = l
    <3>1. q.lease[m] = NoLease
      BY <1>2, <1>4, <2>1
    <3>2. m \notin q.kernel.lessees
      BY <1>4, <2>1
    <3> QED
      BY <1>6, <3>1, <3>2, NoLeaseType
  <2>2. CASE m # l
    BY <1>2, <1>4, <2>2 DEF Sound, LeasesFit
  <2> QED
    BY <2>1, <2>2
<1>8. ASSUME NEW m \in Lessees, NEW n \in Lessees, m # n
      PROVE  /\ q.lease[m].crtcs \cap q.lease[n].crtcs = {}
             /\ q.lease[m].outputs \cap q.lease[n].outputs = {}
  <2>1. CASE m # l /\ n # l
    BY <1>2, <1>4, <1>8, <2>1 DEF Sound, LeasesFit
  <2>2. CASE m = l \/ n = l
    BY <1>2, <1>4, <2>2, NoLeaseType
  <2> QED
    BY <2>1, <2>2
<1>9. LeasesFit(q)
  BY <1>7, <1>8 DEF LeasesFit
<1>10. Sound(q)
  BY <1>4, <1>5, <1>9 DEF Sound
<1>11. AgreeShown(r) => AgreeShown(q)
  <2>1. Real(q) <=> Real(r)
    BY <1>4 DEF Real
  <2>2. \A d \in Crtcs : ShownAt(r, d) => ShownAt(q, d)
    BY <1>1, <1>4, ShownStays
  <2> QED
    BY <2>1, <2>2 DEF AgreeShown
<1>12. /\ Sound(q) /\ q.server = r.server /\ q.next = r.next /\ q.scanout = r.scanout
       /\ q.kernel = r.kernel /\ q.lease = ls
       /\ AgreeShown(r) => AgreeShown(q)
  BY <1>4, <1>10, <1>11
<1> QED
  BY <1>12 DEF q, ls

\* xf86CrtcLeaseTerminated for a lease that ended in the kernel.
LEMMA LeaseTerminatedFacts ==
  ASSUME NEW r, Sound(r), NEW l \in Lessees, l \notin r.kernel.lessees, NEW outcome
  PROVE  LET q == LeaseTerminated(r, l, outcome)
         IN /\ Sound(q) /\ q.server = r.server /\ q.next = r.next
            /\ q.kernel.lessees = r.kernel.lessees
            /\ q.lease = [r.lease EXCEPT ![l] = NoLease] /\ (Real(q) <=> Real(r))
            /\ AgreeShown(r) => Agree(q)
            /\ Spared([r EXCEPT !.lease[l] = NoLease], q)
<1> DEFINE was == r.lease[l].was
           ran == {c \in Crtcs : was[c].mode \in Modes}
           ended == [r EXCEPT !.lease[l] = NoLease]
           F == Again(was, outcome)
           Kept == {s \in Statuses : /\ Sound(s) /\ SameLeases(ended, s)
                                     /\ (Real(s) <=> Real(r))
                                     /\ AgreeShown(r) => AgreeShown(s)
                                     /\ Spared(ended, s)}
           At == [i \in 0 .. NumCrtcs |-> Kept]
           t == Each(NumCrtcs, ran, F, ended)
           q == DisableUnused(t, outcome)
<1>1. q = LeaseTerminated(r, l, outcome)
  BY DEF LeaseTerminated
<1>2. /\ Sound(ended) /\ ended.server = r.server /\ ended.next = r.next
      /\ ended.scanout = r.scanout
      /\ ended.kernel = r.kernel /\ ended.lease = [r.lease EXCEPT ![l] = NoLease]
      /\ AgreeShown(r) => AgreeShown(ended)
  BY EndedFacts
<1>3. r \in Statuses /\ r.lease \in [Lessees -> Leases] /\ r.lease[l] \in Leases
  BY DEF Sound, Statuses
<1>4. was \in [Crtcs -> Shown] /\ r.lease[l].outputs \subseteq Outputs
  BY <1>3 DEF Leases
<1>5. ASSUME NEW s \in Kept, NEW c \in ran
      PROVE  F[c][s] \in Kept
  <2>1. /\ s \in Statuses /\ Sound(s) /\ SameLeases(ended, s)
        /\ (Real(s) <=> Real(r)) /\ (AgreeShown(r) => AgreeShown(s))
    OBVIOUS
  <2>2. c \in Crtcs /\ was[c].mode \in Modes /\ was[c].routes \in SUBSET Outputs
    BY <1>4 DEF Shown
  <2>3. /\ c \in r.lease[l].crtcs /\ was[c].routes \subseteq r.lease[l].outputs
        /\ \A o \in was[c].routes : \A e \in Encoders[o] : c \in e
    BY <2>2 DEF Sound, LeasesFit
  <2>4. s.lease = [r.lease EXCEPT ![l] = NoLease]
    BY <1>2, <2>1 DEF SameLeases
  <2>5. \A m \in Lessees \ {l} : /\ r.lease[l].crtcs \cap r.lease[m].crtcs = {}
                                 /\ r.lease[l].outputs \cap r.lease[m].outputs = {}
    BY DEF Sound, LeasesFit
  <2>6. ASSUME NEW m \in Lessees
        PROVE  c \notin s.lease[m].crtcs /\ s.lease[m].outputs \cap was[c].routes = {}
    <3>1. CASE m = l
      <4>1. s.lease[m] = NoLease
        BY <1>3, <2>4, <3>1
      <4> QED
        BY <4>1, NoLeaseType
    <3>2. CASE m # l
      <4>1. s.lease[m] = r.lease[m]
        BY <1>3, <2>4, <3>2
      <4> HIDE DEF was
      <4> QED
        BY <2>3, <2>5, <3>2, <4>1
    <3> QED
      BY <3>1, <3>2
  <2> HIDE DEF was
  <2>7. MayDrive(s, c, was[c].routes)
    BY <2>3, <2>6 DEF MayDrive, CrtcIsLeased, OutputIsLeased
  <2> DEFINE u == RandRSet(s, c, was[c].mode, was[c].routes, outcome)
  <2>8. F[c][s] = u
    BY <2>1, <2>2 DEF Again
  <2>9. /\ Sound(u) /\ SameLeases(s, u) /\ (Real(u) <=> Real(s))
        /\ AgreeShown(s) => AgreeShown(u)
    BY <2>1, <2>2, <2>7, RandRSetFacts
  <2> HIDE DEF u
  <2>10. u \in Statuses /\ SameLeases(ended, u)
    BY <2>1, <2>9 DEF Sound, SameLeases
  <2>11. Spared(s, u) /\ Spared(ended, s) /\ s.lease = ended.lease
    BY <2>1, <2>2, <2>7, RandRSetSpares DEF SameLeases, u
  <2> HIDE DEF ended
  <2>12. Spared(ended, u)
    BY <2>11, SparedTwice
  <2> QED
    BY <2>1, <2>8, <2>9, <2>10, <2>12
<1>6. ended \in Kept
  <2>1. SameLeases(ended, ended) /\ (Real(ended) <=> Real(r)) /\ ended \in Statuses
    BY <1>2 DEF SameLeases, Real, Sound
  <2>2. Spared(ended, ended)
    BY SparedSame
  <2> HIDE DEF ended
  <2> QED
    BY <1>2, <2>1, <2>2
<1> HIDE DEF Kept, ran, F, ended, was
<1>7. t \in Kept
  <2>1. \A i \in 0 .. NumCrtcs : At[i] = Kept
    OBVIOUS
  <2>2. ended \in At[0]
    BY <1>6, <2>1, CrtcsNat
  <2>3. \A i \in 1 .. NumCrtcs : \A s \in At[i - 1] :
          /\ i \in ran => F[i][s] \in At[i]
          /\ i \notin ran => s \in At[i]
    <3>1. \A i \in 1 .. NumCrtcs : i \in 0 .. NumCrtcs /\ i - 1 \in 0 .. NumCrtcs
      BY CrtcsNat
    <3> HIDE DEF At
    <3> QED
      BY <1>5, <2>1, <3>1
  <2>4. At[NumCrtcs] = Kept
    BY <2>1, CrtcsNat
  <2> HIDE DEF At
  <2>5. t \in At[NumCrtcs]
    BY <2>2, <2>3, CrtcsNat, EachReaches
  <2> QED
    BY <2>4, <2>5
<1> HIDE DEF t
<1>8. /\ t \in Statuses /\ Sound(t) /\ SameLeases(ended, t)
      /\ (Real(t) <=> Real(r)) /\ (AgreeShown(r) => AgreeShown(t))
      /\ Spared(ended, t)
  BY <1>7 DEF Kept
<1>9. SameRecords(t, q) /\ (AgreeShown(t) => Agree(q)) /\ Spared(t, q)
  BY <1>8, DisableUnusedFacts, DisableUnusedSpares, SoundUnrouted
<1> HIDE DEF q
<1>10. SameLeases(t, q) /\ q \in Statuses /\ q.output = t.output /\ (Real(q) <=> Real(t))
  BY <1>9 DEF SameRecords, Stays, SameLeases, Real
<1>11. \A d \in Crtcs : q.crtc[d].enabled = t.crtc[d].enabled
  BY <1>9 DEF SameRecords
<1>12. Sound(q)
  BY <1>8, <1>10, <1>11, SoundStays
<1>13. /\ q.server = r.server /\ q.next = r.next /\ q.kernel.lessees = r.kernel.lessees
       /\ q.lease = [r.lease EXCEPT ![l] = NoLease]
  BY <1>2, <1>8, <1>10 DEF SameLeases
<1>14. Spared(ended, q)
  BY <1>8, <1>9, SparedTwice DEF SameLeases
<1> QED
  BY <1>1, <1>8, <1>9, <1>10, <1>12, <1>13, <1>14 DEF ended

\* The first i leases have been looked at.
Validated(r, s, i) ==
  /\ Sound(s) /\ s.server = r.server /\ s.next = r.next
  /\ s.kernel.lessees = r.kernel.lessees /\ (Real(s) <=> Real(r))
  /\ Agree(r) => Agree(s)
  /\ \A m \in Lessees : s.lease[m] = IF m \in GoneLeases(r) /\ m <= i THEN NoLease ELSE r.lease[m]

\* fbdev_validate_leases: what is on record is in the kernel, if it could be asked.
LEMMA ValidateLeasesFacts ==
  ASSUME NEW r, Sound(r), NEW outcome
  PROVE  LET q == ValidateLeases(r, outcome)
         IN /\ Sound(q) /\ q.server = r.server /\ q.next = r.next
            /\ q.kernel.lessees = r.kernel.lessees /\ (Real(q) <=> Real(r))
            /\ Agree(r) => Agree(q)
            /\ outcome # "unlisted" => \A m \in Lessees : IsLease(q, m) => m \in q.kernel.lessees
<1>u. CASE outcome = "unlisted"
  BY <1>u DEF ValidateLeases
<1> SUFFICES ASSUME outcome # "unlisted"
             PROVE  LET q == ValidateLeases(r, outcome)
                    IN /\ Sound(q) /\ q.server = r.server /\ q.next = r.next
                       /\ q.kernel.lessees = r.kernel.lessees /\ (Real(q) <=> Real(r))
                       /\ Agree(r) => Agree(q)
                       /\ \A m \in Lessees : IsLease(q, m) => m \in q.kernel.lessees
  BY <1>u
<1> DEFINE gone == GoneLeases(r)
           F == EndLease(outcome)
           At == [i \in 0 .. NumLessees |-> {s \in Statuses : Validated(r, s, i)}]
           q == Each(NumLessees, gone, F, r)
<1>0. q = ValidateLeases(r, outcome)
  BY DEF ValidateLeases
<1>1. NumLessees \in Nat /\ Lessees = 1 .. NumLessees
  BY LcdModesAssumption DEF Lessees
<1>2. r \in At[0]
  <2>1. \A m \in Lessees : ~(m <= 0)
    BY <1>1
  <2>2. Validated(r, r, 0)
    BY <2>1 DEF Validated
  <2> QED
    BY <1>1, <2>2 DEF Sound
<1>3. ASSUME NEW i \in 1 .. NumLessees, NEW s \in At[i - 1]
      PROVE  /\ i \in gone => F[i][s] \in At[i]
             /\ i \notin gone => s \in At[i]
  <2>1. i \in Lessees /\ i - 1 \in 0 .. NumLessees /\ i \in 0 .. NumLessees
    BY <1>1
  <2>2. s \in Statuses /\ Validated(r, s, i - 1)
    BY <2>1
  <2>3. \A m \in Lessees : m <= i <=> m = i \/ m <= i - 1
    BY <1>1
  <2>4. CASE i \in gone
    <3> DEFINE u == LeaseTerminated(s, i, outcome)
    <3>1. F[i][s] = u
      BY <2>1, <2>2 DEF EndLease
    <3>2. i \notin s.kernel.lessees /\ Sound(s)
      BY <2>2, <2>4 DEF Validated, GoneLeases
    <3>3. /\ Sound(u) /\ u.server = s.server /\ u.next = s.next
          /\ u.kernel.lessees = s.kernel.lessees
          /\ u.lease = [s.lease EXCEPT ![i] = NoLease] /\ (Real(u) <=> Real(s))
          /\ AgreeShown(s) => Agree(u)
      BY <2>1, <3>2, LeaseTerminatedFacts
    <3> HIDE DEF u
    <3>4. Agree(s) => AgreeShown(s)
      BY DEF Agree, AgreeShown
    <3>5. s.lease \in [Lessees -> Leases]
      BY <2>2 DEF Statuses
    <3>6. ASSUME NEW m \in Lessees
          PROVE  u.lease[m] = IF m \in GoneLeases(r) /\ m <= i THEN NoLease ELSE r.lease[m]
      BY <2>1, <2>2, <2>3, <2>4, <3>3, <3>5 DEF Validated
    <3>7. Validated(r, u, i) /\ u \in Statuses
      BY <2>2, <3>3, <3>4, <3>6 DEF Validated, Sound
    <3> QED
      BY <2>1, <2>4, <3>1, <3>7
  <2>5. CASE i \notin gone
    <3>1. Validated(r, s, i)
      BY <2>1, <2>2, <2>3, <2>5 DEF Validated
    <3> QED
      BY <2>1, <2>2, <2>5, <3>1
  <2> QED
    BY <2>4, <2>5
<1> HIDE DEF At, gone, F
<1>4. q \in At[NumLessees]
  BY <1>1, <1>2, <1>3, EachReaches
<1>5. Validated(r, q, NumLessees)
  BY <1>1, <1>4 DEF At
<1> HIDE DEF q
<1>6. ASSUME NEW m \in Lessees, IsLease(q, m) PROVE m \in q.kernel.lessees
  <2>1. m <= NumLessees
    BY <1>1
  <2>2. m \notin GoneLeases(r) /\ q.lease[m] = r.lease[m]
    BY <1>5, <1>6, <2>1, NoLeaseType DEF Validated, IsLease
  <2>3. IsLease(r, m)
    BY <1>6, <2>2 DEF IsLease
  <2> QED
    BY <1>5, <2>2, <2>3 DEF GoneLeases, Validated
<1> QED
  BY <1>0, <1>5, <1>6 DEF Validated

\* A loop over nothing.
LEMMA EachNone ==
  ASSUME NEW n \in Nat, NEW F, NEW r
  PROVE  Each(n, {}, F, r) = r
<1> DEFINE At == [i \in 0 .. n |-> {r}]
<1>1. r \in At[0] /\ \A i \in 1 .. n : \A s \in At[i - 1] : s \in At[i]
  OBVIOUS
<1>2. At[n] = {r}
  OBVIOUS
<1> HIDE DEF At
<1>3. Each(n, {}, F, r) \in At[n]
  BY <1>1, EachReaches
<1> QED
  BY <1>2, <1>3

-----------------------------------------------------------------------------
(***************************************************************************)
(* fbdev_set_desired_modes, CRTC by CRTC.                                  *)
(***************************************************************************)
\* An enabled CRTC has the mode it shall have.
FreshAt(r, c) ==
  r.crtc[c].enabled /\ c \notin r.unsure =>
    r.scanout # "no_fb" /\ r.crtc[c].mode = r.crtc[c].desiredMode

\* Nothing is wrong with CRTC c.
SafeAt(r, c) == ShownAt(r, c) /\ OffAt(r, c) /\ FreshAt(r, c)

\* What setting the desired modes leaves alone.
KeepsSetup(r, q) ==
  /\ q \in Statuses
  /\ q.server = r.server /\ q.output = r.output /\ q.lease = r.lease
  /\ q.kernel.lessees = r.kernel.lessees
  /\ \A d \in Crtcs : /\ q.crtc[d].enabled = r.crtc[d].enabled
                      /\ q.crtc[d].desiredMode = r.crtc[d].desiredMode
  /\ (Real(q) <=> Real(r)) /\ q.asleep \subseteq r.asleep

\* The loop ends without a result to go on with.
Over == {"fail", "crash"}

\* One CRTC's turn when the desired modes are set.
TakesTurn(s, u, c, set_hw) ==
  /\ KeepsSetup(s, u)
  /\ u.next \notin Over => s.next \notin Over
  /\ Real(s) =>
       /\ \A d \in Crtcs \ {c} : SafeAt(s, d) => SafeAt(u, d)
       /\ SafeAt(s, c) => SafeAt(u, c)
       /\ set_hw /\ u.next \notin Over => SafeAt(u, c)

\* A CRTC that nothing happens to stays as it should be.
LEMMA SafeStays ==
  ASSUME NEW r \in Statuses, NEW q \in Statuses, NEW d \in Crtcs, SafeAt(r, d),
         q.output = r.output, q.lease = r.lease, q.scanout = r.scanout, Vouched(r, q),
         q.crtc[d].enabled = r.crtc[d].enabled, q.crtc[d].mode = r.crtc[d].mode,
         q.crtc[d].desiredMode = r.crtc[d].desiredMode
  PROVE  SafeAt(q, d)
<1>1. ShownAt(q, d)
  BY ShownStays DEF SafeAt, Vouched
<1>2. OffAt(q, d)
  BY OffStays DEF SafeAt, Vouched
<1>3. FreshAt(q, d)
  BY DEF SafeAt, FreshAt, Vouched
<1> QED
  BY <1>1, <1>2, <1>3 DEF SafeAt

\* A CRTC somebody is unsure of makes no claim, but that of a disabled one.
LEMMA UnsureIsSafe ==
  ASSUME NEW r, NEW c \in Crtcs, c \in r.unsure
  PROVE  SafeAt(r, c)
BY DEF SafeAt, ShownAt, OffAt, FreshAt

\* CRTCs that are passed over, and how the loop goes on.
Marked(r, cs, set_hw, n) == [NotSet(r, cs, set_hw) EXCEPT !.next = n]

\* How the loop goes on.
Nexts == {"crtc", "break", "fail", "crash"}

\* CRTCs that are not reached.
LEMMA NotSetFacts ==
  ASSUME NEW r \in Statuses, NEW cs \in SUBSET Crtcs, NEW set_hw \in BOOLEAN, NEW n,
         n \in Nexts
  PROVE  LET q == Marked(r, cs, set_hw, n)
         IN /\ q \in Statuses /\ KeepsSetup(r, q) /\ q.next = n
            /\ \A d \in Crtcs : SafeAt(r, d) => SafeAt(q, d)
            /\ set_hw => cs \subseteq q.unsure
<1> DEFINE q == Marked(r, cs, set_hw, n)
<1>1. /\ q \in Statuses /\ q.server = r.server /\ q.output = r.output /\ q.lease = r.lease
      /\ q.crtc = r.crtc /\ q.scanout = r.scanout /\ q.kernel = r.kernel /\ q.asleep = r.asleep
      /\ q.unsure = (IF set_hw THEN r.unsure \cup cs ELSE r.unsure) /\ q.next = n
  BY DEF Marked, NotSet, Statuses, Nexts
<1> HIDE DEF q
<1>2. KeepsSetup(r, q)
  BY <1>1 DEF KeepsSetup, Real
<1>3. Vouched(r, q)
  BY <1>1 DEF Vouched
<1>4. \A d \in Crtcs : SafeAt(r, d) => SafeAt(q, d)
  BY <1>1, <1>3, SafeStays
<1>5. /\ q \in Statuses /\ KeepsSetup(r, q) /\ q.next = n
      /\ \A d \in Crtcs : SafeAt(r, d) => SafeAt(q, d)
      /\ set_hw => cs \subseteq q.unsure
  BY <1>1, <1>2, <1>4
<1> QED
  BY <1>5 DEF q

\* A CRTC that is passed over does not end the loop.
LEMMA SameNext ==
  ASSUME NEW r \in Statuses, NEW cs, NEW set_hw
  PROVE  NotSet(r, cs, set_hw) = Marked(r, cs, set_hw, r.next)
BY DEF Marked, NotSet, Statuses

\* A turn that passes the CRTC over.
LEMMA PassedOver ==
  ASSUME NEW r \in Statuses, NEW c \in Crtcs, NEW set_hw \in BOOLEAN
  PROVE  TakesTurn(r, NotSet(r, {c}, set_hw), c, set_hw)
<1> DEFINE n == r.next
           cs == {c}
           q == Marked(r, cs, set_hw, n)
<1>1. n \in Nexts
  BY DEF Statuses, Nexts
<1>2. cs \in SUBSET Crtcs
  OBVIOUS
<1>3. q = NotSet(r, {c}, set_hw)
  BY SameNext
<1> HIDE DEF n, cs
<1>4. /\ q \in Statuses /\ KeepsSetup(r, q)
      /\ \A d \in Crtcs : SafeAt(r, d) => SafeAt(q, d)
      /\ set_hw => cs \subseteq q.unsure
  BY <1>1, <1>2, NotSetFacts
<1>8. q.next = n
  BY <1>1 DEF Marked, NotSet, Statuses
<1> HIDE DEF q
<1>5. set_hw => SafeAt(q, c)
  BY <1>4, UnsureIsSafe DEF cs
<1>6. q.next = r.next
  BY <1>8 DEF n
<1>7. TakesTurn(r, q, c, set_hw)
  BY <1>4, <1>5, <1>6 DEF TakesTurn
<1> QED
  BY <1>3, <1>7

\* The turn of a CRTC that the compat output does not have.
LEMMA OtherCrtcTurn ==
  ASSUME NEW r \in Statuses, NEW c \in Crtcs, NEW set_hw \in BOOLEAN, NEW beyond,
         r.next = "crtc"
  PROVE  TakesTurn(r, OtherCrtc(r, c, set_hw, beyond), c, set_hw)
<1>1. CASE beyond = NoCrtc
  <2> DEFINE q == Marked(r, {}, FALSE, "crash")
  <2>1. q = OtherCrtc(r, c, set_hw, beyond)
    BY <1>1 DEF OtherCrtc, NotSet, Marked
  <2>2. /\ q \in Statuses /\ KeepsSetup(r, q) /\ q.next = "crash"
        /\ \A d \in Crtcs : SafeAt(r, d) => SafeAt(q, d)
    BY NotSetFacts, "crash" \in Nexts DEF Nexts
  <2> HIDE DEF q
  <2>3. TakesTurn(r, q, c, set_hw)
    BY <2>2 DEF TakesTurn, Over
  <2> QED
    BY <2>1, <2>3
<1>2. CASE beyond # NoCrtc /\ beyond = c
  <2> DEFINE cs == {d \in Crtcs : d >= c}
             q == Marked(r, cs, set_hw, "break")
  <2>1. q = OtherCrtc(r, c, set_hw, beyond)
    BY <1>2 DEF OtherCrtc, Marked
  <2>2. c \in cs /\ cs \in SUBSET Crtcs
    BY CrtcsNat
  <2> HIDE DEF cs
  <2>3. /\ q \in Statuses /\ KeepsSetup(r, q) /\ q.next = "break"
        /\ \A d \in Crtcs : SafeAt(r, d) => SafeAt(q, d)
        /\ set_hw => cs \subseteq q.unsure
    BY <2>2, NotSetFacts, "break" \in Nexts DEF Nexts
  <2> HIDE DEF q
  <2>4. TakesTurn(r, q, c, set_hw)
    BY <2>2, <2>3, UnsureIsSafe DEF TakesTurn, Over
  <2> QED
    BY <2>1, <2>4
<1>3. CASE beyond # NoCrtc /\ beyond # c
  BY <1>3, PassedOver DEF OtherCrtc
<1> QED
  BY <1>1, <1>2, <1>3

\* The turn of a disabled CRTC.
LEMMA DisabledTurn ==
  ASSUME NEW r \in Statuses, NEW c \in Crtcs, NEW set_hw \in BOOLEAN, NEW outcome,
         ~r.crtc[c].enabled
  PROVE  TakesTurn(r, TurnOffDisabled(r, c, set_hw, outcome), c, set_hw)
<1>1. CASE ~set_hw
  <2>1. TurnOffDisabled(r, c, set_hw, outcome) = r
    BY <1>1 DEF TurnOffDisabled
  <2>2. TakesTurn(r, r, c, set_hw)
    BY <1>1 DEF TakesTurn, KeepsSetup
  <2> QED
    BY <2>1, <2>2
<1>2. CASE set_hw
  <2> DEFINE q == TurnOffDisabled(r, c, TRUE, outcome)
  <2>1. GoesOff(r, q, c)
    BY TurnOffDisabledFacts
  <2> HIDE DEF q
  <2>2. KeepsSetup(r, q) /\ q.next = r.next
    BY <2>1 DEF GoesOff, KeepsSetup, Stays, Real
  <2>3. ASSUME NEW d \in Crtcs \ {c}, SafeAt(r, d) PROVE SafeAt(q, d)
    BY <2>1, <2>3 DEF GoesOff, SafeAt, FreshAt
  <2>4. Real(r) => SafeAt(q, c)
    BY <2>1 DEF GoesOff, SafeAt, FreshAt, Real
  <2>5. TakesTurn(r, q, c, set_hw)
    BY <2>2, <2>3, <2>4 DEF TakesTurn
  <2> QED
    BY <1>2, <2>5 DEF q
<1> QED
  BY <1>1, <1>2

\* Only the mode of CRTC c is written, and the result of the call.
Rewritten(r, c, mode, ok) == [r EXCEPT !.crtc[c].mode = mode, !.ok = ok]

\* Only CRTC c may be other than it should be.
LEMMA RewrittenFacts ==
  ASSUME NEW r \in Statuses, NEW c \in Crtcs, NEW mode \in Modes \cup {NoMode}, NEW ok \in BOOLEAN
  PROVE  LET q == Rewritten(r, c, mode, ok)
         IN /\ KeepsSetup(r, q) /\ q.next = r.next /\ q.ok = ok
            /\ q.scanout = r.scanout /\ q.kernel = r.kernel
            /\ q.unsure = r.unsure /\ q.asleep = r.asleep
            /\ q.crtc[c].mode = mode
            /\ \A d \in Crtcs \ {c} : SafeAt(r, d) => SafeAt(q, d)
            /\ SafeAt(r, c) /\ (c \notin r.unsure => r.crtc[c].mode = mode) => SafeAt(q, c)
<1> DEFINE q == Rewritten(r, c, mode, ok)
<1> DEFINE crtcs == [r.crtc EXCEPT ![c].mode = mode]
<1>0. q = [r EXCEPT !.crtc = crtcs, !.ok = ok]
  BY DEF Rewritten
<1>a. crtcs \in [Crtcs -> CrtcRecs]
  <2>1. r.crtc \in [Crtcs -> CrtcRecs]
    BY DEF Statuses
  <2> QED
    BY <2>1 DEF CrtcRecs
<1>1. /\ q \in Statuses /\ q.server = r.server /\ q.output = r.output /\ q.lease = r.lease
      /\ q.scanout = r.scanout /\ q.kernel = r.kernel
      /\ q.unsure = r.unsure /\ q.asleep = r.asleep /\ q.next = r.next /\ q.ok = ok
  <2> HIDE DEF q, crtcs
  <2> QED
    BY <1>0, <1>a DEF Statuses
<1>2. /\ q.crtc[c].mode = mode
      /\ \A d \in Crtcs : /\ q.crtc[d].enabled = r.crtc[d].enabled
                          /\ q.crtc[d].desiredMode = r.crtc[d].desiredMode
                          /\ d # c => q.crtc[d].mode = r.crtc[d].mode
  BY DEF Rewritten, Statuses, CrtcRecs
<1> HIDE DEF q
<1>3. KeepsSetup(r, q)
  BY <1>1, <1>2 DEF KeepsSetup, Real
<1>4. Vouched(r, q)
  BY <1>1 DEF Vouched
<1>5. ASSUME NEW d \in Crtcs \ {c}, SafeAt(r, d) PROVE SafeAt(q, d)
  BY <1>1, <1>2, <1>4, <1>5, SafeStays
<1>6. ASSUME SafeAt(r, c), c \notin r.unsure => r.crtc[c].mode = mode PROVE SafeAt(q, c)
  <2>1. CASE c \in r.unsure
    BY <1>1, <2>1, UnsureIsSafe
  <2>2. CASE c \notin r.unsure
    <3>1. q.crtc[c].mode = r.crtc[c].mode
      BY <1>2, <1>6, <2>2
    <3> QED
      BY <1>1, <1>2, <1>4, <1>6, <3>1, SafeStays
  <2> QED
    BY <2>1, <2>2
<1>7. /\ KeepsSetup(r, q) /\ q.next = r.next /\ q.ok = ok
      /\ q.scanout = r.scanout /\ q.kernel = r.kernel
      /\ q.unsure = r.unsure /\ q.asleep = r.asleep
      /\ q.crtc[c].mode = mode
      /\ \A d \in Crtcs \ {c} : SafeAt(r, d) => SafeAt(q, d)
      /\ SafeAt(r, c) /\ (c \notin r.unsure => r.crtc[c].mode = mode) => SafeAt(q, c)
  BY <1>1, <1>2, <1>3, <1>5, <1>6
<1> QED
  BY <1>7 DEF q

\* The loop ends with a failure.
LEMMA FailFacts ==
  ASSUME NEW r \in Statuses
  PROVE  LET q == [r EXCEPT !.next = "fail"]
         IN /\ KeepsSetup(r, q) /\ q.next = "fail"
            /\ \A d \in Crtcs : SafeAt(r, d) => SafeAt(q, d)
<1> DEFINE q == Marked(r, {}, FALSE, "fail")
<1>1. q = [r EXCEPT !.next = "fail"]
  BY DEF Marked, NotSet
<1>2. "fail" \in Nexts
  BY DEF Nexts
<1>3. q.next = "fail"
  BY <1>1 DEF Statuses
<1>4. KeepsSetup(r, q) /\ \A d \in Crtcs : SafeAt(r, d) => SafeAt(q, d)
  BY <1>2, NotSetFacts
<1> HIDE DEF q
<1> QED
  BY <1>1, <1>3, <1>4

\* A call for CRTC c that may fail.
Tried(s, t, c, set_hw) ==
  /\ KeepsSetup(s, t) /\ t.next = s.next
  /\ Real(s) =>
       /\ \A d \in Crtcs \ {c} : SafeAt(s, d) => SafeAt(t, d)
       /\ SafeAt(s, c) => SafeAt(t, c)
       /\ set_hw /\ t.ok => SafeAt(t, c)

\* One after the other.
LEMMA KeepsSetupTwice ==
  ASSUME NEW r, NEW s, NEW t, KeepsSetup(r, s), KeepsSetup(s, t)
  PROVE  KeepsSetup(r, t)
BY DEF KeepsSetup

\* A call that fails ends the loop.
LEMMA TriedFacts ==
  ASSUME NEW s \in Statuses, NEW t, NEW c \in Crtcs, NEW set_hw \in BOOLEAN,
         Tried(s, t, c, set_hw), s.next = "crtc"
  PROVE  TakesTurn(s, IF t.ok THEN t ELSE [t EXCEPT !.next = "fail"], c, set_hw)
<1>1. CASE t.ok
  <2>1. TakesTurn(s, t, c, set_hw)
    BY <1>1 DEF Tried, TakesTurn
  <2> QED
    BY <1>1, <2>1
<1>2. CASE ~t.ok
  <2> DEFINE q == [t EXCEPT !.next = "fail"]
  <2>1. t \in Statuses
    BY DEF Tried, KeepsSetup
  <2>2. KeepsSetup(t, q) /\ q.next = "fail" /\ \A d \in Crtcs : SafeAt(t, d) => SafeAt(q, d)
    BY <2>1, FailFacts
  <2> HIDE DEF q
  <2>3. KeepsSetup(s, q)
    BY <2>2, KeepsSetupTwice DEF Tried
  <2>4. TakesTurn(s, q, c, set_hw)
    BY <2>2, <2>3 DEF Tried, TakesTurn, Over
  <2> QED
    BY <1>2, <2>4 DEF q
<1> QED
  BY <1>1, <1>2

\* What the records of a CRTC can hold.
LEMMA DesiredType ==
  ASSUME NEW r \in Statuses, NEW c \in Crtcs
  PROVE  r.crtc[c].desiredMode \in Modes \cup {NoMode} /\ r.scanout \in Scanouts /\ r.ok \in BOOLEAN
BY DEF Statuses, CrtcRecs

\* The mode that shall be is set.
LEMMA SetTried ==
  ASSUME NEW r \in Statuses, NEW c \in Crtcs, NEW outcome, r.crtc[c].enabled
  PROVE  Tried(r, SetModeMajor([r EXCEPT !.crtc[c].mode = NoMode], c, r.crtc[c].desiredMode, outcome),
               c, TRUE)
<1> DEFINE mode == r.crtc[c].desiredMode
           z == Rewritten(r, c, NoMode, r.ok)
           t == SetModeMajor(z, c, mode, outcome)
<1>1. z = [r EXCEPT !.crtc[c].mode = NoMode]
  BY DEF Rewritten, Statuses
<1>2. mode \in Modes \cup {NoMode} /\ r.ok \in BOOLEAN
  BY DesiredType
<1>3. /\ KeepsSetup(r, z) /\ z.next = r.next /\ z.scanout = r.scanout /\ z.kernel = r.kernel
      /\ z.unsure = r.unsure /\ z.asleep = r.asleep
      /\ \A d \in Crtcs \ {c} : SafeAt(r, d) => SafeAt(z, d)
  BY <1>2, RewrittenFacts
<1> HIDE DEF z, mode
<1>4. z \in Statuses
  BY <1>3 DEF KeepsSetup
<1>5. /\ Stays(z, t) /\ (Real(t) <=> Real(z))
      /\ \A d \in Crtcs : /\ t.crtc[d].enabled = z.crtc[d].enabled
                          /\ t.crtc[d].desiredMode = z.crtc[d].desiredMode
                          /\ d # c => t.crtc[d].mode = z.crtc[d].mode
      /\ z.scanout # "no_fb" => t.scanout = z.scanout
      /\ t.asleep \subseteq z.asleep /\ z.unsure \ {c} \subseteq t.unsure
      /\ \A d \in Crtcs \ {c} : /\ ShownAt(z, d) => ShownAt(t, d)
                                /\ OffAt(z, d) => OffAt(t, d)
      /\ z.crtc[c].enabled => OffAt(t, c)
      /\ Real(z) /\ t.ok => t.scanout = "fb" /\ t.crtc[c].mode = mode /\ ShownAt(t, c)
      /\ ~t.ok => Vouched(z, t)
      /\ Real(z) /\ ~t.ok =>
           \/ t.scanout = "fb" /\ t.crtc[c].mode = mode
           \/ z.scanout = "no_fb" /\ t.scanout = "no_fb" /\ t.crtc = z.crtc
  BY <1>2, <1>4, ModeSetFacts
<1> HIDE DEF t
<1>6. KeepsSetup(z, t) /\ t.next = z.next
  BY <1>5 DEF Stays, KeepsSetup
<1>7. KeepsSetup(r, t) /\ t.next = r.next
  BY <1>3, <1>6, KeepsSetupTwice
<1>8. ASSUME NEW d \in Crtcs \ {c}, SafeAt(r, d) PROVE SafeAt(t, d)
  <2>1. SafeAt(z, d)
    BY <1>3, <1>8
  <2>2. FreshAt(t, d)
    BY <1>5, <2>1 DEF SafeAt, FreshAt
  <2> QED
    BY <1>5, <2>1, <2>2 DEF SafeAt
<1>9. t.crtc[c].enabled /\ t.crtc[c].desiredMode = mode /\ z.crtc[c].enabled
  BY <1>3, <1>7 DEF KeepsSetup, mode
<1>10. ASSUME Real(r), t.ok PROVE SafeAt(t, c)
  <2>1. Real(z)
    BY <1>3, <1>10 DEF KeepsSetup
  <2>2. FreshAt(t, c)
    BY <1>5, <1>9, <1>10, <2>1 DEF FreshAt
  <2> QED
    BY <1>5, <1>9, <1>10, <2>1, <2>2 DEF SafeAt
<1>11. ASSUME Real(r), ~t.ok, SafeAt(r, c) PROVE SafeAt(t, c)
  <2>1. CASE c \in t.unsure
    BY <2>1, UnsureIsSafe
  <2>2. CASE c \notin t.unsure
    <3>1. Real(z) /\ Vouched(z, t)
      BY <1>3, <1>5, <1>11 DEF KeepsSetup
    <3>2. Vouched(r, t)
      BY <1>3, <3>1 DEF Vouched
    <3>3. c \notin r.unsure
      BY <2>2, <3>2 DEF Vouched
    <3>4. r.scanout # "no_fb" /\ r.crtc[c].mode = mode
      BY <1>11, <3>3 DEF SafeAt, FreshAt, mode
    <3>5. t.scanout = r.scanout /\ t.crtc[c].mode = r.crtc[c].mode
      BY <1>3, <1>5, <1>11, <3>1, <3>4
    <3>6. t \in Statuses /\ t.output = r.output /\ t.lease = r.lease
      BY <1>7 DEF KeepsSetup
    <3>7. t.crtc[c].enabled = r.crtc[c].enabled /\ t.crtc[c].desiredMode = r.crtc[c].desiredMode
      BY <1>7 DEF KeepsSetup
    <3> QED
      BY <1>11, <3>2, <3>5, <3>6, <3>7, SafeStays
  <2> QED
    BY <2>1, <2>2
<1>12. Tried(r, t, c, TRUE)
  BY <1>7, <1>8, <1>10, <1>11 DEF Tried
<1> QED
  BY <1>1, <1>12 DEF t, mode

\* The mode that shall be is only recorded.
LEMMA RecordTried ==
  ASSUME NEW r \in Statuses, NEW c \in Crtcs, NEW ok \in BOOLEAN, r.crtc[c].enabled
  PROVE  Tried(r, [r EXCEPT !.crtc[c].mode = r.crtc[c].desiredMode, !.ok = ok], c, FALSE)
<1> DEFINE mode == r.crtc[c].desiredMode
           t == Rewritten(r, c, mode, ok)
<1>1. mode \in Modes \cup {NoMode}
  BY DesiredType
<1>2. SafeAt(r, c) => (c \notin r.unsure => r.crtc[c].mode = mode)
  BY DEF SafeAt, FreshAt
<1> HIDE DEF mode
<1>3. /\ KeepsSetup(r, t) /\ t.next = r.next
      /\ \A d \in Crtcs \ {c} : SafeAt(r, d) => SafeAt(t, d)
      /\ SafeAt(r, c) /\ (c \notin r.unsure => r.crtc[c].mode = mode) => SafeAt(t, c)
  BY <1>1, RewrittenFacts
<1> HIDE DEF t
<1>4. Tried(r, t, c, FALSE)
  BY <1>2, <1>3 DEF Tried
<1> QED
  BY <1>4 DEF t, mode, Rewritten

\* The turn of an enabled CRTC that has the compat output.
LEMMA SetDesiredTurn ==
  ASSUME NEW r \in Statuses, NEW c \in Crtcs, NEW set_hw \in BOOLEAN, NEW outcome,
         r.crtc[c].enabled, r.next = "crtc"
  PROVE  TakesTurn(r, SetDesired(r, c, set_hw, outcome), c, set_hw)
<1>1. CASE set_hw
  <2> DEFINE t == SetModeMajor([r EXCEPT !.crtc[c].mode = NoMode], c, r.crtc[c].desiredMode, outcome)
             u == IF t.ok THEN t ELSE [t EXCEPT !.next = "fail"]
  <2>1. SetDesired(r, c, set_hw, outcome) = u
    BY <1>1 DEF SetDesired
  <2>2. Tried(r, t, c, TRUE)
    BY SetTried
  <2> HIDE DEF t
  <2>3. TakesTurn(r, u, c, TRUE)
    BY <2>2, TriedFacts
  <2> QED
    BY <1>1, <2>1, <2>3
<1>2. CASE ~set_hw
  <2> DEFINE ok == outcome # "no_rotation"
             t == [r EXCEPT !.crtc[c].mode = r.crtc[c].desiredMode, !.ok = ok]
             u == IF t.ok THEN t ELSE [t EXCEPT !.next = "fail"]
  <2>1. SetDesired(r, c, set_hw, outcome) = u
    BY <1>2 DEF SetDesired
  <2>4. ok \in BOOLEAN
    OBVIOUS
  <2> HIDE DEF ok
  <2>2. Tried(r, t, c, FALSE)
    BY <2>4, RecordTried
  <2> HIDE DEF t
  <2>3. TakesTurn(r, u, c, FALSE)
    BY <2>2, TriedFacts
  <2> HIDE DEF u
  <2> QED
    BY <1>2, <2>1, <2>3 DEF TakesTurn
<1> QED
  BY <1>1, <1>2

\* A turn of the loop in fbdev_set_desired_modes.
LEMMA SetOneTurn ==
  ASSUME NEW r \in Statuses, NEW c \in Crtcs, NEW set_hw \in BOOLEAN,
         NEW at, NEW outcome, NEW beyond
  PROVE  TakesTurn(r, SetOne(set_hw, at, outcome, beyond)[c][r], c, set_hw)
<1> DEFINE oc == OutcomeAt(c, at, outcome)
           u == SetOne(set_hw, at, outcome, beyond)[c][r]
<1>1. u = IF r.next # "crtc" THEN NotSet(r, {c}, set_hw)
          ELSE IF ~r.crtc[c].enabled THEN TurnOffDisabled(r, c, set_hw, oc)
          ELSE IF r.output[CompatOutput].crtc = c THEN SetDesired(r, c, set_hw, oc)
          ELSE OtherCrtc(r, c, set_hw, beyond)
  BY DEF SetOne
<1> SUFFICES TakesTurn(r, u, c, set_hw)
  OBVIOUS
<1> HIDE DEF u, oc
<1>2. CASE r.next # "crtc"
  BY <1>1, <1>2, PassedOver
<1>3. CASE r.next = "crtc" /\ ~r.crtc[c].enabled
  BY <1>1, <1>3, DisabledTurn
<1>4. CASE r.next = "crtc" /\ r.crtc[c].enabled /\ r.output[CompatOutput].crtc = c
  BY <1>1, <1>4, SetDesiredTurn
<1>5. CASE r.next = "crtc" /\ r.crtc[c].enabled /\ r.output[CompatOutput].crtc # c
  BY <1>1, <1>5, OtherCrtcTurn
<1> QED
  BY <1>2, <1>3, <1>4, <1>5

-----------------------------------------------------------------------------
(***************************************************************************)
(* The loop of fbdev_set_desired_modes, and what it returns.               *)
(***************************************************************************)
\* The leases fit as before.
LEMMA SetupIsSound ==
  ASSUME NEW r, NEW q, Sound(r), KeepsSetup(r, q)
  PROVE  Sound(q)
<1>1. /\ q \in Statuses /\ q.server = r.server /\ q.output = r.output /\ q.lease = r.lease
      /\ q.kernel.lessees = r.kernel.lessees
      /\ \A d \in Crtcs : q.crtc[d].enabled = r.crtc[d].enabled
  BY DEF KeepsSetup
<1>2. PossibleRoutes(q)
  BY <1>1 DEF Sound, PossibleRoutes
<1>3. ASSUME NEW l \in Lessees, NEW c \in q.lease[l].crtcs PROVE ~q.crtc[c].enabled
  <2>1. c \in Crtcs
    BY <1>1 DEF Statuses, Leases
  <2> QED
    BY <1>1, <2>1 DEF Sound, LeasesFit
<1>4. LeasesFit(q)
  BY <1>1, <1>3 DEF Sound, LeasesFit
<1> QED
  BY <1>1, <1>2, <1>4 DEF Sound

\* What the call returns.
Returned(r, ok) == [r EXCEPT !.ok = ok]

\* The result is all that changes.
LEMMA ReturnedFacts ==
  ASSUME NEW r \in Statuses, NEW ok \in BOOLEAN
  PROVE  LET q == Returned(r, ok)
         IN /\ KeepsSetup(r, q) /\ q.next = r.next /\ q.ok = ok /\ q.asleep = r.asleep
            /\ \A d \in Crtcs : SafeAt(r, d) => SafeAt(q, d)
            /\ Agree(r) => Agree(q)
<1> DEFINE q == Returned(r, ok)
<1>1. /\ q \in Statuses /\ q.server = r.server /\ q.output = r.output /\ q.lease = r.lease
      /\ q.crtc = r.crtc /\ q.scanout = r.scanout /\ q.kernel = r.kernel
      /\ q.unsure = r.unsure /\ q.asleep = r.asleep /\ q.next = r.next /\ q.ok = ok
  BY DEF Returned, Statuses
<1> HIDE DEF q
<1>2. KeepsSetup(r, q) /\ Vouched(r, q)
  BY <1>1 DEF KeepsSetup, Real, Vouched
<1>3. \A d \in Crtcs : SafeAt(r, d) => SafeAt(q, d)
  BY <1>1, <1>2, SafeStays
<1>4. ASSUME NEW d \in Crtcs PROVE (ShownAt(r, d) => ShownAt(q, d)) /\ (OffAt(r, d) => OffAt(q, d))
  BY <1>1 DEF ShownAt, OffAt, DrivenBy, RoutesOf, CrtcIsLeased
<1>5. Agree(r) => Agree(q)
  BY <1>1, <1>4 DEF Agree, Real
<1>6. /\ KeepsSetup(r, q) /\ q.next = r.next /\ q.ok = ok /\ q.asleep = r.asleep
      /\ \A d \in Crtcs : SafeAt(r, d) => SafeAt(q, d)
      /\ Agree(r) => Agree(q)
  BY <1>1, <1>2, <1>3, <1>5
<1> QED
  BY <1>6 DEF q

\* The first i CRTCs have had their turn.
TurnsTaken(r, s, i, set_hw) ==
  /\ KeepsSetup(r, s)
  /\ Real(r) /\ set_hw /\ s.next \notin Over => \A d \in Crtcs : d <= i => SafeAt(s, d)
  /\ Real(r) /\ (\A d \in Crtcs : SafeAt(r, d)) => \A d \in Crtcs : SafeAt(s, d)

\* All CRTCs have had their turn.
LEMMA LoopFacts ==
  ASSUME NEW r \in Statuses, NEW set_hw \in BOOLEAN, NEW at, NEW outcome, NEW beyond
  PROVE  TurnsTaken(r, Each(NumCrtcs, CrtcsOf(r.server.isDummy),
                            SetOne(set_hw, at, outcome, beyond), r), NumCrtcs, set_hw)
<1> DEFINE S == CrtcsOf(r.server.isDummy)
           F == SetOne(set_hw, at, outcome, beyond)
           At == [i \in 0 .. NumCrtcs |-> {s \in Statuses : TurnsTaken(r, s, i, set_hw)}]
<1>1. r \in At[0]
  <2>1. \A d \in Crtcs : ~(d <= 0)
    BY CrtcsNat
  <2>2. KeepsSetup(r, r)
    BY DEF KeepsSetup
  <2>3. TurnsTaken(r, r, 0, set_hw)
    BY <2>1, <2>2 DEF TurnsTaken
  <2> QED
    BY <2>3, CrtcsNat
<1>2. ASSUME NEW i \in 1 .. NumCrtcs, NEW s \in At[i - 1]
      PROVE  /\ i \in S => F[i][s] \in At[i]
             /\ i \notin S => s \in At[i]
  <2>1. i \in Crtcs /\ i - 1 \in 0 .. NumCrtcs /\ i \in 0 .. NumCrtcs
    BY CrtcsNat
  <2>2. s \in Statuses /\ TurnsTaken(r, s, i - 1, set_hw)
    BY <2>1
  <2>3. \A d \in Crtcs : d <= i => d = i \/ d <= i - 1
    BY CrtcsNat
  <2>4. CASE i \in S
    <3> DEFINE u == F[i][s]
    <3>1. TakesTurn(s, u, i, set_hw)
      BY <2>1, <2>2, SetOneTurn
    <3> HIDE DEF u
    <3>2. KeepsSetup(r, s) /\ KeepsSetup(s, u) /\ u \in Statuses
      BY <2>2, <3>1 DEF TurnsTaken, TakesTurn, KeepsSetup
    <3>3. KeepsSetup(r, u)
      BY <3>2, KeepsSetupTwice
    <3>4. ASSUME Real(r), set_hw, u.next \notin Over, NEW d \in Crtcs, d <= i
          PROVE  SafeAt(u, d)
      <4>1. Real(s) /\ s.next \notin Over
        BY <3>1, <3>2, <3>4 DEF KeepsSetup, TakesTurn
      <4>2. CASE d = i
        BY <3>1, <3>4, <4>1, <4>2 DEF TakesTurn
      <4>3. CASE d # i /\ d <= i - 1
        <5>1. SafeAt(s, d)
          BY <2>2, <3>4, <4>1, <4>3 DEF TurnsTaken
        <5> QED
          BY <3>1, <4>1, <4>3, <5>1 DEF TakesTurn
      <4> QED
        BY <2>3, <3>4, <4>2, <4>3
    <3>5. ASSUME Real(r), \A d \in Crtcs : SafeAt(r, d), NEW d \in Crtcs
          PROVE  SafeAt(u, d)
      <4>1. Real(s) /\ SafeAt(s, d)
        BY <2>2, <3>2, <3>5 DEF KeepsSetup, TurnsTaken
      <4> QED
        BY <3>1, <4>1 DEF TakesTurn
    <3>6. TurnsTaken(r, u, i, set_hw)
      BY <3>3, <3>4, <3>5 DEF TurnsTaken
    <3>7. u \in At[i]
      BY <2>1, <3>2, <3>6
    <3> QED
      BY <2>4, <3>7 DEF u
  <2>5. CASE i \notin S
    <3>1. r.server.isDummy
      BY <2>1, <2>5 DEF CrtcsOf
    <3>2. ~Real(r)
      BY <3>1 DEF Real
    <3>3. TurnsTaken(r, s, i, set_hw)
      BY <2>2, <3>2 DEF TurnsTaken
    <3> QED
      BY <2>1, <2>2, <2>5, <3>3
  <2> QED
    BY <2>4, <2>5
<1> DEFINE q == Each(NumCrtcs, S, F, r)
<1> HIDE DEF At, S, F
<1>3. q \in At[NumCrtcs]
  BY <1>1, <1>2, CrtcsNat, EachReaches
<1>4. TurnsTaken(r, q, NumCrtcs, set_hw)
  BY <1>3, CrtcsNat DEF At
<1> QED
  BY <1>4 DEF S, F

NoLeases(r) == \A m \in Lessees : ~IsLease(r, m)
\* Nothing is wrong with any CRTC.
AllSafe(r) == \A d \in Crtcs : SafeAt(r, d)

\* A call of fbdev_set_desired_modes.
DesiredModesSet(r, q, set_hw) ==
  /\ Sound(q) /\ q.server = r.server /\ q.kernel.lessees = r.kernel.lessees
  /\ (Real(q) <=> Real(r))
  /\ q.ok <=> q.next \notin Over
  /\ set_hw /\ q.ok => Agree(q)
  /\ NoLeases(r) =>
       /\ NoLeases(q) /\ q.asleep \subseteq r.asleep
       /\ set_hw /\ q.ok /\ Real(r) => AllSafe(q)
       /\ Real(r) /\ AllSafe(r) => AllSafe(q)

\* What is as it should be agrees with the kernel.
LEMMA SafeAgrees ==
  ASSUME NEW r, Real(r) => AllSafe(r)
  PROVE  Agree(r)
BY DEF Agree, AllSafe, SafeAt

\* There is nothing to validate.
LEMMA NothingGone ==
  ASSUME NEW r \in Statuses, NoLeases(r), NEW outcome
  PROVE  ValidateLeases(r, outcome) = r
<1>1. GoneLeases(r) = {}
  BY DEF GoneLeases, NoLeases
<1>2. NumLessees \in Nat
  BY LcdModesAssumption
<1> QED
  BY <1>1, <1>2, EachNone DEF ValidateLeases

\* When the call worked, no lease on record is gone.
LeasesLive(q) == q.ok => \A m \in Lessees : IsLease(q, m) => m \in q.kernel.lessees

\* fbdev_set_desired_modes.
LEMMA SetDesiredModesFacts ==
  ASSUME NEW r, Sound(r), NEW set_hw \in BOOLEAN, NEW at, NEW outcome, NEW beyond
  PROVE  LET q == SetDesiredModes(r, set_hw, at, outcome, beyond)
         IN /\ DesiredModesSet(r, q, set_hw)
            /\ OutcomeAt(NumCrtcs, at, outcome) # "unlisted" => LeasesLive(q)
<1> DEFINE r1 == Each(NumCrtcs, CrtcsOf(r.server.isDummy),
                      SetOne(set_hw, at, outcome, beyond), r)
           oc == OutcomeAt(NumCrtcs, at, outcome)
           q == SetDesiredModes(r, set_hw, at, outcome, beyond)
<1>1. q = IF r1.next \in Over THEN Returned(r1, FALSE) ELSE Returned(ValidateLeases(r1, oc), TRUE)
  BY DEF SetDesiredModes, Over, Returned
<1>2. TurnsTaken(r, r1, NumCrtcs, set_hw)
  BY LoopFacts DEF Sound
<1> SUFFICES DesiredModesSet(r, q, set_hw) /\ (oc # "unlisted" => LeasesLive(q))
  OBVIOUS
<1> HIDE DEF r1, q, oc
<1>3. KeepsSetup(r, r1) /\ r1 \in Statuses
  BY <1>2 DEF TurnsTaken, KeepsSetup
<1>4. Sound(r1)
  BY <1>3, SetupIsSound
<1>5. \A d \in Crtcs : d <= NumCrtcs
  BY CrtcsNat
<1>6. /\ set_hw /\ r1.next \notin Over /\ Real(r1) => AllSafe(r1)
      /\ Real(r) /\ AllSafe(r) => AllSafe(r1)
  BY <1>2, <1>3, <1>5 DEF TurnsTaken, AllSafe, KeepsSetup
<1>7. NoLeases(r) => NoLeases(r1)
  BY <1>3 DEF NoLeases, IsLease, KeepsSetup
<1>8. CASE r1.next \in Over
  <2> DEFINE s == Returned(r1, FALSE)
  <2>1. q = s
    BY <1>1, <1>8
  <2>2. /\ KeepsSetup(r1, s) /\ s.next = r1.next /\ s.ok = FALSE /\ s.asleep = r1.asleep
        /\ \A d \in Crtcs : SafeAt(r1, d) => SafeAt(s, d)
    BY <1>3, ReturnedFacts
  <2> HIDE DEF s
  <2>3. KeepsSetup(r, s)
    BY <1>3, <2>2, KeepsSetupTwice
  <2>4. Sound(s)
    BY <2>3, SetupIsSound
  <2>5. NoLeases(r) => NoLeases(s)
    BY <2>3 DEF NoLeases, IsLease, KeepsSetup
  <2>6. Real(r) /\ AllSafe(r) => AllSafe(s)
    BY <1>6, <2>2 DEF AllSafe
  <2>7. DesiredModesSet(r, s, set_hw)
    BY <1>8, <2>2, <2>3, <2>4, <2>5, <2>6 DEF DesiredModesSet, KeepsSetup
  <2> QED
    BY <2>1, <2>2, <2>7 DEF LeasesLive
<1>9. CASE r1.next \notin Over
  <2> DEFINE v == ValidateLeases(r1, oc)
             s == Returned(v, TRUE)
  <2>1. q = s
    BY <1>1, <1>9
  <2>2. /\ Sound(v) /\ v.server = r1.server /\ v.next = r1.next
        /\ v.kernel.lessees = r1.kernel.lessees /\ (Real(v) <=> Real(r1))
        /\ Agree(r1) => Agree(v)
        /\ oc # "unlisted" => \A m \in Lessees : IsLease(v, m) => m \in v.kernel.lessees
    BY <1>4, ValidateLeasesFacts
  <2>3. NoLeases(r) => v = r1
    BY <1>3, <1>7, NothingGone
  <2> HIDE DEF v
  <2>4. v \in Statuses
    BY <2>2 DEF Sound
  <2>5. /\ KeepsSetup(v, s) /\ s.next = v.next /\ s.ok = TRUE /\ s.asleep = v.asleep
        /\ \A d \in Crtcs : SafeAt(v, d) => SafeAt(s, d)
        /\ Agree(v) => Agree(s)
    BY <2>4, ReturnedFacts
  <2> HIDE DEF s
  <2>6. Sound(s)
    BY <2>2, <2>5, SetupIsSound
  <2>7. /\ s.server = r.server /\ s.kernel.lessees = r.kernel.lessees
        /\ (Real(s) <=> Real(r)) /\ s.lease = v.lease /\ s.next \notin Over
    BY <1>3, <1>9, <2>2, <2>5 DEF KeepsSetup
  <2>8. oc # "unlisted" => LeasesLive(s)
    BY <2>2, <2>5 DEF IsLease, KeepsSetup, LeasesLive
  <2>9. set_hw => Agree(s)
    <3>1. set_hw => Agree(r1)
      BY <1>6, <1>9, SafeAgrees
    <3> QED
      BY <2>2, <2>5, <3>1
  <2>10. ASSUME NoLeases(r)
         PROVE  /\ NoLeases(s) /\ s.asleep \subseteq r.asleep
                /\ set_hw /\ Real(r) => AllSafe(s)
                /\ Real(r) /\ AllSafe(r) => AllSafe(s)
    <3>1. KeepsSetup(r1, s) /\ s.asleep = r1.asleep /\ (AllSafe(r1) => AllSafe(s))
      BY <2>3, <2>5, <2>10 DEF AllSafe
    <3>2. KeepsSetup(r, s)
      BY <1>3, <3>1, KeepsSetupTwice
    <3>3. NoLeases(s) /\ s.asleep \subseteq r.asleep
      BY <2>10, <3>2 DEF NoLeases, IsLease, KeepsSetup
    <3>4. Real(r) => Real(r1)
      BY <1>3 DEF KeepsSetup
    <3> QED
      BY <1>6, <1>9, <3>1, <3>3, <3>4
  <2>11. DesiredModesSet(r, s, set_hw)
    BY <2>5, <2>6, <2>7, <2>9, <2>10 DEF DesiredModesSet
  <2> QED
    BY <2>1, <2>8, <2>11
<1> QED
  BY <1>8, <1>9

-----------------------------------------------------------------------------
(***************************************************************************)
(* Power saving.                                                           *)
(***************************************************************************)
\* What power saving leaves alone.
KeepsRecords(r, q) ==
  /\ Stays(r, q) /\ (Real(q) <=> Real(r))
  /\ \A d \in Crtcs : q.crtc[d].enabled = r.crtc[d].enabled

\* One after the other.
LEMMA KeepsRecordsTwice ==
  ASSUME NEW r, NEW s, NEW t, KeepsRecords(r, s), KeepsRecords(s, t)
  PROVE  KeepsRecords(r, t)
BY DEF KeepsRecords, Stays

\* The leases fit as before.
LEMMA RecordsSound ==
  ASSUME NEW r, NEW q, Sound(r), KeepsRecords(r, q)
  PROVE  Sound(q)
<1>1. q \in Statuses /\ SameLeases(r, q) /\ q.output = r.output
  BY DEF KeepsRecords, Stays, SameLeases
<1>2. \A d \in Crtcs : q.crtc[d].enabled => r.crtc[d].enabled
  BY DEF KeepsRecords
<1> QED
  BY <1>1, <1>2, SoundStays

\* Nobody is told that CRTC c failed.
Unknown(r, c) == [r EXCEPT !.unsure = @ \cup {c}]

\* Nothing is claimed about such a CRTC any more.
LEMMA UnknownFacts ==
  ASSUME NEW r \in Statuses, NEW c \in Crtcs
  PROVE  LET q == Unknown(r, c)
         IN /\ KeepsRecords(r, q) /\ ShownAt(q, c) /\ OffAt(q, c)
            /\ \A d \in Crtcs : /\ ShownAt(r, d) => ShownAt(q, d)
                                /\ OffAt(r, d) => OffAt(q, d)
<1> DEFINE q == Unknown(r, c)
<1>1. /\ q \in Statuses /\ q.server = r.server /\ q.output = r.output /\ q.lease = r.lease
      /\ q.crtc = r.crtc /\ q.scanout = r.scanout /\ q.kernel = r.kernel /\ q.next = r.next
      /\ q.asleep = r.asleep /\ q.unsure = r.unsure \cup {c}
  BY DEF Unknown, Statuses
<1> HIDE DEF q
<1>2. KeepsRecords(r, q)
  BY <1>1 DEF KeepsRecords, Stays, Real
<1>3. ShownAt(q, c) /\ OffAt(q, c)
  BY <1>1 DEF ShownAt, OffAt
<1>4. ASSUME NEW d \in Crtcs PROVE (ShownAt(r, d) => ShownAt(q, d)) /\ (OffAt(r, d) => OffAt(q, d))
  BY <1>1 DEF ShownAt, OffAt, DrivenBy, RoutesOf, CrtcIsLeased
<1> QED
  BY <1>2, <1>3, <1>4 DEF q

\* fbdev_lcd_crtc_dpms for a CRTC that is switched on.
LEMMA OnFacts ==
  ASSUME NEW r \in Statuses, NEW c \in Crtcs, NEW outcome, r.crtc[c].enabled
  PROVE  LET q == CrtcDpmsOn(r, c, outcome)
         IN KeepsRecords(r, q) /\ (Agree(r) => Agree(q))
<1> DEFINE mode == r.crtc[c].mode
           t == SetModeMajor(r, c, mode, outcome)
           q == IF t.ok THEN t ELSE Unknown(t, c)
<1>1. q = CrtcDpmsOn(r, c, outcome)
  BY DEF CrtcDpmsOn, Unknown
<1>2. mode \in Modes \cup {NoMode}
  BY DEF Statuses, CrtcRecs
<1> HIDE DEF mode
<1>3. /\ Stays(r, t) /\ (Real(t) <=> Real(r))
      /\ \A d \in Crtcs : t.crtc[d].enabled = r.crtc[d].enabled
      /\ \A d \in Crtcs \ {c} : /\ ShownAt(r, d) => ShownAt(t, d)
                                /\ OffAt(r, d) => OffAt(t, d)
      /\ r.crtc[c].enabled => OffAt(t, c)
      /\ Real(r) /\ t.ok => ShownAt(t, c)
  BY <1>2, ModeSetFacts
<1> HIDE DEF t
<1>4. KeepsRecords(r, t) /\ t \in Statuses
  BY <1>3 DEF KeepsRecords, Stays
<1>5. CASE t.ok
  <2>1. Agree(r) => Agree(t)
    BY <1>3, <1>5 DEF Agree
  <2> QED
    BY <1>1, <1>4, <1>5, <2>1
<1>6. CASE ~t.ok
  <2> DEFINE u == Unknown(t, c)
  <2>1. /\ KeepsRecords(t, u) /\ ShownAt(u, c) /\ OffAt(u, c)
        /\ \A d \in Crtcs : /\ ShownAt(t, d) => ShownAt(u, d)
                            /\ OffAt(t, d) => OffAt(u, d)
    BY <1>4, UnknownFacts
  <2>2. q = u
    BY <1>6
  <2> HIDE DEF u
  <2>3. KeepsRecords(r, u)
    BY <1>4, <2>1, KeepsRecordsTwice
  <2>4. Agree(r) => Agree(u)
    BY <1>3, <2>1, <2>3 DEF Agree, KeepsRecords
  <2> HIDE DEF q
  <2> QED
    BY <1>1, <2>2, <2>3, <2>4
<1> QED
  BY <1>5, <1>6

\* xf86DPMSSet with the power on.
LEMMA OnLoopFacts ==
  ASSUME NEW r \in Statuses, NEW S, \A c \in S : r.crtc[c].enabled, NEW at, NEW outcome
  PROVE  LET q == Each(NumCrtcs, S, On(at, outcome), r)
         IN KeepsRecords(r, q) /\ (Agree(r) => Agree(q))
<1> DEFINE F == On(at, outcome)
           At == [i \in 0 .. NumCrtcs |->
                    {s \in Statuses : KeepsRecords(r, s) /\ (Agree(r) => Agree(s))}]
           q == Each(NumCrtcs, S, F, r)
<1>1. r \in At[0]
  <2>1. KeepsRecords(r, r)
    BY DEF KeepsRecords, Stays
  <2> QED
    BY <2>1, CrtcsNat
<1>2. ASSUME NEW i \in 1 .. NumCrtcs, NEW s \in At[i - 1]
      PROVE  /\ i \in S => F[i][s] \in At[i]
             /\ i \notin S => s \in At[i]
  <2>1. i \in Crtcs /\ i - 1 \in 0 .. NumCrtcs /\ i \in 0 .. NumCrtcs
    BY CrtcsNat
  <2>2. s \in Statuses /\ KeepsRecords(r, s) /\ (Agree(r) => Agree(s))
    BY <2>1
  <2>3. ASSUME i \in S PROVE F[i][s] \in At[i]
    <3> DEFINE oc == OutcomeAt(i, at, outcome)
               u == CrtcDpmsOn(s, i, oc)
    <3>1. F[i][s] = u
      BY <2>1, <2>2 DEF On
    <3>2. s.crtc[i].enabled
      BY <2>1, <2>2, <2>3 DEF KeepsRecords
    <3> HIDE DEF oc
    <3>3. KeepsRecords(s, u) /\ (Agree(s) => Agree(u))
      BY <2>1, <2>2, <3>2, OnFacts
    <3> HIDE DEF u
    <3>4. KeepsRecords(r, u) /\ u \in Statuses
      BY <2>2, <3>3, KeepsRecordsTwice DEF KeepsRecords, Stays
    <3>5. u \in At[i]
      BY <2>1, <2>2, <3>3, <3>4
    <3> QED
      BY <3>1, <3>5
  <2> QED
    BY <2>1, <2>2, <2>3
<1> HIDE DEF At, F
<1>3. q \in At[NumCrtcs]
  BY <1>1, <1>2, CrtcsNat, EachReaches
<1> HIDE DEF q
<1>4. KeepsRecords(r, q) /\ (Agree(r) => Agree(q))
  BY <1>3, CrtcsNat DEF At
<1> QED
  BY <1>4 DEF q, F

\* The outputs are switched on last.
LEMMA PowerOnFacts ==
  ASSUME NEW r, Sound(r), NEW S, \A c \in S : r.crtc[c].enabled, NEW outs \in SUBSET Outputs,
         NEW at, NEW outcome
  PROVE  LET q == OutputDpms(Each(NumCrtcs, S, On(at, outcome), r), outs, TRUE)
         IN Sound(q) /\ q.server = r.server /\ (Agree(r) => Agree(q))
<1> DEFINE s == Each(NumCrtcs, S, On(at, outcome), r)
           q == OutputDpms(s, outs, TRUE)
<1>1. KeepsRecords(r, s) /\ (Agree(r) => Agree(s))
  BY OnLoopFacts DEF Sound
<1> HIDE DEF s
<1>2. s \in Statuses
  BY <1>1 DEF KeepsRecords, Stays
<1>3. /\ Stays(s, q) /\ q.crtc = s.crtc /\ q.scanout = s.scanout
      /\ q.unsure = s.unsure /\ q.asleep = s.asleep
      /\ q.kernel.crtc = s.kernel.crtc
      /\ q.kernel.on = s.kernel.on \cup outs
  BY <1>2, DpmsFacts
<1> HIDE DEF q
<1>4. KeepsRecords(s, q)
  BY <1>3 DEF KeepsRecords, Stays, Real
<1>5. KeepsRecords(r, q)
  BY <1>1, <1>4, KeepsRecordsTwice
<1>6. Sound(q) /\ q.server = r.server
  BY <1>5, RecordsSound DEF KeepsRecords, Stays
<1>7. ASSUME NEW d \in Crtcs PROVE (ShownAt(s, d) => ShownAt(q, d)) /\ (OffAt(s, d) => OffAt(q, d))
  BY <1>3 DEF Stays, ShownAt, OffAt, DrivenBy, RoutesOf, CrtcIsLeased
<1>8. Agree(r) => Agree(q)
  BY <1>1, <1>4, <1>7 DEF Agree, KeepsRecords
<1>9. Sound(q) /\ q.server = r.server /\ (Agree(r) => Agree(q))
  BY <1>6, <1>8
<1> QED
  BY <1>9 DEF q, s

\* CRTC c is off to save power.
Slept(r, c) == [r EXCEPT !.asleep = @ \cup {c}]

\* A CRTC that sleeps is still off if it was.
LEMMA SleptFacts ==
  ASSUME NEW r \in Statuses, NEW c \in Crtcs
  PROVE  LET q == Slept(r, c)
         IN /\ KeepsRecords(r, q) /\ q.asleep = r.asleep \cup {c}
            /\ \A d \in Crtcs : OffAt(r, d) => OffAt(q, d)
<1> DEFINE q == Slept(r, c)
<1>1. /\ q \in Statuses /\ q.server = r.server /\ q.output = r.output /\ q.lease = r.lease
      /\ q.crtc = r.crtc /\ q.scanout = r.scanout /\ q.kernel = r.kernel /\ q.next = r.next
      /\ q.asleep = r.asleep \cup {c} /\ q.unsure = r.unsure
  BY DEF Slept, Statuses
<1> HIDE DEF q
<1>2. KeepsRecords(r, q)
  BY <1>1 DEF KeepsRecords, Stays, Real
<1>3. ASSUME NEW d \in Crtcs PROVE OffAt(r, d) => OffAt(q, d)
  BY <1>1 DEF OffAt, CrtcIsLeased
<1> QED
  BY <1>1, <1>2, <1>3 DEF q

\* fbdev_lcd_crtc_dpms for a CRTC that is switched off.
LEMMA DownFacts ==
  ASSUME NEW r \in Statuses, NEW c \in Crtcs, NEW outcome, r.crtc[c].enabled
  PROVE  LET q == [CrtcDpmsOff(r, c, outcome) EXCEPT !.asleep = @ \cup {c}]
         IN /\ KeepsRecords(r, q) /\ q.asleep = r.asleep \cup {c}
            /\ \A d \in Crtcs : OffAt(r, d) => OffAt(q, d)
<1> DEFINE t == CrtcDpmsOff(r, c, outcome)
           q == Slept(t, c)
<1>1. q = [t EXCEPT !.asleep = @ \cup {c}]
  BY DEF Slept
<1>2. GoesOff(r, t, c)
  BY CrtcOffFacts
<1> HIDE DEF t
<1>3. KeepsRecords(r, t) /\ t \in Statuses /\ t.asleep = r.asleep
  BY <1>2 DEF GoesOff, KeepsRecords, Stays, Real
<1>4. /\ KeepsRecords(t, q) /\ q.asleep = t.asleep \cup {c}
      /\ \A d \in Crtcs : OffAt(t, d) => OffAt(q, d)
  BY <1>3, SleptFacts
<1> HIDE DEF q
<1>5. OffAt(t, c)
  BY <1>3 DEF OffAt, KeepsRecords
<1>6. \A d \in Crtcs : OffAt(r, d) => OffAt(t, d)
  BY <1>2, <1>5 DEF GoesOff
<1>7. KeepsRecords(r, q)
  BY <1>3, <1>4, KeepsRecordsTwice
<1>8. q.asleep = r.asleep \cup {c} /\ \A d \in Crtcs : OffAt(r, d) => OffAt(q, d)
  BY <1>3, <1>4, <1>6
<1> QED
  BY <1>1, <1>7, <1>8 DEF t

\* The first i CRTCs are off, if they were on.
DownTo(r, s, i, S) ==
  /\ KeepsRecords(r, s)
  /\ \A d \in Crtcs : d <= i /\ d \in S => d \in s.asleep
  /\ \A d \in Crtcs : OffAt(r, d) => OffAt(s, d)

\* All CRTCs that were on are off.
LEMMA DownLoopFacts ==
  ASSUME NEW r \in Statuses, NEW S, \A c \in S : r.crtc[c].enabled, NEW at, NEW outcome
  PROVE  DownTo(r, Each(NumCrtcs, S, Down(at, outcome), r), NumCrtcs, S)
<1> DEFINE F == Down(at, outcome)
           At == [i \in 0 .. NumCrtcs |-> {s \in Statuses : DownTo(r, s, i, S)}]
           q == Each(NumCrtcs, S, F, r)
<1>1. r \in At[0]
  <2>1. \A d \in Crtcs : ~(d <= 0)
    BY CrtcsNat
  <2>2. KeepsRecords(r, r)
    BY DEF KeepsRecords, Stays
  <2>3. DownTo(r, r, 0, S)
    BY <2>1, <2>2 DEF DownTo
  <2> QED
    BY <2>3, CrtcsNat
<1>2. ASSUME NEW i \in 1 .. NumCrtcs, NEW s \in At[i - 1]
      PROVE  /\ i \in S => F[i][s] \in At[i]
             /\ i \notin S => s \in At[i]
  <2>1. i \in Crtcs /\ i - 1 \in 0 .. NumCrtcs /\ i \in 0 .. NumCrtcs
    BY CrtcsNat
  <2>2. s \in Statuses /\ DownTo(r, s, i - 1, S)
    BY <2>1
  <2>3. \A d \in Crtcs : d <= i => d = i \/ d <= i - 1
    BY CrtcsNat
  <2>4. ASSUME i \in S PROVE F[i][s] \in At[i]
    <3> DEFINE oc == OutcomeAt(i, at, outcome)
               u == [CrtcDpmsOff(s, i, oc) EXCEPT !.asleep = @ \cup {i}]
    <3>1. F[i][s] = u
      BY <2>1, <2>2 DEF Down
    <3>2. s.crtc[i].enabled
      BY <2>1, <2>2, <2>4 DEF DownTo, KeepsRecords
    <3> HIDE DEF oc
    <3>3. /\ KeepsRecords(s, u) /\ u.asleep = s.asleep \cup {i}
          /\ \A d \in Crtcs : OffAt(s, d) => OffAt(u, d)
      BY <2>1, <2>2, <3>2, DownFacts
    <3> HIDE DEF u
    <3>4. KeepsRecords(r, u) /\ u \in Statuses
      BY <2>2, <3>3, KeepsRecordsTwice DEF DownTo, KeepsRecords, Stays
    <3>5. DownTo(r, u, i, S)
      BY <2>2, <2>3, <3>3, <3>4 DEF DownTo
    <3>6. u \in At[i]
      BY <2>1, <3>4, <3>5
    <3> QED
      BY <3>1, <3>6
  <2>5. ASSUME i \notin S PROVE s \in At[i]
    <3>1. DownTo(r, s, i, S)
      BY <2>2, <2>3, <2>5 DEF DownTo
    <3> QED
      BY <2>1, <2>2, <3>1
  <2> QED
    BY <2>4, <2>5
<1> HIDE DEF At, F
<1>3. q \in At[NumCrtcs]
  BY <1>1, <1>2, CrtcsNat, EachReaches
<1> HIDE DEF q
<1>4. DownTo(r, q, NumCrtcs, S)
  BY <1>3, CrtcsNat DEF At
<1> QED
  BY <1>4 DEF q, F

\* xf86DPMSSet with the power off: the outputs come first.
LEMMA PowerOffFacts ==
  ASSUME NEW r, Sound(r), NEW S \in SUBSET Crtcs, \A c \in Crtcs : c \in S <=> r.crtc[c].enabled,
         NEW outs \in SUBSET Outputs, NEW at, NEW outcome
  PROVE  LET q == Each(NumCrtcs, S, Down(at, outcome), OutputDpms(r, outs, FALSE))
         IN Sound(q) /\ q.server = r.server /\ (Agree(r) => Agree(q))
<1> DEFINE s == OutputDpms(r, outs, FALSE)
           q == Each(NumCrtcs, S, Down(at, outcome), s)
<1>1. r \in Statuses
  BY DEF Sound
<1>2. /\ Stays(r, s) /\ s.crtc = r.crtc /\ s.scanout = r.scanout
      /\ s.unsure = r.unsure /\ s.kernel.crtc = r.kernel.crtc
  BY <1>1, DpmsFacts
<1> HIDE DEF s
<1>3. KeepsRecords(r, s) /\ s \in Statuses
  BY <1>2 DEF KeepsRecords, Stays, Real
<1>4. ASSUME NEW d \in Crtcs PROVE OffAt(r, d) => OffAt(s, d)
  BY <1>2 DEF Stays, OffAt, CrtcIsLeased
<1>5. \A c \in S : s.crtc[c].enabled
  BY <1>2
<1>6. DownTo(s, q, NumCrtcs, S)
  BY <1>3, <1>5, DownLoopFacts
<1> HIDE DEF q
<1>7. KeepsRecords(r, q)
  BY <1>3, <1>6, KeepsRecordsTwice DEF DownTo
<1>8. Sound(q) /\ q.server = r.server
  BY <1>7, RecordsSound DEF KeepsRecords, Stays
<1>9. ASSUME NEW d \in Crtcs PROVE ShownAt(q, d)
  <2>1. d <= NumCrtcs
    BY CrtcsNat
  <2>2. q.crtc[d].enabled => d \in S
    BY <1>7 DEF KeepsRecords
  <2>3. q.crtc[d].enabled => d \in q.asleep
    BY <1>6, <2>1, <2>2 DEF DownTo
  <2> QED
    BY <2>3 DEF ShownAt, DrivenBy
<1>10. Agree(r) => Agree(q)
  BY <1>4, <1>6, <1>7, <1>9 DEF Agree, KeepsRecords, DownTo
<1>11. Sound(q) /\ q.server = r.server /\ (Agree(r) => Agree(q))
  BY <1>8, <1>10
<1> QED
  BY <1>11 DEF q, s

-----------------------------------------------------------------------------
(***************************************************************************)
(* The inductive invariant: what every action relies on and keeps.         *)
(***************************************************************************)
\* The inductive invariant, on a status.
Holds(r) ==
  /\ Sound(r)
  /\ r.server.phase \in {"screen_init", "resources", "first_block"} => NoLeases(r)
  /\ r.server.phase \in {"resources", "first_block"} /\ Real(r) => AllSafe(r)
  /\ r.server.phase = "running" => Agree(r)

\* The inductive invariant.
IInv == Holds(Status)

\* A status that differs from r only in the phase of the server and in what is
\* local to a call.
Alike(r, q) ==
  /\ q \in Statuses
  /\ q.server.isDummy = r.server.isDummy /\ q.output = r.output /\ q.crtc = r.crtc
  /\ q.scanout = r.scanout /\ q.kernel = r.kernel /\ q.lease = r.lease
  /\ q.unsure = r.unsure /\ q.asleep = r.asleep

\* The claims are about the records and the kernel alone.
LEMMA AlikeFacts ==
  ASSUME NEW r \in Statuses, NEW q, Alike(r, q)
  PROVE  /\ (Real(q) <=> Real(r)) /\ (NoLeases(q) <=> NoLeases(r))
         /\ Sound(r) => Sound(q)
         /\ AllSafe(r) => AllSafe(q)
         /\ Agree(r) => Agree(q)
<1>1. Real(q) <=> Real(r)
  BY DEF Alike, Real
<1>2. NoLeases(q) <=> NoLeases(r)
  BY DEF Alike, NoLeases, IsLease
<1>3. Sound(r) => Sound(q)
  BY DEF Alike, Sound, PossibleRoutes, LeasesFit
<1>4. ASSUME NEW d \in Crtcs
      PROVE  /\ ShownAt(r, d) => ShownAt(q, d)
             /\ OffAt(r, d) => OffAt(q, d)
             /\ FreshAt(r, d) => FreshAt(q, d)
  BY DEF Alike, ShownAt, OffAt, FreshAt, DrivenBy, RoutesOf, CrtcIsLeased
<1>5. AllSafe(r) => AllSafe(q)
  BY <1>4 DEF AllSafe, SafeAt
<1>6. Agree(r) => Agree(q)
  BY <1>1, <1>4 DEF Agree
<1> QED
  BY <1>1, <1>2, <1>3, <1>5, <1>6

\* The invariant of the next state is that of its status.
LEMMA PrimedStatus ==
  ASSUME NEW u, Holds(u), Status' = u
  PROVE  IInv'
BY DEF IInv

\* The next state is the status a call left behind.
LEMMA StatusBecomes ==
  ASSUME NEW q \in Statuses, Become(q)
  PROVE  /\ Alike(q, Status') /\ Status'.server = q.server
         /\ Status' \in Statuses
<1>1. /\ q.server \in Servers /\ q.output \in [Outputs -> OutputRecs]
      /\ q.crtc \in [Crtcs -> CrtcRecs] /\ q.scanout \in Scanouts /\ q.kernel \in Kernels
      /\ q.lease \in [Lessees -> Leases] /\ q.unsure \in SUBSET Crtcs
      /\ q.asleep \in SUBSET Crtcs
  BY DEF Statuses
<1>2. Status' \in Statuses
  BY <1>1 DEF Become, Status, Statuses
<1> QED
  BY <1>2 DEF Alike, Become, Status

\* A call that leaves the invariant behind keeps it.
LEMMA HoldsAfter ==
  ASSUME NEW q, Holds(q), Become(q)
  PROVE  IInv'
<1>1. q \in Statuses
  BY DEF Holds, Sound
<1>2. PICK u : u = Status'
  OBVIOUS
<1>3. Alike(q, u) /\ u.server = q.server
  BY <1>1, <1>2, StatusBecomes
<1>4. Holds(u)
  BY <1>1, <1>3, AlikeFacts DEF Holds
<1> QED
  BY <1>2, <1>4, PrimedStatus

\* The server goes on in phase p.
Advanced(r, p) == [r EXCEPT !.server.phase = p]

\* What a phase asks for.
LEMMA AdvancedFacts ==
  ASSUME NEW r, Sound(r), NEW p \in Phases,
         p \in {"screen_init", "resources", "first_block"} => NoLeases(r),
         p \in {"resources", "first_block"} /\ Real(r) => AllSafe(r),
         p = "running" => Agree(r)
  PROVE  Holds(Advanced(r, p))
<1> DEFINE q == Advanced(r, p)
<1>1. r \in Statuses
  BY DEF Sound
<1>2. Alike(r, q) /\ q.server.phase = p
  BY <1>1 DEF Advanced, Alike, Statuses, Servers
<1> HIDE DEF q
<1>3. Holds(q)
  BY <1>1, <1>2, AlikeFacts DEF Holds
<1> QED
  BY <1>3 DEF q

\* The phase after fbdev_set_desired_modes.
PhaseAfter(q, next, gives_up) ==
  IF q.next = "crash" \/ (gives_up /\ ~q.ok) THEN "dead" ELSE next

\* The server goes on after fbdev_set_desired_modes, or gives up.
LEMMA ContinueHolds ==
  ASSUME NEW q, Sound(q), NEW next \in {"resources", "first_block", "running"},
         NEW gives_up \in BOOLEAN, Continue(q, next, gives_up),
         PhaseAfter(q, next, gives_up) # "dead" =>
           IF next = "running" THEN Agree(q) ELSE NoLeases(q) /\ (Real(q) => AllSafe(q))
  PROVE  IInv'
<1> DEFINE p == PhaseAfter(q, next, gives_up)
           u == Advanced(q, p)
<1>1. Become(u)
  BY DEF Continue, Advanced, PhaseAfter
<1>2. p = "dead" \/ p = next
  BY DEF PhaseAfter
<1> HIDE DEF p
<1>3. p \in Phases
  BY <1>2 DEF Phases
<1>4. CASE p = "dead"
  <2>1. Holds(u)
    BY <1>3, <1>4, AdvancedFacts
  <2> HIDE DEF u
  <2> QED
    BY <1>1, <2>1, HoldsAfter
<1>5. CASE p = next /\ p # "dead"
  <2>1. IF next = "running" THEN Agree(q) ELSE NoLeases(q) /\ (Real(q) => AllSafe(q))
    BY <1>5 DEF p
  <2>2. Holds(u)
    BY <1>3, <1>5, <2>1, AdvancedFacts
  <2> HIDE DEF u
  <2> QED
    BY <1>1, <2>2, HoldsAfter
<1> QED
  BY <1>2, <1>4, <1>5

-----------------------------------------------------------------------------
\* What the invariant says of the variables.
LEMMA StatusFacts ==
  ASSUME IInv
  PROVE  /\ Sound(Status) /\ Status \in Statuses /\ Status.next = "crtc"
         /\ Status.server = server /\ Status.output = output /\ Status.crtc = crtc
         /\ Status.scanout = scanout /\ Status.kernel = kernel /\ Status.lease = lease
         /\ Status.unsure = unsure /\ Status.asleep = asleep
BY DEF IInv, Holds, Sound, Status

\* A call of fbdev_set_desired_modes in phase p.
LEMMA DesiredModesPick ==
  ASSUME IInv, NEW p, NEW set_hw \in BOOLEAN, NEW next, NEW gives_up,
         DesiredModesAt(p, set_hw, next, gives_up)
  PROVE  /\ server.phase = p
         /\ \E q : DesiredModesSet(Status, q, set_hw) /\ Continue(q, next, gives_up)
<1>1. PICK at \in Crtcs, outcome \in Outcomes, beyond \in Crtcs \cup {NoCrtc} :
         /\ server.phase = p
         /\ Continue(SetDesiredModes(Status, set_hw, at, outcome, beyond), next, gives_up)
  BY DEF DesiredModesAt, DesiredModesWith
<1>2. DesiredModesSet(Status, SetDesiredModes(Status, set_hw, at, outcome, beyond), set_hw)
  BY StatusFacts, SetDesiredModesFacts
<1> QED
  BY <1>1, <1>2

\* There are no leases yet: every CRTC is as it should be, or the server dies.
LEMMA ScreenInitHolds ==
  ASSUME IInv, ScreenInit
  PROVE  IInv'
<1>1. PICK q : DesiredModesSet(Status, q, TRUE) /\ Continue(q, "resources", TRUE)
  BY DesiredModesPick DEF ScreenInit
<1>2. server.phase = "screen_init"
  BY DesiredModesPick DEF ScreenInit
<1>3. NoLeases(Status)
  BY <1>2, StatusFacts DEF IInv, Holds
<1>4. PhaseAfter(q, "resources", TRUE) # "dead" => NoLeases(q) /\ (Real(q) => AllSafe(q))
  BY <1>1, <1>3 DEF DesiredModesSet, PhaseAfter
<1> QED
  BY <1>1, <1>4, ContinueHolds DEF DesiredModesSet

\* Modes are recorded that are set already.
LEMMA CreateScreenResourcesHolds ==
  ASSUME IInv, CreateScreenResources
  PROVE  IInv'
<1>1. PICK q : DesiredModesSet(Status, q, FALSE) /\ Continue(q, "first_block", TRUE)
  BY DesiredModesPick DEF CreateScreenResources
<1>2. server.phase = "resources"
  BY DesiredModesPick DEF CreateScreenResources
<1>3. NoLeases(Status) /\ (Real(Status) => AllSafe(Status))
  BY <1>2, StatusFacts DEF IInv, Holds
<1>4. NoLeases(q) /\ (Real(q) => AllSafe(q))
  BY <1>1, <1>3 DEF DesiredModesSet
<1> QED
  BY <1>1, <1>4, ContinueHolds DEF DesiredModesSet

\* Even a failure nobody looks at leaves set what was set.
LEMMA BlockHandlerHolds ==
  ASSUME IInv, BlockHandlerOneshot
  PROVE  IInv'
<1>1. PICK q : DesiredModesSet(Status, q, TRUE) /\ Continue(q, "running", FALSE)
  BY DesiredModesPick DEF BlockHandlerOneshot
<1>2. server.phase = "first_block"
  BY DesiredModesPick DEF BlockHandlerOneshot
<1>3. NoLeases(Status) /\ (Real(Status) => AllSafe(Status))
  BY <1>2, StatusFacts DEF IInv, Holds
<1>4. Agree(q)
  BY <1>1, <1>3, SafeAgrees DEF DesiredModesSet
<1> QED
  BY <1>1, <1>4, ContinueHolds DEF DesiredModesSet

\* Whatever the other program did, every CRTC is set or turned off.
LEMMA EnterVTHolds ==
  ASSUME IInv, EnterVT
  PROVE  IInv'
<1>1. PICK q : DesiredModesSet(Status, q, TRUE) /\ Continue(q, "running", TRUE)
  BY DesiredModesPick DEF EnterVT
<1>2. PhaseAfter(q, "running", TRUE) # "dead" => Agree(q)
  BY <1>1 DEF DesiredModesSet, PhaseAfter
<1> QED
  BY <1>1, <1>2, ContinueHolds DEF DesiredModesSet

-----------------------------------------------------------------------------
(***************************************************************************)
(* The actions while the server runs.                                      *)
(***************************************************************************)
\* While the server runs, and while the VT is away.
LEMMA RunningHolds ==
  ASSUME NEW q, Sound(q), q.server.phase \in {"running", "away"},
         q.server.phase = "running" => Agree(q)
  PROVE  Holds(q)
BY DEF Holds

\* What a client's mode set takes is free.
LEMMA MayDriveFacts ==
  ASSUME IInv, NEW c \in Crtcs, NEW mode \in Modes, NEW outputs \in SUBSET Outputs,
         SetCrtcConfig(c, mode, outputs)
  PROVE  MayDrive(Status, c, outputs)
<1>1. ~CrtcIsLeased(Status, c)
  BY DEF SetCrtcConfig
<1>2. ASSUME NEW o \in outputs
      PROVE  /\ ~OutputIsLeased(Status, o)
             /\ ~Status.server.isDummy => \A e \in Encoders[o] : c \in e
  <2>1. ~OutputIsLeased(Status, o) /\ c \in PossibleCrtcs(o, server.isDummy)
    BY DEF SetCrtcConfig
  <2>2. Status.server = server
    BY StatusFacts
  <2> QED
    BY <2>1, <2>2 DEF PossibleCrtcs
<1> QED
  BY <1>1, <1>2 DEF MayDrive

\* A mode set of a client, with free outputs.
LEMMA SetCrtcConfigHolds ==
  ASSUME IInv, NEW c \in Crtcs, NEW mode \in Modes, NEW outputs \in SUBSET Outputs,
         SetCrtcConfig(c, mode, outputs)
  PROVE  IInv'
<1>1. PICK outcome \in Outcomes : Become(RandRSet(Status, c, mode, outputs, outcome))
  BY DEF SetCrtcConfig
<1>2. server.phase = "running" /\ Agree(Status)
  BY StatusFacts DEF SetCrtcConfig, IInv, Holds
<1>3. MayDrive(Status, c, outputs)
  BY MayDriveFacts
<1> DEFINE q == RandRSet(Status, c, mode, outputs, outcome)
<1>4. Sound(q) /\ SameLeases(Status, q) /\ (Agree(Status) => Agree(q))
  BY <1>3, StatusFacts, RandRSetFacts
<1> HIDE DEF q
<1>5. Holds(q)
  BY <1>2, <1>4, StatusFacts, RunningHolds DEF SameLeases
<1>6. Become(q)
  BY <1>1 DEF q
<1> QED
  BY <1>5, <1>6, HoldsAfter

\* A CRTC that a client disables has no outputs left.
Disabled(r, c) ==
  [r EXCEPT !.crtc[c].enabled = FALSE,
            !.output = [o \in Outputs |->
               IF @[o].crtc = c THEN [@[o] EXCEPT !.crtc = NoCrtc] ELSE @[o]]]

\* The other CRTCs keep their outputs.
LEMMA DisabledFacts ==
  ASSUME NEW r, Sound(r), NEW c \in Crtcs
  PROVE  LET q == Disabled(r, c)
         IN Sound(q) /\ q.server = r.server /\ (AgreeShown(r) => AgreeShown(q))
<1> DEFINE q == Disabled(r, c)
<1>0. r \in Statuses
  BY DEF Sound
<1>1. /\ q.server = r.server /\ q.lease = r.lease
      /\ q.scanout = r.scanout /\ q.kernel = r.kernel
      /\ q.unsure = r.unsure /\ q.asleep = r.asleep
  BY <1>0 DEF Disabled, Statuses
<1>2. q.crtc = [r.crtc EXCEPT ![c].enabled = FALSE]
  BY <1>0 DEF Disabled, Statuses
<1>3. q.output = [o \in Outputs |->
         IF r.output[o].crtc = c THEN [r.output[o] EXCEPT !.crtc = NoCrtc] ELSE r.output[o]]
  BY <1>0 DEF Disabled, Statuses
<1>14. r.crtc \in [Crtcs -> CrtcRecs]
  BY <1>0 DEF Statuses
<1>15. [r.crtc[c] EXCEPT !.enabled = FALSE] \in CrtcRecs
  BY <1>14 DEF CrtcRecs
<1>16. q.crtc = [r.crtc EXCEPT ![c] = [r.crtc[c] EXCEPT !.enabled = FALSE]]
  BY <1>2
<1>4. q.crtc \in [Crtcs -> CrtcRecs]
  BY <1>14, <1>15, <1>16
<1>5. q.output \in [Outputs -> OutputRecs]
  BY <1>0, <1>3 DEF Statuses, OutputRecs
<1>6. q \in Statuses
  BY <1>0, <1>4, <1>5 DEF Disabled, Statuses
<1>7. \A d \in Crtcs : /\ q.crtc[d].enabled = (d # c /\ r.crtc[d].enabled)
                       /\ q.crtc[d].mode = r.crtc[d].mode
  <2>1. /\ [r.crtc[c] EXCEPT !.enabled = FALSE].enabled = FALSE
        /\ [r.crtc[c] EXCEPT !.enabled = FALSE].mode = r.crtc[c].mode
    BY <1>14 DEF CrtcRecs
  <2>2. \A d \in Crtcs : q.crtc[d] = IF d = c THEN [r.crtc[c] EXCEPT !.enabled = FALSE] ELSE r.crtc[d]
    BY <1>14, <1>16
  <2>3. \A d \in Crtcs : r.crtc[d].enabled \in BOOLEAN
    BY <1>14 DEF CrtcRecs
  <2> HIDE DEF q
  <2> QED
    BY <2>1, <2>2, <2>3
<1>8. \A o \in Outputs : q.output[o].crtc = IF r.output[o].crtc = c THEN NoCrtc ELSE r.output[o].crtc
  BY <1>0, <1>3 DEF Statuses, OutputRecs
<1> HIDE DEF q
<1>9. PossibleRoutes(q)
  BY <1>1, <1>8 DEF PossibleRoutes, Sound
<1>10. LeasesFit(q)
  <2>1. ASSUME NEW l \in Lessees
        PROVE  /\ \A d \in q.lease[l].crtcs : ~q.crtc[d].enabled
               /\ \A o \in q.lease[l].outputs : q.output[o].crtc = NoCrtc
    <3>1. q.lease[l].crtcs \subseteq Crtcs /\ q.lease[l].outputs \subseteq Outputs
      BY <1>6 DEF Statuses, Leases
    <3>2. /\ \A d \in r.lease[l].crtcs : ~r.crtc[d].enabled
          /\ \A o \in r.lease[l].outputs : r.output[o].crtc = NoCrtc
      BY DEF Sound, LeasesFit
    <3> QED
      BY <1>1, <1>7, <1>8, <3>1, <3>2
  <2> QED
    BY <1>1, <2>1 DEF Sound, LeasesFit
<1>11. ASSUME NEW d \in Crtcs, ShownAt(r, d) PROVE ShownAt(q, d)
  <2>1. CASE d = c
    BY <1>7, <2>1 DEF ShownAt, DrivenBy
  <2>2. CASE d # c
    <3>1. RoutesOf(q, d) = RoutesOf(r, d)
      BY <1>8, <2>2 DEF RoutesOf, Crtcs, NoCrtc
    <3> QED
      BY <1>1, <1>7, <1>11, <2>2, <3>1 DEF ShownAt, DrivenBy
  <2> QED
    BY <2>1, <2>2
<1>12. AgreeShown(r) => AgreeShown(q)
  BY <1>1, <1>11 DEF AgreeShown, Real
<1>13. Sound(q) /\ q.server = r.server /\ (AgreeShown(r) => AgreeShown(q))
  BY <1>1, <1>6, <1>9, <1>10, <1>12 DEF Sound
<1> QED
  BY <1>13 DEF q

\* Half of the claims.
LEMMA AgreeIsShown ==
  ASSUME NEW r, Agree(r)
  PROVE  AgreeShown(r)
BY DEF Agree, AgreeShown

\* The leases fit as before.
LEMMA RecordsStaySound ==
  ASSUME NEW r, NEW q, Sound(r), SameRecords(r, q)
  PROVE  Sound(q) /\ q.server = r.server
<1>1. q \in Statuses /\ SameLeases(r, q) /\ q.output = r.output
  BY DEF SameRecords, Stays, SameLeases
<1>2. \A d \in Crtcs : q.crtc[d].enabled => r.crtc[d].enabled
  BY DEF SameRecords
<1> QED
  BY <1>1, <1>2, SoundStays DEF SameLeases

\* A client disables a CRTC.
LEMMA DisableCrtcHolds ==
  ASSUME IInv, NEW c \in Crtcs, DisableCrtc(c)
  PROVE  IInv'
<1>1. PICK outcome \in Outcomes : Become(DisableUnused(Disabled(Status, c), outcome))
  BY DEF DisableCrtc, Disabled
<1>2. server.phase = "running" /\ Agree(Status)
  BY StatusFacts DEF DisableCrtc, IInv, Holds
<1> DEFINE off == Disabled(Status, c)
           q == DisableUnused(off, outcome)
<1>3. Sound(off) /\ off.server = server /\ (AgreeShown(Status) => AgreeShown(off))
  BY StatusFacts, DisabledFacts
<1> HIDE DEF off
<1>4. SameRecords(off, q) /\ (AgreeShown(off) => Agree(q))
  BY <1>3, DisableUnusedFacts DEF Sound
<1> HIDE DEF q
<1>5. Sound(q) /\ q.server = server /\ Agree(q)
  BY <1>2, <1>3, <1>4, RecordsStaySound, AgreeIsShown
<1>6. Holds(q)
  BY <1>2, <1>5, RunningHolds
<1>7. Become(q)
  BY <1>1 DEF q, off
<1> QED
  BY <1>6, <1>7, HoldsAfter

\* The power comes back.
LEMMA PowerOnHolds ==
  ASSUME IInv, PowerOn
  PROVE  IInv'
<1>1. PICK at \in Crtcs, outcome \in Outcomes :
        Become(OutputDpms(Each(NumCrtcs, EnabledCrtcs, On(at, outcome), Status),
                          RoutedOutputs, TRUE))
  BY DEF PowerOn
<1>2. server.phase = "running" /\ Agree(Status)
  BY StatusFacts DEF PowerOn, IInv, Holds
<1>3. \A c \in EnabledCrtcs : Status.crtc[c].enabled
  BY StatusFacts DEF EnabledCrtcs
<1>4. RoutedOutputs \in SUBSET Outputs
  BY DEF RoutedOutputs
<1> DEFINE q == OutputDpms(Each(NumCrtcs, EnabledCrtcs, On(at, outcome), Status),
                           RoutedOutputs, TRUE)
<1>5. Sound(q) /\ q.server = Status.server /\ (Agree(Status) => Agree(q))
  BY <1>3, <1>4, StatusFacts, PowerOnFacts
<1> HIDE DEF q
<1>6. Holds(q)
  BY <1>2, <1>5, StatusFacts, RunningHolds
<1>7. Become(q)
  BY <1>1 DEF q
<1> QED
  BY <1>6, <1>7, HoldsAfter

\* The power goes.
LEMMA PowerOffHolds ==
  ASSUME IInv, PowerOff
  PROVE  IInv'
<1>1. PICK at \in Crtcs, outcome \in Outcomes :
        Become(Each(NumCrtcs, EnabledCrtcs, Down(at, outcome),
                    OutputDpms(Status, RoutedOutputs, FALSE)))
  BY DEF PowerOff
<1>2. server.phase = "running" /\ Agree(Status)
  BY StatusFacts DEF PowerOff, IInv, Holds
<1>3. /\ EnabledCrtcs \in SUBSET Crtcs
      /\ \A c \in Crtcs : c \in EnabledCrtcs <=> Status.crtc[c].enabled
  BY StatusFacts DEF EnabledCrtcs
<1>4. RoutedOutputs \in SUBSET Outputs
  BY DEF RoutedOutputs
<1> DEFINE q == Each(NumCrtcs, EnabledCrtcs, Down(at, outcome),
                     OutputDpms(Status, RoutedOutputs, FALSE))
<1>5. Sound(q) /\ q.server = Status.server /\ (Agree(Status) => Agree(q))
  BY <1>3, <1>4, StatusFacts, PowerOffFacts
<1> HIDE DEF q
<1>6. Holds(q)
  BY <1>2, <1>5, StatusFacts, RunningHolds
<1>7. Become(q)
  BY <1>1 DEF q
<1> QED
  BY <1>6, <1>7, HoldsAfter

\* The leases the kernel has, and what it shows.
InKernel(r, k) == [r EXCEPT !.kernel = k]

\* The kernel changes by itself: leases end there, leased CRTCs show other things.
LEMMA InKernelFacts ==
  ASSUME NEW r, Sound(r), NEW k \in Kernels, k.lessees \subseteq r.kernel.lessees
  PROVE  LET q == InKernel(r, k)
         IN /\ Sound(q) /\ q.server = r.server /\ q.kernel = k /\ q.lease = r.lease
            /\ q.output = r.output /\ q.crtc = r.crtc /\ q.scanout = r.scanout
            /\ q.unsure = r.unsure /\ q.asleep = r.asleep
<1> DEFINE q == InKernel(r, k)
<1>1. r \in Statuses
  BY DEF Sound
<1>2. /\ q \in Statuses /\ q.server = r.server /\ q.kernel = k /\ q.lease = r.lease
      /\ q.output = r.output /\ q.crtc = r.crtc /\ q.scanout = r.scanout
      /\ q.unsure = r.unsure /\ q.asleep = r.asleep
  BY <1>1 DEF InKernel, Statuses
<1> HIDE DEF q
<1>3. Sound(q)
  BY <1>2 DEF Sound, PossibleRoutes, LeasesFit
<1> QED
  BY <1>2, <1>3 DEF q

\* The claims survive when what is neither leased nor off stays as it is.
LEMMA KernelStaysAgreed ==
  ASSUME NEW r, NEW q, r \in Statuses, q \in Statuses, Agree(r),
         q.server = r.server, q.lease = r.lease, q.output = r.output, q.crtc = r.crtc,
         q.scanout = r.scanout, q.unsure = r.unsure, q.asleep = r.asleep,
         r.kernel.on \subseteq q.kernel.on,
         \A d \in Crtcs : ~CrtcIsLeased(r, d) /\ r.kernel.crtc[d] = Off => q.kernel.crtc[d] = Off,
         \A d \in Crtcs :
          r.crtc[d].enabled /\ RoutesOf(r, d) # {} /\ r.kernel.crtc[d].routes = RoutesOf(r, d) =>
            q.kernel.crtc[d] = r.kernel.crtc[d]
  PROVE  Agree(q)
<1> SUFFICES ASSUME Real(q), NEW d \in Crtcs PROVE ShownAt(q, d) /\ OffAt(q, d)
  BY DEF Agree
<1>1. ShownAt(r, d) /\ OffAt(r, d)
  BY DEF Agree, Real
<1>2. RoutesOf(q, d) = RoutesOf(r, d)
  BY DEF RoutesOf
<1>3. CrtcIsLeased(q, d) <=> CrtcIsLeased(r, d)
  BY DEF CrtcIsLeased
<1>4. OffAt(q, d)
  BY <1>1, <1>3 DEF OffAt
<1>5. ShownAt(q, d)
  <2> SUFFICES ASSUME DrivenBy(q, d), d \notin q.asleep, d \notin q.unsure
               PROVE  /\ q.kernel.crtc[d] = [mode |-> q.crtc[d].mode, routes |-> RoutesOf(q, d)]
                      /\ RoutesOf(q, d) \subseteq q.kernel.on
    BY DEF ShownAt
  <2>1. r.crtc[d].enabled /\ RoutesOf(r, d) # {}
    BY <1>2 DEF DrivenBy
  <2>2. /\ r.kernel.crtc[d] = [mode |-> r.crtc[d].mode, routes |-> RoutesOf(r, d)]
        /\ RoutesOf(r, d) \subseteq r.kernel.on
    BY <1>1, <2>1 DEF ShownAt, DrivenBy
  <2>3. r.kernel.crtc[d].routes = RoutesOf(r, d)
    BY <2>2
  <2>4. q.kernel.crtc[d] = r.kernel.crtc[d]
    BY <2>1, <2>3
  <2> QED
    BY <1>2, <2>2, <2>4
<1> QED
  BY <1>4, <1>5

\* A lease that the kernel did not revoke stays on record.
LEMMA TerminateLeaseHolds ==
  ASSUME IInv, NEW l \in Lessees, TerminateLease(l)
  PROVE  IInv'
<1>1. PICK revoked \in BOOLEAN, outcome \in Outcomes :
        LET r == [Status EXCEPT !.kernel.lessees = IF revoked THEN @ \ {l} ELSE @]
        IN Become(IF EndsWith(revoked) THEN LeaseTerminated(r, l, outcome) ELSE r)
  BY DEF TerminateLease
<1>2. server.phase \in {"running", "away"} /\ (server.phase = "running" => Agree(Status))
  BY StatusFacts DEF TerminateLease, IInv, Holds
<1> DEFINE k == [kernel EXCEPT !.lessees = IF revoked THEN @ \ {l} ELSE @]
           r == InKernel(Status, k)
           q == IF revoked THEN LeaseTerminated(r, l, outcome) ELSE r
<1>3. r = [Status EXCEPT !.kernel.lessees = IF revoked THEN @ \ {l} ELSE @]
  BY StatusFacts DEF InKernel
<1>4. kernel \in Kernels
  BY StatusFacts DEF Statuses
<1>5. /\ k \in Kernels /\ k.crtc = kernel.crtc /\ k.on = kernel.on
      /\ k.lessees \subseteq kernel.lessees /\ (revoked => l \notin k.lessees)
  BY <1>4 DEF Kernels
<1>6. Become(q)
  BY <1>1, <1>3 DEF EndsWith
<1> HIDE DEF k
<1>7. /\ Sound(r) /\ r.server = server /\ r.kernel = k /\ r.lease = lease
      /\ r.output = output /\ r.crtc = crtc /\ r.scanout = scanout
      /\ r.unsure = unsure /\ r.asleep = asleep
  BY <1>5, StatusFacts, InKernelFacts
<1> HIDE DEF r
<1>8. r \in Statuses
  BY <1>7 DEF Sound
<1>9. Agree(Status) => Agree(r)
  <2> DEFINE s == Status
  <2>1. /\ s \in Statuses /\ r.server = s.server /\ r.lease = s.lease
        /\ r.output = s.output /\ r.crtc = s.crtc /\ r.scanout = s.scanout
        /\ r.unsure = s.unsure /\ r.asleep = s.asleep
        /\ s.kernel = kernel /\ s.crtc = crtc
    BY <1>7, StatusFacts
  <2> HIDE DEF s
  <2>2. s.kernel.on \subseteq r.kernel.on
    BY <2>1, <1>5, <1>7
  <2>3. \A d \in Crtcs : ~CrtcIsLeased(s, d) /\ s.kernel.crtc[d] = Off => r.kernel.crtc[d] = Off
    BY <2>1, <1>5, <1>7
  <2>4. \A d \in Crtcs :
          s.crtc[d].enabled /\ RoutesOf(s, d) # {} /\ s.kernel.crtc[d].routes = RoutesOf(s, d) =>
            r.kernel.crtc[d] = s.kernel.crtc[d]
    BY <2>1, <1>5, <1>7
  <2>5. Agree(s) => Agree(r)
    BY <1>8, <2>1, <2>2, <2>3, <2>4, KernelStaysAgreed
  <2> QED
    BY <2>5 DEF s
<1>10. CASE ~revoked
  <2>1. Holds(r)
    BY <1>2, <1>7, <1>9, RunningHolds
  <2> QED
    BY <1>6, <1>10, <2>1, HoldsAfter
<1>11. CASE revoked
  <2> DEFINE e == LeaseTerminated(r, l, outcome)
  <2>1. l \notin r.kernel.lessees
    BY <1>5, <1>7, <1>11
  <2>2. Sound(e) /\ e.server = r.server /\ (AgreeShown(r) => Agree(e))
    BY <1>7, <2>1, LeaseTerminatedFacts
  <2>3. Become(e)
    BY <1>6, <1>11
  <2> HIDE DEF e
  <2>4. Holds(e)
    BY <1>2, <1>7, <1>9, <2>2, AgreeIsShown, RunningHolds
  <2> QED
    BY <2>3, <2>4, HoldsAfter
<1> QED
  BY <1>10, <1>11

\* A CRTC that is enabled is not leased, nor are its outputs.
LEMMA LeasedFacts ==
  ASSUME NEW r, Sound(r), NEW l \in Lessees, NEW d \in Crtcs, r.crtc[d].enabled
  PROVE  /\ d \notin r.lease[l].crtcs
         /\ RoutesOf(r, d) \cap r.lease[l].outputs = {}
BY DEF Sound, LeasesFit, RoutesOf, Crtcs, NoCrtc

\* The holder of a lease takes connectors from nobody else.
LEMMA LesseeSetsHolds ==
  ASSUME IInv, NEW l \in Lessees, NEW c \in Crtcs, LesseeSets(l, c)
  PROVE  IInv'
<1> DEFINE shown == [mode |-> Foreign, routes |-> lease[l].outputs]
           m == DrmModeSetCrtc(kernel, c, shown)
           k == [m EXCEPT !.on = @ \cup lease[l].outputs]
           q == InKernel(Status, k)
<1>1. /\ c \in lease[l].crtcs /\ server.phase \in {"running", "away"} /\ kernel' = k
      /\ UNCHANGED <<server, output, crtc, scanout, lease, unsure, asleep>>
  BY DEF LesseeSets
<1>2. server.phase = "running" => Agree(Status)
  BY StatusFacts DEF IInv, Holds
<1>3. kernel \in Kernels /\ lease[l].outputs \subseteq Outputs
  BY StatusFacts DEF Statuses, Leases
<1>4. shown \in Shown /\ shown.routes = lease[l].outputs
  BY <1>3 DEF Shown
<1> HIDE DEF shown
<1>5. /\ m \in Kernels /\ m.on = kernel.on /\ m.lessees = kernel.lessees
      /\ \A d \in Crtcs \ {c} : kernel.crtc[d] = Off => m.crtc[d] = Off
      /\ \A d \in Crtcs \ {c} :
           kernel.crtc[d].routes # {} /\ kernel.crtc[d].routes \cap shown.routes = {} =>
             m.crtc[d] = kernel.crtc[d]
  BY <1>3, <1>4, SetCrtcFacts
<1> HIDE DEF m
<1>6. /\ k \in Kernels /\ k.crtc = m.crtc /\ k.lessees = kernel.lessees
      /\ kernel.on \subseteq k.on
  BY <1>3, <1>5 DEF Kernels
<1> HIDE DEF k
<1>7. /\ Sound(q) /\ q.server = server /\ q.kernel = k /\ q.lease = lease
      /\ q.output = output /\ q.crtc = crtc /\ q.scanout = scanout
      /\ q.unsure = unsure /\ q.asleep = asleep
  BY <1>6, StatusFacts, InKernelFacts
<1> HIDE DEF q
<1>8. q \in Statuses
  BY <1>7 DEF Sound
<1>9. ASSUME NEW d \in Crtcs, ~CrtcIsLeased(Status, d), kernel.crtc[d] = Off
      PROVE  k.crtc[d] = Off
  BY <1>1, <1>5, <1>6, <1>9, StatusFacts DEF CrtcIsLeased
<1>10. ASSUME NEW d \in Crtcs, crtc[d].enabled, RoutesOf(Status, d) # {},
              kernel.crtc[d].routes = RoutesOf(Status, d)
       PROVE  k.crtc[d] = kernel.crtc[d]
  <2>1. d \notin lease[l].crtcs /\ RoutesOf(Status, d) \cap lease[l].outputs = {}
    BY <1>10, StatusFacts, LeasedFacts
  <2>2. d # c
    BY <1>1, <2>1
  <2> QED
    BY <1>4, <1>5, <1>6, <1>10, <2>1, <2>2
<1>11. Agree(Status) => Agree(q)
  <2> DEFINE s == Status
  <2>1. /\ s \in Statuses /\ q.server = s.server /\ q.lease = s.lease
        /\ q.output = s.output /\ q.crtc = s.crtc /\ q.scanout = s.scanout
        /\ q.unsure = s.unsure /\ q.asleep = s.asleep
        /\ s.kernel = kernel /\ s.crtc = crtc
    BY <1>7, StatusFacts
  <2> HIDE DEF s
  <2>2. s.kernel.on \subseteq q.kernel.on
    BY <2>1, <1>6, <1>7
  <2>3. \A d \in Crtcs : ~CrtcIsLeased(s, d) /\ s.kernel.crtc[d] = Off => q.kernel.crtc[d] = Off
    BY <2>1, <1>7, <1>9 DEF s
  <2>4. \A d \in Crtcs :
          s.crtc[d].enabled /\ RoutesOf(s, d) # {} /\ s.kernel.crtc[d].routes = RoutesOf(s, d) =>
            q.kernel.crtc[d] = s.kernel.crtc[d]
    BY <2>1, <1>7, <1>10 DEF s
  <2>5. Agree(s) => Agree(q)
    BY <1>8, <2>1, <2>2, <2>3, <2>4, KernelStaysAgreed
  <2> QED
    BY <2>5 DEF s
<1>12. Holds(q)
  BY <1>1, <1>2, <1>7, <1>11, RunningHolds
<1>13. Become(q)
  BY <1>1, <1>7 DEF Become
<1> QED
  BY <1>12, <1>13, HoldsAfter

\* The lease ends in the kernel, not yet on record.
LEMMA LesseeClosesHolds ==
  ASSUME IInv, NEW l \in Lessees, LesseeCloses(l)
  PROVE  IInv'
<1> DEFINE k == [kernel EXCEPT !.lessees = @ \ {l},
                   !.crtc = [c \in Crtcs |->
                      IF c \in lease[l].crtcs /\ @[c].mode = Foreign THEN Off ELSE @[c]]]
           q == InKernel(Status, k)
<1>1. /\ l \in kernel.lessees /\ kernel' = k
      /\ UNCHANGED <<server, output, crtc, scanout, lease, unsure, asleep>>
  BY DEF LesseeCloses
<1>2. kernel \in Kernels
  BY StatusFacts DEF Statuses
<1>3. /\ k.on = kernel.on /\ k.lessees = kernel.lessees \ {l}
      /\ k.crtc = [c \in Crtcs |->
           IF c \in lease[l].crtcs /\ kernel.crtc[c].mode = Foreign THEN Off ELSE kernel.crtc[c]]
  BY <1>2 DEF Kernels
<1>4. k.crtc \in [Crtcs -> Shown]
  BY <1>2, <1>3, OffShown DEF Kernels
<1>5. k \in Kernels
  BY <1>2, <1>4 DEF Kernels
<1> HIDE DEF k
<1>6. /\ Sound(q) /\ q.server = server /\ q.kernel = k /\ q.lease = lease
      /\ q.output = output /\ q.crtc = crtc /\ q.scanout = scanout
      /\ q.unsure = unsure /\ q.asleep = asleep
  BY <1>3, <1>5, StatusFacts, InKernelFacts
<1> HIDE DEF q
<1>7. q \in Statuses
  BY <1>6 DEF Sound
<1>8. ASSUME NEW d \in Crtcs, kernel.crtc[d] = Off PROVE k.crtc[d] = Off
  BY <1>3, <1>8
<1>9. ASSUME NEW d \in Crtcs, crtc[d].enabled PROVE k.crtc[d] = kernel.crtc[d]
  <2>1. d \notin lease[l].crtcs
    BY <1>9, StatusFacts, LeasedFacts
  <2> QED
    BY <1>3, <2>1
<1>10. Agree(Status) => Agree(q)
  <2> DEFINE s == Status
  <2>1. /\ s \in Statuses /\ q.server = s.server /\ q.lease = s.lease
        /\ q.output = s.output /\ q.crtc = s.crtc /\ q.scanout = s.scanout
        /\ q.unsure = s.unsure /\ q.asleep = s.asleep
        /\ s.kernel = kernel /\ s.crtc = crtc
    BY <1>6, StatusFacts
  <2> HIDE DEF s
  <2>2. s.kernel.on \subseteq q.kernel.on
    BY <2>1, <1>3, <1>6
  <2>3. \A d \in Crtcs : ~CrtcIsLeased(s, d) /\ s.kernel.crtc[d] = Off => q.kernel.crtc[d] = Off
    BY <2>1, <1>6, <1>8
  <2>4. \A d \in Crtcs :
          s.crtc[d].enabled /\ RoutesOf(s, d) # {} /\ s.kernel.crtc[d].routes = RoutesOf(s, d) =>
            q.kernel.crtc[d] = s.kernel.crtc[d]
    BY <2>1, <1>6, <1>9
  <2>5. Agree(s) => Agree(q)
    BY <1>7, <2>1, <2>2, <2>3, <2>4, KernelStaysAgreed
  <2> QED
    BY <2>5 DEF s
<1>11. NoLeases(Status) => NoLeases(q)
  BY <1>6, StatusFacts DEF NoLeases, IsLease
<1>12. server.phase \in {"resources", "first_block"} => FALSE
  <2>1. IsLease(Status, l)
    BY <1>1, StatusFacts DEF Sound, LeasesFit, IsLease
  <2> QED
    BY <2>1, StatusFacts DEF IInv, Holds, NoLeases
<1>13. Holds(q)
  BY <1>6, <1>10, <1>11, <1>12, StatusFacts DEF IInv, Holds
<1>14. Become(q)
  BY <1>1, <1>6 DEF Become
<1> QED
  BY <1>13, <1>14, HoldsAfter

\* A lease takes all outputs of its CRTCs, and no others that are used.
LEMMA CreateLeaseHolds ==
  ASSUME IInv, NEW l \in Lessees, NEW cs \in SUBSET Crtcs, NEW os \in SUBSET Outputs,
         CreateLease(l, cs, os)
  PROVE  IInv'
<1> DEFINE was == [c \in Crtcs |-> IF c \in cs /\ crtc[c].enabled
                                   THEN [mode |-> crtc[c].mode, routes |-> RoutesOf(Status, c)]
                                   ELSE Off]
           n == [crtcs |-> cs, outputs |-> os, was |-> was]
           q == [LeaseStarted(Status, l, cs, os) EXCEPT !.kernel.lessees = @ \cup {l}]
<1>1. /\ server.phase = "running" /\ ~server.isDummy /\ cs # {} /\ os # {}
      /\ \A c \in cs : ~CrtcIsLeased(Status, c)
      /\ \A o \in os : ~OutputIsLeased(Status, o)
      /\ \A o \in RoutedOutputs : o \in os <=> output[o].crtc \in cs
      /\ Become(q)
  BY DEF CreateLease
<1>2. Sound(Status) /\ Agree(Status) /\ Status \in Statuses
  BY <1>1, StatusFacts DEF IInv, Holds
<1>3. /\ output \in [Outputs -> OutputRecs] /\ crtc \in [Crtcs -> CrtcRecs]
      /\ kernel \in Kernels /\ lease \in [Lessees -> Leases]
  BY <1>2, StatusFacts DEF Statuses
<1>4. /\ q.server = server /\ q.scanout = scanout /\ q.unsure = unsure /\ q.asleep = asleep
      /\ q.lease = [lease EXCEPT ![l] = n]
      /\ q.crtc = [c \in Crtcs |-> IF c \in cs THEN [crtc[c] EXCEPT !.enabled = FALSE] ELSE crtc[c]]
      /\ q.output = [o \in Outputs |-> IF o \in os THEN [output[o] EXCEPT !.crtc = NoCrtc] ELSE output[o]]
      /\ q.kernel = [kernel EXCEPT !.lessees = @ \cup {l}]
      /\ q.ok = TRUE /\ q.next = "crtc"
  BY DEF LeaseStarted, Status
<1>5. n \in Leases
  <2>1. ASSUME NEW c \in Crtcs PROVE was[c] \in Shown
    <3>1. [mode |-> crtc[c].mode, routes |-> RoutesOf(Status, c)] \in Shown
      BY <1>3 DEF CrtcRecs, Shown, RoutesOf
    <3> QED
      BY <3>1, OffShown
  <2>2. was \in [Crtcs -> Shown]
    BY <2>1
  <2> HIDE DEF was
  <2> QED
    BY <2>2 DEF Leases
<1>6. /\ q.kernel \in Kernels /\ q.kernel.crtc = kernel.crtc /\ q.kernel.on = kernel.on
      /\ q.kernel.lessees = kernel.lessees \cup {l}
  BY <1>3, <1>4 DEF Kernels
<1>7. /\ q.crtc \in [Crtcs -> CrtcRecs]
      /\ \A c \in Crtcs : /\ c \in cs => ~q.crtc[c].enabled
                          /\ c \notin cs => q.crtc[c] = crtc[c]
                          /\ q.crtc[c].enabled => crtc[c].enabled
  <2>1. \A c \in Crtcs : /\ [crtc[c] EXCEPT !.enabled = FALSE] \in CrtcRecs
                         /\ [crtc[c] EXCEPT !.enabled = FALSE].enabled = FALSE
    BY <1>3 DEF CrtcRecs
  <2> HIDE DEF q, n
  <2> QED
    BY <1>3, <1>4, <2>1
<1>8. /\ q.output \in [Outputs -> OutputRecs]
      /\ \A o \in Outputs : q.output[o].crtc = IF o \in os THEN NoCrtc ELSE output[o].crtc
  <2>1. \A o \in Outputs : /\ [output[o] EXCEPT !.crtc = NoCrtc] \in OutputRecs
                            /\ [output[o] EXCEPT !.crtc = NoCrtc].crtc = NoCrtc
    BY <1>3 DEF OutputRecs
  <2> HIDE DEF q, n
  <2> QED
    BY <1>3, <1>4, <2>1
<1>9. /\ q.lease \in [Lessees -> Leases] /\ q.lease[l] = n
      /\ \A m \in Lessees \ {l} : q.lease[m] = lease[m]
  <2> HIDE DEF q, n
  <2> QED
    BY <1>3, <1>4, <1>5
<1>10. q \in Statuses
  <2>1. [Status EXCEPT !.lease = q.lease, !.crtc = q.crtc, !.output = q.output,
                       !.kernel = q.kernel] \in Statuses
    <3> HIDE DEF q
    <3> QED
      BY <1>2, <1>6, <1>7, <1>8, <1>9 DEF Statuses
  <2>2. q = [Status EXCEPT !.lease = q.lease, !.crtc = q.crtc, !.output = q.output,
                           !.kernel = q.kernel]
    BY DEF LeaseStarted, Status
  <2> QED
    BY <2>1, <2>2
<1> HIDE DEF q
<1>11. n.crtcs = cs /\ n.outputs = os /\ n.was = was
  OBVIOUS
<1> HIDE DEF n
<1>12. PossibleRoutes(q)
  BY <1>2, <1>4, <1>8, StatusFacts DEF Sound, PossibleRoutes
<1>13. ASSUME NEW c \in cs, NEW o \in RoutesOf(Status, c) PROVE o \in os
  BY <1>1, <1>13, StatusFacts DEF RoutesOf, RoutedOutputs, Crtcs, NoCrtc
<1>14. ASSUME NEW c \in Crtcs
       PROVE  /\ was[c].routes \subseteq os
              /\ was[c].mode \in Modes => c \in cs
              /\ \A o \in was[c].routes : \A e \in Encoders[o] : c \in e
  <2>1. CASE c \in cs /\ crtc[c].enabled
    <3>1. was[c].routes = RoutesOf(Status, c)
      BY <2>1
    <3>2. \A o \in RoutesOf(Status, c) : \A e \in Encoders[o] : c \in e
      BY <1>1, <1>2, StatusFacts DEF Sound, PossibleRoutes, RoutesOf, Crtcs, NoCrtc
    <3> HIDE DEF was
    <3> QED
      BY <1>13, <2>1, <3>1, <3>2
  <2>2. CASE ~(c \in cs /\ crtc[c].enabled)
    <3>1. was[c] = Off
      BY <2>2
    <3> HIDE DEF was
    <3> QED
      BY <3>1, OffShown, LcdModesAssumption
  <2> QED
    BY <2>1, <2>2
<1> HIDE DEF was
<1>15. ASSUME NEW m \in Lessees, m # l
       PROVE  lease[m].crtcs \cap cs = {} /\ lease[m].outputs \cap os = {}
  BY <1>1, StatusFacts DEF CrtcIsLeased, OutputIsLeased
<1>16. LeasesFit(Status) /\ lease = Status.lease
  BY <1>2, StatusFacts DEF Sound
<1>17. ASSUME NEW m \in Lessees, NEW j \in Lessees, m # j
       PROVE  /\ q.lease[m].crtcs \cap q.lease[j].crtcs = {}
              /\ q.lease[m].outputs \cap q.lease[j].outputs = {}
  <2>1. CASE m = l
    BY <1>9, <1>11, <1>15, <1>17, <2>1
  <2>2. CASE j = l
    BY <1>9, <1>11, <1>15, <1>17, <2>2
  <2>3. CASE m # l /\ j # l
    BY <1>9, <1>16, <1>17, <2>3 DEF LeasesFit
  <2> QED
    BY <2>1, <2>2, <2>3
<1>18. ASSUME NEW m \in Lessees
       PROVE  /\ \A c \in q.lease[m].crtcs : ~q.crtc[c].enabled
              /\ \A o \in q.lease[m].outputs : q.output[o].crtc = NoCrtc
              /\ \A c \in Crtcs :
                   /\ q.lease[m].was[c].routes \subseteq q.lease[m].outputs
                   /\ q.lease[m].was[c].mode \in Modes => c \in q.lease[m].crtcs
                   /\ \A o \in q.lease[m].was[c].routes : \A e \in Encoders[o] : c \in e
              /\ q.server.isDummy => q.lease[m].crtcs = {}
              /\ m \in q.kernel.lessees => q.lease[m].crtcs # {} /\ q.lease[m].outputs # {}
  <2>1. CASE m = l
    BY <1>1, <1>4, <1>7, <1>8, <1>9, <1>11, <1>14, <2>1
  <2>2. CASE m # l
    <3>1. q.lease[m] = lease[m] /\ lease[m].crtcs \subseteq Crtcs /\ lease[m].outputs \subseteq Outputs
      BY <1>3, <1>9, <2>2 DEF Leases
    <3>2. /\ \A c \in lease[m].crtcs : ~crtc[c].enabled
          /\ \A o \in lease[m].outputs : output[o].crtc = NoCrtc
          /\ \A c \in Crtcs :
               /\ lease[m].was[c].routes \subseteq lease[m].outputs
               /\ lease[m].was[c].mode \in Modes => c \in lease[m].crtcs
               /\ \A o \in lease[m].was[c].routes : \A e \in Encoders[o] : c \in e
          /\ m \in kernel.lessees => lease[m].crtcs # {} /\ lease[m].outputs # {}
      BY <1>16, StatusFacts DEF LeasesFit
    <3> QED
      BY <1>1, <1>4, <1>6, <1>7, <1>8, <2>2, <3>1, <3>2
  <2> QED
    BY <2>1, <2>2
<1>19. LeasesFit(q)
  BY <1>17, <1>18 DEF LeasesFit
<1>20. ASSUME NEW d \in Crtcs, Real(Status) PROVE ShownAt(q, d) /\ OffAt(q, d)
  <2>1. ShownAt(Status, d) /\ OffAt(Status, d)
    BY <1>2, <1>20 DEF Agree
  <2>2. CASE d \in cs
    <3>1. ~q.crtc[d].enabled /\ CrtcIsLeased(q, d)
      BY <1>7, <1>9, <1>11, <2>2 DEF CrtcIsLeased
    <3> QED
      BY <3>1 DEF ShownAt, OffAt, DrivenBy
  <2>3. CASE d \notin cs
    <3>1. RoutesOf(q, d) = RoutesOf(Status, d)
      BY <1>1, <1>8, <2>3, StatusFacts DEF RoutesOf, RoutedOutputs, Crtcs, NoCrtc
    <3>2. q.crtc[d] = crtc[d]
      BY <1>7, <2>3
    <3>3. CrtcIsLeased(Status, d) => CrtcIsLeased(q, d)
      BY <1>1, <1>9, StatusFacts DEF CrtcIsLeased, CreateLease, IsLease
    <3>4. /\ q.unsure = Status.unsure /\ q.asleep = Status.asleep
          /\ q.kernel.crtc = Status.kernel.crtc /\ q.kernel.on = Status.kernel.on
          /\ q.crtc[d] = Status.crtc[d]
      BY <1>4, <1>6, <3>2, StatusFacts
    <3>5. ShownAt(q, d)
      BY <2>1, <3>1, <3>4 DEF ShownAt, DrivenBy
    <3>6. OffAt(q, d)
      BY <2>1, <3>3, <3>4 DEF OffAt
    <3> QED
      BY <3>5, <3>6
  <2> QED
    BY <2>2, <2>3
<1>21. Agree(q)
  BY <1>4, <1>20, StatusFacts DEF Agree, Real
<1>22. Sound(q)
  BY <1>10, <1>12, <1>19 DEF Sound
<1>23. Holds(q)
  BY <1>1, <1>4, <1>21, <1>22, RunningHolds
<1> QED
  BY <1>1, <1>23, HoldsAfter

\* What the other program does: it has one CRTC, if it has any.
LeftBlank ==
  [kernel EXCEPT !.on = @ \cap HeldOutputs,
     !.crtc = [d \in Crtcs |-> IF d \in HeldCrtcs THEN @[d] ELSE Off]]

Left(c, routes) ==
  IF c \in HeldCrtcs \/ routes = {} THEN LeftBlank
  ELSE DrmModeSetCrtc(LeftBlank, c, [mode |-> Foreign, routes |-> routes])

\* The kernel without the server's part.
LEMMA BlankFacts ==
  ASSUME kernel \in Kernels
  PROVE  /\ LeftBlank \in Kernels /\ LeftBlank.lessees = kernel.lessees
         /\ LeftBlank.on = kernel.on \cap HeldOutputs
         /\ LeftBlank.crtc = [d \in Crtcs |-> IF d \in HeldCrtcs THEN kernel.crtc[d] ELSE Off]
<1>1. [d \in Crtcs |-> IF d \in HeldCrtcs THEN kernel.crtc[d] ELSE Off] \in [Crtcs -> Shown]
  BY OffShown DEF Kernels
<1> QED
  BY <1>1 DEF LeftBlank, Kernels

\* The other program's picture.
LEMMA LeftFacts ==
  ASSUME kernel \in Kernels, NEW c \in Crtcs, NEW routes \in SUBSET Outputs
  PROVE  Left(c, routes) \in Kernels /\ Left(c, routes).lessees = kernel.lessees
<1>1. [mode |-> Foreign, routes |-> routes] \in Shown
  BY DEF Shown
<1> DEFINE shown == [mode |-> Foreign, routes |-> routes]
           k == LeftBlank
<1>2. k \in Kernels /\ k.lessees = kernel.lessees
  BY BlankFacts
<1> HIDE DEF shown, k
<1>3. /\ DrmModeSetCrtc(k, c, shown) \in Kernels
      /\ DrmModeSetCrtc(k, c, shown).lessees = k.lessees
  BY <1>1, <1>2, SetCrtcFacts DEF shown
<1> QED
  BY <1>2, <1>3 DEF Left, shown, k

\* Nothing is claimed while the VT is away.
LEMMA LeaveVTHolds ==
  ASSUME IInv, LeaveVT
  PROVE  IInv'
<1>1. PICK c \in Crtcs, routes \in SUBSET (Outputs \ HeldOutputs) :
        /\ server.phase = "running"
        /\ server' = [server EXCEPT !.phase = "away"]
        /\ kernel' = Left(c, routes)
        /\ UNCHANGED <<output, crtc, scanout, lease, unsure, asleep>>
  BY DEF LeaveVT, Left, LeftBlank
<1>2. kernel' \in Kernels /\ kernel'.lessees = kernel.lessees
  BY <1>1, StatusFacts, LeftFacts DEF Statuses
<1> DEFINE m == InKernel(Status, kernel')
           u == Advanced(m, "away")
<1>3. /\ Sound(m) /\ m.server = server /\ m.kernel = kernel' /\ m.lease = lease
      /\ m.output = output /\ m.crtc = crtc /\ m.scanout = scanout
      /\ m.unsure = unsure /\ m.asleep = asleep
  BY <1>2, StatusFacts, InKernelFacts
<1> HIDE DEF m
<1>4. Holds(u)
  BY <1>3, AdvancedFacts DEF Phases
<1>5. Become(u)
  BY <1>1, <1>3 DEF Become, Advanced, Sound, Statuses
<1> HIDE DEF u
<1> QED
  BY <1>4, <1>5, HoldsAfter

\* A step that changes nothing.
LEMMA NothingHappens ==
  ASSUME IInv, UNCHANGED vars
  PROVE  IInv'
<1>1. Become(Status)
  BY StatusFacts DEF Become, vars
<1>2. Holds(Status)
  BY DEF IInv
<1> QED
  BY <1>1, <1>2, HoldsAfter

\* Every step keeps the invariant.
LEMMA NextHolds ==
  ASSUME IInv, [Next]_vars
  PROVE  IInv'
<1>1. CASE ScreenInit
  BY <1>1, ScreenInitHolds
<1>2. CASE CreateScreenResources
  BY <1>2, CreateScreenResourcesHolds
<1>3. CASE BlockHandlerOneshot
  BY <1>3, BlockHandlerHolds
<1>4. CASE LeaveVT
  BY <1>4, LeaveVTHolds
<1>5. CASE EnterVT
  BY <1>5, EnterVTHolds
<1>6. CASE PowerOn
  BY <1>6, PowerOnHolds
<1>7. CASE PowerOff
  BY <1>7, PowerOffHolds
<1>8. CASE \E c \in Crtcs, mode \in Modes, outputs \in SUBSET Outputs : SetCrtcConfig(c, mode, outputs)
  BY <1>8, SetCrtcConfigHolds
<1>9. CASE \E c \in Crtcs : DisableCrtc(c)
  BY <1>9, DisableCrtcHolds
<1>10. CASE \E l \in Lessees, cs \in SUBSET Crtcs, os \in SUBSET Outputs : CreateLease(l, cs, os)
  BY <1>10, CreateLeaseHolds
<1>11. CASE \E l \in Lessees : TerminateLease(l)
  BY <1>11, TerminateLeaseHolds
<1>12. CASE \E l \in Lessees, c \in Crtcs : LesseeSets(l, c)
  BY <1>12, LesseeSetsHolds
<1>13. CASE \E l \in Lessees : LesseeCloses(l)
  BY <1>13, LesseeClosesHolds
<1>14. CASE UNCHANGED vars
  BY <1>14, NothingHappens
<1> QED
  BY <1>1, <1>2, <1>3, <1>4, <1>5, <1>6, <1>7, <1>8, <1>9, <1>10, <1>11, <1>12, <1>13, <1>14
     DEF Next

-----------------------------------------------------------------------------
(***************************************************************************)
(* What a lessee shows, from action to action.                             *)
(***************************************************************************)
\* Every lessee that lives on keeps what he shows, or shows something else himself.
PicturesKept ==
  \A l \in kernel.lessees \cap kernel'.lessees : \A c \in lease[l].crtcs :
    \/ KeepsPicture(kernel, kernel', c, lease[l].outputs)
    \/ \E d \in lease[l].crtcs : LesseeSets(l, d)

\* What a lessee has.
LEMMA LesseeHas ==
  ASSUME IInv, NEW l \in kernel.lessees
  PROVE  /\ l \in Lessees /\ lease[l].crtcs \in SUBSET Crtcs
         /\ lease[l].outputs \in SUBSET Outputs /\ lease[l].outputs # {}
         /\ \A c \in lease[l].crtcs : LeasedPart(Status, c, lease[l].outputs)
<1>1. l \in Lessees
  BY StatusFacts DEF Statuses, Kernels
<1>2. lease[l] \in Leases
  BY <1>1, StatusFacts DEF Statuses
<1>3. lease[l].outputs # {}
  BY <1>1, StatusFacts DEF Sound, LeasesFit
<1>4. \A c \in lease[l].crtcs : LeasedPart(Status, c, lease[l].outputs)
  BY <1>1, <1>3, StatusFacts DEF LeasedPart, CrtcIsLeased, OutputIsLeased
<1> QED
  BY <1>1, <1>2, <1>3, <1>4 DEF Leases

\* A call that spares what is leased.
LEMMA SparedKeeps ==
  ASSUME IInv, NEW q, Become(q), Spared(Status, q)
  PROVE  PicturesKept
<1> SUFFICES ASSUME NEW l \in kernel.lessees, NEW c \in lease[l].crtcs
             PROVE  KeepsPicture(kernel, kernel', c, lease[l].outputs)
  BY DEF PicturesKept
<1>1. kernel' = q.kernel /\ Status.kernel = kernel
  BY StatusFacts DEF Become
<1>2. KeepsPicture(Status.kernel, q.kernel, c, lease[l].outputs)
  BY LesseeHas DEF Spared
<1> QED
  BY <1>1, <1>2

\* The kernel's CRTCs are as they were.
LEMMA SameKeeps ==
  ASSUME kernel'.crtc = kernel.crtc, kernel'.on = kernel.on
  PROVE  PicturesKept
BY DEF PicturesKept, KeepsPicture

\* Before the server runs there is no lessee.
LEMMA NobodyKeeps ==
  ASSUME IInv, server.phase \in {"screen_init", "resources", "first_block"}
  PROVE  PicturesKept
<1>1. NoLeases(Status) /\ LeasesFit(Status)
  BY StatusFacts DEF IInv, Holds, Sound
<1>2. kernel.lessees = {}
  BY <1>1, StatusFacts DEF NoLeases, IsLease, LeasesFit, Statuses, Kernels
<1> QED
  BY <1>2 DEF PicturesKept

\* A client sets a mode.
LEMMA SetCrtcConfigKeeps ==
  ASSUME IInv, NEW c \in Crtcs, NEW mode \in Modes, NEW outputs \in SUBSET Outputs,
         SetCrtcConfig(c, mode, outputs)
  PROVE  PicturesKept
<1>1. PICK outcome \in Outcomes : Become(RandRSet(Status, c, mode, outputs, outcome))
  BY DEF SetCrtcConfig
<1>2. MayDrive(Status, c, outputs)
  BY MayDriveFacts
<1>3. Spared(Status, RandRSet(Status, c, mode, outputs, outcome))
  BY <1>2, StatusFacts, RandRSetSpares
<1> QED
  BY <1>1, <1>3, SparedKeeps

\* A client disables a CRTC.
LEMMA DisableCrtcKeeps ==
  ASSUME IInv, NEW c \in Crtcs, DisableCrtc(c)
  PROVE  PicturesKept
<1>1. PICK outcome \in Outcomes : Become(DisableUnused(Disabled(Status, c), outcome))
  BY DEF DisableCrtc, Disabled
<1> DEFINE off == Disabled(Status, c)
           q == DisableUnused(off, outcome)
<1>2. Sound(off)
  BY StatusFacts, DisabledFacts
<1>3. off.kernel = Status.kernel /\ off.lease = Status.lease
  BY StatusFacts DEF Disabled
<1> HIDE DEF off
<1>4. Spared(off, q)
  BY <1>2, DisableUnusedSpares, SoundUnrouted
<1> HIDE DEF q
<1>5. Spared(Status, off)
  BY <1>3, SparedSame
<1>6. Spared(Status, q)
  BY <1>3, <1>4, <1>5, SparedTwice
<1> QED
  BY <1>1, <1>6, SparedKeeps DEF q, off

\* A CRTC in use is not leased, nor are outputs in use.
LEMMA InUse ==
  ASSUME IInv
  PROVE  /\ Unrouted(Status) /\ \A c \in EnabledCrtcs : c \in Crtcs /\ ~CrtcIsLeased(Status, c)
         /\ RoutedOutputs \in SUBSET Outputs
         /\ \A o \in RoutedOutputs : ~OutputIsLeased(Status, o)
<1>1. Unrouted(Status)
  BY StatusFacts, SoundUnrouted
<1>2. ASSUME NEW c \in EnabledCrtcs PROVE c \in Crtcs /\ ~CrtcIsLeased(Status, c)
  BY StatusFacts DEF EnabledCrtcs, CrtcIsLeased, Sound, LeasesFit
<1>3. \A o \in RoutedOutputs : ~OutputIsLeased(Status, o)
  BY <1>1, StatusFacts DEF RoutedOutputs, OutputIsLeased, Unrouted
<1> QED
  BY <1>1, <1>2, <1>3 DEF RoutedOutputs

\* The power comes back to what is in use.
LEMMA PowerOnKeeps ==
  ASSUME IInv, PowerOn
  PROVE  PicturesKept
<1>1. PICK at \in Crtcs, outcome \in Outcomes :
        Become(OutputDpms(Each(NumCrtcs, EnabledCrtcs, On(at, outcome), Status),
                          RoutedOutputs, TRUE))
  BY DEF PowerOn
<1> DEFINE F == On(at, outcome)
           s == Each(NumCrtcs, EnabledCrtcs, F, Status)
           q == OutputDpms(s, RoutedOutputs, TRUE)
           r == Status
<1>2. SparingCall(r, r)
  BY StatusFacts, SparedSame DEF SparingCall
<1>3. /\ Unrouted(r) /\ \A c \in EnabledCrtcs : c \in Crtcs /\ ~CrtcIsLeased(r, c)
      /\ RoutedOutputs \in SUBSET Outputs
      /\ \A o \in RoutedOutputs : ~OutputIsLeased(r, o)
  BY InUse
<1>4. s = Each(NumCrtcs, EnabledCrtcs, F, r) /\ Become(q)
  BY <1>1
<1> HIDE DEF r, s
<1>5. ASSUME NEW c \in Crtcs, NEW t \in Statuses, c \in EnabledCrtcs, t.lease = r.lease,
             t.output = r.output
      PROVE  SparingCall(t, F[c][t])
  <2> DEFINE oc == OutcomeAt(c, at, outcome)
             mode == t.crtc[c].mode
             u == SetModeMajor(t, c, mode, oc)
             v == CrtcDpmsOn(t, c, oc)
  <2>1. F[c][t] = v
    BY DEF On
  <2>2. ~CrtcIsLeased(t, c) /\ Unrouted(t)
    BY <1>3, <1>5 DEF CrtcIsLeased, Unrouted
  <2>3. mode \in Modes \cup {NoMode}
    BY DEF Statuses, CrtcRecs
  <2>4. v = u \/ v = [u EXCEPT !.unsure = @ \cup {c}]
    BY DEF CrtcDpmsOn
  <2> HIDE DEF oc, mode
  <2>5. Spared(t, u) /\ Stays(t, u)
    BY <2>2, <2>3, ModeSetSpares, ModeSetCases
  <2> HIDE DEF u, v
  <2>6. v \in Statuses /\ v.lease = t.lease /\ v.output = t.output /\ v.kernel = u.kernel
    BY <2>4, <2>5 DEF Stays, Statuses
  <2>7. SparingCall(t, v)
    BY <2>5, <2>6 DEF Spared, SparingCall
  <2> QED
    BY <2>1, <2>7
<1> HIDE DEF F
<1>6. SparingCall(r, s)
  BY <1>2, <1>4, <1>5, LoopSpares
<1>7. \A o \in RoutedOutputs : ~OutputIsLeased(s, o)
  BY <1>3, <1>6 DEF SparingCall, OutputIsLeased
<1>8. SparingCall(s, q)
  BY <1>3, <1>6, <1>7, DpmsSpares DEF SparingCall
<1> HIDE DEF q
<1>9. Spared(r, q)
  BY <1>6, <1>8, SparedTwice DEF SparingCall
<1> QED
  BY <1>4, <1>9, SparedKeeps DEF r

\* The power goes from what is in use.
LEMMA PowerOffKeeps ==
  ASSUME IInv, PowerOff
  PROVE  PicturesKept
<1>1. PICK at \in Crtcs, outcome \in Outcomes :
        Become(Each(NumCrtcs, EnabledCrtcs, Down(at, outcome),
                    OutputDpms(Status, RoutedOutputs, FALSE)))
  BY DEF PowerOff
<1> DEFINE F == Down(at, outcome)
           s == OutputDpms(Status, RoutedOutputs, FALSE)
           q == Each(NumCrtcs, EnabledCrtcs, F, s)
           r == Status
<1>2. /\ Unrouted(r) /\ \A c \in EnabledCrtcs : c \in Crtcs /\ ~CrtcIsLeased(r, c)
      /\ RoutedOutputs \in SUBSET Outputs
      /\ \A o \in RoutedOutputs : ~OutputIsLeased(r, o)
  BY InUse
<1>3. SparingCall(r, s) /\ Become(q)
  BY <1>1, <1>2, StatusFacts, DpmsSpares
<1> HIDE DEF r, s
<1>4. ASSUME NEW c \in Crtcs, NEW t \in Statuses, c \in EnabledCrtcs, t.lease = r.lease,
             t.output = r.output
      PROVE  SparingCall(t, F[c][t])
  <2> DEFINE oc == OutcomeAt(c, at, outcome)
             u == CrtcDpmsOff(t, c, oc)
             v == [u EXCEPT !.asleep = @ \cup {c}]
  <2>1. F[c][t] = v
    BY DEF Down
  <2>2. ~CrtcIsLeased(t, c) /\ Unrouted(t)
    BY <1>2, <1>4 DEF CrtcIsLeased, Unrouted
  <2> HIDE DEF oc
  <2>3. Spared(t, u) /\ GoesOff(t, u, c)
    BY <2>2, OffSpares, CrtcOffFacts
  <2> HIDE DEF u
  <2>4. v \in Statuses /\ v.lease = t.lease /\ v.output = t.output /\ v.kernel = u.kernel
    BY <2>3 DEF GoesOff, Stays, Statuses
  <2> HIDE DEF v
  <2>5. SparingCall(t, v)
    BY <2>3, <2>4 DEF Spared, SparingCall
  <2> QED
    BY <2>1, <2>5
<1> HIDE DEF F
<1>5. SparingCall(r, q)
  BY <1>3, <1>4, LoopSpares
<1> HIDE DEF q
<1> QED
  BY <1>3, <1>5, SparedKeeps DEF SparingCall, r

\* A lease ends, on record after it ended in the kernel.
LEMMA TerminateLeaseKeeps ==
  ASSUME IInv, NEW l \in Lessees, TerminateLease(l)
  PROVE  PicturesKept
<1>1. PICK revoked \in BOOLEAN, outcome \in Outcomes :
        LET r == [Status EXCEPT !.kernel.lessees = IF revoked THEN @ \ {l} ELSE @]
        IN Become(IF EndsWith(revoked) THEN LeaseTerminated(r, l, outcome) ELSE r)
  BY DEF TerminateLease
<1> DEFINE k == [kernel EXCEPT !.lessees = IF revoked THEN @ \ {l} ELSE @]
           r == InKernel(Status, k)
           q == IF revoked THEN LeaseTerminated(r, l, outcome) ELSE r
<1>2. r = [Status EXCEPT !.kernel.lessees = IF revoked THEN @ \ {l} ELSE @]
  BY StatusFacts DEF InKernel
<1>3. Become(q)
  BY <1>1, <1>2 DEF EndsWith
<1>4. /\ k \in Kernels /\ k.crtc = kernel.crtc /\ k.on = kernel.on
      /\ k.lessees \subseteq kernel.lessees /\ (revoked => l \notin k.lessees)
  BY StatusFacts DEF Statuses, Kernels
<1> HIDE DEF k
<1>5. Sound(r) /\ r.kernel = k /\ r.lease = lease
  BY <1>4, StatusFacts, InKernelFacts
<1> HIDE DEF r
<1>6. CASE ~revoked
  <2>1. kernel' = k
    BY <1>3, <1>5, <1>6 DEF Become
  <2> QED
    BY <1>4, <2>1, SameKeeps
<1>7. CASE revoked
  <2> DEFINE t == LeaseTerminated(r, l, outcome)
             ended == [r EXCEPT !.lease[l] = NoLease]
  <2>1. Spared(ended, t) /\ t.kernel.lessees = r.kernel.lessees
    BY <1>4, <1>5, <1>7, LeaseTerminatedFacts
  <2>2. kernel' = t.kernel
    BY <1>3, <1>7 DEF Become
  <2>3. ended.kernel = k /\ ended.lease = [lease EXCEPT ![l] = NoLease]
    BY <1>5 DEF Sound, Statuses
  <2> HIDE DEF t, ended
  <2> SUFFICES ASSUME NEW m \in kernel.lessees \cap kernel'.lessees, NEW c \in lease[m].crtcs
               PROVE  KeepsPicture(kernel, kernel', c, lease[m].outputs)
    BY DEF PicturesKept
  <2>4. m # l
    BY <1>4, <1>5, <1>7, <2>1, <2>2
  <2>5. /\ m \in Lessees /\ c \in Crtcs /\ lease[m].outputs \in SUBSET Outputs
        /\ lease[m].outputs # {}
    BY LesseeHas
  <2>6. ended.lease[m] = lease[m]
    BY <2>3, <2>4, <2>5, StatusFacts DEF Statuses
  <2>7. LeasedPart(ended, c, lease[m].outputs)
    BY <2>5, <2>6 DEF LeasedPart, CrtcIsLeased, OutputIsLeased
  <2>8. KeepsPicture(k, kernel', c, lease[m].outputs)
    BY <2>1, <2>2, <2>3, <2>5, <2>7 DEF Spared
  <2> QED
    BY <1>4, <2>8 DEF KeepsPicture
<1> QED
  BY <1>6, <1>7

\* A new lessee finds the CRTCs as they are.
LEMMA CreateLeaseKeeps ==
  ASSUME IInv, NEW l, NEW cs, NEW os, CreateLease(l, cs, os)
  PROVE  PicturesKept
<1>1. kernel' = [kernel EXCEPT !.lessees = @ \cup {l}]
  BY DEF CreateLease, LeaseStarted, Become, Status
<1>2. kernel \in Kernels
  BY StatusFacts DEF Statuses
<1> QED
  BY <1>1, <1>2, SameKeeps DEF Kernels

\* Two lessees have nothing in common.
LEMMA LesseesApart ==
  ASSUME IInv, NEW l \in kernel.lessees, NEW m \in kernel.lessees, l # m
  PROVE  /\ lease[l].crtcs \cap lease[m].crtcs = {}
         /\ lease[l].outputs \cap lease[m].outputs = {}
BY LesseeHas, StatusFacts DEF Sound, LeasesFit

\* One lessee does not touch what another shows.
LEMMA LesseeSetsKeeps ==
  ASSUME IInv, NEW m \in Lessees, NEW d \in Crtcs, LesseeSets(m, d)
  PROVE  PicturesKept
<1> SUFFICES ASSUME NEW l \in kernel.lessees, NEW c \in lease[l].crtcs, l # m
             PROVE  KeepsPicture(kernel, kernel', c, lease[l].outputs)
  BY DEF PicturesKept, LesseeSets
<1> DEFINE shown == [mode |-> Foreign, routes |-> lease[m].outputs]
           k == DrmModeSetCrtc(kernel, d, shown)
<1>1. m \in kernel.lessees /\ d \in lease[m].crtcs
  BY DEF LesseeSets
<1>2. kernel' = [k EXCEPT !.on = @ \cup lease[m].outputs]
  BY DEF LesseeSets
<1>3. c \in Crtcs \ {d} /\ lease[l].outputs \cap lease[m].outputs = {}
  BY <1>1, LesseesApart, LesseeHas
<1>4. /\ kernel \in Kernels /\ lease[l].outputs \in SUBSET Outputs /\ lease[l].outputs # {}
      /\ lease[m].outputs \in SUBSET Outputs
  BY <1>1, StatusFacts, LesseeHas DEF Statuses
<1>5. shown \in Shown /\ shown.routes = lease[m].outputs
  BY <1>4 DEF Shown
<1> HIDE DEF shown
<1>6. KeepsPicture(kernel, k, c, lease[l].outputs) /\ k \in Kernels
  BY <1>3, <1>4, <1>5, PictureKept, SetCrtcFacts
<1> HIDE DEF k
<1>7. kernel'.crtc = k.crtc /\ k.on \subseteq kernel'.on
  BY <1>2, <1>6 DEF Kernels
<1> QED
  BY <1>6, <1>7 DEF KeepsPicture

\* A lessee that closes his lease leaves the others alone.
LEMMA LesseeClosesKeeps ==
  ASSUME IInv, NEW m \in Lessees, LesseeCloses(m)
  PROVE  PicturesKept
<1>1. /\ m \in kernel.lessees
      /\ kernel' = [kernel EXCEPT !.lessees = @ \ {m},
                      !.crtc = [c \in Crtcs |->
                         IF c \in lease[m].crtcs /\ @[c].mode = Foreign THEN Off ELSE @[c]]]
  BY DEF LesseeCloses
<1>2. kernel \in Kernels
  BY StatusFacts DEF Statuses
<1>3. /\ kernel'.lessees = kernel.lessees \ {m} /\ kernel'.on = kernel.on
      /\ \A c \in Crtcs : c \notin lease[m].crtcs => kernel'.crtc[c] = kernel.crtc[c]
  BY <1>1, <1>2 DEF Kernels
<1> SUFFICES ASSUME NEW l \in kernel.lessees, NEW c \in lease[l].crtcs, l # m
             PROVE  KeepsPicture(kernel, kernel', c, lease[l].outputs)
  BY <1>3 DEF PicturesKept
<1>4. c \in Crtcs /\ c \notin lease[m].crtcs
  BY <1>1, LesseeHas, LesseesApart
<1> QED
  BY <1>3, <1>4 DEF KeepsPicture

\* The other program leaves alone what is leased.
LEMMA LeaveVTKeeps ==
  ASSUME IInv, LeaveVT
  PROVE  PicturesKept
<1>1. PICK d \in Crtcs, routes \in SUBSET (Outputs \ HeldOutputs) : kernel' = Left(d, routes)
  BY DEF LeaveVT, Left, LeftBlank
<1> SUFFICES ASSUME NEW l \in kernel.lessees, NEW c \in lease[l].crtcs
             PROVE  KeepsPicture(kernel, kernel', c, lease[l].outputs)
  BY DEF PicturesKept
<1> DEFINE os == lease[l].outputs
           shown == [mode |-> Foreign, routes |-> routes]
           k == LeftBlank
<1>2. /\ c \in HeldCrtcs /\ os \subseteq HeldOutputs /\ c \in Crtcs
      /\ os \in SUBSET Outputs /\ os # {}
  BY LesseeHas DEF HeldCrtcs, HeldOutputs
<1>3. kernel \in Kernels
  BY StatusFacts DEF Statuses
<1>4. /\ k \in Kernels /\ k.on = kernel.on \cap HeldOutputs
      /\ k.crtc = [e \in Crtcs |-> IF e \in HeldCrtcs THEN kernel.crtc[e] ELSE Off]
  BY <1>3, BlankFacts
<1> HIDE DEF k, os
<1>5. KeepsPicture(kernel, k, c, os)
  BY <1>2, <1>4 DEF KeepsPicture
<1>6. CASE d \in HeldCrtcs \/ routes = {}
  BY <1>1, <1>5, <1>6 DEF Left, k, os
<1>7. CASE ~(d \in HeldCrtcs \/ routes = {})
  <2>1. shown \in Shown /\ shown.routes = routes
    BY DEF Shown
  <2>2. os \cap routes = {} /\ c \in Crtcs \ {d}
    BY <1>2, <1>7
  <2>3. kernel' = DrmModeSetCrtc(k, d, shown)
    BY <1>1, <1>7 DEF Left, k
  <2> HIDE DEF shown
  <2>4. KeepsPicture(k, kernel', c, os)
    BY <1>2, <1>4, <2>1, <2>2, <2>3, PictureKept
  <2> QED
    BY <1>5, <2>4 DEF KeepsPicture, os
<1> QED
  BY <1>6, <1>7

\* EnterVT comes back, or the server gives up.
LEMMA EnterVTReturns ==
  ASSUME IInv, EnterVT
  PROVE  server.phase = "away" /\ server'.phase # "away"
<1>1. PICK q : DesiredModesSet(Status, q, TRUE) /\ Continue(q, "running", TRUE)
  BY DesiredModesPick DEF EnterVT
<1> DEFINE p == PhaseAfter(q, "running", TRUE)
           u == Advanced(q, p)
<1>2. Become(u)
  BY <1>1 DEF Continue, Advanced, PhaseAfter
<1>3. q \in Statuses
  BY <1>1 DEF DesiredModesSet, Sound
<1>4. u.server.phase = p
  BY <1>3 DEF Advanced, Statuses, Servers
<1>5. p # "away"
  BY DEF PhaseAfter
<1>6. server.phase = "away"
  BY DesiredModesPick DEF EnterVT
<1> QED
  BY <1>2, <1>4, <1>5, <1>6 DEF Become

\* Every step but EnterVT leaves alone what a lessee shows.
LEMMA NextKeeps ==
  ASSUME IInv, [Next]_vars, ~(server.phase = "away" /\ server'.phase # "away")
  PROVE  PicturesKept
<1>1. CASE ScreenInit \/ CreateScreenResources \/ BlockHandlerOneshot
  <2>1. server.phase \in {"screen_init", "resources", "first_block"}
    BY <1>1 DEF ScreenInit, CreateScreenResources, BlockHandlerOneshot, DesiredModesAt,
                DesiredModesWith
  <2> QED
    BY <2>1, NobodyKeeps
<1>2. CASE LeaveVT
  BY <1>2, LeaveVTKeeps
<1>3. CASE EnterVT
  BY <1>3, EnterVTReturns
<1>4. CASE PowerOn
  BY <1>4, PowerOnKeeps
<1>5. CASE PowerOff
  BY <1>5, PowerOffKeeps
<1>6. CASE \E c \in Crtcs, mode \in Modes, outputs \in SUBSET Outputs : SetCrtcConfig(c, mode, outputs)
  BY <1>6, SetCrtcConfigKeeps
<1>7. CASE \E c \in Crtcs : DisableCrtc(c)
  BY <1>7, DisableCrtcKeeps
<1>8. CASE \E l \in Lessees, cs \in SUBSET Crtcs, os \in SUBSET Outputs : CreateLease(l, cs, os)
  BY <1>8, CreateLeaseKeeps
<1>9. CASE \E l \in Lessees : TerminateLease(l)
  BY <1>9, TerminateLeaseKeeps
<1>10. CASE \E l \in Lessees, c \in Crtcs : LesseeSets(l, c)
  BY <1>10, LesseeSetsKeeps
<1>11. CASE \E l \in Lessees : LesseeCloses(l)
  BY <1>11, LesseeClosesKeeps
<1>12. CASE UNCHANGED vars
  BY <1>12, SameKeeps DEF vars
<1> QED
  BY <1>1, <1>2, <1>3, <1>4, <1>5, <1>6, <1>7, <1>8, <1>9, <1>10, <1>11, <1>12 DEF Next

-----------------------------------------------------------------------------
(***************************************************************************)
(* The theorems.                                                           *)
(***************************************************************************)
\* The invariant holds at the start.
LEMMA InitHolds ==
  ASSUME Init
  PROVE  IInv
<1>1. PICK isDummy \in BOOLEAN, found \in SUBSET Outputs, fb \in {"none", "no_fb"},
           mode \in Modes, drives \in [Outputs -> Crtcs \cup {NoCrtc}] :
        /\ CompatOutput \in found
        /\ isDummy => found = {CompatOutput}
        /\ drives[CompatOutput] # NoCrtc
        /\ \A o \in Outputs :
             drives[o] # NoCrtc => o \in found /\ drives[o] \in PossibleCrtcs(o, isDummy)
        /\ server = [phase |-> "screen_init", isDummy |-> isDummy]
        /\ output = [o \in Outputs |-> [exists |-> o \in found, crtc |-> drives[o]]]
        /\ crtc = [c \in Crtcs |->
                     LET on == c \in {drives[o] : o \in Outputs}
                     IN [enabled |-> on, mode |-> NoMode,
                         desiredMode |-> IF on THEN mode ELSE NoMode]]
        /\ scanout = fb
        /\ kernel = [crtc |-> [c \in Crtcs |-> Off], on |-> {}, lessees |-> {}]
        /\ lease = [l \in Lessees |-> NoLease]
        /\ unsure = {} /\ asleep = {}
  BY DEF Init
<1>2. server \in Servers /\ scanout \in Scanouts
  BY <1>1 DEF Servers, Phases, Scanouts
<1>3. output \in [Outputs -> OutputRecs] /\ \A o \in Outputs : output[o].crtc = drives[o]
  BY <1>1 DEF OutputRecs
<1>4. crtc \in [Crtcs -> CrtcRecs]
  <2>1. \A c \in Crtcs :
          LET on == c \in {drives[o] : o \in Outputs}
          IN [enabled |-> on, mode |-> NoMode,
              desiredMode |-> IF on THEN mode ELSE NoMode] \in CrtcRecs
    BY DEF CrtcRecs
  <2> QED
    BY <1>1, <2>1
<1>5. kernel \in Kernels /\ kernel.lessees = {}
  BY <1>1, OffShown DEF Kernels
<1>6. lease \in [Lessees -> Leases] /\ \A l \in Lessees : lease[l] = NoLease
  BY <1>1, NoLeaseType
<1>7. Status \in Statuses
  BY <1>1, <1>2, <1>3, <1>4, <1>5, <1>6 DEF Statuses, Status
<1>8. /\ Status.server = server /\ Status.output = output /\ Status.crtc = crtc
      /\ Status.kernel = kernel /\ Status.lease = lease
  BY DEF Status
<1>9. PossibleRoutes(Status)
  BY <1>1, <1>3, <1>8 DEF PossibleRoutes, PossibleCrtcs
<1>10. LeasesFit(Status)
  BY <1>5, <1>6, <1>8, NoLeaseType, LcdModesAssumption DEF LeasesFit
<1>11. NoLeases(Status)
  BY <1>6, <1>8, NoLeaseType DEF NoLeases, IsLease
<1>12. Status.server.phase = "screen_init"
  BY <1>1, <1>8
<1> QED
  BY <1>7, <1>9, <1>10, <1>11, <1>12 DEF IInv, Holds, Sound

\* The inductive invariant: the leases fit the configuration in every phase,
\* no lease exists before the server runs, every CRTC has its desired mode until
\* fbdev_set_desired_modes was called from the block handler, and the kernel agrees
\* with the records while the server runs.
THEOREM IInvCorrect == Spec => []IInv
<1>1. Init => IInv
  BY InitHolds
<1>2. IInv /\ [Next]_vars => IInv'
  BY NextHolds
<1> QED
  BY <1>1, <1>2, PTL DEF Spec

\* The type invariant, with the rule that an output only gets a CRTC that all
\* its encoders can be fed by.
THEOREM TypeCorrect == Spec => []TypeOK
<1>1. ASSUME IInv PROVE TypeOK
  <2>1. Status \in Statuses /\ PossibleRoutes(Status)
    BY <1>1, StatusFacts DEF Sound
  <2>2. /\ server \in Servers /\ output \in [Outputs -> OutputRecs]
        /\ crtc \in [Crtcs -> CrtcRecs] /\ scanout \in Scanouts /\ kernel \in Kernels
        /\ lease \in [Lessees -> Leases] /\ unsure \in SUBSET Crtcs /\ asleep \in SUBSET Crtcs
    BY <1>1, <2>1, StatusFacts DEF Statuses
  <2>3. \A o \in Outputs : output[o].crtc # NoCrtc /\ ~server.isDummy =>
          \A e \in Encoders[o] : output[o].crtc \in e
    BY <1>1, <2>1, StatusFacts DEF PossibleRoutes
  <2> QED
    BY <2>2, <2>3 DEF TypeOK
<1> QED
  BY <1>1, IInvCorrect, PTL

\* The kernel shows what the server has on record, for any number of CRTCs,
\* outputs and leases and whatever single call of an action fails: mode sets that
\* take connectors away, failed sets that are undone, VT switches, ended leases.
THEOREM KernelAgreesCorrect == Spec => []KernelAgrees
<1>1. ASSUME IInv PROVE KernelAgrees
  <2> SUFFICES ASSUME ShowsAtAll, NEW c \in Crtcs \ unsure, ~CrtcIsLeased(Status, c)
               PROVE  /\ Drives(c) /\ c \notin asleep => IsShown(c)
                      /\ ~crtc[c].enabled => kernel.crtc[c] = Off
    BY DEF KernelAgrees
  <2>1. Agree(Status) /\ Real(Status)
    BY <1>1, StatusFacts DEF ShowsAtAll, IInv, Holds, Real
  <2>2. ShownAt(Status, c) /\ OffAt(Status, c)
    BY <2>1 DEF Agree
  <2>3. RoutesOf(Status, c) = {o \in Outputs : output[o].crtc = c}
    BY <1>1, StatusFacts DEF RoutesOf
  <2>4. ASSUME Drives(c), c \notin asleep PROVE IsShown(c)
    <3>1. DrivenBy(Status, c)
      BY <1>1, <2>3, <2>4, StatusFacts DEF Drives, DrivenBy
    <3>2. /\ kernel.crtc[c] = [mode |-> crtc[c].mode, routes |-> RoutesOf(Status, c)]
          /\ RoutesOf(Status, c) \subseteq kernel.on
      BY <1>1, <2>2, <2>4, <3>1, StatusFacts DEF ShownAt
    <3> QED
      BY <2>3, <3>2 DEF IsShown
  <2>5. ASSUME ~crtc[c].enabled PROVE kernel.crtc[c] = Off
    BY <1>1, <2>2, <2>5, StatusFacts DEF OffAt
  <2> QED
    BY <2>4, <2>5
<1> QED
  BY <1>1, IInvCorrect, PTL

\* On the server's records, what a living lease has is disabled and unused.
THEOREM LeasedCorrect == Spec => []LeasedIsNotConfigured
<1>1. ASSUME IInv PROVE LeasedIsNotConfigured
  <2>1. LeasesFit(Status)
    BY <1>1, StatusFacts DEF Sound
  <2>2. kernel.lessees \subseteq Lessees
    BY <1>1, StatusFacts DEF Statuses, Kernels
  <2> QED
    BY <1>1, <2>1, <2>2, StatusFacts DEF LeasesFit, LeasedIsNotConfigured, IsLease
<1> QED
  BY <1>1, IInvCorrect, PTL

\* What the holder of a living lease shows stays, until he changes it or EnterVT
\* turns it off: for any number of CRTCs, outputs and leases, and whatever single
\* call of an action fails.
THEOREM LesseeKeepsPictureCorrect == Spec => LesseeKeepsPicture
<1> DEFINE Keeps ==
      \A l \in kernel.lessees \cap kernel'.lessees : \A c \in lease[l].crtcs :
        /\ kernel.crtc[c] = [mode |-> Foreign, routes |-> lease[l].outputs]
        /\ lease[l].outputs \subseteq kernel.on
        /\ ~(server.phase = "away" /\ server'.phase # "away")
        => \/ /\ kernel'.crtc[c] = kernel.crtc[c]
              /\ lease[l].outputs \subseteq kernel'.on
           \/ \E d \in lease[l].crtcs : LesseeSets(l, d)
<1>1. ASSUME IInv, [Next]_vars
      PROVE  [Keeps]_vars
  <2> SUFFICES ASSUME NEW l \in kernel.lessees \cap kernel'.lessees, NEW c \in lease[l].crtcs,
                      kernel.crtc[c] = [mode |-> Foreign, routes |-> lease[l].outputs],
                      lease[l].outputs \subseteq kernel.on,
                      ~(server.phase = "away" /\ server'.phase # "away")
               PROVE  \/ /\ kernel'.crtc[c] = kernel.crtc[c]
                         /\ lease[l].outputs \subseteq kernel'.on
                      \/ \E d \in lease[l].crtcs : LesseeSets(l, d)
    OBVIOUS
  <2>1. PicturesKept
    BY <1>1, NextKeeps
  <2>2. kernel.crtc[c].routes = lease[l].outputs
    OBVIOUS
  <2> QED
    BY <2>1, <2>2 DEF PicturesKept, KeepsPicture
<1> QED
  BY <1>1, IInvCorrect, PTL DEF Spec, LesseeKeepsPicture

\* EnterVT that worked has validated the leases, unless they could not be listed.
LEMMA ComesBack ==
  ASSUME IInv, NEW at, NEW outcome \in Outcomes \ {"unlisted"}, NEW beyond,
         DesiredModesWith("away", TRUE, "running", TRUE, at, outcome, beyond),
         server'.phase = "running"
  PROVE  \A l \in Lessees : lease'[l].crtcs # {} => l \in kernel'.lessees
<1> DEFINE q == SetDesiredModes(Status, TRUE, at, outcome, beyond)
           p == PhaseAfter(q, "running", TRUE)
           u == Advanced(q, p)
<1>1. Continue(q, "running", TRUE)
  BY DEF DesiredModesWith
<1>2. OutcomeAt(NumCrtcs, at, outcome) # "unlisted"
  BY DEF OutcomeAt
<1>3. DesiredModesSet(Status, q, TRUE) /\ LeasesLive(q)
  BY <1>2, StatusFacts, SetDesiredModesFacts
<1> HIDE DEF q
<1>4. Become(u)
  BY <1>1 DEF Continue, Advanced, PhaseAfter
<1>5. q \in Statuses
  BY <1>3 DEF DesiredModesSet, Sound
<1>6. u.server.phase = p /\ u.lease = q.lease /\ u.kernel = q.kernel
  BY <1>5 DEF Advanced, Statuses, Servers
<1>7. p = "running"
  BY <1>4, <1>6 DEF Become
<1>8. q.ok
  BY <1>7 DEF PhaseAfter
<1>9. lease' = q.lease /\ kernel' = q.kernel
  BY <1>4, <1>6 DEF Become
<1> QED
  BY <1>3, <1>8, <1>9 DEF LeasesLive, IsLease

\* When EnterVT has returned and the kernel could list its lessees, no lease is on
\* record that the kernel has not.
THEOREM NoGoneLeaseCorrect == Spec => NoGoneLeaseAfterEnterVT
<1>1. ASSUME IInv, [Next]_vars
      PROVE  [/\ server.phase = "away" /\ server'.phase = "running"
              /\ \E l \in Lessees : lease'[l].crtcs # {} /\ l \notin kernel'.lessees
              => ~\E at \in Crtcs, outcome \in Outcomes \ {"unlisted"},
                     beyond \in Crtcs \cup {NoCrtc} :
                    DesiredModesWith("away", TRUE, "running", TRUE, at, outcome, beyond)]_vars
  BY <1>1, ComesBack
<1> QED
  BY <1>1, IInvCorrect, PTL DEF Spec, NoGoneLeaseAfterEnterVT
=============================================================================
