-------------------------- MODULE ScreenLifeProofs --------------------------
(***************************************************************************)
(* The hooks of the screens: nobody loses one, and none of the driver is   *)
(* left in a closed screen, for every number of screens and generations,   *)
(* all configurations, every set of called functions, and extensions that  *)
(* come and go in the middle of calls.                                     *)
(***************************************************************************)
EXTENDS ScreenLife, DrmMasterProofs

-----------------------------------------------------------------------------
(***************************************************************************)
(* The hooks of one screen.                                                *)
(***************************************************************************)
HookRecord == [config : Configurations, slot : [Slots -> Functions],
               saved : [Wraps -> Functions \union {"none"}]]

\* Those who are called through slot x, one after the other, when k of them are in
\* the middle of their call: f lists them, and ends in the server.  A call changes
\* k, and neither f nor its order.
Linked(h, x, k, n, f) ==
  /\ n \in Nat /\ k \in 0 .. n - 1
  /\ f \in [1 .. n -> Functions]
  /\ f[n] = "server"
  /\ \A i \in 1 .. n - 1 : <<f[i], x>> \in Wraps
  /\ \A i, j \in 1 .. n : f[i] = f[j] => i = j
  /\ \A i, j \in 1 .. n : f[i] = "tuner" /\ f[j] = "mali" => j < i
  /\ Owner(h.slot[x]) = f[k + 1]
  /\ \A i \in k + 1 .. n - 1 : Owner(h.saved[<<f[i], x>>]) = f[i + 1]

\* Screens h and g have functions of the same owners at x.
SameAt(h, g, x) ==
  /\ Owner(g.slot[x]) = Owner(h.slot[x])
  /\ \A w \in Wraps : w[2] = x => g.saved[w] = h.saved[w]

LEMMA WrapsAre ==
  ASSUME NEW w \in Wraps
  PROVE  w = <<w[1], w[2]>> /\ w[1] \in Functions \ {"server", "oneshot"} /\ w[2] \in Slots
BY DEF Wraps, Functions, Slots

\* Who wraps what, one by one.
LEMMA WrapsList ==
  ASSUME NEW who, NEW x
  PROVE  <<who, x>> \in Wraps <=>
           \/ who = "tuner" /\ x \in {"PostValidateTree", "ReparentWindow"}
           \/ who = "g2d" /\ x \in {"CopyWindow", "CreateGC"}
           \/ who = "fbdev" /\ x \in {"CreateScreenResources", "CloseScreen", "BlockHandler", "PointerMoved"}
           \/ who = "crtc" /\ x \in {"CreateScreenResources", "CloseScreen"}
           \/ who = "xv" /\ x \in {"DestroyWindow", "CloseScreen"}
           \/ who = "exa" /\ x \in {"CopyWindow", "CreateGC", "GetImage", "DestroyPixmap", "CloseScreen"}
           \/ who = "mali" /\ x \in {"DestroyWindow", "PostValidateTree", "GetImage", "DestroyPixmap",
                                     "EnableHWCursor", "DisableHWCursor"}
           \/ who = "ext" /\ x \in Called
<1>1. \A a, A : <<who, x>> \in {a} \X A <=> who = a /\ x \in A
  OBVIOUS
<1> QED
  BY <1>1, Zenon DEF Wraps

LEMMA NamesAre ==
  ASSUME NEW who, NEW x
  PROVE  /\ x \in Names(who) <=> <<who, x>> \in Wraps
         /\ x \in Names(who) => who \in Functions \ {"server", "oneshot"} /\ x \in Slots
<1>1. x \in Names(who) <=> <<who, x>> \in Wraps
  BY WrapsAre DEF Names
<1>2. <<who, x>>[1] = who /\ <<who, x>>[2] = x
  OBVIOUS
<1> QED
  BY <1>1, <1>2, WrapsAre

LEMMA FunctionsAre ==
  /\ \A f \in Functions : Owner(f) \in Functions \ {"oneshot"}
  /\ \A f \in Functions : Owner(f) = "server" => f = "server"
  /\ \A w \in Wraps : Owner(w[1]) = w[1]
  /\ {"server", "oneshot"} \subseteq Functions
  /\ "none" \notin Functions
<1>1. "fbdev" \in Functions
  <2>1. <<"fbdev", "BlockHandler">> \in Wraps
    BY DEF Wraps
  <2> QED
    BY <2>1 DEF Functions
<1>2. "none" \notin Functions
  BY DEF Functions, Wraps
<1> QED
  BY <1>1, <1>2, WrapsAre DEF Functions, Owner

\* What Wrap does.
LEMMA WrapIs ==
  ASSUME NEW h \in HookRecord, NEW who, NEW names, names \subseteq Names(who)
  PROVE  LET g == Wrap(h, who, names) IN
         /\ g \in HookRecord
         /\ g.config = h.config
         /\ \A x \in Slots : g.slot[x] = IF x \in names THEN who ELSE h.slot[x]
         /\ \A w \in Wraps :
              g.saved[w] = IF w[1] = who /\ w[2] \in names THEN h.slot[w[2]] ELSE h.saved[w]
<1> DEFINE slot == [x \in Slots |-> IF x \in names THEN who ELSE h.slot[x]]
           saved == [w \in Wraps |-> IF w \in {who} \X names THEN h.slot[w[2]] ELSE h.saved[w]]
<1>1. names # {} => who \in Functions
  BY NamesAre
<1>2. slot \in [Slots -> Functions]
  BY <1>1 DEF HookRecord
<1>3. saved \in [Wraps -> Functions \union {"none"}]
  BY WrapsAre DEF HookRecord
<1>4. \A w \in Wraps : w \in {who} \X names <=> w[1] = who /\ w[2] \in names
  BY WrapsAre
<1>5. Wrap(h, who, names) = [h EXCEPT !.saved = saved, !.slot = slot]
  BY DEF Wrap
<1> HIDE DEF slot, saved
<1>6. /\ Wrap(h, who, names) \in HookRecord
      /\ Wrap(h, who, names).config = h.config
      /\ Wrap(h, who, names).slot = slot
      /\ Wrap(h, who, names).saved = saved
  BY <1>2, <1>3, <1>5 DEF HookRecord
<1> QED
  BY <1>4, <1>6 DEF slot, saved

\* What Unwrap does, for one who found what he puts back.
LEMMA UnwrapIs ==
  ASSUME NEW h \in HookRecord, NEW who, NEW names, names \subseteq Names(who),
         \A x \in names : h.saved[<<who, x>>] # "none"
  PROVE  LET g == Unwrap(h, who, names) IN
         /\ g \in HookRecord
         /\ g.config = h.config
         /\ \A x \in Slots : g.slot[x] = IF x \in names THEN h.saved[<<who, x>>] ELSE h.slot[x]
         /\ \A w \in Wraps :
              g.saved[w] = IF w[1] = who /\ w[2] \in names THEN "none" ELSE h.saved[w]
<1> DEFINE slot == [x \in Slots |-> IF x \in names THEN h.saved[<<who, x>>] ELSE h.slot[x]]
           saved == [w \in Wraps |-> IF w \in {who} \X names THEN "none" ELSE h.saved[w]]
<1>1. \A x \in names : <<who, x>> \in Wraps
  BY NamesAre
<1>2. slot \in [Slots -> Functions]
  BY <1>1 DEF HookRecord
<1>3. saved \in [Wraps -> Functions \union {"none"}]
  BY DEF HookRecord
<1>4. \A w \in Wraps : w \in {who} \X names <=> w[1] = who /\ w[2] \in names
  BY WrapsAre
<1>5. Unwrap(h, who, names) = [h EXCEPT !.slot = slot, !.saved = saved]
  BY DEF Unwrap
<1> HIDE DEF slot, saved
<1>6. /\ Unwrap(h, who, names) \in HookRecord
      /\ Unwrap(h, who, names).config = h.config
      /\ Unwrap(h, who, names).slot = slot
      /\ Unwrap(h, who, names).saved = saved
  BY <1>2, <1>3, <1>5 DEF HookRecord
<1> QED
  BY <1>4, <1>6 DEF slot, saved

\* The list is about one slot.
LEMMA LinkedSame ==
  ASSUME NEW h, NEW g, NEW x, NEW k, NEW n, NEW f, Linked(h, x, k, n, f), SameAt(h, g, x)
  PROVE  Linked(g, x, k, n, f)
<1>1. \A i \in 1 .. n - 1 : g.saved[<<f[i], x>>] = h.saved[<<f[i], x>>]
  BY DEF Linked, SameAt
<1>2. k \in Nat /\ \A i \in k + 1 .. n - 1 : i \in 1 .. n - 1
  BY DEF Linked
<1> QED
  BY <1>1, <1>2 DEF Linked, SameAt

\* Who wraps a function is called next, before the rest.
Inserted(f, n, k, who) ==
  [i \in 1 .. n + 1 |-> IF i <= k THEN f[i] ELSE IF i = k + 1 THEN who ELSE f[i - 1]]

LEMMA LinkedWrap ==
  ASSUME NEW h \in HookRecord, NEW x \in Slots, NEW k, NEW n, NEW f, Linked(h, x, k, n, f),
         NEW who, <<who, x>> \in Wraps, \A i \in 1 .. n : f[i] # who,
         who = "tuner" => \A i \in 1 .. n : f[i] # "mali",
         who = "mali" => k = 0,
         NEW g, g.slot[x] = who, g.saved[<<who, x>>] = h.slot[x],
         \A w \in Wraps : w[2] = x /\ w[1] # who => g.saved[w] = h.saved[w]
  PROVE  Linked(g, x, k, n + 1, Inserted(f, n, k, who))
<1> DEFINE e == Inserted(f, n, k, who)
<1>1. n \in Nat /\ k \in Nat /\ k < n /\ k + 1 \in 1 .. n
  BY DEF Linked
<1>2. /\ who \in Functions /\ Owner(who) = who /\ who # "server"
  BY WrapsAre, FunctionsAre
<1>3. e \in [1 .. n + 1 -> Functions]
  BY <1>1, <1>2 DEF Inserted, Linked
<1>4. /\ \A i \in 1 .. k : e[i] = f[i]
      /\ e[k + 1] = who
      /\ \A i \in k + 1 .. n : e[i + 1] = f[i]
  BY <1>1 DEF Inserted
<1>5. \A i \in 1 .. n + 1 : (i \in 1 .. k) \/ i = k + 1 \/ i - 1 \in k + 1 .. n
  BY <1>1
<1>6. \A i \in 1 .. n + 1 : \/ i \in 1 .. k /\ i \in 1 .. n /\ e[i] = f[i]
                            \/ i = k + 1 /\ e[i] = who
                            \/ i > k + 1 /\ i - 1 \in 1 .. n /\ e[i] = f[i - 1]
  BY <1>1 DEF Inserted
<1> HIDE DEF e
<1>7. \A i, j \in 1 .. n + 1 : e[i] = e[j] => i = j
  <2> SUFFICES ASSUME NEW i \in 1 .. n + 1, NEW j \in 1 .. n + 1, e[i] = e[j]
               PROVE  i = j
    OBVIOUS
  <2>1. \A a, b \in 1 .. n : f[a] = f[b] => a = b
    BY DEF Linked
  <2> QED
    BY <1>1, <1>6, <2>1
<1>8. \A i, j \in 1 .. n + 1 : e[i] = "tuner" /\ e[j] = "mali" => j < i
  <2> SUFFICES ASSUME NEW i \in 1 .. n + 1, NEW j \in 1 .. n + 1, e[i] = "tuner", e[j] = "mali"
               PROVE  j < i
    OBVIOUS
  <2>1. \A a, b \in 1 .. n : f[a] = "tuner" /\ f[b] = "mali" => b < a
    BY DEF Linked
  <2>2. who = "mali" => i > k + 1
    BY <1>1, <1>6
  <2> QED
    BY <1>1, <1>6, <2>1, <2>2
<1>9. \A i \in 1 .. n : <<e[i], x>> \in Wraps
  <2>1. \A i \in 1 .. n : i \in 1 .. n + 1 /\ (i > k + 1 => i - 1 \in 1 .. n - 1)
                          /\ (i \in 1 .. k => i \in 1 .. n - 1)
    BY <1>1
  <2> QED
    BY <1>6, <2>1 DEF Linked
<1>10. e[n + 1] = "server"
  BY <1>1, <1>4 DEF Linked
<1>11. \A i \in k + 1 .. n : Owner(g.saved[<<e[i], x>>]) = e[i + 1]
  <2> SUFFICES ASSUME NEW i \in k + 1 .. n
               PROVE  Owner(g.saved[<<e[i], x>>]) = e[i + 1]
    OBVIOUS
  <2>1. CASE i = k + 1
    BY <1>1, <1>4, <2>1 DEF Linked
  <2>2. CASE i # k + 1
    <3>1. i - 1 \in k + 1 .. n - 1 /\ i - 1 \in 1 .. n - 1 /\ (i - 1) + 1 = i
      BY <1>1, <2>2
    <3>4. i - 1 \in k + 1 .. n /\ i \in k + 1 .. n
      BY <1>1, <3>1
    <3>5. e[(i - 1) + 1] = f[i - 1] /\ e[i + 1] = f[i]
      BY <1>4, <3>4
    <3>2. Owner(h.saved[<<f[i - 1], x>>]) = f[i]
      BY <3>1 DEF Linked
    <3>3. <<f[i - 1], x>> \in Wraps /\ f[i - 1] # who
      BY <1>1, <3>1 DEF Linked
    <3> QED
      BY <3>1, <3>2, <3>3, <3>5
  <2> QED
    BY <2>1, <2>2
<1>12. n + 1 \in Nat /\ k \in 0 .. n /\ (n + 1) - 1 = n
  BY <1>1
<1> QED
  BY <1>2, <1>3, <1>4, <1>7, <1>8, <1>9, <1>10, <1>11, <1>12 DEF Linked, e

\* Who wraps a function is one of a few.
LEMMA NamesOf ==
  /\ \A who : "PointerMoved" \in Names(who) => who = "fbdev"
  /\ \A c : MaliNames(c) \subseteq Names("mali")
  /\ ScreenNames \subseteq Names("fbdev") /\ "BlockHandler" \in Names("fbdev")
  /\ "PointerMoved" \in Names("fbdev")
  /\ \A x \in CursorNames : \A who : x \in Names(who) => who = "mali"
<1>1. \A who, x : x \in Names(who) <=> <<who, x>> \in Wraps
  BY NamesAre
<1>2. "PointerMoved" \notin Called /\ \A x \in CursorNames : x \notin Called
  BY ScreenLifeAssumption DEF CallOn, CursorNames
<1>3. \A who : "PointerMoved" \in Names(who) => who = "fbdev"
  <2> SUFFICES ASSUME NEW who, <<who, "PointerMoved">> \in Wraps
               PROVE  who = "fbdev"
    BY <1>1
  <2> QED
    BY <1>2, WrapsList
<1>4. \A x \in CursorNames : \A who : x \in Names(who) => who = "mali"
  <2> SUFFICES ASSUME NEW x \in CursorNames, NEW who, <<who, x>> \in Wraps
               PROVE  who = "mali"
    BY <1>1
  <2> QED
    BY <1>2, WrapsList DEF CursorNames
<1>5. \A c : MaliNames(c) \subseteq Names("mali")
  BY <1>1, WrapsList DEF MaliNames, CursorNames
<1>6. /\ ScreenNames \subseteq Names("fbdev") /\ "BlockHandler" \in Names("fbdev")
      /\ "PointerMoved" \in Names("fbdev")
  BY <1>1, WrapsList DEF ScreenNames
<1> QED
  BY <1>3, <1>4, <1>5, <1>6

-----------------------------------------------------------------------------
(***************************************************************************)
(* What ScreenInit makes.                                                  *)
(***************************************************************************)
PointerMoved == <<"fbdev", "PointerMoved">>

\* What stays wrapped when a screen is closed.
Lasting == {PointerMoved, <<"fbdev", "BlockHandler">>, <<"crtc", "CreateScreenResources">>}

PointerKept(h) ==
  IF h.saved[PointerMoved] = "none" THEN h.slot["PointerMoved"] = "server"
  ELSE h.config.rotate /\ h.saved[PointerMoved] = "server" /\ h.slot["PointerMoved"] = "fbdev"

\* A screen that is closed, or was not initialised yet.
Unused(h) ==
  /\ h \in HookRecord
  /\ PointerKept(h)
  /\ \A w \in Wraps : h.saved[w] # "none" => w \in Lasting
  /\ \A x \in Slots \ {"BlockHandler", "PointerMoved"} : h.slot[x] \notin Driver

\* Those in the list are the ones in E.
Lists(E, x, n, f) == \A who : <<who, x>> \in E <=> \E i \in 1 .. n - 1 : f[i] = who

\* The functions in E are wrapped, and nobody is called.
Built(h, E) ==
  /\ h \in HookRecord
  /\ E \subseteq Wraps
  /\ \A x \in Slots : \E n, f : Linked(h, x, 0, n, f) /\ Lists(E, x, n, f)

\* Another one wraps some functions.
LEMMA BuiltWrap ==
  ASSUME NEW h, NEW E, Built(h, E), NEW who, NEW names, names \subseteq Names(who),
         \A x \in names : <<who, x>> \notin E,
         who = "tuner" => \A w \in E : w[1] # "mali",
         NEW g, g = Wrap(h, who, names), NEW D, D = E \union ({who} \X names)
  PROVE  /\ Built(g, D)
         /\ g.config = h.config
         /\ \A w \in Wraps \ ({who} \X names) : g.saved[w] = h.saved[w]
<1>1. /\ g \in HookRecord
      /\ g.config = h.config
      /\ \A x \in Slots : g.slot[x] = IF x \in names THEN who ELSE h.slot[x]
      /\ \A w \in Wraps :
           g.saved[w] = IF w[1] = who /\ w[2] \in names THEN h.slot[w[2]] ELSE h.saved[w]
  BY WrapIs DEF Built
<1>2. \A x \in names : <<who, x>> \in Wraps
  BY NamesAre
<1>3. \A w \in Wraps : w \in {who} \X names <=> w[1] = who /\ w[2] \in names
  BY WrapsAre
<1>4. D \subseteq Wraps
  BY <1>2 DEF Built
<1>5. \A v, x : <<v, x>> \in D <=> <<v, x>> \in E \/ (v = who /\ x \in names)
  <2> SUFFICES ASSUME NEW v, NEW x
               PROVE  <<v, x>> \in D <=> <<v, x>> \in E \/ (v = who /\ x \in names)
    OBVIOUS
  <2>1. <<v, x>> \in {who} \X names <=> v = who /\ x \in names
    OBVIOUS
  <2> QED
    BY <2>1
<1>6. ASSUME NEW x \in Slots
      PROVE  \E n, f : Linked(g, x, 0, n, f) /\ Lists(D, x, n, f)
  <2>1. PICK n, f : Linked(h, x, 0, n, f) /\ Lists(E, x, n, f)
    BY DEF Built
  <2>2. CASE x \notin names
    <3>1. SameAt(h, g, x)
      BY <1>1, <2>2 DEF SameAt
    <3>2. Linked(g, x, 0, n, f)
      BY <2>1, <3>1, LinkedSame
    <3>3. Lists(D, x, n, f)
      <4> SUFFICES ASSUME NEW v
                   PROVE  <<v, x>> \in D <=> \E i \in 1 .. n - 1 : f[i] = v
        BY DEF Lists
      <4> QED
        BY <1>5, <2>1, <2>2 DEF Lists
    <3> QED
      BY <3>2, <3>3
  <2>3. CASE x \in names
    <3> DEFINE e == Inserted(f, n, 0, who)
    <3>1. <<who, x>> \in Wraps /\ <<who, x>>[1] = who /\ <<who, x>>[2] = x
      BY <1>2, <2>3
    <3>2. n \in Nat /\ 0 < n /\ f[n] = "server"
      BY <2>1 DEF Linked
    <3>3. who # "server"
      BY <2>3, NamesAre
    <3>4. \A i \in 1 .. n : f[i] # who
      <4>1. \A i \in 1 .. n - 1 : f[i] # who
        BY <2>1, <2>3 DEF Lists
      <4> QED
        BY <3>2, <3>3, <4>1
    <3>5. who = "tuner" => \A i \in 1 .. n : f[i] # "mali"
      <4>1. who = "tuner" => <<"mali", x>> \notin E
        OBVIOUS
      <4>2. who = "tuner" => \A i \in 1 .. n - 1 : f[i] # "mali"
        BY <2>1, <4>1 DEF Lists
      <4> QED
        BY <3>2, <4>2
    <3>6. h \in HookRecord
      BY DEF Built
    <3>7. g.slot[x] = who /\ g.saved[<<who, x>>] = h.slot[x]
      BY <1>1, <2>3, <3>1
    <3>8. \A w \in Wraps : w[2] = x /\ w[1] # who => g.saved[w] = h.saved[w]
      BY <1>1
    <3>9. Linked(g, x, 0, n + 1, e)
      BY <2>1, <3>1, <3>4, <3>5, <3>6, <3>7, <3>8, LinkedWrap
    <3>10. Lists(D, x, n + 1, e)
      <4>1. /\ e[1] = who
            /\ \A i \in 1 .. n : i + 1 \in 1 .. n + 1 /\ e[i + 1] = f[i]
        BY <3>2 DEF Inserted
      <4> HIDE DEF e
      <4>2. \A i \in 1 .. (n + 1) - 1 : i = 1 \/ (i - 1 \in 1 .. n - 1 /\ i - 1 \in 1 .. n /\ (i - 1) + 1 = i)
        BY <3>2
      <4>3. \A i \in 1 .. (n + 1) - 1 : e[i] = who \/ \E j \in 1 .. n - 1 : e[i] = f[j]
        BY <4>1, <4>2
      <4>4. \A j \in 1 .. n - 1 : \E i \in 1 .. (n + 1) - 1 : e[i] = f[j]
        BY <3>2, <4>1
      <4>5. \E i \in 1 .. (n + 1) - 1 : e[i] = who
        BY <3>2, <4>1
      <4>6. ASSUME NEW v
            PROVE  <<v, x>> \in D <=> \E i \in 1 .. (n + 1) - 1 : e[i] = v
        <5>1. <<v, x>> \in D <=> v = who \/ \E j \in 1 .. n - 1 : f[j] = v
          BY <1>5, <2>1, <2>3 DEF Lists
        <5> QED
          BY ONLY <4>3, <4>4, <4>5, <5>1, Zenon
      <4> QED
        BY <4>6, Zenon DEF Lists
    <3> QED
      BY <3>9, <3>10
  <2> QED
    BY <2>2, <2>3
<1> QED
  BY <1>1, <1>3, <1>4, <1>6 DEF Built

\* The functions wrapped by ScreenInit.
Installs(c, mali) ==
  (IF c.rotate THEN {PointerMoved} ELSE {})
    \union (IF c.tuner THEN {"tuner"} \X Names("tuner") ELSE {})
    \union (IF c.g2d THEN {"g2d"} \X Names("g2d") ELSE {})
    \union ({"fbdev"} \X ScreenNames)
    \union ({"fbdev"} \X {"BlockHandler"})
    \union ({"crtc"} \X Names("crtc"))
    \union (IF c.xv THEN {"xv"} \X Names("xv") ELSE {})
    \union (IF c.exa THEN {"exa"} \X Names("exa") ELSE {})
    \union (IF mali THEN {"mali"} \X MaliNames(c) ELSE {})

\* Those in the list are the ones who keep what they found.
Complete(h, x, n, f) ==
  \A w \in Wraps : w[2] = x => (h.saved[w] # "none" <=> \E i \in 1 .. n - 1 : f[i] = w[1])

\* What the parts of the driver and the server have wrapped on a screen.
Wrapped(h, mali) ==
  /\ h \in HookRecord
  /\ PointerKept(h)
  /\ \A w \in Wraps : w[1] # "ext" => (h.saved[w] # "none" <=> w \in Installs(h.config, mali))

\* ScreenInit from screen h on has come to g, and has wrapped the functions in E.
Stage(h, g, E) ==
  /\ Built(g, E)
  /\ g.config = h.config
  /\ PointerKept(g)
  /\ \A w \in Wraps \ E : g.saved[w] = h.saved[w]

LEMMA StageWrap ==
  ASSUME NEW h, NEW g, NEW E, Stage(h, g, E), NEW yes \in BOOLEAN,
         NEW who, NEW names, names \subseteq Names(who), "PointerMoved" \notin names,
         \A x \in names : <<who, x>> \notin E,
         who = "tuner" => \A w \in E : w[1] # "mali",
         NEW k, k = IF yes THEN Wrap(g, who, names) ELSE g,
         NEW D, D = E \union (IF yes THEN {who} \X names ELSE {})
  PROVE  Stage(h, k, D) /\ (yes => \A x \in names : k.slot[x] = who)
<1>1. CASE ~yes
  BY <1>1
<1>2. CASE yes
  <2>1. /\ Built(k, D)
        /\ k.config = g.config
        /\ \A w \in Wraps \ ({who} \X names) : k.saved[w] = g.saved[w]
    <3>1. Built(g, E) /\ k = Wrap(g, who, names) /\ D = E \union ({who} \X names)
      BY <1>2 DEF Stage
    <3> QED
      BY <3>1, BuiltWrap
  <2>2. \A x \in Slots : k.slot[x] = IF x \in names THEN who ELSE g.slot[x]
    BY <1>2, WrapIs DEF Stage, Built
  <2>3. PointerMoved \in Wraps /\ "PointerMoved" \in Slots /\ PointerMoved \notin {who} \X names
    BY NamesAre, NamesOf DEF PointerMoved
  <2>4. PointerKept(k)
    BY <2>1, <2>2, <2>3 DEF PointerKept, Stage
  <2>5. Stage(h, k, D)
    BY <1>2, <2>1, <2>4 DEF Stage
  <2>6. \A x \in names : x \in Slots
    BY NamesAre
  <2> QED
    BY <2>2, <2>5, <2>6
<1> QED
  BY <1>1, <1>2

\* A new ScreenRec, in which only PointerMoved may be wrapped.
LEMMA FreshStage ==
  ASSUME NEW h, Unused(h)
  PROVE  /\ Stage(h, Fresh(h), IF h.saved[PointerMoved] = "none" THEN {} ELSE {PointerMoved})
         /\ Fresh(h).saved = h.saved
<1> DEFINE g == Fresh(h)
           E == IF h.saved[PointerMoved] = "none" THEN {} ELSE {PointerMoved}
           slot == [x \in Slots |-> IF x = "PointerMoved" THEN h.slot[x] ELSE "server"]
<1>1. "server" \in Functions /\ "fbdev" \in Functions /\ PointerMoved \in Wraps /\ "PointerMoved" \in Slots
      /\ "tuner" # "server" /\ "mali" # "server"
  BY DEF Functions, Wraps, PointerMoved, Slots
<1>2. slot \in [Slots -> Functions]
  BY <1>1 DEF Unused, HookRecord
<1>3. Fresh(h) = [h EXCEPT !.slot = slot]
  BY DEF Fresh
<1> HIDE DEF slot
<1>4. g \in HookRecord /\ g.config = h.config /\ g.saved = h.saved /\ g.slot = slot
  BY <1>2, <1>3 DEF Unused, HookRecord
<1>5. /\ g.slot["PointerMoved"] = h.slot["PointerMoved"]
      /\ \A x \in Slots \ {"PointerMoved"} : g.slot[x] = "server"
  BY <1>1, <1>4 DEF slot
<1> HIDE DEF g
<1>6. PointerKept(g)
  BY <1>4, <1>5 DEF Unused, PointerKept
<1>7. ASSUME NEW x \in Slots
      PROVE  \E n, f : Linked(g, x, 0, n, f) /\ Lists(E, x, n, f)
  <2>1. CASE g.slot[x] = "server" /\ <<"fbdev", x>> \notin E
    <3> DEFINE f == [i \in 1 .. 1 |-> "server"]
    <3>1. f \in [1 .. 1 -> Functions] /\ f[1] = "server"
      BY <1>1
    <3>2. Owner("server") = "server"
      BY DEF Owner
    <3> HIDE DEF f
    <3>3. Linked(g, x, 0, 1, f)
      BY <1>1, <2>1, <3>1, <3>2 DEF Linked
    <3>4. Lists(E, x, 1, f)
      BY <2>1 DEF Lists, PointerMoved
    <3> QED
      BY <3>3, <3>4
  <2>2. CASE x = "PointerMoved" /\ E # {}
    <3> DEFINE f == [i \in 1 .. 2 |-> IF i = 1 THEN "fbdev" ELSE "server"]
    <3>1. f \in [1 .. 2 -> Functions] /\ f[1] = "fbdev" /\ f[2] = "server"
      BY <1>1
    <3>2. Owner("server") = "server" /\ Owner("fbdev") = "fbdev" /\ "fbdev" # "server" /\ "fbdev" # "tuner"
      BY DEF Owner
    <3> HIDE DEF f
    <3>3. g.slot[x] = "fbdev" /\ g.saved[<<"fbdev", x>>] = "server" /\ E = {<<"fbdev", x>>}
      BY <1>4, <1>6, <2>2 DEF PointerKept, PointerMoved
    <3>4. /\ \A i \in 1 .. 2 - 1 : i = 1
          /\ \A i \in 1 .. 2 : i = 1 \/ i = 2
          /\ 1 \in 1 .. 2 - 1
      OBVIOUS
    <3>5. <<"fbdev", x>> \in Wraps
      BY <1>1, <2>2 DEF PointerMoved
    <3>6. Linked(g, x, 0, 2, f)
      BY <1>1, <3>1, <3>2, <3>3, <3>4, <3>5 DEF Linked
    <3>7. Lists(E, x, 2, f)
      BY <3>1, <3>3, <3>4 DEF Lists
    <3> QED
      BY <3>6, <3>7
  <2>3. CASE x = "PointerMoved" /\ E = {}
    BY <1>4, <1>6, <2>1, <2>3 DEF PointerKept
  <2>4. CASE x # "PointerMoved"
    BY <1>5, <2>1, <2>4 DEF PointerMoved
  <2> QED
    BY <2>2, <2>3, <2>4
<1>8. Built(g, E)
  BY <1>1, <1>4, <1>7 DEF Built
<1> QED
  BY <1>4, <1>6, <1>8 DEF Stage, g

\* A change of the screen that leaves the owners of its functions.
LEMMA StageSame ==
  ASSUME NEW h, NEW g, NEW E, Stage(h, g, E), NEW k \in HookRecord,
         k.config = g.config, k.saved = g.saved,
         \A x \in Slots : Owner(k.slot[x]) = Owner(g.slot[x]),
         k.slot["PointerMoved"] = g.slot["PointerMoved"]
  PROVE  Stage(h, k, E)
<1>1. \A x \in Slots : SameAt(g, k, x)
  BY DEF SameAt
<1>2. ASSUME NEW x \in Slots
      PROVE  \E n, f : Linked(k, x, 0, n, f) /\ Lists(E, x, n, f)
  <2>1. PICK n, f : Linked(g, x, 0, n, f) /\ Lists(E, x, n, f)
    BY DEF Stage, Built
  <2>2. Linked(k, x, 0, n, f)
    BY <1>1, <2>1, LinkedSame
  <2> QED
    BY <2>1, <2>2
<1>3. PointerKept(k)
  BY DEF Stage, PointerKept
<1> QED
  BY <1>2, <1>3 DEF Stage, Built

\* FBDevBlockHandler_oneshot is one of the driver's, too.
LEMMA OneshotStage ==
  ASSUME NEW h, NEW g, NEW E, Stage(h, g, E), g.slot["BlockHandler"] = "fbdev"
  PROVE  Stage(h, [g EXCEPT !.slot["BlockHandler"] = "oneshot"], E)
<1> DEFINE slot == [g.slot EXCEPT !["BlockHandler"] = "oneshot"]
           k == [g EXCEPT !.slot = slot]
<1>1. "BlockHandler" \in Slots
  BY NamesAre, NamesOf
<1>2. g \in HookRecord
  BY DEF Stage, Built
<1>3. slot \in [Slots -> Functions]
  BY <1>2, FunctionsAre DEF HookRecord
<1>4. /\ slot["BlockHandler"] = "oneshot"
      /\ \A x \in Slots \ {"BlockHandler"} : slot[x] = g.slot[x]
  BY <1>1, <1>2 DEF HookRecord
<1>5. [g EXCEPT !.slot["BlockHandler"] = "oneshot"] = k
  OBVIOUS
<1> HIDE DEF slot
<1>6. k \in HookRecord /\ k.config = g.config /\ k.saved = g.saved /\ k.slot = slot
  BY <1>2, <1>3 DEF HookRecord
<1> HIDE DEF k
<1>7. \A x \in Slots : Owner(k.slot[x]) = Owner(g.slot[x])
  BY <1>4, <1>6 DEF Owner
<1>8. k.slot["PointerMoved"] = g.slot["PointerMoved"]
  <2>1. "PointerMoved" \in Slots
    BY NamesAre, NamesOf
  <2> QED
    BY <1>4, <1>6, <2>1
<1>9. Stage(h, k, E)
  BY <1>6, <1>7, <1>8, StageSame
<1> QED
  BY <1>5, <1>9

\* Nobody has wrapped a function of the cursor so far.
LEMMA CursorStage ==
  ASSUME NEW h, NEW g, NEW E, Stage(h, g, E), \A w \in E : w[2] \notin CursorNames
  PROVE  Stage(h, CursorInit(g), E)
<1> DEFINE slot == [x \in Slots |-> IF x \in CursorNames THEN "server" ELSE g.slot[x]]
           k == CursorInit(g)
<1>1. g \in HookRecord
  BY DEF Stage, Built
<1>2. slot \in [Slots -> Functions]
  BY <1>1, FunctionsAre DEF HookRecord
<1>3. k = [g EXCEPT !.slot = slot]
  BY DEF CursorInit
<1> HIDE DEF slot
<1>4. k \in HookRecord /\ k.config = g.config /\ k.saved = g.saved /\ k.slot = slot
  BY <1>1, <1>2, <1>3 DEF HookRecord
<1>5. ASSUME NEW x \in Slots, x \in CursorNames
      PROVE  Owner(g.slot[x]) = "server"
  <2>1. PICK n, f : Linked(g, x, 0, n, f) /\ Lists(E, x, n, f)
    BY DEF Stage, Built
  <2>2. \A who : <<who, x>> \notin E
    <3> SUFFICES ASSUME NEW who, <<who, x>> \in E
                 PROVE  FALSE
      OBVIOUS
    <3>1. <<who, x>>[2] \notin CursorNames
      OBVIOUS
    <3> QED
      BY <1>5, <3>1
  <2>3. \A i \in 1 .. n - 1 : FALSE
    BY <2>1, <2>2 DEF Lists
  <2>4. n \in Nat /\ 0 \in 0 .. n - 1
    BY <2>1 DEF Linked
  <2>5. n = 1
    BY <2>3, <2>4
  <2> QED
    BY <2>1, <2>5 DEF Linked
<1>6. \A x \in Slots : Owner(slot[x]) = Owner(g.slot[x])
  <2>1. Owner("server") = "server"
    BY DEF Owner
  <2> QED
    BY <1>5, <2>1 DEF slot
<1>7. slot["PointerMoved"] = g.slot["PointerMoved"]
  <2>1. "PointerMoved" \in Slots
    BY NamesAre, NamesOf
  <2> QED
    BY <2>1 DEF slot, CursorNames
<1> QED
  BY <1>4, <1>6, <1>7, StageSame

\* PointerMoved is wrapped now or was in an earlier generation.
LEMMA PointerStage ==
  ASSUME NEW h, Unused(h)
  PROVE  Stage(h, IF h.config.rotate THEN PointerWrapped(Fresh(h)) ELSE Fresh(h),
               IF h.config.rotate THEN {PointerMoved} ELSE {})
<1> DEFINE g == Fresh(h)
<1>1. /\ Stage(h, g, IF h.saved[PointerMoved] = "none" THEN {} ELSE {PointerMoved})
      /\ g.saved = h.saved
  BY FreshStage
<1>2. g \in HookRecord /\ g.config = h.config
  BY <1>1 DEF Stage, Built
<1> HIDE DEF g
<1>3. CASE h.saved[PointerMoved] # "none"
  <2>1. h.config.rotate
    BY <1>3 DEF Unused, PointerKept
  <2>2. PointerWrapped(g) = g
    BY <1>1, <1>3 DEF PointerWrapped, PointerMoved
  <2> QED
    BY <1>1, <1>3, <2>1, <2>2 DEF g
<1>4. CASE h.saved[PointerMoved] = "none" /\ ~h.config.rotate
  BY <1>1, <1>4 DEF g
<1>5. CASE h.saved[PointerMoved] = "none" /\ h.config.rotate
  <2> DEFINE k == Wrap(g, "fbdev", {"PointerMoved"})
  <2>1. PointerWrapped(g) = k
    BY <1>1, <1>5 DEF PointerWrapped, PointerMoved
  <2>2. {"PointerMoved"} \subseteq Names("fbdev") /\ Built(g, {})
    BY <1>1, <1>5, NamesOf DEF Stage
  <2>3. /\ Built(k, {} \union ({"fbdev"} \X {"PointerMoved"}))
        /\ k.config = g.config
        /\ \A w \in Wraps \ ({"fbdev"} \X {"PointerMoved"}) : k.saved[w] = g.saved[w]
    <3> DEFINE E == {}
               names == {"PointerMoved"}
               who == "fbdev"
    <3>1. /\ Built(g, E) /\ names \subseteq Names(who) /\ \A x \in names : <<who, x>> \notin E
          /\ who = "tuner" => \A w \in E : w[1] # "mali"
          /\ k = Wrap(g, who, names)
      BY <2>2
    <3> HIDE DEF E, k, names, who
    <3>2. /\ Built(k, E \union ({who} \X names))
          /\ k.config = g.config
          /\ \A w \in Wraps \ ({who} \X names) : k.saved[w] = g.saved[w]
      BY <3>1, BuiltWrap
    <3> QED
      BY <3>2 DEF E, names, who
  <2>4. {} \union ({"fbdev"} \X {"PointerMoved"}) = {PointerMoved}
    BY DEF PointerMoved
  <2>5. PointerKept(k)
    <3>1. /\ \A x \in Slots : k.slot[x] = IF x \in {"PointerMoved"} THEN "fbdev" ELSE g.slot[x]
          /\ \A w \in Wraps : k.saved[w] = IF w[1] = "fbdev" /\ w[2] \in {"PointerMoved"}
                                           THEN g.slot[w[2]] ELSE g.saved[w]
      BY <1>2, <2>2, WrapIs
    <3>2. "PointerMoved" \in Slots /\ PointerMoved \in Wraps
          /\ PointerMoved[1] = "fbdev" /\ PointerMoved[2] = "PointerMoved"
      BY NamesAre, NamesOf DEF PointerMoved
    <3>3. g.slot["PointerMoved"] = "server"
      BY <1>1, <1>5 DEF Stage, PointerKept
    <3> HIDE DEF k
    <3>4. k.saved[PointerMoved] = "server" /\ k.slot["PointerMoved"] = "fbdev" /\ k.config.rotate
      BY <1>2, <1>5, <2>3, <3>1, <3>2, <3>3
    <3> QED
      BY <3>4 DEF PointerKept
  <2>6. Stage(h, k, {PointerMoved})
    BY <1>1, <1>2, <2>3, <2>4, <2>5 DEF Stage, PointerMoved
  <2> QED
    BY <1>5, <2>1, <2>6 DEF g
<1> QED
  BY <1>3, <1>4, <1>5

\* The parts of the driver and the server have wrapped their functions, and each is
\* reached by a call.
Whole(h, mali) ==
  /\ Wrapped(h, mali)
  /\ \A x \in Slots : \E n, f : Linked(h, x, 0, n, f) /\ Complete(h, x, n, f)

\* The pipeline of ScreenInit, one stage for each who wraps functions.
LEMMA InitialisedStage ==
  ASSUME NEW h, Unused(h), NEW mali \in BOOLEAN
  PROVE  Stage(h, Initialised(h, mali), Installs(h.config, mali))
<1> DEFINE c == h.config
           g1 == IF c.rotate THEN PointerWrapped(Fresh(h)) ELSE Fresh(h)
           g2 == IF c.tuner THEN Wrap(g1, "tuner", Names("tuner")) ELSE g1
           g3 == IF c.g2d THEN Wrap(g2, "g2d", Names("g2d")) ELSE g2
           g4 == Wrap(g3, "fbdev", ScreenNames)
           g5 == Wrap(g4, "fbdev", {"BlockHandler"})
           g6 == [g5 EXCEPT !.slot["BlockHandler"] = "oneshot"]
           g7 == Wrap(g6, "crtc", Names("crtc"))
           g8 == IF c.xv THEN Wrap(g7, "xv", Names("xv")) ELSE g7
           g9 == CursorInit(g8)
           g10 == IF c.exa THEN Wrap(g9, "exa", Names("exa")) ELSE g9
           g11 == IF mali THEN Wrap(g10, "mali", MaliNames(c)) ELSE g10
           E1 == IF c.rotate THEN {PointerMoved} ELSE {}
           E2 == E1 \union (IF c.tuner THEN {"tuner"} \X Names("tuner") ELSE {})
           E3 == E2 \union (IF c.g2d THEN {"g2d"} \X Names("g2d") ELSE {})
           E4 == E3 \union ({"fbdev"} \X ScreenNames)
           E5 == E4 \union ({"fbdev"} \X {"BlockHandler"})
           E7 == E5 \union ({"crtc"} \X Names("crtc"))
           E8 == E7 \union (IF c.xv THEN {"xv"} \X Names("xv") ELSE {})
           E10 == E8 \union (IF c.exa THEN {"exa"} \X Names("exa") ELSE {})
           E11 == E10 \union (IF mali THEN {"mali"} \X MaliNames(c) ELSE {})
<1>1. h.config \in Configurations
  BY DEF Unused, HookRecord
<1>2. /\ c.rotate \in BOOLEAN /\ c.tuner \in BOOLEAN /\ c.g2d \in BOOLEAN
      /\ c.xv \in BOOLEAN /\ c.exa \in BOOLEAN
  BY <1>1 DEF Configurations
<1>3. Stage(h, g1, E1)
  BY PointerStage
<1>4. \A w \in E1 : w[1] = "fbdev" /\ w[2] = "PointerMoved"
  BY DEF PointerMoved

<1> HIDE DEF g1, E1
<1>5. Stage(h, g2, E2)
  <2> DEFINE who == "tuner"
             names == Names("tuner")
             yes == c.tuner
  <2>1. yes \in BOOLEAN /\ names \subseteq Names(who) /\ "PointerMoved" \notin names
    BY <1>2, NamesOf
  <2>2. \A x \in names : <<who, x>> \notin E1
    <3> SUFFICES ASSUME NEW x \in names, <<who, x>> \in E1
                 PROVE  FALSE
      OBVIOUS
    <3>1. <<who, x>>[1] = who /\ <<who, x>>[2] = x
      OBVIOUS
    <3> QED
      BY <1>4, <2>1, <3>1
  <2>3. who = "tuner" => \A w \in E1 : w[1] # "mali"
    BY <1>4
  <2> DEFINE k == IF yes THEN Wrap(g1, who, names) ELSE g1
             D == E1 \union (IF yes THEN {who} \X names ELSE {})
  <2>4. k = g2 /\ D = E2
    BY DEF who, names, yes
  <2> HIDE DEF who, names, yes
  <2>5. Stage(h, k, D) /\ (yes => \A x \in names : k.slot[x] = who)
    BY <1>3, <2>1, <2>2, <2>3, StageWrap
  <2> QED
    BY <2>4, <2>5 DEF who, names, k
<1>6. \A w \in E2 : w[1] \in {"fbdev", "tuner"} /\ (w[1] = "fbdev" => w[2] = "PointerMoved")
  BY <1>4
<1> HIDE DEF g2, E2
<1>7. Stage(h, g3, E3)
  <2> DEFINE who == "g2d"
             names == Names("g2d")
             yes == c.g2d
  <2>1. yes \in BOOLEAN /\ names \subseteq Names(who) /\ "PointerMoved" \notin names
    BY <1>2, NamesOf
  <2>2. \A x \in names : <<who, x>> \notin E2
    <3> SUFFICES ASSUME NEW x \in names, <<who, x>> \in E2
                 PROVE  FALSE
      OBVIOUS
    <3>1. <<who, x>>[1] = who /\ <<who, x>>[2] = x
      OBVIOUS
    <3> QED
      BY <1>6, <2>1, <3>1
  <2>3. who = "tuner" => \A w \in E2 : w[1] # "mali"
    BY <1>6
  <2> DEFINE k == IF yes THEN Wrap(g2, who, names) ELSE g2
             D == E2 \union (IF yes THEN {who} \X names ELSE {})
  <2>4. k = g3 /\ D = E3
    BY DEF who, names, yes
  <2> HIDE DEF who, names, yes
  <2>5. Stage(h, k, D) /\ (yes => \A x \in names : k.slot[x] = who)
    BY <1>5, <2>1, <2>2, <2>3, StageWrap
  <2> QED
    BY <2>4, <2>5 DEF who, names, k
<1>8. \A w \in E3 : w[1] \in {"fbdev", "tuner", "g2d"} /\ (w[1] = "fbdev" => w[2] = "PointerMoved")
  BY <1>6
<1> HIDE DEF g3, E3
<1>9. Stage(h, g4, E4)
  <2> DEFINE who == "fbdev"
             names == ScreenNames
             yes == TRUE
  <2>1. yes \in BOOLEAN /\ names \subseteq Names(who) /\ "PointerMoved" \notin names
    BY <1>2, NamesOf DEF ScreenNames
  <2>2. \A x \in names : <<who, x>> \notin E3
    <3> SUFFICES ASSUME NEW x \in names, <<who, x>> \in E3
                 PROVE  FALSE
      OBVIOUS
    <3>1. <<who, x>>[1] = who /\ <<who, x>>[2] = x
      OBVIOUS
    <3> QED
      BY <1>8, <2>1, <3>1 DEF ScreenNames
  <2>3. who = "tuner" => \A w \in E3 : w[1] # "mali"
    BY <1>8
  <2> DEFINE k == IF yes THEN Wrap(g3, who, names) ELSE g3
             D == E3 \union (IF yes THEN {who} \X names ELSE {})
  <2>4. k = g4 /\ D = E4
    BY DEF who, names, yes
  <2> HIDE DEF who, names, yes
  <2>5. Stage(h, k, D) /\ (yes => \A x \in names : k.slot[x] = who)
    BY <1>7, <2>1, <2>2, <2>3, StageWrap
  <2> QED
    BY <2>4, <2>5 DEF who, names, k
<1>10. \A w \in E4 : w[1] \in {"fbdev", "tuner", "g2d"} /\ (w[1] = "fbdev" => w[2] \in {"PointerMoved"} \union ScreenNames)
  BY <1>8
<1> HIDE DEF g4, E4
<1>11. Stage(h, g5, E5) /\ g5.slot["BlockHandler"] = "fbdev"
  <2> DEFINE who == "fbdev"
             names == {"BlockHandler"}
             yes == TRUE
  <2>1. yes \in BOOLEAN /\ names \subseteq Names(who) /\ "PointerMoved" \notin names
    BY <1>2, NamesOf
  <2>2. \A x \in names : <<who, x>> \notin E4
    <3> SUFFICES ASSUME NEW x \in names, <<who, x>> \in E4
                 PROVE  FALSE
      OBVIOUS
    <3>1. <<who, x>>[1] = who /\ <<who, x>>[2] = x
      OBVIOUS
    <3> QED
      BY <1>10, <2>1, <3>1 DEF ScreenNames
  <2>3. who = "tuner" => \A w \in E4 : w[1] # "mali"
    BY <1>10
  <2> DEFINE k == IF yes THEN Wrap(g4, who, names) ELSE g4
             D == E4 \union (IF yes THEN {who} \X names ELSE {})
  <2>4. k = g5 /\ D = E5
    BY DEF who, names, yes
  <2> HIDE DEF who, names, yes
  <2>5. Stage(h, k, D) /\ (yes => \A x \in names : k.slot[x] = who)
    BY <1>9, <2>1, <2>2, <2>3, StageWrap
  <2> QED
    BY <2>4, <2>5 DEF who, names, yes
<1>12. \A w \in E5 : w[1] \in {"fbdev", "tuner", "g2d"}
  BY <1>10
<1> HIDE DEF g5, E5
<1>13. Stage(h, g6, E5)
  BY <1>11, <1>11, OneshotStage
<1> HIDE DEF g6
<1>14. Stage(h, g7, E7)
  <2> DEFINE who == "crtc"
             names == Names("crtc")
             yes == TRUE
  <2>1. yes \in BOOLEAN /\ names \subseteq Names(who) /\ "PointerMoved" \notin names
    BY <1>2, NamesOf
  <2>2. \A x \in names : <<who, x>> \notin E5
    <3> SUFFICES ASSUME NEW x \in names, <<who, x>> \in E5
                 PROVE  FALSE
      OBVIOUS
    <3>1. <<who, x>>[1] = who /\ <<who, x>>[2] = x
      OBVIOUS
    <3> QED
      BY <1>12, <2>1, <3>1
  <2>3. who = "tuner" => \A w \in E5 : w[1] # "mali"
    BY <1>12
  <2> DEFINE k == IF yes THEN Wrap(g6, who, names) ELSE g6
             D == E5 \union (IF yes THEN {who} \X names ELSE {})
  <2>4. k = g7 /\ D = E7
    BY DEF who, names, yes
  <2> HIDE DEF who, names, yes
  <2>5. Stage(h, k, D) /\ (yes => \A x \in names : k.slot[x] = who)
    BY <1>13, <2>1, <2>2, <2>3, StageWrap
  <2> QED
    BY <2>4, <2>5 DEF who, names, k
<1>15. \A w \in E7 : w[1] \in {"fbdev", "tuner", "g2d", "crtc"}
  BY <1>12
<1> HIDE DEF g7, E7
<1>16. Stage(h, g8, E8)
  <2> DEFINE who == "xv"
             names == Names("xv")
             yes == c.xv
  <2>1. yes \in BOOLEAN /\ names \subseteq Names(who) /\ "PointerMoved" \notin names
    BY <1>2, NamesOf
  <2>2. \A x \in names : <<who, x>> \notin E7
    <3> SUFFICES ASSUME NEW x \in names, <<who, x>> \in E7
                 PROVE  FALSE
      OBVIOUS
    <3>1. <<who, x>>[1] = who /\ <<who, x>>[2] = x
      OBVIOUS
    <3> QED
      BY <1>15, <2>1, <3>1
  <2>3. who = "tuner" => \A w \in E7 : w[1] # "mali"
    BY <1>15
  <2> DEFINE k == IF yes THEN Wrap(g7, who, names) ELSE g7
             D == E7 \union (IF yes THEN {who} \X names ELSE {})
  <2>4. k = g8 /\ D = E8
    BY DEF who, names, yes
  <2> HIDE DEF who, names, yes
  <2>5. Stage(h, k, D) /\ (yes => \A x \in names : k.slot[x] = who)
    BY <1>14, <2>1, <2>2, <2>3, StageWrap
  <2> QED
    BY <2>4, <2>5 DEF who, names, k
<1>17. \A w \in E8 : w[1] \in {"fbdev", "tuner", "g2d", "crtc", "xv"}
  BY <1>15
<1> HIDE DEF g8, E8
<1>18. Stage(h, g9, E8)
  <2>1. \A w \in E8 : w \in Wraps /\ w[1] # "mali"
    BY <1>16, <1>17 DEF Stage, Built
  <2>2. \A w \in E8 : w[2] \in Names(w[1])
    BY <2>1, WrapsAre, NamesAre
  <2>3. \A w \in E8 : w[2] \notin CursorNames
    BY <2>1, <2>2, NamesOf
  <2> QED
    BY <1>16, <2>3, CursorStage
<1> HIDE DEF g9
<1>19. Stage(h, g10, E10)
  <2> DEFINE who == "exa"
             names == Names("exa")
             yes == c.exa
  <2>1. yes \in BOOLEAN /\ names \subseteq Names(who) /\ "PointerMoved" \notin names
    BY <1>2, NamesOf
  <2>2. \A x \in names : <<who, x>> \notin E8
    <3> SUFFICES ASSUME NEW x \in names, <<who, x>> \in E8
                 PROVE  FALSE
      OBVIOUS
    <3>1. <<who, x>>[1] = who /\ <<who, x>>[2] = x
      OBVIOUS
    <3> QED
      BY <1>17, <2>1, <3>1
  <2>3. who = "tuner" => \A w \in E8 : w[1] # "mali"
    BY <1>17
  <2> DEFINE k == IF yes THEN Wrap(g9, who, names) ELSE g9
             D == E8 \union (IF yes THEN {who} \X names ELSE {})
  <2>4. k = g10 /\ D = E10
    BY DEF who, names, yes
  <2> HIDE DEF who, names, yes
  <2>5. Stage(h, k, D) /\ (yes => \A x \in names : k.slot[x] = who)
    BY <1>18, <2>1, <2>2, <2>3, StageWrap
  <2> QED
    BY <2>4, <2>5 DEF who, names, k
<1>20. \A w \in E10 : w[1] \in {"fbdev", "tuner", "g2d", "crtc", "xv", "exa"}
  BY <1>17
<1> HIDE DEF g10, E10
<1>21. Stage(h, g11, E11)
  <2> DEFINE who == "mali"
             names == MaliNames(c)
             yes == mali
  <2>1. yes \in BOOLEAN /\ names \subseteq Names(who) /\ "PointerMoved" \notin names
    BY <1>2, NamesOf DEF MaliNames, CursorNames
  <2>2. \A x \in names : <<who, x>> \notin E10
    <3> SUFFICES ASSUME NEW x \in names, <<who, x>> \in E10
                 PROVE  FALSE
      OBVIOUS
    <3>1. <<who, x>>[1] = who /\ <<who, x>>[2] = x
      OBVIOUS
    <3> QED
      BY <1>20, <2>1, <3>1
  <2>3. who = "tuner" => \A w \in E10 : w[1] # "mali"
    BY <1>20
  <2> DEFINE k == IF yes THEN Wrap(g10, who, names) ELSE g10
             D == E10 \union (IF yes THEN {who} \X names ELSE {})
  <2>4. k = g11 /\ D = E11
    BY DEF who, names, yes
  <2> HIDE DEF who, names, yes
  <2>5. Stage(h, k, D) /\ (yes => \A x \in names : k.slot[x] = who)
    BY <1>19, <2>1, <2>2, <2>3, StageWrap
  <2> QED
    BY <2>4, <2>5 DEF who, names, k
<1> HIDE DEF g11, E11
<1>22. Initialised(h, mali) = g11
  <2>1. /\ g7.config = c /\ g9.config = c /\ g10.config = c
    BY <1>14, <1>18, <1>19 DEF Stage
  <2>2. /\ g2 = IF c.tuner THEN TunerInit(g1) ELSE g1
        /\ g3 = IF c.g2d THEN G2DInit(g2) ELSE g2
        /\ g6 = BlockHandlerWrapped(Wrap(g3, "fbdev", ScreenNames))
        /\ g8 = XvInit(CrtcInit(g6))
        /\ g10 = ExaInit(CursorInit(g8))
        /\ g11 = IF mali THEN MaliInit(g10) ELSE g10
    BY <2>1 DEF g2, g3, g4, g5, g6, g7, g8, g9, g10, g11, TunerInit, G2DInit, BlockHandlerWrapped,
                CrtcInit, XvInit, ExaInit, MaliInit
  <2> QED
    BY <2>2 DEF Initialised, g1
<1>23. Installs(h.config, mali) = E11
  BY DEF Installs, E1, E2, E3, E4, E5, E7, E8, E10, E11
<1> QED
  BY <1>21, <1>22, <1>23

LEMMA InstallsList ==
  ASSUME NEW c, NEW mali, NEW who, NEW x
  PROVE  <<who, x>> \in Installs(c, mali) <=>
           \/ c.rotate /\ who = "fbdev" /\ x = "PointerMoved"
           \/ c.tuner /\ who = "tuner" /\ x \in Names("tuner")
           \/ c.g2d /\ who = "g2d" /\ x \in Names("g2d")
           \/ who = "fbdev" /\ x \in ScreenNames
           \/ who = "fbdev" /\ x = "BlockHandler"
           \/ who = "crtc" /\ x \in Names("crtc")
           \/ c.xv /\ who = "xv" /\ x \in Names("xv")
           \/ c.exa /\ who = "exa" /\ x \in Names("exa")
           \/ mali /\ who = "mali" /\ x \in MaliNames(c)
<1>1. \A a, A : <<who, x>> \in {a} \X A <=> who = a /\ x \in A
  OBVIOUS
<1>2. \A yes, A : <<who, x>> \in (IF yes THEN A ELSE {}) <=> yes /\ <<who, x>> \in A
  OBVIOUS
<1>3. <<who, x>> = PointerMoved <=> who = "fbdev" /\ x = "PointerMoved"
  BY DEF PointerMoved
<1>4. x \in {"BlockHandler"} <=> x = "BlockHandler"
  OBVIOUS
<1>5. <<who, x>> \in {PointerMoved} <=> <<who, x>> = PointerMoved
  OBVIOUS
<1> QED
  BY <1>1, <1>2, <1>3, <1>4, <1>5, Zenon DEF Installs

\* ScreenInit makes a whole screen.
LEMMA InitialisedIs ==
  ASSUME NEW h, Unused(h), NEW mali \in BOOLEAN
  PROVE  Whole(Initialised(h, mali), mali) /\ Initialised(h, mali).config = h.config
<1> DEFINE g == Initialised(h, mali)
           E == Installs(h.config, mali)
<1>1. Stage(h, g, E)
  BY InitialisedStage
<1> HIDE DEF g
<1>2. /\ \A w \in Wraps : w[1] # "ext" => w = <<w[1], w[2]>>
      /\ \A w \in E : w \in Wraps
      /\ \A x : <<"ext", x>> \notin E
      /\ <<"fbdev", "BlockHandler">> \in E
      /\ <<"crtc", "CreateScreenResources">> \in E
      /\ PointerMoved \in E <=> h.config.rotate
  <2>1. "CreateScreenResources" \in Names("crtc")
    BY WrapsList, NamesAre
  <2>2. "PointerMoved" \notin ScreenNames
    BY DEF ScreenNames
  <2> QED
    BY <1>1, <2>1, <2>2, InstallsList, WrapsAre DEF Stage, Built, PointerMoved
<1> HIDE DEF E
<1>3. \A w \in Wraps \ E : g.saved[w] = "none"
  <2> SUFFICES ASSUME NEW w \in Wraps \ E, h.saved[w] # "none"
               PROVE  FALSE
    BY <1>1 DEF Stage
  <2>1. w = PointerMoved
    BY <1>2 DEF Unused, Lasting
  <2> QED
    BY <1>2, <2>1 DEF Unused, PointerKept
<1>4. ASSUME NEW x \in Slots
      PROVE  /\ \E n, f : Linked(g, x, 0, n, f) /\ Complete(g, x, n, f)
             /\ \A w \in E : w[2] = x => g.saved[w] # "none"
  <2>1. PICK n, f : Linked(g, x, 0, n, f) /\ Lists(E, x, n, f)
    BY <1>1 DEF Stage, Built
  <2>2. ASSUME NEW w \in E, w[2] = x
        PROVE  g.saved[w] # "none" /\ \E i \in 1 .. n - 1 : f[i] = w[1]
    <3>1. w = <<w[1], x>>
      BY <1>2, <2>2, WrapsAre
    <3>2. PICK i \in 1 .. n - 1 : f[i] = w[1]
      BY <2>1, <3>1 DEF Lists
    <3>3. n \in Nat /\ i \in 0 + 1 .. n - 1 /\ i + 1 \in 1 .. n
      BY <2>1 DEF Linked
    <3>4. Owner(g.saved[w]) = f[i + 1] /\ f[i + 1] \in Functions
      BY <2>1, <3>1, <3>2, <3>3 DEF Linked
    <3>5. Owner("none") \notin Functions
      BY FunctionsAre DEF Owner
    <3> QED
      BY <3>2, <3>4, <3>5
  <2>3. ASSUME NEW w \in Wraps \ E, w[2] = x
        PROVE  \A i \in 1 .. n - 1 : f[i] # w[1]
    <3>1. w = <<w[1], x>>
      BY <2>3, WrapsAre
    <3> QED
      BY <2>1, <3>1 DEF Lists
  <2>4. Complete(g, x, n, f)
    BY <1>3, <2>2, <2>3 DEF Complete
  <2> QED
    BY <2>1, <2>2, <2>4
<1>5. \A w \in Wraps : g.saved[w] # "none" <=> w \in E
  BY <1>3, <1>4, WrapsAre
<1>6. Wrapped(g, mali)
  BY <1>1, <1>5 DEF Wrapped, Stage, Built, E
<1> QED
  BY <1>1, <1>4, <1>6 DEF Whole, Stage, g

-----------------------------------------------------------------------------
(***************************************************************************)
(* What CloseScreen leaves.                                                *)
(***************************************************************************)
NeverPutBack == {"BlockHandler", "PointerMoved"}

\* What is called after a function of the driver is not a function of the driver, but
\* that FBTurboMaliDRI2 calls the tuner.
LEMMA NextOfDriver ==
  ASSUME NEW h, NEW mali, Whole(h, mali), NEW w \in Wraps, h.saved[w] # "none", w[2] \notin NeverPutBack,
         NEW o, o = Owner(h.saved[w]), o \in Driver
  PROVE  /\ <<o, w[2]>> \in Wraps /\ h.saved[<<o, w[2]>>] # "none"
         /\ o # w[1]
         /\ w[1] \in Driver => w[1] = "mali" /\ o = "tuner" 
<1> DEFINE x == w[2]
<1>1. w = <<w[1], x>> /\ x \in Slots
  BY WrapsAre
<1> HIDE DEF x
<1>2. PICK n, f : Linked(h, x, 0, n, f) /\ Complete(h, x, n, f)
  BY <1>1 DEF Whole
<1>3. PICK i \in 1 .. n - 1 : f[i] = w[1]
  BY <1>1, <1>2 DEF Complete, x
<1>4. n \in Nat /\ i \in 0 + 1 .. n - 1 /\ i \in 1 .. n /\ i + 1 \in 1 .. n /\ (i + 1 = n \/ i + 1 \in 1 .. n - 1)
  BY <1>2 DEF Linked
<1>5. o = f[i + 1]
  BY <1>1, <1>2, <1>3, <1>4 DEF Linked
<1>6. "server" \notin Driver
  BY DEF Driver
<1>7. i + 1 \in 1 .. n - 1
  BY <1>2, <1>4, <1>5, <1>6 DEF Linked
<1>8. <<o, x>> \in Wraps
  BY <1>2, <1>5, <1>7 DEF Linked
<1>9. <<o, x>>[1] = o /\ <<o, x>>[2] = x
  OBVIOUS
<1>10. h.saved[<<o, x>>] # "none"
  BY <1>2, <1>5, <1>7, <1>8, <1>9 DEF Complete
<1>11. o # w[1]
  <2>1. i # i + 1
    BY <1>4
  <2> QED
    BY <1>2, <1>3, <1>4, <1>5, <2>1 DEF Linked
<1>12. ~(w[1] = "tuner" /\ o = "mali")
  <2>1. ~(i + 1 < i)
    BY <1>4
  <2> QED
    BY <1>2, <1>3, <1>4, <1>5, <2>1 DEF Linked
<1>13. w[1] \in Driver => w[1] = "mali" /\ o = "tuner"
  <2>1. x \notin NeverPutBack
    BY DEF x
  <2>2. <<w[1], x>> \in Wraps
    BY <1>1
  <2> QED
    BY <1>8, <1>11, <1>12, <2>1, <2>2, WrapsList DEF Driver, NeverPutBack
<1> QED
  BY <1>8, <1>10, <1>11, <1>13 DEF x

\* Those who are in the screen have found something.
LEMMA FirstOfScreen ==
  ASSUME NEW h, NEW mali, Whole(h, mali), NEW x \in Slots,
         NEW o, o = Owner(h.slot[x]), o \in Driver
  PROVE  <<o, x>> \in Wraps /\ h.saved[<<o, x>>] # "none"
<1>1. PICK n, f : Linked(h, x, 0, n, f) /\ Complete(h, x, n, f)
  BY DEF Whole
<1>2. n \in Nat /\ 0 + 1 = 1 /\ (n = 1 \/ 1 \in 1 .. n - 1)
  BY <1>1 DEF Linked
<1>3. o = f[1] /\ "server" \notin Driver
  BY <1>1, <1>2 DEF Linked, Driver
<1>4. 1 \in 1 .. n - 1
  BY <1>1, <1>2, <1>3 DEF Linked
<1>5. <<o, x>> \in Wraps /\ <<o, x>>[1] = o /\ <<o, x>>[2] = x
  BY <1>1, <1>3, <1>4 DEF Linked
<1> QED
  BY <1>1, <1>3, <1>4, <1>5 DEF Complete

\* CloseScreen of screen h has come to g, and those in E have put back what they
\* found: a function of the driver in the screen still has to be put back.
Closing(h, g, E) ==
  /\ g \in HookRecord
  /\ g.config = h.config
  /\ g.slot["PointerMoved"] = h.slot["PointerMoved"]
  /\ \A w \in Wraps : g.saved[w] = IF w \in E THEN "none" ELSE h.saved[w]
  /\ \A x \in Slots \ NeverPutBack :
       LET o == Owner(g.slot[x])
       IN o \in Driver => <<o, x>> \in Wraps \ E /\ h.saved[<<o, x>>] # "none"

LEMMA ClosingBegins ==
  ASSUME NEW h, NEW mali, Whole(h, mali)
  PROVE  Closing(h, h, {})
BY FirstOfScreen DEF Closing, Whole, Wrapped

LEMMA ClosingUnwrap ==
  ASSUME NEW h, NEW mali, Whole(h, mali), NEW g, NEW E, Closing(h, g, E), NEW yes \in BOOLEAN,
         NEW who, NEW names, names \subseteq Names(who), "PointerMoved" \notin names,
         yes => \A x \in names : h.saved[<<who, x>>] # "none" /\ <<who, x>> \notin E,
         who \notin Driver => \A w \in E : w[1] \notin Driver,
         who = "mali" => \A w \in E : w[1] # "tuner",
         NEW k, k = IF yes THEN Unwrap(g, who, names) ELSE g,
         NEW D, D = E \union (IF yes THEN {who} \X names ELSE {})
  PROVE  Closing(h, k, D)
<1>1. CASE ~yes
  BY <1>1
<1>2. CASE yes
  <2>1. \A x \in names : <<who, x>> \in Wraps /\ x \in Slots /\ <<who, x>>[1] = who /\ <<who, x>>[2] = x
    BY NamesAre
  <2>2. \A x \in names : g.saved[<<who, x>>] = h.saved[<<who, x>>] /\ h.saved[<<who, x>>] # "none"
    BY <1>2, <2>1 DEF Closing
  <2>3. /\ k \in HookRecord
        /\ k.config = g.config
        /\ \A x \in Slots : k.slot[x] = IF x \in names THEN g.saved[<<who, x>>] ELSE g.slot[x]
        /\ \A w \in Wraps :
             k.saved[w] = IF w[1] = who /\ w[2] \in names THEN "none" ELSE g.saved[w]
    BY <1>2, <2>2, UnwrapIs DEF Closing
  <2>4. k.slot["PointerMoved"] = g.slot["PointerMoved"]
    BY <2>3, NamesOf, NamesAre
  <2>5. \A w \in Wraps : w \in {who} \X names <=> w[1] = who /\ w[2] \in names
    BY WrapsAre
  <2>6. \A w \in Wraps : k.saved[w] = IF w \in D THEN "none" ELSE h.saved[w]
    BY <1>2, <2>3, <2>5 DEF Closing
  <2>7. ASSUME NEW x \in Slots \ NeverPutBack, NEW o, o = Owner(k.slot[x]), o \in Driver
        PROVE  <<o, x>> \in Wraps \ D /\ h.saved[<<o, x>>] # "none"
    <3>1. <<o, x>> \in {who} \X names <=> o = who /\ x \in names
      OBVIOUS
    <3>2. CASE x \notin names
      BY <1>2, <2>3, <2>7, <3>1, <3>2 DEF Closing
    <3>3. CASE x \in names
      <4>1. o = Owner(h.saved[<<who, x>>])
        BY <2>2, <2>3, <2>7, <3>3
      <4> DEFINE w == <<who, x>>
      <4>2. w \in Wraps /\ h.saved[w] # "none" /\ w[2] \notin NeverPutBack /\ o = Owner(h.saved[w])
            /\ w[1] = who /\ w[2] = x
        BY <2>1, <2>2, <2>7, <3>3, <4>1
      <4> HIDE DEF w
      <4>3. /\ <<o, w[2]>> \in Wraps /\ h.saved[<<o, w[2]>>] # "none"
            /\ o # w[1]
            /\ w[1] \in Driver => w[1] = "mali" /\ o = "tuner"
        BY <2>7, <4>2, NextOfDriver
      <4>4. <<o, x>>[1] = o
        OBVIOUS
      <4>5. <<o, x>> \notin E
        BY <2>7, <4>2, <4>3, <4>4
      <4> QED
        BY <1>2, <3>1, <4>2, <4>3, <4>5
    <3> QED
      BY <3>2, <3>3
  <2> QED
    BY <2>3, <2>4, <2>6, <2>7 DEF Closing
<1> QED
  BY <1>1, <1>2

\* CloseScreen puts back all of a whole screen but the lasting functions.
LEMMA ClosedIs ==
  ASSUME NEW h, NEW mali \in BOOLEAN, Whole(h, mali)
  PROVE  Unused(Closed(h, mali)) /\ Closed(h, mali).config = h.config
<1> DEFINE c == h.config
           g0 == h
           g1 == Unwrap(g0, "ext", {x \in Called : h.saved[<<"ext", x>>] # "none"})
           g2 == IF c.exa THEN Unwrap(g1, "exa", Names("exa")) ELSE g1
           g3 == IF c.xv THEN Unwrap(g2, "xv", Names("xv")) ELSE g2
           g4 == Unwrap(g3, "crtc", {"CloseScreen"})
           g5 == IF mali THEN Unwrap(g4, "mali", MaliNames(c)) ELSE g4
           g6 == IF c.g2d THEN Unwrap(g5, "g2d", Names("g2d")) ELSE g5
           g7 == IF c.tuner THEN Unwrap(g6, "tuner", Names("tuner")) ELSE g6
           g8 == Unwrap(g7, "fbdev", ScreenNames)
           E0 == {}
           E1 == E0 \union ({"ext"} \X {x \in Called : h.saved[<<"ext", x>>] # "none"})
           E2 == E1 \union (IF c.exa THEN {"exa"} \X Names("exa") ELSE {})
           E3 == E2 \union (IF c.xv THEN {"xv"} \X Names("xv") ELSE {})
           E4 == E3 \union ({"crtc"} \X {"CloseScreen"})
           E5 == E4 \union (IF mali THEN {"mali"} \X MaliNames(c) ELSE {})
           E6 == E5 \union (IF c.g2d THEN {"g2d"} \X Names("g2d") ELSE {})
           E7 == E6 \union (IF c.tuner THEN {"tuner"} \X Names("tuner") ELSE {})
           E8 == E7 \union ({"fbdev"} \X ScreenNames)
<1>1. h \in HookRecord /\ c \in Configurations
  BY DEF Whole, Wrapped, HookRecord
<1>2. /\ c.rotate \in BOOLEAN /\ c.tuner \in BOOLEAN /\ c.g2d \in BOOLEAN
      /\ c.xv \in BOOLEAN /\ c.exa \in BOOLEAN
  BY <1>1 DEF Configurations
<1>3. \A who, x : <<who, x>> \in Wraps /\ who # "ext" =>
        (h.saved[<<who, x>>] # "none" <=> <<who, x>> \in Installs(c, mali))
  <2> SUFFICES ASSUME NEW who, NEW x, <<who, x>> \in Wraps, who # "ext"
               PROVE  h.saved[<<who, x>>] # "none" <=> <<who, x>> \in Installs(c, mali)
    OBVIOUS
  <2>1. <<who, x>>[1] = who
    OBVIOUS
  <2> QED
    BY <2>1 DEF Whole, Wrapped
<1>4. Closing(h, g0, E0)
  BY ClosingBegins
<1>5. \A w \in E0 : w[1] \in {}
  OBVIOUS
<1> HIDE DEF g0, E0
<1>6. Closing(h, g1, E1)
  <2> DEFINE who == "ext"
             names == {x \in Called : h.saved[<<"ext", x>>] # "none"}
             yes == TRUE
             k == IF yes THEN Unwrap(g0, who, names) ELSE g0
             D == E0 \union (IF yes THEN {who} \X names ELSE {})
  <2>1. /\ yes \in BOOLEAN /\ names \subseteq Names(who) /\ "PointerMoved" \notin names
        /\ who \notin Driver => \A w \in E0 : w[1] \notin Driver
        /\ who = "mali" => \A w \in E0 : w[1] # "tuner"
    <3>1. \A x \in names : x \in Names(who)
      BY WrapsList, NamesAre
    <3> QED
      BY <1>5, <3>1, NamesOf DEF Driver
  <2>2. yes => \A x \in names : h.saved[<<who, x>>] # "none" /\ <<who, x>> \notin E0
    <3> SUFFICES ASSUME yes, NEW x \in names
                 PROVE  h.saved[<<who, x>>] # "none" /\ <<who, x>> \notin E0
      OBVIOUS
    <3>1. <<who, x>>[1] = who /\ <<who, x>> \in Wraps
      BY <2>1, NamesAre
    <3>2. <<who, x>> \notin E0
      BY <1>5, <3>1
    <3> QED
      BY <3>2
  <2>3. k = g1 /\ D = E1
    BY DEF who, names, yes
  <2> HIDE DEF who, names, yes
  <2>4. Closing(h, k, D)
    BY <1>4, <2>1, <2>2, ClosingUnwrap
  <2> QED
    BY <2>3, <2>4
<1>7. \A w \in E1 : w[1] \in {"ext"}
  BY <1>5
<1> HIDE DEF g1, E1
<1>8. Closing(h, g2, E2)
  <2> DEFINE who == "exa"
             names == Names("exa")
             yes == c.exa
             k == IF yes THEN Unwrap(g1, who, names) ELSE g1
             D == E1 \union (IF yes THEN {who} \X names ELSE {})
  <2>1. /\ yes \in BOOLEAN /\ names \subseteq Names(who) /\ "PointerMoved" \notin names
        /\ who \notin Driver => \A w \in E1 : w[1] \notin Driver
        /\ who = "mali" => \A w \in E1 : w[1] # "tuner"
    BY <1>2, <1>7, NamesOf DEF Driver
  <2>2. yes => \A x \in names : h.saved[<<who, x>>] # "none" /\ <<who, x>> \notin E1
    <3> SUFFICES ASSUME yes, NEW x \in names
                 PROVE  h.saved[<<who, x>>] # "none" /\ <<who, x>> \notin E1
      OBVIOUS
    <3>1. <<who, x>>[1] = who /\ <<who, x>> \in Wraps
      BY <2>1, NamesAre
    <3>2. <<who, x>> \notin E1
      BY <1>7, <3>1
    <3>3. <<who, x>> \in Installs(c, mali)
      BY <3>1, NamesAre, InstallsList
    <3> QED
      BY <1>3, <3>1, <3>2, <3>3
  <2>3. k = g2 /\ D = E2
    BY DEF who, names, yes
  <2> HIDE DEF who, names, yes
  <2>4. Closing(h, k, D)
    BY <1>6, <2>1, <2>2, ClosingUnwrap
  <2> QED
    BY <2>3, <2>4
<1>9. \A w \in E2 : w[1] \in {"ext", "exa"}
  BY <1>7
<1> HIDE DEF g2, E2
<1>10. Closing(h, g3, E3)
  <2> DEFINE who == "xv"
             names == Names("xv")
             yes == c.xv
             k == IF yes THEN Unwrap(g2, who, names) ELSE g2
             D == E2 \union (IF yes THEN {who} \X names ELSE {})
  <2>1. /\ yes \in BOOLEAN /\ names \subseteq Names(who) /\ "PointerMoved" \notin names
        /\ who \notin Driver => \A w \in E2 : w[1] \notin Driver
        /\ who = "mali" => \A w \in E2 : w[1] # "tuner"
    BY <1>2, <1>9, NamesOf DEF Driver
  <2>2. yes => \A x \in names : h.saved[<<who, x>>] # "none" /\ <<who, x>> \notin E2
    <3> SUFFICES ASSUME yes, NEW x \in names
                 PROVE  h.saved[<<who, x>>] # "none" /\ <<who, x>> \notin E2
      OBVIOUS
    <3>1. <<who, x>>[1] = who /\ <<who, x>> \in Wraps
      BY <2>1, NamesAre
    <3>2. <<who, x>> \notin E2
      BY <1>9, <3>1
    <3>3. <<who, x>> \in Installs(c, mali)
      BY <3>1, NamesAre, InstallsList
    <3> QED
      BY <1>3, <3>1, <3>2, <3>3
  <2>3. k = g3 /\ D = E3
    BY DEF who, names, yes
  <2> HIDE DEF who, names, yes
  <2>4. Closing(h, k, D)
    BY <1>8, <2>1, <2>2, ClosingUnwrap
  <2> QED
    BY <2>3, <2>4
<1>11. \A w \in E3 : w[1] \in {"ext", "exa", "xv"}
  BY <1>9
<1> HIDE DEF g3, E3
<1>12. Closing(h, g4, E4)
  <2> DEFINE who == "crtc"
             names == {"CloseScreen"}
             yes == TRUE
             k == IF yes THEN Unwrap(g3, who, names) ELSE g3
             D == E3 \union (IF yes THEN {who} \X names ELSE {})
  <2>1. /\ yes \in BOOLEAN /\ names \subseteq Names(who) /\ "PointerMoved" \notin names
        /\ who \notin Driver => \A w \in E3 : w[1] \notin Driver
        /\ who = "mali" => \A w \in E3 : w[1] # "tuner"
    <3>1. \A x \in names : x \in Names(who)
      BY WrapsList, NamesAre
    <3> QED
      BY <1>11, <3>1, NamesOf DEF Driver
  <2>2. yes => \A x \in names : h.saved[<<who, x>>] # "none" /\ <<who, x>> \notin E3
    <3> SUFFICES ASSUME yes, NEW x \in names
                 PROVE  h.saved[<<who, x>>] # "none" /\ <<who, x>> \notin E3
      OBVIOUS
    <3>1. <<who, x>>[1] = who /\ <<who, x>> \in Wraps
      BY <2>1, NamesAre
    <3>2. <<who, x>> \notin E3
      BY <1>11, <3>1
    <3>3. <<who, x>> \in Installs(c, mali)
      BY <3>1, NamesAre, InstallsList
    <3> QED
      BY <1>3, <3>1, <3>2, <3>3
  <2>3. k = g4 /\ D = E4
    BY DEF who, names, yes
  <2> HIDE DEF who, names, yes
  <2>4. Closing(h, k, D)
    BY <1>10, <2>1, <2>2, ClosingUnwrap
  <2> QED
    BY <2>3, <2>4
<1>13. \A w \in E4 : w[1] \in {"ext", "exa", "xv", "crtc"}
  BY <1>11
<1> HIDE DEF g4, E4
<1>14. Closing(h, g5, E5)
  <2> DEFINE who == "mali"
             names == MaliNames(c)
             yes == mali
             k == IF yes THEN Unwrap(g4, who, names) ELSE g4
             D == E4 \union (IF yes THEN {who} \X names ELSE {})
  <2>1. /\ yes \in BOOLEAN /\ names \subseteq Names(who) /\ "PointerMoved" \notin names
        /\ who \notin Driver => \A w \in E4 : w[1] \notin Driver
        /\ who = "mali" => \A w \in E4 : w[1] # "tuner"
    BY <1>2, <1>13, NamesOf DEF Driver, MaliNames, CursorNames
  <2>2. yes => \A x \in names : h.saved[<<who, x>>] # "none" /\ <<who, x>> \notin E4
    <3> SUFFICES ASSUME yes, NEW x \in names
                 PROVE  h.saved[<<who, x>>] # "none" /\ <<who, x>> \notin E4
      OBVIOUS
    <3>1. <<who, x>>[1] = who /\ <<who, x>> \in Wraps
      BY <2>1, NamesAre
    <3>2. <<who, x>> \notin E4
      BY <1>13, <3>1
    <3>3. <<who, x>> \in Installs(c, mali)
      BY <3>1, NamesAre, InstallsList
    <3> QED
      BY <1>3, <3>1, <3>2, <3>3
  <2>3. k = g5 /\ D = E5
    BY DEF who, names, yes
  <2> HIDE DEF who, names, yes
  <2>4. Closing(h, k, D)
    BY <1>12, <2>1, <2>2, ClosingUnwrap
  <2> QED
    BY <2>3, <2>4
<1>15. \A w \in E5 : w[1] \in {"ext", "exa", "xv", "crtc", "mali"}
  BY <1>13
<1> HIDE DEF g5, E5
<1>16. Closing(h, g6, E6)
  <2> DEFINE who == "g2d"
             names == Names("g2d")
             yes == c.g2d
             k == IF yes THEN Unwrap(g5, who, names) ELSE g5
             D == E5 \union (IF yes THEN {who} \X names ELSE {})
  <2>1. /\ yes \in BOOLEAN /\ names \subseteq Names(who) /\ "PointerMoved" \notin names
        /\ who \notin Driver => \A w \in E5 : w[1] \notin Driver
        /\ who = "mali" => \A w \in E5 : w[1] # "tuner"
    BY <1>2, <1>15, NamesOf DEF Driver
  <2>2. yes => \A x \in names : h.saved[<<who, x>>] # "none" /\ <<who, x>> \notin E5
    <3> SUFFICES ASSUME yes, NEW x \in names
                 PROVE  h.saved[<<who, x>>] # "none" /\ <<who, x>> \notin E5
      OBVIOUS
    <3>1. <<who, x>>[1] = who /\ <<who, x>> \in Wraps
      BY <2>1, NamesAre
    <3>2. <<who, x>> \notin E5
      BY <1>15, <3>1
    <3>3. <<who, x>> \in Installs(c, mali)
      BY <3>1, NamesAre, InstallsList
    <3> QED
      BY <1>3, <3>1, <3>2, <3>3
  <2>3. k = g6 /\ D = E6
    BY DEF who, names, yes
  <2> HIDE DEF who, names, yes
  <2>4. Closing(h, k, D)
    BY <1>14, <2>1, <2>2, ClosingUnwrap
  <2> QED
    BY <2>3, <2>4
<1>17. \A w \in E6 : w[1] \in {"ext", "exa", "xv", "crtc", "mali", "g2d"}
  BY <1>15
<1> HIDE DEF g6, E6
<1>18. Closing(h, g7, E7)
  <2> DEFINE who == "tuner"
             names == Names("tuner")
             yes == c.tuner
             k == IF yes THEN Unwrap(g6, who, names) ELSE g6
             D == E6 \union (IF yes THEN {who} \X names ELSE {})
  <2>1. /\ yes \in BOOLEAN /\ names \subseteq Names(who) /\ "PointerMoved" \notin names
        /\ who \notin Driver => \A w \in E6 : w[1] \notin Driver
        /\ who = "mali" => \A w \in E6 : w[1] # "tuner"
    BY <1>2, <1>17, NamesOf DEF Driver
  <2>2. yes => \A x \in names : h.saved[<<who, x>>] # "none" /\ <<who, x>> \notin E6
    <3> SUFFICES ASSUME yes, NEW x \in names
                 PROVE  h.saved[<<who, x>>] # "none" /\ <<who, x>> \notin E6
      OBVIOUS
    <3>1. <<who, x>>[1] = who /\ <<who, x>> \in Wraps
      BY <2>1, NamesAre
    <3>2. <<who, x>> \notin E6
      BY <1>17, <3>1
    <3>3. <<who, x>> \in Installs(c, mali)
      BY <3>1, NamesAre, InstallsList
    <3> QED
      BY <1>3, <3>1, <3>2, <3>3
  <2>3. k = g7 /\ D = E7
    BY DEF who, names, yes
  <2> HIDE DEF who, names, yes
  <2>4. Closing(h, k, D)
    BY <1>16, <2>1, <2>2, ClosingUnwrap
  <2> QED
    BY <2>3, <2>4
<1>19. \A w \in E7 : w[1] \in {"ext", "exa", "xv", "crtc", "mali", "g2d", "tuner"}
  BY <1>17
<1> HIDE DEF g7, E7
<1>20. Closing(h, g8, E8)
  <2> DEFINE who == "fbdev"
             names == ScreenNames
             yes == TRUE
             k == IF yes THEN Unwrap(g7, who, names) ELSE g7
             D == E7 \union (IF yes THEN {who} \X names ELSE {})
  <2>1. /\ yes \in BOOLEAN /\ names \subseteq Names(who) /\ "PointerMoved" \notin names
        /\ who \notin Driver => \A w \in E7 : w[1] \notin Driver
        /\ who = "mali" => \A w \in E7 : w[1] # "tuner"
    BY <1>2, <1>19, NamesOf DEF Driver, ScreenNames
  <2>2. yes => \A x \in names : h.saved[<<who, x>>] # "none" /\ <<who, x>> \notin E7
    <3> SUFFICES ASSUME yes, NEW x \in names
                 PROVE  h.saved[<<who, x>>] # "none" /\ <<who, x>> \notin E7
      OBVIOUS
    <3>1. <<who, x>>[1] = who /\ <<who, x>> \in Wraps
      BY <2>1, NamesAre
    <3>2. <<who, x>> \notin E7
      BY <1>19, <3>1
    <3>3. <<who, x>> \in Installs(c, mali)
      BY <3>1, NamesAre, InstallsList
    <3> QED
      BY <1>3, <3>1, <3>2, <3>3
  <2>3. k = g8 /\ D = E8
    BY DEF who, names, yes
  <2> HIDE DEF who, names, yes
  <2>4. Closing(h, k, D)
    BY <1>18, <2>1, <2>2, ClosingUnwrap
  <2> QED
    BY <2>3, <2>4
<1>21. \A w \in E8 : w[1] \in {"ext", "exa", "xv", "crtc", "mali", "g2d", "tuner", "fbdev"}
  BY <1>19
<1> HIDE DEF g8, E8
<1>22. Closed(h, mali) = g8
  <2>1. h.config = c /\ g1.config = c /\ g3.config = c /\ g4.config = c
    BY <1>6, <1>10, <1>12 DEF Closing
  <2> QED
    BY <2>1 DEF Closed, DriverClosed, MaliClosed, g0, g1, g2, g3, g4, g5, g6, g7, g8
\* Whatever was wrapped has been put back.
<1>23. ASSUME NEW who, NEW x, <<who, x>> \in Wraps \ E8, h.saved[<<who, x>>] # "none"
      PROVE  <<who, x>> \in Lasting
  <2>1. /\ \A a, A : <<who, x>> \in {a} \X A <=> who = a /\ x \in A
        /\ x \in Slots
    BY <1>23, WrapsAre
  <2>2. who # "ext"
    <3>1. who = "ext" => x \in Called
      BY <1>23, WrapsList
    <3>2. who = "ext" => <<who, x>> \in E1
      BY <1>23, <2>1, <3>1 DEF E1
    <3> QED
      BY <1>23, <3>2 DEF E2, E3, E4, E5, E6, E7, E8
  <2>3. <<who, x>> \in Installs(c, mali)
    BY <1>3, <1>23, <2>2
  <2>4. x \in Names("crtc") => x \in {"CreateScreenResources", "CloseScreen"}
    <3> SUFFICES ASSUME <<"crtc", x>> \in Wraps
                 PROVE  x \in {"CreateScreenResources", "CloseScreen"}
      BY NamesAre
    <3> QED
      BY WrapsList
  <2>5. \/ <<who, x>> = PointerMoved
        \/ who = "fbdev" /\ x = "BlockHandler"
        \/ who = "crtc" /\ x = "CreateScreenResources"
    <3>1. /\ c.tuner /\ who = "tuner" => x \notin Names("tuner")
          /\ c.g2d /\ who = "g2d" => x \notin Names("g2d")
          /\ who = "fbdev" => x \notin ScreenNames
          /\ who = "crtc" => x # "CloseScreen"
          /\ c.xv /\ who = "xv" => x \notin Names("xv")
          /\ c.exa /\ who = "exa" => x \notin Names("exa")
          /\ mali /\ who = "mali" => x \notin MaliNames(c)
      BY <1>23, <2>1 DEF E1, E2, E3, E4, E5, E6, E7, E8
    <3> QED
      BY <2>3, <2>4, <3>1, InstallsList DEF PointerMoved
  <2> QED
    BY <2>5 DEF Lasting
<1>24. PointerKept(g8)
  <2>1. PointerMoved \in Wraps
    BY NamesOf, NamesAre DEF PointerMoved
  <2>2. PointerMoved \notin E8
    <3>1. PointerMoved \notin {"fbdev"} \X ScreenNames
      BY DEF PointerMoved, ScreenNames
    <3>2. PointerMoved \notin E7
      BY <1>19 DEF PointerMoved
    <3> QED
      BY <3>1, <3>2 DEF E8
  <2> QED
    BY <1>20, <2>1, <2>2 DEF Closing, PointerKept, Whole, Wrapped
<1>25. \A w \in Wraps : g8.saved[w] # "none" => w \in Lasting
  <2> SUFFICES ASSUME NEW w \in Wraps, g8.saved[w] # "none"
               PROVE  w \in Lasting
    OBVIOUS
  <2>1. w = <<w[1], w[2]>> /\ w \notin E8 /\ h.saved[w] # "none"
    BY <1>20, WrapsAre DEF Closing
  <2> QED
    BY <1>23, <2>1
<1>26. ASSUME NEW x \in Slots \ {"BlockHandler", "PointerMoved"}, g8.slot[x] \in Driver
      PROVE  FALSE
  <2> DEFINE o == Owner(g8.slot[x])
  <2>1. o \in Driver
    BY <1>26 DEF Owner, Driver
  <2>2. <<o, x>> \in Wraps \ E8 /\ h.saved[<<o, x>>] # "none"
    BY <1>20, <2>1 DEF Closing, NeverPutBack
  <2>3. <<o, x>> \in Lasting
    BY <1>23, <2>2
  <2> QED
    BY <2>1, <2>3 DEF Lasting, PointerMoved, Driver
<1> QED
  BY <1>20, <1>22, <1>24, <1>25, <1>26 DEF Unused, Closing

-----------------------------------------------------------------------------
(***************************************************************************)
(* A call in progress.                                                     *)
(***************************************************************************)
Frames == [screen : Screens, function : Functions, slot : Slots, called : BOOLEAN]

\* Whoever is called is called through the same function of the same screen.
StackIs(st) ==
  /\ st \in Seq(Frames)
  /\ \A i \in 1 .. Len(st) :
       st[i].screen = st[1].screen /\ st[i].slot = st[1].slot /\ st[i].slot \in Called

\* How many are in the middle of a call of slot x of screen s.
Depth(st, s, x) ==
  IF st # <<>> /\ st[1].screen = s /\ st[1].slot = x THEN Len(st) ELSE 0

\* The functions of screen s, the record h, called as the stack says.
Chain(h, st, s, x) ==
  \E n, f : /\ Linked(h, x, Depth(st, s, x), n, f)
            /\ Complete(h, x, n, f)
            /\ \A i \in 1 .. Depth(st, s, x) : st[i].function = f[i]

InUse(h, mali, st, s) ==
  /\ Wrapped(h, mali)
  /\ \A x \in Slots : Chain(h, st, s, x)

\* Nobody is called: the screen is as ScreenInit made it, but for extensions.
LEMMA InUseWhole ==
  ASSUME NEW h, NEW mali, NEW s
  PROVE  Whole(h, mali) <=> InUse(h, mali, <<>>, s)
<1>1. \A x : Depth(<<>>, s, x) = 0
  BY DEF Depth
<1>2. \A x : Chain(h, <<>>, s, x) <=> \E n, f : Linked(h, x, 0, n, f) /\ Complete(h, x, n, f)
  <2> SUFFICES ASSUME NEW x
               PROVE  Chain(h, <<>>, s, x) <=> \E n, f : Linked(h, x, 0, n, f) /\ Complete(h, x, n, f)
    OBVIOUS
  <2>1. \A f : \A i \in 1 .. 0 : <<>>[i].function = f[i]
    OBVIOUS
  <2> QED
    BY <1>1, <2>1 DEF Chain
<1> QED
  BY <1>2 DEF Whole, InUse

\* A step at slot x: nobody but who, who may come or go, is wrapped or put back.
ChangedAt(h, g, x, who) ==
  /\ g \in HookRecord
  /\ g.config = h.config
  /\ \A y \in Slots \ {x} : g.slot[y] = h.slot[y]
  /\ \A w \in Wraps : w[2] # x => g.saved[w] = h.saved[w]
  /\ \A w \in Wraps : w[1] # who => (g.saved[w] # "none" <=> h.saved[w] # "none")

LEMMA InUseStep ==
  ASSUME NEW h, NEW mali, NEW st, NEW s, InUse(h, mali, st, s),
         NEW x \in Called, NEW g, ChangedAt(h, g, x, "ext"), NEW st2,
         \/ st2 = st
         \/ \A y \in Slots \ {x} : Depth(st, s, y) = 0 /\ Depth(st2, s, y) = 0,
         Chain(g, st2, s, x)
  PROVE  InUse(g, mali, st2, s)
<1>1. /\ g \in HookRecord /\ g.config = h.config
      /\ \A y \in Slots \ {x} : g.slot[y] = h.slot[y]
      /\ \A w \in Wraps : w[2] # x => g.saved[w] = h.saved[w]
      /\ \A w \in Wraps : w[1] # "ext" => (g.saved[w] # "none" <=> h.saved[w] # "none")
  BY DEF ChangedAt
<1>2. PointerMoved \in Wraps /\ PointerMoved[2] # x /\ "PointerMoved" \in Slots \ {x}
  <2>1. PointerMoved \in Wraps /\ PointerMoved[2] = "PointerMoved" /\ "PointerMoved" \in Slots
    BY NamesOf, NamesAre DEF PointerMoved
  <2>2. x # "PointerMoved"
    BY ScreenLifeAssumption DEF CallOn
  <2> QED
    BY <2>1, <2>2
<1>3. Wrapped(g, mali)
  <2>1. Wrapped(h, mali)
    BY DEF InUse
  <2>2. PointerKept(g)
    BY <1>1, <1>2, <2>1 DEF Wrapped, PointerKept
  <2>3. \A w \in Wraps : w[1] # "ext" => (g.saved[w] # "none" <=> w \in Installs(g.config, mali))
    BY <1>1, <2>1 DEF Wrapped
  <2> QED
    BY <1>1, <2>2, <2>3 DEF Wrapped
<1>4. ASSUME NEW y \in Slots, y # x
      PROVE  Chain(g, st2, s, y)
  <2> DEFINE k == Depth(st, s, y)
  <2>1. PICK n, f : /\ Linked(h, y, k, n, f)
                    /\ Complete(h, y, n, f)
                    /\ \A i \in 1 .. k : st[i].function = f[i]
    BY <1>4 DEF InUse, Chain
  <2>2. SameAt(h, g, y)
    BY <1>1, <1>4 DEF SameAt
  <2>3. Linked(g, y, k, n, f)
    BY <2>1, <2>2, LinkedSame
  <2>4. Complete(g, y, n, f)
    BY <1>1, <1>4, <2>1 DEF Complete
  <2>5. Depth(st2, s, y) = k /\ \A i \in 1 .. k : st2[i].function = f[i]
    <3>1. CASE st2 = st
      BY <2>1, <3>1
    <3>2. CASE st2 # st
      <4>1. k = 0 /\ Depth(st2, s, y) = 0
        BY <1>4, <3>2
      <4>2. \A i \in 1 .. 0 : st2[i].function = f[i]
        OBVIOUS
      <4> QED
        BY <4>1, <4>2
    <3> QED
      BY <3>1, <3>2
  <2> QED
    BY <2>3, <2>4, <2>5 DEF Chain
<1> QED
  BY <1>3, <1>4 DEF InUse

\* The stack alone changes, and the same are called.
LEMMA InUseSame ==
  ASSUME NEW h, NEW mali, NEW st, NEW s, InUse(h, mali, st, s), NEW st2,
         \A x \in Slots : Depth(st2, s, x) = Depth(st, s, x),
         \A x \in Slots : \A i \in 1 .. Depth(st, s, x) : st2[i].function = st[i].function
  PROVE  InUse(h, mali, st2, s)
<1>1. ASSUME NEW x \in Slots
      PROVE  Chain(h, st2, s, x)
  BY <1>1 DEF InUse, Chain
<1> QED
  BY <1>1 DEF InUse

LEMMA CallingIs ==
  ASSUME NEW st, StackIs(st)
  PROVE  /\ StackIs(Calling(st))
         /\ Len(Calling(st)) = Len(st)
         /\ Calling(st) = <<>> <=> st = <<>>
         /\ \A i \in 1 .. Len(st) :
              /\ Calling(st)[i].function = st[i].function
              /\ Calling(st)[i].screen = st[i].screen
              /\ Calling(st)[i].slot = st[i].slot
<1>1. CASE st = <<>>
  BY <1>1 DEF Calling
<1>2. CASE st # <<>>
  <2> DEFINE n == Len(st)
             top == [st[n] EXCEPT !.called = TRUE]
             g == [st EXCEPT ![n] = top]
  <2>1. st \in Seq(Frames) /\ n \in Nat \ {0} /\ n \in 1 .. n
    BY <1>2 DEF StackIs
  <2>2. st[n] \in Frames
    BY <2>1
  <2>3. /\ top \in Frames /\ top.function = st[n].function /\ top.screen = st[n].screen
        /\ top.slot = st[n].slot
    BY <2>2 DEF Frames
  <2>4. Calling(st) = g
    BY <1>2 DEF Calling
  <2> HIDE DEF top
  <2>5. g \in Seq(Frames) /\ Len(g) = n
    BY <2>1, <2>3
  <2>6. \A i \in 1 .. n : g[i] = IF i = n THEN top ELSE st[i]
    BY <2>1
  <2> HIDE DEF n, g
  <2>7. \A i \in 1 .. n : /\ g[i].function = st[i].function
                          /\ g[i].screen = st[i].screen
                          /\ g[i].slot = st[i].slot
    BY <2>3, <2>6
  <2>8. 1 \in 1 .. n
    BY <2>1
  <2>9. StackIs(g)
    BY <2>5, <2>7, <2>8 DEF StackIs, n
  <2>10. g # <<>>
    BY <2>1, <2>5
  <2> QED
    BY <1>2, <2>4, <2>5, <2>7, <2>9, <2>10 DEF n
<1> QED
  BY <1>1, <1>2
LEMMA PushIs ==
  ASSUME NEW st, StackIs(st), NEW frame \in Frames, frame.slot \in Called,
         st # <<>> => frame.screen = st[1].screen /\ frame.slot = st[1].slot,
         NEW g, g = Append(Calling(st), frame)
  PROVE  /\ StackIs(g)
         /\ g # <<>> /\ Len(g) = Len(st) + 1
         /\ g[1].screen = frame.screen /\ g[1].slot = frame.slot
         /\ \A i \in 1 .. Len(st) : g[i].function = st[i].function
         /\ g[Len(g)].function = frame.function
<1> DEFINE c == Calling(st)
           n == Len(st)
<1>1. /\ c \in Seq(Frames) /\ Len(c) = n /\ n \in Nat
      /\ n = 0 <=> st = <<>>
      /\ \A i \in 1 .. n : /\ c[i].function = st[i].function
                           /\ c[i].screen = st[i].screen
                           /\ c[i].slot = st[i].slot
  BY CallingIs DEF StackIs
<1> HIDE DEF c, n
<1>2. g \in Seq(Frames) /\ Len(g) = n + 1 /\ g # <<>>
  BY <1>1 DEF c
<1>3. \A i \in 1 .. n + 1 : g[i] = IF i = n + 1 THEN frame ELSE c[i]
  BY <1>1 DEF c
<1>4. \A i \in 1 .. n : g[i].function = st[i].function
  <2> SUFFICES ASSUME NEW i \in 1 .. n
               PROVE  g[i].function = st[i].function
    OBVIOUS
  <2>1. i \in 1 .. n + 1 /\ i # n + 1
    BY <1>1
  <2>2. g[i] = c[i]
    BY <1>3, <2>1
  <2> QED
    BY <1>1, <2>2
<1>5. \A i \in 1 .. n + 1 : g[i].screen = frame.screen /\ g[i].slot = frame.slot
  <2> SUFFICES ASSUME NEW i \in 1 .. n + 1
               PROVE  g[i].screen = frame.screen /\ g[i].slot = frame.slot
    OBVIOUS
  <2>1. CASE i = n + 1
    BY <1>3, <2>1
  <2>2. CASE i # n + 1
    <3>1. i \in 1 .. n /\ st # <<>>
      BY <1>1, <2>2
    <3>2. st[i].screen = st[1].screen /\ st[i].slot = st[1].slot
      BY <3>1 DEF StackIs, n
    <3>3. g[i].screen = st[i].screen /\ g[i].slot = st[i].slot
      BY <1>1, <1>3, <2>2, <3>1
    <3> QED
      BY <3>1, <3>2, <3>3
  <2> QED
    BY <2>1, <2>2
<1>6. 1 \in 1 .. n + 1 /\ n + 1 \in 1 .. n + 1
  BY <1>1
<1>7. StackIs(g)
  BY <1>2, <1>5, <1>6 DEF StackIs
<1> QED
  BY <1>2, <1>3, <1>4, <1>5, <1>6, <1>7 DEF n

LEMMA PopIs ==
  ASSUME NEW st, StackIs(st), st # <<>>, NEW g, g = Front(st)
  PROVE  /\ StackIs(g)
         /\ Len(g) = Len(st) - 1 /\ Len(st) \in Nat \ {0}
         /\ g # <<>> => g[1] = st[1]
         /\ \A i \in 1 .. Len(g) : g[i] = st[i]
         /\ st[Len(st)] \in Frames /\ st[Len(st)].slot \in Called
         /\ st[Len(st)].screen = st[1].screen /\ st[Len(st)].slot = st[1].slot
<1> DEFINE n == Len(st)
<1>1. st \in Seq(Frames) /\ n \in Nat \ {0}
  BY DEF StackIs
<1>2. g = SubSeq(st, 1, n - 1)
  BY DEF Front
<1>3. g \in Seq(Frames) /\ Len(g) = n - 1 /\ \A i \in 1 .. n - 1 : g[i] = st[i]
  <2> DEFINE m == n - 1
  <2>1. m \in Nat /\ m <= n /\ \A i \in 1 .. m : i \in 1 .. n /\ st[i] \in Frames
    BY <1>1
  <2> HIDE DEF m, n
  <2>2. g = SubSeq(st, 1, m)
    BY <1>2 DEF m
  <2>3. Len(g) = m /\ \A i \in 1 .. m : g[i] = st[i]
    BY <1>1, <2>1, <2>2 DEF n
  <2>4. g \in Seq(Frames)
    BY <1>1, <2>1, <2>2 DEF n
  <2> QED
    BY <2>3, <2>4 DEF m
<1>4. n \in 1 .. n /\ \A i \in 1 .. n - 1 : i \in 1 .. n /\ 1 \in 1 .. n - 1
  BY <1>1
<1>5. StackIs(g)
  BY <1>3, <1>4 DEF StackIs
<1>6. g # <<>> => 1 \in 1 .. n - 1
  BY <1>1, <1>3
<1>7. st[n] \in Frames /\ st[n].slot \in Called /\ st[n].screen = st[1].screen /\ st[n].slot = st[1].slot
  BY <1>1, <1>4 DEF StackIs
<1> QED
  BY <1>1, <1>3, <1>5, <1>6, <1>7

-----------------------------------------------------------------------------
(***************************************************************************)
(* What a call does to the functions of the slot.                          *)
(***************************************************************************)
\* A wrapper puts back the function it found, and is in the middle of its call.
LEMMA LinkedCall ==
  ASSUME NEW h \in HookRecord, NEW x \in Slots, NEW k, NEW n, NEW f, Linked(h, x, k, n, f),
         Complete(h, x, n, f), h.slot[x] # "server",
         NEW o, o = Owner(h.slot[x]), NEW g, g = [h EXCEPT !.slot[x] = h.saved[<<o, x>>]]
  PROVE  /\ \A who : ChangedAt(h, g, x, who)
         /\ Linked(g, x, k + 1, n, f) /\ Complete(g, x, n, f)
         /\ f[k + 1] = o /\ k \in Nat /\ <<o, x>> \in Wraps
<1>1. /\ n \in Nat /\ k \in 0 .. n - 1 /\ f \in [1 .. n -> Functions] /\ f[k + 1] = o
      /\ f[n] = "server"
  BY DEF Linked
<1>2. o # "server"
  <2>1. h.slot[x] \in Functions
    BY DEF HookRecord
  <2> QED
    BY <2>1, FunctionsAre
<1>3. k + 1 \in 1 .. n - 1
  BY <1>1, <1>2
<1>4. <<o, x>> \in Wraps
  BY <1>1, <1>3 DEF Linked
<1>5. h.saved[<<o, x>>] # "none" /\ h.saved[<<o, x>>] \in Functions
  <2>1. <<o, x>>[1] = o /\ <<o, x>>[2] = x
    OBVIOUS
  <2>2. h.saved[<<o, x>>] # "none"
    BY <1>1, <1>3, <1>4, <2>1 DEF Complete
  <2> QED
    BY <1>4, <2>2 DEF HookRecord
<1> DEFINE next == h.saved[<<o, x>>]
<1>6. Owner(next) = f[(k + 1) + 1]
  BY <1>1, <1>3 DEF Linked
<1> HIDE DEF next
<1>7. g = [h EXCEPT !.slot[x] = next] /\ next \in Functions
  BY <1>5 DEF next
<1>8. /\ g \in HookRecord /\ g.config = h.config /\ g.saved = h.saved
      /\ g.slot = [h.slot EXCEPT ![x] = next]
  BY <1>7 DEF HookRecord
<1>9. g.slot[x] = next /\ \A y \in Slots \ {x} : g.slot[y] = h.slot[y]
  BY <1>8 DEF HookRecord
<1>10. Linked(g, x, k + 1, n, f)
  <2>1. k + 1 \in 0 .. n - 1 /\ \A i \in (k + 1) + 1 .. n - 1 : i \in k + 1 .. n - 1
    BY <1>1, <1>3
  <2>2. Owner(g.slot[x]) = f[(k + 1) + 1]
    BY <1>6, <1>9
  <2>3. \A i \in (k + 1) + 1 .. n - 1 : Owner(g.saved[<<f[i], x>>]) = f[i + 1]
    BY <1>8, <2>1 DEF Linked
  <2> QED
    BY <2>1, <2>2, <2>3 DEF Linked
<1>11. Complete(g, x, n, f)
  BY <1>8 DEF Complete
<1> QED
  BY <1>1, <1>3, <1>4, <1>8, <1>9, <1>10, <1>11 DEF ChangedAt

\* The last one called looks up what is in the screen and wraps it again.
LEMMA LinkedReturn ==
  ASSUME NEW h \in HookRecord, NEW x \in Slots, NEW k, NEW n, NEW f, Linked(h, x, k, n, f),
         Complete(h, x, n, f), k # 0, NEW o, o = f[k], NEW g, g = Rewrap(h, o, x)
  PROVE  /\ \A who : ChangedAt(h, g, x, who)
         /\ Linked(g, x, k - 1, n, f) /\ Complete(g, x, n, f)
<1>1. /\ n \in Nat /\ k \in 0 .. n - 1 /\ f \in [1 .. n -> Functions]
      /\ f[n] = "server"
  BY DEF Linked
<1>2. k \in 1 .. n - 1 /\ k \in 1 .. n
  BY <1>1
<1>3. <<o, x>> \in Wraps
  BY <1>1, <1>2 DEF Linked
<1>4. <<o, x>>[1] = o /\ <<o, x>>[2] = x
  OBVIOUS
<1> DEFINE names == {x}
<1>5. names \subseteq Names(o)
  BY <1>3, NamesAre
<1>6. g = Wrap(h, o, names)
  BY DEF Rewrap
<1>7. \A y : y \in names <=> y = x
  OBVIOUS
<1> HIDE DEF names
<1>8. /\ g \in HookRecord /\ g.config = h.config
      /\ \A y \in Slots : g.slot[y] = IF y \in names THEN o ELSE h.slot[y]
      /\ \A w \in Wraps : g.saved[w] = IF w[1] = o /\ w[2] \in names THEN h.slot[w[2]] ELSE h.saved[w]
  BY <1>5, <1>6, WrapIs
<1>9. /\ \A y \in Slots \ {x} : g.slot[y] = h.slot[y]
      /\ \A w \in Wraps : w[2] # x => g.saved[w] = h.saved[w]
      /\ g.slot[x] = o
      /\ g.saved[<<o, x>>] = h.slot[x]
  BY <1>3, <1>4, <1>7, <1>8
<1>10. h.slot[x] \in Functions /\ h.slot[x] # "none"
  BY FunctionsAre DEF HookRecord
<1>11. h.saved[<<o, x>>] # "none"
  BY <1>2, <1>3, <1>4 DEF Complete
<1>12. ASSUME NEW w \in Wraps
       PROVE  g.saved[w] # "none" <=> h.saved[w] # "none"
  <2>1. CASE w = <<o, x>>
    BY <1>9, <1>10, <1>11, <2>1
  <2>2. CASE w # <<o, x>>
    <3>1. ~(w[1] = o /\ w[2] = x)
      BY <2>2, WrapsAre
    <3> QED
      BY <1>7, <1>8, <3>1
  <2> QED
    BY <2>1, <2>2
<1>13. Linked(g, x, k - 1, n, f)
  <2>1. k - 1 \in 0 .. n - 1 /\ (k - 1) + 1 = k
    BY <1>1, <1>2
  <2>2. Owner(g.slot[x]) = f[k]
    <3>1. Owner(o) = o
      BY <1>3, <1>4, FunctionsAre
    <3> QED
      BY <1>9, <3>1
  <2>3. ASSUME NEW i \in k .. n - 1
        PROVE  Owner(g.saved[<<f[i], x>>]) = f[i + 1]
    <3>1. CASE i = k
      BY <1>9, <3>1 DEF Linked
    <3>2. CASE i # k
      <4>1. i \in k + 1 .. n - 1 /\ i \in 1 .. n - 1 /\ i \in 1 .. n
        BY <1>1, <1>2, <3>2
      <4>2. <<f[i], x>> \in Wraps /\ f[i] # o /\ <<f[i], x>>[1] = f[i]
        BY <1>2, <3>2, <4>1 DEF Linked
      <4>3. g.saved[<<f[i], x>>] = h.saved[<<f[i], x>>]
        BY <1>8, <4>2
      <4> QED
        BY <4>1, <4>3 DEF Linked
    <3> QED
      BY <3>1, <3>2
  <2> QED
    BY <2>1, <2>2, <2>3 DEF Linked
<1>14. Complete(g, x, n, f)
  BY <1>12 DEF Complete
<1> QED
  BY <1>8, <1>9, <1>12, <1>13, <1>14 DEF ChangedAt
\* Those in the middle of their call are the first k.
SameUpTo(k, e, f) == \A i \in 1 .. k : e[i] = f[i]

\* An extension wraps the function, before a call or in the middle of one.
LEMMA LinkedExtends ==
  ASSUME NEW h \in HookRecord, NEW x \in Slots, NEW k, NEW n, NEW f, Linked(h, x, k, n, f),
         Complete(h, x, n, f), NEW who, who # "tuner", who # "mali", <<who, x>> \in Wraps,
         h.saved[<<who, x>>] = "none", NEW g, g = Wrap(h, who, {x})
  PROVE  /\ ChangedAt(h, g, x, who)
         /\ Linked(g, x, k, n + 1, Inserted(f, n, k, who))
         /\ Complete(g, x, n + 1, Inserted(f, n, k, who))
         /\ SameUpTo(k, Inserted(f, n, k, who), f)
<1>1. /\ n \in Nat /\ k \in 0 .. n - 1 /\ f \in [1 .. n -> Functions]
      /\ f[n] = "server"
  BY DEF Linked
<1>2. <<who, x>>[1] = who /\ <<who, x>>[2] = x
  OBVIOUS
<1> DEFINE names == {x}
           e == Inserted(f, n, k, who)
<1>3. names \subseteq Names(who)
  BY NamesAre
<1>4. \A y : y \in names <=> y = x
  OBVIOUS
<1>5. g = Wrap(h, who, names)
  OBVIOUS
<1> HIDE DEF names
<1>6. /\ g \in HookRecord /\ g.config = h.config
      /\ \A y \in Slots : g.slot[y] = IF y \in names THEN who ELSE h.slot[y]
      /\ \A w \in Wraps : g.saved[w] = IF w[1] = who /\ w[2] \in names THEN h.slot[w[2]] ELSE h.saved[w]
  <2>1. h \in HookRecord
    OBVIOUS
  <2> QED
    BY ONLY <1>3, <1>5, <2>1, WrapIs
<1>7. /\ \A y \in Slots \ {x} : g.slot[y] = h.slot[y]
      /\ \A w \in Wraps : w[2] # x => g.saved[w] = h.saved[w]
      /\ \A w \in Wraps : w[1] # who => g.saved[w] = h.saved[w]
      /\ g.slot[x] = who
      /\ g.saved[<<who, x>>] = h.slot[x]
  BY <1>2, <1>4, <1>6
<1>8. h.slot[x] \in Functions /\ h.slot[x] # "none"
  BY FunctionsAre DEF HookRecord
<1>9. \A i \in 1 .. n : f[i] # who
  <2> SUFFICES ASSUME NEW i \in 1 .. n, f[i] = who
               PROVE  FALSE
    OBVIOUS
  <2>1. i # n
    BY <1>1, WrapsAre, <1>2
  <2>2. i \in 1 .. n - 1
    BY <1>1, <2>1
  <2> QED
    BY <1>2, <2>2 DEF Complete
<1>10. who # "tuner" /\ who # "mali"
  OBVIOUS
<1>11. \A w \in Wraps : w[2] = x /\ w[1] # who => g.saved[w] = h.saved[w]
  BY <1>7
<1>12. Linked(g, x, k, n + 1, e)
  BY <1>7, <1>9, <1>10, <1>11, LinkedWrap
<1>13. \A i \in 1 .. n + 1 : e[i] = IF i <= k THEN f[i] ELSE IF i = k + 1 THEN who ELSE f[i - 1]
  BY DEF Inserted
<1> HIDE DEF e
<1>14. ASSUME NEW w \in Wraps, w[2] = x
       PROVE  g.saved[w] # "none" <=> \E i \in 1 .. (n + 1) - 1 : e[i] = w[1]
  <2>1. CASE w[1] = who
    <3>1. w = <<who, x>>
      BY <1>14, <2>1, WrapsAre
    <3>2. k + 1 \in 1 .. (n + 1) - 1 /\ e[k + 1] = who
      BY <1>1, <1>13
    <3> QED
      BY <1>7, <1>8, <2>1, <3>1, <3>2
  <2>2. CASE w[1] # who
    <3>1. g.saved[w] # "none" <=> \E i \in 1 .. n - 1 : f[i] = w[1]
      BY <1>7, <1>14, <2>2 DEF Complete
    <3>2. ASSUME NEW i \in 1 .. n - 1, f[i] = w[1]
          PROVE  \E j \in 1 .. (n + 1) - 1 : e[j] = w[1]
      <4>1. CASE i <= k
        <5>1. i \in 1 .. (n + 1) - 1 /\ e[i] = f[i]
          BY <1>1, <1>13, <4>1
        <5> QED
          BY <3>2, <5>1
      <4>2. CASE ~(i <= k)
        <5>1. i + 1 \in 1 .. (n + 1) - 1 /\ e[i + 1] = f[i]
          BY <1>1, <1>13, <4>2
        <5> QED
          BY <3>2, <5>1
      <4> QED
        BY <4>1, <4>2
    <3>3. ASSUME NEW j \in 1 .. (n + 1) - 1, e[j] = w[1]
          PROVE  \E i \in 1 .. n - 1 : f[i] = w[1]
      <4>1. CASE j <= k
        <5>1. j \in 1 .. n - 1 /\ e[j] = f[j]
          BY <1>1, <1>13, <4>1
        <5> QED
          BY <3>3, <5>1
      <4>2. CASE ~(j <= k)
        <5>1. j # k + 1
          BY <1>1, <1>13, <2>2, <3>3
        <5>2. j - 1 \in 1 .. n - 1 /\ e[j] = f[j - 1]
          BY <1>1, <1>13, <4>2, <5>1
        <5> QED
          BY <3>3, <5>2
      <4> QED
        BY <4>1, <4>2
    <3> QED
      BY <3>1, <3>2, <3>3
  <2> QED
    BY <2>1, <2>2
<1>15. Complete(g, x, n + 1, e)
  BY <1>14 DEF Complete
<1>16. \A i \in 1 .. k : e[i] = f[i]
  BY <1>1, <1>13
<1> QED
  BY <1>6, <1>7, <1>12, <1>15, <1>16 DEF e, ChangedAt, SameUpTo

\* The list without entry k + 1.
Without(f, n, k) == [i \in 1 .. n - 1 |-> IF i <= k THEN f[i] ELSE f[i + 1]]

\* An extension that is called goes away.
LEMMA LinkedGone ==
  ASSUME NEW h \in HookRecord, NEW x \in Slots, NEW k, NEW n, NEW f, Linked(h, x, k, n, f),
         Complete(h, x, n, f), NEW who, who # "server", who # "oneshot", h.slot[x] = who,
         NEW g, g = Unwrap(h, who, {x})
  PROVE  /\ ChangedAt(h, g, x, who)
         /\ Linked(g, x, k, n - 1, Without(f, n, k))
         /\ Complete(g, x, n - 1, Without(f, n, k))
         /\ SameUpTo(k, Without(f, n, k), f)
<1>1. /\ n \in Nat /\ k \in 0 .. n - 1 /\ f \in [1 .. n -> Functions]
      /\ f[n] = "server" /\ Owner(who) = f[k + 1] /\ Owner(who) = who
  BY DEF Linked, Owner
<1>2. k + 1 \in 1 .. n - 1 /\ k + 1 \in 1 .. n
  <2>1. who = f[k + 1]
    BY ONLY <1>1
  <2>2. who # "server"
    OBVIOUS
  <2>3. k + 1 # n
    BY ONLY <1>1, <2>1, <2>2
  <2> QED
    BY ONLY <1>1, <2>3
<1>3. <<who, x>>[1] = who /\ <<who, x>>[2] = x /\ <<who, x>> \in Wraps
  BY <1>1, <1>2 DEF Linked
<1> DEFINE names == {x}
           e == Without(f, n, k)
           found == h.saved[<<who, x>>]
<1>4. found # "none"
  BY <1>1, <1>2, <1>3 DEF Complete
<1>5. Owner(found) = f[(k + 1) + 1]
  <2>1. k + 1 \in k + 1 .. n - 1
    BY <1>2
  <2>2. Owner(h.saved[<<f[k + 1], x>>]) = f[(k + 1) + 1]
    BY <2>1 DEF Linked
  <2>3. f[k + 1] = who
    BY ONLY <1>1
  <2> QED
    BY ONLY <2>2, <2>3 DEF found
<1>6. names \subseteq Names(who) /\ \A y \in names : h.saved[<<who, y>>] # "none"
  BY <1>3, <1>4, NamesAre
<1>7. \A y : y \in names <=> y = x
  OBVIOUS
<1>8. g = Unwrap(h, who, names)
  OBVIOUS
<1> HIDE DEF names
<1>9. /\ g \in HookRecord /\ g.config = h.config
      /\ \A y \in Slots : g.slot[y] = IF y \in names THEN h.saved[<<who, y>>] ELSE h.slot[y]
      /\ \A w \in Wraps : g.saved[w] = IF w[1] = who /\ w[2] \in names THEN "none" ELSE h.saved[w]
  <2>1. h \in HookRecord
    OBVIOUS
  <2> QED
    BY ONLY <1>6, <1>8, <2>1, UnwrapIs
<1>10. /\ \A y \in Slots \ {x} : g.slot[y] = h.slot[y]
       /\ \A w \in Wraps : w[2] # x => g.saved[w] = h.saved[w]
       /\ \A w \in Wraps : w[1] # who => g.saved[w] = h.saved[w]
       /\ g.slot[x] = found
       /\ g.saved[<<who, x>>] = "none"
  BY <1>3, <1>7, <1>9
<1>11. /\ e \in [1 .. n - 1 -> Functions]
       /\ \A i \in 1 .. n - 1 : e[i] = IF i <= k THEN f[i] ELSE f[i + 1]
       /\ \A i \in 1 .. n - 1 : i \in 1 .. n /\ i + 1 \in 1 .. n
  BY <1>1 DEF Without
<1> HIDE DEF e, found
<1> DEFINE at(i) == IF i <= k THEN i ELSE i + 1
<1>12. \A i \in 1 .. n - 1 : e[i] = f[at(i)] /\ at(i) \in 1 .. n /\ at(i) # k + 1
  BY <1>1, <1>11
<1>13. Linked(g, x, k, n - 1, e)
  <2>1. n - 1 \in Nat /\ k \in 0 .. (n - 1) - 1
    BY <1>1, <1>2
  <2>2. e[n - 1] = "server"
    BY <1>1, <1>2, <1>12
  <2>3. ASSUME NEW i \in 1 .. (n - 1) - 1
        PROVE  <<e[i], x>> \in Wraps
    <3>1. i \in 1 .. n - 1 /\ at(i) \in 1 .. n - 1
      BY <1>1
    <3> HIDE DEF at
    <3> QED
      BY <1>12, <3>1 DEF Linked
  <2>4. ASSUME NEW i \in 1 .. n - 1, NEW j \in 1 .. n - 1, e[i] = e[j]
        PROVE  i = j
    <3>1. f[at(i)] = f[at(j)] /\ at(i) \in 1 .. n /\ at(j) \in 1 .. n
      BY <1>12, <2>4
    <3>2. at(i) = at(j)
      <4> HIDE DEF at
      <4> QED
        BY <3>1 DEF Linked
    <3> QED
      BY <1>1, <3>2
  <2>5. ASSUME NEW i \in 1 .. n - 1, NEW j \in 1 .. n - 1, e[i] = "tuner", e[j] = "mali"
        PROVE  j < i
    <3>1. f[at(i)] = "tuner" /\ f[at(j)] = "mali" /\ at(i) \in 1 .. n /\ at(j) \in 1 .. n
      BY <1>12, <2>5
    <3>2. at(j) < at(i)
      <4> HIDE DEF at
      <4> QED
        BY <3>1 DEF Linked
    <3> QED
      BY <1>1, <3>2
  <2>6. Owner(g.slot[x]) = e[k + 1]
    <3>1. e[k + 1] = f[(k + 1) + 1]
      BY <1>1, <1>2, <1>11
    <3> QED
      BY <1>5, <1>10, <3>1 DEF found
  <2>7. ASSUME NEW i \in k + 1 .. (n - 1) - 1
        PROVE  Owner(g.saved[<<e[i], x>>]) = e[i + 1]
    <3>1. /\ e[i] = f[i + 1] /\ e[i + 1] = f[(i + 1) + 1]
          /\ i + 1 \in k + 1 .. n - 1 /\ i + 1 \in 1 .. n - 1 /\ i + 1 \in 1 .. n /\ i + 1 # k + 1
      BY <1>1, <1>11
    <3>2. <<f[i + 1], x>> \in Wraps /\ f[i + 1] # who
      BY <1>1, <1>2, <3>1 DEF Linked
    <3>3. <<f[i + 1], x>>[1] = f[i + 1]
      OBVIOUS
    <3>4. g.saved[<<f[i + 1], x>>] = h.saved[<<f[i + 1], x>>]
      BY <1>10, <3>2, <3>3
    <3>5. Owner(h.saved[<<f[i + 1], x>>]) = f[(i + 1) + 1]
      BY <3>1 DEF Linked
    <3> QED
      BY <3>1, <3>4, <3>5
  <2> HIDE DEF at
  <2> QED
    BY <1>11, <2>1, <2>2, <2>3, <2>4, <2>5, <2>6, <2>7 DEF Linked
<1>14. ASSUME NEW w \in Wraps, w[2] = x
       PROVE  g.saved[w] # "none" <=> \E i \in 1 .. (n - 1) - 1 : e[i] = w[1]
  <2>1. CASE w[1] = who
    <3>1. w = <<who, x>>
      BY <1>14, <2>1, WrapsAre
    <3>2. ASSUME NEW i \in 1 .. (n - 1) - 1
          PROVE  e[i] # who
      <4>1. i \in 1 .. n - 1
        BY <1>1
      <4> HIDE DEF at
      <4> QED
        BY ZenonT(30), <1>1, <1>2, <1>12, <4>1 DEF Linked
    <3> QED
      BY <1>10, <2>1, <3>1, <3>2
  <2>2. CASE w[1] # who
    <3>1. g.saved[w] # "none" <=> \E i \in 1 .. n - 1 : f[i] = w[1]
      BY <1>10, <1>14, <2>2 DEF Complete
    <3>2. ASSUME NEW i \in 1 .. n - 1, f[i] = w[1]
          PROVE  \E j \in 1 .. (n - 1) - 1 : e[j] = w[1]
      <4>1. i # k + 1
        BY <1>1, <2>2, <3>2
      <4>2. CASE i <= k
        <5>1. i \in 1 .. (n - 1) - 1 /\ e[i] = f[i]
          BY <1>1, <1>2, <1>11, <4>2
        <5> QED
          BY <3>2, <5>1
      <4>3. CASE ~(i <= k)
        <5>1. i - 1 \in 1 .. (n - 1) - 1 /\ ~(i - 1 <= k) /\ (i - 1) + 1 = i /\ i - 1 \in 1 .. n - 1
          BY <1>1, <4>1, <4>3
        <5>2. e[i - 1] = f[i]
          BY <1>11, <5>1
        <5> QED
          BY <3>2, <5>1, <5>2
      <4> QED
        BY <4>2, <4>3
    <3>3. ASSUME NEW j \in 1 .. (n - 1) - 1, e[j] = w[1]
          PROVE  \E i \in 1 .. n - 1 : f[i] = w[1]
      <4>1. j \in 1 .. n - 1 /\ at(j) \in 1 .. n - 1
        BY <1>1
      <4> HIDE DEF at
      <4> QED
        BY <1>12, <3>3, <4>1
    <3> QED
      BY <3>1, <3>2, <3>3
  <2> QED
    BY <2>1, <2>2
<1>15. Complete(g, x, n - 1, e)
  BY <1>14 DEF Complete
<1>16. \A i \in 1 .. k : e[i] = f[i]
  BY <1>1, <1>11
<1> QED
  BY <1>9, <1>10, <1>13, <1>15, <1>16 DEF e, ChangedAt, SameUpTo
-----------------------------------------------------------------------------
(***************************************************************************)
(* Who is reached by a call.                                               *)
(***************************************************************************)
LEMMA InstalledIs ==
  ASSUME NEW h, NEW x \in Slots, NEW n, NEW f, NEW k, Linked(h, x, k, n, f), Complete(h, x, n, f)
  PROVE  \A who : who \in Installed(h, x) <=> \E i \in 1 .. n - 1 : f[i] = who
<1> SUFFICES ASSUME NEW who
             PROVE  who \in Installed(h, x) <=> \E i \in 1 .. n - 1 : f[i] = who
  OBVIOUS
<1>1. \A w : w \in Wrappers[x] <=> w \in Wraps /\ w[2] = x
  BY DEF Wrappers
<1>2. who \in Installed(h, x) <=> \E w \in Wraps : w[2] = x /\ h.saved[w] # "none" /\ w[1] = who
  BY <1>1 DEF Installed
<1>3. ASSUME NEW i \in 1 .. n - 1, f[i] = who
      PROVE  \E w \in Wraps : w[2] = x /\ h.saved[w] # "none" /\ w[1] = who
  <2>1. <<f[i], x>> \in Wraps /\ <<f[i], x>>[1] = f[i] /\ <<f[i], x>>[2] = x
    BY DEF Linked
  <2>2. h.saved[<<f[i], x>>] # "none"
    BY <2>1 DEF Complete
  <2> QED
    BY <1>3, <2>1, <2>2
<1>4. ASSUME NEW w \in Wraps, w[2] = x, h.saved[w] # "none", w[1] = who
      PROVE  \E i \in 1 .. n - 1 : f[i] = who
  BY <1>4 DEF Complete
<1> QED
  BY <1>2, <1>3, <1>4

\* The rest of the list is the one ChainIsWhole speaks of.
LEMMA ChainCalls ==
  ASSUME NEW h, NEW x \in Slots, NEW k, NEW n, NEW f, Linked(h, x, k, n, f), Complete(h, x, n, f),
         NEW middle, \A who : who \in middle <=> \E i \in 1 .. k : f[i] = who
  PROVE  \E c \in SetToSeqs(Installed(h, x) \ middle) : Calls(h, x, c)
<1> DEFINE S == Installed(h, x) \ middle
           m == (n - 1) - k
           c == [i \in 1 .. m |-> f[k + i]]
<1>1. /\ n \in Nat /\ k \in 0 .. n - 1 /\ k \in Nat /\ f \in [1 .. n -> Functions]
      /\ f[n] = "server"
      /\ \A i, j \in 1 .. n : f[i] = f[j] => i = j
  BY DEF Linked
<1>2. /\ m \in Nat /\ k + m = n - 1
      /\ \A i \in 1 .. m : k + i \in k + 1 .. n - 1 /\ k + i \in 1 .. n - 1 /\ k + i \in 1 .. n
  BY <1>1
<1>3. \A i \in 1 .. n - 1 : f[i] \in S <=> i \in k + 1 .. n - 1
  <2> SUFFICES ASSUME NEW i \in 1 .. n - 1
               PROVE  f[i] \in S <=> i \in k + 1 .. n - 1
    OBVIOUS
  <2>1. f[i] \in Installed(h, x)
    BY InstalledIs
  <2>2. f[i] \in middle <=> i \in 1 .. k
    <3>1. i \in 1 .. n /\ \A j \in 1 .. k : j \in 1 .. n
      BY <1>1
    <3> QED
      BY <1>1, <3>1
  <2> QED
    BY <1>1, <2>1, <2>2
<1>4. \A who \in S : \E i \in 1 .. m : c[i] = who
  <2> SUFFICES ASSUME NEW who \in S
               PROVE  \E i \in 1 .. m : c[i] = who
    OBVIOUS
  <2>1. PICK i \in 1 .. n - 1 : f[i] = who
    BY InstalledIs
  <2>2. i \in k + 1 .. n - 1
    BY <1>3, <2>1
  <2>3. i - k \in 1 .. m /\ k + (i - k) = i
    BY <1>1, <2>2
  <2> QED
    BY <2>1, <2>3
<1>5. c \in [1 .. m -> S]
  BY <1>2, <1>3
<1>6. \A i \in 1 .. m : c[i] = f[k + i]
  OBVIOUS
<1>7. \A i, j \in 1 .. m : c[i] = c[j] => i = j
  <2> SUFFICES ASSUME NEW i \in 1 .. m, NEW j \in 1 .. m, c[i] = c[j]
               PROVE  i = j
    OBVIOUS
  <2>1. k + i = k + j
    BY <1>1, <1>2, <1>6
  <2> QED
    BY <1>1, <1>2, <2>1
<1> HIDE DEF c, S
<1>8. Cardinality(S) = m
  <2>1. c \in Bijection(1 .. m, S)
    BY <1>4, <1>5, <1>7 DEF Bijection, Injection, Surjection, IsInjective
  <2>2. ExistsBijection(1 .. m, S)
    BY <2>1 DEF ExistsBijection
  <2> HIDE DEF m
  <2> QED
    BY <1>2, <2>2, FS_CountingElements
<1>9. c \in SetToSeqs(S)
  BY <1>5, <1>7, <1>8 DEF SetToSeqs
<1>10. c \in Seq(S) /\ Len(c) = m
  <2> HIDE DEF m
  <2> QED
    BY <1>2, <1>5
<1>11. ASSUME NEW i \in 0 .. m
       PROVE  Owner(IF i = 0 THEN h.slot[x] ELSE h.saved[<<c[i], x>>])
                = IF i = m THEN "server" ELSE c[i + 1]
  <2>1. (IF i = m THEN "server" ELSE c[i + 1]) = f[(k + i) + 1]
    <3>1. CASE i = m
      <4>1. (k + i) + 1 = n
        BY <1>1, <1>2, <3>1
      <4> QED
        BY <1>1, <3>1, <4>1
    <3>2. CASE i # m
      <4>1. i + 1 \in 1 .. m /\ k + (i + 1) = (k + i) + 1
        BY <1>1, <1>2, <3>2
      <4> QED
        BY <1>6, <3>2, <4>1
    <3> QED
      BY <3>1, <3>2
  <2>2. CASE i = 0
    <3>1. k + i = k
      BY <1>1, <2>2
    <3> QED
      BY <2>1, <2>2, <3>1 DEF Linked
  <2>3. CASE i # 0
    <3>1. i \in 1 .. m
      BY <1>2, <2>3
    <3>2. c[i] = f[k + i] /\ k + i \in k + 1 .. n - 1
      BY <1>2, <1>6, <3>1
    <3>3. Owner(h.saved[<<f[k + i], x>>]) = f[(k + i) + 1]
      BY <3>2 DEF Linked
    <3> QED
      BY <2>1, <2>3, <3>2, <3>3
  <2> QED
    BY <2>2, <2>3
<1>12. Calls(h, x, c)
  BY <1>10, <1>11 DEF Calls
<1> QED
  BY <1>9, <1>12 DEF S

-----------------------------------------------------------------------------
(***************************************************************************)
(* The inductive invariant.  A screen that DrmMasterProofs calls held is   *)
(* initialised: its hooks are whole, whoever is called at the moment.  Any *)
(* other screen has none that could be called.                             *)
(***************************************************************************)
\* The server runs, or has closed all screens.
Alive == server.phase # "aborted" /\ (server.phase = "exited" => server.last)

HooksFit(s) ==
  IF s \in Held THEN InUse(hooks[s], scrn[s].mali, stack, s) ELSE Unused(hooks[s])

LifeInv ==
  /\ DrmInv
  /\ hooks \in [Screens -> HookRecord]
  /\ StackIs(stack)
  /\ stack # <<>> => Running
  /\ server.last => server.phase \in {"closing", "exited", "aborted"}
  /\ Alive => \A s \in Screens : HooksFit(s)

LEMMA LifeInitHolds == LifeInit => LifeInv
<1> SUFFICES ASSUME LifeInit PROVE LifeInv
  OBVIOUS
<1>1. DrmInv /\ server.phase = "preinit" /\ ~server.last
  BY InitHolds DEF LifeInit, Init
<1>2. Held = {}
  BY <1>1 DEF Held
<1>3. NoSlots \in [Slots -> Functions] /\ \A x \in Slots : NoSlots[x] = "server"
  BY FunctionsAre DEF NoSlots
<1>4. /\ NothingSaved \in [Wraps -> Functions \union {"none"}]
      /\ \A w \in Wraps : NothingSaved[w] = "none"
  BY DEF NothingSaved
<1>5. ASSUME NEW s \in Screens
      PROVE  Unused(hooks[s])
  <2>1. hooks[s] \in [config : Configs, slot : {NoSlots}, saved : {NothingSaved}]
    BY DEF LifeInit
  <2>2. hooks[s].config \in Configs /\ hooks[s].slot = NoSlots /\ hooks[s].saved = NothingSaved
    BY <2>1
  <2>3. hooks[s] \in HookRecord
    BY <1>3, <1>4, <2>1, ScreenLifeAssumption DEF HookRecord
  <2>4. PointerMoved \in Wraps /\ "PointerMoved" \in Slots
    BY NamesOf, NamesAre DEF PointerMoved
  <2>5. PointerKept(hooks[s])
    BY <1>3, <1>4, <2>2, <2>4 DEF PointerKept
  <2>6. "server" \notin Driver
    BY DEF Driver
  <2> QED
    BY <1>3, <1>4, <2>2, <2>3, <2>5, <2>6 DEF Unused
<1>6. hooks \in [Screens -> HookRecord]
  <2>1. hooks \in [Screens -> [config : Configs, slot : {NoSlots}, saved : {NothingSaved}]]
    BY DEF LifeInit
  <2>2. \A s \in Screens : hooks[s] \in HookRecord
    BY <1>5 DEF Unused
  <2> QED
    BY <2>1, <2>2
<1>7. stack = <<>> /\ StackIs(<<>>)
  BY DEF LifeInit, StackIs
<1> QED
  BY <1>1, <1>2, <1>5, <1>6, <1>7 DEF LifeInv, HooksFit

-----------------------------------------------------------------------------
(***************************************************************************)
(* The calls of the functions.                                             *)
(***************************************************************************)
\* If somebody is called, it is through slot x of screen s.
About(st, s, x) == st # <<>> => st[1].screen = s /\ st[1].slot = x

LEMMA AboutIs ==
  ASSUME NEW st, StackIs(st), NEW s, NEW x, About(st, s, x)
  PROVE  /\ Depth(st, s, x) = Len(st) /\ Len(st) \in Nat
         /\ \A y : y # x => Depth(st, s, y) = 0
         /\ \A t : t # s => \A y : Depth(st, t, y) = 0
<1>1. st \in Seq(Frames) /\ Len(st) \in Nat /\ (st = <<>> => Len(st) = 0)
  BY DEF StackIs
<1> QED
  BY <1>1 DEF Depth, About

LEMMA MayCallAbout ==
  ASSUME StackIs(stack), NEW s, NEW x, MayCall(s, x)
  PROVE  About(stack, s, x)
<1> SUFFICES ASSUME stack # <<>>
             PROVE  stack[1].screen = s /\ stack[1].slot = x
  BY DEF About
<1>1. stack \in Seq(Frames) /\ Len(stack) \in 1 .. Len(stack)
  BY DEF StackIs
<1>2. stack[Len(stack)].screen = s /\ stack[Len(stack)].slot = x
  BY DEF MayCall
<1> QED
  BY <1>1, <1>2 DEF StackIs

\* A step at slot x of screen s leaves the other screens alone.
LEMMA HookStep ==
  ASSUME LifeInv, Running, UNCHANGED vars, NEW s \in Screens, NEW x,
         NEW g, hooks' = [hooks EXCEPT ![s] = g], InUse(g, scrn[s].mali, stack', s),
         StackIs(stack'), stack' = stack \/ (About(stack, s, x) /\ About(stack', s, x))
  PROVE  LifeInv'
<1>1. DrmInv'
  BY StepKeeps DEF LifeInv
<1>2. server' = server /\ scrn' = scrn
  BY DEF vars
<1>3. Held = Screens /\ Held' = Screens
  BY <1>2 DEF Held, Running
<1>4. Alive
  BY DEF Alive, Running
<1>5. g \in HookRecord
  BY DEF InUse, Wrapped
<1>6. hooks' \in [Screens -> HookRecord]
  BY <1>5 DEF LifeInv
<1>7. ASSUME NEW t \in Screens
      PROVE  InUse(hooks'[t], scrn[t].mali, stack', t)
  <2>1. CASE t = s
    BY <2>1 DEF LifeInv
  <2>2. CASE t # s
    <3>1. hooks'[t] = hooks[t]
      BY <2>2 DEF LifeInv
    <3>2. InUse(hooks[t], scrn[t].mali, stack, t)
      BY <1>3, <1>4 DEF LifeInv, HooksFit
    <3>3. StackIs(stack)
      BY DEF LifeInv
    <3>4. CASE stack' = stack
      BY <3>1, <3>2, <3>4
    <3>5. CASE About(stack, s, x) /\ About(stack', s, x)
      <4>1. \A y : Depth(stack, t, y) = 0 /\ Depth(stack', t, y) = 0
        BY <2>2, <3>3, <3>5, AboutIs
      <4>2. \A i \in 1 .. 0 : stack'[i].function = stack[i].function
        OBVIOUS
      <4> DEFINE st2 == stack'
      <4>3. /\ \A y \in Slots : Depth(st2, t, y) = Depth(stack, t, y)
            /\ \A y \in Slots : \A i \in 1 .. Depth(stack, t, y) : st2[i].function = stack[i].function
        BY <4>1, <4>2
      <4> HIDE DEF st2
      <4>4. InUse(hooks[t], scrn[t].mali, st2, t)
        BY <3>2, <4>3, InUseSame
      <4> QED
        BY <3>1, <4>4 DEF st2
    <3> QED
      BY <3>4, <3>5
  <2> QED
    BY <2>1, <2>2
<1>8. \A t \in Screens : HooksFit(t)'
  BY <1>2, <1>3, <1>7 DEF HooksFit
<1>9. Running' /\ (server'.last => server'.phase \in {"closing", "exited", "aborted"})
  BY <1>2 DEF LifeInv, Running
<1> QED
  BY <1>1, <1>6, <1>8, <1>9 DEF LifeInv

LEMMA CallHookKeeps ==
  ASSUME LifeInv, NEW s \in Screens, NEW x \in Slots, CallHook(s, x)
  PROVE  LifeInv'
<1> DEFINE h == hooks[s]
           mali == scrn[s].mali
           k == Len(stack)
<1>1. /\ Running /\ MayCall(s, x) /\ x \in Called /\ h.slot[x] # "server"
      /\ UNCHANGED vars
      /\ StackIs(stack) /\ h \in HookRecord
  BY DEF CallHook, LifeInv
<1>2. About(stack, s, x)
  BY <1>1, MayCallAbout
<1>3. /\ Depth(stack, s, x) = k /\ k \in Nat
      /\ \A y : y # x => Depth(stack, s, y) = 0
  BY <1>1, <1>2, AboutIs
<1>4. InUse(h, mali, stack, s)
  BY <1>1 DEF LifeInv, HooksFit, Held, Alive, Running
<1>5. PICK n, f : /\ Linked(h, x, k, n, f) /\ Complete(h, x, n, f)
                  /\ \A i \in 1 .. k : stack[i].function = f[i]
  BY <1>3, <1>4 DEF InUse, Chain
<1>6. CASE h.slot[x] = "ext"
  <2> DEFINE who == "ext"
             g == Unwrap(h, who, {x})
             n2 == n - 1
             f2 == Without(f, n, k)
             st2 == stack'
  <2>1. hooks' = [hooks EXCEPT ![s] = g] /\ st2 = stack
    BY <1>1, <1>6 DEF CallHook
  <2>2. who # "server" /\ who # "oneshot" /\ h.slot[x] = who
    BY <1>6
  <2> HIDE DEF who, h, k, mali, st2
  <2>3. ChangedAt(h, g, x, who) /\ Linked(g, x, k, n2, f2) /\ Complete(g, x, n2, f2) /\ SameUpTo(k, f2, f)
    BY <1>1, <1>5, <2>2, LinkedGone
  <2> HIDE DEF g, n2, f2
  <2>4. Chain(g, st2, s, x)
    BY <1>3, <1>5, <2>1, <2>3 DEF Chain, SameUpTo
  <2>5. \A y \in Slots \ {x} : Depth(stack, s, y) = 0 /\ Depth(st2, s, y) = 0
    BY <1>3, <2>1
  <2>6. ChangedAt(h, g, x, "ext")
    BY <2>3 DEF who
  <2>7. InUse(g, mali, st2, s)
    BY <1>1, <1>4, <2>4, <2>5, <2>6, InUseStep
  <2> QED
    BY <1>1, <1>2, <2>1, <2>7, HookStep DEF st2, mali
<1>7. CASE h.slot[x] # "ext"
  <2> DEFINE o == Owner(h.slot[x])
             g == [h EXCEPT !.slot[x] = h.saved[<<o, x>>]]
             frame == [screen |-> s, function |-> o, slot |-> x, called |-> FALSE]
             st2 == stack'
  <2>1. hooks' = [hooks EXCEPT ![s] = g] /\ st2 = Append(Calling(stack), frame)
    BY <1>1, <1>7 DEF CallHook
  <2> HIDE DEF o, h, k, mali
  <2>2. /\ \A who : ChangedAt(h, g, x, who)
        /\ Linked(g, x, k + 1, n, f) /\ Complete(g, x, n, f)
        /\ f[k + 1] = o /\ <<o, x>> \in Wraps
    BY <1>1, <1>5, LinkedCall DEF o
  <2> HIDE DEF g
  <2>3. o \in Functions
    BY <2>2, WrapsAre
  <2>4. /\ frame \in Frames /\ frame.slot = x /\ frame.screen = s /\ frame.function = o
    BY <2>3 DEF Frames
  <2> HIDE DEF frame, st2
  <2>5. /\ StackIs(st2) /\ st2 # <<>> /\ Len(st2) = k + 1
        /\ st2[1].screen = s /\ st2[1].slot = x
        /\ \A i \in 1 .. k : st2[i].function = stack[i].function
        /\ st2[k + 1].function = o
    <3>1. stack # <<>> => frame.screen = stack[1].screen /\ frame.slot = stack[1].slot
      BY <1>2, <2>4 DEF About
    <3>2. frame.slot \in Called
      BY <1>1, <2>4
    <3>3. StackIs(st2) /\ st2 # <<>> /\ Len(st2) = Len(stack) + 1
      BY <1>1, <2>1, <2>4, <3>1, <3>2, PushIs
    <3>4. /\ st2[1].screen = frame.screen /\ st2[1].slot = frame.slot
          /\ st2[Len(st2)].function = frame.function
      BY <1>1, <2>1, <2>4, <3>1, <3>2, PushIs
    <3>5. \A i \in 1 .. Len(stack) : st2[i].function = stack[i].function
      BY <1>1, <2>1, <2>4, <3>1, <3>2, PushIs
    <3> QED
      BY <2>4, <3>3, <3>4, <3>5 DEF k
  <2>6. About(st2, s, x)
    BY <2>5 DEF About
  <2>7. Depth(st2, s, x) = k + 1 /\ \A y : y # x => Depth(st2, s, y) = 0
    BY <2>5, <2>6, AboutIs
  <2>8. \A i \in 1 .. k + 1 : st2[i].function = f[i]
    <3> SUFFICES ASSUME NEW i \in 1 .. k + 1
                 PROVE  st2[i].function = f[i]
      OBVIOUS
    <3>1. i = k + 1 \/ i \in 1 .. k
      BY <1>3
    <3> QED
      BY <1>5, <2>2, <2>5, <3>1
  <2>9. Chain(g, st2, s, x)
    BY <2>2, <2>7, <2>8 DEF Chain
  <2>10. \A y \in Slots \ {x} : Depth(stack, s, y) = 0 /\ Depth(st2, s, y) = 0
    BY <1>3, <2>7
  <2>11. InUse(g, mali, st2, s)
    BY <1>1, <1>4, <2>2, <2>9, <2>10, InUseStep
  <2> QED
    BY <1>1, <1>2, <2>1, <2>5, <2>6, <2>11, HookStep DEF st2, mali
<1> QED
  BY <1>6, <1>7

LEMMA CallLastKeeps ==
  ASSUME LifeInv, NEW s \in Screens, NEW x \in Slots, CallLast(s, x)
  PROVE  LifeInv'
<1> DEFINE h == hooks[s]
           mali == scrn[s].mali
           k == Len(stack)
           st2 == stack'
<1>1. /\ Running /\ MayCall(s, x) /\ stack # <<>> /\ st2 = Calling(stack)
      /\ UNCHANGED vars /\ hooks' = hooks
      /\ StackIs(stack) /\ hooks \in [Screens -> HookRecord]
  BY DEF CallLast, LifeInv
<1>2. About(stack, s, x)
  BY <1>1, MayCallAbout
<1>3. /\ Depth(stack, s, x) = k /\ k \in Nat
      /\ \A y : y # x => Depth(stack, s, y) = 0
  BY <1>1, <1>2, AboutIs
<1>4. InUse(h, mali, stack, s)
  BY <1>1 DEF LifeInv, HooksFit, Held, Alive, Running
<1> HIDE DEF st2
<1>5. /\ StackIs(st2) /\ Len(st2) = k /\ st2 # <<>>
      /\ \A i \in 1 .. k : /\ st2[i].function = stack[i].function
                           /\ st2[i].screen = stack[i].screen
                           /\ st2[i].slot = stack[i].slot
  BY <1>1, CallingIs
<1>6. About(st2, s, x)
  <2>1. k # 0
    BY <1>1 DEF StackIs
  <2>2. 1 \in 1 .. k
    BY <1>3, <2>1
  <2> QED
    BY <1>1, <1>2, <1>5, <2>2 DEF About
<1>7. Depth(st2, s, x) = k /\ \A y : y # x => Depth(st2, s, y) = 0
  BY <1>5, <1>6, AboutIs
<1>8. /\ \A y \in Slots : Depth(st2, s, y) = Depth(stack, s, y)
      /\ \A y \in Slots : \A i \in 1 .. Depth(stack, s, y) : st2[i].function = stack[i].function
  <2>1. \A y : y # x => \A i \in 1 .. 0 : st2[i].function = stack[i].function
    OBVIOUS
  <2> HIDE DEF k
  <2> QED
    BY <1>3, <1>5, <1>7, <2>1
<1>9. InUse(h, mali, st2, s)
  <2> HIDE DEF h, mali
  <2> QED
    BY <1>4, <1>8, InUseSame
<1>10. hooks' = [hooks EXCEPT ![s] = h]
  BY <1>1
<1> QED
  BY <1>1, <1>2, <1>5, <1>6, <1>9, <1>10, HookStep DEF st2

LEMMA ReturnFromHookKeeps ==
  ASSUME LifeInv, ReturnFromHook
  PROVE  LifeInv'
<1> DEFINE k == Len(stack)
           top == stack[k]
           s == top.screen
           x == top.slot
           o == top.function
           h == hooks[s]
           g == Rewrap(h, o, x)
           mali == scrn[s].mali
           st2 == stack'
<1>1. /\ stack # <<>> /\ hooks' = [hooks EXCEPT ![s] = g] /\ st2 = Front(stack)
      /\ UNCHANGED vars /\ Running
      /\ StackIs(stack)
  BY DEF ReturnFromHook, LifeInv
<1> HIDE DEF st2
<1>2. /\ StackIs(st2) /\ Len(st2) = k - 1 /\ k \in Nat \ {0}
      /\ st2 # <<>> => st2[1] = stack[1]
      /\ \A i \in 1 .. Len(st2) : st2[i] = stack[i]
      /\ top \in Frames /\ x \in Called
      /\ s = stack[1].screen /\ x = stack[1].slot
  BY <1>1, PopIs
<1>3. About(stack, s, x) /\ About(st2, s, x)
  BY <1>2 DEF About
<1>4. s \in Screens /\ x \in Slots
  BY <1>2 DEF Frames
<1> HIDE DEF top
<1>5. h \in HookRecord /\ InUse(h, mali, stack, s)
  BY <1>1, <1>4 DEF LifeInv, HooksFit, Held, Alive, Running
<1> HIDE DEF s, x, o, h, mali
<1>6. /\ Depth(stack, s, x) = k /\ Depth(st2, s, x) = k - 1
      /\ \A y : y # x => Depth(stack, s, y) = 0 /\ Depth(st2, s, y) = 0
  BY <1>1, <1>2, <1>3, AboutIs
<1>7. PICK n, f : /\ Linked(h, x, k, n, f) /\ Complete(h, x, n, f)
                  /\ \A i \in 1 .. k : stack[i].function = f[i]
  BY <1>4, <1>5, <1>6 DEF InUse, Chain
<1>8. k \in 1 .. k /\ o = f[k] /\ k # 0
  <2>1. k \in 1 .. k /\ k # 0
    BY <1>2
  <2> QED
    BY <1>7, <2>1 DEF o, top
<1> HIDE DEF k
<1>9. /\ \A who : ChangedAt(h, g, x, who)
      /\ Linked(g, x, k - 1, n, f) /\ Complete(g, x, n, f)
  BY <1>4, <1>5, <1>7, <1>8, LinkedReturn
<1> HIDE DEF g
<1>10. \A i \in 1 .. k - 1 : st2[i].function = f[i]
  <2>1. \A i \in 1 .. k - 1 : i \in 1 .. k
    BY <1>2
  <2> QED
    BY <1>2, <1>7, <2>1
<1>11. Chain(g, st2, s, x)
  BY <1>6, <1>9, <1>10 DEF Chain
<1>12. InUse(g, mali, st2, s)
  <2>1. ChangedAt(h, g, x, "ext")
    BY <1>9
  <2>2. \A y \in Slots \ {x} : Depth(stack, s, y) = 0 /\ Depth(st2, s, y) = 0
    BY <1>6
  <2> QED
    BY <1>2, <1>5, <1>11, <2>1, <2>2, InUseStep
<1> QED
  BY <1>1, <1>2, <1>3, <1>4, <1>12, HookStep DEF st2, mali

LEMMA ExtensionWrapsKeeps ==
  ASSUME LifeInv, NEW s \in Screens, NEW x \in Slots, ExtensionWraps(s, x)
  PROVE  LifeInv'
<1> DEFINE who == "ext"
           h == hooks[s]
           mali == scrn[s].mali
           k == Depth(stack, s, x)
           g == Wrap(h, who, {x})
<1>1. /\ Running /\ x \in Called /\ hooks' = [hooks EXCEPT ![s] = g]
      /\ UNCHANGED vars /\ stack' = stack
      /\ StackIs(stack) /\ h \in HookRecord
      /\ h.saved[<<who, x>>] = "none"
  BY DEF ExtensionWraps, LifeInv
<1>2. InUse(h, mali, stack, s)
  BY <1>1 DEF LifeInv, HooksFit, Held, Alive, Running
<1>3. who # "tuner" /\ who # "mali" /\ <<who, x>> \in Wraps
  BY <1>1, WrapsList
<1>4. PICK n, f : /\ Linked(h, x, k, n, f) /\ Complete(h, x, n, f)
                  /\ \A i \in 1 .. k : stack[i].function = f[i]
  BY <1>2 DEF InUse, Chain
<1> DEFINE n2 == n + 1
           f2 == Inserted(f, n, k, who)
<1> HIDE DEF who, h, mali, k
<1>5. ChangedAt(h, g, x, who) /\ Linked(g, x, k, n2, f2) /\ Complete(g, x, n2, f2) /\ SameUpTo(k, f2, f)
  BY <1>1, <1>3, <1>4, LinkedExtends
<1> HIDE DEF g, n2, f2
<1>6. Chain(g, stack, s, x)
  BY <1>4, <1>5 DEF Chain, SameUpTo, k
<1>7. ChangedAt(h, g, x, "ext")
  BY <1>5 DEF who
<1>8. InUse(g, mali, stack, s)
  BY <1>1, <1>2, <1>6, <1>7, InUseStep
<1> QED
  BY <1>1, <1>8, HookStep DEF mali

-----------------------------------------------------------------------------
(***************************************************************************)
(* The steps of the server.                                                *)
(***************************************************************************)
LEMMA HooksOfIs ==
  ASSUME NEW s
  PROVE  /\ ~Turned(s) \/ server.phase \notin {"preinit", "init", "closing"} => HooksOf(s) = hooks[s]
         /\ Turned(s) /\ server.phase = "preinit"
              => HooksOf(s) = [hooks[s] EXCEPT !.config.exa = @ /\ scrn'[s].drmFD]
         /\ Turned(s) /\ server.phase = "init" => HooksOf(s) = Initialised(hooks[s], scrn'[s].mali)
         /\ Turned(s) /\ server.phase = "closing" => HooksOf(s) = Closed(hooks[s], scrn[s].mali)
BY DEF HooksOf

\* Whose turn it is, and what comes next.
LEMMA ReturnTurns ==
  ASSUME TypeOK, NEW s \in Screens, NEW phase, NEW next, NEW r, NEW gives_up,
         Return(s, phase, next, r, gives_up),
         phase \notin {"exited", "aborted"}, next \notin {phase, "exited", "aborted"}
  PROVE  /\ server.phase = phase /\ s \in server.todo /\ server'.last = server.last
         /\ \/ server'.phase = "aborted" /\ \A t : ~Turned(t)
            \/ /\ gives_up /\ server'.phase = "exited"
               /\ \A t : Turned(t) <=> server.todo = {t} /\ phase = "closing"
            \/ /\ ~gives_up
               /\ \/ /\ server.todo = {s} /\ server'.phase = next
                     /\ next \notin {"running", "away"} => server'.todo = Screens
                  \/ /\ server.todo # {s} /\ server'.phase = phase
                     /\ server'.todo = server.todo \ {s}
               /\ \A t : Turned(t) <=> t = s
<1>1. server \in [phase : Phases, todo : SUBSET Screens, last : BOOLEAN, generation : 1 .. Generations]
  BY DEF TypeOK
<1>2. CASE ~r.asserted
  <2>1. /\ server.phase = phase /\ s \in server.todo
        /\ server' = [server EXCEPT !.phase = "aborted", !.todo = {}]
    BY <1>2 DEF Return, Exit
  <2>2. server'.phase = "aborted" /\ server'.last = server.last
    BY <1>1, <2>1
  <2> QED
    BY <2>1, <2>2 DEF Turned
<1>3. CASE r.asserted /\ gives_up
  <2>1. /\ server.phase = phase /\ s \in server.todo
        /\ server' = [server EXCEPT !.phase = "exited", !.todo = {}]
    BY <1>3 DEF Return, Exit
  <2>2. server'.phase = "exited" /\ server'.last = server.last
    BY <1>1, <2>1
  <2> QED
    BY <1>3, <2>1, <2>2 DEF Turned
<1>4. CASE r.asserted /\ ~gives_up
  <2>1. Turn(s, phase, next)
    BY <1>4 DEF Return
  <2>2. server.phase = phase /\ s \in server.todo
    BY <2>1 DEF Turn
  <2>3. CASE server.todo = {s}
    <3> DEFINE todo == IF next \in {"running", "away"} THEN {} ELSE Screens
    <3>1. server' = [server EXCEPT !.phase = next, !.todo = todo]
      BY <2>1, <2>3 DEF Turn
    <3> HIDE DEF todo
    <3>2. server'.phase = next /\ server'.todo = todo /\ server'.last = server.last
      BY <1>1, <3>1
    <3>3. \A t : Turned(t) <=> t = s
      BY <2>2, <2>3, <3>2 DEF Turned
    <3> QED
      BY <1>4, <2>2, <2>3, <3>2, <3>3 DEF todo
  <2>4. CASE server.todo # {s}
    <3>1. server' = [server EXCEPT !.todo = server.todo \ {s}]
      BY <2>1, <2>4 DEF Turn
    <3>2. server'.phase = phase /\ server'.todo = server.todo \ {s} /\ server'.last = server.last
      BY <1>1, <2>2, <3>1
    <3>3. \A t : Turned(t) <=> t = s
      BY <2>2, <3>2 DEF Turned
    <3> QED
      BY <1>4, <2>2, <2>4, <3>2, <3>3
  <2> QED
    BY <2>3, <2>4
<1> QED
  BY <1>2, <1>3, <1>4

\* Without a DRM there is no EXA.
LEMMA ExaLeft ==
  ASSUME NEW h, Unused(h), NEW b \in BOOLEAN, NEW g, g = [h EXCEPT !.config.exa = @ /\ b]
  PROVE  Unused(g)
<1>1. h \in HookRecord /\ h.config \in Configurations
  BY DEF Unused, HookRecord
<1> DEFINE c == [h.config EXCEPT !.exa = @ /\ b]
<1>2. c \in Configurations /\ c.rotate = h.config.rotate
  BY <1>1 DEF Configurations
<1>3. g = [h EXCEPT !.config = c]
  BY <1>1 DEF HookRecord
<1> HIDE DEF c
<1>4. g \in HookRecord /\ g.config = c /\ g.slot = h.slot /\ g.saved = h.saved
  BY <1>1, <1>2, <1>3 DEF HookRecord
<1> QED
  BY <1>2, <1>4 DEF Unused, PointerKept

\* What every step of the server leaves to show.
LEMMA ServerConclude ==
  ASSUME LifeInv, Next, stack = <<>>, stack' = stack, hooks' = [s \in Screens |-> HooksOf(s)],
         server'.last => server'.phase \in {"closing", "exited", "aborted"},
         \A s \in Screens : HooksOf(s) \in HookRecord,
         Alive' => \A s \in Screens : HooksFit(s)'
  PROVE  LifeInv'
<1>1. DrmInv'
  BY StepKeeps DEF LifeInv
<1>2. hooks' \in [Screens -> HookRecord]
  OBVIOUS
<1>3. StackIs(stack') /\ stack' = <<>>
  BY DEF LifeInv
<1> QED
  BY <1>1, <1>2, <1>3 DEF LifeInv

LEMMA PreInitFits ==
  ASSUME LifeInv, NEW s \in Screens, PreInit(s), Next, stack = <<>>, stack' = stack,
         hooks' = [t \in Screens |-> HooksOf(t)]
  PROVE  LifeInv'
<1>1. TypeOK /\ TypeOK'
  BY StepKeeps DEF LifeInv, DrmInv
<1>2. PICK r : Return(s, "preinit", "init", r, FALSE)
  BY DEF PreInit
<1> DEFINE phase == "preinit"
           next == "init"
<1>3. /\ phase \notin {"exited", "aborted"} /\ next \notin {phase, "exited", "aborted"}
      /\ Return(s, phase, next, r, FALSE)
  BY <1>2
<1> HIDE DEF phase, next
<1>4. /\ server.phase = phase /\ server'.last = server.last
      /\ \/ server'.phase = "aborted"
         \/ server'.phase = next /\ (next \notin {"running", "away"} => server'.todo = Screens)
         \/ server'.phase = phase
  BY <1>1, <1>3, ReturnTurns
<1> USE DEF phase, next
<1>5. Alive /\ Held = {} /\ ~server'.last
  BY <1>4 DEF Alive, Held, LifeInv
<1>6. Alive' => Held' = {}
  BY <1>4 DEF Alive, Held
<1>7. ASSUME NEW t \in Screens
      PROVE  Unused(HooksOf(t))
  <2>1. Unused(hooks[t])
    BY <1>5 DEF LifeInv, HooksFit
  <2>2. scrn'[t].drmFD \in BOOLEAN
    BY <1>1 DEF TypeOK
  <2>3. CASE Turned(t)
    <3>1. HooksOf(t) = [hooks[t] EXCEPT !.config.exa = @ /\ scrn'[t].drmFD]
      BY <1>4, <2>3, HooksOfIs
    <3> DEFINE h == hooks[t]
               b == scrn'[t].drmFD
               g == HooksOf(t)
    <3>2. g = [h EXCEPT !.config.exa = @ /\ b] /\ Unused(h) /\ b \in BOOLEAN
      BY <2>1, <2>2, <3>1
    <3> HIDE DEF h, b, g
    <3>3. Unused(g)
      BY <3>2, ExaLeft
    <3> QED
      BY <3>3 DEF g
  <2>4. CASE ~Turned(t)
    BY <2>1, <2>4, HooksOfIs
  <2> QED
    BY <2>3, <2>4
<1>8. ASSUME NEW t \in Screens, Alive'
      PROVE  HooksFit(t)'
  <2>1. hooks'[t] = HooksOf(t)
    OBVIOUS
  <2> QED
    BY <1>6, <1>7, <1>8, <2>1 DEF HooksFit
<1>9. \A t \in Screens : HooksOf(t) \in HookRecord
  BY <1>7 DEF Unused
<1> QED
  BY <1>5, <1>8, <1>9, ServerConclude

LEMMA ScreenInitFits ==
  ASSUME LifeInv, NEW s \in Screens, ScreenInit(s), Next, stack = <<>>, stack' = stack,
         hooks' = [t \in Screens |-> HooksOf(t)]
  PROVE  LifeInv'
<1>1. TypeOK /\ TypeOK'
  BY StepKeeps DEF LifeInv, DrmInv
<1>2. PICK r, gives_up :
        /\ Return(s, "init", "running", r, gives_up)
        /\ \A t \in Screens : t # s => scrn'[t] = scrn[t]
  <2>1. PICK outcome \in BOOLEAN, modes \in BOOLEAN, dri2 \in {"off", "works", "fails"} :
          LET r1 == SetDRMMaster(Status, outcome)
              r2 == IF r1.ok THEN EnteredVT(r1, outcome, modes) ELSE r1
              tried == r2.ok /\ scrn[s].drmFD /\ dri2 # "off"
              r3 == IF tried /\ dri2 = "fails" THEN CloseDevice(r2) ELSE r2
          IN /\ Return(s, "init", "running", r3, ~r3.ok)
             /\ scrn' = [scrn EXCEPT ![s].vtSema = r1.ok,
                                     ![s].mali = tried /\ dri2 = "works",
                                     ![s].drmFD = @ /\ ~(tried /\ dri2 = "fails")]
    BY DEF ScreenInit
  <2> DEFINE r1 == SetDRMMaster(Status, outcome)
             r2 == IF r1.ok THEN EnteredVT(r1, outcome, modes) ELSE r1
             tried == r2.ok /\ scrn[s].drmFD /\ dri2 # "off"
             r3 == IF tried /\ dri2 = "fails" THEN CloseDevice(r2) ELSE r2
             a == r1.ok
             b == tried /\ dri2 = "works"
             c == ~(tried /\ dri2 = "fails")
             gives_up == ~r3.ok
  <2>2. /\ Return(s, "init", "running", r3, gives_up)
        /\ scrn' = [scrn EXCEPT ![s].vtSema = a, ![s].mali = b, ![s].drmFD = @ /\ c]
    BY <2>1
  <2> HIDE DEF r3, a, b, c, gives_up
  <2>3. \A t \in Screens : t # s => scrn'[t] = scrn[t]
    BY <1>1, <2>2 DEF TypeOK
  <2> QED
    BY <2>2, <2>3
<1> DEFINE phase == "init"
           next == "running"
<1>3. /\ phase \notin {"exited", "aborted"} /\ next \notin {phase, "exited", "aborted"}
      /\ Return(s, phase, next, r, gives_up)
  BY <1>2
<1> HIDE DEF phase, next
<1>4. /\ server.phase = phase /\ s \in server.todo /\ server'.last = server.last
      /\ \/ server'.phase = "aborted" /\ \A t : ~Turned(t)
         \/ /\ gives_up /\ server'.phase = "exited"
            /\ \A t : Turned(t) <=> server.todo = {t} /\ phase = "closing"
         \/ /\ ~gives_up
            /\ \/ /\ server.todo = {s} /\ server'.phase = next
                  /\ next \notin {"running", "away"} => server'.todo = Screens
               \/ /\ server.todo # {s} /\ server'.phase = phase
                  /\ server'.todo = server.todo \ {s}
            /\ \A t : Turned(t) <=> t = s
  BY <1>1, <1>3, ReturnTurns
<1> USE DEF phase, next
<1>5. /\ Alive /\ ~server'.last
      /\ \A t \in Screens : t \in Held <=> t \notin server.todo
  BY <1>4 DEF Alive, Held, LifeInv
<1>6. Alive' => \A t \in Screens : /\ Turned(t) <=> t = s
                                   /\ t \in Held' <=> t \in Held \/ t = s
  <2>1. CASE server'.phase = "running"
    BY <1>4, <1>5, <2>1 DEF Held
  <2>2. CASE server'.phase = "init"
    BY <1>4, <1>5, <2>2 DEF Held
  <2>3. CASE server'.phase \notin {"running", "init"}
    BY <1>4, <1>5, <2>3 DEF Alive
  <2> QED
    BY <2>1, <2>2, <2>3
<1>7. ASSUME NEW t \in Screens
      PROVE  hooks[t] \in HookRecord /\ hooks'[t] = HooksOf(t) /\ scrn'[t].mali \in BOOLEAN
  BY <1>1 DEF LifeInv, TypeOK
\* The screen is initialised.
<1>8. ASSUME Turned(s)
      PROVE  /\ InUse(HooksOf(s), scrn'[s].mali, <<>>, s)
             /\ HooksOf(s) \in HookRecord
  <2>1. Unused(hooks[s])
    BY <1>4, <1>5 DEF LifeInv, HooksFit
  <2>2. HooksOf(s) = Initialised(hooks[s], scrn'[s].mali)
    BY <1>4, <1>8, HooksOfIs
  <2> DEFINE h == hooks[s]
             mali == scrn'[s].mali
             g == HooksOf(s)
  <2>3. Unused(h) /\ mali \in BOOLEAN /\ g = Initialised(h, mali)
    BY <1>7, <2>1, <2>2
  <2> HIDE DEF h, mali, g
  <2>4. Whole(g, mali)
    BY <2>3, InitialisedIs
  <2>5. InUse(g, mali, <<>>, s)
    BY <2>4, InUseWhole
  <2> QED
    BY <2>4, <2>5 DEF Whole, Wrapped, g, mali
<1>9. \A t \in Screens : HooksOf(t) \in HookRecord
  <2>1. \A t : Turned(t) => t = s
    BY <1>4
  <2> QED
    BY <1>7, <1>8, <2>1, HooksOfIs
<1>10. ASSUME NEW t \in Screens, Alive'
       PROVE  HooksFit(t)'
  <2>1. CASE t = s
    <3>1. t \in Held' /\ Turned(s)
      BY <1>6, <1>10, <2>1
    <3> QED
      BY <1>7, <1>8, <2>1, <3>1 DEF HooksFit
  <2>2. CASE t # s
    <3>1. ~Turned(t) /\ (t \in Held' <=> t \in Held)
      BY <1>6, <1>10, <2>2
    <3>2. hooks'[t] = hooks[t] /\ scrn'[t] = scrn[t]
      BY <1>2, <1>7, <2>2, <3>1, HooksOfIs
    <3>3. HooksFit(t)
      BY <1>5 DEF LifeInv
    <3> QED
      BY <3>1, <3>2, <3>3 DEF HooksFit
  <2> QED
    BY <2>1, <2>2
<1> QED
  BY <1>5, <1>9, <1>10, ServerConclude

LEMMA VTFits ==
  ASSUME LifeInv, NEW s \in Screens, LeaveVT(s) \/ EnterVT(s), Next, stack = <<>>, stack' = stack,
         hooks' = [t \in Screens |-> HooksOf(t)]
  PROVE  LifeInv'
<1>1. TypeOK
  BY DEF LifeInv, DrmInv
<1>2. PICK phase, next, r, gives_up :
        /\ phase \in {"leaving", "entering"} /\ next \in {"away", "running"}
        /\ Return(s, phase, next, r, gives_up)
        /\ \A t \in Screens : scrn'[t].mali = scrn[t].mali
  <2>1. CASE LeaveVT(s)
    <3>1. PICK outcome \in BOOLEAN, vtSema \in BOOLEAN :
            /\ Return(s, "leaving", "away", DropDRMMaster(Status, outcome), FALSE)
            /\ scrn' = [scrn EXCEPT ![s].vtSema = @ /\ vtSema]
      BY <2>1 DEF LeaveVT
    <3>2. \A t \in Screens : scrn'[t].mali = scrn[t].mali
      BY <1>1, <3>1 DEF TypeOK
    <3> QED
      BY <3>1, <3>2
  <2>2. CASE EnterVT(s)
    <3>1. PICK outcome \in BOOLEAN, modes \in BOOLEAN :
            LET r == EnteredVT(Status, outcome, modes) IN
            /\ Return(s, "entering", "running", r, ~r.ok)
            /\ scrn' = [scrn EXCEPT ![s].vtSema = TRUE]
      BY <2>2 DEF EnterVT
    <3>2. \A t \in Screens : scrn'[t].mali = scrn[t].mali
      BY <1>1, <3>1 DEF TypeOK
    <3> QED
      BY <3>1, <3>2
  <2> QED
    BY <2>1, <2>2
<1>3. phase \notin {"exited", "aborted"} /\ next \notin {phase, "exited", "aborted"}
  BY <1>2
<1>4. /\ server.phase = phase /\ server'.last = server.last
      /\ server'.phase \in {"aborted", "exited", next, phase}
  BY <1>1, <1>2, <1>3, ReturnTurns
<1>5. Alive /\ ~server'.last /\ \A t \in Screens : t \in Held
  BY <1>2, <1>4 DEF Alive, Held, LifeInv
<1>6. Alive' => \A t \in Screens : t \in Held'
  BY <1>2, <1>4, <1>5 DEF Alive, Held
<1>7. \A t \in Screens : HooksOf(t) = hooks[t] /\ hooks'[t] = hooks[t] /\ hooks[t] \in HookRecord
  BY <1>2, <1>4, HooksOfIs DEF LifeInv
<1>8. ASSUME NEW t \in Screens, Alive'
      PROVE  HooksFit(t)'
  BY <1>2, <1>5, <1>6, <1>7, <1>8 DEF LifeInv, HooksFit
<1> QED
  BY <1>5, <1>7, <1>8, ServerConclude

LEMMA CloseScreenFits ==
  ASSUME LifeInv, NEW s \in Screens, CloseScreen(s), Next, stack = <<>>, stack' = stack,
         hooks' = [t \in Screens |-> HooksOf(t)]
  PROVE  LifeInv'
<1>1. TypeOK
  BY DEF LifeInv, DrmInv
<1>2. PICK r :
        /\ Return(s, "closing", "init", r, server.last /\ server.todo = {s})
        /\ \A t \in Screens : t # s => scrn'[t] = scrn[t]
  <2>1. PICK outcome \in BOOLEAN :
          LET r1 == IF scrn[s].mali THEN CloseDevice(Status) ELSE Status
              r == IF scrn[s].vtSema THEN DropDRMMaster(r1, outcome) ELSE r1
              final == server.last /\ server.todo = {s}
          IN /\ Return(s, "closing", "init", r, final)
             /\ scrn' = [scrn EXCEPT ![s].vtSema = FALSE, ![s].mali = FALSE,
                                     ![s].drmFD = @ /\ ~scrn[s].mali]
    BY DEF CloseScreen
  <2>2. \A t \in Screens : t # s => scrn'[t] = scrn[t]
    BY <1>1, <2>1 DEF TypeOK
  <2> QED
    BY <2>1, <2>2
<1> DEFINE phase == "closing"
           next == "init"
           gives_up == server.last /\ server.todo = {s}
<1>3. /\ phase \notin {"exited", "aborted"} /\ next \notin {phase, "exited", "aborted"}
      /\ Return(s, phase, next, r, gives_up)
  BY <1>2
<1> HIDE DEF phase, next, gives_up
<1>4. /\ server.phase = phase /\ s \in server.todo /\ server'.last = server.last
      /\ \/ server'.phase = "aborted" /\ \A t : ~Turned(t)
         \/ /\ gives_up /\ server'.phase = "exited"
            /\ \A t : Turned(t) <=> server.todo = {t} /\ phase = "closing"
         \/ /\ ~gives_up
            /\ \/ /\ server.todo = {s} /\ server'.phase = next
                  /\ next \notin {"running", "away"} => server'.todo = Screens
               \/ /\ server.todo # {s} /\ server'.phase = phase
                  /\ server'.todo = server.todo \ {s}
            /\ \A t : Turned(t) <=> t = s
  BY <1>1, <1>3, ReturnTurns
<1> USE DEF phase, next, gives_up
<1>5. /\ Alive
      /\ \A t \in Screens : t \in Held <=> t \in server.todo
  BY <1>4 DEF Alive, Held
<1>6. server'.last => server'.phase \in {"closing", "exited", "aborted"}
  BY <1>4
<1>7. Alive' => \A t \in Screens : /\ Turned(t) <=> t = s
                                   /\ t \in Held' <=> t \in Held /\ t # s
  <2>1. CASE server'.phase = "exited"
    BY <1>4, <1>5, <2>1 DEF Held
  <2>2. CASE server'.phase = "init"
    BY <1>4, <1>5, <2>2 DEF Held
  <2>3. CASE server'.phase = "closing"
    BY <1>4, <1>5, <2>3 DEF Held
  <2>4. CASE server'.phase \notin {"exited", "init", "closing"}
    BY <1>4, <2>4 DEF Alive
  <2> QED
    BY <2>1, <2>2, <2>3, <2>4
<1>8. ASSUME NEW t \in Screens
      PROVE  hooks[t] \in HookRecord /\ hooks'[t] = HooksOf(t) /\ scrn[t].mali \in BOOLEAN
  BY <1>1 DEF LifeInv, TypeOK
<1>9. ASSUME Turned(s)
      PROVE  Unused(HooksOf(s))
  <2>1. InUse(hooks[s], scrn[s].mali, <<>>, s)
    BY <1>4, <1>5 DEF LifeInv, HooksFit
  <2>2. HooksOf(s) = Closed(hooks[s], scrn[s].mali)
    BY <1>4, <1>9, HooksOfIs
  <2> DEFINE h == hooks[s]
             mali == scrn[s].mali
             g == HooksOf(s)
  <2>3. InUse(h, mali, <<>>, s) /\ mali \in BOOLEAN /\ g = Closed(h, mali)
    BY <1>8, <2>1, <2>2
  <2> HIDE DEF h, mali, g
  <2>4. Whole(h, mali)
    BY <2>3, InUseWhole
  <2>5. Unused(g)
    BY <2>3, <2>4, ClosedIs
  <2> QED
    BY <2>5 DEF g
<1>10. \A t \in Screens : HooksOf(t) \in HookRecord
  <2>1. \A t : Turned(t) => t = s
    BY <1>4
  <2> QED
    BY <1>8, <1>9, <2>1, HooksOfIs DEF Unused
<1>11. ASSUME NEW t \in Screens, Alive'
       PROVE  HooksFit(t)'
  <2>1. CASE t = s
    <3>1. t \notin Held' /\ Turned(s)
      BY <1>7, <1>11, <2>1
    <3> QED
      BY <1>8, <1>9, <2>1, <3>1 DEF HooksFit
  <2>2. CASE t # s
    <3>1. ~Turned(t) /\ (t \in Held' <=> t \in Held)
      BY <1>7, <1>11, <2>2
    <3>2. hooks'[t] = hooks[t] /\ scrn'[t] = scrn[t]
      BY <1>2, <1>8, <2>2, <3>1, HooksOfIs
    <3>3. HooksFit(t)
      BY <1>5 DEF LifeInv
    <3> QED
      BY <3>1, <3>2, <3>3 DEF HooksFit
  <2> QED
    BY <2>1, <2>2
<1> QED
  BY <1>6, <1>10, <1>11, ServerConclude

LEMMA BeginFits ==
  ASSUME LifeInv, SwitchAway \/ SwitchBack \/ Reset \/ Terminate, Next, stack = <<>>, stack' = stack,
         hooks' = [t \in Screens |-> HooksOf(t)]
  PROVE  LifeInv'
<1>1. server \in [phase : Phases, todo : SUBSET Screens, last : BOOLEAN, generation : 1 .. Generations]
  BY DEF LifeInv, DrmInv, TypeOK
<1>2. /\ server.phase \in {"running", "away"} /\ UNCHANGED scrn
      /\ server'.phase \in {"leaving", "entering", "closing"}
      /\ server'.todo = Screens
      /\ server'.phase = "closing" \/ server'.last = server.last
  BY <1>1 DEF SwitchAway, SwitchBack, Begin, Reset, Terminate
<1>3. /\ Alive /\ ~server.last
      /\ \A t \in Screens : t \in Held /\ t \in Held'
  BY <1>2 DEF Alive, Held, LifeInv
<1>4. \A t \in Screens : HooksOf(t) = hooks[t] /\ hooks'[t] = hooks[t] /\ hooks[t] \in HookRecord
  BY <1>2, HooksOfIs DEF LifeInv
<1>5. ASSUME NEW t \in Screens
      PROVE  HooksFit(t)'
  BY <1>2, <1>3, <1>4 DEF LifeInv, HooksFit
<1> QED
  BY <1>2, <1>3, <1>4, <1>5, ServerConclude

LEMMA ServerStepKeeps ==
  ASSUME LifeInv, ServerStep
  PROVE  LifeInv'
<1>1. /\ stack = <<>> /\ stack' = stack /\ Next
      /\ hooks' = [t \in Screens |-> HooksOf(t)]
  BY DEF ServerStep
<1> QED
  BY <1>1, PreInitFits, ScreenInitFits, VTFits, CloseScreenFits, BeginFits DEF Next

LEMMA LifeStepKeeps == LifeInv /\ [LifeNext]_lifeVars => LifeInv'
<1> SUFFICES ASSUME LifeInv, [LifeNext]_lifeVars PROVE LifeInv'
  OBVIOUS
<1>1. CASE LifeNext
  BY <1>1, ServerStepKeeps, CallHookKeeps, CallLastKeeps, ExtensionWrapsKeeps,
     ReturnFromHookKeeps DEF LifeNext
<1>2. CASE UNCHANGED lifeVars
  <2>1. UNCHANGED vars /\ hooks' = hooks /\ stack' = stack
    BY <1>2 DEF lifeVars, vars
  <2>2. DrmInv'
    BY <2>1, StepKeeps DEF LifeInv
  <2>3. server' = server /\ scrn' = scrn
    BY <2>1 DEF vars
  <2>4. Held' = Held /\ (Alive' <=> Alive) /\ (Running' <=> Running)
    BY <2>3 DEF Held, Alive, Running
  <2>5. \A s \in Screens : HooksFit(s)' <=> HooksFit(s)
    BY <2>1, <2>3, <2>4 DEF HooksFit
  <2> QED
    BY <2>1, <2>2, <2>3, <2>4, <2>5 DEF LifeInv
<1> QED
  BY <1>1, <1>2

-----------------------------------------------------------------------------
(***************************************************************************)
(* The theorems.                                                           *)
(***************************************************************************)
\* Whatever the server, the extensions and the calls do, in whatever order: the hooks
\* of a screen are whole from the end of its ScreenInit until its CloseScreen, and
\* none of them is left otherwise.
THEOREM LifeInvariantCorrect == LifeSpec => []LifeInv
BY LifeInitHolds, LifeStepKeeps, PTL DEF LifeSpec

\* The hooks of every screen, and the calls in progress, are what their types say: no
\* function is put back that was never found.
THEOREM LifeTypeCorrect == LifeSpec => []LifeTypeOK
<1>1. LifeInv => LifeTypeOK
  <2> SUFFICES ASSUME LifeInv PROVE LifeTypeOK
    OBVIOUS
  <2>1. TypeOK
    BY DEF LifeInv, DrmInv
  <2>2. hooks \in [Screens -> [config : Configurations, slot : [Slots -> Functions],
                               saved : [Wraps -> Functions \cup {"none"}]]]
    BY DEF LifeInv, HookRecord
  <2>3. stack \in Seq([screen : Screens, function : Functions, slot : Slots, called : BOOLEAN])
    BY DEF LifeInv, StackIs, Frames
  <2> QED
    BY <2>1, <2>2, <2>3 DEF LifeTypeOK
<1> QED
  BY <1>1, LifeInvariantCorrect, PTL

\* A call of a function reaches whoever wrapped it, each once, and then the server,
\* but for those who are being called, on every screen in every generation.
THEOREM ChainIsWholeCorrect == LifeSpec => []ChainIsWhole
<1>1. LifeInv => ChainIsWhole
  <2> SUFFICES ASSUME LifeInv, server.phase \in {"running", "leaving", "away", "entering"},
                      NEW s \in Screens, NEW x \in Slots
               PROVE  \E c \in SetToSeqs(Installed(hooks[s], x) \ InCall(s, x)) : Calls(hooks[s], x, c)
    BY DEF ChainIsWhole
  <2> DEFINE k == Depth(stack, s, x)
             h == hooks[s]
             middle == InCall(s, x)
  <2>1. InUse(h, scrn[s].mali, stack, s)
    BY DEF LifeInv, HooksFit, Held, Alive
  <2>2. PICK n, f : /\ Linked(h, x, k, n, f) /\ Complete(h, x, n, f)
                    /\ \A i \in 1 .. k : stack[i].function = f[i]
    BY <2>1 DEF InUse, Chain
  <2>3. \A who : who \in middle <=> \E i \in 1 .. k : f[i] = who
    <3>1. StackIs(stack) /\ DOMAIN stack = 1 .. Len(stack) /\ Len(stack) \in Nat
      BY DEF LifeInv, StackIs
    <3>2. ASSUME NEW i \in DOMAIN stack
          PROVE  stack[i].screen = s /\ stack[i].slot = x <=> i \in 1 .. k
      <4>1. /\ stack[i].screen = stack[1].screen /\ stack[i].slot = stack[1].slot
            /\ stack # <<>>
        BY <3>1, <3>2 DEF StackIs
      <4> QED
        BY <3>1, <3>2, <4>1 DEF Depth
    <3>3. \A i \in 1 .. k : i \in DOMAIN stack
      BY <3>1 DEF Depth
    <3> HIDE DEF k
    <3>4. \A who : who \in middle <=> \E i \in 1 .. k : stack[i].function = who
      BY <3>2, <3>3 DEF InCall
    <3> QED
      BY <2>2, <3>4
  <2> HIDE DEF k, h, middle
  <2>4. \E c \in SetToSeqs(Installed(h, x) \ middle) : Calls(h, x, c)
    BY <2>2, <2>3, ChainCalls
  <2> QED
    BY <2>4 DEF h, middle
<1> QED
  BY <1>1, LifeInvariantCorrect, PTL

\* No function of the driver is left in a closed screen, whose private records are
\* freed, whoever wrapped the functions in between.
THEOREM NoHookLeftCorrect == LifeSpec => []NoHookLeft
<1>1. LifeInv => NoHookLeft
  <2> SUFFICES ASSUME LifeInv, NEW s \in ClosedScreens,
                      NEW x \in Slots \ {"BlockHandler", "PointerMoved"}
               PROVE  hooks[s].slot[x] \notin Driver
    BY DEF NoHookLeft
  <2>1. server.todo \in SUBSET Screens
    BY DEF LifeInv, DrmInv, TypeOK
  <2>2. s \in Screens /\ s \notin Held /\ Alive
    BY <2>1 DEF ClosedScreens, Held, Alive
  <2>3. Unused(hooks[s])
    BY <2>2 DEF LifeInv, HooksFit
  <2> QED
    BY <2>3 DEF Unused
<1> QED
  BY <1>1, LifeInvariantCorrect, PTL

\* The calls of the functions leave DrmMaster's connection alone: what is proved of
\* Spec holds with them, too.
THEOREM LifeImplementsMaster == LifeSpec => Spec
<1>1. LifeInit => Init
  BY DEF LifeInit
<1>2. [LifeNext]_lifeVars => [Next]_vars
  BY DEF LifeNext, ServerStep, CallHook, CallLast, ExtensionWraps, ReturnFromHook, lifeVars, vars
<1> QED
  BY <1>1, <1>2, PTL DEF LifeSpec, Spec
=============================================================================
