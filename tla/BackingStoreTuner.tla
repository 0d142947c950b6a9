------------------------- MODULE BackingStoreTuner --------------------------
(***************************************************************************)
(* The heuristics of backing_store_tuner.c: after every change of the      *)
(* window tree, xPostValidateTree takes backing store away from the        *)
(* top-level window with the keyboard focus and gives it to the others.    *)
(* ChangeWindowAttributes, which it calls for that, redirects the window   *)
(* and may so end in a nested xPostValidateTree.                           *)
(*                                                                         *)
(* The calls in progress are a stack of frames, the last one running.      *)
(***************************************************************************)
EXTENDS Integers, Sequences, FiniteSets

CONSTANTS
  Tops,               \* windows that may be children of the root
  NoWin,              \* no focus window, or one that is not below the root
  ForceBackingStore,
  CounterRange,       \* PostValidateTreeCount wraps here; 2^32 in the code
  MaxNesting          \* 4 in the code

ASSUME BackingStoreTunerAssumption ==
  /\ IsFiniteSet(Tops)
  /\ NoWin \notin Tops
  /\ ForceBackingStore \in BOOLEAN
  /\ MaxNesting \in Nat
  /\ CounterRange \in Nat /\ CounterRange > MaxNesting + 2

VARIABLES
  children,  \* the children of the root
  focus,     \* the one that has the keyboard focus
  back,      \* the windows with backStorage set
  frames,    \* the calls of xPostValidateTree in progress
  count,     \* PostValidateTreeCount
  nesting,   \* PostValidateTreeNestingLevel
  job        \* history: the windows the outermost call found to change

vars == <<children, focus, back, frames, count, nesting, job>>

\* left: the siblings the loop has not come to; change: the window for which
\* ChangeWindowAttributes is running, and what backStorage becomes.
Frame == [count : 0 .. CounterRange - 1, step : {"entry", "focus", "scan", "return"},
          left : SUBSET Tops, change : Tops \union {NoWin}, on : BOOLEAN]

TypeOK ==
  /\ children \in SUBSET Tops
  /\ focus \in Tops \union {NoWin}
  /\ back \in SUBSET Tops
  /\ frames \in Seq(Frame)
  /\ count \in 0 .. CounterRange - 1
  /\ nesting \in 0 .. MaxNesting + 1
  /\ job \in SUBSET Tops

Init ==
  /\ children = {} /\ focus = NoWin /\ back = {}
  /\ frames = <<>> /\ count = 0 /\ nesting = 0 /\ job = {}

-----------------------------------------------------------------------------
Idle == frames = <<>>

Running == frames[Len(frames)]

Wanted(w) == ForceBackingStore \/ w # focus

\* The windows whose backing store is not what the heuristics wants.
Misfits == IF focus = NoWin THEN {}
           ELSE {w \in children : (w \in back) # Wanted(w)}

Continue(f) == frames' = [frames EXCEPT ![Len(frames)] = f]

Call ==
  [count |-> (count + 1) % CounterRange, step |-> "entry", left |-> {},
   change |-> NoWin, on |-> FALSE]

\* What the server does to the tree or to the focus before the hook runs.  A
\* window that is no longer a child of the root has lost its backing store:
\* destroyed with it, or in xReparentWindow.
TreeChange(c, f) ==
  /\ Idle
  /\ children' = c
  /\ focus' = f
  /\ back' = back \intersect c
  /\ frames' = <<Call>>
  /\ count' = Call.count
  /\ job' = IF f = NoWin THEN {} ELSE {w \in c : (w \in back') # (ForceBackingStore \/ w # f)}
  /\ UNCHANGED nesting

AddChild(w) == w \notin children /\ TreeChange(children \union {w}, focus)

RemoveChild(w) ==
  /\ w \in children
  /\ TreeChange(children \ {w}, IF focus = w THEN NoWin ELSE focus)

\* Moving the focus runs no hook; the next change of the tree does.
SetFocus(f) ==
  /\ Idle
  /\ f \in children \union {NoWin}
  /\ focus' = f
  /\ job' = {}
  /\ UNCHANGED <<children, back, frames, count, nesting>>

AnyChange == TreeChange(children, focus)

\* Mutated form: no limit on the nesting.
NestingIsFine == FALSE

\* Mutated form: the limit is one too low.
NestingStopsEarly == nesting >= MaxNesting

TooMuchNesting == nesting > MaxNesting

\* The early returns, and PostValidateTreeNestingLevel++.  null: pWin is NULL, as
\* it is when the server maps a window; the call that ends a redirection has one.
Enter(null) ==
  /\ ~Idle /\ Running.step = "entry"
  /\ null => Len(frames) = 1
  /\ IF null \/ focus = NoWin \/ TooMuchNesting
     THEN Continue([Running EXCEPT !.step = "return"]) /\ UNCHANGED nesting
     ELSE Continue([Running EXCEPT !.step = "focus"]) /\ nesting' = nesting + 1
  /\ job' = IF null THEN {} ELSE job
  /\ UNCHANGED <<children, focus, back, count>>

\* ChangeWindowAttributes.  A window that is redirected, or no longer, may end
\* in a nested call, before or after its backStorage is set; a window for which
\* that is under way already is not redirected again.
ChangeBackingStore(w, on, f, nested) ==
  LET changed == IF on THEN back \union {w} ELSE back \ {w}
      caller == [f EXCEPT !.change = w, !.on = on]
  IN IF nested
     THEN /\ \A i \in 1 .. Len(frames) : frames[i].change # w
          /\ frames' = Append([frames EXCEPT ![Len(frames)] = caller], Call)
          /\ count' = Call.count
          /\ back' \in {back, changed}
     ELSE /\ Continue(f)
          /\ back' = changed
          /\ UNCHANGED count

\* Disable backing store for the focus window.
DisableFocus(nested) ==
  LET scan == [Running EXCEPT !.step = "scan", !.left = children] IN
  /\ ~Idle /\ Running.step = "focus" /\ Running.change = NoWin
  /\ IF ~ForceBackingStore /\ focus \in back
     THEN ChangeBackingStore(focus, FALSE, scan, nested)
     ELSE Continue(scan) /\ UNCHANGED <<back, count>>
  /\ UNCHANGED <<children, focus, nesting, job>>

\* Mutated form: curWin does not advance.
StaySibling(f, w) == f

NextSibling(f, w) == [f EXCEPT !.left = @ \ {w}]

\* One round of the loop; left is visited in any order, as the stacking is.
EnableNext(w, nested) ==
  /\ ~Idle /\ Running.step = "scan" /\ Running.change = NoWin
  /\ w \in Running.left
  /\ IF w \notin back /\ Wanted(w)
     THEN ChangeBackingStore(w, TRUE, NextSibling(Running, w), nested)
     ELSE Continue(NextSibling(Running, w)) /\ UNCHANGED <<back, count>>
  /\ UNCHANGED <<children, focus, nesting, job>>

\* Mutated form: the early return after a nested call forgets the level.
LevelKept(f) == IF f.change = NoWin THEN nesting - 1 ELSE nesting

LevelAfter(f) == nesting - 1

\* The end of the loop, or the return because a nested call was detected.
Finish ==
  /\ ~Idle
  /\ \/ Running.step = "scan" /\ Running.change = NoWin /\ Running.left = {}
     \/ Running.change # NoWin /\ Running.count # count
  /\ nesting' = LevelAfter(Running)
  /\ Continue([Running EXCEPT !.step = "return", !.change = NoWin])
  /\ UNCHANGED <<children, focus, back, count, job>>

\* Back to the caller; ChangeWindowAttributes completes there.
Return ==
  LET callers == SubSeq(frames, 1, Len(frames) - 1)
      caller == callers[Len(callers)]
  IN /\ ~Idle /\ Running.step = "return"
     /\ frames' = callers
     /\ back' = IF callers = <<>> THEN back
                ELSE IF caller.on THEN back \union {caller.change}
                                  ELSE back \ {caller.change}
     /\ UNCHANGED <<children, focus, count, nesting, job>>

Step ==
  \/ \E null \in BOOLEAN : Enter(null)
  \/ \E nested \in BOOLEAN : \/ DisableFocus(nested)
                             \/ \E w \in Tops : EnableNext(w, nested)
  \/ Finish
  \/ Return

Server ==
  \/ \E w \in Tops : AddChild(w) \/ RemoveChild(w)
  \/ \E f \in Tops \union {NoWin} : SetFocus(f)
  \/ AnyChange

Next == Server \/ Step

\* The call in progress runs on: the server is one thread.
Spec == Init /\ [][Next]_vars /\ WF_vars(Step)

-----------------------------------------------------------------------------
\* Whatever nests in whatever, the recursion is bounded: xPostValidateTree is
\* entered at most MaxNesting + 2 times before one of the calls returns.
BoundedRecursion == Len(frames) <= MaxNesting + 2

\* Every return path gives its level back: between two changes of the tree the
\* level is 0, so that the limit never comes nearer.
LevelIsBalanced ==
  nesting = Cardinality({i \in 1 .. Len(frames) : frames[i].step \in {"focus", "scan"}})

\* The nested call does the job of the call that bails out, as long as it is
\* no longer than the nesting allowed.
ShortJobIsDone == Idle /\ Cardinality(job) <= MaxNesting + 1 => job \intersect Misfits = {}

\* Every call of the hook returns.
CallsReturn == []<>Idle
=============================================================================
