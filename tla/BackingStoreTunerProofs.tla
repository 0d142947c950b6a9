---------------------- MODULE BackingStoreTunerProofs -----------------------
(***************************************************************************)
(* The recursion of backing_store_tuner.c is bounded, gives every level    *)
(* back, and does its job, for every number of windows and every limit on  *)
(* the nesting.                                                            *)
(*                                                                         *)
(* The inductive invariant has three parts beside the types.  WellNested   *)
(* says what a stack of calls looks like: every call but the last has      *)
(* counted itself and waits for ChangeWindowAttributes.  Purposeful says   *)
(* which window each of them is changing.  OnTrack says who will bring a   *)
(* window to what the heuristics wants: a call that waits, the loop of the *)
(* last call, or, when the last call has only just begun, that call.       *)
(***************************************************************************)
EXTENDS BackingStoreTuner, SequenceTheorems, FiniteSetTheorems, TLAPS

-----------------------------------------------------------------------------
Active == {"focus", "scan"}

Calls == 1 .. Len(frames)

Callers == 1 .. Len(frames) - 1

\* The windows for which ChangeWindowAttributes runs below the last call.
InProgress == {frames[i].change : i \in Callers}

WellNested ==
  /\ \A i \in Callers : frames[i].step \in Active /\ frames[i].change # NoWin
  /\ ~Idle /\ Running.step \notin Active => Running.change = NoWin
  /\ nesting = Len(frames) - (IF Idle \/ Running.step \in Active THEN 0 ELSE 1)
  /\ BoundedRecursion

\* What a call is about.
Meant(f) ==
  /\ f.step \in Active => focus # NoWin
  /\ f.left \subseteq children
  /\ f.change # NoWin => /\ f.on <=> Wanted(f.change)
                         /\ job # {} => f.change \in job

\* What is being changed is a window that had to be, and to what it has to be;
\* and it is being changed once.
Purposeful ==
  /\ focus \in children \union {NoWin}
  /\ \A i \in Calls : Meant(frames[i])
  /\ \A i, j \in Callers : frames[i].change = frames[j].change => i = j

Short == job # {} /\ Cardinality(job) <= MaxNesting + 1

OnTrack ==
  /\ job # {} => Misfits \subseteq job
  /\ Short /\ (Idle \/ Running.step = "return" \/ Running.change # NoWin)
       => Misfits \subseteq InProgress
  /\ Short /\ ~Idle /\ Running.step = "scan" /\ Running.change = NoWin
       => /\ Misfits \subseteq InProgress \union Running.left
          /\ ~ForceBackingStore => focus \notin Misfits \ InProgress

IInv == TypeOK /\ WellNested /\ Purposeful /\ OnTrack

-----------------------------------------------------------------------------
(***************************************************************************)
(* The stack of calls.                                                     *)
(***************************************************************************)

\* The fields of a new call.
LEMMA CallIsFrame ==
  ASSUME TypeOK
  PROVE  /\ Call \in Frame
         /\ Call.step = "entry" /\ Call.left = {} /\ Call.change = NoWin
         /\ Call.count \in 0 .. CounterRange - 1
  BY BackingStoreTunerAssumption DEF TypeOK, Call, Frame

\* The call that runs, as a frame.
LEMMA RunningIsFrame ==
  ASSUME TypeOK, ~Idle
  PROVE  /\ Running \in Frame
         /\ Len(frames) \in Nat \ {0}
         /\ Len(frames) \in Calls
         /\ Running.step \in {"entry", "focus", "scan", "return"}
         /\ Running.left \subseteq Tops
         /\ Running.change \in Tops \union {NoWin}
         /\ Running.on \in BOOLEAN
  <1>1. Len(frames) \in Nat \ {0}
    BY EmptySeq DEF TypeOK, Idle
  <1>2. Running \in Frame
    BY <1>1, ElementOfSeq DEF TypeOK, Running
  <1> QED
    BY <1>1, <1>2 DEF Frame, Calls

\* Every call, as a frame.
LEMMA CallsAreFrames ==
  ASSUME TypeOK, NEW i \in Calls
  PROVE  /\ frames[i] \in Frame
         /\ frames[i].left \subseteq Tops
         /\ frames[i].change \in Tops \union {NoWin}
  <1>1. frames[i] \in Frame
    BY ElementOfSeq DEF TypeOK, Calls
  <1> QED
    BY <1>1 DEF Frame

\* The last call goes on with other fields.
LEMMA ContinueStack ==
  ASSUME TypeOK, ~Idle, NEW f \in Frame, Continue(f)
  PROVE  /\ frames' \in Seq(Frame) /\ ~Idle'
         /\ Len(frames') = Len(frames)
         /\ Calls' = Calls /\ Callers' = Callers
         /\ Running' = f
         /\ \A i \in Callers : frames'[i] = frames[i]
         /\ InProgress' = InProgress
  <1>1. Len(frames) \in 1 .. Len(frames) /\ Len(frames) \in Nat
    BY RunningIsFrame
  <1>2. /\ frames' \in Seq(Frame)
        /\ Len(frames') = Len(frames)
        /\ \A i \in Calls : frames'[i] = IF i = Len(frames) THEN f ELSE frames[i]
    BY <1>1, ExceptSeq DEF TypeOK, Continue, Calls
  <1>3. \A i \in Callers : frames'[i] = frames[i]
    BY <1>1, <1>2 DEF Calls, Callers
  <1>4. Running' = f
    BY <1>1, <1>2 DEF Running, Calls
  <1>5. ~Idle'
    BY <1>1, <1>2, EmptySeq DEF Idle
  <1>6. Calls' = Calls /\ Callers' = Callers
    BY <1>2 DEF Calls, Callers
  <1> QED
    BY <1>2, <1>3, <1>4, <1>5, <1>6 DEF InProgress

\* The last call waits with the fields f, and g runs above it.
LEMMA NestStack ==
  ASSUME TypeOK, ~Idle, NEW f \in Frame, NEW g \in Frame,
         frames' = Append([frames EXCEPT ![Len(frames)] = f], g)
  PROVE  /\ frames' \in Seq(Frame) /\ ~Idle'
         /\ Len(frames') = Len(frames) + 1
         /\ Calls' = Calls \union {Len(frames) + 1} /\ Callers' = Calls
         /\ Calls = Callers \union {Len(frames)} /\ Len(frames) \notin Callers
         /\ Running' = g
         /\ frames'[Len(frames)] = f
         /\ \A i \in Callers : frames'[i] = frames[i]
         /\ InProgress' = InProgress \union {f.change}
  <1> DEFINE s == [frames EXCEPT ![Len(frames)] = f]
  <1>1. Len(frames) \in 1 .. Len(frames) /\ Len(frames) \in Nat \ {0}
    BY RunningIsFrame DEF Calls
  <1>2. /\ s \in Seq(Frame)
        /\ Len(s) = Len(frames)
        /\ \A i \in 1 .. Len(frames) : s[i] = IF i = Len(frames) THEN f ELSE frames[i]
    BY <1>1, ExceptSeq DEF TypeOK
  <1> HIDE DEF s
  <1>3. frames' = Append(s, g)
    BY DEF s
  <1>4. /\ frames' \in Seq(Frame)
        /\ Len(frames') = Len(s) + 1
        /\ frames'[Len(s) + 1] = g
        /\ \A i \in 1 .. Len(s) : frames'[i] = s[i]
    <2>1. /\ Append(s, g) \in Seq(Frame)
          /\ Len(Append(s, g)) = Len(s) + 1
          /\ \A i \in 1 .. Len(s) : Append(s, g)[i] = s[i]
          /\ Append(s, g)[Len(s) + 1] = g
      BY <1>2, AppendProperties
    <2> QED
      BY <1>3, <2>1
  <1>5. \A i \in Callers : frames'[i] = frames[i]
    BY <1>1, <1>2, <1>4 DEF Callers
  <1>6. Running' = g /\ frames'[Len(frames)] = f
    BY <1>1, <1>2, <1>4 DEF Running
  <1>7. ~Idle'
    BY <1>1, <1>2, <1>4, EmptySeq DEF Idle
  <1>8. /\ Calls' = Calls \union {Len(frames) + 1} /\ Callers' = Calls
        /\ Calls = Callers \union {Len(frames)} /\ Len(frames) \notin Callers
    BY <1>1, <1>2, <1>4 DEF Calls, Callers
  <1>9. InProgress' = InProgress \union {f.change}
    BY <1>5, <1>6, <1>8 DEF InProgress
  <1> QED
    BY <1>2, <1>4, <1>5, <1>6, <1>7, <1>8, <1>9

\* The last call returns.
LEMMA ReturnStack ==
  ASSUME TypeOK, ~Idle, frames' = SubSeq(frames, 1, Len(frames) - 1)
  PROVE  /\ frames' \in Seq(Frame)
         /\ Len(frames') = Len(frames) - 1
         /\ Calls' = Callers
         /\ \A i \in Callers : frames'[i] = frames[i]
         /\ Idle' <=> Len(frames) = 1
         /\ ~Idle' => /\ Len(frames) - 1 \in Callers
                      /\ Running' = frames[Len(frames) - 1]
                      /\ Callers = Callers' \union {Len(frames) - 1}
                      /\ Len(frames) - 1 \notin Callers'
  <1>1. Len(frames) \in Nat \ {0}
    BY RunningIsFrame
  <1>2. \A i \in 1 .. Len(frames) - 1 : frames[i] \in Frame
    BY <1>1, ElementOfSeq DEF TypeOK
  <1> DEFINE n == Len(frames) - 1
  <1>n. n \in Int /\ 1 \in Int
    BY <1>1
  <1> HIDE DEF n
  <1>s. /\ SubSeq(frames, 1, n) \in Seq(Frame)
        /\ Len(SubSeq(frames, 1, n)) = IF 1 <= n THEN n - 1 + 1 ELSE 0
        /\ \A i \in 1 .. n - 1 + 1 : SubSeq(frames, 1, n)[i] = frames[1 + i - 1]
    <2>1. \A i \in 1 .. n : frames[i] \in Frame
      BY <1>2 DEF n
    <2> QED
      BY <1>n, <2>1, SubSeqProperties
  <1>3. /\ frames' \in Seq(Frame)
        /\ Len(frames') = IF 1 <= n THEN n - 1 + 1 ELSE 0
        /\ \A i \in 1 .. n - 1 + 1 : frames'[i] = frames[1 + i - 1]
    BY <1>s DEF n
  <1>4. Len(frames') = Len(frames) - 1
    <2>1. n \in Nat
      BY <1>1 DEF n
    <2>2. (IF 1 <= n THEN n - 1 + 1 ELSE 0) = n
      BY <2>1
    <2> QED
      BY <1>3, <2>2 DEF n
  <1>5. \A i \in Callers : frames'[i] = frames[i]
    BY <1>1, <1>3 DEF Callers, n
  <1>6. Idle' <=> Len(frames) = 1
    <2>1. frames' # << >> => Len(frames') \in Nat \ {0}
      BY <1>3, EmptySeq
    <2>2. frames' = << >> => Len(frames') = 0
      BY EmptySeq
    <2>3. Len(frames) = 1 <=> Len(frames') = 0
      BY <1>1, <1>4
    <2> QED
      BY <2>1, <2>2, <2>3 DEF Idle
  <1>7. Calls' = Callers
    BY <1>4 DEF Calls, Callers
  <1>8. ASSUME ~Idle'
        PROVE  /\ Len(frames) - 1 \in Callers
               /\ Callers = Callers' \union {Len(frames) - 1}
               /\ Len(frames) - 1 \notin Callers'
    BY <1>1, <1>4, <1>6, <1>8 DEF Callers
  <1>9. ~Idle' => Running' = frames[Len(frames) - 1]
    BY <1>4, <1>5, <1>8 DEF Running
  <1> QED
    BY <1>3, <1>4, <1>5, <1>6, <1>7, <1>8, <1>9

\* A stack whose last call went on nests as before, if the level fits the call.
LEMMA ContinueNests ==
  ASSUME TypeOK, WellNested, ~Idle, NEW f \in Frame, Continue(f),
         f.step \notin Active => f.change = NoWin,
         nesting' = Len(frames) - (IF f.step \in Active THEN 0 ELSE 1)
  PROVE  WellNested'
  BY ContinueStack DEF WellNested, BoundedRecursion

\* A call that has counted itself may wait for a nested one: the limit on the
\* level is one on the stack.
LEMMA NestNests ==
  ASSUME TypeOK, WellNested, ~Idle, Running.step \in Active,
         NEW f \in Frame, f.step \in Active, f.change # NoWin,
         frames' = Append([frames EXCEPT ![Len(frames)] = f], Call),
         UNCHANGED nesting
  PROVE  WellNested'
  <1>1. /\ Call \in Frame /\ Call.step = "entry" /\ Call.change = NoWin
        /\ Len(frames) \in Nat
        /\ nesting \in 0 .. MaxNesting + 1 /\ MaxNesting \in Nat
    BY CallIsFrame, RunningIsFrame, BackingStoreTunerAssumption DEF TypeOK
  <1>2. /\ ~Idle' /\ Len(frames') = Len(frames) + 1
        /\ Callers' = Calls /\ Calls = Callers \union {Len(frames)}
        /\ Running' = Call
        /\ frames'[Len(frames)] = f
        /\ \A i \in Callers : frames'[i] = frames[i]
    BY <1>1, NestStack
  <1>3. \A i \in Callers' : frames'[i].step \in Active /\ frames'[i].change # NoWin
    BY <1>2 DEF WellNested
  <1>4. nesting' = Len(frames') - 1 /\ Len(frames') <= MaxNesting + 2
    BY <1>1, <1>2 DEF WellNested
  <1>5. "entry" \notin Active
    BY DEF Active
  <1> QED
    BY <1>1, <1>2, <1>3, <1>4, <1>5 DEF WellNested, BoundedRecursion

\* A stack whose last call went on with a purpose is as purposeful as before.
LEMMA ContinueMeans ==
  ASSUME TypeOK, Purposeful, ~Idle, NEW f \in Frame, Continue(f), Meant(f),
         UNCHANGED <<focus, children>>, job' = job \/ job' = {}
  PROVE  Purposeful'
  <1>1. /\ Calls' = Calls /\ Callers' = Callers /\ Running' = f
        /\ Len(frames') = Len(frames)
        /\ \A i \in Callers : frames'[i] = frames[i]
        /\ frames'[Len(frames)] = f
        /\ Calls = Callers \union {Len(frames)}
    BY ContinueStack, RunningIsFrame DEF Running, Calls, Callers
  <1>2. ASSUME NEW i \in Calls' PROVE Meant(frames'[i])
    <2>1. frames'[i] = f \/ (frames'[i] = frames[i] /\ i \in Calls)
      BY <1>1
    <2> QED
      BY <2>1 DEF Purposeful, Meant
  <1>4. ASSUME NEW i \in Calls'
        PROVE  Meant(frames[i])'
    BY <1>2 DEF Meant, Wanted
  <1>5. \A i, j \in Callers' : frames'[i].change = frames'[j].change => i = j
    BY <1>1 DEF Purposeful
  <1> QED
    BY <1>4, <1>5 DEF Purposeful

\* So is one whose last call waits for a new one, if nobody changes the same
\* window already.
LEMMA NestMeans ==
  ASSUME TypeOK, Purposeful, ~Idle, NEW f \in Frame, Meant(f),
         frames' = Append([frames EXCEPT ![Len(frames)] = f], Call),
         \A i \in Calls : frames[i].change # f.change,
         UNCHANGED <<focus, children, job>>
  PROVE  Purposeful'
  <1>1. Call \in Frame /\ Call.step = "entry" /\ Call.left = {} /\ Call.change = NoWin
    BY CallIsFrame
  <1>2. /\ Calls' = Calls \union {Len(frames) + 1} /\ Callers' = Calls
        /\ Calls = Callers \union {Len(frames)} /\ Len(frames) \notin Callers
        /\ Len(frames') = Len(frames) + 1
        /\ Running' = Call
        /\ frames'[Len(frames)] = f
        /\ \A i \in Callers : frames'[i] = frames[i]
    BY <1>1, NestStack
  <1>3. Meant(Call)
    BY <1>1 DEF Meant, Active
  <1>4. ASSUME NEW i \in Calls' PROVE Meant(frames'[i])
    <2>1. frames'[Len(frames) + 1] = Call
      BY <1>2 DEF Running
    <2>2. frames'[i] \in {f, Call} \/ (frames'[i] = frames[i] /\ i \in Calls)
      BY <1>2, <2>1
    <2> QED
      BY <2>2, <1>3 DEF Purposeful, Meant
  <1>6. ASSUME NEW i \in Calls'
        PROVE  Meant(frames[i])'
    BY <1>4 DEF Meant, Wanted
  <1>7. \A i, j \in Callers' : frames'[i].change = frames'[j].change => i = j
    <2>1. \A i \in Callers : frames[i].change # f.change
      BY <1>2
    <2>2. \A i, j \in Callers : frames[i].change = frames[j].change => i = j
      BY DEF Purposeful
    <2> SUFFICES ASSUME NEW i \in Calls, NEW j \in Calls,
                        frames'[i].change = frames'[j].change
                 PROVE  i = j
      BY <1>2
    <2>3. CASE i \in Callers /\ j \in Callers
      BY <1>2, <2>2, <2>3
    <2>4. CASE i \in Callers /\ j = Len(frames)
      BY <1>2, <2>1, <2>4
    <2>5. CASE i = Len(frames) /\ j \in Callers
      BY <1>2, <2>1, <2>5
    <2> QED
      BY <1>2, <2>3, <2>4, <2>5
  <1> QED
    BY <1>6, <1>7 DEF Purposeful

-----------------------------------------------------------------------------
(***************************************************************************)
(* The windows that are not as wanted.                                     *)
(***************************************************************************)

LEMMA MisfitIs ==
  \A w : w \in Misfits <=>
    /\ focus # NoWin /\ w \in children
    /\ w \in back => ~Wanted(w)
    /\ w \notin back => Wanted(w)
  BY DEF Misfits, Wanted

\* The same before and after a step that only changes back.
LEMMA MisfitWillBe ==
  ASSUME UNCHANGED <<focus, children>>
  PROVE  \A w : w \in Misfits' <=>
           /\ focus # NoWin /\ w \in children
           /\ w \in back' => ~Wanted(w)
           /\ w \notin back' => Wanted(w)
  BY DEF Misfits, Wanted

\* A change to what is wanted makes no misfit, and the window is none.
LEMMA MisfitsShrink ==
  ASSUME UNCHANGED <<focus, children>>, NEW w, NEW on \in BOOLEAN, on <=> Wanted(w),
         back' = IF on THEN back \union {w} ELSE back \ {w}
  PROVE  Misfits' \subseteq Misfits \ {w}
  <1>1. CASE on
    <2>1. Wanted(w) /\ back' = back \union {w}
      BY <1>1
    <2> QED
      BY <2>1, MisfitIs, MisfitWillBe
  <1>2. CASE ~on
    <2>1. ~Wanted(w) /\ back' = back \ {w}
      BY <1>2
    <2> QED
      BY <2>1, MisfitIs, MisfitWillBe
  <1> QED
    BY <1>1, <1>2

-----------------------------------------------------------------------------
(***************************************************************************)
(* What the server does between the calls.                                 *)
(***************************************************************************)

\* After a change of the tree one call begins, and its job is all misfits.
LEMMA TreeChangeSteps ==
  ASSUME IInv, NEW c \in SUBSET Tops, NEW f \in c \union {NoWin}, TreeChange(c, f)
  PROVE  IInv'
  <1>1. TypeOK /\ WellNested /\ Idle
    BY DEF IInv, TreeChange
  <1>2. /\ Call \in Frame
        /\ Call.step = "entry" /\ Call.left = {} /\ Call.change = NoWin
        /\ Call.count \in 0 .. CounterRange - 1
    BY <1>1, CallIsFrame
  <1> DEFINE g == Call
  <1>3. frames' = <<g>> /\ g \in Frame /\ g.step = "entry" /\ g.left = {} /\ g.change = NoWin
    BY <1>2 DEF TreeChange
  <1> HIDE DEF g
  <1>4. /\ frames' \in Seq(Frame) /\ Len(frames') = 1 /\ frames'[1] = g /\ ~Idle'
    BY <1>3 DEF Idle
  <1>5. Running' = g /\ Callers' = {} /\ Calls' = {1}
    BY <1>4 DEF Running, Callers, Calls
  <1>6. nesting = 0 /\ MaxNesting \in Nat
    <2>1. Len(frames) = 0
      BY <1>1 DEF Idle
    <2>2. nesting = Len(frames) - 0
      BY <1>1 DEF WellNested
    <2> QED
      BY <1>1, <2>1, <2>2, BackingStoreTunerAssumption
  <1>7. job' = Misfits' /\ Misfits' \subseteq Tops
    <2>1. CASE f = NoWin
      BY <2>1 DEF TreeChange, Misfits
    <2>2. CASE f # NoWin
      <3>1. children' = c /\ focus' = f
        BY DEF TreeChange
      <3>2. Misfits' = {w \in c : (w \in back') # (ForceBackingStore \/ w # f)}
        BY <2>2, <3>1 DEF Misfits, Wanted
      <3>3. job' = {w \in c : (w \in back') # (ForceBackingStore \/ w # f)}
        BY <2>2 DEF TreeChange
      <3> QED
        BY <3>2, <3>3
    <2> QED
      BY <2>1, <2>2
  <1>8. TypeOK'
    <2>1. /\ children' \in SUBSET Tops /\ focus' \in Tops \union {NoWin}
          /\ back' \in SUBSET Tops /\ nesting' = nesting
          /\ count' \in 0 .. CounterRange - 1
      BY <1>1, <1>2 DEF TypeOK, TreeChange
    <2> QED
      BY <1>1, <1>4, <1>7, <2>1 DEF TypeOK
  <1>9. WellNested'
    <2>1. g.step \notin Active /\ nesting' = 0
      BY <1>3, <1>6 DEF Active, TreeChange
    <2> QED
      BY <1>3, <1>4, <1>5, <1>6, <2>1 DEF WellNested, BoundedRecursion
  <1>10. Purposeful'
    <2>1. focus' \in children' \union {NoWin}
      BY DEF TreeChange
    <2>2. Meant(frames[1])'
      BY <1>3, <1>4 DEF Meant, Active
    <2> QED
      BY <1>5, <2>1, <2>2 DEF Purposeful
  <1>11. OnTrack'
    BY <1>3, <1>4, <1>5, <1>7 DEF OnTrack
  <1> QED
    BY <1>8, <1>9, <1>10, <1>11 DEF IInv

\* Moving the focus leaves no job.
LEMMA SetFocusSteps ==
  ASSUME IInv, NEW f \in Tops \union {NoWin}, SetFocus(f)
  PROVE  IInv'
  <1>1. /\ TypeOK /\ WellNested /\ Idle /\ Idle'
        /\ focus' \in children' \union {NoWin} /\ job' = {}
        /\ UNCHANGED <<children, back, frames, count, nesting>>
    BY DEF IInv, SetFocus, Idle
  <1>2. TypeOK'
    BY <1>1 DEF TypeOK, Frame
  <1>3. WellNested'
    BY <1>1 DEF WellNested, BoundedRecursion, Callers, Idle, Running
  <1>4. Purposeful'
    <2>1. Calls' = {} /\ Callers' = {}
      BY <1>1 DEF Calls, Callers, Idle
    <2> QED
      BY <1>1, <2>1 DEF Purposeful
  <1>5. OnTrack'
    BY <1>1 DEF OnTrack, Short
  <1> QED
    BY <1>2, <1>3, <1>4, <1>5 DEF IInv

-----------------------------------------------------------------------------
(***************************************************************************)
(* The calls.                                                              *)
(***************************************************************************)

\* Whoever returns because of the limit is above as many calls as the job has
\* windows, and each of them changes one.
LEMMA FullStackDoesJob ==
  ASSUME TypeOK, WellNested, Purposeful, ~Idle, Running.step \notin Active,
         TooMuchNesting, Short
  PROVE  job = InProgress
  <1>1. /\ Len(frames) \in Nat \ {0} /\ MaxNesting \in Nat
        /\ nesting \in 0 .. MaxNesting + 1
    BY RunningIsFrame, BackingStoreTunerAssumption DEF TypeOK
  <1>2. Len(frames) - 1 = MaxNesting + 1
    BY <1>1 DEF WellNested, TooMuchNesting
  <1>3. IsFiniteSet(job) /\ Cardinality(job) \in Nat
    BY FS_Subset, FS_CardinalityType, BackingStoreTunerAssumption DEF TypeOK
  <1>4. Cardinality(Callers) = MaxNesting + 1 /\ IsFiniteSet(Callers)
    <2>1. Callers = 1 .. MaxNesting + 1
      BY <1>2 DEF Callers
    <2>2. /\ IsFiniteSet(1 .. MaxNesting + 1)
          /\ Cardinality(1 .. MaxNesting + 1) =
               IF 1 > MaxNesting + 1 THEN 0 ELSE (MaxNesting + 1) - 1 + 1
      BY <1>1, FS_Interval
    <2> QED
      BY <1>1, <2>1, <2>2
  <1> DEFINE t == [i \in Callers |-> frames[i].change]
  <1>5. t \in Injection(Callers, job)
    <2>1. \A i \in Callers : frames[i].change \in job
      BY DEF Purposeful, Meant, WellNested, Short, Calls, Callers
    <2>2. \A i, j \in Callers : t[i] = t[j] => i = j
      BY DEF Purposeful
    <2> QED
      BY <2>1, <2>2 DEF Injection, IsInjective
  <1>6. /\ Cardinality(Callers) <= Cardinality(job)
        /\ Cardinality(Callers) = Cardinality(job) <=> t \in Surjection(Callers, job)
    BY <1>3, <1>5, FS_Injection
  <1>7. Cardinality(Callers) = Cardinality(job)
    BY <1>1, <1>3, <1>4, <1>6 DEF Short
  <1>8. t \in Surjection(Callers, job)
    BY <1>6, <1>7
  <1>9. \A w \in job : \E i \in Callers : frames[i].change = w
    BY <1>8 DEF Surjection
  <1>10. \A i \in Callers : frames[i].change \in job
    BY <1>5 DEF Injection
  <1> QED
    BY <1>9, <1>10 DEF InProgress

\* A call that goes on keeps the invariant, if its new fields do.
LEMMA ContinueSteps ==
  ASSUME IInv, ~Idle, NEW f \in Frame, Continue(f), Meant(f),
         f.step \notin Active => f.change = NoWin,
         nesting' = Len(frames) - (IF f.step \in Active THEN 0 ELSE 1),
         nesting' \in 0 .. MaxNesting + 1,
         back' \in SUBSET Tops,
         UNCHANGED <<children, focus, count>>,
         \/ job' = {}
         \/ /\ job' = job
            /\ Misfits' \subseteq Misfits
            /\ Short /\ (f.step = "return" \/ f.change # NoWin)
                 => Misfits' \subseteq InProgress
            /\ Short /\ f.step = "scan" /\ f.change = NoWin
                 => /\ Misfits' \subseteq InProgress \union f.left
                    /\ ~ForceBackingStore => focus \notin Misfits' \ InProgress
  PROVE  IInv'
  <1>1. TypeOK /\ WellNested /\ Purposeful /\ OnTrack
    BY DEF IInv
  <1>2. /\ frames' \in Seq(Frame) /\ ~Idle' /\ Running' = f
        /\ InProgress' = InProgress
    BY <1>1, ContinueStack
  <1>3. TypeOK'
    <2>1. children' \in SUBSET Tops /\ focus' \in Tops \union {NoWin}
          /\ count' \in 0 .. CounterRange - 1 /\ job' \in SUBSET Tops
      BY <1>1 DEF TypeOK
    <2> QED
      BY <1>2, <2>1 DEF TypeOK
  <1>4. WellNested'
    BY <1>1, ContinueNests
  <1>5. Purposeful'
    <2>1. job' = job \/ job' = {}
      OBVIOUS
    <2> QED
      BY <1>1, <2>1, ContinueMeans
  <1>6. OnTrack'
    <2>1. CASE job' = {}
      BY <2>1 DEF OnTrack, Short
    <2>2. CASE job' # {}
      <3>1. job' = job /\ (Short' <=> Short)
        BY <2>2 DEF Short
      <3> QED
        BY <1>1, <1>2, <2>2, <3>1 DEF OnTrack
    <2> QED
      BY <2>1, <2>2
  <1> QED
    BY <1>3, <1>4, <1>5, <1>6 DEF IInv

\* Entering is a step of it: the call that returns at once has no job, or
\* nothing to do, or leaves what is to be done to the calls below it.
LEMMA EnterSteps ==
  ASSUME IInv, NEW null \in BOOLEAN, Enter(null)
  PROVE  IInv'
  <1> DEFINE back_to == [Running EXCEPT !.step = "return"]
             work == [Running EXCEPT !.step = "focus"]
  <1>1. /\ TypeOK /\ WellNested /\ Purposeful /\ OnTrack /\ ~Idle
        /\ Running.step = "entry" /\ Running.change = NoWin
        /\ Running.step \notin Active
    BY DEF IInv, Enter, WellNested, Active
  <1>2. /\ Running \in Frame /\ Len(frames) \in Nat \ {0} /\ Len(frames) \in Calls
        /\ nesting \in 0 .. MaxNesting + 1 /\ MaxNesting \in Nat
        /\ nesting = Len(frames) - 1
        /\ back \in SUBSET Tops
    BY <1>1, RunningIsFrame, BackingStoreTunerAssumption DEF TypeOK, WellNested
  <1>3. Meant(Running)
    BY <1>2 DEF IInv, Purposeful, Running
  <1>4. /\ back_to \in Frame /\ back_to.step = "return" /\ back_to.change = NoWin
        /\ back_to.left = Running.left
        /\ work \in Frame /\ work.step = "focus" /\ work.change = NoWin
        /\ work.left = Running.left
    BY <1>1, <1>2 DEF Frame
  <1> HIDE DEF back_to, work
  <1>5. "return" \notin Active /\ "focus" \in Active
    BY DEF Active
  <1>6. /\ UNCHANGED <<children, focus, back, count>>
        /\ job' = IF null THEN {} ELSE job
        /\ Misfits' = Misfits
    BY DEF Enter, Misfits, Wanted
  <1>7. CASE null \/ focus = NoWin \/ TooMuchNesting
    <2>1. Continue(back_to) /\ nesting' = nesting
      BY <1>7 DEF Enter, back_to
    <2>2. Meant(back_to)
      BY <1>3, <1>4, <1>5 DEF Meant
    <2>3. ASSUME ~null, Short
          PROVE  Misfits \subseteq InProgress
      <3>1. CASE focus = NoWin
        BY <3>1 DEF Misfits
      <3>2. CASE TooMuchNesting
        <4>1. job = InProgress
          BY <1>1, <2>3, <3>2, FullStackDoesJob
        <4>2. Misfits \subseteq job
          BY <1>1, <2>3 DEF OnTrack, Short
        <4> QED
          BY <4>1, <4>2
      <3> QED
        BY <1>7, <2>3, <3>1, <3>2
    <2>4. \/ job' = {}
          \/ job' = job /\ (Short => Misfits' \subseteq InProgress)
      BY <1>6, <2>3
    <2>5. nesting' = Len(frames) - 1 /\ nesting' \in 0 .. MaxNesting + 1
      BY <1>2, <2>1
    <2> QED
      BY <1>1, <1>2, <1>4, <1>5, <1>6, <2>1, <2>2, <2>4, <2>5, ContinueSteps
  <1>8. CASE ~(null \/ focus = NoWin \/ TooMuchNesting)
    <2>1. Continue(work) /\ nesting' = nesting + 1
      BY <1>8 DEF Enter, work
    <2>2. Meant(work)
      BY <1>3, <1>4, <1>5, <1>8 DEF Meant
    <2>3. nesting' = Len(frames) - 0 /\ nesting' \in 0 .. MaxNesting + 1
      BY <1>2, <1>8, <2>1 DEF TooMuchNesting
    <2> QED
      BY <1>1, <1>2, <1>4, <1>5, <1>6, <1>8, <2>1, <2>2, <2>3, ContinueSteps
  <1> QED
    BY <1>7, <1>8

\* A nested call begins: it has everything to do that is left to do.
LEMMA NestSteps ==
  ASSUME IInv, ~Idle, Running.step \in Active,
         NEW f \in Frame, Meant(f), f.step \in Active, f.change # NoWin,
         frames' = Append([frames EXCEPT ![Len(frames)] = f], Call),
         \A i \in Calls : frames[i].change # f.change,
         count' = Call.count, back' \in SUBSET Tops, Misfits' \subseteq Misfits,
         UNCHANGED <<children, focus, nesting, job>>
  PROVE  IInv'
  <1>1. TypeOK /\ WellNested /\ Purposeful /\ OnTrack
    BY DEF IInv
  <1> DEFINE g == Call
  <1>2. /\ g \in Frame /\ g.step = "entry" /\ g.change = NoWin
        /\ count' \in 0 .. CounterRange - 1
    BY <1>1, CallIsFrame
  <1>3. frames' = Append([frames EXCEPT ![Len(frames)] = f], g)
    OBVIOUS
  <1> HIDE DEF g
  <1>4. frames' \in Seq(Frame) /\ Running' = g /\ ~Idle'
    BY <1>1, <1>2, <1>3, NestStack
  <1>5. TypeOK'
    BY <1>1, <1>2, <1>4 DEF TypeOK
  <1>6. WellNested'
    BY <1>1, NestNests
  <1>7. Purposeful'
    <2>1. UNCHANGED <<focus, children, job>>
      OBVIOUS
    <2> QED
      BY <1>1, <2>1, NestMeans
  <1>8. OnTrack'
    BY <1>1, <1>2, <1>4 DEF OnTrack
  <1> QED
    BY <1>5, <1>6, <1>7, <1>8 DEF IInv

\* ChangeWindowAttributes for a misfit w, by a call that goes on with f, which
\* still has to see to every misfit but w.
LEMMA ChangeSteps ==
  ASSUME IInv, ~Idle, Running.step \in Active,
         NEW f \in Frame, Meant(f), f.step = "scan", f.change = NoWin,
         NEW w \in Misfits, NEW on \in BOOLEAN, on <=> Wanted(w),
         NEW nested \in BOOLEAN, ChangeBackingStore(w, on, f, nested),
         UNCHANGED <<children, focus, nesting, job>>,
         Short => /\ Misfits \subseteq InProgress \union f.left \union {w}
                  /\ ~ForceBackingStore => focus \notin Misfits \ (InProgress \union {w})
  PROVE  IInv'
  <1> DEFINE changed == IF on THEN back \union {w} ELSE back \ {w}
             caller == [f EXCEPT !.change = w, !.on = on]
  <1>1. /\ TypeOK /\ WellNested /\ OnTrack
        /\ Len(frames) \in Nat \ {0}
        /\ nesting = Len(frames) - 0 /\ nesting \in 0 .. MaxNesting + 1
        /\ back \in SUBSET Tops
    BY RunningIsFrame DEF IInv, TypeOK, WellNested
  <1>2. w \in Tops /\ w # NoWin /\ focus # NoWin /\ (job # {} => w \in job)
    BY <1>1, MisfitIs, BackingStoreTunerAssumption DEF TypeOK, OnTrack
  <1>3. changed \in SUBSET Tops
    BY <1>1, <1>2
  <1>4. "scan" \in Active
    BY DEF Active
  <1>5. ASSUME back' = changed
        PROVE  Misfits' \subseteq Misfits \ {w}
    <2>1. UNCHANGED <<focus, children>>
      OBVIOUS
    <2> QED
      BY <1>5, <2>1, MisfitsShrink
  <1>6. ASSUME back' = back
        PROVE  Misfits' = Misfits
    BY <1>6 DEF Misfits, Wanted
  <1>7. CASE nested
    <2>1. /\ caller \in Frame /\ caller.step = "scan" /\ caller.left = f.left
          /\ caller.change = w /\ caller.on = on
      BY <1>2 DEF Frame
    <2>2. /\ \A i \in Calls : frames[i].change # w
          /\ frames' = Append([frames EXCEPT ![Len(frames)] = caller], Call)
          /\ count' = Call.count
          /\ back' \in {back, changed}
      BY <1>7 DEF ChangeBackingStore, Calls
    <2> HIDE DEF caller, changed
    <2>3. Meant(caller)
      BY <1>2, <2>1 DEF Meant
    <2>4. back' \in SUBSET Tops /\ Misfits' \subseteq Misfits
      BY <1>1, <1>3, <1>5, <1>6, <2>2
    <2>5. caller.step \in Active /\ caller.change # NoWin
          /\ \A i \in Calls : frames[i].change # caller.change
      BY <1>2, <1>4, <2>1, <2>2
    <2> QED
      BY <2>1, <2>2, <2>3, <2>4, <2>5, NestSteps
  <1>8. CASE ~nested
    <2>1. Continue(f) /\ back' = changed /\ UNCHANGED count
      BY <1>8 DEF ChangeBackingStore
    <2> HIDE DEF changed
    <2>2. back' \in SUBSET Tops /\ Misfits' \subseteq Misfits \ {w}
      BY <1>3, <1>5, <2>1
    <2>3. f.step # "return" /\ f.step \in Active
      BY <1>4
    <2>4. Short => /\ Misfits' \subseteq InProgress \union f.left
                   /\ ~ForceBackingStore => focus \notin Misfits' \ InProgress
      BY <2>2
    <2>5. nesting' = Len(frames) - 0 /\ nesting' \in 0 .. MaxNesting + 1
      BY <1>1
    <2> QED
      BY <1>1, <2>1, <2>2, <2>3, <2>4, <2>5, ContinueSteps
  <1> QED
    BY <1>7, <1>8

\* Disabling backing store for the focus window is a step of the invariant.
LEMMA DisableFocusSteps ==
  ASSUME IInv, NEW nested \in BOOLEAN, DisableFocus(nested)
  PROVE  IInv'
  <1> DEFINE scan == [Running EXCEPT !.step = "scan", !.left = children]
  <1>1. /\ TypeOK /\ WellNested /\ OnTrack /\ ~Idle
        /\ Running.step = "focus" /\ Running.change = NoWin
        /\ "focus" \in Active /\ "scan" \in Active
        /\ UNCHANGED <<children, focus, nesting, job>>
    BY DEF IInv, DisableFocus, Active
  <1>2. /\ Running \in Frame /\ Len(frames) \in Nat \ {0} /\ Len(frames) \in Calls
        /\ nesting \in 0 .. MaxNesting + 1
        /\ nesting = Len(frames) - 0
        /\ back \in SUBSET Tops /\ children \in SUBSET Tops
    BY <1>1, RunningIsFrame DEF TypeOK, WellNested
  <1>3. Meant(Running) /\ focus \in children \union {NoWin}
    BY <1>2 DEF IInv, Purposeful, Running
  <1>4. focus # NoWin
    BY <1>1, <1>3 DEF Meant
  <1>5. scan \in Frame /\ scan.step = "scan" /\ scan.change = NoWin /\ scan.left = children
    BY <1>1, <1>2 DEF Frame
  <1>6. IF ~ForceBackingStore /\ focus \in back
        THEN ChangeBackingStore(focus, FALSE, scan, nested)
        ELSE Continue(scan) /\ UNCHANGED <<back, count>>
    BY DEF DisableFocus
  <1> HIDE DEF scan
  <1>7. Meant(scan)
    BY <1>1, <1>4, <1>5 DEF Meant
  <1>8. Misfits \subseteq children
    BY MisfitIs
  <1>9. CASE ~ForceBackingStore /\ focus \in back
    <2>1. ~Wanted(focus)
      BY <1>9 DEF Wanted
    <2>2. focus \in Misfits
      BY <1>3, <1>4, <1>9, <2>1, MisfitIs
    <2>3. ChangeBackingStore(focus, FALSE, scan, nested)
      BY <1>6, <1>9
    <2>4. Short => /\ Misfits \subseteq InProgress \union scan.left \union {focus}
                   /\ ~ForceBackingStore => focus \notin Misfits \ (InProgress \union {focus})
      BY <1>5, <1>8
    <2> QED
      BY <1>1, <1>5, <1>7, <2>1, <2>2, <2>3, <2>4, ChangeSteps
  <1>10. CASE ~(~ForceBackingStore /\ focus \in back)
    <2>1. Continue(scan) /\ UNCHANGED <<back, count>>
      BY <1>6, <1>10
    <2>2. Misfits' = Misfits
      BY <1>1, <2>1 DEF Misfits, Wanted
    <2>3. ~ForceBackingStore => focus \notin Misfits
      BY <1>10, MisfitIs DEF Wanted
    <2>4. scan.step # "return" /\ scan.step \in Active
      BY <1>1, <1>5
    <2>5. nesting' = Len(frames) - 0 /\ nesting' \in 0 .. MaxNesting + 1
      BY <1>1, <1>2
    <2>6. Misfits' \subseteq InProgress \union scan.left
      BY <1>5, <1>8, <2>2
    <2> QED
      BY <1>1, <1>2, <1>5, <1>7, <2>1, <2>2, <2>3, <2>4, <2>5, <2>6, ContinueSteps
  <1> QED
    BY <1>9, <1>10

\* A round of the loop is a step of it.
LEMMA EnableNextSteps ==
  ASSUME IInv, NEW w \in Tops, NEW nested \in BOOLEAN, EnableNext(w, nested)
  PROVE  IInv'
  <1> DEFINE f == NextSibling(Running, w)
  <1>1. /\ TypeOK /\ WellNested /\ OnTrack /\ ~Idle
        /\ Running.step = "scan" /\ Running.change = NoWin /\ w \in Running.left
        /\ "scan" \in Active
        /\ UNCHANGED <<children, focus, nesting, job>>
    BY DEF IInv, EnableNext, Active
  <1>2. /\ Running \in Frame /\ Len(frames) \in Nat \ {0} /\ Len(frames) \in Calls
        /\ nesting \in 0 .. MaxNesting + 1
        /\ nesting = Len(frames) - 0
        /\ back \in SUBSET Tops /\ children \in SUBSET Tops
    BY <1>1, RunningIsFrame DEF TypeOK, WellNested
  <1>3. Meant(Running)
    BY <1>2 DEF IInv, Purposeful, Running
  <1>4. focus # NoWin /\ w \in children
    BY <1>1, <1>3 DEF Meant
  <1>5. f \in Frame /\ f.step = "scan" /\ f.change = NoWin /\ f.left = Running.left \ {w}
    BY <1>1, <1>2 DEF Frame, NextSibling
  <1>6. IF w \notin back /\ Wanted(w)
        THEN ChangeBackingStore(w, TRUE, f, nested)
        ELSE Continue(f) /\ UNCHANGED <<back, count>>
    BY DEF EnableNext
  <1> HIDE DEF f
  <1>7. Meant(f)
    BY <1>1, <1>3, <1>5 DEF Meant
  <1>8. Short => /\ Misfits \subseteq InProgress \union Running.left
                 /\ ~ForceBackingStore => focus \notin Misfits \ InProgress
    BY <1>1 DEF OnTrack
  <1>9. CASE w \notin back /\ Wanted(w)
    <2>1. w \in Misfits
      BY <1>4, <1>9, MisfitIs
    <2>2. ChangeBackingStore(w, TRUE, f, nested)
      BY <1>6, <1>9
    <2>3. Short => /\ Misfits \subseteq InProgress \union f.left \union {w}
                   /\ ~ForceBackingStore => focus \notin Misfits \ (InProgress \union {w})
      BY <1>5, <1>8
    <2>4. TRUE <=> Wanted(w)
      BY <1>9
    <2> QED
      BY <1>1, <1>5, <1>7, <2>1, <2>2, <2>3, <2>4, ChangeSteps
  <1>10. CASE ~(w \notin back /\ Wanted(w))
    <2>1. Continue(f) /\ UNCHANGED <<back, count>>
      BY <1>6, <1>10
    <2>2. Misfits' = Misfits
      BY <1>1, <2>1 DEF Misfits, Wanted
    <2>3. w \in Misfits => ~ForceBackingStore /\ w = focus
      BY <1>10, MisfitIs DEF Wanted
    <2>4. Short => /\ Misfits' \subseteq InProgress \union f.left
                   /\ ~ForceBackingStore => focus \notin Misfits' \ InProgress
      BY <1>5, <1>8, <2>2, <2>3
    <2>5. f.step # "return" /\ f.step \in Active
      BY <1>1, <1>5
    <2>6. nesting' = Len(frames) - 0 /\ nesting' \in 0 .. MaxNesting + 1
      BY <1>1, <1>2
    <2> QED
      BY <1>1, <1>2, <1>5, <1>7, <2>1, <2>2, <2>4, <2>5, <2>6, ContinueSteps
  <1> QED
    BY <1>9, <1>10

\* The end of a call, or its giving up to the nested one, is a step of it.
LEMMA FinishSteps ==
  ASSUME IInv, Finish
  PROVE  IInv'
  <1> DEFINE f == [Running EXCEPT !.step = "return", !.change = NoWin]
  <1>1. /\ TypeOK /\ WellNested /\ OnTrack /\ ~Idle
        /\ \/ Running.step = "scan" /\ Running.change = NoWin /\ Running.left = {}
           \/ Running.change # NoWin
        /\ Continue(f) /\ nesting' = nesting - 1
        /\ UNCHANGED <<children, focus, back, count, job>>
    BY DEF IInv, Finish, LevelAfter
  <1>2. Running.step \in Active
    BY <1>1 DEF WellNested, Active
  <1>3. /\ Running \in Frame /\ Len(frames) \in Nat \ {0} /\ Len(frames) \in Calls
        /\ nesting \in 0 .. MaxNesting + 1 /\ MaxNesting \in Nat
        /\ nesting = Len(frames) - 0
        /\ back \in SUBSET Tops
    BY <1>1, <1>2, RunningIsFrame, BackingStoreTunerAssumption DEF TypeOK, WellNested
  <1>4. Meant(Running)
    BY <1>3 DEF IInv, Purposeful, Running
  <1>5. f \in Frame /\ f.step = "return" /\ f.change = NoWin /\ f.left = Running.left
    BY <1>3 DEF Frame
  <1> HIDE DEF f
  <1>6. "return" \notin Active
    BY DEF Active
  <1>7. Meant(f)
    BY <1>4, <1>5, <1>6 DEF Meant
  <1>8. Misfits' = Misfits
    BY <1>1 DEF Misfits, Wanted
  <1>9. Short => Misfits' \subseteq InProgress
    BY <1>1, <1>8 DEF OnTrack
  <1>10. nesting' = Len(frames) - 1 /\ nesting' \in 0 .. MaxNesting + 1
    BY <1>1, <1>3
  <1> QED
    BY <1>1, <1>3, <1>5, <1>6, <1>7, <1>8, <1>9, <1>10, ContinueSteps

\* Coming back to the caller is a step of it: what the caller was changing is
\* as wanted now.
LEMMA ReturnSteps ==
  ASSUME IInv, Return
  PROVE  IInv'
  <1> DEFINE callers == SubSeq(frames, 1, Len(frames) - 1)
             caller == frames[Len(frames) - 1]
  <1>1. /\ TypeOK /\ WellNested /\ Purposeful /\ OnTrack /\ ~Idle
        /\ Running.step = "return" /\ Running.change = NoWin
        /\ Running.step \notin Active
        /\ frames' = callers
        /\ UNCHANGED <<children, focus, count, nesting, job>>
    BY DEF IInv, Return, WellNested, Active
  <1>2. /\ frames' \in Seq(Frame)
        /\ Len(frames') = Len(frames) - 1
        /\ Calls' = Callers
        /\ \A i \in Callers : frames'[i] = frames[i]
        /\ Idle' <=> Len(frames) = 1
        /\ ~Idle' => /\ Len(frames) - 1 \in Callers
                     /\ Running' = caller
                     /\ Callers = Callers' \union {Len(frames) - 1}
                     /\ Len(frames) - 1 \notin Callers'
    BY <1>1, ReturnStack
  <1>3. /\ Len(frames) \in Nat \ {0} /\ Len(frames) \in Calls
        /\ nesting = Len(frames) - 1
        /\ back \in SUBSET Tops /\ MaxNesting \in Nat
        /\ Calls = Callers \union {Len(frames)}
    BY <1>1, RunningIsFrame, BackingStoreTunerAssumption DEF TypeOK, WellNested, Calls, Callers
  <1>4. Short => Misfits \subseteq InProgress
    BY <1>1 DEF OnTrack
  <1>5. Short' <=> Short
    BY <1>1 DEF Short
  <1>6. \A i \in Calls' : Meant(frames[i])'
    <2>1. \A i \in Callers : Meant(frames[i])
      BY <1>1, <1>3 DEF Purposeful
    <2> QED
      BY <1>1, <1>2, <2>1 DEF Meant, Wanted
  <1>7. CASE Idle'
    <2>1. callers = <<>>
      BY <1>1, <1>7 DEF Idle
    <2>2. back' = back
      BY <2>1 DEF Return
    <2>3. Misfits' = Misfits
      BY <1>1, <2>2 DEF Misfits, Wanted
    <2>4. InProgress = {} /\ InProgress' = {} /\ Callers' = {} /\ nesting' = 0 /\ Len(frames') = 0
      BY <1>1, <1>2, <1>3, <1>7 DEF InProgress, Callers
    <2>5. TypeOK'
      BY <1>1, <1>2, <2>2 DEF TypeOK
    <2>6. WellNested'
      <3>1. nesting' = Len(frames') - 0 /\ Len(frames') <= MaxNesting + 2
        BY <1>3, <2>4
      <3> QED
        BY <1>7, <2>4, <3>1 DEF WellNested, BoundedRecursion
    <2>7. Purposeful'
      BY <1>1, <1>6, <2>4 DEF Purposeful
    <2>8. OnTrack'
      BY <1>1, <1>4, <1>5, <1>7, <2>3, <2>4 DEF OnTrack
    <2> QED
      BY <2>5, <2>6, <2>7, <2>8 DEF IInv
  <1>8. CASE ~Idle'
    <2>1. /\ caller \in Frame /\ caller.step \in Active
          /\ caller.change \in Tops /\ caller.change # NoWin
          /\ caller.on \in BOOLEAN
      <3>1. Len(frames) - 1 \in Calls
        BY <1>2, <1>3, <1>8
      <3>2. caller \in Frame /\ caller.change \in Tops \union {NoWin}
        BY <1>1, <3>1, CallsAreFrames
      <3>3. caller.step \in Active /\ caller.change # NoWin
        BY <1>1, <1>2, <1>8 DEF WellNested
      <3> QED
        BY <3>2, <3>3 DEF Frame
    <2>2. caller.on <=> Wanted(caller.change)
      BY <1>1, <1>2, <1>3, <1>8, <2>1 DEF Purposeful, Meant
    <2>3. back' = IF caller.on THEN back \union {caller.change} ELSE back \ {caller.change}
      <3>1. callers # <<>>
        BY <1>1, <1>8 DEF Idle
      <3>2. callers[Len(callers)] = caller
        BY <1>1, <1>2, <1>8 DEF Running
      <3> QED
        BY <3>1, <3>2 DEF Return
    <2> HIDE DEF caller, callers
    <2>4. Misfits' \subseteq Misfits \ {caller.change}
      BY <1>1, <2>1, <2>2, <2>3, MisfitsShrink
    <2>5. InProgress = InProgress' \union {caller.change}
      BY <1>1, <1>2, <1>8 DEF InProgress, caller
    <2>6. TypeOK'
      <3>1. back' \in SUBSET Tops
        BY <1>3, <2>1, <2>3
      <3> QED
        BY <1>1, <1>2, <3>1 DEF TypeOK
    <2>7. WellNested'
      <3>1. \A i \in Callers' : frames'[i].step \in Active /\ frames'[i].change # NoWin
        BY <1>1, <1>2, <1>8 DEF WellNested
      <3>2. nesting' = Len(frames') - 0 /\ Len(frames') <= MaxNesting + 2
        BY <1>1, <1>2, <1>3 DEF WellNested, BoundedRecursion
      <3> QED
        BY <1>2, <1>8, <2>1, <3>1, <3>2 DEF WellNested, BoundedRecursion
    <2>8. Purposeful'
      <3>1. \A i, j \in Callers' : frames'[i].change = frames'[j].change => i = j
        BY <1>1, <1>2, <1>8 DEF Purposeful
      <3>2. focus' \in children' \union {NoWin}
        BY <1>1 DEF Purposeful
      <3> QED
        BY <1>6, <3>1, <3>2 DEF Purposeful
    <2>9. OnTrack'
      <3>1. job' # {} => Misfits' \subseteq job'
        BY <1>1, <2>4 DEF OnTrack
      <3>2. Short' => Misfits' \subseteq InProgress'
        BY <1>4, <1>5, <2>4, <2>5
      <3>3. Running'.change # NoWin
        BY <1>2, <1>8, <2>1
      <3> QED
        BY <3>1, <3>2, <3>3 DEF OnTrack
    <2> QED
      BY <2>6, <2>7, <2>8, <2>9 DEF IInv
  <1> QED
    BY <1>7, <1>8

-----------------------------------------------------------------------------
(***************************************************************************)
(* The invariant and what follows.                                         *)
(***************************************************************************)

LEMMA InitHolds ==
  Init => IInv
  <1> SUFFICES ASSUME Init PROVE IInv
    OBVIOUS
  <1>1. frames = <<>> /\ Len(frames) = 0 /\ frames \in Seq(Frame)
    BY EmptySeq DEF Init
  <1>2. Idle /\ Calls = {} /\ Callers = {}
    BY <1>1 DEF Idle, Calls, Callers
  <1>3. TypeOK
    BY <1>1, BackingStoreTunerAssumption DEF Init, TypeOK
  <1>4. WellNested
    <2>1. nesting = Len(frames) - 0 /\ Len(frames) <= MaxNesting + 2
      BY <1>1, BackingStoreTunerAssumption DEF Init
    <2> QED
      BY <1>2, <2>1 DEF WellNested, BoundedRecursion
  <1>5. Purposeful
    BY <1>2 DEF Init, Purposeful
  <1>6. OnTrack
    BY DEF Init, OnTrack, Short
  <1> QED
    BY <1>3, <1>4, <1>5, <1>6 DEF IInv

LEMMA StutterHolds ==
  ASSUME IInv, UNCHANGED vars
  PROVE  IInv'
  BY DEF IInv, TypeOK, WellNested, Purposeful, OnTrack, vars, Idle, Running, Calls, Callers,
         InProgress, Meant, Wanted, Short, Misfits, BoundedRecursion, Frame

LEMMA NextHolds ==
  ASSUME IInv, Next
  PROVE  IInv'
  <1>1. children \in SUBSET Tops /\ focus \in children \union {NoWin}
    BY DEF IInv, TypeOK, Purposeful
  <1>2. ASSUME NEW w \in Tops, AddChild(w) PROVE IInv'
    <2>1. TreeChange(children \union {w}, focus)
      BY <1>2 DEF AddChild
    <2> QED
      BY <1>1, <2>1, TreeChangeSteps
  <1>3. ASSUME NEW w \in Tops, RemoveChild(w) PROVE IInv'
    <2>1. TreeChange(children \ {w}, IF focus = w THEN NoWin ELSE focus)
      BY <1>3 DEF RemoveChild
    <2>2. (IF focus = w THEN NoWin ELSE focus) \in (children \ {w}) \union {NoWin}
      BY <1>1
    <2> QED
      BY <1>1, <2>1, <2>2, TreeChangeSteps
  <1>4. CASE AnyChange
    BY <1>1, <1>4, TreeChangeSteps DEF AnyChange
  <1>5. CASE \E f \in Tops \union {NoWin} : SetFocus(f)
    BY <1>5, SetFocusSteps
  <1>6. CASE \E null \in BOOLEAN : Enter(null)
    BY <1>6, EnterSteps
  <1>7. CASE \E nested \in BOOLEAN : DisableFocus(nested)
    BY <1>7, DisableFocusSteps
  <1>8. CASE \E nested \in BOOLEAN, w \in Tops : EnableNext(w, nested)
    BY <1>8, EnableNextSteps
  <1>9. CASE Finish
    BY <1>9, FinishSteps
  <1>10. CASE Return
    BY <1>10, ReturnSteps
  <1> QED
    BY <1>2, <1>3, <1>4, <1>5, <1>6, <1>7, <1>8, <1>9, <1>10 DEF Next, Server, Step

\* The stack of calls is well nested, purposeful and on track in every state.
THEOREM IInvHolds == Spec => []IInv
  <1>1. IInv /\ [Next]_vars => IInv'
    BY NextHolds, StutterHolds
  <1> QED
    BY InitHolds, <1>1, PTL DEF Spec

\* Type correctness.
THEOREM TypeCorrect == Spec => []TypeOK
  <1>1. IInv => TypeOK
    BY DEF IInv
  <1> QED
    BY <1>1, IInvHolds, PTL

\* However often ChangeWindowAttributes ends in another call of
\* xPostValidateTree, the calls in progress are at most MaxNesting + 2.
THEOREM RecursionBounded == Spec => []BoundedRecursion
  <1>1. IInv => BoundedRecursion
    BY DEF IInv, WellNested
  <1> QED
    BY <1>1, IInvHolds, PTL

\* PostValidateTreeNestingLevel is the number of calls that have counted
\* themselves and not returned, so it is 0 again when the last one returns.
THEOREM LevelCorrect == Spec => []LevelIsBalanced
  <1>1. ASSUME IInv PROVE LevelIsBalanced
    <2> DEFINE counted == {i \in 1 .. Len(frames) : frames[i].step \in {"focus", "scan"}}
    <2>1. TypeOK /\ WellNested
      BY <1>1 DEF IInv
    <2>2. CASE Idle
      <3>1. Len(frames) = 0
        BY <2>2 DEF Idle
      <3>2. counted = {}
        BY <3>1
      <3>3. nesting = Len(frames) - 0
        BY <2>1, <2>2 DEF WellNested
      <3> QED
        BY <3>1, <3>2, <3>3, FS_EmptySet DEF LevelIsBalanced
    <2>3. CASE ~Idle /\ Running.step \in Active
      <3>1. Len(frames) \in Nat \ {0}
        BY <2>1, <2>3, RunningIsFrame
      <3>2. \A i \in 1 .. Len(frames) : frames[i].step \in {"focus", "scan"}
        BY <2>1, <2>3, <3>1 DEF WellNested, Callers, Running, Active
      <3>3. counted = 1 .. Len(frames)
        BY <3>2
      <3>4. Cardinality(1 .. Len(frames)) = Len(frames)
        BY <3>1, FS_Interval
      <3>5. nesting = Len(frames)
        <4>1. nesting = Len(frames) - 0
          BY <2>1, <2>3 DEF WellNested
        <4> QED
          BY <3>1, <4>1
      <3> QED
        BY <3>1, <3>3, <3>4, <3>5 DEF LevelIsBalanced
    <2>4. CASE ~Idle /\ Running.step \notin Active
      <3>1. Len(frames) \in Nat \ {0}
        BY <2>1, <2>4, RunningIsFrame
      <3>2. \A i \in 1 .. Len(frames) - 1 : frames[i].step \in {"focus", "scan"}
        BY <2>1 DEF WellNested, Callers, Active
      <3>3. frames[Len(frames)].step \notin {"focus", "scan"}
        BY <2>4 DEF Running, Active
      <3>4. counted = 1 .. Len(frames) - 1
        BY <3>1, <3>2, <3>3
      <3>5. Cardinality(1 .. Len(frames) - 1) = Len(frames) - 1
        BY <3>1, FS_Interval
      <3>6. nesting = Len(frames) - 1
        BY <2>1, <2>4 DEF WellNested
      <3> QED
        BY <3>4, <3>5, <3>6 DEF LevelIsBalanced
    <2> QED
      BY <2>2, <2>3, <2>4
  <1> QED
    BY <1>1, IInvHolds, PTL

\* When the last call has returned, every window the first one found to change
\* has the backing store the heuristics wants, unless there were more of them
\* than calls can nest.
THEOREM ShortJobDone == Spec => []ShortJobIsDone
  <1>1. ASSUME IInv PROVE ShortJobIsDone
    <2> SUFFICES ASSUME Idle, Cardinality(job) <= MaxNesting + 1
                 PROVE  job \intersect Misfits = {}
      BY DEF ShortJobIsDone
    <2>1. CASE job = {}
      BY <2>1
    <2>2. CASE job # {}
      <3>1. Misfits \subseteq InProgress
        BY <1>1, <2>2 DEF IInv, OnTrack, Short
      <3>2. Len(frames) = 0
        BY DEF Idle
      <3>3. InProgress = {}
        BY <3>2 DEF InProgress, Callers
      <3> QED
        BY <3>1, <3>3
    <2> QED
      BY <2>1, <2>2
  <1> QED
    BY <1>1, IInvHolds, PTL
=============================================================================
