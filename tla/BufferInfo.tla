----------------------------- MODULE BufferInfo -----------------------------
(***************************************************************************)
(* BOInfoRec, its reference count, and the places that count as a          *)
(* reference: the pointers of a DRI2WindowStateRec, the driverPrivate of   *)
(* the DRI2 buffer a drawable owns, and that of the buffer the X server    *)
(* has just replaced and is about to destroy.                              *)
(***************************************************************************)
EXTENDS Integers, FiniteSets

CONSTANTS
  BOs,        \* identities of BOInfoRec structures
  NoBO,       \* NULL
  Clients,    \* the windows some client renders to through DRI2
  QueueSize   \* ARRAY_SIZE(bo_queue), 16 in the code

ASSUME BufferInfoAssumption ==
  /\ NoBO \notin BOs
  /\ QueueSize \in Nat \ {0}

\* What the memory behind a BO is: the odd or the even half of the offscreen
\* framebuffer (BO_MUST_BE_ODD_FRAME, BO_MUST_BE_EVEN_FRAME), an allocated
\* buffer, the dummy of the resize workaround, or the dummy handed out for an
\* attachment other than DRI2BufferBackLeft.
Frames == {"odd", "even"}
Kinds == Frames \union {"mem", "null", "aux"}

\* size stands for size, width, height and depth, which are set together; addr
\* and handle say whether addr is non-NULL and the handle is a valid one.
BOInfo == [refcount : Int, kind : Kinds, size : Nat,
           addr : BOOLEAN, handle : BOOLEAN,
           passed : BOOLEAN, has_checksum : BOOLEAN]

Fresh(kind, size, refcount) ==
  [refcount |-> refcount, kind |-> kind, size |-> size,
   addr |-> kind \in Frames \union {"mem"}, handle |-> kind = "mem",
   passed |-> FALSE, has_checksum |-> FALSE]

\* The content of a structure no pointer leads to is never read.
Unused == [Fresh("aux", 0, 0) EXCEPT !.addr = FALSE]

\* unref_bo_info on one record.  The structure itself is not freed (the
\* free(bo) is commented out), so a stale pointer still reads this record.
Dropped(r) ==
  IF r.refcount - 1 <= 0
  THEN [r EXCEPT !.refcount = @ - 1, !.addr = FALSE, !.handle = FALSE, !.size = 0]
  ELSE [r EXCEPT !.refcount = @ - 1]

\* if (p) unref_bo_info(p)
Unref(f, p) == IF p = NoBO THEN f ELSE [f EXCEPT ![p] = Dropped(@)]

-----------------------------------------------------------------------------
\* The counted pointers, as slots of one array.

Indices == 0 .. QueueSize - 1

\* Mutated form: the wrap of the ring comes one slot too late.
NextIndexLate(i) == IF i = QueueSize THEN 0 ELSE i + 1

\* The slot after i, around the ring.
NextIndex(i) == (i + 1) % QueueSize

WindowSlots == {"mem", "back", "front", "buffer", "replaced"}
Slots == (WindowSlots \X Clients \X {0}) \union ({"queue"} \X Clients \X Indices)

Mem(w) == <<"mem", w, 0>>             \* window_state->bo_mem_ptr
Back(w) == <<"back", w, 0>>           \* window_state->bo_back_ptr
Front(w) == <<"front", w, 0>>         \* window_state->bo_front_ptr
Queue(w, i) == <<"queue", w, i>>      \* window_state->bo_queue[i]
Buffer(w) == <<"buffer", w, 0>>       \* driverPrivate of the drawable's buffer
Replaced(w) == <<"replaced", w, 0>>   \* driverPrivate of the buffer it replaced

Holders(p, b) == {s \in Slots : p[s] = b}
=============================================================================
