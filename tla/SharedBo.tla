------------------------------ MODULE SharedBo ------------------------------
(***************************************************************************)
(* What the sharing of buffer objects promises, without the records, the   *)
(* counters and the backends behind it: an object exists exactly as long   *)
(* as somebody uses it.  Users are pixmaps, windows and DRI2 buffers.      *)
(***************************************************************************)
CONSTANTS Users, Objects, None

VARIABLES
  object,  \* the object of every user, or None
  live     \* the objects whose memory is allocated

vars == <<object, live>>

Init ==
  /\ object = [u \in Users |-> None]
  /\ live = {}

\* An object is freed with its last user, and not before.
Keep(objects) == live' = {o \in objects : \E u \in Users : object'[u] = o}

\* A new object for one user, or for two that share it from the start; a user that
\* had another object leaves that one.
Create(u, v, o) ==
  /\ o \notin live /\ o \in live'
  /\ object' = [object EXCEPT ![u] = o, ![v] = o]
  /\ Keep(live \cup {o})

\* User v joins user u.
Share(u, v) ==
  /\ object[u] # None /\ object[v] = None
  /\ object' = [object EXCEPT ![v] = object[u]]
  /\ Keep(live)

Leave(u) ==
  /\ object[u] # None
  /\ object' = [object EXCEPT ![u] = None]
  /\ Keep(live)

\* The server dies, and all memory is gone with it.
Crash ==
  /\ object' = [u \in Users |-> None]
  /\ live' = {}

Next ==
  \/ \E o \in Objects, u, v \in Users : Create(u, v, o)
  \/ \E u, v \in Users : Share(u, v)
  \/ \E u \in Users : Leave(u)
  \/ Crash

Spec == Init /\ [][Next]_vars

-----------------------------------------------------------------------------
TypeOK ==
  /\ object \in [Users -> Objects \cup {None}]
  /\ live \subseteq Objects

\* The objects in memory are those in use: nobody's pixels are gone, and no
\* memory is kept that nobody can reach.
LiveIsUsed == live = {object[u] : u \in Users} \ {None}
=============================================================================
