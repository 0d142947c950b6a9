-------------------------- MODULE DrmMasterProofs ---------------------------
(***************************************************************************)
(* Proofs about DrmMaster, for every finite number of screens and every    *)
(* number of generations, with one or two opens in PreInit.                *)
(***************************************************************************)
EXTENDS DrmMaster, FiniteSetTheorems, TLAPS

Connections == [fd : BOOLEAN, open_count : Nat, master_count : Nat]

Devices == [open : BOOLEAN, master : BOOLEAN]

Statuses == [connection : Connections, device : Devices, ok : BOOLEAN, asserted : BOOLEAN]

OpenStatuses == [connection : Connections, device : Devices, ok : BOOLEAN, asserted : BOOLEAN,
                 drmFD : BOOLEAN, entFD : BOOLEAN]

-----------------------------------------------------------------------------
(***************************************************************************)
(* The inductive invariant.  A screen that is initialised accounts for one *)
(* reference until it is closed, and for a second one while it has the VT: *)
(* ScreenInit adds two, LeaveVT takes one and EnterVT adds one again.      *)
(***************************************************************************)
Held ==
  {s \in Screens :
     \/ server.phase \in {"running", "leaving", "away", "entering"}
     \/ server.phase = "init" /\ s \notin server.todo
     \/ server.phase = "closing" /\ s \in server.todo}

Twice ==
  {s \in Screens :
     \/ server.phase = "running"
     \/ server.phase \in {"init", "entering"} /\ s \notin server.todo
     \/ server.phase = "leaving" /\ s \in server.todo}

\* Connection c and device d fit together.
Sound(c, d) ==
  /\ ~c.fd => c.open_count = 0 /\ c.master_count = 0
  /\ c.fd => c.open_count > 0
  /\ d.open => (c.master_count > 0 <=> d.master)

HeldInv ==
  /\ server.phase # "exited" => \A s \in Screens : scrn[s].vtSema => s \in Held
  /\ connection.fd => connection.master_count >= Cardinality(Held) + Cardinality(Twice)

DrmInv ==
  /\ TypeOK
  /\ AssertsHold
  /\ Sound(connection, device)
  /\ server.phase = "preinit" => (connection.fd => connection.master_count > 0)
  /\ HeldInv
  /\ EveryLeaveIsCovered

-----------------------------------------------------------------------------
(***************************************************************************)
(* The helpers, from status r to status q.                                 *)
(***************************************************************************)
\* What every helper keeps.
Kept(r, q) ==
  /\ q \in Statuses
  /\ q.asserted = r.asserted
  /\ Sound(q.connection, q.device)
  /\ q.connection.fd = r.connection.fd

\* One reference more, or, after a failure, as many.
Added(r, q) ==
  /\ q.connection.master_count >= r.connection.master_count
  /\ r.connection.fd /\ q.ok => q.connection.master_count = r.connection.master_count + 1

\* FBTurboSetDRMMaster counts one reference, unless there is nothing to count or it
\* fails and counts none.
LEMMA SetCounts ==
  ASSUME NEW r \in Statuses, NEW outcome \in BOOLEAN, r.ok, Sound(r.connection, r.device)
  PROVE  Kept(r, SetDRMMaster(r, outcome)) /\ Added(r, SetDRMMaster(r, outcome))
<1> DEFINE more == [r EXCEPT !.connection.master_count = @ + 1]
           first == [r EXCEPT !.connection.master_count = 1, !.device.master = TRUE]
           failed == [r EXCEPT !.ok = FALSE]
           n == r.connection.master_count
<1>1. n \in Nat /\ r.asserted \in BOOLEAN
  BY DEF Statuses, Connections
<1>2. CASE ~r.connection.fd
  BY <1>1, <1>2 DEF SetDRMMaster, Kept, Added
<1>3. CASE r.connection.fd /\ n # 0
  <2>1. SetDRMMaster(r, outcome) = more
    BY <1>3 DEF SetDRMMaster
  <2>2. /\ more \in Statuses
        /\ more.connection = [r.connection EXCEPT !.master_count = @ + 1]
        /\ more.device = r.device /\ more.asserted = r.asserted
    BY DEF Statuses, Connections
  <2> HIDE DEF more
  <2>3. /\ more.connection.fd = r.connection.fd
        /\ more.connection.open_count = r.connection.open_count
        /\ more.connection.master_count = n + 1
    BY <2>2 DEF Statuses, Connections
  <2>4. more.connection.fd /\ more.connection.open_count > 0
    BY <1>3, <2>3 DEF Sound
  <2>5. more.device.open => (more.connection.master_count > 0 <=> more.device.master)
    BY <1>1, <1>3, <2>2, <2>3 DEF Sound
  <2>6. Kept(r, more)
    BY <2>2, <2>3, <2>4, <2>5 DEF Kept, Sound
  <2>7. Added(r, more)
    BY <1>1, <2>3 DEF Added
  <2> QED
    BY <2>1, <2>6, <2>7
<1>4. CASE r.connection.fd /\ n = 0 /\ r.device.open /\ outcome
  <2>1. SetDRMMaster(r, outcome) = first
    BY <1>4 DEF SetDRMMaster
  <2>2. /\ first \in Statuses
        /\ first.connection = [r.connection EXCEPT !.master_count = 1]
        /\ first.device = [r.device EXCEPT !.master = TRUE]
        /\ first.asserted = r.asserted
    BY DEF Statuses, Connections, Devices
  <2> HIDE DEF first
  <2>3. /\ first.connection.fd = r.connection.fd
        /\ first.connection.open_count = r.connection.open_count
        /\ first.connection.master_count = 1
    BY <2>2 DEF Statuses, Connections
  <2>4. first.device.master = TRUE
    BY <2>2 DEF Statuses, Devices
  <2>5. /\ first.connection.fd /\ first.connection.open_count > 0
        /\ first.connection.master_count > 0 /\ first.device.master
    BY <1>4, <2>3, <2>4 DEF Sound
  <2>6. Kept(r, first)
    BY <2>2, <2>3, <2>5 DEF Kept, Sound
  <2>7. Added(r, first)
    BY <1>4, <2>3 DEF Added
  <2> QED
    BY <2>1, <2>6, <2>7
<1>5. CASE r.connection.fd /\ n = 0 /\ ~(r.device.open /\ outcome)
  <2>1. SetDRMMaster(r, outcome) = failed
    BY <1>5 DEF SetDRMMaster
  <2>2. /\ failed \in Statuses /\ failed.ok = FALSE
        /\ failed.connection = r.connection /\ failed.device = r.device
        /\ failed.asserted = r.asserted
    BY DEF Statuses
  <2> QED
    BY <1>1, <2>1, <2>2 DEF Kept, Added
<1> QED
  BY <1>1, <1>2, <1>3, <1>4, <1>5

\* FBTurboDropDRMMaster takes at most one reference away.
LEMMA DropCounts ==
  ASSUME NEW r \in Statuses, NEW outcome \in BOOLEAN, Sound(r.connection, r.device),
         r.connection.fd => r.connection.master_count > 0
  PROVE  /\ Kept(r, DropDRMMaster(r, outcome))
         /\ DropDRMMaster(r, outcome).connection.master_count >= r.connection.master_count - 1
<1> DEFINE n == r.connection.master_count
           fails == n = 1 /\ ~(r.device.open /\ outcome)
           c == [r.connection EXCEPT !.master_count = @ - 1]
           master == IF n = 1 THEN FALSE ELSE r.device.master
           d == [r.device EXCEPT !.master = master]
           less == [r EXCEPT !.connection = c, !.device = d]
           failed == [r EXCEPT !.ok = FALSE]
<1>1. /\ n \in Nat /\ r.asserted \in BOOLEAN
      /\ r.connection \in Connections /\ r.device \in Devices
  BY DEF Statuses, Connections
<1>2. CASE ~r.connection.fd
  BY <1>1, <1>2 DEF DropDRMMaster, Kept
<1>3. CASE r.connection.fd /\ ~fails
  <2>1. DropDRMMaster(r, outcome) = less
    BY <1>3 DEF DropDRMMaster, LastReference
  <2>2. n > 0 /\ master \in BOOLEAN
    BY <1>1, <1>3 DEF Devices
  <2>3. /\ c \in Connections
        /\ c.fd = r.connection.fd
        /\ c.open_count = r.connection.open_count
        /\ c.master_count = n - 1
    BY <1>1, <2>2 DEF Connections
  <2> HIDE DEF c
  <2>4. Sound(c, d)
    <3>1. d.open = r.device.open /\ d.master = master
      BY <1>1 DEF Devices
    <3> HIDE DEF d
    <3> QED
      BY <1>1, <1>3, <2>2, <2>3, <3>1 DEF Sound
  <2> HIDE DEF master
  <2>5. d \in Devices
    BY <1>1, <2>2 DEF Devices
  <2> HIDE DEF d
  <2>6. /\ less \in Statuses
        /\ less.connection = c /\ less.device = d /\ less.asserted = r.asserted
    BY <2>3, <2>5 DEF Statuses
  <2> HIDE DEF less
  <2>7. Kept(r, less)
    BY <2>3, <2>4, <2>6 DEF Kept
  <2> QED
    BY <1>1, <2>1, <2>3, <2>6, <2>7
<1>4. CASE r.connection.fd /\ fails
  <2>1. DropDRMMaster(r, outcome) = failed
    BY <1>4 DEF DropDRMMaster, LastReference
  <2>2. /\ failed \in Statuses
        /\ failed.connection = r.connection /\ failed.device = r.device
        /\ failed.asserted = r.asserted
    BY DEF Statuses
  <2> QED
    BY <1>1, <2>1, <2>2 DEF Kept
<1> HIDE DEF less, failed
<1> HIDE DEF fails
<1> QED
  BY <1>2, <1>3, <1>4

\* FBTurboOpenDRM: an open connection is counted.
LEMMA OpenCounts ==
  ASSUME NEW r \in OpenStatuses, NEW opened \in BOOLEAN, NEW version \in BOOLEAN,
         Sound(r.connection, r.device),
         r.connection.fd => r.connection.master_count > 0
  PROVE  LET q == OpenDRM(r, opened, version)
         IN /\ q \in OpenStatuses
            /\ q.asserted = r.asserted
            /\ Sound(q.connection, q.device)
            /\ q.connection.fd => q.connection.master_count > 0
<1> DEFINE fresh == ~r.connection.fd /\ ~r.entFD /\ opened
           counted == r.asserted /\ r.connection.open_count > 0
           opens == r.connection.open_count + 1
           masters == r.connection.master_count + 1
           c == [r.connection EXCEPT !.open_count = opens, !.master_count = masters]
           more == [r EXCEPT !.connection = c, !.drmFD = TRUE, !.asserted = counted]
           first == [r EXCEPT !.connection = [fd |-> TRUE, open_count |-> 1, master_count |-> 1],
                              !.device = [open |-> TRUE, master |-> TRUE],
                              !.drmFD = TRUE, !.entFD = TRUE,
                              !.asserted = @ /\ r.connection.open_count = 0
                                             /\ r.connection.master_count = 0]
           useless == [r EXCEPT !.drmFD = FALSE, !.entFD = TRUE]
           none == [r EXCEPT !.drmFD = FALSE]
<1>1. /\ r.asserted \in BOOLEAN /\ r.connection \in Connections
      /\ r.connection.open_count \in Nat /\ r.connection.master_count \in Nat
  BY DEF OpenStatuses, Connections
<1>2. CASE r.connection.fd
  <2>1. OpenDRM(r, opened, version) = more
    BY <1>2 DEF OpenDRM
  <2>2. counted = r.asserted /\ counted \in BOOLEAN
    BY <1>1, <1>2 DEF Sound
  <2> HIDE DEF counted
  <2>3. /\ c \in Connections
        /\ c.fd = r.connection.fd
        /\ c.open_count = r.connection.open_count + 1
        /\ c.master_count = r.connection.master_count + 1
    <3>1. opens \in Nat /\ masters \in Nat
      BY <1>1
    <3> HIDE DEF opens, masters
    <3>2. /\ c \in Connections
          /\ c.fd = r.connection.fd /\ c.open_count = opens /\ c.master_count = masters
      BY <1>1, <3>1 DEF Connections
    <3> QED
      BY <3>2 DEF opens, masters
  <2> HIDE DEF c
  <2>4. /\ more \in OpenStatuses /\ more.asserted = counted
        /\ more.device = r.device /\ more.connection = c
    BY <2>2, <2>3 DEF OpenStatuses
  <2> HIDE DEF more
  <2>5. c.fd /\ c.open_count > 0 /\ c.master_count > 0
    BY <1>1, <1>2, <2>3
  <2>6. r.device.open => r.device.master
    BY <1>2 DEF Sound
  <2>7. Sound(more.connection, more.device)
    BY <2>4, <2>5, <2>6 DEF Sound
  <2> QED
    BY <2>1, <2>2, <2>4, <2>5, <2>7
<1>3. CASE fresh /\ version
  <2>1. OpenDRM(r, opened, version) = first
    BY <1>3 DEF OpenDRM
  <2>2. r.connection.open_count = 0 /\ r.connection.master_count = 0
    BY <1>3 DEF Sound
  <2>3. /\ first \in OpenStatuses /\ first.asserted = r.asserted
        /\ first.connection = [fd |-> TRUE, open_count |-> 1, master_count |-> 1]
        /\ first.device = [open |-> TRUE, master |-> TRUE]
    BY <2>2 DEF OpenStatuses, Connections, Devices
  <2> HIDE DEF first
  <2>4. Sound(first.connection, first.device) /\ first.connection.master_count > 0
    BY <2>3 DEF Sound
  <2> QED
    BY <2>1, <2>3, <2>4
<1>4. CASE fresh /\ ~version
  <2>1. OpenDRM(r, opened, version) = useless
    BY <1>4 DEF OpenDRM
  <2>2. /\ useless \in OpenStatuses /\ useless.asserted = r.asserted
        /\ useless.connection = r.connection /\ useless.device = r.device
    BY DEF OpenStatuses
  <2> QED
    BY <2>1, <2>2
<1>5. CASE ~r.connection.fd /\ ~fresh
  <2>1. OpenDRM(r, opened, version) = none
    BY <1>5 DEF OpenDRM
  <2>2. /\ none \in OpenStatuses /\ none.asserted = r.asserted
        /\ none.connection = r.connection /\ none.device = r.device
    BY DEF OpenStatuses
  <2> QED
    BY <2>1, <2>2
<1> QED
  BY <1>2, <1>3, <1>4, <1>5

LEMMA CloseCounts ==
  ASSUME NEW r \in Statuses, Sound(r.connection, r.device)
  PROVE  /\ Kept(r, CloseDevice(r))
         /\ CloseDevice(r).connection = r.connection
         /\ CloseDevice(r).ok = r.ok
BY DEF CloseDevice, Kept, Statuses, Devices, Sound

\* FBTurboEnterVT counts like FBTurboSetDRMMaster, also when the modes fail.
LEMMA EnterCounts ==
  ASSUME NEW r \in Statuses, NEW outcome \in BOOLEAN, NEW modes \in BOOLEAN,
         r.ok, Sound(r.connection, r.device)
  PROVE  Kept(r, EnteredVT(r, outcome, modes)) /\ Added(r, EnteredVT(r, outcome, modes))
<1> DEFINE r1 == SetDRMMaster(r, outcome)
           q == IF r1.ok THEN [r1 EXCEPT !.ok = modes] ELSE r1
<1>1. Kept(r, r1) /\ Added(r, r1)
  BY SetCounts
<1>2. EnteredVT(r, outcome, modes) = q
  BY DEF EnteredVT
<1> HIDE DEF r1
<1>3. /\ q \in Statuses
      /\ q.connection = r1.connection /\ q.device = r1.device /\ q.asserted = r1.asserted
      /\ q.ok => r1.ok
  BY <1>1 DEF Statuses, Kept
<1> HIDE DEF q
<1> QED
  BY <1>1, <1>2, <1>3 DEF Kept, Added

-----------------------------------------------------------------------------
(***************************************************************************)
(* The calls.                                                              *)
(***************************************************************************)
Servers == [phase : Phases, todo : SUBSET Screens, last : BOOLEAN, generation : 1 .. Generations]

LEMMA Finite ==
  ASSUME NEW S \in SUBSET Screens
  PROVE  IsFiniteSet(S) /\ Cardinality(S) \in Nat
BY DrmMasterAssumption, FS_Subset, FS_CardinalityType

\* Screens that have the VT are held, so the references for those held cover them.
LEMMA Covers ==
  ASSUME NEW held \in SUBSET Screens, NEW twice \in SUBSET Screens, NEW vt \in SUBSET held,
         NEW n \in Nat, n >= Cardinality(held) + Cardinality(twice)
  PROVE  n >= Cardinality(vt)
<1>1. vt \in SUBSET Screens
  OBVIOUS
<1>2. Cardinality(vt) <= Cardinality(held)
  BY Finite, FS_Subset
<1> QED
  BY <1>1, <1>2, Finite

\* Where a call that did not fail an assert leaves the server.
LEMMA Returns ==
  ASSUME TypeOK, NEW s \in Screens, NEW phase \in Phases, NEW next \in Phases,
         NEW r, r.asserted, NEW gives_up \in BOOLEAN,
         Return(s, phase, next, r, gives_up)
  PROVE  /\ server' \in Servers
         /\ connection' = r.connection /\ device' = r.device
         /\ server.phase = phase /\ s \in server.todo
         /\ \/ gives_up /\ server'.phase = "exited"
            \/ /\ ~gives_up /\ server.todo = {s} /\ server'.phase = next
               /\ next \notin {"running", "away"} => server'.todo = Screens
            \/ /\ ~gives_up /\ server.todo # {s} /\ server'.phase = phase
               /\ server'.todo = server.todo \ {s}
<1>1. server \in Servers
  BY DEF TypeOK, Servers
<1>2. CASE gives_up
  <2>1. Exit(s, phase, "exited") /\ connection' = r.connection /\ device' = r.device
    BY <1>2 DEF Return
  <2>2. server' = [server EXCEPT !.phase = "exited", !.todo = {}]
    BY <2>1 DEF Exit
  <2>3. server' \in Servers /\ server'.phase = "exited"
    BY <1>1, <2>2 DEF Servers, Phases
  <2> QED
    BY <1>2, <2>1, <2>3 DEF Exit
<1>3. CASE ~gives_up
  <2>1. Turn(s, phase, next) /\ connection' = r.connection /\ device' = r.device
    BY <1>3 DEF Return
  <2>2. server.phase = phase /\ s \in server.todo
    BY <2>1 DEF Turn
  <2>3. CASE server.todo = {s}
    <3> DEFINE todo == IF next \in {"running", "away"} THEN {} ELSE Screens
    <3>1. server' = [server EXCEPT !.phase = next, !.todo = todo]
      BY <2>1, <2>3 DEF Turn
    <3>2. todo \in SUBSET Screens /\ (next \notin {"running", "away"} => todo = Screens)
      OBVIOUS
    <3> HIDE DEF todo
    <3>3. server' \in Servers /\ server'.phase = next /\ server'.todo = todo
      BY <1>1, <3>1, <3>2 DEF Servers
    <3> QED
      BY <1>3, <2>1, <2>2, <2>3, <3>2, <3>3
  <2>4. CASE server.todo # {s}
    <3>1. server' = [server EXCEPT !.todo = @ \ {s}]
      BY <2>1, <2>4 DEF Turn
    <3>2. server' \in Servers /\ server'.phase = phase /\ server'.todo = server.todo \ {s}
      BY <1>1, <2>2, <3>1 DEF Servers
    <3> QED
      BY <1>3, <2>1, <2>2, <2>4, <3>2
  <2> QED
    BY <2>3, <2>4
<1> QED
  BY <1>2, <1>3

LEMMA StatusOK ==
  ASSUME TypeOK
  PROVE  /\ Status \in Statuses /\ Status.ok /\ Status.asserted
         /\ Status.connection = connection /\ Status.device = device
BY DEF TypeOK, Status, Statuses, Connections, Devices

LEMMA InitHolds == Init => DrmInv
<1> SUFFICES ASSUME Init PROVE DrmInv
  OBVIOUS
<1>1. TypeOK
  BY DrmMasterAssumption DEF Init, TypeOK, Phases
<1>2. Held = {} /\ Twice = {} /\ {s \in Screens : scrn[s].vtSema} = {}
  BY DEF Init, Held, Twice
<1>3. Cardinality({}) = 0
  BY FS_EmptySet
<1> QED
  BY <1>1, <1>2, <1>3
  DEF Init, DrmInv, AssertsHold, Sound, HeldInv, EveryLeaveIsCovered

\* What an action has to establish: the types, and the accounts of the two sets.
LEMMA Conclude ==
  ASSUME server' \in Servers, connection' \in Connections, device' \in Devices,
         scrn' \in [Screens -> [drmFD : BOOLEAN, entFD : BOOLEAN, vtSema : BOOLEAN,
                                mali : BOOLEAN]],
         server'.phase # "aborted", Sound(connection', device'),
         server'.phase = "preinit" => (connection'.fd => connection'.master_count > 0),
         server'.phase # "exited" => \A s \in Screens : scrn'[s].vtSema => s \in Held',
         connection'.fd =>
           /\ connection'.master_count >= Cardinality(Held') + Cardinality(Twice')
           /\ server'.phase = "exited" =>
                connection'.master_count >= Cardinality({s \in Screens : scrn'[s].vtSema})
  PROVE  DrmInv'
<1> DEFINE vt == {s \in Screens : scrn'[s].vtSema}
<1>1. Held' \in SUBSET Screens /\ Twice' \in SUBSET Screens
  BY DEF Held, Twice
<1>2. server'.phase # "exited" => vt \in SUBSET Held'
  OBVIOUS
<1>3. connection'.master_count \in Nat
  BY DEF Connections
<1>4. connection'.fd => connection'.master_count >= Cardinality(vt)
  <2>1. CASE server'.phase = "exited"
    BY <2>1
  <2>2. CASE server'.phase # "exited" /\ connection'.fd
    <3> DEFINE n == connection'.master_count
               held == Held'
               twice == Twice'
    <3>1. /\ held \in SUBSET Screens /\ twice \in SUBSET Screens /\ vt \in SUBSET held
          /\ n \in Nat /\ n >= Cardinality(held) + Cardinality(twice)
      BY <1>1, <1>2, <1>3, <2>2
    <3> HIDE DEF n, held, twice, vt
    <3>2. n >= Cardinality(vt)
      BY <3>1, Covers
    <3> QED
      BY <3>2 DEF n
  <2> QED
    BY <2>1, <2>2
<1>5. EveryLeaveIsCovered'
  BY <1>4 DEF EveryLeaveIsCovered
<1>6. TypeOK'
  BY DEF TypeOK, Servers, Connections, Devices
<1>7. HeldInv'
  BY DEF HeldInv
<1> QED
  BY <1>5, <1>6, <1>7 DEF DrmInv, AssertsHold

LEMMA PreInitKeeps ==
  ASSUME DrmInv, NEW s \in Screens, PreInit(s)
  PROVE  DrmInv'
<1> DEFINE r0 == [connection |-> connection, device |-> device, ok |-> TRUE,
                  asserted |-> TRUE, drmFD |-> scrn[s].drmFD, entFD |-> scrn[s].entFD]
<1>1. PICK opened \in BOOLEAN, version \in BOOLEAN :
        LET r1 == IF PlatformBus THEN OpenDRM(r0, opened, version) ELSE r0
            r == OpenDRM(r1, opened, version)
        IN /\ Return(s, "preinit", "init", r, FALSE)
           /\ scrn' = [scrn EXCEPT ![s].drmFD = r.drmFD, ![s].entFD = r.entFD]
  BY DEF PreInit
<1> DEFINE r1 == IF PlatformBus THEN OpenDRM(r0, opened, version) ELSE r0
           r == OpenDRM(r1, opened, version)
<1>2. TypeOK
  BY DEF DrmInv
<1>3. server.phase = "preinit"
  BY <1>1 DEF Return, Exit, Turn
<1>4. /\ r0 \in OpenStatuses /\ r0.asserted
      /\ Sound(r0.connection, r0.device)
      /\ r0.connection.fd => r0.connection.master_count > 0
  BY <1>2, <1>3 DEF DrmInv, TypeOK, OpenStatuses, Connections, Devices
<1> HIDE DEF r0
<1>5. /\ r1 \in OpenStatuses /\ r1.asserted
      /\ Sound(r1.connection, r1.device)
      /\ r1.connection.fd => r1.connection.master_count > 0
  BY <1>4, OpenCounts
<1>6. Return(s, "preinit", "init", r, FALSE)
  BY <1>1
<1>7. scrn' = [scrn EXCEPT ![s].drmFD = r.drmFD, ![s].entFD = r.entFD]
  BY <1>1
<1> HIDE DEF r1
<1>8. /\ r \in OpenStatuses /\ r.asserted
      /\ Sound(r.connection, r.device)
      /\ r.connection.fd => r.connection.master_count > 0
  BY <1>5, OpenCounts
<1> HIDE DEF r
<1>9. /\ server' \in Servers
      /\ connection' = r.connection /\ device' = r.device
      /\ server'.phase \in {"preinit", "init"}
      /\ server'.phase = "init" => server'.todo = Screens
  <2>1. "preinit" \in Phases /\ "init" \in Phases /\ FALSE \in BOOLEAN /\ r.asserted
    BY <1>8 DEF Phases
  <2>2. /\ server' \in Servers /\ connection' = r.connection /\ device' = r.device
        /\ \/ server'.phase = "init"
              /\ ("init" \notin {"running", "away"} => server'.todo = Screens)
           \/ server'.phase = "preinit"
    BY <1>2, <1>6, <2>1, Returns
  <2> QED
    BY <2>2
<1>10. Held = {} /\ Held' = {} /\ Twice' = {}
  BY <1>3, <1>9 DEF Held, Twice
<1>11. /\ scrn' \in [Screens -> [drmFD : BOOLEAN, entFD : BOOLEAN, vtSema : BOOLEAN,
                                 mali : BOOLEAN]]
       /\ \A t \in Screens : scrn'[t].vtSema = scrn[t].vtSema
  BY ZenonT(30), <1>2, <1>7, <1>8 DEF TypeOK, OpenStatuses
<1>12. \A t \in Screens : ~scrn[t].vtSema
  BY <1>3, <1>10 DEF DrmInv, HeldInv
<1>13. connection' \in Connections /\ device' \in Devices
  BY <1>8, <1>9 DEF OpenStatuses
<1>14. Cardinality(Held') = 0 /\ Cardinality(Twice') = 0
  BY <1>10, FS_EmptySet
<1>15. connection'.fd => connection'.master_count >= Cardinality(Held') + Cardinality(Twice')
  BY <1>8, <1>9, <1>13, <1>14 DEF Connections
<1> QED
  BY <1>8, <1>9, <1>10, <1>11, <1>12, <1>13, <1>15, Conclude

LEMMA ScreenInitKeeps ==
  ASSUME DrmInv, NEW s \in Screens, ScreenInit(s)
  PROVE  DrmInv'
<1>1. PICK outcome \in BOOLEAN, modes \in BOOLEAN, dri2 \in {"off", "works", "fails"} :
        LET r1 == SetDRMMaster(Status, outcome)
            r2 == IF r1.ok THEN EnteredVT(r1, outcome, modes) ELSE r1
            tried == r2.ok /\ scrn[s].drmFD /\ dri2 # "off"
            r3 == IF tried /\ dri2 = "fails" THEN CloseDevice(r2) ELSE r2
        IN /\ Return(s, "init", "running", r3, ~r3.ok)
           /\ scrn' = [scrn EXCEPT ![s].vtSema = r1.ok,
                                   ![s].mali = tried /\ dri2 = "works",
                                   ![s].drmFD = @ /\ ~(tried /\ dri2 = "fails")]
  BY DEF ScreenInit
<1> DEFINE r1 == SetDRMMaster(Status, outcome)
           r2 == IF r1.ok THEN EnteredVT(r1, outcome, modes) ELSE r1
           tried == r2.ok /\ scrn[s].drmFD /\ dri2 # "off"
           r3 == IF tried /\ dri2 = "fails" THEN CloseDevice(r2) ELSE r2
           vtSema == r1.ok
           mali == tried /\ dri2 = "works"
           drmFD == scrn[s].drmFD /\ ~(tried /\ dri2 = "fails")
           gives_up == ~r3.ok
           count == connection.master_count
<1>2. TypeOK /\ Sound(connection, device) /\ HeldInv /\ EveryLeaveIsCovered
  BY DEF DrmInv
<1>3. Return(s, "init", "running", r3, gives_up)
  BY <1>1
<1>4. scrn' = [scrn EXCEPT ![s].vtSema = vtSema, ![s].mali = mali, ![s].drmFD = drmFD]
  BY <1>1
<1>5. /\ r1 \in Statuses /\ r1.asserted /\ Sound(r1.connection, r1.device)
      /\ r1.connection.fd = connection.fd /\ r1.connection.master_count >= count
      /\ connection.fd /\ r1.ok => r1.connection.master_count = count + 1
  BY <1>2, StatusOK, SetCounts DEF Kept, Added
<1>6. count \in Nat /\ r1.ok \in BOOLEAN /\ r1.connection.master_count \in Nat
  BY <1>2, <1>5 DEF TypeOK, Statuses, Connections
<1> HIDE DEF r1
<1>7. /\ r2 \in Statuses /\ r2.asserted /\ Sound(r2.connection, r2.device)
      /\ r2.connection.fd = connection.fd
      /\ r2.connection.master_count >= r1.connection.master_count
      /\ r2.ok => r1.ok
      /\ connection.fd /\ r2.ok => r2.connection.master_count = count + 2
  <2>1. CASE r1.ok
    <3>1. Kept(r1, EnteredVT(r1, outcome, modes)) /\ Added(r1, EnteredVT(r1, outcome, modes))
      BY <1>5, <2>1, EnterCounts
    <3>2. r2 = EnteredVT(r1, outcome, modes)
      BY <2>1
    <3> HIDE DEF r2
    <3>3. Kept(r1, r2) /\ Added(r1, r2)
      BY <3>1, <3>2
    <3> QED
      BY <1>5, <1>6, <2>1, <3>3 DEF Kept, Added
  <2>2. CASE ~r1.ok
    <3>1. r2 = r1
      BY <2>2
    <3> HIDE DEF r2
    <3> QED
      BY <1>5, <1>6, <2>2, <3>1
  <2> QED
    BY <2>1, <2>2
<1>8. tried \in BOOLEAN
  BY <1>7 DEF Statuses
<1> HIDE DEF r2
<1>9. /\ r3 \in Statuses /\ r3.asserted /\ Sound(r3.connection, r3.device)
      /\ r3.connection = r2.connection /\ r3.ok = r2.ok
  BY <1>7, CloseCounts DEF Kept
<1>10. vtSema \in BOOLEAN /\ mali \in BOOLEAN /\ drmFD \in BOOLEAN /\ gives_up \in BOOLEAN
  BY <1>2, <1>6, <1>9 DEF TypeOK, Statuses
<1> HIDE DEF r3, tried
<1>11. /\ server' \in Servers /\ connection' = r3.connection /\ device' = r3.device
       /\ server.phase = "init" /\ s \in server.todo
       /\ \/ gives_up /\ server'.phase = "exited"
          \/ ~gives_up /\ server.todo = {s} /\ server'.phase = "running"
          \/ /\ ~gives_up /\ server.todo # {s} /\ server'.phase = "init"
             /\ server'.todo = server.todo \ {s}
  <2>1. "init" \in Phases /\ "running" \in Phases
    BY DEF Phases
  <2> HIDE DEF gives_up
  <2>2. Return(s, "init", "running", r3, gives_up) /\ gives_up \in BOOLEAN /\ r3.asserted
    BY <1>3, <1>9, <1>10
  <2>3. /\ server' \in Servers /\ connection' = r3.connection /\ device' = r3.device
        /\ server.phase = "init" /\ s \in server.todo
        /\ \/ gives_up /\ server'.phase = "exited"
           \/ /\ ~gives_up /\ server.todo = {s} /\ server'.phase = "running"
              /\ "running" \notin {"running", "away"} => server'.todo = Screens
           \/ /\ ~gives_up /\ server.todo # {s} /\ server'.phase = "init"
              /\ server'.todo = server.todo \ {s}
    BY <1>2, <2>1, <2>2, Returns
  <2> QED
    BY <2>3
<1>12. connection' \in Connections /\ device' \in Devices /\ Sound(connection', device')
  BY <1>9, <1>11 DEF Statuses
<1> HIDE DEF mali, drmFD
<1>13. /\ scrn' \in [Screens -> [drmFD : BOOLEAN, entFD : BOOLEAN, vtSema : BOOLEAN,
                                 mali : BOOLEAN]]
       /\ \A t \in Screens \ {s} : scrn'[t] = scrn[t]
       /\ scrn'[s].vtSema = vtSema
  BY ZenonT(30), <1>2, <1>4, <1>10 DEF TypeOK
<1>14. /\ Held \in SUBSET Screens /\ Twice \in SUBSET Screens
       /\ s \notin Held /\ s \notin Twice
       /\ \A t \in Screens : scrn[t].vtSema => t \in Held
  BY <1>2, <1>11 DEF Held, Twice, HeldInv
<1>15. /\ Cardinality(Held) \in Nat /\ Cardinality(Twice) \in Nat
       /\ Cardinality(Held \cup {s}) = Cardinality(Held) + 1
       /\ Cardinality(Twice \cup {s}) = Cardinality(Twice) + 1
  BY <1>14, Finite, FS_AddElement
<1>16. connection.fd => count >= Cardinality(Held) + Cardinality(Twice)
  BY <1>2 DEF HeldInv
<1>17. connection'.fd = connection.fd /\ connection'.master_count \in Nat
  BY <1>7, <1>9, <1>11, <1>12 DEF Connections
<1>18. CASE gives_up
  <2> DEFINE vt == {t \in Screens : scrn'[t].vtSema}
  <2>1. server'.phase = "exited"
    BY <1>11, <1>18
  <2>2. Held' = {} /\ Twice' = {}
    BY <2>1 DEF Held, Twice
  <2>3. Cardinality(Held') = 0 /\ Cardinality(Twice') = 0
    BY <2>2, FS_EmptySet
  <2>4. connection'.fd => connection'.master_count >= Cardinality(vt)
    <3>1. CASE vtSema
      <4>1. vt \in SUBSET (Held \cup {s})
        BY <1>13, <1>14
      <4>2. Cardinality(vt) <= Cardinality(Held) + 1
        BY <1>14, <1>15, <4>1, Finite, FS_Subset
      <4>3. Cardinality(vt) \in Nat
        BY Finite
      <4>4. connection.fd => connection'.master_count >= count + 1
        BY <1>5, <1>6, <1>7, <1>9, <1>11, <1>17, <3>1
      <4> HIDE DEF vt
      <4> QED
        BY <1>6, <1>15, <1>16, <1>17, <4>2, <4>3, <4>4
    <3>2. CASE ~vtSema
      <4>1. vt \in SUBSET Held
        BY <1>13, <1>14, <3>2
      <4>2. Cardinality(vt) <= Cardinality(Held)
        BY <1>14, <4>1, Finite, FS_Subset
      <4>3. Cardinality(vt) \in Nat
        BY Finite
      <4>4. connection.fd => connection'.master_count >= count
        BY <1>5, <1>6, <1>7, <1>9, <1>11, <1>17
      <4> HIDE DEF vt
      <4> QED
        BY <1>6, <1>15, <1>16, <1>17, <4>2, <4>3, <4>4
    <3> QED
      BY <3>1, <3>2
  <2> QED
    BY <1>11, <1>12, <1>13, <1>17, <2>1, <2>3, <2>4, Conclude
<1>19. CASE ~gives_up
  <2>1. server'.phase \in {"init", "running"}
    BY <1>11, <1>19
  <2>2. Held' = Held \cup {s} /\ Twice' = Twice \cup {s}
    <3>1. CASE server.todo = {s}
      BY <1>11, <1>19, <3>1 DEF Held, Twice
    <3>2. CASE server.todo # {s}
      BY <1>11, <1>19, <3>2 DEF Held, Twice
    <3> QED
      BY <3>1, <3>2
  <2>3. connection.fd => connection'.master_count = count + 2
    BY <1>7, <1>9, <1>11, <1>19
  <2>4. connection'.fd => connection'.master_count >= Cardinality(Held') + Cardinality(Twice')
    BY <1>6, <1>15, <1>16, <1>17, <2>2, <2>3
  <2>5. \A t \in Screens : scrn'[t].vtSema => t \in Held'
    BY <1>13, <1>14, <2>2
  <2> QED
    BY <1>11, <1>12, <1>13, <2>1, <2>4, <2>5, Conclude
<1> HIDE DEF gives_up
<1> QED
  BY <1>10, <1>18, <1>19

LEMMA LeaveVTKeeps ==
  ASSUME DrmInv, NEW s \in Screens, LeaveVT(s)
  PROVE  DrmInv'
<1>1. PICK outcome \in BOOLEAN, vtSema \in BOOLEAN :
        /\ Return(s, "leaving", "away", DropDRMMaster(Status, outcome), FALSE)
        /\ scrn' = [scrn EXCEPT ![s].vtSema = @ /\ vtSema]
  BY DEF LeaveVT
<1> DEFINE r == DropDRMMaster(Status, outcome)
           count == connection.master_count
           kept == scrn[s].vtSema /\ vtSema
<1>2. TypeOK /\ Sound(connection, device) /\ HeldInv
  BY DEF DrmInv
<1>3. server.phase = "leaving" /\ s \in server.todo
  BY <1>1 DEF Return, Exit, Turn
<1>4. /\ Held = Screens /\ Twice \in SUBSET Screens /\ s \in Twice
      /\ Cardinality(Held) \in Nat /\ Cardinality(Twice) \in Nat
      /\ Cardinality(Twice \ {s}) = Cardinality(Twice) - 1
  <2>1. Held = Screens /\ Twice \in SUBSET Screens /\ s \in Twice
    BY <1>3 DEF Held, Twice
  <2> QED
    BY <2>1, Finite, FS_RemoveElement
<1>5. Cardinality(Twice \ {s}) \in Nat
  BY <1>4, Finite
<1>6. count \in Nat /\ (connection.fd => count >= Cardinality(Held) + Cardinality(Twice))
  BY <1>2 DEF HeldInv, TypeOK
<1>7. connection.fd => count > 0
  BY <1>4, <1>5, <1>6
<1>8. /\ r \in Statuses /\ r.asserted /\ Sound(r.connection, r.device)
      /\ r.connection.fd = connection.fd /\ r.connection.master_count >= count - 1
  BY <1>2, <1>7, StatusOK, DropCounts DEF Kept
<1>9. Return(s, "leaving", "away", r, FALSE)
  BY <1>1
<1>10. scrn' = [scrn EXCEPT ![s].vtSema = kept]
  BY <1>1
<1> HIDE DEF r
<1>11. /\ server' \in Servers /\ connection' = r.connection /\ device' = r.device
       /\ \/ server.todo = {s} /\ server'.phase = "away"
          \/ /\ server.todo # {s} /\ server'.phase = "leaving"
             /\ server'.todo = server.todo \ {s}
  <2>1. "leaving" \in Phases /\ "away" \in Phases /\ FALSE \in BOOLEAN
    BY DEF Phases
  <2>2. /\ server' \in Servers /\ connection' = r.connection /\ device' = r.device
        /\ \/ /\ server.todo = {s} /\ server'.phase = "away"
              /\ "away" \notin {"running", "away"} => server'.todo = Screens
           \/ /\ server.todo # {s} /\ server'.phase = "leaving"
              /\ server'.todo = server.todo \ {s}
    BY ZenonT(30), <1>2, <1>8, <1>9, <2>1, Returns
  <2> QED
    BY <2>2
<1>12. connection' \in Connections /\ device' \in Devices /\ Sound(connection', device')
  BY <1>8, <1>11 DEF Statuses
<1>13. kept \in BOOLEAN
  BY <1>2 DEF TypeOK
<1> HIDE DEF kept
<1>14. scrn' \in [Screens -> [drmFD : BOOLEAN, entFD : BOOLEAN, vtSema : BOOLEAN,
                             mali : BOOLEAN]]
  BY <1>2, <1>10, <1>13 DEF TypeOK
<1>15. Held' = Screens /\ Twice' = Twice \ {s}
  <2>1. CASE server.todo = {s}
    BY <1>3, <1>11, <2>1 DEF Held, Twice
  <2>2. CASE server.todo # {s}
    BY <1>3, <1>11, <2>2 DEF Held, Twice
  <2> QED
    BY <2>1, <2>2
<1>16. connection'.fd => connection'.master_count >= Cardinality(Held') + Cardinality(Twice')
  <2>1. connection'.fd = connection.fd /\ connection'.master_count >= count - 1
        /\ connection'.master_count \in Nat
    BY <1>8, <1>11, <1>12 DEF Connections
  <2> HIDE DEF count
  <2> QED
    BY <1>4, <1>6, <1>15, <2>1
<1>17. server'.phase \in {"leaving", "away"}
  BY <1>11
<1> QED
  BY <1>11, <1>12, <1>14, <1>15, <1>16, <1>17, Conclude

LEMMA EnterVTKeeps ==
  ASSUME DrmInv, NEW s \in Screens, EnterVT(s)
  PROVE  DrmInv'
<1>1. PICK outcome \in BOOLEAN, modes \in BOOLEAN :
        LET r == EnteredVT(Status, outcome, modes) IN
        /\ Return(s, "entering", "running", r, ~r.ok)
        /\ scrn' = [scrn EXCEPT ![s].vtSema = TRUE]
  BY DEF EnterVT
<1> DEFINE r == EnteredVT(Status, outcome, modes)
           gives_up == ~r.ok
           count == connection.master_count
<1>2. TypeOK /\ Sound(connection, device) /\ HeldInv
  BY DEF DrmInv
<1>3. /\ Return(s, "entering", "running", r, gives_up)
      /\ scrn' = [scrn EXCEPT ![s].vtSema = TRUE]
  BY <1>1
<1>4. /\ r \in Statuses /\ r.asserted /\ Sound(r.connection, r.device)
      /\ r.connection.fd = connection.fd /\ r.connection.master_count >= count
      /\ connection.fd /\ r.ok => r.connection.master_count = count + 1
  BY <1>2, StatusOK, EnterCounts DEF Kept, Added
<1> HIDE DEF r
<1>5. /\ server' \in Servers /\ connection' = r.connection /\ device' = r.device
      /\ server.phase = "entering" /\ s \in server.todo
      /\ \/ gives_up /\ server'.phase = "exited"
         \/ ~gives_up /\ server.todo = {s} /\ server'.phase = "running"
         \/ /\ ~gives_up /\ server.todo # {s} /\ server'.phase = "entering"
            /\ server'.todo = server.todo \ {s}
  <2>1. "entering" \in Phases /\ "running" \in Phases
    BY DEF Phases
  <2>2. gives_up \in BOOLEAN /\ r.asserted
    BY <1>4 DEF Statuses
  <2> HIDE DEF gives_up
  <2>3. /\ server' \in Servers /\ connection' = r.connection /\ device' = r.device
        /\ server.phase = "entering" /\ s \in server.todo
        /\ \/ gives_up /\ server'.phase = "exited"
           \/ /\ ~gives_up /\ server.todo = {s} /\ server'.phase = "running"
              /\ "running" \notin {"running", "away"} => server'.todo = Screens
           \/ /\ ~gives_up /\ server.todo # {s} /\ server'.phase = "entering"
              /\ server'.todo = server.todo \ {s}
    BY <1>2, <1>3, <2>1, <2>2, Returns
  <2> QED
    BY <2>3
<1>6. connection' \in Connections /\ device' \in Devices /\ Sound(connection', device')
  BY <1>4, <1>5 DEF Statuses
<1>7. scrn' \in [Screens -> [drmFD : BOOLEAN, entFD : BOOLEAN, vtSema : BOOLEAN,
                            mali : BOOLEAN]]
  BY <1>2, <1>3 DEF TypeOK
<1>8. /\ Held = Screens /\ Twice \in SUBSET Screens /\ s \notin Twice
      /\ Cardinality(Held) \in Nat /\ Cardinality(Twice) \in Nat
      /\ Cardinality(Twice \cup {s}) = Cardinality(Twice) + 1
  <2>1. Held = Screens /\ Twice \in SUBSET Screens /\ s \notin Twice
    BY <1>5 DEF Held, Twice
  <2> QED
    BY <2>1, Finite, FS_AddElement
<1>9. count \in Nat /\ (connection.fd => count >= Cardinality(Held) + Cardinality(Twice))
  BY <1>2 DEF HeldInv, TypeOK
<1>10. connection'.fd = connection.fd /\ connection'.master_count \in Nat
       /\ connection'.master_count >= count
  BY <1>4, <1>5, <1>6 DEF Connections
<1>11. CASE gives_up
  <2> DEFINE vt == {t \in Screens : scrn'[t].vtSema}
  <2>1. server'.phase = "exited"
    BY <1>5, <1>11
  <2>2. Held' = {} /\ Twice' = {}
    BY <2>1 DEF Held, Twice
  <2>3. Cardinality(Held') = 0 /\ Cardinality(Twice') = 0
    BY <2>2, FS_EmptySet
  <2>4. vt \in SUBSET Held
    BY <1>8
  <2>5. Cardinality(vt) <= Cardinality(Held) /\ Cardinality(vt) \in Nat
    BY <1>8, <2>4, Finite, FS_Subset
  <2>6. connection'.fd => connection'.master_count >= Cardinality(vt)
    <3> HIDE DEF vt, count
    <3> QED
      BY <1>8, <1>9, <1>10, <2>5
  <2> QED
    BY <1>5, <1>6, <1>7, <1>10, <2>1, <2>3, <2>6, Conclude
<1>12. CASE ~gives_up
  <2>1. server'.phase \in {"entering", "running"}
    BY <1>5, <1>12
  <2>2. Held' = Screens /\ Twice' = Twice \cup {s}
    <3>1. CASE server.todo = {s}
      BY <1>5, <1>12, <3>1 DEF Held, Twice
    <3>2. CASE server.todo # {s}
      BY <1>5, <1>12, <3>2 DEF Held, Twice
    <3> QED
      BY <3>1, <3>2
  <2>3. connection.fd => connection'.master_count = count + 1
    BY <1>4, <1>5, <1>12
  <2>4. connection'.fd => connection'.master_count >= Cardinality(Held') + Cardinality(Twice')
    BY <1>8, <1>9, <1>10, <2>2, <2>3
  <2> QED
    BY <1>5, <1>6, <1>7, <2>1, <2>2, <2>4, Conclude
<1> HIDE DEF gives_up
<1>13. gives_up \in BOOLEAN
  BY <1>4 DEF Statuses, gives_up
<1> QED
  BY <1>11, <1>12, <1>13

LEMMA CloseScreenKeeps ==
  ASSUME DrmInv, NEW s \in Screens, CloseScreen(s)
  PROVE  DrmInv'
<1> DEFINE r1 == IF scrn[s].mali THEN CloseDevice(Status) ELSE Status
           final == server.last /\ server.todo = {s}
           count == connection.master_count
           drmFD == scrn[s].drmFD /\ ~scrn[s].mali
<1>1. PICK outcome \in BOOLEAN :
        LET r == IF scrn[s].vtSema THEN DropDRMMaster(r1, outcome) ELSE r1
        IN /\ Return(s, "closing", "init", r, final)
           /\ scrn' = [scrn EXCEPT ![s].vtSema = FALSE, ![s].mali = FALSE, ![s].drmFD = drmFD]
  BY DEF CloseScreen
<1> DEFINE r == IF scrn[s].vtSema THEN DropDRMMaster(r1, outcome) ELSE r1
<1>2. TypeOK /\ Sound(connection, device) /\ HeldInv
  BY DEF DrmInv
<1>3. server.phase = "closing" /\ s \in server.todo
  BY <1>1 DEF Return, Exit, Turn
<1>4. /\ Return(s, "closing", "init", r, final)
      /\ scrn' = [scrn EXCEPT ![s].vtSema = FALSE, ![s].mali = FALSE, ![s].drmFD = drmFD]
  BY <1>1
<1>5. /\ Held \in SUBSET Screens /\ Twice = {} /\ s \in Held
      /\ Cardinality(Held) \in Nat /\ Cardinality(Held \ {s}) \in Nat
      /\ Cardinality(Held \ {s}) = Cardinality(Held) - 1
      /\ \A t \in Screens : scrn[t].vtSema => t \in Held
  <2>1. Held \in SUBSET Screens /\ Twice = {} /\ s \in Held
    BY <1>3 DEF Held, Twice
  <2> QED
    BY <1>2, <1>3, <2>1, Finite, FS_RemoveElement DEF HeldInv
<1>6. count \in Nat /\ (connection.fd => count >= Cardinality(Held))
  <2>1. count \in Nat /\ Cardinality({}) = 0
    BY <1>2, FS_EmptySet DEF TypeOK
  <2> QED
    BY <1>2, <1>5, <2>1 DEF HeldInv
<1>7. connection.fd => count > 0
  BY <1>5, <1>6
<1>8. /\ r1 \in Statuses /\ r1.asserted /\ Sound(r1.connection, r1.device)
      /\ r1.connection = connection
  <2>1. CASE scrn[s].mali
    BY <1>2, <2>1, StatusOK, CloseCounts DEF Kept
  <2>2. CASE ~scrn[s].mali
    BY <1>2, <2>2, StatusOK
  <2> QED
    BY <2>1, <2>2
<1> HIDE DEF r1
<1>9. /\ r \in Statuses /\ r.asserted /\ Sound(r.connection, r.device)
      /\ r.connection.fd = connection.fd /\ r.connection.master_count >= count - 1
  <2>1. CASE scrn[s].vtSema
    BY <1>7, <1>8, <2>1, DropCounts DEF Kept
  <2>2. CASE ~scrn[s].vtSema
    BY <1>6, <1>8, <2>2
  <2> QED
    BY <2>1, <2>2
<1> HIDE DEF r
<1>10. /\ server' \in Servers /\ connection' = r.connection /\ device' = r.device
       /\ \/ final /\ server'.phase = "exited"
          \/ ~final /\ server.todo = {s} /\ server'.phase = "init" /\ server'.todo = Screens
          \/ /\ ~final /\ server.todo # {s} /\ server'.phase = "closing"
             /\ server'.todo = server.todo \ {s}
  <2>1. "closing" \in Phases /\ "init" \in Phases
    BY DEF Phases
  <2>2. final \in BOOLEAN
    BY <1>2 DEF TypeOK
  <2> HIDE DEF final
  <2>3. /\ server' \in Servers /\ connection' = r.connection /\ device' = r.device
        /\ \/ final /\ server'.phase = "exited"
           \/ /\ ~final /\ server.todo = {s} /\ server'.phase = "init"
              /\ "init" \notin {"running", "away"} => server'.todo = Screens
           \/ /\ ~final /\ server.todo # {s} /\ server'.phase = "closing"
              /\ server'.todo = server.todo \ {s}
    BY <1>2, <1>4, <1>9, <2>1, <2>2, Returns
  <2> QED
    BY <2>3
<1>11. connection' \in Connections /\ device' \in Devices /\ Sound(connection', device')
  BY <1>9, <1>10 DEF Statuses
<1>12. drmFD \in BOOLEAN
  BY <1>2 DEF TypeOK
<1> HIDE DEF drmFD
<1>13. /\ scrn' \in [Screens -> [drmFD : BOOLEAN, entFD : BOOLEAN, vtSema : BOOLEAN,
                                 mali : BOOLEAN]]
       /\ \A t \in Screens \ {s} : scrn'[t] = scrn[t]
       /\ ~scrn'[s].vtSema
  BY ZenonT(30), <1>2, <1>4, <1>12 DEF TypeOK
<1>14. connection'.fd => connection'.master_count >= Cardinality(Held \ {s})
  <2>1. connection'.fd = connection.fd /\ connection'.master_count >= count - 1
        /\ connection'.master_count \in Nat
    BY <1>9, <1>10, <1>11 DEF Connections
  <2> HIDE DEF count
  <2> QED
    BY <1>5, <1>6, <2>1
<1>15. server.todo = {s} => Held \ {s} = {}
  BY <1>3 DEF Held
<1>16. Cardinality({}) = 0
  BY FS_EmptySet
<1>17. connection'.master_count \in Nat
  BY <1>11 DEF Connections
<1>18. Twice' = {}
  BY <1>10 DEF Twice
<1>19. CASE final
  <2>1. server'.phase = "exited" /\ server.todo = {s}
    BY <1>10, <1>19
  <2>2. Held' = {} /\ {t \in Screens : scrn'[t].vtSema} = {}
    BY <1>5, <1>13, <1>15, <2>1 DEF Held
  <2>3. Cardinality(Held') = 0 /\ Cardinality(Twice') = 0
        /\ Cardinality({t \in Screens : scrn'[t].vtSema}) = 0
    BY <1>16, <1>18, <2>2
  <2> QED
    BY <1>10, <1>11, <1>13, <1>17, <2>1, <2>3, Conclude
<1>20. CASE ~final
  <2>1. server'.phase \in {"closing", "init"}
    BY <1>10, <1>20
  <2>2. Held' = Held \ {s}
    <3>1. CASE server.todo = {s}
      BY <1>10, <1>15, <1>20, <3>1 DEF Held
    <3>2. CASE server.todo # {s}
      BY <1>3, <1>10, <1>20, <3>2 DEF Held
    <3> QED
      BY <3>1, <3>2
  <2>3. \A t \in Screens : scrn'[t].vtSema => t \in Held'
    BY <1>5, <1>13, <2>2
  <2>4. connection'.fd => connection'.master_count >= Cardinality(Held') + Cardinality(Twice')
    BY <1>5, <1>14, <1>16, <1>17, <1>18, <2>2
  <2> QED
    BY <1>10, <1>11, <1>13, <2>1, <2>3, <2>4, Conclude
<1> HIDE DEF final
<1>21. final \in BOOLEAN
  BY <1>2 DEF TypeOK, final
<1> QED
  BY <1>19, <1>20, <1>21

\* The server turns to all screens: those that are away are held, but not twice.
LEMMA TurnKeeps ==
  ASSUME DrmInv, UNCHANGED <<connection, device, scrn>>,
         server' \in Servers, server'.todo = Screens,
         \/ server.phase = "running" /\ server'.phase \in {"leaving", "closing"}
         \/ server.phase = "away" /\ server'.phase \in {"entering", "closing"}
  PROVE  DrmInv'
<1>1. TypeOK /\ Sound(connection, device) /\ HeldInv
  BY DEF DrmInv
<1>2. /\ Held = Screens /\ Held' = Screens
      /\ Twice \in SUBSET Screens /\ Twice' \in SUBSET Twice
  BY DEF Held, Twice
<1>3. Cardinality(Twice') <= Cardinality(Twice)
  BY <1>2, Finite, FS_Subset
<1>4. Cardinality(Twice') \in Nat /\ Cardinality(Twice) \in Nat /\ Cardinality(Held) \in Nat
  <2>1. Twice' \in SUBSET Screens
    BY <1>2
  <2> QED
    BY <1>2, <2>1, Finite
<1>5. connection' \in Connections /\ device' \in Devices
  BY <1>1 DEF TypeOK, Connections, Devices
<1>6. connection'.fd => connection'.master_count >= Cardinality(Held') + Cardinality(Twice')
  BY <1>1, <1>2, <1>3, <1>4, <1>5 DEF HeldInv, Connections
<1> QED
  BY <1>1, <1>2, <1>5, <1>6, Conclude DEF TypeOK

LEMMA BeginKeeps ==
  ASSUME DrmInv, SwitchAway \/ SwitchBack \/ Reset \/ Terminate
  PROVE  DrmInv'
<1>1. server \in Servers
  BY DEF DrmInv, TypeOK, Servers
<1>2. "leaving" \in Phases /\ "entering" \in Phases /\ "closing" \in Phases
  BY DEF Phases
<1>3. CASE SwitchAway
  BY <1>1, <1>2, <1>3, TurnKeeps DEF SwitchAway, Begin, Servers
<1>4. CASE SwitchBack
  BY <1>1, <1>2, <1>4, TurnKeeps DEF SwitchBack, Begin, Servers
<1>5. CASE Reset
  <2>1. server.generation + 1 \in 1 .. Generations
    BY <1>1, <1>5, DrmMasterAssumption DEF Reset, Servers
  <2> QED
    BY <1>1, <1>2, <1>5, <2>1, TurnKeeps DEF Reset, Servers
<1>6. CASE Terminate
  BY <1>1, <1>2, <1>6, TurnKeeps DEF Terminate, Servers
<1> QED
  BY <1>3, <1>4, <1>5, <1>6

LEMMA StepKeeps == DrmInv /\ [Next]_vars => DrmInv'
<1> SUFFICES ASSUME DrmInv, [Next]_vars PROVE DrmInv'
  OBVIOUS
<1>1. CASE Next
  BY <1>1, PreInitKeeps, ScreenInitKeeps, LeaveVTKeeps, EnterVTKeeps, CloseScreenKeeps,
     BeginKeeps DEF Next
<1>2. CASE UNCHANGED vars
  BY <1>2 DEF vars, DrmInv, TypeOK, AssertsHold, HeldInv, Held, Twice, EveryLeaveIsCovered
<1> QED
  BY <1>1, <1>2

-----------------------------------------------------------------------------
(***************************************************************************)
(* The theorems.                                                           *)
(***************************************************************************)
\* Every call of the server keeps the accounts: two references for a screen that has
\* the VT, one for a screen that is away, none for one that is not initialised.
THEOREM InvariantCorrect == Spec => []DrmInv
BY InitHolds, StepKeeps, PTL DEF Spec

\* The asserts of FBTurboDropDRMMaster and FBTurboOpenDRM hold for any number of
\* screens, VT switches, resets and failures.
THEOREM AssertsCorrect == Spec => []AssertsHold
<1>1. DrmInv => AssertsHold
  BY DEF DrmInv
<1> QED
  BY <1>1, InvariantCorrect, PTL

\* No screen that has the VT is left out of the count.
THEOREM CoverCorrect == Spec => []EveryLeaveIsCovered
<1>1. DrmInv => EveryLeaveIsCovered
  BY DEF DrmInv
<1> QED
  BY <1>1, InvariantCorrect, PTL
=============================================================================
