--------------------------- MODULE PixmapBoProofs ---------------------------
(***************************************************************************)
(* Proofs about PixmapBo, for every finite number of pixmaps, windows and  *)
(* DRI2 buffers, every set of records and every set of failing calls.      *)
(***************************************************************************)
EXTENDS PixmapBo, FiniteSetTheorems, TLAPS

Phases == {"screen_init", "resources", "running", "dead"}

PixmapRecs == [refcnt : Int, info : Records \cup {NoInfo}, ptr : {"null", "own", "bo"}]

WindowRecs == [pixmap : AllPixmaps, mem : Infos \cup {NoInfo}]

InfoRecs == [refcount : Int, handle : Handles \cup {Invalid}, addr : BOOLEAN]

BoRecs == [refcnt : Int, accel : BOOLEAN, mapped : BOOLEAN, ext : Int,
           dmabuf : BOOLEAN, fb : BOOLEAN]

\* What an operator may be given and may return, on the way to a state.
Statuses == [server : [phase : Phases, useDumb : BOOLEAN],
             pix : [AllPixmaps -> PixmapRecs], win : [Windows -> WindowRecs],
             buf : [Buffers -> Records \cup {NoInfo, NullBuffer}],
             info : [Records -> InfoRecs], bo : [Handles -> BoRecs]]

Alive(r) == r.server.phase # "dead"

\* Status q follows from r: the server is the same, or it has died.
Goes(r, q) ==
  /\ q \in Statuses
  /\ q.server \in {r.server, [r.server EXCEPT !.phase = "dead"]}

\* Record i and the BO of its name are replaced.
Put(r, i, rec, m) == [r EXCEPT !.info[i] = rec, !.bo[i] = m]

-----------------------------------------------------------------------------
(***************************************************************************)
(* Steps between statuses.                                                 *)
(***************************************************************************)

LEMMA GoesTwice ==
  ASSUME NEW r \in Statuses, NEW q, NEW t, Goes(r, q), Goes(q, t)
  PROVE  Goes(r, t)
BY DEF Goes, Statuses

\* Who is alive after a step was so before.
LEMMA AliveBefore ==
  ASSUME NEW r \in Statuses, NEW q, Goes(r, q), Alive(q)
  PROVE  Alive(r) /\ q.server = r.server
BY DEF Goes, Statuses, Alive, Phases

LEMMA Dies ==
  ASSUME NEW r \in Statuses
  PROVE  Goes(r, Die(r)) /\ ~Alive(Die(r))
BY DEF Goes, Statuses, Die, Alive, Phases

LEMMA Stays ==
  ASSUME NEW r \in Statuses
  PROVE  Goes(r, r)
BY DEF Goes

LEMMA SetBo ==
  ASSUME NEW r \in Statuses, NEW h \in Handles, NEW m \in BoRecs
  PROVE  /\ Goes(r, [r EXCEPT !.bo[h] = m])
         /\ [r EXCEPT !.bo[h] = m].bo = [r.bo EXCEPT ![h] = m]
         /\ [r EXCEPT !.bo[h] = m].info = r.info
         /\ [r EXCEPT !.bo[h] = m].bo[h] = m
BY DEF Goes, Statuses

LEMMA SetInfo ==
  ASSUME NEW r \in Statuses, NEW i \in Records, NEW rec \in InfoRecs
  PROVE  Goes(r, [r EXCEPT !.info[i] = rec])
BY DEF Goes, Statuses

LEMMA PutGoes ==
  ASSUME NEW r \in Statuses, NEW i \in Records, NEW rec \in InfoRecs, NEW m \in BoRecs
  PROVE  Goes(r, Put(r, i, rec, m)) /\ Put(r, i, rec, m) \in Statuses
<1>1. i \in Handles
  BY DEF Handles
<1> QED
  BY <1>1 DEF Goes, Statuses, Put

LEMMA PutKeeps ==
  ASSUME NEW r \in Statuses, NEW i, NEW rec, NEW m
  PROVE  /\ Put(r, i, rec, m).server = r.server /\ Put(r, i, rec, m).pix = r.pix
         /\ Put(r, i, rec, m).win = r.win /\ Put(r, i, rec, m).buf = r.buf
BY DEF Statuses, Put

LEMMA PutAt ==
  ASSUME NEW r \in Statuses, NEW i \in Records, NEW rec \in InfoRecs, NEW m \in BoRecs
  PROVE  /\ Put(r, i, rec, m).info[i] = rec /\ Put(r, i, rec, m).bo[i] = m
         /\ \A j \in Records \ {i} : Put(r, i, rec, m).info[j] = r.info[j]
         /\ \A h \in Handles \ {i} : Put(r, i, rec, m).bo[h] = r.bo[h]
<1>1. i \in Handles
  BY DEF Handles
<1> QED
  BY <1>1 DEF Put, Statuses

-----------------------------------------------------------------------------
(***************************************************************************)
(* The backend: every operator leads from a status to a status, and if the *)
(* server survives, only the BO it is called for is another one.           *)
(***************************************************************************)
NewBO(accel) == [NoBO EXCEPT !.refcnt = 1, !.accel = accel]

Accel(r, usage) == r.server.useDumb /\ IsAccel(usage)

LEMMA BoRecsOK ==
  /\ NoBO \in BoRecs
  /\ \A accel \in BOOLEAN : NewBO(accel) \in BoRecs
  /\ \A m \in BoRecs, x, d \in BOOLEAN : [m EXCEPT !.mapped = x, !.dmabuf = d] \in BoRecs
  /\ \A m \in BoRecs, x \in BOOLEAN : [m EXCEPT !.fb = x] \in BoRecs
<1>0. NoBO \in BoRecs
  BY DEF NoBO, BoRecs
<1>1. ASSUME NEW accel \in BOOLEAN
      PROVE  NewBO(accel) \in BoRecs
  <2>1. \A m \in BoRecs, n \in Int : [m EXCEPT !.refcnt = n, !.accel = accel] \in BoRecs
    BY DEF BoRecs
  <2>2. 1 \in Int
    OBVIOUS
  <2> QED
    BY Zenon, <1>0, <2>1, <2>2 DEF NewBO
<1>2. \A m \in BoRecs, x, d \in BOOLEAN : [m EXCEPT !.mapped = x, !.dmabuf = d] \in BoRecs
  BY DEF BoRecs
<1>3. \A m \in BoRecs, x \in BOOLEAN : [m EXCEPT !.fb = x] \in BoRecs
  BY DEF BoRecs
<1> QED
  BY <1>0, <1>1, <1>2, <1>3

\* dumb_bo_new and ump_bo_new.
LEMMA BoNewGoes ==
  ASSUME NEW r \in Statuses, NEW h \in Handles, NEW usage, NEW outcome
  PROVE  LET q == BoNew(r, h, usage, outcome) IN
         /\ Goes(r, q)
         /\ Alive(q) => q = [r EXCEPT !.bo[h] = NewBO(Accel(r, usage))]
<1> DEFINE q == BoNew(r, h, usage, outcome)
           m == NewBO(Accel(r, usage))
<1>1. Accel(r, usage) \in BOOLEAN
  BY DEF Statuses, IsAccel, Accel
<1>2. m \in BoRecs
  <2>1. NewBO(TRUE) \in BoRecs /\ NewBO(FALSE) \in BoRecs
    BY BoRecsOK
  <2>2. m = NewBO(TRUE) \/ m = NewBO(FALSE)
    BY <1>1
  <2> HIDE DEF m
  <2> QED
    BY <2>1, <2>2
<1>3. ArmsocNew = NewBO(TRUE) /\ [NoBO EXCEPT !.refcnt = 1] = NewBO(FALSE)
  <2>1. \A t \in BoRecs, n \in Int :
          [t EXCEPT !.refcnt = n, !.accel = t.accel] = [t EXCEPT !.refcnt = n]
    BY DEF BoRecs
  <2>2. NoBO \in BoRecs /\ NoBO.accel = FALSE
    BY BoRecsOK DEF NoBO
  <2>3. [NoBO EXCEPT !.refcnt = 1, !.accel = NoBO.accel] = [NoBO EXCEPT !.refcnt = 1]
    BY <2>1, <2>2
  <2>4. [NoBO EXCEPT !.refcnt = 1] = NewBO(FALSE)
    BY <2>2, <2>3 DEF NewBO
  <2>5. ArmsocNew = NewBO(TRUE)
    BY DEF ArmsocNew, NewBO
  <2> QED
    BY <2>4, <2>5
<1>4. q = Die(r) \/ q = [r EXCEPT !.bo[h] = m]
  <2>1. CASE ~r.server.useDumb
    BY <1>3, <2>1 DEF BoNew, UmpNew, Accel
  <2>2. CASE r.server.useDumb /\ ~IsAccel(usage)
    BY <1>3, <2>2 DEF BoNew, DumbNew, Accel
  <2>3. CASE r.server.useDumb /\ IsAccel(usage)
    BY <1>3, <2>3 DEF BoNew, DumbNew, Accel
  <2> QED
    BY <1>1, <2>1, <2>2, <2>3
<1> HIDE DEF q, m
<1>5. Goes(r, q) /\ (Alive(q) => q = [r EXCEPT !.bo[h] = m])
  BY <1>2, <1>4, Dies, SetBo
<1> QED
  BY <1>5 DEF q, m

\* The BO of a map: the mapping, and a dma_buf if the hardware uses it.
MappedBO(m, x, d) == [m EXCEPT !.mapped = x, !.dmabuf = d]

LEMMA BoMapGoes ==
  ASSUME NEW r \in Statuses, NEW h \in Handles, NEW works \in BOOLEAN, NEW outcome
  PROVE  LET q == BoMap(r, h, works, outcome) IN
         /\ Goes(r, q)
         /\ Alive(q) => r.bo[h].refcnt # 0
         /\ Alive(q) => \E x, d \in BOOLEAN :
                          /\ q = [r EXCEPT !.bo[h] = MappedBO(r.bo[h], x, d)]
                          /\ d # r.bo[h].dmabuf => r.bo[h].accel /\ r.bo[h].ext > 0
<1> DEFINE q == BoMap(r, h, works, outcome)
           m == r.bo[h]
<1>1. m \in BoRecs
  BY DEF Statuses
<1>2. \A x, d \in BOOLEAN : MappedBO(m, x, d) \in BoRecs
  BY <1>1 DEF MappedBO, BoRecs
<1>3. CASE m.refcnt = 0
  <2>1. q = Die(r)
    BY <1>3 DEF BoMap, Use
  <2> QED
    BY <2>1, Dies
<1>4. CASE m.refcnt # 0
  <2> DEFINE x == m.mapped \/ works
             y == outcome # "no_dmabuf"
             sync == m.ext > 0 /\ ~m.dmabuf
  <2>1. x \in BOOLEAN /\ y \in BOOLEAN /\ m.dmabuf \in BOOLEAN /\ m.mapped \in BOOLEAN
    BY <1>1 DEF BoRecs
  <2>2. CASE ~m.accel
    <3>1. q = [r EXCEPT !.bo[h].mapped = TRUE]
      BY <1>4, <2>2 DEF BoMap, Use
    <3>2. [m EXCEPT !.mapped = TRUE] = MappedBO(m, TRUE, m.dmabuf)
      BY <1>1 DEF MappedBO, BoRecs
    <3>3. q = [r EXCEPT !.bo[h] = MappedBO(m, TRUE, m.dmabuf)]
      BY <3>1, <3>2
    <3>4. MappedBO(m, TRUE, m.dmabuf) \in BoRecs
      BY <1>2, <2>1
    <3> HIDE DEF q
    <3>5. Goes(r, q)
      BY <3>3, <3>4, SetBo
    <3>6. \E z, d \in BOOLEAN :
            /\ q = [r EXCEPT !.bo[h] = MappedBO(m, z, d)]
            /\ d # m.dmabuf => m.accel /\ m.ext > 0
      BY <2>1, <3>3
    <3> QED
      BY <1>4, <3>5, <3>6 DEF q
  <2>3. CASE m.accel
    <3>1. ArmsocMap(m, works) = MappedBO(m, x, m.dmabuf)
      BY <1>1 DEF ArmsocMap, MappedBO, BoRecs
    <3>2. SetDmabuf(ArmsocMap(m, works), outcome) = MappedBO(m, x, y)
      BY <1>1 DEF SetDmabuf, ArmsocMap, MappedBO, BoRecs
    <3>3. /\ ArmsocMap(m, works).ext = m.ext
          /\ ArmsocMap(m, works).dmabuf = m.dmabuf
      BY <1>1 DEF ArmsocMap, BoRecs
    <3>4. q = [r EXCEPT !.bo[h] = IF sync THEN MappedBO(m, x, y) ELSE MappedBO(m, x, m.dmabuf)]
      BY <1>4, <2>3, <3>1, <3>2, <3>3 DEF BoMap, Use
    <3>5. q = [r EXCEPT !.bo[h] = MappedBO(m, x, IF sync THEN y ELSE m.dmabuf)]
      BY <3>4
    <3> DEFINE e == IF sync THEN y ELSE m.dmabuf
    <3>6. e \in BOOLEAN /\ (e # m.dmabuf => m.accel /\ m.ext > 0)
      BY <2>1, <2>3
    <3> HIDE DEF e, x, q
    <3>7. q = [r EXCEPT !.bo[h] = MappedBO(m, x, e)] /\ MappedBO(m, x, e) \in BoRecs
      BY <1>2, <2>1, <3>5, <3>6 DEF e
    <3>8. Goes(r, q)
      BY <3>7, SetBo
    <3>9. \E z, d \in BOOLEAN :
            /\ q = [r EXCEPT !.bo[h] = MappedBO(m, z, d)]
            /\ d # m.dmabuf => m.accel /\ m.ext > 0
      <4> HIDE DEF m
      <4>1. x \in BOOLEAN /\ e \in BOOLEAN
        BY <2>1, <3>6
      <4> QED
        BY <3>6, <3>7, <4>1
    <3> QED
      BY <1>4, <3>8, <3>9 DEF q
  <2> QED
    BY <2>2, <2>3
<1> QED
  BY <1>3, <1>4

LEMMA BoUnmapGoes ==
  ASSUME NEW r \in Statuses, NEW h \in Handles
  PROVE  LET q == BoUnmap(r, h) IN
         /\ Goes(r, q)
         /\ Alive(q) => q = r /\ r.bo[h].refcnt # 0
BY Dies, Stays DEF BoUnmap, Use

LEMMA BoHoldGoes ==
  ASSUME NEW r \in Statuses, NEW h \in Handles
  PROVE  LET q == BoHold(r, h) IN
         /\ Goes(r, q)
         /\ Alive(q) => q = [r EXCEPT !.bo[h].refcnt = @ + 1]
<1>1. r.bo[h] \in BoRecs /\ r.bo[h].refcnt + 1 \in Int
  BY DEF Statuses, BoRecs
<1>2. [r.bo[h] EXCEPT !.refcnt = @ + 1] \in BoRecs
  BY <1>1 DEF BoRecs
<1>3. [r EXCEPT !.bo[h].refcnt = @ + 1] = [r EXCEPT !.bo[h] = [r.bo[h] EXCEPT !.refcnt = @ + 1]]
  OBVIOUS
<1> QED
  BY <1>2, <1>3, SetBo, Dies DEF BoHold, Use, ArmsocReference

\* A BO nobody else holds is gone with it.
LEMMA BoReleaseGoes ==
  ASSUME NEW r \in Statuses, NEW h \in Handles
  PROVE  LET q == BoRelease(r, h) IN
         /\ Goes(r, q)
         /\ Alive(q) /\ r.bo[h].refcnt = 1 => q = [r EXCEPT !.bo[h] = NoBO]
<1> DEFINE q == BoRelease(r, h)
           fewer == [r.bo[h] EXCEPT !.refcnt = @ - 1]
<1>0. NoBO \in BoRecs
  BY BoRecsOK
<1>1. r.bo[h] \in BoRecs /\ r.bo[h].refcnt - 1 \in Int
  BY DEF Statuses, BoRecs
<1>2. fewer \in BoRecs
  BY <1>1 DEF BoRecs
<1>3. [r EXCEPT !.bo[h].refcnt = @ - 1] = [r EXCEPT !.bo[h] = fewer]
  OBVIOUS
<1>4. \/ q = Die(r) \/ q = [r EXCEPT !.bo[h] = NoBO]
      \/ q = [r EXCEPT !.bo[h] = fewer] /\ r.bo[h].refcnt # 1
  BY <1>3 DEF BoRelease, Use, ArmsocUnreference, ArmsocDel
<1> HIDE DEF q, fewer
<1>5. Goes(r, q) /\ (Alive(q) /\ r.bo[h].refcnt = 1 => q = [r EXCEPT !.bo[h] = NoBO])
  <2>1. CASE q = Die(r)
    BY <2>1, Dies
  <2>2. CASE q = [r EXCEPT !.bo[h] = NoBO]
    BY <1>0, <2>2, SetBo
  <2>3. CASE q = [r EXCEPT !.bo[h] = fewer] /\ r.bo[h].refcnt # 1
    BY <1>2, <2>3, SetBo
  <2> QED
    BY <1>4, <2>1, <2>2, <2>3
<1> QED
  BY <1>5 DEF q

LEMMA SwitchGoes ==
  ASSUME NEW r \in Statuses, NEW h \in Handles, NEW bCPU \in BOOLEAN
  PROVE  LET q == SwitchHwUsage(r, h, bCPU)
             m == r.bo[h]
         IN /\ Goes(r, q)
            /\ ~m.accel => q = r
            /\ m.accel /\ ~bCPU => q = [r EXCEPT !.bo[h] = [m EXCEPT !.ext = @ + 1]]
            /\ m.accel /\ bCPU /\ Alive(q) =>
                 q = [r EXCEPT !.bo[h] = [m EXCEPT !.ext = @ - 1, !.dmabuf = @ /\ m.ext > 1]]
<1> DEFINE q == SwitchHwUsage(r, h, bCPU)
           m == r.bo[h]
           more == [m EXCEPT !.ext = @ + 1]
           less == [m EXCEPT !.ext = @ - 1, !.dmabuf = @ /\ m.ext > 1]
<1>1. m \in BoRecs /\ m.ext + 1 \in Int /\ m.ext - 1 \in Int /\ (m.ext > 1) \in BOOLEAN
  BY DEF Statuses, BoRecs
<1>2. more \in BoRecs /\ less \in BoRecs
  BY <1>1 DEF BoRecs
<1>3. CASE ~m.accel
  <2>1. q = r
    BY <1>3 DEF SwitchHwUsage
  <2> QED
    BY <1>3, <2>1, Stays
<1>4. CASE m.accel /\ ~bCPU
  <2>1. q = [r EXCEPT !.bo[h] = more]
    BY <1>4 DEF SwitchHwUsage, RegisterExternalAccess
  <2> HIDE DEF q, more, less
  <2>2. Goes(r, q)
    BY <1>2, <2>1, SetBo
  <2> QED
    BY <1>4, <2>1, <2>2 DEF q, more
<1>5. CASE m.accel /\ bCPU
  <2>1. q = Die(r) \/ q = [r EXCEPT !.bo[h] = less]
    BY <1>5 DEF SwitchHwUsage, DeregisterExternalAccess
  <2> HIDE DEF q, more, less
  <2>2. Goes(r, q) /\ (Alive(q) => q = [r EXCEPT !.bo[h] = less])
    BY <1>2, <2>1, SetBo, Dies
  <2> QED
    BY <1>5, <2>2 DEF q, less
<1> QED
  BY <1>3, <1>4, <1>5

LEMMA AddFBGoes ==
  ASSUME NEW r \in Statuses, NEW h \in Handles, NEW outcome
  PROVE  LET q == AddFB(r, h, outcome) IN
         /\ Goes(r, q)
         /\ Alive(q) => \E f \in BOOLEAN : q = [r EXCEPT !.bo[h] = [r.bo[h] EXCEPT !.fb = f]]
<1> DEFINE q == AddFB(r, h, outcome)
           m == r.bo[h]
           f == IF m.accel THEN outcome # "no_fb" ELSE m.fb
<1>1. m \in BoRecs /\ f \in BOOLEAN
  BY DEF Statuses, BoRecs
<1>2. [m EXCEPT !.fb = f] \in BoRecs
  <2> HIDE DEF m, f
  <2> QED
    BY <1>1, BoRecsOK
<1>3. r = [r EXCEPT !.bo[h] = [m EXCEPT !.fb = m.fb]]
  BY DEF Statuses, BoRecs
<1>4. q = Die(r) \/ q = [r EXCEPT !.bo[h] = [m EXCEPT !.fb = f]]
  BY <1>3 DEF AddFB, ArmsocAddFB
<1> HIDE DEF q, f
<1>5. Goes(r, q) /\ (Alive(q) => q = [r EXCEPT !.bo[h] = [m EXCEPT !.fb = f]])
  BY <1>2, <1>4, SetBo, Dies
<1> QED
  BY <1>1, <1>5 DEF q

-----------------------------------------------------------------------------
(***************************************************************************)
(* BOInfoRec.                                                              *)
(***************************************************************************)

\* A record with a BO of its own, as it is made.
Holding(i, addr) == [refcount |-> 1, handle |-> i, addr |-> addr]

Linked(rec, h, addr) == [rec EXCEPT !.handle = h, !.addr = addr]

\* The BO that is made for it.
Mem(accel, mapped) == MappedBO(NewBO(accel), mapped, FALSE)

LEMMA InfoRecsOK ==
  /\ Released \in InfoRecs
  /\ \A i \in Records, a \in BOOLEAN : Holding(i, a) \in InfoRecs
  /\ \A rec \in InfoRecs, n \in Int : [rec EXCEPT !.refcount = n] \in InfoRecs
  /\ \A rec \in InfoRecs, h \in Handles \cup {Invalid}, a \in BOOLEAN :
       Linked(rec, h, a) \in InfoRecs
<1>1. Released \in InfoRecs
  BY DEF Released, InfoRecs
<1>2. \A i \in Records, a \in BOOLEAN : Holding(i, a) \in InfoRecs
  BY DEF Holding, InfoRecs, Handles
<1>3. \A rec \in InfoRecs, n \in Int : [rec EXCEPT !.refcount = n] \in InfoRecs
  BY DEF InfoRecs
<1>4. \A rec \in InfoRecs, h \in Handles \cup {Invalid}, a \in BOOLEAN :
        Linked(rec, h, a) \in InfoRecs
  BY DEF Linked, InfoRecs
<1> QED
  BY <1>1, <1>2, <1>3, <1>4

LEMMA PutTwice ==
  ASSUME NEW r \in Statuses, NEW i \in Records, NEW rec \in InfoRecs, NEW m \in BoRecs,
         NEW rec2 \in InfoRecs, NEW m2 \in BoRecs
  PROVE  Put(Put(r, i, rec, m), i, rec2, m2) = Put(r, i, rec2, m2)
<1>1. i \in Handles
  BY DEF Handles
<1> QED
  BY <1>1 DEF Put, Statuses

LEMMA PutEqual ==
  ASSUME NEW r \in Statuses, NEW i \in Records, NEW rec \in InfoRecs, NEW m \in BoRecs
  PROVE  /\ [r EXCEPT !.info[i] = rec] = Put(r, i, rec, r.bo[i])
         /\ [r EXCEPT !.bo[i] = m] = Put(r, i, r.info[i], m)
         /\ r = Put(r, i, r.info[i], r.bo[i])
         /\ r.info[i] \in InfoRecs /\ r.bo[i] \in BoRecs
<1>1. i \in Handles
  BY DEF Handles
<1> QED
  BY <1>1 DEF Put, Statuses

LEMMA DropHandleGoes ==
  ASSUME NEW r \in Statuses, NEW i \in Records
  PROVE  LET q == DropHandle(r, i) IN
         /\ Goes(r, q)
         /\ r.info[i].handle = Invalid => q = r
         /\ Alive(q) /\ r.info[i].handle = i /\ r.bo[i].refcnt = 1 =>
              q = Put(r, i, Linked(r.info[i], Invalid, FALSE), NoBO)
<1> DEFINE h == r.info[i].handle
           u == BoUnmap(r, h)
           s == BoRelease(u, h)
           q == DropHandle(r, i)
           rec == Linked(r.info[i], Invalid, FALSE)
<1>1. r.info[i] \in InfoRecs /\ h \in Handles \cup {Invalid} /\ i \in Handles
  BY DEF Statuses, InfoRecs, Handles
<1>2. i # Invalid
  BY <1>1, PixmapBoAssumption
<1>3. CASE h = Invalid
  <2>1. q = r
    BY <1>3 DEF DropHandle
  <2> QED
    BY <1>2, <1>3, <2>1, Stays
<1>4. CASE h # Invalid
  <2>1. h \in Handles
    BY <1>1, <1>4
  <2>2. q = [s EXCEPT !.info[i].handle = Invalid, !.info[i].addr = FALSE]
    BY <1>4 DEF DropHandle
  <2>3. Goes(r, u) /\ (Alive(u) => u = r)
    BY <2>1, BoUnmapGoes
  <2>4. u \in Statuses
    BY <2>3 DEF Goes
  <2>5. Goes(u, s) /\ (Alive(s) /\ u.bo[h].refcnt = 1 => s = [u EXCEPT !.bo[h] = NoBO])
    BY <2>1, <2>4, BoReleaseGoes
  <2>6. s \in Statuses /\ Goes(r, s)
    BY <2>3, <2>4, <2>5, GoesTwice DEF Goes
  <2> HIDE DEF s, u
  <2> DEFINE rec2 == Linked(s.info[i], Invalid, FALSE)
  <2>7. q = [s EXCEPT !.info[i] = rec2]
    BY ZenonT(30), <2>2 DEF Linked
  <2>8. rec2 \in InfoRecs
    BY <2>6, InfoRecsOK DEF Statuses
  <2> HIDE DEF rec2, q
  <2>9. Goes(s, q)
    BY <2>6, <2>7, <2>8, SetInfo
  <2>10. Goes(r, q)
    BY <2>6, <2>9, GoesTwice
  <2>11. ASSUME Alive(q), h = i, r.bo[i].refcnt = 1
         PROVE  q = Put(r, i, rec, NoBO)
    <3>1. Alive(s) /\ Alive(u)
      BY <2>4, <2>5, <2>6, <2>9, <2>11, AliveBefore
    <3>2. s = [r EXCEPT !.bo[i] = NoBO]
      BY <2>3, <2>5, <2>11, <3>1
    <3>3. rec2 = rec
      BY <3>2 DEF rec2, Statuses
    <3> QED
      BY <2>7, <3>2, <3>3 DEF Put
  <2> QED
    BY <1>4, <2>10, <2>11 DEF q
<1> QED
  BY <1>3, <1>4

\* unref_bo_info
LEMMA UnrefGoes ==
  ASSUME NEW r \in Statuses, NEW i \in Records
  PROVE  LET q == Unref(r, i)
             n == r.info[i].refcount
         IN /\ Goes(r, q)
            /\ n > 1 => q = Put(r, i, [r.info[i] EXCEPT !.refcount = @ - 1], r.bo[i])
            /\ Alive(q) /\ n = 1 /\ r.info[i].handle = i /\ r.bo[i].refcnt = 1 =>
                 q = Put(r, i, Released, NoBO)
<1> DEFINE q == Unref(r, i)
           n == r.info[i].refcount
           d == DropHandle(r, i)
           fewer == [r.info[i] EXCEPT !.refcount = @ - 1]
           gone == Linked(r.info[i], Invalid, FALSE)
<1>1. r.info[i] \in InfoRecs /\ n \in Int /\ Released \in InfoRecs
  BY InfoRecsOK DEF Statuses, InfoRecs
<1>2. fewer \in InfoRecs
  BY <1>1 DEF InfoRecs
<1>3. CASE n > 1
  <2>1. q = [r EXCEPT !.info[i] = fewer]
    BY <1>1, <1>3 DEF Unref
  <2>2. q = Put(r, i, fewer, r.bo[i]) /\ r.bo[i] \in BoRecs
    BY <1>2, <2>1, PutEqual, BoRecsOK
  <2> HIDE DEF q, fewer
  <2>3. Goes(r, q)
    BY <1>2, <2>1, SetInfo
  <2> QED
    BY <1>3, <2>2, <2>3 DEF q, fewer
<1>4. CASE ~(n > 1)
  <2>1. q = [d EXCEPT !.info[i] = Released]
    BY <1>1, <1>4 DEF Unref
  <2>2. /\ Goes(r, d)
        /\ Alive(d) /\ r.info[i].handle = i /\ r.bo[i].refcnt = 1 => d = Put(r, i, gone, NoBO)
    BY DropHandleGoes
  <2>3. d \in Statuses
    BY <2>2 DEF Goes
  <2> HIDE DEF d, q
  <2>4. Goes(d, q) /\ Goes(r, q)
    BY <1>1, <2>1, <2>2, <2>3, SetInfo, GoesTwice
  <2>5. ASSUME Alive(q), r.info[i].handle = i, r.bo[i].refcnt = 1
        PROVE  q = Put(r, i, Released, NoBO)
    <3>1. d = Put(r, i, gone, NoBO)
      BY <2>2, <2>3, <2>4, <2>5, AliveBefore
    <3> QED
      BY <2>1, <3>1 DEF Put, Statuses
  <2> QED
    BY <1>4, <2>4, <2>5 DEF q
<1> QED
  BY <1>3, <1>4

LEMMA MemOK ==
  ASSUME NEW accel \in BOOLEAN, NEW x \in BOOLEAN
  PROVE  /\ Mem(accel, x) \in BoRecs
         /\ Mem(accel, x).refcnt = 1 /\ Mem(accel, x).ext = 0
         /\ Mem(accel, x).dmabuf = FALSE /\ Mem(accel, x).accel = accel
<1>1. NewBO(accel) \in BoRecs
  BY BoRecsOK
<1>2. /\ NewBO(accel).refcnt = 1 /\ NewBO(accel).ext = 0 /\ NewBO(accel).accel = accel
  BY DEF NewBO, NoBO
<1>3. \A m \in BoRecs, d \in BOOLEAN :
        /\ MappedBO(m, x, d) \in BoRecs
        /\ MappedBO(m, x, d).refcnt = m.refcnt /\ MappedBO(m, x, d).ext = m.ext
        /\ MappedBO(m, x, d).dmabuf = d /\ MappedBO(m, x, d).accel = m.accel
  BY DEF MappedBO, BoRecs
<1>4. FALSE \in BOOLEAN
  OBVIOUS
<1> QED
  BY Zenon, <1>1, <1>2, <1>3, <1>4 DEF Mem

LEMMA AllocateGoes ==
  ASSUME NEW r \in Statuses, NEW i \in Records, NEW usage, NEW works \in BOOLEAN, NEW outcome
  PROVE  LET q == Allocate(r, i, usage, works, outcome)
         IN /\ Goes(r, q)
            /\ Alive(q) => \E a, x \in BOOLEAN :
                 q = Put(r, i, Linked(r.info[i], i, a), Mem(Accel(r, usage), x))
<1> DEFINE q == Allocate(r, i, usage, works, outcome)
           new == BoNew(r, i, usage, outcome)
           made == BoMap(new, i, works, outcome)
           a == HasAddr(made, i)
           rec == Linked(made.info[i], i, a)
           accel == Accel(r, usage)
<1>1. i \in Handles /\ i \in Handles \cup {Invalid} /\ accel \in BOOLEAN
  BY DEF Handles, Statuses, Accel, IsAccel
<1>2. q = [made EXCEPT !.info[i] = rec]
  BY DEF Allocate, Linked
<1>3. Goes(r, new) /\ (Alive(new) => new = [r EXCEPT !.bo[i] = NewBO(accel)])
  BY <1>1, BoNewGoes
<1>4. new \in Statuses
  BY <1>3 DEF Goes
<1>5. /\ Goes(new, made)
      /\ Alive(made) => \E x, d \in BOOLEAN :
           /\ made = [new EXCEPT !.bo[i] = MappedBO(new.bo[i], x, d)]
           /\ d # new.bo[i].dmabuf => new.bo[i].accel /\ new.bo[i].ext > 0
  BY <1>1, <1>4, BoMapGoes
<1>6. made \in Statuses
  BY <1>5 DEF Goes
<1>7. a \in BOOLEAN /\ made.info[i] \in InfoRecs
  BY <1>1, <1>6 DEF HasAddr, Statuses, BoRecs
<1> HIDE DEF a, made, new, accel
<1>8. rec \in InfoRecs
  BY Zenon, <1>1, <1>7, InfoRecsOK
<1>9. Goes(r, q) /\ Goes(made, q)
  <2>1. Goes(made, q)
    BY <1>2, <1>6, <1>8, SetInfo
  <2> QED
    BY <1>3, <1>4, <1>5, <1>6, <2>1, GoesTwice
<1>10. ASSUME Alive(q)
       PROVE  \E b, x \in BOOLEAN :
                 q = Put(r, i, Linked(r.info[i], i, b), Mem(accel, x))
  <2>1. Alive(made) /\ Alive(new)
    BY <1>4, <1>5, <1>6, <1>9, <1>10, AliveBefore
  <2>2. new = [r EXCEPT !.bo[i] = NewBO(accel)] /\ NewBO(accel) \in BoRecs
    BY <1>1, <1>3, <2>1, BoRecsOK
  <2>3. new.bo[i] = NewBO(accel) /\ new.info = r.info
    BY <1>1, <2>2, SetBo
  <2>4. NewBO(accel).dmabuf = FALSE /\ ~(NewBO(accel).ext > 0)
    BY DEF NewBO, NoBO
  <2>5. PICK x \in BOOLEAN, d \in BOOLEAN :
           /\ made = [new EXCEPT !.bo[i] = MappedBO(NewBO(accel), x, d)]
           /\ d # FALSE => NewBO(accel).ext > 0
    BY <1>5, <2>1, <2>3, <2>4
  <2>6. d = FALSE
    BY <2>4, <2>5
  <2> DEFINE m == Mem(accel, x)
  <2>7. made = [new EXCEPT !.bo[i] = m]
    BY Zenon, <2>5, <2>6 DEF Mem
  <2>8. m \in BoRecs
    BY <1>1, MemOK
  <2> HIDE DEF m
  <2>9. made = [r EXCEPT !.bo[i] = m] /\ made.info = r.info
    BY <1>1, <2>2, <2>7, <2>8 DEF Statuses
  <2>10. rec = Linked(r.info[i], i, a)
    BY <2>9
  <2> HIDE DEF rec
  <2>11. q = Put(r, i, rec, m)
    BY <1>1, <1>2, <2>9 DEF Put, Statuses
  <2> QED
    BY <1>7, <2>10, <2>11 DEF m
<1> QED
  BY <1>9, <1>10 DEF accel

\* The record of an empty pixmap.
EmptyInfo == [Released EXCEPT !.refcount = 1]

LEMMA HoldingOK ==
  ASSUME NEW i \in Records, NEW a \in BOOLEAN
  PROVE  /\ EmptyInfo \in InfoRecs
         /\ EmptyInfo.refcount = 1 /\ EmptyInfo.handle = Invalid
         /\ Linked(EmptyInfo, i, a) = Holding(i, a)
         /\ \A b \in BOOLEAN : Linked(Linked(Holding(i, a), Invalid, FALSE), i, b) = Holding(i, b)
<1>1. \A rec \in InfoRecs, b \in BOOLEAN, h \in Handles \cup {Invalid} :
        rec.refcount = 1 => Linked(rec, h, b) = [refcount |-> 1, handle |-> h, addr |-> b]
  <2>1. \A rec \in InfoRecs :
          rec = [refcount |-> rec.refcount, handle |-> rec.handle, addr |-> rec.addr]
    BY DEF InfoRecs
  <2>2. \A rec \in InfoRecs, b \in BOOLEAN, h \in Handles \cup {Invalid} :
          /\ Linked(rec, h, b) \in InfoRecs
          /\ Linked(rec, h, b).refcount = rec.refcount
          /\ Linked(rec, h, b).handle = h /\ Linked(rec, h, b).addr = b
    BY DEF InfoRecs, Linked
  <2> QED
    BY <2>1, <2>2
<1>2. Released \in InfoRecs /\ Released.handle = Invalid
  BY InfoRecsOK DEF Released
<1>3. \A rec \in InfoRecs : /\ [rec EXCEPT !.refcount = 1] \in InfoRecs
                            /\ [rec EXCEPT !.refcount = 1].refcount = 1
                            /\ [rec EXCEPT !.refcount = 1].handle = rec.handle
  BY DEF InfoRecs
<1>4. EmptyInfo \in InfoRecs /\ EmptyInfo.refcount = 1 /\ EmptyInfo.handle = Invalid
  BY Zenon, <1>2, <1>3 DEF EmptyInfo
<1>5. i \in Handles \cup {Invalid} /\ Invalid \in Handles \cup {Invalid} /\ FALSE \in BOOLEAN
  BY DEF Handles
<1>6. Linked(EmptyInfo, i, a) = Holding(i, a)
  BY Zenon, <1>1, <1>4, <1>5 DEF Holding
<1>7. Holding(i, a) \in InfoRecs /\ Holding(i, a).refcount = 1
  BY InfoRecsOK DEF Holding
<1>8. /\ Linked(Holding(i, a), Invalid, FALSE) \in InfoRecs
      /\ Linked(Holding(i, a), Invalid, FALSE).refcount = 1
  BY <1>5, <1>7, InfoRecsOK DEF Linked, InfoRecs
<1> QED
  BY Zenon, <1>1, <1>4, <1>5, <1>6, <1>8 DEF Holding

LEMMA MapsOK ==
  ASSUME NEW outcome, NEW k \in Int
  PROVE  Maps(outcome, k) \in BOOLEAN
BY DEF Maps

LEMMA AllocateMapsGoes ==
  ASSUME NEW r \in Statuses, NEW i \in Records, NEW usage, NEW outcome, NEW k \in Int
  PROVE  LET q == Allocate(r, i, usage, Maps(outcome, k), outcome)
         IN /\ Goes(r, q)
            /\ Alive(q) => \E a, x \in BOOLEAN :
                 q = Put(r, i, Linked(r.info[i], i, a), Mem(Accel(r, usage), x))
<1>1. Maps(outcome, k) \in BOOLEAN
  BY MapsOK
<1> QED
  BY <1>1, AllocateGoes

\* FBTurboCreatePixmap2
LEMMA CreatePixmap2Goes ==
  ASSUME NEW r \in Statuses, NEW i \in Records, NEW usage, NEW empty \in BOOLEAN, NEW outcome
  PROVE  LET q == CreatePixmap2(r, i, usage, empty, outcome)
         IN /\ Goes(r, q)
            /\ empty => q = Put(r, i, EmptyInfo, r.bo[i])
            /\ ~empty /\ Alive(q) => \E a, x \in BOOLEAN :
                 q = Put(r, i, Holding(i, a), Mem(Accel(r, usage), x))
<1> DEFINE q == CreatePixmap2(r, i, usage, empty, outcome)
           fresh == [r EXCEPT !.info[i] = EmptyInfo]
           made == Allocate(fresh, i, usage, Maps(outcome, 1), outcome)
<1>1. EmptyInfo \in InfoRecs
  BY HoldingOK
<1>2. fresh = Put(r, i, EmptyInfo, r.bo[i]) /\ r.bo[i] \in BoRecs
  BY <1>1, PutEqual, BoRecsOK
<1>3. /\ Goes(r, fresh) /\ fresh.info[i] = EmptyInfo /\ fresh.server = r.server
  <2> HIDE DEF fresh
  <2> DEFINE m == r.bo[i]
  <2>1. m \in BoRecs /\ fresh = Put(r, i, EmptyInfo, m)
    BY <1>2
  <2> HIDE DEF m
  <2>2. Goes(r, Put(r, i, EmptyInfo, m))
    BY <1>1, <2>1, PutGoes
  <2>3. Put(r, i, EmptyInfo, m).info[i] = EmptyInfo
    BY <1>1, <2>1, PutAt
  <2>4. Put(r, i, EmptyInfo, m).server = r.server
    BY PutKeeps
  <2> QED
    BY <2>1, <2>2, <2>3, <2>4
<1>4. CASE empty
  <2>1. q = fresh
    BY <1>4 DEF CreatePixmap2, EmptyInfo
  <2> QED
    BY <1>2, <1>3, <1>4, <2>1
<1>5. CASE ~empty
  <2>1. q = made
    BY <1>5 DEF CreatePixmap2, EmptyInfo
  <2> HIDE DEF q, fresh
  <2>3. fresh \in Statuses
    BY <1>3 DEF Goes
  <2>4. /\ Goes(fresh, made)
        /\ Alive(made) => \E a, x \in BOOLEAN :
             made = Put(fresh, i, Linked(fresh.info[i], i, a), Mem(Accel(fresh, usage), x))
    BY <2>3, AllocateMapsGoes
  <2> HIDE DEF made
  <2>5. Goes(r, q)
    BY <1>3, <2>1, <2>3, <2>4, GoesTwice
  <2>6. ASSUME Alive(q)
        PROVE  \E a, x \in BOOLEAN : q = Put(r, i, Holding(i, a), Mem(Accel(r, usage), x))
    <3>1. PICK a \in BOOLEAN, x \in BOOLEAN :
            q = Put(fresh, i, Linked(fresh.info[i], i, a), Mem(Accel(fresh, usage), x))
      BY <2>1, <2>4, <2>6
    <3>2. Accel(fresh, usage) = Accel(r, usage) /\ Accel(r, usage) \in BOOLEAN
      BY <1>3 DEF Accel, Statuses, IsAccel
    <3>3. Linked(fresh.info[i], i, a) = Holding(i, a) /\ Holding(i, a) \in InfoRecs
      BY <1>3, HoldingOK, InfoRecsOK
    <3>4. Mem(Accel(r, usage), x) \in BoRecs
      BY <3>2, MemOK
    <3>5. q = Put(fresh, i, Holding(i, a), Mem(Accel(r, usage), x))
      BY <3>1, <3>2, <3>3
    <3>6. q = Put(r, i, Holding(i, a), Mem(Accel(r, usage), x))
      BY <1>1, <1>2, <3>3, <3>4, <3>5, PutTwice
    <3> QED
      BY <3>6
  <2> QED
    BY <1>5, <2>5, <2>6 DEF q
<1> QED
  BY <1>4, <1>5

\* exaCreatePixmap: whatever is allocated a second time, one BO is left.
LEMMA ExaCreatePixmapGoes ==
  ASSUME NEW r \in Statuses, NEW i \in Records, NEW usage, NEW outcome
  PROVE  LET q == ExaCreatePixmap(r, i, usage, outcome)
         IN /\ Goes(r, q)
            /\ Alive(q) => \E a, x \in BOOLEAN :
                 q = Put(r, i, Holding(i, a), Mem(Accel(r, usage), x))
<1> DEFINE q == ExaCreatePixmap(r, i, usage, outcome)
           c == CreatePixmap2(r, i, usage, FALSE, outcome)
           d == DropHandle(c, i)
           e == Allocate(d, i, usage, Maps(outcome, 2), outcome)
           accel == Accel(r, usage)
<1>1. /\ Goes(r, c)
      /\ Alive(c) => \E a, x \in BOOLEAN : c = Put(r, i, Holding(i, a), Mem(accel, x))
  BY CreatePixmap2Goes
<1>2. c \in Statuses
  BY <1>1 DEF Goes
<1>3. q = IF c.info[i].addr THEN c ELSE e
  BY DEF ExaCreatePixmap, ModifyPixmapHeader
<1> HIDE DEF c, q
<1>4. /\ Goes(c, d)
      /\ Alive(d) /\ c.info[i].handle = i /\ c.bo[i].refcnt = 1 =>
           d = Put(c, i, Linked(c.info[i], Invalid, FALSE), NoBO)
  BY <1>2, DropHandleGoes
<1>5. d \in Statuses
  BY <1>4 DEF Goes
<1> HIDE DEF d
<1>6. /\ Goes(d, e)
      /\ Alive(e) => \E a, x \in BOOLEAN :
           e = Put(d, i, Linked(d.info[i], i, a), Mem(Accel(d, usage), x))
  BY <1>5, AllocateMapsGoes
<1>7. Goes(r, d) /\ Goes(r, e) /\ Goes(r, q)
  BY <1>1, <1>2, <1>3, <1>4, <1>5, <1>6, GoesTwice
<1>8. ASSUME Alive(q)
      PROVE  \E b, x \in BOOLEAN : q = Put(r, i, Holding(i, b), Mem(accel, x))
  <2>1. CASE c.info[i].addr
    BY <1>1, <1>3, <1>8, <2>1
  <2>2. CASE ~c.info[i].addr
    <3>0. q = e
      BY <1>3, <2>2
    <3> HIDE DEF e
    <3>1. Alive(e) /\ Alive(d) /\ Alive(c) /\ d.server = r.server
      BY <1>2, <1>4, <1>5, <1>6, <1>7, <1>8, <3>0, AliveBefore
    <3>2. accel \in BOOLEAN /\ Accel(d, usage) = accel
      BY <3>1 DEF Accel, Statuses, IsAccel
    <3>3. PICK a \in BOOLEAN, x \in BOOLEAN : c = Put(r, i, Holding(i, a), Mem(accel, x))
      BY <1>1, <3>1
    <3> HIDE DEF accel
    <3>4. Holding(i, a) \in InfoRecs /\ Mem(accel, x) \in BoRecs /\ Mem(accel, x).refcnt = 1
      BY <3>2, InfoRecsOK, MemOK
    <3>5. c.info[i] = Holding(i, a) /\ c.bo[i] = Mem(accel, x)
      BY <3>3, <3>4, PutAt
    <3>6. d = Put(c, i, Linked(Holding(i, a), Invalid, FALSE), NoBO)
      <4>1. c.info[i].handle = i /\ c.bo[i].refcnt = 1
        BY <3>4, <3>5 DEF Holding
      <4> QED
        BY <1>4, <3>1, <3>5, <4>1
    <3>7. Linked(Holding(i, a), Invalid, FALSE) \in InfoRecs /\ NoBO \in BoRecs
      BY <3>4, InfoRecsOK, BoRecsOK
    <3> DEFINE gone == Linked(Holding(i, a), Invalid, FALSE)
    <3>14. gone \in InfoRecs /\ d = Put(c, i, gone, NoBO)
      BY <3>6, <3>7
    <3>15. \A b \in BOOLEAN : Linked(gone, i, b) = Holding(i, b)
      BY Zenon, HoldingOK
    <3> HIDE DEF gone
    <3>8. d.info[i] = gone
      BY <1>2, <3>7, <3>14, PutAt
    <3>9. PICK b \in BOOLEAN, y \in BOOLEAN : e = Put(d, i, Linked(d.info[i], i, b), Mem(accel, y))
      BY <1>6, <3>1, <3>2
    <3>10. Linked(d.info[i], i, b) = Holding(i, b)
      BY <3>8, <3>15
    <3>11. Holding(i, b) \in InfoRecs /\ Mem(accel, y) \in BoRecs
      BY <3>2, InfoRecsOK, MemOK
    <3>12. e = Put(c, i, Holding(i, b), Mem(accel, y))
      BY <1>2, <3>7, <3>14, <3>9, <3>10, <3>11, PutTwice
    <3>13. e = Put(r, i, Holding(i, b), Mem(accel, y))
      BY <3>3, <3>4, <3>11, <3>12, PutTwice
    <3> QED
      BY <3>0, <3>13
  <2> QED
    BY <2>1, <2>2
<1> QED
  BY <1>7, <1>8 DEF q

-----------------------------------------------------------------------------
(***************************************************************************)
(* The inductive invariant, of a status.                                   *)
(***************************************************************************)
Users == AllPixmaps \cup Windows \cup Buffers

\* The record every user has.
HeldBy(r) == [u \in Users |-> CASE u \in AllPixmaps -> r.pix[u].info
                                [] u \in Windows -> r.win[u].mem
                                [] OTHER -> r.buf[u]]

Count(f, i) == Cardinality({u \in Users : f[u] = i})

Counted(r) == \A i \in Records : r.info[i].refcount = Count(HeldBy(r), i)

\* A record has a BO of its own while it is counted.
Backed(r) ==
  \A i \in Infos :
    IF r.info[i].refcount > 0 THEN r.info[i].handle = i /\ r.bo[i].refcnt = 1
    ELSE r.info[i].handle = Invalid /\ r.bo[i] = NoBO

\* The screen's record has the scanout buffer, which fPtr holds too.
ScreenSet(r) ==
  /\ r.pix[Screen].refcnt > 0
  /\ r.bo[Screen] = NoBO
  /\ r.bo[Scanout].ext = 0 /\ ~r.bo[Scanout].dmabuf
  /\ r.server.useDumb => /\ r.pix[Screen].info = Screen
                         /\ r.info[Screen].handle = Scanout
                         /\ r.bo[Scanout].refcnt = 2
  /\ ~r.server.useDumb => /\ r.pix[Screen].info = NoInfo
                          /\ r.info[Screen].handle = Invalid
                          /\ r.bo[Scanout].refcnt = 0

ScratchSet(r) ==
  /\ r.pix[Scratch] = NoPixmap \/ (r.pix[Scratch].refcnt = 1 /\ r.pix[Scratch].info = Scratch)
  /\ r.info[Scratch].handle = Invalid /\ r.bo[Scratch] = NoBO

PixmapsSet(r) ==
  /\ \A p \in AllPixmaps : r.pix[p].refcnt \in 0 .. MaxRefs
  /\ \A p \in Pixmaps :
       /\ r.pix[p].info \in Infos \cup {NoInfo}
       /\ r.pix[p].refcnt = 0 => r.pix[p].info = NoInfo
       /\ r.pix[p].refcnt > 0 /\ r.server.useDumb =>
            r.pix[p].info # NoInfo /\ r.pix[p].ptr = "null"
       /\ r.pix[p].refcnt > 0 /\ ~r.server.useDumb =>
            r.pix[p].ptr = (IF r.pix[p].info = NoInfo THEN "own" ELSE "bo")

BuffersSet(r) ==
  /\ \A x \in Buffers : /\ r.buf[x] \in Infos \cup {Screen, NoInfo, NullBuffer}
                        /\ r.buf[x] = Screen => r.server.useDumb
  /\ \A w \in Windows : /\ r.win[w].mem \in Infos \cup {NoInfo}
                        /\ r.win[w].mem # NoInfo => r.server.useDumb

\* A window other than the screen's has its pixmap for itself.
WindowsSet(r) ==
  \A w \in Windows : r.win[w].pixmap # Screen =>
    /\ r.win[w].pixmap \in Pixmaps
    /\ r.pix[r.win[w].pixmap].refcnt > 0
    /\ \A v \in Windows : r.win[v].pixmap = r.win[w].pixmap => v = w

\* The hardware uses the BOs of back buffers, which are no pixmaps'.
HardwareSet(r) ==
  /\ \A i \in Infos :
       /\ r.bo[i].ext \in {0, 1}
       /\ r.bo[i].dmabuf => r.bo[i].ext = 1
       /\ r.bo[i].ext = 1 => \A p \in Pixmaps : r.pix[p].info # i
  /\ \A w \in Windows : r.win[w].mem # NoInfo =>
       r.bo[r.win[w].mem].accel /\ r.bo[r.win[w].mem].ext = 1

Good(r) == /\ Counted(r) /\ Backed(r) /\ ScreenSet(r) /\ ScratchSet(r)
           /\ PixmapsSet(r) /\ BuffersSet(r) /\ WindowsSet(r) /\ HardwareSet(r)

\* Before the screen pixmap is made, there is the scanout buffer at most.
Bare(r) ==
  /\ r.pix = NothingYet.pix /\ r.win = NothingYet.win /\ r.buf = NothingYet.buf
  /\ r.info = NothingYet.info
  /\ \A h \in Handles \ {Scanout} : r.bo[h] = NoBO
  /\ IF r.server.phase = "resources" /\ r.server.useDumb
     THEN r.bo[Scanout].refcnt = 1 /\ r.bo[Scanout].ext = 0 /\ ~r.bo[Scanout].dmabuf
     ELSE r.bo[Scanout] = NoBO

GoodStatus(r) ==
  /\ r \in Statuses
  /\ IF r.server.phase = "running" THEN Good(r) ELSE Bare(r)

IInv == GoodStatus(Status)

-----------------------------------------------------------------------------
(***************************************************************************)
(* Counting the users of a record.                                         *)
(***************************************************************************)

LEMMA CountOK ==
  ASSUME NEW f, NEW i
  PROVE  IsFiniteSet({u \in Users : f[u] = i}) /\ Count(f, i) \in Nat
<1>1. IsFiniteSet({Screen, Scratch})
  <2>1. IsFiniteSet({Screen}) /\ IsFiniteSet({Scratch})
    BY FS_Singleton
  <2>2. IsFiniteSet({Screen} \cup {Scratch})
    BY <2>1, FS_Union
  <2>3. {Screen} \cup {Scratch} = {Screen, Scratch}
    OBVIOUS
  <2> QED
    BY <2>2, <2>3
<1>2. IsFiniteSet(AllPixmaps)
  BY <1>1, PixmapBoAssumption, FS_Union DEF AllPixmaps
<1>3. IsFiniteSet(AllPixmaps \cup Windows)
  BY <1>2, PixmapBoAssumption, FS_Union
<1>4. IsFiniteSet(Users)
  BY <1>3, PixmapBoAssumption, FS_Union DEF Users
<1>5. {u \in Users : f[u] = i} \subseteq Users
  OBVIOUS
<1>6. IsFiniteSet({u \in Users : f[u] = i})
  BY <1>4, <1>5, FS_Subset
<1> QED
  BY <1>6, FS_CardinalityType DEF Count

LEMMA CountMore ==
  ASSUME NEW f, NEW g, NEW i, NEW v \in Users,
         f[v] # i, g[v] = i, \A u \in Users \ {v} : g[u] = f[u]
  PROVE  Count(g, i) = Count(f, i) + 1
<1> DEFINE S == {u \in Users : f[u] = i}
<1>1. {u \in Users : g[u] = i} = S \cup {v}
  OBVIOUS
<1>2. v \notin S
  OBVIOUS
<1>3. IsFiniteSet(S)
  BY CountOK
<1>4. Cardinality(S \cup {v}) = Cardinality(S) + 1
  BY <1>2, <1>3, FS_AddElement
<1> QED
  BY <1>1, <1>4 DEF Count

LEMMA CountSame ==
  ASSUME NEW f, NEW g, NEW i, \A u \in Users : g[u] = i <=> f[u] = i
  PROVE  Count(g, i) = Count(f, i)
<1>1. {u \in Users : g[u] = i} = {u \in Users : f[u] = i}
  OBVIOUS
<1> QED
  BY <1>1 DEF Count

\* Who has a record is counted, and two users count for two.
LEMMA CountHas ==
  ASSUME NEW f, NEW i, NEW u \in Users, f[u] = i
  PROVE  /\ Count(f, i) > 0
         /\ \A v \in Users \ {u} : f[v] = i => Count(f, i) > 1
<1> DEFINE S == {v \in Users : f[v] = i}
<1>1. IsFiniteSet(S) /\ Cardinality(S) \in Nat
  BY CountOK, FS_CardinalityType
<1>2. Cardinality(S) # 0
  BY <1>1, FS_EmptySet
<1>3. ASSUME NEW v \in Users \ {u}, f[v] = i
      PROVE  Cardinality(S) > 1
  <2>1. IsFiniteSet(S \ {u}) /\ Cardinality(S \ {u}) = Cardinality(S) - 1
    BY <1>1, FS_RemoveElement
  <2>2. v \in S \ {u}
    BY <1>3
  <2>3. Cardinality(S \ {u}) # 0 /\ Cardinality(S \ {u}) \in Nat
    BY <2>1, <2>2, FS_EmptySet, FS_CardinalityType
  <2> QED
    BY <1>1, <2>1, <2>3
<1> QED
  BY <1>1, <1>2, <1>3 DEF Count

LEMMA PixmapHolds ==
  ASSUME NEW r, NEW p \in AllPixmaps
  PROVE  HeldBy(r)[p] = r.pix[p].info /\ p \in Users
<1>1. p \notin Windows
  BY PixmapBoAssumption
<1>2. p \in Users
  BY DEF Users
<1> QED
  BY <1>1, <1>2 DEF HeldBy

LEMMA WindowHolds ==
  ASSUME NEW r, NEW w \in Windows
  PROVE  HeldBy(r)[w] = r.win[w].mem /\ w \in Users
<1>1. w \notin AllPixmaps
  BY PixmapBoAssumption
<1> QED
  BY <1>1 DEF HeldBy, Users

LEMMA BufferHolds ==
  ASSUME NEW r, NEW x \in Buffers
  PROVE  HeldBy(r)[x] = r.buf[x] /\ x \in Users
<1>1. x \notin AllPixmaps /\ x \notin Windows
  BY PixmapBoAssumption
<1> QED
  BY <1>1 DEF HeldBy, Users

\* User u, and nobody else, has another record in q than in r: k.
Moved(r, q, u, k) ==
  /\ HeldBy(q)[u] = k
  /\ \A v \in Users \ {u} : HeldBy(q)[v] = HeldBy(r)[v]

\* Record i and its BO, and no other, change from r to q.
OnlyOne(r, q, i) ==
  /\ \A j \in Records \ {i} : q.info[j] = r.info[j]
  /\ \A h \in Handles \ {i} : q.bo[h] = r.bo[h]

\* User u leaves record a for k, which may be none.
LEMMA MovedCounts ==
  ASSUME NEW r, NEW q, NEW u \in Users, NEW k, Moved(r, q, u, k), HeldBy(r)[u] # k
  PROVE  /\ Count(HeldBy(q), k) = Count(HeldBy(r), k) + 1
         /\ Count(HeldBy(r), HeldBy(r)[u]) = Count(HeldBy(q), HeldBy(r)[u]) + 1
         /\ \A i : i # k /\ i # HeldBy(r)[u] => Count(HeldBy(q), i) = Count(HeldBy(r), i)
<1> DEFINE f == HeldBy(r)
           g == HeldBy(q)
<1>1. g[u] = k /\ f[u] # k /\ \A v \in Users \ {u} : g[v] = f[v]
  BY DEF Moved
<1> HIDE DEF f, g
<1>2. Count(g, k) = Count(f, k) + 1
  BY <1>1, CountMore
<1>3. Count(f, f[u]) = Count(g, f[u]) + 1
  <2> DEFINE a == f[u]
  <2>1. g[u] # a /\ f[u] = a /\ \A v \in Users \ {u} : f[v] = g[v]
    BY <1>1
  <2> HIDE DEF a
  <2>2. Count(f, a) = Count(g, a) + 1
    BY <2>1, CountMore
  <2> QED
    BY <2>2 DEF a
<1>4. ASSUME NEW i, i # k, i # f[u]
      PROVE  Count(g, i) = Count(f, i)
  <2>1. \A v \in Users : g[v] = i <=> f[v] = i
    BY <1>1, <1>4
  <2> QED
    BY <2>1, CountSame
<1> QED
  BY <1>2, <1>3, <1>4 DEF f, g

LEMMA MovedOthers ==
  ASSUME NEW r, NEW q, NEW u \in Users, NEW k, Moved(r, q, u, k),
         NEW i, i # k, i # HeldBy(r)[u]
  PROVE  Count(HeldBy(q), i) = Count(HeldBy(r), i)
<1>1. \A v \in Users : HeldBy(q)[v] = i <=> HeldBy(r)[v] = i
  BY DEF Moved
<1> QED
  BY <1>1, CountSame

LEMMA RecordsAre ==
  /\ Infos \subseteq Records /\ Records \subseteq Handles
  /\ Screen \in Records /\ Scratch \in Records /\ Scanout \in Handles
  /\ Screen \notin Infos /\ Scratch \notin Infos /\ Scanout \notin Records /\ Screen # Scratch
  /\ NoInfo \notin Records /\ NullBuffer \notin Records /\ NoInfo # NullBuffer
  /\ Invalid \notin Handles
  /\ NoInfo # Screen /\ NoInfo # Scratch /\ NullBuffer # Screen /\ NullBuffer # Scratch
BY PixmapBoAssumption DEF Records, Handles

LEMMA OthersCount ==
  ASSUME NEW r, NEW q, NEW u \in Users, NEW k, k \notin Records, Moved(r, q, u, k)
  PROVE  \A j \in Records : j # HeldBy(r)[u] => Count(HeldBy(q), j) = Count(HeldBy(r), j)
BY MovedOthers

\* A new BO for a user that had none.
LEMMA TakeCounts ==
  ASSUME NEW r, NEW q, Counted(r), Backed(r),
         NEW i \in Infos, r.info[i].refcount = 0, OnlyOne(r, q, i),
         q.info[i].refcount = 1, q.info[i].handle = i, q.bo[i].refcnt = 1,
         NEW u \in Users, HeldBy(r)[u] \notin Records, Moved(r, q, u, i)
  PROVE  Counted(q) /\ Backed(q)
<1>1. HeldBy(r)[u] # i
  BY RecordsAre
<1>2. Counted(q)
  <2> SUFFICES ASSUME NEW j \in Records
               PROVE  q.info[j].refcount = Count(HeldBy(q), j)
    BY DEF Counted
  <2>1. r.info[j].refcount = Count(HeldBy(r), j)
    BY DEF Counted
  <2>2. CASE j = i
    BY <1>1, <2>1, <2>2, MovedCounts
  <2>3. CASE j # i
    <3>1. Count(HeldBy(q), j) = Count(HeldBy(r), j)
      BY <1>1, <2>3, MovedCounts
    <3> QED
      BY <2>1, <2>3, <3>1 DEF OnlyOne
  <2> QED
    BY <2>2, <2>3
<1>3. Backed(q)
  <2>1. \A j \in Infos \ {i} : q.info[j] = r.info[j] /\ q.bo[j] = r.bo[j]
    BY RecordsAre DEF OnlyOne
  <2>2. q.info[i].refcount > 0 /\ q.info[i].handle = i /\ q.bo[i].refcnt = 1
    OBVIOUS
  <2> QED
    BY <2>1, <2>2 DEF Backed
<1> QED
  BY <1>2, <1>3

\* A further user of a record.
LEMMA JoinCounts ==
  ASSUME NEW r, NEW q, Counted(r), Backed(r),
         NEW i \in Records, OnlyOne(r, q, i),
         q.info[i].refcount = r.info[i].refcount + 1, q.info[i].handle = r.info[i].handle,
         i \in Infos => r.info[i].refcount > 0 /\ q.bo[i].refcnt = r.bo[i].refcnt,
         NEW u \in Users, HeldBy(r)[u] \notin Records, Moved(r, q, u, i)
  PROVE  Counted(q) /\ Backed(q)
<1>1. HeldBy(r)[u] # i
  OBVIOUS
<1>2. Counted(q)
  <2> SUFFICES ASSUME NEW j \in Records
               PROVE  q.info[j].refcount = Count(HeldBy(q), j)
    BY DEF Counted
  <2>1. r.info[j].refcount = Count(HeldBy(r), j)
    BY DEF Counted
  <2>2. CASE j = i
    BY <1>1, <2>1, <2>2, MovedCounts
  <2>3. CASE j # i
    <3>1. Count(HeldBy(q), j) = Count(HeldBy(r), j)
      BY <1>1, <2>3, MovedCounts
    <3> QED
      BY <2>1, <2>3, <3>1 DEF OnlyOne
  <2> QED
    BY <2>2, <2>3
<1>3. Backed(q)
  <2>1. \A j \in Infos \ {i} : q.info[j] = r.info[j] /\ q.bo[j] = r.bo[j]
    BY RecordsAre DEF OnlyOne
  <2>2. ASSUME i \in Infos
        PROVE  q.info[i].refcount > 0 /\ q.info[i].handle = i /\ q.bo[i].refcnt = 1
    <3>1. r.info[i].refcount = Count(HeldBy(r), i) /\ Count(HeldBy(r), i) \in Nat
      BY CountOK DEF Counted
    <3>2. r.info[i].handle = i /\ r.bo[i].refcnt = 1
      BY <2>2 DEF Backed
    <3> QED
      BY <2>2, <3>1, <3>2
  <2> QED
    BY <2>1, <2>2 DEF Backed
<1> QED
  BY <1>2, <1>3

\* A user leaves a record, and the last one takes the BO along.
LEMMA QuitCounts ==
  ASSUME NEW r, NEW q, Counted(r), Backed(r),
         NEW u \in Users, NEW i \in Records, HeldBy(r)[u] = i, OnlyOne(r, q, i),
         \/ /\ r.info[i].refcount > 1
            /\ q.info[i].refcount = r.info[i].refcount - 1
            /\ q.info[i].handle = r.info[i].handle /\ q.bo[i] = r.bo[i]
         \/ /\ i \in Infos /\ r.info[i].refcount = 1
            /\ q.info[i] = Released /\ q.bo[i] = NoBO,
         NEW k, k \notin Records, Moved(r, q, u, k)
  PROVE  Counted(q) /\ Backed(q)
<1>1. HeldBy(r)[u] # k
  OBVIOUS
<1>5. \A j \in Records : j # i => Count(HeldBy(q), j) = Count(HeldBy(r), j)
  BY OthersCount
<1>2. q.info[i].refcount = r.info[i].refcount - 1
  <2>1. Released.refcount = 0
    BY DEF Released
  <2> QED
    BY <2>1
<1>3. Counted(q)
  <2> SUFFICES ASSUME NEW j \in Records
               PROVE  q.info[j].refcount = Count(HeldBy(q), j)
    BY DEF Counted
  <2>1. r.info[j].refcount = Count(HeldBy(r), j)
    BY DEF Counted
  <2>2. CASE j = i
    <3>1. Count(HeldBy(r), i) = Count(HeldBy(q), i) + 1 /\ Count(HeldBy(q), i) \in Nat
      <4>1. Count(HeldBy(r), HeldBy(r)[u]) = Count(HeldBy(q), HeldBy(r)[u]) + 1
        BY <1>1, MovedCounts
      <4> QED
        BY <4>1, CountOK
    <3> QED
      BY <1>2, <2>1, <2>2, <3>1
  <2>3. CASE j # i
    <3>1. Count(HeldBy(q), j) = Count(HeldBy(r), j)
      BY <1>5, <2>3
    <3> QED
      BY <2>1, <2>3, <3>1 DEF OnlyOne
  <2> QED
    BY <2>2, <2>3
<1>4. Backed(q)
  <2>1. \A j \in Infos \ {i} : q.info[j] = r.info[j] /\ q.bo[j] = r.bo[j]
    BY RecordsAre DEF OnlyOne
  <2>2. ASSUME i \in Infos
        PROVE  IF q.info[i].refcount > 0 THEN q.info[i].handle = i /\ q.bo[i].refcnt = 1
               ELSE q.info[i].handle = Invalid /\ q.bo[i] = NoBO
    <3>1. r.info[i].refcount = Count(HeldBy(r), i) /\ Count(HeldBy(r), i) \in Nat
      BY CountOK DEF Counted
    <3>2. CASE r.info[i].refcount > 1
      <4>1. r.info[i].handle = i /\ r.bo[i].refcnt = 1
        BY <2>2, <3>1, <3>2 DEF Backed
      <4> QED
        BY <1>2, <3>1, <3>2, <4>1
    <3>3. CASE r.info[i].refcount = 1
      BY <1>2, <3>3 DEF Released
    <3> QED
      BY <3>2, <3>3
  <2> QED
    BY <2>1, <2>2 DEF Backed
<1> QED
  BY <1>3, <1>4

\* The BO of a record changes, but who has it does not.
LEMMA TouchCounts ==
  ASSUME NEW r, NEW q, Counted(r), Backed(r),
         \A u \in Users : HeldBy(q)[u] = HeldBy(r)[u],
         \A j \in Records : q.info[j].refcount = r.info[j].refcount
                            /\ q.info[j].handle = r.info[j].handle,
         \A j \in Infos : (r.info[j].refcount > 0 /\ q.bo[j].refcnt = r.bo[j].refcnt)
                          \/ q.bo[j] = r.bo[j]
  PROVE  Counted(q) /\ Backed(q)
<1>1. Counted(q)
  <2>1. \A j \in Records : Count(HeldBy(q), j) = Count(HeldBy(r), j)
    BY CountSame
  <2> QED
    BY <2>1 DEF Counted
<1>2. Backed(q)
  BY RecordsAre DEF Backed
<1> QED
  BY <1>1, <1>2

-----------------------------------------------------------------------------
(***************************************************************************)
(* Steps that keep the invariant, one for each way a user comes to a       *)
(* record, leaves it, or its BO changes.                                   *)
(***************************************************************************)
SamePixmaps(r, q) == \A p \in AllPixmaps : q.pix[p] = r.pix[p]

SameWindows(r, q) == \A w \in Windows : q.win[w] = r.win[w]

SameBuffers(r, q) == \A x \in Buffers : q.buf[x] = r.buf[x]

OnePixmap(r, q, p) == \A o \in AllPixmaps \ {p} : q.pix[o] = r.pix[o]

OneBuffer(r, q, x) == \A y \in Buffers \ {x} : q.buf[y] = r.buf[y]

OneWindow(r, q, w) == \A v \in Windows \ {w} : q.win[v] = r.win[v]

LEMMA PixmapMoved ==
  ASSUME NEW r, NEW q, NEW p \in AllPixmaps, OnePixmap(r, q, p),
         \A w \in Windows : q.win[w].mem = r.win[w].mem, SameBuffers(r, q)
  PROVE  Moved(r, q, p, q.pix[p].info)
<1>1. HeldBy(q)[p] = q.pix[p].info
  BY PixmapHolds
<1>2. ASSUME NEW u \in Users \ {p}
      PROVE  HeldBy(q)[u] = HeldBy(r)[u]
  <2>1. CASE u \in AllPixmaps
    <3>1. HeldBy(q)[u] = q.pix[u].info /\ HeldBy(r)[u] = r.pix[u].info
      BY <2>1, PixmapHolds
    <3>2. q.pix[u] = r.pix[u]
      BY <1>2, <2>1 DEF OnePixmap
    <3> QED
      BY <3>1, <3>2
  <2>2. CASE u \in Windows
    <3>1. HeldBy(q)[u] = q.win[u].mem /\ HeldBy(r)[u] = r.win[u].mem
      BY <2>2, WindowHolds
    <3>2. q.win[u].mem = r.win[u].mem
      BY <1>2, <2>2
    <3> QED
      BY <3>1, <3>2
  <2>3. CASE u \in Buffers
    <3>1. HeldBy(q)[u] = q.buf[u] /\ HeldBy(r)[u] = r.buf[u]
      BY <2>3, BufferHolds
    <3>2. q.buf[u] = r.buf[u]
      BY <1>2, <2>3 DEF SameBuffers
    <3> QED
      BY <3>1, <3>2
  <2> QED
    BY <2>1, <2>2, <2>3 DEF Users
<1> QED
  BY <1>1, <1>2 DEF Moved

LEMMA BufferMoved ==
  ASSUME NEW r, NEW q, NEW x \in Buffers, SamePixmaps(r, q), SameWindows(r, q), OneBuffer(r, q, x)
  PROVE  Moved(r, q, x, q.buf[x])
<1>1. HeldBy(q)[x] = q.buf[x]
  BY BufferHolds
<1>2. ASSUME NEW u \in Users \ {x}
      PROVE  HeldBy(q)[u] = HeldBy(r)[u]
  <2>1. CASE u \in AllPixmaps
    <3>1. HeldBy(q)[u] = q.pix[u].info /\ HeldBy(r)[u] = r.pix[u].info
      BY <2>1, PixmapHolds
    <3>2. q.pix[u] = r.pix[u]
      BY <1>2, <2>1 DEF SamePixmaps
    <3> QED
      BY <3>1, <3>2
  <2>2. CASE u \in Windows
    <3>1. HeldBy(q)[u] = q.win[u].mem /\ HeldBy(r)[u] = r.win[u].mem
      BY <2>2, WindowHolds
    <3>2. q.win[u].mem = r.win[u].mem
      BY <1>2, <2>2 DEF SameWindows
    <3> QED
      BY <3>1, <3>2
  <2>3. CASE u \in Buffers
    <3>1. HeldBy(q)[u] = q.buf[u] /\ HeldBy(r)[u] = r.buf[u]
      BY <2>3, BufferHolds
    <3>2. q.buf[u] = r.buf[u]
      BY <1>2, <2>3 DEF OneBuffer
    <3> QED
      BY <3>1, <3>2
  <2> QED
    BY <2>1, <2>2, <2>3 DEF Users
<1> QED
  BY <1>1, <1>2 DEF Moved

LEMMA WindowMoved ==
  ASSUME NEW r, NEW q, NEW w \in Windows, SamePixmaps(r, q), SameBuffers(r, q), OneWindow(r, q, w)
  PROVE  Moved(r, q, w, q.win[w].mem)
<1>1. HeldBy(q)[w] = q.win[w].mem
  BY WindowHolds
<1>2. ASSUME NEW u \in Users \ {w}
      PROVE  HeldBy(q)[u] = HeldBy(r)[u]
  <2>1. CASE u \in AllPixmaps
    <3>1. HeldBy(q)[u] = q.pix[u].info /\ HeldBy(r)[u] = r.pix[u].info
      BY <2>1, PixmapHolds
    <3>2. q.pix[u] = r.pix[u]
      BY <1>2, <2>1 DEF SamePixmaps
    <3> QED
      BY <3>1, <3>2
  <2>2. CASE u \in Windows
    <3>1. HeldBy(q)[u] = q.win[u].mem /\ HeldBy(r)[u] = r.win[u].mem
      BY <2>2, WindowHolds
    <3>2. q.win[u].mem = r.win[u].mem
      BY <1>2, <2>2 DEF OneWindow
    <3> QED
      BY <3>1, <3>2
  <2>3. CASE u \in Buffers
    <3>1. HeldBy(q)[u] = q.buf[u] /\ HeldBy(r)[u] = r.buf[u]
      BY <2>3, BufferHolds
    <3>2. q.buf[u] = r.buf[u]
      BY <1>2, <2>3 DEF SameBuffers
    <3> QED
      BY <3>1, <3>2
  <2> QED
    BY <2>1, <2>2, <2>3 DEF Users
<1> QED
  BY <1>1, <1>2 DEF Moved

\* The screen and the scratch pixmap do not change with a record of Infos.
LEMMA ScreenStays ==
  ASSUME NEW r, NEW q, NEW i \in Infos, OnlyOne(r, q, i), q.server = r.server,
         q.pix[Screen] = r.pix[Screen], q.pix[Scratch] = r.pix[Scratch],
         ScreenSet(r), ScratchSet(r)
  PROVE  ScreenSet(q) /\ ScratchSet(q)
<1>1. /\ q.info[Screen] = r.info[Screen] /\ q.info[Scratch] = r.info[Scratch]
      /\ q.bo[Screen] = r.bo[Screen] /\ q.bo[Scratch] = r.bo[Scratch] /\ q.bo[Scanout] = r.bo[Scanout]
  BY RecordsAre DEF OnlyOne
<1> QED
  BY <1>1 DEF ScreenSet, ScratchSet

\* A record nobody has counted is nobody's.
LEMMA FreeIsUnused ==
  ASSUME NEW r, Counted(r), NEW i \in Records, r.info[i].refcount = 0
  PROVE  /\ \A p \in AllPixmaps : r.pix[p].info # i
         /\ \A w \in Windows : r.win[w].mem # i
         /\ \A x \in Buffers : r.buf[x] # i
<1>1. Count(HeldBy(r), i) = 0
  BY DEF Counted
<1>2. \A u \in Users : HeldBy(r)[u] # i
  BY <1>1, CountHas
<1> QED
  BY <1>2, PixmapHolds, WindowHolds, BufferHolds

\* And nobody else has a record that counts one.
LEMMA LastIsAlone ==
  ASSUME NEW r, Counted(r), NEW u \in Users, NEW i \in Records,
         HeldBy(r)[u] = i, r.info[i].refcount = 1
  PROVE  \A v \in Users \ {u} : HeldBy(r)[v] # i
<1>1. Count(HeldBy(r), i) = 1
  BY DEF Counted
<1> QED
  BY <1>1, CountHas

LEMMA UsedIsCounted ==
  ASSUME NEW r, Counted(r), NEW u \in Users, NEW i \in Records, HeldBy(r)[u] = i
  PROVE  r.info[i].refcount \in Nat \ {0}
<1>1. r.info[i].refcount = Count(HeldBy(r), i)
  BY DEF Counted
<1>2. Count(HeldBy(r), i) > 0
  BY Zenon, CountHas
<1>3. Count(HeldBy(r), i) \in Nat
  BY Zenon, CountOK
<1> QED
  BY <1>1, <1>2, <1>3

\* A pixmap gets a record with a new BO.
LEMMA PixmapTakes ==
  ASSUME NEW r, NEW q, Good(r), q.server = r.server,
         NEW p \in Pixmaps, r.pix[p].info = NoInfo,
         NEW i \in Infos, r.info[i].refcount = 0, OnlyOne(r, q, i),
         q.info[i].refcount = 1, q.info[i].handle = i,
         q.bo[i].refcnt = 1, q.bo[i].ext = 0, ~q.bo[i].dmabuf,
         OnePixmap(r, q, p), q.pix[p].info = i, q.pix[p].refcnt \in 1 .. MaxRefs,
         q.pix[p].ptr = (IF q.server.useDumb THEN "null" ELSE "bo"),
         SameBuffers(r, q), \A w \in Windows : q.win[w].mem = r.win[w].mem, WindowsSet(q)
  PROVE  Good(q)
<1>0. p \in AllPixmaps /\ p # Screen /\ p # Scratch /\ i \in Records /\ i # NoInfo
  BY RecordsAre, PixmapBoAssumption DEF AllPixmaps
<1>1. Counted(q) /\ Backed(q)
  <2>1. Moved(r, q, p, i)
    BY <1>0, PixmapMoved
  <2>2. p \in Users /\ HeldBy(r)[p] \notin Records
    BY <1>0, PixmapHolds, RecordsAre
  <2> QED
    BY <2>1, <2>2, TakeCounts DEF Good
<1>2. ScreenSet(q) /\ ScratchSet(q)
  <2>1. q.pix[Screen] = r.pix[Screen] /\ q.pix[Scratch] = r.pix[Scratch]
    BY <1>0 DEF OnePixmap, AllPixmaps
  <2> QED
    BY <2>1, ScreenStays DEF Good
<1>3. PixmapsSet(q)
  <2>1. \A o \in AllPixmaps \ {p} : q.pix[o] = r.pix[o]
    BY DEF OnePixmap
  <2>2. q.pix[p].refcnt \in 0 .. MaxRefs /\ q.pix[p].refcnt # 0
    BY PixmapBoAssumption
  <2>3. PixmapsSet(r)
    BY DEF Good
  <2>4. \A o \in AllPixmaps : q.pix[o].refcnt \in 0 .. MaxRefs
    BY <2>1, <2>2, <2>3 DEF PixmapsSet
  <2>5. ASSUME NEW o \in Pixmaps, o # p
        PROVE  q.pix[o] = r.pix[o]
    BY <2>1, <2>5 DEF AllPixmaps
  <2> QED
    BY <1>0, <2>2, <2>3, <2>4, <2>5 DEF PixmapsSet
<1>4. BuffersSet(q)
  BY DEF Good, BuffersSet, SameBuffers
<1>5. HardwareSet(q)
  <2>1. \A w \in Windows : r.win[w].mem # i
    BY <1>0, FreeIsUnused DEF Good
  <2>2. \A j \in Infos \ {i} : q.bo[j] = r.bo[j]
    BY RecordsAre DEF OnlyOne
  <2>3. \A o \in Pixmaps \ {p} : q.pix[o].info = r.pix[o].info
    BY DEF OnePixmap, AllPixmaps
  <2>4. HardwareSet(r) /\ \A w \in Windows : r.win[w].mem \in Infos \cup {NoInfo}
    BY DEF Good, BuffersSet
  <2> QED
    BY <1>0, <2>1, <2>2, <2>3, <2>4 DEF HardwareSet
<1> QED
  BY <1>1, <1>2, <1>3, <1>4, <1>5 DEF Good

\* A DRI2 buffer gets a record with a new BO that the hardware uses.
LEMMA BufferTakes ==
  ASSUME NEW r, NEW q, Good(r), q.server = r.server,
         NEW x \in Buffers, r.buf[x] = NoInfo,
         NEW i \in Infos, r.info[i].refcount = 0, OnlyOne(r, q, i),
         q.info[i].refcount = 1, q.info[i].handle = i,
         q.bo[i].refcnt = 1, q.bo[i].ext = 1,
         OneBuffer(r, q, x), q.buf[x] = i, SamePixmaps(r, q), SameWindows(r, q)
  PROVE  Good(q)
<1>0. i \in Records /\ i # NoInfo /\ i # Screen
  BY RecordsAre
<1>1. Counted(q) /\ Backed(q)
  <2>1. Moved(r, q, x, i)
    BY BufferMoved
  <2>2. x \in Users /\ HeldBy(r)[x] \notin Records
    BY BufferHolds, RecordsAre
  <2> QED
    BY <2>1, <2>2, TakeCounts DEF Good
<1>2. ScreenSet(q) /\ ScratchSet(q)
  <2>1. q.pix[Screen] = r.pix[Screen] /\ q.pix[Scratch] = r.pix[Scratch]
    BY DEF SamePixmaps, AllPixmaps
  <2> QED
    BY <2>1, ScreenStays DEF Good
<1>3. PixmapsSet(q) /\ WindowsSet(q)
  <2>1. \A p \in Pixmaps : p \in AllPixmaps
    BY DEF AllPixmaps
  <2> QED
    BY <2>1 DEF Good, PixmapsSet, WindowsSet, SamePixmaps, SameWindows
<1>4. BuffersSet(q)
  BY <1>0 DEF Good, BuffersSet, OneBuffer, SameWindows
<1>5. HardwareSet(q)
  <2>1. (\A w \in Windows : r.win[w].mem # i) /\ (\A p \in AllPixmaps : r.pix[p].info # i)
    BY <1>0, FreeIsUnused DEF Good
  <2>2. \A j \in Infos \ {i} : q.bo[j] = r.bo[j]
    BY RecordsAre DEF OnlyOne
  <2>3. \A p \in Pixmaps : q.pix[p].info = r.pix[p].info /\ p \in AllPixmaps
    BY DEF SamePixmaps, AllPixmaps
  <2>4. HardwareSet(r) /\ \A w \in Windows : r.win[w].mem \in Infos \cup {NoInfo}
    BY DEF Good, BuffersSet
  <2>5. \A w \in Windows : q.win[w] = r.win[w]
    BY DEF SameWindows
  <2> QED
    BY <1>0, <2>1, <2>2, <2>3, <2>4, <2>5 DEF HardwareSet
<1> QED
  BY <1>1, <1>2, <1>3, <1>4, <1>5 DEF Good

\* What joining or leaving a record does not change.
LEMMA RestStays ==
  ASSUME NEW r, NEW q, q.server = r.server, SamePixmaps(r, q),
         \A w \in Windows : q.win[w].pixmap = r.win[w].pixmap,
         PixmapsSet(r), WindowsSet(r)
  PROVE  PixmapsSet(q) /\ WindowsSet(q)
<1>1. \A p \in Pixmaps : p \in AllPixmaps
  BY DEF AllPixmaps
<1> QED
  BY <1>1 DEF PixmapsSet, WindowsSet, SamePixmaps

\* A DRI2 buffer joins the users of a record, which may be the screen's.
LEMMA BufferJoins ==
  ASSUME NEW r, NEW q, Good(r), q.server = r.server,
         NEW x \in Buffers, r.buf[x] = NoInfo,
         NEW i \in Infos \cup {Screen}, r.info[i].refcount > 0, i = Screen => r.server.useDumb,
         OnlyOne(r, q, i),
         q.info[i].refcount = r.info[i].refcount + 1, q.info[i].handle = r.info[i].handle,
         q.bo[i] = r.bo[i],
         OneBuffer(r, q, x), q.buf[x] = i, SamePixmaps(r, q), SameWindows(r, q)
  PROVE  Good(q)
<1>0. i \in Records /\ i # NoInfo /\ i \in Handles
  BY RecordsAre
<1>1. Counted(q) /\ Backed(q)
  <2>1. Moved(r, q, x, i)
    BY BufferMoved
  <2>2. x \in Users /\ HeldBy(r)[x] \notin Records
    BY BufferHolds, RecordsAre
  <2> QED
    BY <1>0, <2>1, <2>2, JoinCounts DEF Good
<1>2. \A h \in Handles : q.bo[h] = r.bo[h]
  BY DEF OnlyOne
<1>3. ScreenSet(q) /\ ScratchSet(q)
  <2>1. q.pix[Screen] = r.pix[Screen] /\ q.pix[Scratch] = r.pix[Scratch]
    BY DEF SamePixmaps, AllPixmaps
  <2>2. /\ q.info[Screen].handle = r.info[Screen].handle
        /\ q.info[Scratch].handle = r.info[Scratch].handle
    BY RecordsAre DEF OnlyOne
  <2> QED
    BY <1>2, <2>1, <2>2, RecordsAre DEF Good, ScreenSet, ScratchSet
<1>4. PixmapsSet(q) /\ WindowsSet(q)
  BY RestStays DEF Good, SameWindows
<1>5. BuffersSet(q)
  BY <1>0 DEF Good, BuffersSet, OneBuffer, SameWindows
<1>6. HardwareSet(q)
  <2>1. \A p \in Pixmaps : q.pix[p].info = r.pix[p].info
    BY DEF SamePixmaps, AllPixmaps
  <2>2. \A j \in Infos : q.bo[j] = r.bo[j]
    BY <1>2, RecordsAre
  <2>3. HardwareSet(r) /\ \A w \in Windows : r.win[w].mem \in Infos \cup {NoInfo}
    BY DEF Good, BuffersSet
  <2>4. \A w \in Windows : q.win[w] = r.win[w]
    BY DEF SameWindows
  <2> QED
    BY <2>1, <2>2, <2>3, <2>4 DEF HardwareSet
<1> QED
  BY <1>1, <1>3, <1>4, <1>5, <1>6 DEF Good

\* A window joins the users of a record whose BO the hardware uses.
LEMMA WindowJoins ==
  ASSUME NEW r, NEW q, Good(r), q.server = r.server, r.server.useDumb,
         NEW w \in Windows, r.win[w].mem = NoInfo,
         NEW i \in Infos, r.info[i].refcount > 0, r.bo[i].accel, r.bo[i].ext = 1,
         OnlyOne(r, q, i),
         q.info[i].refcount = r.info[i].refcount + 1, q.info[i].handle = r.info[i].handle,
         q.bo[i] = r.bo[i],
         OneWindow(r, q, w), q.win[w].mem = i, q.win[w].pixmap = r.win[w].pixmap,
         SamePixmaps(r, q), SameBuffers(r, q)
  PROVE  Good(q)
<1>0. i \in Records /\ i # NoInfo /\ i \in Handles
  BY RecordsAre
<1>1. Counted(q) /\ Backed(q)
  <2>1. Moved(r, q, w, i)
    BY WindowMoved
  <2>2. w \in Users /\ HeldBy(r)[w] \notin Records
    BY WindowHolds, RecordsAre
  <2> QED
    BY <1>0, <2>1, <2>2, JoinCounts DEF Good
<1>2. ScreenSet(q) /\ ScratchSet(q)
  <2>1. q.pix[Screen] = r.pix[Screen] /\ q.pix[Scratch] = r.pix[Scratch]
    BY DEF SamePixmaps, AllPixmaps
  <2> QED
    BY <2>1, ScreenStays DEF Good
<1>3. PixmapsSet(q) /\ WindowsSet(q)
  <2>1. \A v \in Windows : q.win[v].pixmap = r.win[v].pixmap
    BY DEF OneWindow
  <2> QED
    BY <2>1, RestStays DEF Good
<1>4. BuffersSet(q)
  BY DEF Good, BuffersSet, OneWindow, SameBuffers
<1>5. HardwareSet(q)
  <2>1. \A p \in Pixmaps : q.pix[p].info = r.pix[p].info
    BY DEF SamePixmaps, AllPixmaps
  <2>2. \A j \in Infos : q.bo[j] = r.bo[j]
    BY RecordsAre DEF OnlyOne
  <2>3. HardwareSet(r) /\ \A v \in Windows : r.win[v].mem \in Infos \cup {NoInfo}
    BY DEF Good, BuffersSet
  <2>4. \A v \in Windows \ {w} : q.win[v] = r.win[v]
    BY DEF OneWindow
  <2> QED
    BY <2>1, <2>2, <2>3, <2>4 DEF HardwareSet
<1> QED
  BY <1>1, <1>2, <1>3, <1>4, <1>5 DEF Good

\* Somebody leaves record i, and the last one takes the BO along.
Unrefs(r, q, i) ==
  /\ OnlyOne(r, q, i)
  /\ \/ /\ r.info[i].refcount > 1
        /\ q.info[i].refcount = r.info[i].refcount - 1
        /\ q.info[i].handle = r.info[i].handle /\ q.bo[i] = r.bo[i]
     \/ /\ i \in Infos /\ r.info[i].refcount = 1
        /\ q.info[i] = Released /\ q.bo[i] = NoBO

LEMMA UnrefsCounts ==
  ASSUME NEW r, NEW q, Counted(r), Backed(r),
         NEW u \in Users, NEW i \in Records, HeldBy(r)[u] = i, Unrefs(r, q, i),
         NEW k, k \notin Records, Moved(r, q, u, k)
  PROVE  Counted(q) /\ Backed(q)
BY QuitCounts DEF Unrefs

LEMMA HandlesStay ==
  ASSUME NEW r, NEW q, NEW i \in Infos \cup {Screen}, Unrefs(r, q, i)
  PROVE  /\ q.info[Screen].handle = r.info[Screen].handle
         /\ q.info[Scratch].handle = r.info[Scratch].handle
         /\ q.bo[Screen] = r.bo[Screen] /\ q.bo[Scratch] = r.bo[Scratch]
         /\ q.bo[Scanout] = r.bo[Scanout]
         /\ \A j \in Infos \ {i} : q.bo[j] = r.bo[j]
BY RecordsAre DEF Unrefs, OnlyOne

\* Nobody but the user that leaves has a record whose BO is gone.
LEMMA BoStays ==
  ASSUME NEW r, NEW q, Counted(r), NEW u \in Users, NEW i \in Infos, HeldBy(r)[u] = i,
         Unrefs(r, q, i), NEW v \in Users \ {u}, HeldBy(r)[v] = i
  PROVE  q.bo[i] = r.bo[i]
<1>1. r.info[i].refcount # 1
  BY LastIsAlone, RecordsAre
<1> QED
  BY <1>1 DEF Unrefs

LEMMA BufferQuits ==
  ASSUME NEW r, NEW q, Good(r), q.server = r.server,
         NEW x \in Buffers, NEW i \in Infos \cup {Screen}, r.buf[x] = i, Unrefs(r, q, i),
         OneBuffer(r, q, x), q.buf[x] = NoInfo, SamePixmaps(r, q), SameWindows(r, q)
  PROVE  Good(q)
<1>0. i \in Records /\ i # NoInfo /\ x \in Users /\ HeldBy(r)[x] = i
  BY RecordsAre, BufferHolds
<1>1. Counted(q) /\ Backed(q)
  <2>1. Moved(r, q, x, NoInfo)
    BY BufferMoved
  <2> QED
    BY <1>0, <2>1, UnrefsCounts, RecordsAre DEF Good
<1>2. ScreenSet(q) /\ ScratchSet(q)
  <2>1. q.pix[Screen] = r.pix[Screen] /\ q.pix[Scratch] = r.pix[Scratch]
    BY DEF SamePixmaps, AllPixmaps
  <2> QED
    BY <2>1, HandlesStay DEF Good, ScreenSet, ScratchSet
<1>3. PixmapsSet(q) /\ WindowsSet(q)
  BY RestStays DEF Good, SameWindows
<1>4. BuffersSet(q)
  <2>1. BuffersSet(r) /\ NoInfo # Screen
    BY RecordsAre DEF Good
  <2>2. \A y \in Buffers \ {x} : q.buf[y] = r.buf[y]
    BY DEF OneBuffer
  <2>3. \A w \in Windows : q.win[w] = r.win[w]
    BY DEF SameWindows
  <2> QED
    BY <2>1, <2>2, <2>3 DEF BuffersSet
<1>5. HardwareSet(q)
  <2>1. \A p \in Pixmaps : q.pix[p].info = r.pix[p].info
    BY DEF SamePixmaps, AllPixmaps
  <2>2. \A j \in Infos \ {i} : q.bo[j] = r.bo[j]
    BY HandlesStay
  <2>3. i \in Infos => q.bo[i] = r.bo[i] \/ q.bo[i] = NoBO
    BY DEF Unrefs
  <2>4. HardwareSet(r) /\ \A w \in Windows : r.win[w].mem \in Infos \cup {NoInfo}
    BY DEF Good, BuffersSet
  <2>5. \A w \in Windows : q.win[w] = r.win[w]
    BY DEF SameWindows
  <2>6. ASSUME NEW w \in Windows, r.win[w].mem = i
        PROVE  q.bo[i] = r.bo[i]
    <3>1. w \in Users \ {x} /\ HeldBy(r)[w] = i
      BY <2>6, WindowHolds, PixmapBoAssumption
    <3>2. i \in Infos
      BY <1>0, <2>4, <2>6
    <3> QED
      BY <1>0, <3>1, <3>2, BoStays DEF Good
  <2>7. NoBO.ext = 0 /\ NoBO.dmabuf = FALSE
    BY DEF NoBO
  <2> QED
    BY <2>1, <2>2, <2>3, <2>4, <2>5, <2>6, <2>7 DEF HardwareSet
<1> QED
  BY <1>1, <1>2, <1>3, <1>4, <1>5 DEF Good

LEMMA WindowQuits ==
  ASSUME NEW r, NEW q, Good(r), q.server = r.server,
         NEW w \in Windows, NEW i \in Infos, r.win[w].mem = i, Unrefs(r, q, i),
         OneWindow(r, q, w), q.win[w].mem = NoInfo, q.win[w].pixmap = r.win[w].pixmap,
         SamePixmaps(r, q), SameBuffers(r, q)
  PROVE  Good(q)
<1>0. i \in Records /\ i # NoInfo /\ w \in Users /\ HeldBy(r)[w] = i
  BY RecordsAre, WindowHolds
<1>1. Counted(q) /\ Backed(q)
  <2>1. Moved(r, q, w, NoInfo)
    BY WindowMoved
  <2> QED
    BY <1>0, <2>1, UnrefsCounts, RecordsAre DEF Good
<1>2. ScreenSet(q) /\ ScratchSet(q)
  <2>1. q.pix[Screen] = r.pix[Screen] /\ q.pix[Scratch] = r.pix[Scratch]
    BY DEF SamePixmaps, AllPixmaps
  <2> QED
    BY <2>1, HandlesStay DEF Good, ScreenSet, ScratchSet
<1>3. PixmapsSet(q) /\ WindowsSet(q)
  <2>1. \A v \in Windows : q.win[v].pixmap = r.win[v].pixmap
    BY DEF OneWindow
  <2> QED
    BY <2>1, RestStays DEF Good
<1>4. BuffersSet(q)
  BY <1>0 DEF Good, BuffersSet, OneWindow, SameBuffers
<1>5. HardwareSet(q)
  <2>1. \A p \in Pixmaps : q.pix[p].info = r.pix[p].info
    BY DEF SamePixmaps, AllPixmaps
  <2>2. \A j \in Infos \ {i} : q.bo[j] = r.bo[j]
    BY HandlesStay
  <2>3. q.bo[i] = r.bo[i] \/ q.bo[i] = NoBO
    BY DEF Unrefs
  <2>4. HardwareSet(r) /\ \A v \in Windows : r.win[v].mem \in Infos \cup {NoInfo}
    BY DEF Good, BuffersSet
  <2>5. \A v \in Windows \ {w} : q.win[v] = r.win[v]
    BY DEF OneWindow
  <2>6. ASSUME NEW v \in Windows \ {w}, r.win[v].mem = i
        PROVE  q.bo[i] = r.bo[i]
    <3>1. v \in Users \ {w} /\ HeldBy(r)[v] = i
      BY <2>6, WindowHolds
    <3> QED
      BY <1>0, <3>1, BoStays DEF Good
  <2>7. NoBO.ext = 0 /\ NoBO.dmabuf = FALSE
    BY DEF NoBO
  <2> QED
    BY <2>1, <2>2, <2>3, <2>4, <2>5, <2>6, <2>7 DEF HardwareSet
<1> QED
  BY <1>1, <1>2, <1>3, <1>4, <1>5 DEF Good

\* A pixmap that is destroyed, or taken back to its own memory.
LEMMA PixmapQuits ==
  ASSUME NEW r, NEW q, Good(r), q.server = r.server,
         NEW p \in Pixmaps, NEW i \in Infos, r.pix[p].info = i, Unrefs(r, q, i),
         OnePixmap(r, q, p), q.pix[p].info = NoInfo, q.pix[p].refcnt \in 0 .. MaxRefs,
         q.pix[p].refcnt > 0 => ~q.server.useDumb /\ q.pix[p].ptr = "own",
         SameBuffers(r, q), \A w \in Windows : q.win[w].mem = r.win[w].mem, WindowsSet(q)
  PROVE  Good(q)
<1>0. /\ i \in Records /\ i # NoInfo /\ p \in Users /\ HeldBy(r)[p] = i
      /\ p \in AllPixmaps /\ p # Screen /\ p # Scratch
  BY RecordsAre, PixmapHolds, PixmapBoAssumption DEF AllPixmaps
<1>1. Counted(q) /\ Backed(q)
  <2>1. Moved(r, q, p, NoInfo)
    BY <1>0, PixmapMoved
  <2> QED
    BY <1>0, <2>1, UnrefsCounts, RecordsAre DEF Good
<1>2. ScreenSet(q) /\ ScratchSet(q)
  <2>1. q.pix[Screen] = r.pix[Screen] /\ q.pix[Scratch] = r.pix[Scratch]
    BY <1>0 DEF OnePixmap, AllPixmaps
  <2> QED
    BY <2>1, HandlesStay DEF Good, ScreenSet, ScratchSet
<1>3. PixmapsSet(q)
  <2>1. \A o \in AllPixmaps \ {p} : q.pix[o] = r.pix[o]
    BY DEF OnePixmap
  <2>2. PixmapsSet(r)
    BY DEF Good
  <2>3. \A o \in AllPixmaps : q.pix[o].refcnt \in 0 .. MaxRefs
    BY <2>1, <2>2 DEF PixmapsSet
  <2>4. ASSUME NEW o \in Pixmaps, o # p
        PROVE  q.pix[o] = r.pix[o]
    BY <2>1, <2>4 DEF AllPixmaps
  <2> QED
    BY <2>2, <2>3, <2>4 DEF PixmapsSet
<1>4. BuffersSet(q)
  BY DEF Good, BuffersSet, SameBuffers
<1>5. HardwareSet(q)
  <2>1. \A o \in Pixmaps \ {p} : q.pix[o].info = r.pix[o].info
    BY DEF OnePixmap, AllPixmaps
  <2>2. \A j \in Infos \ {i} : q.bo[j] = r.bo[j]
    BY HandlesStay
  <2>3. q.bo[i] = r.bo[i] \/ q.bo[i] = NoBO
    BY DEF Unrefs
  <2>4. HardwareSet(r) /\ \A v \in Windows : r.win[v].mem \in Infos \cup {NoInfo}
    BY DEF Good, BuffersSet
  <2>6. ASSUME NEW v \in Windows, r.win[v].mem = i
        PROVE  q.bo[i] = r.bo[i]
    <3>1. v \in Users \ {p} /\ HeldBy(r)[v] = i
      BY <1>0, <2>6, WindowHolds, PixmapBoAssumption
    <3> QED
      BY <1>0, <3>1, BoStays DEF Good
  <2>7. NoBO.ext = 0 /\ NoBO.dmabuf = FALSE /\ NoInfo \notin Infos
    BY RecordsAre DEF NoBO
  <2> QED
    BY <1>0, <2>1, <2>2, <2>3, <2>4, <2>6, <2>7 DEF HardwareSet
<1> QED
  BY <1>1, <1>2, <1>3, <1>4, <1>5 DEF Good

LEMMA HeldStays ==
  ASSUME NEW r, NEW q, \A o \in AllPixmaps : q.pix[o].info = r.pix[o].info,
         \A w \in Windows : q.win[w].mem = r.win[w].mem, SameBuffers(r, q)
  PROVE  \A u \in Users : HeldBy(q)[u] = HeldBy(r)[u]
<1> SUFFICES ASSUME NEW u \in Users
             PROVE  HeldBy(q)[u] = HeldBy(r)[u]
  OBVIOUS
<1>1. CASE u \in AllPixmaps
  <2>1. HeldBy(q)[u] = q.pix[u].info /\ HeldBy(r)[u] = r.pix[u].info
    BY <1>1, PixmapHolds
  <2> QED
    BY <1>1, <2>1
<1>2. CASE u \in Windows
  <2>1. HeldBy(q)[u] = q.win[u].mem /\ HeldBy(r)[u] = r.win[u].mem
    BY <1>2, WindowHolds
  <2> QED
    BY <1>2, <2>1
<1>3. CASE u \in Buffers
  <2>1. HeldBy(q)[u] = q.buf[u] /\ HeldBy(r)[u] = r.buf[u]
    BY <1>3, BufferHolds
  <2> QED
    BY <1>3, <2>1 DEF SameBuffers
<1> QED
  BY <1>1, <1>2, <1>3 DEF Users

\* The references of a pixmap, without those of its record: it is used once more
\* or once less, made with memory of its own, or destroyed with it.
LEMMA PixmapChanges ==
  ASSUME NEW r, NEW q, Good(r), q.server = r.server,
         NEW p \in Pixmaps \cup {Screen}, OnePixmap(r, q, p),
         q.pix[p].info = r.pix[p].info, q.pix[p].refcnt \in 0 .. MaxRefs,
         q.pix[p].refcnt = 0 => p # Screen /\ r.pix[p].info = NoInfo,
         q.pix[p].refcnt > 0 =>
           \/ r.pix[p].refcnt > 0 /\ q.pix[p].ptr = r.pix[p].ptr
           \/ ~q.server.useDumb /\ r.pix[p].info = NoInfo /\ q.pix[p].ptr = "own",
         \A i \in Records : q.info[i] = r.info[i], \A h \in Handles : q.bo[h] = r.bo[h],
         SameBuffers(r, q), SameWindows(r, q), WindowsSet(q)
  PROVE  Good(q)
<1>0. p \in AllPixmaps /\ p # Scratch
  BY PixmapBoAssumption DEF AllPixmaps
<1>1. \A o \in AllPixmaps : q.pix[o].info = r.pix[o].info
  BY DEF OnePixmap
<1>2. \A w \in Windows : q.win[w] = r.win[w]
  BY DEF SameWindows
<1>3. Counted(q) /\ Backed(q)
  <2>1. \A u \in Users : HeldBy(q)[u] = HeldBy(r)[u]
    BY <1>1, <1>2, HeldStays
  <2>2. \A j \in Infos : q.bo[j] = r.bo[j]
    BY RecordsAre
  <2> QED
    BY <2>1, <2>2, TouchCounts DEF Good
<1>4. ScreenSet(q) /\ ScratchSet(q)
  <2>1. q.pix[Scratch] = r.pix[Scratch]
    BY <1>0 DEF OnePixmap, AllPixmaps
  <2>2. q.pix[Screen].info = r.pix[Screen].info
    BY <1>1 DEF AllPixmaps
  <2>3. q.pix[Screen].refcnt > 0
    <3>1. CASE p = Screen
      <4>1. q.pix[p].refcnt \in Int /\ q.pix[p].refcnt >= 0 /\ q.pix[p].refcnt # 0
        BY <3>1, PixmapBoAssumption
      <4> QED
        BY <3>1, <4>1
    <3>2. CASE p # Screen
      BY <3>2 DEF OnePixmap, AllPixmaps, Good, ScreenSet
    <3> QED
      BY <3>1, <3>2
  <2> QED
    BY <2>1, <2>2, <2>3, RecordsAre DEF Good, ScreenSet, ScratchSet
<1>5. PixmapsSet(q)
  <2>1. \A o \in AllPixmaps \ {p} : q.pix[o] = r.pix[o]
    BY DEF OnePixmap
  <2>2. PixmapsSet(r)
    BY DEF Good
  <2>3. \A o \in AllPixmaps : q.pix[o].refcnt \in 0 .. MaxRefs
    BY <2>1, <2>2 DEF PixmapsSet
  <2>4. ASSUME NEW o \in Pixmaps, o # p
        PROVE  q.pix[o] = r.pix[o]
    BY <2>1, <2>4 DEF AllPixmaps
  <2> QED
    BY <2>2, <2>3, <2>4 DEF PixmapsSet
<1>6. BuffersSet(q)
  BY DEF Good, BuffersSet, SameBuffers, SameWindows
<1>7. HardwareSet(q)
  <2>1. \A o \in Pixmaps : q.pix[o].info = r.pix[o].info
    BY <1>1 DEF AllPixmaps
  <2>2. \A j \in Infos : q.bo[j] = r.bo[j]
    BY RecordsAre
  <2>3. HardwareSet(r) /\ \A w \in Windows : r.win[w].mem \in Infos \cup {NoInfo}
    BY DEF Good, BuffersSet
  <2> QED
    BY <1>2, <2>1, <2>2, <2>3 DEF HardwareSet
<1> QED
  BY <1>3, <1>4, <1>5, <1>6, <1>7 DEF Good

\* A BO that somebody has is mapped or gets a dma_buf or a framebuffer.
LEMMA BoTouched ==
  ASSUME NEW r, NEW q, Good(r), q.server = r.server,
         NEW k \in Handles, r.bo[k].refcnt > 0,
         q.bo[k].refcnt = r.bo[k].refcnt, q.bo[k].ext = r.bo[k].ext,
         q.bo[k].accel = r.bo[k].accel, q.bo[k].dmabuf => q.bo[k].ext = 1,
         \A h \in Handles \ {k} : q.bo[h] = r.bo[h],
         \A i \in Records : /\ q.info[i].refcount = r.info[i].refcount
                            /\ q.info[i].handle = r.info[i].handle,
         SamePixmaps(r, q), SameBuffers(r, q), SameWindows(r, q)
  PROVE  Good(q)
<1>1. k # Screen /\ k # Scratch
  <2>1. NoBO.refcnt = 0
    BY DEF NoBO
  <2> QED
    BY <2>1 DEF Good, ScreenSet, ScratchSet
<1>2. Counted(q) /\ Backed(q)
  <2>1. \A u \in Users : HeldBy(q)[u] = HeldBy(r)[u]
    <3>1. \A o \in AllPixmaps : q.pix[o].info = r.pix[o].info
      BY DEF SamePixmaps
    <3>2. \A w \in Windows : q.win[w].mem = r.win[w].mem
      BY DEF SameWindows
    <3> QED
      BY <3>1, <3>2, HeldStays
  <2>2. ASSUME NEW j \in Infos
        PROVE  (r.info[j].refcount > 0 /\ q.bo[j].refcnt = r.bo[j].refcnt) \/ q.bo[j] = r.bo[j]
    <3>1. CASE j = k
      <4>1. NoBO.refcnt = 0
        BY DEF NoBO
      <4>2. r.info[j].refcount > 0
        BY <3>1, <4>1 DEF Good, Backed
      <4> QED
        BY <3>1, <4>2
    <3>2. CASE j # k
      BY <3>2, RecordsAre
    <3> QED
      BY <3>1, <3>2
  <2> QED
    BY <2>1, <2>2, TouchCounts DEF Good
<1>3. ScreenSet(q) /\ ScratchSet(q)
  <2>1. q.pix[Screen] = r.pix[Screen] /\ q.pix[Scratch] = r.pix[Scratch]
    BY DEF SamePixmaps, AllPixmaps
  <2>2. /\ q.info[Screen].handle = r.info[Screen].handle
        /\ q.info[Scratch].handle = r.info[Scratch].handle
        /\ q.bo[Screen] = r.bo[Screen] /\ q.bo[Scratch] = r.bo[Scratch]
    BY <1>1, RecordsAre
  <2>3. q.bo[Scanout].refcnt = r.bo[Scanout].refcnt /\ q.bo[Scanout].ext = r.bo[Scanout].ext
    BY RecordsAre
  <2>4. q.bo[Scanout].dmabuf => r.bo[Scanout].dmabuf
    BY RecordsAre DEF Good, ScreenSet
  <2> QED
    BY <2>1, <2>2, <2>3, <2>4 DEF Good, ScreenSet, ScratchSet
<1>4. PixmapsSet(q) /\ WindowsSet(q)
  BY RestStays DEF Good, SameWindows
<1>5. BuffersSet(q)
  BY DEF Good, BuffersSet, SameBuffers, SameWindows
<1>6. HardwareSet(q)
  <2>1. \A o \in Pixmaps : q.pix[o].info = r.pix[o].info
    BY DEF SamePixmaps, AllPixmaps
  <2>2. \A j \in Infos : /\ q.bo[j].ext = r.bo[j].ext /\ q.bo[j].accel = r.bo[j].accel
                         /\ q.bo[j].dmabuf => q.bo[j].ext = 1
    BY RecordsAre DEF Good, HardwareSet
  <2>3. HardwareSet(r) /\ \A w \in Windows : r.win[w].mem \in Infos \cup {NoInfo}
    BY DEF Good, BuffersSet
  <2>4. \A w \in Windows : q.win[w] = r.win[w]
    BY DEF SameWindows
  <2> QED
    BY <2>1, <2>2, <2>3, <2>4 DEF HardwareSet
<1> QED
  BY <1>2, <1>3, <1>4, <1>5, <1>6 DEF Good

\* The server makes its scratch pixmap.
LEMMA ScratchJoins ==
  ASSUME NEW r, NEW q, Good(r), q.server = r.server,
         r.pix[Scratch] = NoPixmap, OnePixmap(r, q, Scratch),
         q.pix[Scratch].refcnt = 1, q.pix[Scratch].info = Scratch,
         q.info[Scratch].refcount = 1, q.info[Scratch].handle = Invalid,
         \A i \in Records \ {Scratch} : q.info[i] = r.info[i],
         \A h \in Handles : q.bo[h] = r.bo[h],
         SameBuffers(r, q), SameWindows(r, q)
  PROVE  Good(q)
<1>0. Scratch \in AllPixmaps /\ Scratch \notin Pixmaps /\ Scratch \in Records
  BY RecordsAre, PixmapBoAssumption DEF AllPixmaps
<1>1. \A p \in Pixmaps : q.pix[p] = r.pix[p] /\ p \in AllPixmaps
  BY <1>0 DEF OnePixmap, AllPixmaps
<1>2. q.pix[Screen] = r.pix[Screen]
  BY RecordsAre DEF OnePixmap, AllPixmaps
<1>3. Counted(q) /\ Backed(q)
  <2>1. Count(HeldBy(r), Scratch) = 0
    <3>1. ASSUME NEW u \in Users
          PROVE  HeldBy(r)[u] # Scratch
      <4>1. CASE u \in Pixmaps
        <5>1. HeldBy(r)[u] = r.pix[u].info
          BY <1>1, <4>1, PixmapHolds
        <5>2. r.pix[u].info \in Infos \cup {NoInfo}
          BY <4>1 DEF Good, PixmapsSet
        <5> QED
          BY <5>1, <5>2, RecordsAre
      <4>2. CASE u = Screen
        <5>1. HeldBy(r)[u] = r.pix[Screen].info
          BY <4>2, PixmapHolds DEF AllPixmaps
        <5>2. r.pix[Screen].info \in {Screen, NoInfo}
          BY DEF Good, ScreenSet
        <5> QED
          BY <5>1, <5>2, RecordsAre
      <4>3. CASE u = Scratch
        <5>1. HeldBy(r)[u] = r.pix[Scratch].info
          BY <4>3, PixmapHolds DEF AllPixmaps
        <5> QED
          BY <5>1, RecordsAre DEF NoPixmap
      <4>4. CASE u \in Windows
        <5>1. HeldBy(r)[u] = r.win[u].mem
          BY <4>4, WindowHolds
        <5>2. r.win[u].mem \in Infos \cup {NoInfo}
          BY <4>4 DEF Good, BuffersSet
        <5> QED
          BY <5>1, <5>2, RecordsAre
      <4>5. CASE u \in Buffers
        <5>1. HeldBy(r)[u] = r.buf[u]
          BY <4>5, BufferHolds
        <5>2. r.buf[u] \in Infos \cup {Screen, NoInfo, NullBuffer}
          BY <4>5 DEF Good, BuffersSet
        <5> QED
          BY <5>1, <5>2, RecordsAre
      <4> QED
        BY <4>1, <4>2, <4>3, <4>4, <4>5 DEF Users, AllPixmaps
    <3>2. {u \in Users : HeldBy(r)[u] = Scratch} = {}
      BY <3>1
    <3> QED
      BY <3>2, FS_EmptySet DEF Count
  <2>2. r.info[Scratch].refcount = 0
    BY <1>0, <2>1 DEF Good, Counted
  <2>3. Moved(r, q, Scratch, Scratch)
    <3>1. Moved(r, q, Scratch, q.pix[Scratch].info)
      BY <1>0, PixmapMoved DEF SameWindows
    <3> QED
      BY <3>1
  <2>4. Scratch \in Users /\ HeldBy(r)[Scratch] \notin Records
    BY <1>0, PixmapHolds, RecordsAre DEF NoPixmap
  <2>5. OnlyOne(r, q, Scratch)
    BY DEF OnlyOne
  <2>6. q.info[Scratch].refcount = r.info[Scratch].refcount + 1
    BY <2>2
  <2>7. q.info[Scratch].handle = r.info[Scratch].handle
    BY DEF Good, ScratchSet
  <2>8. Scratch \notin Infos
    BY RecordsAre
  <2> QED
    BY <1>0, <2>3, <2>4, <2>5, <2>6, <2>7, <2>8, JoinCounts DEF Good
<1>4. ScreenSet(q) /\ ScratchSet(q)
  BY <1>2, RecordsAre DEF Good, ScreenSet, ScratchSet
<1>5. PixmapsSet(q)
  <2>1. \A p \in AllPixmaps : q.pix[p].refcnt \in 0 .. MaxRefs
    BY PixmapBoAssumption DEF Good, PixmapsSet, OnePixmap
  <2> QED
    BY <1>1, <2>1 DEF Good, PixmapsSet
<1>6. WindowsSet(q) /\ BuffersSet(q)
  BY <1>1 DEF Good, WindowsSet, BuffersSet, SameBuffers, SameWindows
<1>7. HardwareSet(q)
  <2>1. \A j \in Infos : q.bo[j] = r.bo[j]
    BY RecordsAre
  <2>2. HardwareSet(r) /\ \A w \in Windows : r.win[w].mem \in Infos \cup {NoInfo}
    BY DEF Good, BuffersSet
  <2>3. \A w \in Windows : q.win[w] = r.win[w]
    BY DEF SameWindows
  <2> QED
    BY <1>1, <2>1, <2>2, <2>3 DEF HardwareSet
<1> QED
  BY <1>3, <1>4, <1>5, <1>6, <1>7 DEF Good

-----------------------------------------------------------------------------
(***************************************************************************)
(* The users' fields of a status.                                          *)
(***************************************************************************)

LEMMA SetPixmap ==
  ASSUME NEW t \in Statuses, NEW p \in AllPixmaps, NEW rec \in PixmapRecs
  PROVE  LET q == [t EXCEPT !.pix[p] = rec]
         IN /\ Goes(t, q) /\ q.server = t.server /\ q.info = t.info /\ q.bo = t.bo
            /\ q.pix[p] = rec /\ OnePixmap(t, q, p)
            /\ SameWindows(t, q) /\ SameBuffers(t, q)
<1>1. Goes(t, [t EXCEPT !.pix[p] = rec])
  BY DEF Goes, Statuses
<1> QED
  BY <1>1 DEF Statuses, OnePixmap, SameWindows, SameBuffers

LEMMA SetMem ==
  ASSUME NEW t \in Statuses, NEW w \in Windows, NEW k \in Infos \cup {NoInfo}
  PROVE  LET q == [t EXCEPT !.win[w].mem = k]
         IN /\ Goes(t, q) /\ q.server = t.server /\ q.info = t.info /\ q.bo = t.bo
            /\ q.win[w].mem = k /\ q.win[w].pixmap = t.win[w].pixmap /\ OneWindow(t, q, w)
            /\ SamePixmaps(t, q) /\ SameBuffers(t, q)
<1>1. Goes(t, [t EXCEPT !.win[w].mem = k])
  BY ZenonT(30) DEF Goes, Statuses, WindowRecs
<1> QED
  BY <1>1 DEF Statuses, WindowRecs, OneWindow, SamePixmaps, SameBuffers

LEMMA SetPixmapOfWindow ==
  ASSUME NEW t \in Statuses, NEW w \in Windows, NEW p \in AllPixmaps
  PROVE  LET q == [t EXCEPT !.win[w].pixmap = p]
         IN /\ Goes(t, q) /\ q.server = t.server /\ q.info = t.info /\ q.bo = t.bo
            /\ q.win[w].pixmap = p /\ q.win[w].mem = t.win[w].mem /\ OneWindow(t, q, w)
            /\ SamePixmaps(t, q) /\ SameBuffers(t, q)
<1>1. Goes(t, [t EXCEPT !.win[w].pixmap = p])
  BY SMTT(30) DEF Goes, Statuses, WindowRecs
<1> QED
  BY <1>1 DEF Statuses, WindowRecs, OneWindow, SamePixmaps, SameBuffers

LEMMA SetBuffer ==
  ASSUME NEW t \in Statuses, NEW x \in Buffers, NEW k \in Records \cup {NoInfo, NullBuffer}
  PROVE  LET q == [t EXCEPT !.buf[x] = k]
         IN /\ Goes(t, q) /\ q.server = t.server /\ q.info = t.info /\ q.bo = t.bo
            /\ q.buf[x] = k /\ OneBuffer(t, q, x)
            /\ SamePixmaps(t, q) /\ SameWindows(t, q)
<1>1. Goes(t, [t EXCEPT !.buf[x] = k])
  BY DEF Goes, Statuses
<1> QED
  BY <1>1 DEF Statuses, OneBuffer, SamePixmaps, SameWindows

\* Nobody's record changes with what is in a record.
LEMMA PutUsers ==
  ASSUME NEW r \in Statuses, NEW i \in Records, NEW rec \in InfoRecs, NEW m \in BoRecs
  PROVE  LET q == Put(r, i, rec, m)
         IN /\ Goes(r, q) /\ q \in Statuses /\ q.server = r.server
            /\ SamePixmaps(r, q) /\ SameWindows(r, q) /\ SameBuffers(r, q)
            /\ OnlyOne(r, q, i) /\ q.info[i] = rec /\ q.bo[i] = m
<1>1. OnlyOne(r, Put(r, i, rec, m), i)
  BY PutAt DEF OnlyOne
<1> QED
  BY <1>1, PutGoes, PutKeeps, PutAt DEF SamePixmaps, SameWindows, SameBuffers

\* unref_bo_info by a user of the record.
LEMMA UnrefByUser ==
  ASSUME NEW r \in Statuses, Good(r), NEW i \in Infos \cup {Screen}, NEW u \in Users,
         HeldBy(r)[u] = i, i = Screen => u \in Buffers
  PROVE  LET q == Unref(r, i)
         IN /\ Goes(r, q)
            /\ Alive(q) => /\ Unrefs(r, q, i) /\ q.server = r.server
                           /\ SamePixmaps(r, q) /\ SameWindows(r, q) /\ SameBuffers(r, q)
<1> DEFINE q == Unref(r, i)
           n == r.info[i].refcount
           fewer == [r.info[i] EXCEPT !.refcount = @ - 1]
<1>1. i \in Records
  BY RecordsAre
<1>2. /\ Goes(r, q)
      /\ n > 1 => q = Put(r, i, fewer, r.bo[i])
      /\ Alive(q) /\ n = 1 /\ r.info[i].handle = i /\ r.bo[i].refcnt = 1 =>
           q = Put(r, i, Released, NoBO)
  BY <1>1, UnrefGoes
<1>3. n \in Nat \ {0}
  BY <1>1, UsedIsCounted DEF Good
<1>4. r.info[i] \in InfoRecs /\ r.bo[i] \in BoRecs /\ Released \in InfoRecs /\ NoBO \in BoRecs
  BY <1>1, RecordsAre, InfoRecsOK, BoRecsOK DEF Statuses
<1>5. fewer \in InfoRecs /\ fewer.refcount = n - 1 /\ fewer.handle = r.info[i].handle
  BY <1>3, <1>4 DEF InfoRecs
<1> HIDE DEF q, n, fewer
<1>6. CASE n > 1
  <2>1. q = Put(r, i, fewer, r.bo[i])
    BY <1>2, <1>6
  <2>2. /\ q.server = r.server /\ SamePixmaps(r, q) /\ SameWindows(r, q) /\ SameBuffers(r, q)
        /\ OnlyOne(r, q, i) /\ q.info[i] = fewer /\ q.bo[i] = r.bo[i]
    BY <1>1, <1>4, <1>5, <2>1, PutUsers
  <2>3. Unrefs(r, q, i)
    BY <1>5, <1>6, <2>2 DEF Unrefs, n
  <2> QED
    BY <1>2, <2>2, <2>3 DEF q
<1>7. CASE n = 1 /\ i \in Infos
  <2>1. r.info[i].handle = i /\ r.bo[i].refcnt = 1
    BY <1>7 DEF Good, Backed, n
  <2>2. ASSUME Alive(q)
        PROVE  /\ Unrefs(r, q, i) /\ q.server = r.server
               /\ SamePixmaps(r, q) /\ SameWindows(r, q) /\ SameBuffers(r, q)
    <3>1. q = Put(r, i, Released, NoBO)
      BY <1>2, <1>7, <2>1, <2>2
    <3>2. /\ q.server = r.server /\ SamePixmaps(r, q) /\ SameWindows(r, q) /\ SameBuffers(r, q)
          /\ OnlyOne(r, q, i) /\ q.info[i] = Released /\ q.bo[i] = NoBO
      BY <1>1, <1>4, <3>1, PutUsers
    <3> QED
      BY <1>7, <3>2 DEF Unrefs, n
  <2> QED
    BY <1>2, <2>2 DEF q
<1>8. CASE i = Screen
  <2>1. u \in Buffers /\ r.server.useDumb
    BY <1>8, BufferHolds DEF Good, BuffersSet
  <2>2. Screen \in Users /\ HeldBy(r)[Screen] = Screen /\ Screen # u
    BY <2>1, PixmapHolds, PixmapBoAssumption DEF AllPixmaps, Good, ScreenSet
  <2>3. n # 1
    <3>1. n = Count(HeldBy(r), i)
      BY <1>1 DEF Good, Counted, n
    <3>2. Count(HeldBy(r), i) > 1
      BY <1>8, <2>2, CountHas
    <3> QED
      BY <3>1, <3>2
  <2> QED
    BY <1>3, <1>6, <2>3
<1> QED
  BY <1>3, <1>6, <1>7, <1>8

\* What a step that keeps the server alive has kept, besides.
Keeps(r, q) == Goes(r, q) /\ (Alive(q) => Good(q) /\ q.server = r.server)

LEMMA UnrefMemGoes ==
  ASSUME NEW r \in Statuses, Good(r), NEW w \in Windows
  PROVE  LET q == UnrefMem(r, w)
         IN /\ Keeps(r, q)
            /\ Alive(q) => /\ q.win[w].mem = NoInfo /\ q.win[w].pixmap = r.win[w].pixmap
                           /\ OneWindow(r, q, w) /\ SamePixmaps(r, q) /\ SameBuffers(r, q)
                           /\ \A i \in Infos : i # r.win[w].mem =>
                                q.info[i] = r.info[i] /\ q.bo[i] = r.bo[i]
<1> DEFINE q == UnrefMem(r, w)
           i == r.win[w].mem
           t == Unref(r, i)
<1>1. CASE i = NoInfo
  <2>1. q = r
    BY <1>1 DEF UnrefMem
  <2> QED
    BY <1>1, <2>1, Stays DEF Keeps, OneWindow, SamePixmaps, SameBuffers
<1>2. CASE i # NoInfo
  <2>1. q = [t EXCEPT !.win[w].mem = NoInfo]
    BY <1>2 DEF UnrefMem
  <2>2. i \in Infos /\ w \in Users /\ HeldBy(r)[w] = i
    BY <1>2, WindowHolds DEF Good, BuffersSet
  <2> HIDE DEF i
  <2>3. /\ Goes(r, t)
        /\ Alive(t) => /\ Unrefs(r, t, i) /\ t.server = r.server
                       /\ SamePixmaps(r, t) /\ SameWindows(r, t) /\ SameBuffers(r, t)
    BY <2>2, UnrefByUser, RecordsAre
  <2>4. t \in Statuses
    BY <2>3 DEF Goes
  <2> HIDE DEF t, q
  <2>5. /\ Goes(t, q) /\ q.server = t.server /\ q.info = t.info /\ q.bo = t.bo
        /\ q.win[w].mem = NoInfo /\ q.win[w].pixmap = t.win[w].pixmap /\ OneWindow(t, q, w)
        /\ SamePixmaps(t, q) /\ SameBuffers(t, q)
    BY <2>1, <2>4, SetMem
  <2>6. Goes(r, q)
    BY <2>3, <2>4, <2>5, GoesTwice
  <2>7. ASSUME Alive(q)
        PROVE  /\ Good(q) /\ q.server = r.server
               /\ q.win[w].mem = NoInfo /\ q.win[w].pixmap = r.win[w].pixmap
               /\ OneWindow(r, q, w) /\ SamePixmaps(r, q) /\ SameBuffers(r, q)
               /\ \A j \in Infos : j # i => q.info[j] = r.info[j] /\ q.bo[j] = r.bo[j]
    <3>1. /\ Unrefs(r, t, i) /\ t.server = r.server
          /\ SamePixmaps(r, t) /\ SameWindows(r, t) /\ SameBuffers(r, t)
      BY <2>3, <2>4, <2>5, <2>7, AliveBefore
    <3>2. Unrefs(r, q, i)
      BY <2>5, <3>1 DEF Unrefs, OnlyOne
    <3>3. /\ q.server = r.server /\ q.win[w].pixmap = r.win[w].pixmap /\ OneWindow(r, q, w)
          /\ SamePixmaps(r, q) /\ SameBuffers(r, q)
      BY <2>5, <3>1 DEF SamePixmaps, SameWindows, SameBuffers, OneWindow
    <3>4. r.win[w].mem = i
      BY DEF i
    <3>5. Good(q)
      BY <2>2, <2>5, <3>2, <3>3, <3>4, WindowQuits
    <3>6. \A j \in Infos : j # i => q.info[j] = r.info[j] /\ q.bo[j] = r.bo[j]
      BY <3>2, RecordsAre DEF Unrefs, OnlyOne
    <3> QED
      BY <2>5, <3>3, <3>5, <3>6
  <2> QED
    BY <2>6, <2>7 DEF Keeps, q, i
<1> QED
  BY <1>1, <1>2

LEMMA PixmapRecsOK ==
  /\ NoPixmap \in PixmapRecs /\ NoPixmap.refcnt = 0 /\ NoPixmap.info = NoInfo
  /\ \A rec \in PixmapRecs, n \in Int : /\ [rec EXCEPT !.refcnt = n] \in PixmapRecs
                                        /\ [rec EXCEPT !.refcnt = n].info = rec.info
                                        /\ [rec EXCEPT !.refcnt = n].ptr = rec.ptr
                                        /\ [rec EXCEPT !.refcnt = n].refcnt = n
BY DEF NoPixmap, PixmapRecs

PixelsIn(rec, k, at) == [rec EXCEPT !.info = k, !.ptr = at]

LEMMA PixelsInOK ==
  ASSUME NEW rec \in PixmapRecs, NEW k \in Records \cup {NoInfo},
         NEW at \in {"null", "own", "bo"}
  PROVE  /\ PixelsIn(rec, k, at) \in PixmapRecs /\ PixelsIn(rec, k, at).info = k
         /\ PixelsIn(rec, k, at).ptr = at /\ PixelsIn(rec, k, at).refcnt = rec.refcnt
BY DEF PixmapRecs, PixelsIn

LEMMA DropReferenceGoes ==
  ASSUME NEW t \in Statuses, NEW p \in AllPixmaps
  PROVE  LET q == DropReference(t, p)
         IN /\ Goes(t, q) /\ q.server = t.server /\ q.info = t.info /\ q.bo = t.bo
            /\ OnePixmap(t, q, p) /\ SameWindows(t, q) /\ SameBuffers(t, q)
            /\ t.pix[p].refcnt = 1 => q.pix[p] = NoPixmap
            /\ t.pix[p].refcnt # 1 => /\ q.pix[p].refcnt = t.pix[p].refcnt - 1
                                      /\ q.pix[p].info = t.pix[p].info
                                      /\ q.pix[p].ptr = t.pix[p].ptr
<1> DEFINE q == DropReference(t, p)
           fewer == [t.pix[p] EXCEPT !.refcnt = @ - 1]
           rec == IF t.pix[p].refcnt = 1 THEN NoPixmap ELSE fewer
<1>1. t.pix[p] \in PixmapRecs /\ t.pix[p].refcnt - 1 \in Int
  BY DEF Statuses, PixmapRecs
<1>2. /\ fewer \in PixmapRecs /\ fewer.info = t.pix[p].info
      /\ fewer.ptr = t.pix[p].ptr /\ fewer.refcnt = t.pix[p].refcnt - 1
  BY <1>1, PixmapRecsOK
<1>3. rec \in PixmapRecs
  BY <1>2, PixmapRecsOK
<1>4. q = [t EXCEPT !.pix[p] = rec]
  BY DEF DropReference
<1> HIDE DEF q, rec, fewer
<1>5. /\ Goes(t, q) /\ q.server = t.server /\ q.info = t.info /\ q.bo = t.bo
      /\ q.pix[p] = rec /\ OnePixmap(t, q, p) /\ SameWindows(t, q) /\ SameBuffers(t, q)
  BY <1>3, <1>4, SetPixmap
<1> QED
  BY <1>2, <1>5 DEF q, rec

LEMMA WindowsStay ==
  ASSUME NEW r, NEW q, WindowsSet(r), NEW p \in AllPixmaps, OnePixmap(r, q, p), SameWindows(r, q),
         q.pix[p].refcnt > 0 \/ (\A w \in Windows : r.win[w].pixmap # p)
  PROVE  WindowsSet(q)
<1>1. \A o \in Pixmaps : o \in AllPixmaps
  BY DEF AllPixmaps
<1>2. \A o \in AllPixmaps : o # p => q.pix[o] = r.pix[o]
  BY DEF OnePixmap
<1> QED
  BY <1>1, <1>2 DEF WindowsSet, SameWindows

\* A live pixmap after Destroyed, whatever becomes of its record.
Dropped(r, q, p) ==
  /\ OnePixmap(r, q, p) /\ SameWindows(r, q) /\ SameBuffers(r, q)
  /\ q.pix[p].info \in {NoInfo, r.pix[p].info}

\* FBTurboDestroyPixmap, with EXA.
LEMMA DestroyedByExa ==
  ASSUME NEW r \in Statuses, Good(r), r.server.useDumb, NEW p \in Pixmaps, r.pix[p].refcnt > 0,
         r.pix[p].refcnt = 1 => \A w \in Windows : r.win[w].pixmap # p
  PROVE  LET q == Destroyed(r, p)
         IN Keeps(r, q) /\ (Alive(q) => Dropped(r, q, p))
<1> DEFINE i == r.pix[p].info
           n == r.pix[p].refcnt
           t == ExaDestroyPixmap(r, p)
           q == Destroyed(r, p)
<1>1. p \in AllPixmaps /\ p # Screen /\ q = DropReference(t, p)
  BY PixmapBoAssumption DEF AllPixmaps, Destroyed
<1>2. i \in Infos /\ i # NoInfo /\ n \in 1 .. MaxRefs
  BY <1>1, RecordsAre, PixmapBoAssumption DEF Good, PixmapsSet
<1>3. p \in Users /\ HeldBy(r)[p] = i
  BY <1>1, PixmapHolds
<1>4. r.info[i].handle # Scanout
  <2>1. r.info[i].refcount > 0
    BY <1>2, <1>3, UsedIsCounted, RecordsAre DEF Good
  <2>2. r.info[i].handle = i
    BY <1>2, <2>1 DEF Good, Backed
  <2> QED
    BY <1>2, <2>2, RecordsAre
<1>5. t = IF n = 1 THEN Unref(r, i) ELSE r
  BY <1>2, <1>4 DEF ExaDestroyPixmap
<1> HIDE DEF t, q, i, n
<1>6. CASE n = 1
  <2>1. /\ Goes(r, t)
        /\ Alive(t) => /\ Unrefs(r, t, i) /\ t.server = r.server
                       /\ SamePixmaps(r, t) /\ SameWindows(r, t) /\ SameBuffers(r, t)
    BY <1>2, <1>3, <1>5, <1>6, UnrefByUser, RecordsAre
  <2>2. t \in Statuses
    BY <2>1 DEF Goes
  <2>3. /\ Goes(t, q) /\ q.server = t.server /\ q.info = t.info /\ q.bo = t.bo
        /\ OnePixmap(t, q, p) /\ SameWindows(t, q) /\ SameBuffers(t, q)
        /\ t.pix[p].refcnt = 1 => q.pix[p] = NoPixmap
    BY <1>1, <2>2, DropReferenceGoes
  <2>4. Goes(r, q)
    BY <2>1, <2>2, <2>3, GoesTwice
  <2>5. ASSUME Alive(q)
        PROVE  Good(q) /\ q.server = r.server /\ Dropped(r, q, p)
    <3>1. /\ Unrefs(r, t, i) /\ t.server = r.server
          /\ SamePixmaps(r, t) /\ SameWindows(r, t) /\ SameBuffers(r, t)
      BY <2>1, <2>2, <2>3, <2>5, AliveBefore
    <3>2. t.pix[p].refcnt = 1
      BY <1>1, <1>6, <3>1 DEF SamePixmaps, n
    <3>3. q.pix[p] = NoPixmap
      BY <2>3, <3>2
    <3>4. q.pix[p].info = NoInfo /\ q.pix[p].refcnt = 0 /\ 0 \in 0 .. MaxRefs
      BY <3>3, PixmapRecsOK, PixmapBoAssumption
    <3>5. Unrefs(r, q, i)
      BY <2>3, <3>1 DEF Unrefs, OnlyOne
    <3>6. OnePixmap(r, q, p) /\ SameWindows(r, q) /\ SameBuffers(r, q)
      BY <2>3, <3>1 DEF OnePixmap, SamePixmaps, SameWindows, SameBuffers
    <3>7. WindowsSet(q)
      BY <1>1, <1>6, <3>6, WindowsStay DEF Good, n
    <3>8. Good(q) /\ q.server = r.server
      <4>1. \A w \in Windows : q.win[w].mem = r.win[w].mem
        BY <3>6 DEF SameWindows
      <4>2. q.server = r.server /\ r.pix[p].info = i
        BY <2>3, <3>1 DEF i
      <4>3. q.pix[p].refcnt > 0 => ~q.server.useDumb /\ q.pix[p].ptr = "own"
        BY <3>4
      <4> QED
        BY <1>2, <3>4, <3>5, <3>6, <3>7, <4>1, <4>2, <4>3, PixmapQuits
    <3> QED
      BY <3>4, <3>6, <3>8 DEF Dropped
  <2> QED
    BY <2>4, <2>5 DEF Keeps, q
<1>7. CASE n # 1
  <2>1. t = r
    BY <1>5, <1>7
  <2>2. /\ Goes(r, q) /\ q.server = r.server /\ q.info = r.info /\ q.bo = r.bo
        /\ OnePixmap(r, q, p) /\ SameWindows(r, q) /\ SameBuffers(r, q)
        /\ q.pix[p].refcnt = r.pix[p].refcnt - 1
        /\ q.pix[p].info = r.pix[p].info /\ q.pix[p].ptr = r.pix[p].ptr
    BY <1>1, <1>7, <2>1, DropReferenceGoes DEF n
  <2>3. q.pix[p].refcnt > 0 /\ q.pix[p].refcnt \in 0 .. MaxRefs
    BY <1>2, <1>7, <2>2, PixmapBoAssumption DEF n
  <2>4. WindowsSet(q)
    BY <1>1, <2>2, <2>3, WindowsStay DEF Good
  <2>5. Good(q)
    BY <1>1, <2>2, <2>3, <2>4, PixmapChanges
  <2> QED
    BY <2>2, <2>5 DEF Keeps, Dropped, q
<1> QED
  BY <1>6, <1>7

\* The hook of FBTurboMaliDRI2, without EXA.
LEMMA DestroyedByHook ==
  ASSUME NEW r \in Statuses, Good(r), ~r.server.useDumb, NEW p \in Pixmaps, r.pix[p].refcnt > 0,
         r.pix[p].refcnt = 1 => \A w \in Windows : r.win[w].pixmap # p
  PROVE  LET q == Destroyed(r, p)
         IN Keeps(r, q) /\ (Alive(q) => Dropped(r, q, p))
<1> DEFINE i == r.pix[p].info
           n == r.pix[p].refcnt
           t == HookDestroyPixmap(r, p)
           q == Destroyed(r, p)
<1>1. p \in AllPixmaps /\ p # Screen /\ q = DropReference(t, p)
  BY PixmapBoAssumption DEF AllPixmaps, Destroyed
<1>2. i \in Infos \cup {NoInfo} /\ n \in 1 .. MaxRefs
  BY <1>1, RecordsAre, PixmapBoAssumption DEF Good, PixmapsSet
<1>3. p \in Users /\ HeldBy(r)[p] = i
  BY <1>1, PixmapHolds
<1>4. CASE i = NoInfo
  <2>1. t = r
    BY <1>4 DEF HookDestroyPixmap
  <2> HIDE DEF t, q, i
  <2>2. /\ Goes(r, q) /\ q.server = r.server /\ q.info = r.info /\ q.bo = r.bo
        /\ OnePixmap(r, q, p) /\ SameWindows(r, q) /\ SameBuffers(r, q)
        /\ n = 1 => q.pix[p] = NoPixmap
        /\ n # 1 => /\ q.pix[p].refcnt = n - 1
                    /\ q.pix[p].info = r.pix[p].info /\ q.pix[p].ptr = r.pix[p].ptr
    BY <1>1, <2>1, DropReferenceGoes
  <2>3. q.pix[p].info = NoInfo /\ q.pix[p].refcnt = n - 1
    BY <1>4, <2>2, PixmapRecsOK DEF i
  <2>4. q.pix[p].refcnt \in 0 .. MaxRefs /\ (q.pix[p].refcnt # 0 => q.pix[p].refcnt > 0 /\ n # 1)
    BY <1>2, <2>3, PixmapBoAssumption
  <2>5. WindowsSet(q)
    BY <1>1, <2>2, <2>3, <2>4, WindowsStay DEF Good
  <2>6. Good(q)
    BY <1>1, <1>4, <2>2, <2>3, <2>4, <2>5, PixmapChanges DEF i
  <2> QED
    BY <2>2, <2>3, <2>6 DEF Keeps, Dropped, q
<1>5. CASE i # NoInfo
  <2> DEFINE v == Unref(r, i)
             rec == [v.pix[p] EXCEPT !.info = NoInfo, !.ptr = "own"]
  <2>1. t = [v EXCEPT !.pix[p] = rec]
    BY <1>5 DEF HookDestroyPixmap
  <2>2. i \in Infos
    BY <1>2, <1>5
  <2> HIDE DEF i
  <2>3. /\ Goes(r, v)
        /\ Alive(v) => /\ Unrefs(r, v, i) /\ v.server = r.server
                       /\ SamePixmaps(r, v) /\ SameWindows(r, v) /\ SameBuffers(r, v)
    BY <1>3, <2>2, UnrefByUser, RecordsAre
  <2>4. v \in Statuses
    BY <2>3 DEF Goes
  <2> HIDE DEF v
  <2>5. /\ rec \in PixmapRecs /\ rec.info = NoInfo /\ rec.ptr = "own"
        /\ rec.refcnt = v.pix[p].refcnt
    <3>1. v.pix[p] \in PixmapRecs
      BY <1>1, <2>4 DEF Statuses
    <3>2. "own" \in {"null", "own", "bo"} /\ NoInfo \in Records \cup {NoInfo}
      OBVIOUS
    <3> DEFINE at == "own"
    <3>3. at \in {"null", "own", "bo"}
      OBVIOUS
    <3>4. rec = PixelsIn(v.pix[p], NoInfo, at)
      BY DEF PixelsIn
    <3> HIDE DEF at, rec
    <3>5. rec \in PixmapRecs /\ rec.info = NoInfo /\ rec.ptr = at /\ rec.refcnt = v.pix[p].refcnt
      BY <3>1, <3>2, <3>3, <3>4, PixelsInOK
    <3> QED
      BY <3>5 DEF at
  <2> HIDE DEF t, q, rec
  <2>6. /\ Goes(v, t) /\ t.server = v.server /\ t.info = v.info /\ t.bo = v.bo
        /\ t.pix[p] = rec /\ OnePixmap(v, t, p) /\ SameWindows(v, t) /\ SameBuffers(v, t)
    BY <1>1, <2>1, <2>4, <2>5, SetPixmap
  <2>7. t \in Statuses
    BY <2>6 DEF Goes
  <2>8. /\ Goes(t, q) /\ q.server = t.server /\ q.info = t.info /\ q.bo = t.bo
        /\ OnePixmap(t, q, p) /\ SameWindows(t, q) /\ SameBuffers(t, q)
        /\ t.pix[p].refcnt = 1 => q.pix[p] = NoPixmap
        /\ t.pix[p].refcnt # 1 => /\ q.pix[p].refcnt = t.pix[p].refcnt - 1
                                  /\ q.pix[p].info = t.pix[p].info
                                  /\ q.pix[p].ptr = t.pix[p].ptr
    BY <1>1, <2>7, DropReferenceGoes
  <2>9. Goes(r, q)
    BY <2>3, <2>4, <2>6, <2>7, <2>8, GoesTwice
  <2>10. ASSUME Alive(q)
         PROVE  Good(q) /\ q.server = r.server /\ Dropped(r, q, p)
    <3>1. /\ Unrefs(r, v, i) /\ v.server = r.server
          /\ SamePixmaps(r, v) /\ SameWindows(r, v) /\ SameBuffers(r, v)
      BY <2>3, <2>4, <2>6, <2>7, <2>8, <2>10, AliveBefore
    <3>2. t.pix[p].refcnt = n /\ t.pix[p].info = NoInfo /\ t.pix[p].ptr = "own"
      BY <1>1, <2>5, <2>6, <3>1 DEF SamePixmaps
    <3>3. q.pix[p].info = NoInfo /\ q.pix[p].refcnt = n - 1 /\ (n # 1 => q.pix[p].ptr = "own")
      BY <2>8, <3>2, PixmapRecsOK
    <3>4. /\ q.pix[p].refcnt \in 0 .. MaxRefs
          /\ n # 1 => q.pix[p].refcnt > 0
          /\ q.pix[p].refcnt > 0 => n # 1
      BY <1>2, <3>3, PixmapBoAssumption
    <3>5. Unrefs(r, q, i)
      BY <2>6, <2>8, <3>1 DEF Unrefs, OnlyOne
    <3>6. OnePixmap(r, q, p) /\ SameWindows(r, q) /\ SameBuffers(r, q)
      BY <2>6, <2>8, <3>1 DEF OnePixmap, SamePixmaps, SameWindows, SameBuffers
    <3>7. WindowsSet(q)
      BY <1>1, <3>4, <3>6, WindowsStay DEF Good
    <3>8. \A w \in Windows : q.win[w].mem = r.win[w].mem
      BY <3>6 DEF SameWindows
    <3>9. q.server = r.server /\ r.pix[p].info = i
      BY <2>6, <2>8, <3>1 DEF i
    <3>10. q.pix[p].refcnt > 0 => ~q.server.useDumb /\ q.pix[p].ptr = "own"
      BY <3>3, <3>4, <3>9
    <3>11. Good(q)
      BY <2>2, <3>3, <3>4, <3>5, <3>6, <3>7, <3>8, <3>9, <3>10, PixmapQuits
    <3> QED
      BY <3>3, <3>6, <3>9, <3>11 DEF Dropped
  <2> QED
    BY <2>9, <2>10 DEF Keeps, q
<1> QED
  BY <1>4, <1>5

LEMMA DestroyedGoes ==
  ASSUME NEW r \in Statuses, Good(r), NEW p \in Pixmaps, r.pix[p].refcnt > 0,
         r.pix[p].refcnt = 1 => \A w \in Windows : r.win[w].pixmap # p
  PROVE  LET q == Destroyed(r, p)
         IN Keeps(r, q) /\ (Alive(q) => Dropped(r, q, p))
<1>1. CASE r.server.useDumb
  BY <1>1, DestroyedByExa
<1>2. CASE ~r.server.useDumb
  BY <1>2, DestroyedByHook
<1> QED
  BY <1>1, <1>2

\* Record i has a new BO, and is counted once, for nobody yet.
Fresh(r, t, i) ==
  /\ t.server = r.server /\ SamePixmaps(r, t) /\ SameWindows(r, t) /\ SameBuffers(r, t)
  /\ OnlyOne(r, t, i)
  /\ t.info[i].refcount = 1 /\ t.info[i].handle = i
  /\ t.bo[i].refcnt = 1 /\ t.bo[i].ext = 0 /\ ~t.bo[i].dmabuf

LEMMA PutIsFresh ==
  ASSUME NEW r \in Statuses, NEW i \in Infos, NEW usage, NEW t,
         \E a, x \in BOOLEAN : t = Put(r, i, Holding(i, a), Mem(Accel(r, usage), x))
  PROVE  Fresh(r, t, i) /\ t.bo[i].accel = Accel(r, usage)
<1> DEFINE acc == Accel(r, usage)
<1>1. acc \in BOOLEAN /\ i \in Records
  BY RecordsAre DEF Accel, Statuses, IsAccel
<1>2. PICK a \in BOOLEAN, x \in BOOLEAN : t = Put(r, i, Holding(i, a), Mem(acc, x))
  OBVIOUS
<1> HIDE DEF acc
<1> DEFINE rec == Holding(i, a)
           m == Mem(acc, x)
<1>3. /\ rec \in InfoRecs /\ rec.refcount = 1 /\ rec.handle = i
      /\ m \in BoRecs /\ m.refcnt = 1 /\ m.ext = 0 /\ ~m.dmabuf /\ m.accel = acc
  <2>1. rec \in InfoRecs
    BY <1>1, InfoRecsOK
  <2>2. rec.refcount = 1 /\ rec.handle = i
    BY DEF Holding
  <2>3. m \in BoRecs /\ m.refcnt = 1 /\ m.ext = 0 /\ m.dmabuf = FALSE /\ m.accel = acc
    BY <1>1, MemOK
  <2> QED
    BY <2>1, <2>2, <2>3
<1>4. t = Put(r, i, rec, m)
  BY <1>2
<1> HIDE DEF rec, m
<1>5. /\ t.server = r.server /\ SamePixmaps(r, t) /\ SameWindows(r, t) /\ SameBuffers(r, t)
      /\ OnlyOne(r, t, i) /\ t.info[i] = rec /\ t.bo[i] = m
  BY <1>1, <1>3, <1>4, PutUsers
<1> QED
  BY <1>3, <1>5 DEF Fresh, acc

LEMMA ExaCreated ==
  ASSUME NEW r \in Statuses, NEW i \in Infos, NEW usage, NEW outcome
  PROVE  LET t == ExaCreatePixmap(r, i, usage, outcome)
         IN Goes(r, t) /\ (Alive(t) => Fresh(r, t, i) /\ t.bo[i].accel = Accel(r, usage))
<1>1. i \in Records
  BY RecordsAre
<1> QED
  BY <1>1, ExaCreatePixmapGoes, PutIsFresh

LEMMA Created ==
  ASSUME NEW r \in Statuses, NEW i \in Infos, NEW usage, NEW outcome
  PROVE  LET t == CreatePixmap2(r, i, usage, FALSE, outcome)
         IN Goes(r, t) /\ (Alive(t) => Fresh(r, t, i))
<1>1. i \in Records
  BY RecordsAre
<1>2. LET t == CreatePixmap2(r, i, usage, FALSE, outcome)
      IN /\ Goes(r, t)
         /\ Alive(t) => \E a, x \in BOOLEAN : t = Put(r, i, Holding(i, a), Mem(Accel(r, usage), x))
  BY <1>1, CreatePixmap2Goes
<1> QED
  BY <1>2, PutIsFresh

-----------------------------------------------------------------------------
(***************************************************************************)
(* The objects of SharedBo.                                                *)
(***************************************************************************)
ObjectFor(k) == IF k \in Infos THEN k ELSE IF k = Screen THEN Scanout ELSE Invalid

Obj(r, u) == ObjectFor(HeldBy(r)[u])

\* A new object for u and v, which may be the same user.
Took(r, q, u, v, i) ==
  /\ r.bo[i].refcnt = 0 /\ Obj(q, u) = i /\ Obj(q, v) = i
  /\ \A t \in Users \ {u, v} : Obj(q, t) = Obj(r, t)

\* User v has the object of u too.
Joined(r, q, u, v) ==
  /\ Obj(r, u) # Invalid /\ Obj(r, v) = Invalid /\ Obj(q, v) = Obj(r, u)
  /\ \A t \in Users \ {v} : Obj(q, t) = Obj(r, t)

Left(r, q, u) ==
  /\ Obj(q, u) = Invalid
  /\ \A t \in Users \ {u} : Obj(q, t) = Obj(r, t)

\* The users' objects in q are those in r, but for a step of SharedBo.
Shape(r, q) ==
  \/ \A t \in Users : Obj(q, t) = Obj(r, t)
  \/ \E u, v \in Users, i \in Infos : Took(r, q, u, v, i)
  \/ \E u, v \in Users : Joined(r, q, u, v)
  \/ \E u \in Users : Left(r, q, u)

\* A step of the running server.
Runs(r, q) ==
  \/ q.server = [r.server EXCEPT !.phase = "dead"]
  \/ q.server = r.server /\ q \in Statuses /\ Good(q) /\ Shape(r, q)

LEMMA ObjectsAre ==
  /\ \A i \in Infos : ObjectFor(i) = i /\ i # Invalid
  /\ ObjectFor(NoInfo) = Invalid /\ ObjectFor(NullBuffer) = Invalid /\ ObjectFor(Scratch) = Invalid
  /\ ObjectFor(Screen) = Scanout /\ Scanout # Invalid
BY RecordsAre DEF ObjectFor

LEMMA MovedObject ==
  ASSUME NEW r, NEW q, NEW u \in Users, NEW k, Moved(r, q, u, k)
  PROVE  Obj(q, u) = ObjectFor(k) /\ \A t \in Users \ {u} : Obj(q, t) = Obj(r, t)
BY DEF Moved, Obj

LEMMA LeaveShape ==
  ASSUME NEW r, NEW q, NEW u \in Users, NEW k, Moved(r, q, u, k), ObjectFor(k) = Invalid
  PROVE  Shape(r, q)
<1>1. Left(r, q, u)
  BY MovedObject DEF Left
<1> QED
  BY <1>1 DEF Shape

LEMMA TakeShape ==
  ASSUME NEW r, NEW q, NEW u \in Users, NEW i \in Infos, Moved(r, q, u, i), r.bo[i].refcnt = 0
  PROVE  Shape(r, q)
<1>1. Took(r, q, u, u, i)
  BY MovedObject, ObjectsAre DEF Took
<1> QED
  BY <1>1 DEF Shape

LEMMA SameShape ==
  ASSUME NEW r, NEW q, \A u \in Users : HeldBy(q)[u] = HeldBy(r)[u]
  PROVE  Shape(r, q)
<1>1. \A u \in Users : Obj(q, u) = Obj(r, u)
  BY DEF Obj
<1> QED
  BY <1>1 DEF Shape

LEMMA JoinShape ==
  ASSUME NEW r, NEW q, NEW u \in Users, NEW v \in Users, NEW k \in Infos \cup {Screen},
         HeldBy(r)[u] = k, HeldBy(r)[v] \in {NoInfo, NullBuffer}, Moved(r, q, v, k)
  PROVE  Shape(r, q)
<1>1. Obj(r, u) = ObjectFor(k) /\ ObjectFor(k) # Invalid /\ Obj(r, v) = Invalid
  BY ObjectsAre DEF Obj
<1>2. Obj(q, v) = ObjectFor(k) /\ \A t \in Users \ {v} : Obj(q, t) = Obj(r, t)
  BY MovedObject
<1>3. Joined(r, q, u, v)
  BY <1>1, <1>2 DEF Joined
<1> QED
  BY <1>3 DEF Shape

LEMMA FreeHasNoBo ==
  ASSUME NEW r, Good(r), NEW i \in Infos, r.info[i].refcount = 0
  PROVE  r.bo[i].refcnt = 0
<1>1. r.bo[i] = NoBO
  BY DEF Good, Backed
<1> QED
  BY <1>1 DEF NoBO

LEMMA Deadly ==
  ASSUME NEW r \in Statuses, NEW q, Goes(r, q), ~Alive(q)
  PROVE  Runs(r, q)
<1>1. q.server.phase = "dead"
  BY DEF Alive
<1>2. r.server \in [phase : Phases, useDumb : BOOLEAN]
  BY DEF Statuses
<1>3. q.server = [r.server EXCEPT !.phase = "dead"]
  BY <1>1, <1>2 DEF Goes
<1> QED
  BY <1>3 DEF Runs

LEMMA Lively ==
  ASSUME NEW r \in Statuses, NEW q, Goes(r, q), Alive(q) => Good(q) /\ Shape(r, q)
  PROVE  Runs(r, q)
<1>1. Alive(q) => q.server = r.server /\ q \in Statuses
  BY AliveBefore DEF Goes
<1> QED
  BY <1>1, Deadly DEF Runs

-----------------------------------------------------------------------------
(***************************************************************************)
(* The actions of the running server, on its status.                       *)
(***************************************************************************)

\* A pixmap as it is made.
NewPixmap(k, at) == [refcnt |-> 1, info |-> k, ptr |-> at]

LEMMA NewPixmapOK ==
  ASSUME NEW k \in Records \cup {NoInfo}, NEW at \in {"null", "own", "bo"}
  PROVE  /\ NewPixmap(k, at) \in PixmapRecs /\ NewPixmap(k, at).refcnt = 1
         /\ NewPixmap(k, at).info = k /\ NewPixmap(k, at).ptr = at
BY DEF NewPixmap, PixmapRecs

LEMMA NewPixmapsAre ==
  ASSUME NEW k
  PROVE  /\ [NoPixmap EXCEPT !.refcnt = 1, !.info = k] = NewPixmap(k, "null")
         /\ [NoPixmap EXCEPT !.refcnt = 1, !.ptr = "own"] = NewPixmap(NoInfo, "own")
<1> DEFINE fields == {"refcnt", "info", "ptr"}
           a == [NoPixmap EXCEPT !.refcnt = 1, !.info = k]
           b == NewPixmap(k, "null")
           c == [NoPixmap EXCEPT !.refcnt = 1, !.ptr = "own"]
           d == NewPixmap(NoInfo, "own")
<1>1. a = [x \in fields |-> a[x]] /\ c = [x \in fields |-> c[x]]
  BY DEF NoPixmap
<1>2. b = [x \in fields |-> b[x]] /\ d = [x \in fields |-> d[x]]
  BY DEF NewPixmap
<1>3. /\ a["refcnt"] = 1 /\ a["info"] = k /\ a["ptr"] = "null"
      /\ c["refcnt"] = 1 /\ c["info"] = NoInfo /\ c["ptr"] = "own"
  BY DEF NoPixmap
<1>4. /\ b["refcnt"] = 1 /\ b["info"] = k /\ b["ptr"] = "null"
      /\ d["refcnt"] = 1 /\ d["info"] = NoInfo /\ d["ptr"] = "own"
  BY DEF NewPixmap
<1> HIDE DEF a, b, c, d
<1>5. \A x \in fields : a[x] = b[x] /\ c[x] = d[x]
  BY <1>3, <1>4
<1>6. a = b /\ c = d
  BY <1>1, <1>2, <1>5, Zenon
<1> QED
  BY <1>6 DEF a, b, c, d

\* A fresh record is given to a new pixmap, which a window may use.
LEMMA FreshPixmap ==
  ASSUME NEW r \in Statuses, Good(r), r.server.useDumb,
         NEW p \in Pixmaps, r.pix[p].refcnt = 0, NEW i \in Infos, r.info[i].refcount = 0,
         NEW t, Fresh(r, t, i), NEW q, q.server = t.server, q.info = t.info, q.bo = t.bo,
         OnePixmap(t, q, p), q.pix[p] = NewPixmap(i, "null"), SameBuffers(t, q),
         \A w \in Windows : q.win[w].mem = t.win[w].mem, WindowsSet(q)
  PROVE  Good(q) /\ Shape(r, q)
<1>1. p \in AllPixmaps /\ p \in Users /\ i \in Records
  BY RecordsAre DEF AllPixmaps, Users
<1>2. q.pix[p].refcnt = 1 /\ q.pix[p].info = i /\ q.pix[p].ptr = "null"
  BY DEF NewPixmap
<1>3. /\ q.server = r.server /\ OnlyOne(r, q, i)
      /\ q.info[i].refcount = 1 /\ q.info[i].handle = i
      /\ q.bo[i].refcnt = 1 /\ q.bo[i].ext = 0 /\ ~q.bo[i].dmabuf
  BY DEF Fresh, OnlyOne
<1>4. OnePixmap(r, q, p) /\ SameBuffers(r, q) /\ \A w \in Windows : q.win[w].mem = r.win[w].mem
  BY DEF Fresh, OnePixmap, SamePixmaps, SameBuffers, SameWindows
<1>5. r.pix[p].info = NoInfo
  BY DEF Good, PixmapsSet
<1>6. 1 \in 1 .. MaxRefs
  BY PixmapBoAssumption
<1>7. Good(q)
  BY <1>2, <1>3, <1>4, <1>5, <1>6, PixmapTakes
<1>8. Moved(r, q, p, i)
  BY <1>1, <1>2, <1>4, PixmapMoved
<1> QED
  BY <1>1, <1>7, <1>8, TakeShape, FreeHasNoBo

LEMMA CreatePixmapRuns ==
  ASSUME NEW r \in Statuses, Good(r), NEW p \in Pixmaps, r.pix[p].refcnt = 0,
         NEW i \in Infos, r.info[i].refcount = 0, NEW usage, NEW outcome, r.server.useDumb
  PROVE  Runs(r, [ExaCreatePixmap(r, i, usage, outcome) EXCEPT
                    !.pix[p] = [NoPixmap EXCEPT !.refcnt = 1, !.info = i]])
<1> DEFINE t == ExaCreatePixmap(r, i, usage, outcome)
           rec == NewPixmap(i, "null")
           q == [t EXCEPT !.pix[p] = rec]
<1>1. p \in AllPixmaps /\ i \in Records
  BY RecordsAre DEF AllPixmaps
<1>2. Goes(r, t) /\ (Alive(t) => Fresh(r, t, i))
  BY ExaCreated
<1>3. t \in Statuses
  BY <1>2 DEF Goes
<1>4. rec \in PixmapRecs
  BY <1>1, NewPixmapOK
<1> HIDE DEF t, rec
<1>5. /\ Goes(t, q) /\ q.server = t.server /\ q.info = t.info /\ q.bo = t.bo
      /\ q.pix[p] = rec /\ OnePixmap(t, q, p) /\ SameWindows(t, q) /\ SameBuffers(t, q)
  BY <1>1, <1>3, <1>4, SetPixmap
<1> HIDE DEF q
<1>6. Goes(r, q)
  BY <1>2, <1>3, <1>5, GoesTwice
<1>7. ASSUME Alive(q)
      PROVE  Good(q) /\ Shape(r, q)
  <2>1. Fresh(r, t, i)
    BY <1>2, <1>3, <1>5, <1>7, AliveBefore
  <2>2. \A w \in Windows : q.win[w].mem = t.win[w].mem
    BY <1>5 DEF SameWindows
  <2>3. WindowsSet(q)
    <3>1. OnePixmap(r, q, p) /\ SameWindows(r, q)
      BY <1>5, <2>1 DEF Fresh, OnePixmap, SamePixmaps, SameWindows
    <3>2. q.pix[p].refcnt = 1
      BY <1>5 DEF rec, NewPixmap
    <3> QED
      BY <1>1, <3>1, <3>2, WindowsStay DEF Good
  <2> QED
    BY <1>5, <2>1, <2>2, <2>3, FreshPixmap DEF rec
<1>8. Runs(r, q)
  BY <1>6, <1>7, Lively
<1> QED
  BY <1>8, NewPixmapsAre DEF q, t, rec

LEMMA RedirectWindowRuns ==
  ASSUME NEW r \in Statuses, Good(r), NEW p \in Pixmaps, r.pix[p].refcnt = 0,
         NEW i \in Infos, r.info[i].refcount = 0, NEW usage, NEW outcome, r.server.useDumb,
         NEW w \in Windows, r.win[w].pixmap = Screen
  PROVE  Runs(r, [ExaCreatePixmap(r, i, usage, outcome) EXCEPT
                    !.win[w].pixmap = p, !.pix[p] = [NoPixmap EXCEPT !.refcnt = 1, !.info = i]])
<1> DEFINE t == ExaCreatePixmap(r, i, usage, outcome)
           rec == NewPixmap(i, "null")
           s == [t EXCEPT !.win[w].pixmap = p]
           q == [s EXCEPT !.pix[p] = rec]
<1>1. p \in AllPixmaps /\ i \in Records
  BY RecordsAre DEF AllPixmaps
<1>2. Goes(r, t) /\ (Alive(t) => Fresh(r, t, i))
  BY ExaCreated
<1>3. t \in Statuses
  BY <1>2 DEF Goes
<1>4. rec \in PixmapRecs
  BY <1>1, NewPixmapOK
<1> HIDE DEF t, rec
<1>5. /\ Goes(t, s) /\ s.server = t.server /\ s.info = t.info /\ s.bo = t.bo
      /\ s.win[w].pixmap = p /\ s.win[w].mem = t.win[w].mem /\ OneWindow(t, s, w)
      /\ SamePixmaps(t, s) /\ SameBuffers(t, s)
  BY <1>1, <1>3, SetPixmapOfWindow
<1> HIDE DEF s
<1>6. s \in Statuses
  BY <1>5 DEF Goes
<1>7. /\ Goes(s, q) /\ q.server = s.server /\ q.info = s.info /\ q.bo = s.bo
      /\ q.pix[p] = rec /\ OnePixmap(s, q, p) /\ SameWindows(s, q) /\ SameBuffers(s, q)
  BY <1>1, <1>4, <1>6, SetPixmap
<1> HIDE DEF q
<1>8. Goes(r, q)
  BY <1>2, <1>3, <1>5, <1>6, <1>7, GoesTwice
<1>9. ASSUME Alive(q)
      PROVE  Good(q) /\ Shape(r, q)
  <2>1. Fresh(r, t, i)
    BY <1>2, <1>3, <1>5, <1>6, <1>7, <1>9, AliveBefore
  <2>2. OnePixmap(t, q, p) /\ SameBuffers(t, q)
    BY <1>5, <1>7 DEF OnePixmap, SamePixmaps, SameBuffers
  <2>3. \A v \in Windows : q.win[v].mem = t.win[v].mem
    BY <1>5, <1>7 DEF SameWindows, OneWindow
  <2>4. WindowsSet(q)
    <3>1. OnePixmap(r, q, p)
      BY <2>1, <2>2 DEF Fresh, OnePixmap, SamePixmaps
    <3>2. q.win[w].pixmap = p /\ \A v \in Windows \ {w} : q.win[v] = r.win[v]
      BY <1>5, <1>7, <2>1 DEF Fresh, OneWindow, SameWindows
    <3>3. q.pix[p].refcnt = 1
      BY <1>7 DEF rec, NewPixmap
    <3>4. \A o \in Pixmaps : o \in AllPixmaps
      BY DEF AllPixmaps
    <3>5. \A v \in Windows : r.win[v].pixmap # p
      <4>1. p # Screen
        BY PixmapBoAssumption
      <4> QED
        BY <4>1 DEF Good, WindowsSet
    <3>6. WindowsSet(r)
      BY DEF Good
    <3>7. ASSUME NEW v \in Windows, q.win[v].pixmap # Screen
          PROVE  /\ q.win[v].pixmap \in Pixmaps
                 /\ q.pix[q.win[v].pixmap].refcnt > 0
                 /\ \A u \in Windows : q.win[u].pixmap = q.win[v].pixmap => u = v
      <4>1. CASE v = w
        BY <3>2, <3>3, <3>5, <4>1
      <4>2. CASE v # w
        <5>1. q.win[v].pixmap = r.win[v].pixmap /\ r.win[v].pixmap # p
          BY <3>2, <3>5, <4>2
        <5>2. /\ r.win[v].pixmap \in Pixmaps /\ r.pix[r.win[v].pixmap].refcnt > 0
              /\ \A u \in Windows : r.win[u].pixmap = r.win[v].pixmap => u = v
          BY <3>6, <3>7, <5>1 DEF WindowsSet
        <5>3. q.pix[r.win[v].pixmap] = r.pix[r.win[v].pixmap]
          BY <3>1, <3>4, <5>1, <5>2 DEF OnePixmap
        <5> QED
          BY <3>2, <5>1, <5>2, <5>3
      <4> QED
        BY <4>1, <4>2
    <3> QED
      BY <3>7 DEF WindowsSet
  <2>5. q.server = t.server /\ q.info = t.info /\ q.bo = t.bo
    BY <1>5, <1>7
  <2> QED
    BY <1>7, <2>1, <2>2, <2>3, <2>4, <2>5, FreshPixmap DEF rec
<1>10. Runs(r, q)
  BY <1>8, <1>9, Lively
<1>11. q = [t EXCEPT !.win[w].pixmap = p, !.pix[p] = rec]
  BY DEF q, s
<1>12. q = [t EXCEPT !.win[w].pixmap = p, !.pix[p] = [NoPixmap EXCEPT !.refcnt = 1, !.info = i]]
  BY <1>11, NewPixmapsAre DEF rec
<1> QED
  BY <1>10, <1>12 DEF t

\* Only the fields of a pixmap that is in use, or starts to be, change.
LEMMA PixmapSet ==
  ASSUME NEW r \in Statuses, Good(r), NEW p \in Pixmaps \cup {Screen}, NEW rec \in PixmapRecs,
         rec.info = r.pix[p].info, rec.refcnt \in 1 .. MaxRefs,
         \/ r.pix[p].refcnt > 0 /\ rec.ptr = r.pix[p].ptr
         \/ ~r.server.useDumb /\ r.pix[p].info = NoInfo /\ rec.ptr = "own"
  PROVE  LET q == [r EXCEPT !.pix[p] = rec]
         IN Goes(r, q) /\ q.server = r.server /\ Good(q) /\ \A u \in Users : HeldBy(q)[u] = HeldBy(r)[u]
<1> DEFINE q == [r EXCEPT !.pix[p] = rec]
<1>1. p \in AllPixmaps
  BY DEF AllPixmaps
<1>2. /\ Goes(r, q) /\ q.server = r.server /\ q.info = r.info /\ q.bo = r.bo
      /\ q.pix[p] = rec /\ OnePixmap(r, q, p) /\ SameWindows(r, q) /\ SameBuffers(r, q)
  BY <1>1, SetPixmap
<1> HIDE DEF q
<1>3. WindowsSet(q)
  BY <1>1, <1>2, WindowsStay DEF Good
<1>4. q.pix[p].refcnt \in 0 .. MaxRefs /\ q.pix[p].refcnt > 0 /\ q.pix[p].refcnt # 0
  BY <1>2, PixmapBoAssumption
<1>5. Good(q)
  BY <1>2, <1>3, <1>4, PixmapChanges
<1>6. \A o \in AllPixmaps : q.pix[o].info = r.pix[o].info
  BY <1>2 DEF OnePixmap
<1>7. \A w \in Windows : q.win[w].mem = r.win[w].mem
  BY <1>2 DEF SameWindows
<1>8. \A u \in Users : HeldBy(q)[u] = HeldBy(r)[u]
  BY <1>2, <1>6, <1>7, HeldStays
<1> QED
  BY <1>2, <1>5, <1>8 DEF q

LEMMA CreateOwnPixmapRuns ==
  ASSUME NEW r \in Statuses, Good(r), NEW p \in Pixmaps, r.pix[p].refcnt = 0, ~r.server.useDumb
  PROVE  Runs(r, [r EXCEPT !.pix[p] = [NoPixmap EXCEPT !.refcnt = 1, !.ptr = "own"]])
<1> DEFINE rec == [NoPixmap EXCEPT !.refcnt = 1, !.ptr = "own"]
           q == [r EXCEPT !.pix[p] = rec]
<1>1. rec = NewPixmap(NoInfo, "own")
  BY NewPixmapsAre
<1> HIDE DEF rec
<1>2. rec \in PixmapRecs /\ rec.refcnt = 1 /\ rec.info = NoInfo /\ rec.ptr = "own"
  BY <1>1, NewPixmapOK
<1>3. r.pix[p].info = NoInfo /\ 1 \in 1 .. MaxRefs
  BY PixmapBoAssumption DEF Good, PixmapsSet
<1>4. Goes(r, q) /\ q.server = r.server /\ Good(q) /\ \A u \in Users : HeldBy(q)[u] = HeldBy(r)[u]
  BY <1>2, <1>3, PixmapSet
<1> HIDE DEF q
<1>5. Runs(r, q)
  BY <1>4, SameShape, Lively
<1> QED
  BY <1>5 DEF q, rec

LEMMA UsePixmapRuns ==
  ASSUME NEW r \in Statuses, Good(r), NEW p \in Pixmaps, r.pix[p].refcnt \in 1 .. MaxRefs - 1
  PROVE  Runs(r, [r EXCEPT !.pix[p].refcnt = @ + 1])
<1> DEFINE rec == [r.pix[p] EXCEPT !.refcnt = @ + 1]
           q == [r EXCEPT !.pix[p] = rec]
<1>1. p \in AllPixmaps
  BY DEF AllPixmaps
<1>2. r.pix[p] \in PixmapRecs /\ r.pix[p].refcnt + 1 \in Int
  BY <1>1 DEF Statuses, PixmapRecs
<1>3. /\ rec \in PixmapRecs /\ rec.info = r.pix[p].info
      /\ rec.ptr = r.pix[p].ptr /\ rec.refcnt = r.pix[p].refcnt + 1
  BY <1>2, PixmapRecsOK
<1>4. q = [r EXCEPT !.pix[p].refcnt = @ + 1]
  OBVIOUS
<1> HIDE DEF rec
<1>5. rec.refcnt \in 1 .. MaxRefs /\ r.pix[p].refcnt > 0
  BY <1>3, PixmapBoAssumption
<1>6. Goes(r, q) /\ q.server = r.server /\ Good(q) /\ \A u \in Users : HeldBy(q)[u] = HeldBy(r)[u]
  BY <1>3, <1>5, PixmapSet
<1> HIDE DEF q
<1>7. Runs(r, q)
  BY <1>6, SameShape, Lively
<1> QED
  BY <1>4, <1>7

LEMMA DestroyedRuns ==
  ASSUME NEW r \in Statuses, Good(r), NEW p \in Pixmaps, r.pix[p].refcnt > 0,
         r.pix[p].refcnt = 1 => \A w \in Windows : r.win[w].pixmap # p
  PROVE  Runs(r, Destroyed(r, p))
<1> DEFINE q == Destroyed(r, p)
<1>1. Keeps(r, q) /\ (Alive(q) => Dropped(r, q, p))
  BY DestroyedGoes
<1> HIDE DEF q
<1>2. p \in AllPixmaps
  BY DEF AllPixmaps
<1>3. ASSUME Alive(q)
      PROVE  Shape(r, q)
  <2>1. /\ OnePixmap(r, q, p) /\ SameWindows(r, q) /\ SameBuffers(r, q)
        /\ q.pix[p].info \in {NoInfo, r.pix[p].info}
    BY <1>1, <1>3 DEF Dropped
  <2>2. \A w \in Windows : q.win[w].mem = r.win[w].mem
    BY <2>1 DEF SameWindows
  <2>3. CASE q.pix[p].info = NoInfo
    <3>1. Moved(r, q, p, NoInfo)
      BY <1>2, <2>1, <2>2, <2>3, PixmapMoved
    <3> QED
      BY <1>2, <3>1, LeaveShape, ObjectsAre, PixmapHolds
  <2>4. CASE q.pix[p].info = r.pix[p].info
    <3>1. \A o \in AllPixmaps : q.pix[o].info = r.pix[o].info
      BY <2>1, <2>4 DEF OnePixmap
    <3> QED
      BY <2>1, <2>2, <3>1, HeldStays, SameShape
  <2> QED
    BY <2>1, <2>3, <2>4
<1>4. Goes(r, q) /\ (Alive(q) => Good(q) /\ Shape(r, q))
  BY <1>1, <1>3 DEF Keeps
<1>5. Runs(r, q)
  BY <1>4, Lively
<1> QED
  BY <1>5 DEF q

\* A step before or after which no user has another object does not count.
LEMMA ShapeFrom ==
  ASSUME NEW r, NEW t, NEW q, \A u \in Users : Obj(t, u) = Obj(r, u),
         \A i \in Infos : t.bo[i].refcnt = r.bo[i].refcnt, Shape(t, q)
  PROVE  Shape(r, q)
<1>1. CASE \A u \in Users : Obj(q, u) = Obj(t, u)
  BY <1>1 DEF Shape
<1>2. ASSUME NEW u \in Users, NEW v \in Users, NEW i \in Infos, Took(t, q, u, v, i)
      PROVE  Shape(r, q)
  <2>1. Took(r, q, u, v, i)
    BY <1>2 DEF Took
  <2> QED
    BY <2>1 DEF Shape
<1>3. ASSUME NEW u \in Users, NEW v \in Users, Joined(t, q, u, v)
      PROVE  Shape(r, q)
  <2>1. Joined(r, q, u, v)
    BY <1>3 DEF Joined
  <2> QED
    BY <2>1 DEF Shape
<1>4. ASSUME NEW u \in Users, Left(t, q, u)
      PROVE  Shape(r, q)
  <2>1. Left(r, q, u)
    BY <1>4 DEF Left
  <2> QED
    BY <2>1 DEF Shape
<1> QED
  BY <1>1, <1>2, <1>3, <1>4 DEF Shape

LEMMA ShapeTo ==
  ASSUME NEW r, NEW t, NEW q, Shape(r, t), \A u \in Users : Obj(q, u) = Obj(t, u)
  PROVE  Shape(r, q)
<1>1. CASE \A u \in Users : Obj(t, u) = Obj(r, u)
  BY <1>1 DEF Shape
<1>2. ASSUME NEW u \in Users, NEW v \in Users, NEW i \in Infos, Took(r, t, u, v, i)
      PROVE  Shape(r, q)
  <2>1. Took(r, q, u, v, i)
    BY <1>2 DEF Took
  <2> QED
    BY <2>1 DEF Shape
<1>3. ASSUME NEW u \in Users, NEW v \in Users, Joined(r, t, u, v)
      PROVE  Shape(r, q)
  <2>1. Joined(r, q, u, v)
    BY <1>3 DEF Joined
  <2> QED
    BY <2>1 DEF Shape
<1>4. ASSUME NEW u \in Users, Left(r, t, u)
      PROVE  Shape(r, q)
  <2>1. Left(r, q, u)
    BY <1>4 DEF Left
  <2> QED
    BY <2>1 DEF Shape
<1> QED
  BY <1>1, <1>2, <1>3, <1>4 DEF Shape

\* A window gives its pixmap back before the pixmap loses the reference.
LEMMA BackToScreen ==
  ASSUME NEW r \in Statuses, Good(r), NEW w \in Windows
  PROVE  LET q == [r EXCEPT !.win[w].pixmap = Screen]
         IN /\ Goes(r, q) /\ q.server = r.server /\ Good(q) /\ q.bo = r.bo
            /\ \A u \in Users : HeldBy(q)[u] = HeldBy(r)[u]
            /\ SamePixmaps(r, q) /\ OneWindow(r, q, w) /\ q.win[w].pixmap = Screen
<1> DEFINE q == [r EXCEPT !.win[w].pixmap = Screen]
<1>1. Screen \in AllPixmaps
  BY DEF AllPixmaps
<1>2. /\ Goes(r, q) /\ q.server = r.server /\ q.info = r.info /\ q.bo = r.bo
      /\ q.win[w].pixmap = Screen /\ q.win[w].mem = r.win[w].mem /\ OneWindow(r, q, w)
      /\ SamePixmaps(r, q) /\ SameBuffers(r, q)
  BY <1>1, SetPixmapOfWindow
<1> HIDE DEF q
<1>3. \A v \in Windows : q.win[v].mem = r.win[v].mem
  BY <1>2 DEF OneWindow
<1>4. \A u \in Users : HeldBy(q)[u] = HeldBy(r)[u]
  BY <1>2, <1>3, HeldStays DEF SamePixmaps
<1>5. Counted(q) /\ Backed(q)
  BY <1>2, <1>4, TouchCounts DEF Good
<1>6. /\ Screen \in AllPixmaps /\ Scratch \in AllPixmaps
      /\ \A p \in Pixmaps : p \in AllPixmaps
  BY DEF AllPixmaps
<1>7. ScreenSet(q) /\ ScratchSet(q)
  BY <1>2, <1>6 DEF Good, ScreenSet, ScratchSet, SamePixmaps
<1>8. PixmapsSet(q)
  BY <1>2, <1>6 DEF Good, PixmapsSet, SamePixmaps
<1>9. BuffersSet(q)
  BY <1>2, <1>3 DEF Good, BuffersSet, SameBuffers
<1>10. WindowsSet(q)
  BY <1>2, <1>6 DEF Good, WindowsSet, SamePixmaps, OneWindow
<1>11. HardwareSet(q)
  BY <1>2, <1>3, <1>6 DEF Good, HardwareSet, SamePixmaps
<1> QED
  BY <1>2, <1>4, <1>5, <1>7, <1>8, <1>9, <1>10, <1>11 DEF Good, q

LEMMA UnredirectWindowRuns ==
  ASSUME NEW r \in Statuses, Good(r), NEW w \in Windows, r.win[w].pixmap # Screen
  PROVE  Runs(r, Destroyed([r EXCEPT !.win[w].pixmap = Screen], r.win[w].pixmap))
<1> DEFINE p == r.win[w].pixmap
           t == [r EXCEPT !.win[w].pixmap = Screen]
           q == Destroyed(t, p)
<1>1. /\ Goes(r, t) /\ t.server = r.server /\ Good(t) /\ t.bo = r.bo
      /\ \A u \in Users : HeldBy(t)[u] = HeldBy(r)[u]
      /\ SamePixmaps(r, t) /\ OneWindow(r, t, w) /\ t.win[w].pixmap = Screen
  BY BackToScreen
<1>2. /\ p \in Pixmaps /\ r.pix[p].refcnt > 0 /\ p \in AllPixmaps /\ p # Screen
      /\ \A v \in Windows : r.win[v].pixmap = p => v = w
  BY DEF Good, WindowsSet, AllPixmaps
<1> HIDE DEF p, t
<1>3. t \in Statuses /\ t.pix[p].refcnt > 0
  BY <1>1, <1>2 DEF Goes, SamePixmaps
<1>4. \A v \in Windows : t.win[v].pixmap # p
  BY <1>1, <1>2 DEF OneWindow
<1>5. Runs(t, q)
  BY <1>1, <1>2, <1>3, <1>4, DestroyedRuns
<1> HIDE DEF q
<1>6. \A u \in Users : Obj(t, u) = Obj(r, u)
  BY <1>1 DEF Obj
<1>7. Runs(r, q)
  BY <1>1, <1>5, <1>6, ShapeFrom DEF Runs
<1> QED
  BY <1>7 DEF q, t, p

LEMMA UnrefMemShape ==
  ASSUME NEW r \in Statuses, Good(r), NEW w \in Windows
  PROVE  LET q == UnrefMem(r, w) IN Goes(r, q) /\ (Alive(q) => Good(q) /\ Shape(r, q))
<1> DEFINE q == UnrefMem(r, w)
<1>1. /\ Keeps(r, q)
      /\ Alive(q) => /\ q.win[w].mem = NoInfo /\ q.win[w].pixmap = r.win[w].pixmap
                     /\ OneWindow(r, q, w) /\ SamePixmaps(r, q) /\ SameBuffers(r, q)
  BY UnrefMemGoes
<1> HIDE DEF q
<1>2. ASSUME Alive(q)
      PROVE  Shape(r, q)
  <2>1. Moved(r, q, w, q.win[w].mem)
    BY <1>1, <1>2, WindowMoved
  <2>2. Moved(r, q, w, NoInfo) /\ w \in Users
    BY <1>1, <1>2, <2>1 DEF Users
  <2> QED
    BY <2>2, LeaveShape, ObjectsAre
<1> QED
  BY <1>1, <1>2 DEF Keeps, q

LEMMA DestroyWindowRuns ==
  ASSUME NEW r \in Statuses, Good(r), NEW w \in Windows
  PROVE  Runs(r, UnrefMem(r, w))
BY UnrefMemShape, Lively

\* A DRI2 buffer becomes one without memory, or ends as one.
LEMMA NullBufferSet ==
  ASSUME NEW r \in Statuses, Good(r), NEW x \in Buffers, r.buf[x] \in {NoInfo, NullBuffer},
         NEW k \in {NoInfo, NullBuffer}
  PROVE  LET q == [r EXCEPT !.buf[x] = k]
         IN Goes(r, q) /\ q.server = r.server /\ Good(q) /\ \A u \in Users : Obj(q, u) = Obj(r, u)
<1> DEFINE q == [r EXCEPT !.buf[x] = k]
<1>1. /\ Goes(r, q) /\ q.server = r.server /\ q.info = r.info /\ q.bo = r.bo
      /\ q.buf[x] = k /\ OneBuffer(r, q, x)
      /\ SamePixmaps(r, q) /\ SameWindows(r, q)
  BY SetBuffer
<1> HIDE DEF q
<1>2. Moved(r, q, x, k) /\ HeldBy(r)[x] \in {NoInfo, NullBuffer} /\ x \in Users
  BY <1>1, BufferMoved, BufferHolds
<1>3. HeldBy(q)[x] = k /\ \A u \in Users \ {x} : HeldBy(q)[u] = HeldBy(r)[u]
  BY <1>2 DEF Moved
<1>4. \A u \in Users : Obj(q, u) = Obj(r, u)
  <2>1. Obj(q, x) = Invalid /\ Obj(r, x) = Invalid
    BY <1>2, <1>3, ObjectsAre DEF Obj
  <2>2. \A u \in Users \ {x} : Obj(q, u) = Obj(r, u)
    BY <1>3 DEF Obj
  <2> QED
    BY <2>1, <2>2
<1>5. Counted(q)
  <2>1. ASSUME NEW i \in Records
        PROVE  Count(HeldBy(q), i) = Count(HeldBy(r), i)
    <3>1. \A u \in Users : HeldBy(q)[u] = i <=> HeldBy(r)[u] = i
      BY <1>2, <1>3, RecordsAre
    <3> QED
      BY <3>1, CountSame
  <2> QED
    BY <1>1, <2>1 DEF Good, Counted
<1>6. Backed(q)
  BY <1>1 DEF Good, Backed
<1>7. /\ Screen \in AllPixmaps /\ Scratch \in AllPixmaps
      /\ \A p \in Pixmaps : p \in AllPixmaps
  BY DEF AllPixmaps
<1>8. ScreenSet(q) /\ ScratchSet(q)
  BY <1>1, <1>7 DEF Good, ScreenSet, ScratchSet, SamePixmaps
<1>9. PixmapsSet(q)
  BY <1>1, <1>7 DEF Good, PixmapsSet, SamePixmaps
<1>10. BuffersSet(q)
  <2>1. /\ q.buf[x] \in Infos \cup {Screen, NoInfo, NullBuffer} /\ q.buf[x] # Screen
        /\ \A y \in Buffers \ {x} : q.buf[y] = r.buf[y]
    BY <1>1, RecordsAre DEF OneBuffer
  <2> QED
    BY <1>1, <2>1 DEF Good, BuffersSet, SameWindows
<1>11. WindowsSet(q)
  BY <1>1, <1>7 DEF Good, WindowsSet, SamePixmaps, SameWindows
<1>12. HardwareSet(q)
  BY <1>1, <1>7 DEF Good, HardwareSet, SamePixmaps, SameWindows
<1> QED
  BY <1>1, <1>4, <1>5, <1>6, <1>8, <1>9, <1>10, <1>11, <1>12 DEF Good, q

LEMMA CreateNullBufferRuns ==
  ASSUME NEW r \in Statuses, Good(r), NEW x \in Buffers, r.buf[x] = NoInfo, NEW w \in Windows
  PROVE  Runs(r, [UnrefMem(r, w) EXCEPT !.buf[x] = NullBuffer])
<1> DEFINE t == UnrefMem(r, w)
           q == [t EXCEPT !.buf[x] = NullBuffer]
<1>1. Goes(r, t) /\ (Alive(t) => Good(t) /\ Shape(r, t))
  BY UnrefMemShape
<1>2. Alive(t) => SameBuffers(r, t)
  BY UnrefMemGoes
<1> HIDE DEF t
<1>3. t \in Statuses
  BY <1>1 DEF Goes
<1>4. Goes(t, q) /\ q.server = t.server
  BY <1>3, SetBuffer
<1>5. Goes(r, q)
  BY <1>1, <1>3, <1>4, GoesTwice
<1>6. ASSUME Alive(q)
      PROVE  Good(q) /\ Shape(r, q)
  <2>1. Alive(t) /\ t.buf[x] \in {NoInfo, NullBuffer}
    BY <1>2, <1>4, <1>6 DEF Alive, SameBuffers
  <2>2. Good(q) /\ \A u \in Users : Obj(q, u) = Obj(t, u)
    BY <1>1, <1>3, <2>1, NullBufferSet
  <2> HIDE DEF q
  <2> QED
    BY <1>1, <2>1, <2>2, ShapeTo
<1> HIDE DEF q
<1>7. Runs(r, q)
  BY <1>5, <1>6, Lively
<1> QED
  BY <1>7 DEF q, t

LEMMA DestroyBufferRuns ==
  ASSUME NEW r \in Statuses, Good(r), NEW x \in Buffers, r.buf[x] # NoInfo
  PROVE  Runs(r, [IF r.buf[x] = NullBuffer THEN r ELSE Unref(r, r.buf[x]) EXCEPT !.buf[x] = NoInfo])
<1> DEFINE i == r.buf[x]
           t == IF i = NullBuffer THEN r ELSE Unref(r, i)
           q == [t EXCEPT !.buf[x] = NoInfo]
<1>1. CASE i = NullBuffer
  <2>1. t = r
    BY <1>1
  <2> HIDE DEF t
  <2>2. Goes(r, q) /\ q.server = r.server /\ Good(q) /\ \A u \in Users : Obj(q, u) = Obj(r, u)
    BY ZenonT(30), <1>1, <2>1, NullBufferSet
  <2> HIDE DEF q
  <2>3. Shape(r, q)
    BY <2>2 DEF Shape
  <2>4. Runs(r, q)
    BY <2>2, <2>3, Lively
  <2> QED
    BY <2>4 DEF q, t
<1>2. CASE i # NullBuffer
  <2>1. i \in Infos \cup {Screen} /\ HeldBy(r)[x] = i /\ x \in Users
    BY <1>2, BufferHolds DEF Good, BuffersSet
  <2>2. t = Unref(r, i)
    BY <1>2
  <2>3. r.buf[x] = i
    OBVIOUS
  <2> HIDE DEF i, t
  <2>4. /\ Goes(r, t)
        /\ Alive(t) => /\ Unrefs(r, t, i) /\ t.server = r.server
                       /\ SamePixmaps(r, t) /\ SameWindows(r, t) /\ SameBuffers(r, t)
    BY <2>1, <2>2, UnrefByUser
  <2>5. t \in Statuses
    BY <2>4 DEF Goes
  <2>6. /\ Goes(t, q) /\ q.server = t.server /\ q.info = t.info /\ q.bo = t.bo
        /\ q.buf[x] = NoInfo /\ OneBuffer(t, q, x)
        /\ SamePixmaps(t, q) /\ SameWindows(t, q)
    BY <2>5, SetBuffer
  <2> HIDE DEF q
  <2>7. Goes(r, q)
    BY <2>4, <2>5, <2>6, GoesTwice
  <2>8. ASSUME Alive(q)
        PROVE  Good(q) /\ Shape(r, q)
    <3>1. /\ Unrefs(r, t, i) /\ t.server = r.server
          /\ SamePixmaps(r, t) /\ SameWindows(r, t) /\ SameBuffers(r, t)
      BY <2>4, <2>5, <2>6, <2>8, AliveBefore
    <3>2. Unrefs(r, q, i)
      BY <2>6, <3>1 DEF Unrefs, OnlyOne
    <3>3. /\ q.server = r.server /\ OneBuffer(r, q, x)
          /\ SamePixmaps(r, q) /\ SameWindows(r, q)
      BY <2>6, <3>1 DEF SamePixmaps, SameWindows, SameBuffers, OneBuffer
    <3>4. Good(q)
      BY <2>1, <2>3, <2>6, <3>2, <3>3, BufferQuits
    <3>5. Moved(r, q, x, NoInfo)
      BY <2>6, <3>3, BufferMoved
    <3> QED
      BY <2>1, <3>4, <3>5, LeaveShape, ObjectsAre
  <2>9. Runs(r, q)
    BY <2>7, <2>8, Lively
  <2> QED
    BY <2>9 DEF q, t, i
<1> QED
  BY <1>1, <1>2
JoinBuffer(r, x, i) == [r EXCEPT !.info[i].refcount = @ + 1, !.buf[x] = i]

\* A buffer takes the record of u too.
LEMMA JoinedByBuffer ==
  ASSUME NEW r \in Statuses, Good(r), NEW x \in Buffers, r.buf[x] = NoInfo,
         NEW i \in Infos \cup {Screen}, i = Screen => r.server.useDumb,
         NEW u \in Users, HeldBy(r)[u] = i
  PROVE  LET q == JoinBuffer(r, x, i)
         IN Goes(r, q) /\ q.server = r.server /\ Good(q) /\ Moved(r, q, x, i) /\ Shape(r, q)
<1> DEFINE rec == [r.info[i] EXCEPT !.refcount = @ + 1]
           t == Put(r, i, rec, r.bo[i])
           q == [t EXCEPT !.buf[x] = i]
<1>1. i \in Records /\ i \in Handles /\ x \in Users
  BY RecordsAre DEF Users
<1>2. r.info[i] \in InfoRecs /\ r.bo[i] \in BoRecs /\ r.info[i].refcount + 1 \in Int
  BY <1>1 DEF Statuses, InfoRecs
<1>3. rec \in InfoRecs /\ rec.refcount = r.info[i].refcount + 1 /\ rec.handle = r.info[i].handle
  BY <1>2 DEF InfoRecs
<1>4. [r EXCEPT !.info[i] = rec] = Put(r, i, rec, r.bo[i])
  <2> HIDE DEF rec
  <2> QED
    BY <1>1, <1>2, <1>3 DEF Put, Statuses
<1>5. q = JoinBuffer(r, x, i)
  BY <1>4 DEF JoinBuffer
<1> HIDE DEF rec
<1>6. /\ Goes(r, t) /\ t \in Statuses /\ t.server = r.server
      /\ SamePixmaps(r, t) /\ SameWindows(r, t) /\ SameBuffers(r, t)
      /\ OnlyOne(r, t, i) /\ t.info[i] = rec /\ t.bo[i] = r.bo[i]
  BY <1>1, <1>2, <1>3, PutUsers
<1> HIDE DEF t
<1>7. /\ Goes(t, q) /\ q.server = t.server /\ q.info = t.info /\ q.bo = t.bo
      /\ q.buf[x] = i /\ OneBuffer(t, q, x)
      /\ SamePixmaps(t, q) /\ SameWindows(t, q)
  BY <1>1, <1>6, SetBuffer
<1> HIDE DEF q
<1>8. Goes(r, q)
  BY <1>6, <1>7, GoesTwice
<1>9. /\ q.server = r.server /\ OneBuffer(r, q, x) /\ SamePixmaps(r, q) /\ SameWindows(r, q)
      /\ OnlyOne(r, q, i) /\ q.info[i] = rec /\ q.bo[i] = r.bo[i]
  BY <1>6, <1>7 DEF SamePixmaps, SameWindows, SameBuffers, OneBuffer, OnlyOne
<1>10. r.info[i].refcount > 0
  BY <1>1, UsedIsCounted DEF Good
<1>11. Good(q)
  BY <1>3, <1>7, <1>9, <1>10, BufferJoins
<1>12. Moved(r, q, x, i)
  BY <1>7, <1>9, BufferMoved
<1>13. HeldBy(r)[x] \in {NoInfo, NullBuffer}
  BY BufferHolds
<1>14. Shape(r, q)
  BY <1>1, <1>12, <1>13, JoinShape
<1> QED
  BY <1>5, <1>8, <1>9, <1>11, <1>12, <1>14

LEMMA ReuseMemBufferRuns ==
  ASSUME NEW r \in Statuses, Good(r), NEW x \in Buffers, r.buf[x] = NoInfo,
         NEW w \in Windows, r.win[w].mem # NoInfo
  PROVE  Runs(r, [r EXCEPT !.info[r.win[w].mem].refcount = @ + 1, !.buf[x] = r.win[w].mem])
<1> DEFINE i == r.win[w].mem
           q == JoinBuffer(r, x, i)
<1>1. i \in Infos /\ i # Screen /\ w \in Users /\ HeldBy(r)[w] = i
  BY WindowHolds, RecordsAre DEF Good, BuffersSet
<1> HIDE DEF i
<1>2. Goes(r, q) /\ q.server = r.server /\ Good(q) /\ Shape(r, q)
  BY <1>1, JoinedByBuffer
<1> HIDE DEF q
<1>3. Runs(r, q)
  BY <1>2, Lively
<1> QED
  BY <1>3 DEF q, i, JoinBuffer

\* A pixmap without a BO gets one, with two users from the start: the pixmap and
\* the buffer.
LEMMA MigratedRuns ==
  ASSUME NEW r \in Statuses, Good(r), ~r.server.useDumb, NEW x \in Buffers, r.buf[x] = NoInfo,
         NEW p \in Pixmaps, r.pix[p].refcnt > 0, r.pix[p].info = NoInfo,
         NEW i \in Infos, r.info[i].refcount = 0, NEW outcome
  PROVE  Runs(r, JoinBuffer([CreatePixmap2(r, i, "plain", FALSE, outcome)
                               EXCEPT !.pix[p].info = i, !.pix[p].ptr = "bo"], x, i))
<1> DEFINE t == CreatePixmap2(r, i, "plain", FALSE, outcome)
           rec == PixelsIn(t.pix[p], i, "bo")
           s == [t EXCEPT !.pix[p] = rec]
           q == JoinBuffer(s, x, i)
<1>1. /\ p \in AllPixmaps /\ p \in Users /\ x \in Users /\ i \in Records /\ i # Screen /\ x # p
      /\ i \in Infos \cup {Screen}
  BY RecordsAre, PixmapBoAssumption DEF AllPixmaps, Users
<1>2. Goes(r, t) /\ (Alive(t) => Fresh(r, t, i))
  BY Created
<1>3. s = [t EXCEPT !.pix[p].info = i, !.pix[p].ptr = "bo"]
  BY DEF PixelsIn
<1> HIDE DEF t
<1>4. t \in Statuses
  BY <1>2 DEF Goes
<1>5. t.pix[p] \in PixmapRecs
  BY <1>1, <1>4 DEF Statuses
<1>6. rec \in PixmapRecs /\ rec.info = i /\ rec.ptr = "bo" /\ rec.refcnt = t.pix[p].refcnt
  BY <1>1, <1>5, PixelsInOK
<1> HIDE DEF rec
<1>7. /\ Goes(t, s) /\ s.server = t.server /\ s.info = t.info /\ s.bo = t.bo
      /\ s.pix[p] = rec /\ OnePixmap(t, s, p)
      /\ SameWindows(t, s) /\ SameBuffers(t, s)
  BY <1>1, <1>4, <1>6, SetPixmap
<1> HIDE DEF s
<1>8. s \in Statuses /\ Goes(r, s)
  BY <1>2, <1>4, <1>7, GoesTwice DEF Goes
<1>9. CASE ~Alive(t)
  <2>1. s.server = [r.server EXCEPT !.phase = "dead"]
    BY <1>7, <1>8, <1>9 DEF Goes, Alive, Statuses
  <2>2. q.server = s.server
    BY <1>8 DEF JoinBuffer, Statuses
  <2> HIDE DEF q
  <2>3. Runs(r, q)
    BY <2>1, <2>2 DEF Runs
  <2> QED
    BY <1>3, <2>3 DEF q, t
<1>10. CASE Alive(t)
  <2>1. Fresh(r, t, i)
    BY <1>2, <1>10
  <2>2. /\ s.server = r.server /\ OnlyOne(r, s, i)
        /\ s.info[i].refcount = 1 /\ s.info[i].handle = i
        /\ s.bo[i].refcnt = 1 /\ s.bo[i].ext = 0 /\ ~s.bo[i].dmabuf
    BY <1>7, <2>1 DEF Fresh, OnlyOne
  <2>3. OnePixmap(r, s, p) /\ SameBuffers(r, s) /\ SameWindows(r, s)
    BY <1>7, <2>1 DEF Fresh, OnePixmap, SamePixmaps, SameBuffers, SameWindows
  <2>4. s.pix[p].refcnt = r.pix[p].refcnt /\ s.pix[p].info = i /\ s.pix[p].ptr = "bo"
    BY <1>1, <1>6, <1>7, <2>1 DEF Fresh, SamePixmaps
  <2>5. r.pix[p].refcnt \in 0 .. MaxRefs
    BY <1>1 DEF Good, PixmapsSet
  <2>6. s.pix[p].refcnt \in 1 .. MaxRefs
    BY <2>4, <2>5, PixmapBoAssumption
  <2>7. \A w \in Windows : s.win[w].mem = r.win[w].mem
    BY <2>3 DEF SameWindows
  <2>8. WindowsSet(s)
    BY <1>1, <2>3, <2>4, WindowsStay DEF Good
  <2>9. s.pix[p].ptr = (IF s.server.useDumb THEN "null" ELSE "bo")
    BY <2>2, <2>4
  <2>10. Good(s)
    BY <2>2, <2>3, <2>4, <2>6, <2>7, <2>8, <2>9, PixmapTakes
  <2>11. Moved(r, s, p, i)
    BY <1>1, <2>3, <2>4, <2>7, PixmapMoved
  <2>12. s.buf[x] = NoInfo /\ HeldBy(s)[p] = i
    BY <1>1, <2>3, <2>4, PixmapHolds DEF SameBuffers
  <2>13. Goes(s, q) /\ q.server = s.server /\ Good(q) /\ Moved(s, q, x, i)
    BY <1>1, <1>8, <2>10, <2>12, JoinedByBuffer
  <2> HIDE DEF q
  <2>14. Obj(q, x) = i /\ Obj(q, p) = i /\ \A u \in Users \ {p, x} : Obj(q, u) = Obj(r, u)
    <3>1. Obj(s, p) = i /\ \A u \in Users \ {p} : Obj(s, u) = Obj(r, u)
      BY <1>1, <2>11, MovedObject, ObjectsAre
    <3>2. Obj(q, x) = i /\ \A u \in Users \ {x} : Obj(q, u) = Obj(s, u)
      BY <1>1, <2>13, MovedObject, ObjectsAre
    <3> QED
      BY <1>1, <3>1, <3>2
  <2>15. r.bo[i].refcnt = 0
    BY FreeHasNoBo
  <2>16. Took(r, q, p, x, i)
    BY <2>14, <2>15 DEF Took
  <2>17. Shape(r, q)
    BY <1>1, <2>16 DEF Shape
  <2>18. Goes(r, q)
    BY <1>8, <2>13, GoesTwice
  <2>19. Runs(r, q)
    BY <2>13, <2>17, <2>18, Lively
  <2> QED
    BY <1>3, <2>19 DEF q, t
<1> QED
  BY <1>9, <1>10

\* The pixmap of a front buffer gets a reference first.
LEMMA HeldPixmap ==
  ASSUME NEW r \in Statuses, Good(r), NEW p \in Pixmaps \cup {Screen}, r.pix[p].refcnt > 0,
         NEW front \in BOOLEAN, front => r.pix[p].refcnt < MaxRefs
  PROVE  LET q == [r EXCEPT !.pix[p].refcnt = IF front THEN @ + 1 ELSE @]
         IN /\ Goes(r, q) /\ q.server = r.server /\ Good(q)
            /\ q.bo = r.bo /\ q.info = r.info /\ SameBuffers(r, q)
            /\ q.pix[p].refcnt > 0 /\ q.pix[p].info = r.pix[p].info
            /\ \A u \in Users : Obj(q, u) = Obj(r, u)
<1> DEFINE n == IF front THEN r.pix[p].refcnt + 1 ELSE r.pix[p].refcnt
           rec == [r.pix[p] EXCEPT !.refcnt = n]
           q == [r EXCEPT !.pix[p] = rec]
<1>1. p \in AllPixmaps
  BY DEF AllPixmaps
<1>2. r.pix[p] \in PixmapRecs /\ n \in Int
  BY <1>1 DEF Statuses, PixmapRecs
<1>3. n \in 1 .. MaxRefs
  <2>1. r.pix[p].refcnt \in 0 .. MaxRefs /\ MaxRefs \in Int
    BY <1>1, PixmapBoAssumption DEF Good, PixmapsSet
  <2> QED
    BY <2>1
<1>4. q = [r EXCEPT !.pix[p].refcnt = IF front THEN @ + 1 ELSE @]
  OBVIOUS
<1> HIDE DEF n
<1>5. /\ rec \in PixmapRecs /\ rec.info = r.pix[p].info
      /\ rec.ptr = r.pix[p].ptr /\ rec.refcnt = n
  BY <1>2, PixmapRecsOK
<1> HIDE DEF rec
<1>6. Goes(r, q) /\ q.server = r.server /\ Good(q) /\ \A u \in Users : HeldBy(q)[u] = HeldBy(r)[u]
  BY <1>3, <1>5, PixmapSet
<1>7. q.bo = r.bo /\ q.info = r.info /\ SameBuffers(r, q) /\ q.pix[p] = rec
  BY <1>1, <1>5, SetPixmap
<1> HIDE DEF q
<1>8. \A u \in Users : Obj(q, u) = Obj(r, u)
  BY <1>6 DEF Obj
<1>9. q.pix[p].refcnt > 0 /\ q.pix[p].info = r.pix[p].info
  BY <1>3, <1>5, <1>7, PixmapBoAssumption
<1> QED
  BY <1>4, <1>6, <1>7, <1>8, <1>9

\* The expression of CreatePixmapBuffer.
PixmapBuffer(r, x, p, front, outcome, i) ==
  LET held == [r EXCEPT !.pix[p].refcnt = IF front THEN @ + 1 ELSE @]
      made == MigratePixmapToBO(held, p, i, outcome)
  IN [made EXCEPT !.info[made.pix[p].info].refcount = @ + 1, !.buf[x] = made.pix[p].info]

LEMMA CreatePixmapBufferRuns ==
  ASSUME NEW r \in Statuses, Good(r), NEW x \in Buffers, r.buf[x] = NoInfo,
         NEW p \in Pixmaps \cup {Screen}, r.pix[p].refcnt > 0,
         NEW front \in BOOLEAN, front => r.server.useDumb /\ r.pix[p].refcnt < MaxRefs,
         ~front => p # Screen,
         NEW i \in Infos, r.info[i].refcount = 0, NEW outcome
  PROVE  Runs(r, PixmapBuffer(r, x, p, front, outcome, i))
<1> DEFINE held == [r EXCEPT !.pix[p].refcnt = IF front THEN @ + 1 ELSE @]
           have == held.pix[p].info
           made == MigratePixmapToBO(held, p, i, outcome)
           k == made.pix[p].info
           q == JoinBuffer(made, x, k)
<1>1. p \in AllPixmaps /\ p \in Users /\ p # Scratch
  BY PixmapBoAssumption DEF AllPixmaps, Users
<1>2. /\ Goes(r, held) /\ held.server = r.server /\ Good(held)
      /\ held.bo = r.bo /\ held.info = r.info /\ SameBuffers(r, held)
      /\ held.pix[p].refcnt > 0 /\ held.pix[p].info = r.pix[p].info
      /\ \A u \in Users : Obj(held, u) = Obj(r, u)
  BY HeldPixmap
<1> HIDE DEF held
<1>3. held \in Statuses /\ held.buf[x] = NoInfo
  BY <1>2 DEF Goes, SameBuffers
<1>4. Runs(held, q)
  <2>1. CASE have = NoInfo
    <3> DEFINE t == CreatePixmap2(held, i, "plain", FALSE, outcome)
    <3>1. p \in Pixmaps /\ ~held.server.useDumb
      <4>1. held.server.useDumb => held.pix[Screen].info = Screen
        BY <1>2 DEF Good, ScreenSet
      <4>2. \A o \in Pixmaps : held.pix[o].refcnt > 0 /\ held.server.useDumb =>
              held.pix[o].info # NoInfo
        BY <1>2 DEF Good, PixmapsSet
      <4> QED
        BY <1>2, <2>1, <4>1, <4>2, RecordsAre
    <3>2. made = [t EXCEPT !.pix[p].info = i, !.pix[p].ptr = "bo"]
      BY <2>1 DEF MigratePixmapToBO
    <3>3. t \in Statuses
      BY <1>3, Created DEF Goes
    <3>4. k = i
      <4> HIDE DEF t, made
      <4>1. t.pix[p] \in PixmapRecs /\ t.pix \in [AllPixmaps -> PixmapRecs]
        BY <1>1, <3>3 DEF Statuses
      <4> QED
        BY <1>1, <3>2, <3>3, <4>1 DEF Statuses, PixmapRecs
    <3>5. Runs(held, JoinBuffer([t EXCEPT !.pix[p].info = i, !.pix[p].ptr = "bo"], x, i))
      BY <1>2, <1>3, <2>1, <3>1, MigratedRuns
    <3> HIDE DEF made, t
    <3> QED
      BY <3>2, <3>4, <3>5
  <2>2. CASE have # NoInfo
    <3>1. have \in Infos \cup {Screen} /\ (have = Screen => held.server.useDumb)
      <4>1. p = Screen => have \in {Screen, NoInfo} /\ (have = Screen => held.server.useDumb)
        BY <1>2, RecordsAre DEF Good, ScreenSet
      <4>2. p \in Pixmaps => have \in Infos \cup {NoInfo}
        BY <1>2 DEF Good, PixmapsSet
      <4> QED
        BY <2>2, <4>1, <4>2, RecordsAre
    <3>2. held.info[have].handle # Invalid
      <4>1. CASE have = Screen
        BY <1>2, <3>1, <4>1, RecordsAre DEF Good, ScreenSet
      <4>2. CASE have \in Infos
        <5>1. HeldBy(held)[p] = have /\ have \in Records
          BY <1>1, <4>2, PixmapHolds, RecordsAre
        <5>2. held.info[have].refcount > 0
          BY <1>1, <1>2, <5>1, UsedIsCounted DEF Good
        <5>3. held.info[have].handle = have
          BY <1>2, <4>2, <5>2 DEF Good, Backed
        <5> QED
          BY <4>2, <5>3, RecordsAre
      <4> QED
        BY <3>1, <4>1, <4>2
    <3>3. made = held /\ k = have
      BY <2>2, <3>2 DEF MigratePixmapToBO
    <3>4. HeldBy(held)[p] = have
      BY <1>1, PixmapHolds
    <3> HIDE DEF have
    <3> DEFINE q2 == JoinBuffer(held, x, have)
    <3>5. Goes(held, q2) /\ q2.server = held.server /\ Good(q2) /\ Shape(held, q2)
      BY <1>1, <1>2, <1>3, <3>1, <3>4, JoinedByBuffer
    <3>6. q = q2
      BY <3>3
    <3> HIDE DEF q, q2
    <3>7. Runs(held, q2)
      BY <1>3, <3>5, Lively
    <3> QED
      BY <3>6, <3>7
  <2> QED
    BY <2>1, <2>2
<1> HIDE DEF q
<1>5. Runs(r, q)
  BY <1>2, <1>4, ShapeFrom DEF Runs
<1> QED
  BY <1>5 DEF q, made, held, JoinBuffer, PixmapBuffer

\* Only BO h is another one.
OnlyBo(r, q, h) ==
  /\ q.server = r.server /\ q.info = r.info
  /\ SamePixmaps(r, q) /\ SameWindows(r, q) /\ SameBuffers(r, q)
  /\ \A g \in Handles \ {h} : q.bo[g] = r.bo[g]

BoSet(r, h, m) == [r EXCEPT !.bo[h] = m]

LEMMA SetBoOnly ==
  ASSUME NEW r \in Statuses, NEW h \in Handles, NEW m \in BoRecs
  PROVE  LET q == BoSet(r, h, m)
         IN Goes(r, q) /\ OnlyBo(r, q, h) /\ q.bo[h] = m
<1> DEFINE q == [r EXCEPT !.bo[h] = m]
<1>1. /\ q.server = r.server /\ q.info = r.info /\ q.pix = r.pix /\ q.win = r.win /\ q.buf = r.buf
      /\ q.bo = [r.bo EXCEPT ![h] = m] /\ r.bo \in [Handles -> BoRecs]
  BY DEF Statuses
<1>2. Goes(r, q)
  BY SetBo
<1> HIDE DEF q
<1>3. Goes(r, q) /\ OnlyBo(r, q, h) /\ q.bo[h] = m
  BY <1>1, <1>2 DEF OnlyBo, SamePixmaps, SameWindows, SameBuffers
<1> QED
  BY <1>3 DEF BoSet, q

LEMMA OnlyBoHeld ==
  ASSUME NEW r, NEW q, NEW h, OnlyBo(r, q, h)
  PROVE  \A u \in Users : HeldBy(q)[u] = HeldBy(r)[u]
<1>1. \A o \in AllPixmaps : q.pix[o].info = r.pix[o].info
  BY DEF OnlyBo, SamePixmaps
<1>2. \A w \in Windows : q.win[w].mem = r.win[w].mem
  BY DEF OnlyBo, SameWindows
<1>3. SameBuffers(r, q)
  BY DEF OnlyBo
<1> QED
  BY <1>1, <1>2, <1>3, HeldStays

\* A BO that exists is that of a record in use, or the scanout buffer.
LEMMA BosAre ==
  ASSUME NEW r, Good(r), NEW h \in Handles, r.bo[h].refcnt > 0
  PROVE  /\ h \in Infos \cup {Scanout}
         /\ r.bo[h].ext \in {0, 1} /\ (r.bo[h].dmabuf => r.bo[h].ext = 1)
<1>1. h \in Infos \cup {Screen, Scratch, Scanout}
  BY DEF Handles, Records
<1>2. r.bo[Screen].refcnt = 0 /\ r.bo[Scratch].refcnt = 0
  BY DEF Good, ScreenSet, ScratchSet, NoBO
<1>3. h \in Infos \cup {Scanout}
  BY <1>1, <1>2
<1> QED
  BY <1>3 DEF Good, ScreenSet, HardwareSet

LEMMA BoMapStep ==
  ASSUME NEW r \in Statuses, Good(r), NEW h \in Handles, r.bo[h].refcnt > 0,
         NEW works \in BOOLEAN, NEW outcome
  PROVE  LET q == BoMap(r, h, works, outcome)
         IN /\ Goes(r, q)
            /\ Alive(q) => /\ Good(q) /\ OnlyBo(r, q, h) /\ q.bo[h].refcnt = r.bo[h].refcnt
                           /\ q.bo[h].ext = r.bo[h].ext /\ q.bo[h].accel = r.bo[h].accel
<1> DEFINE q == BoMap(r, h, works, outcome)
           m == r.bo[h]
<1>1. /\ Goes(r, q)
      /\ Alive(q) => \E x, d \in BOOLEAN : /\ q = [r EXCEPT !.bo[h] = MappedBO(m, x, d)]
                                           /\ d # m.dmabuf => m.accel /\ m.ext > 0
  BY BoMapGoes
<1> HIDE DEF q
<1>2. ASSUME Alive(q)
      PROVE  /\ Good(q) /\ OnlyBo(r, q, h) /\ q.bo[h].refcnt = m.refcnt
             /\ q.bo[h].ext = m.ext /\ q.bo[h].accel = m.accel
  <2>1. PICK x \in BOOLEAN, d \in BOOLEAN : /\ q = [r EXCEPT !.bo[h] = MappedBO(m, x, d)]
                                            /\ d # m.dmabuf => m.accel /\ m.ext > 0
    BY <1>1, <1>2
  <2> DEFINE n == MappedBO(m, x, d)
  <2>2. m \in BoRecs
    BY DEF Statuses
  <2>3. /\ n \in BoRecs /\ n.refcnt = m.refcnt /\ n.ext = m.ext /\ n.accel = m.accel
        /\ n.dmabuf = d
    BY <2>2 DEF BoRecs, MappedBO
  <2>4. q = BoSet(r, h, n)
    BY <2>1 DEF BoSet
  <2> HIDE DEF n
  <2>5. OnlyBo(r, q, h) /\ q.bo[h] = n
    BY <2>3, <2>4, SetBoOnly
  <2>6. m.ext \in {0, 1} /\ (m.dmabuf => m.ext = 1)
    BY BosAre
  <2>7. n.dmabuf => n.ext = 1
    <3>1. CASE d = m.dmabuf
      BY <2>3, <2>6, <3>1
    <3>2. CASE d # m.dmabuf
      BY <2>1, <2>3, <2>6, <3>2
    <3> QED
      BY <3>1, <3>2
  <2>8. Good(q)
    BY <2>3, <2>5, <2>7, BoTouched DEF OnlyBo
  <2> QED
    BY <2>3, <2>5, <2>8
<1> QED
  BY <1>1, <1>2 DEF q

LEMMA AccessPixmapRuns ==
  ASSUME NEW r \in Statuses, Good(r), r.server.useDumb, NEW p \in Pixmaps \cup {Screen},
         r.pix[p].refcnt > 0, NEW outcome
  PROVE  LET h == r.info[r.pix[p].info].handle
         IN Runs(r, BoUnmap(BoMap(r, h, TRUE, outcome), h))
<1> DEFINE k == r.pix[p].info
           h == r.info[k].handle
           t == BoMap(r, h, TRUE, outcome)
           q == BoUnmap(t, h)
<1>1. h \in Handles /\ r.bo[h].refcnt > 0
  <2>1. CASE p = Screen
    <3>1. k = Screen /\ r.info[Screen].handle = Scanout /\ r.bo[Scanout].refcnt = 2
      BY <2>1 DEF Good, ScreenSet
    <3> QED
      BY <3>1, RecordsAre
  <2>2. CASE p \in Pixmaps
    <3>1. k \in Infos
      BY <2>2 DEF Good, PixmapsSet
    <3>2. k \in Records /\ p \in Users /\ HeldBy(r)[p] = k
      BY <2>2, <3>1, RecordsAre, PixmapHolds DEF AllPixmaps, Users
    <3>3. r.info[k].refcount > 0
      BY <3>2, UsedIsCounted DEF Good
    <3>4. h = k /\ r.bo[k].refcnt = 1
      BY <3>1, <3>3 DEF Good, Backed
    <3> QED
      BY <3>2, <3>4, RecordsAre
  <2> QED
    BY <2>1, <2>2
<1> HIDE DEF h
<1>2. Goes(r, t) /\ (Alive(t) => Good(t) /\ OnlyBo(r, t, h))
  BY <1>1, BoMapStep
<1> HIDE DEF t
<1>3. t \in Statuses
  BY <1>2 DEF Goes
<1>4. Goes(t, q) /\ (Alive(q) => q = t)
  BY <1>1, <1>3, BoUnmapGoes
<1> HIDE DEF q
<1>5. Goes(r, q)
  BY <1>2, <1>3, <1>4, GoesTwice
<1>6. ASSUME Alive(q)
      PROVE  Good(q) /\ Shape(r, q)
  <2>1. q = t
    BY <1>4, <1>6
  <2>2. Good(t) /\ OnlyBo(r, t, h)
    BY <1>2, <1>6, <2>1
  <2>3. Shape(r, t)
    BY <2>2, OnlyBoHeld, SameShape
  <2> QED
    BY <2>1, <2>2, <2>3
<1>7. Runs(r, q)
  BY <1>5, <1>6, Lively
<1> QED
  BY <1>7 DEF q, t, h

\* The scratch header is created by the first copy, and has no BO.
ScratchMade(r, q) ==
  /\ q.server = r.server /\ OnePixmap(r, q, Scratch) /\ SameWindows(r, q) /\ SameBuffers(r, q)
  /\ \A h \in Handles : q.bo[h] = r.bo[h]
  /\ \A i \in Records \ {Scratch} : q.info[i] = r.info[i]
  /\ IF r.pix[Scratch].refcnt = 1
     THEN q.pix[Scratch] = r.pix[Scratch] /\ q.info[Scratch] = r.info[Scratch]
     ELSE q.pix[Scratch] = NewPixmap(Scratch, "null") /\ q.info[Scratch] = EmptyInfo

LEMMA ScratchHeaderGoes ==
  ASSUME NEW r \in Statuses, r.server.useDumb, ScratchSet(r)
  PROVE  LET q == ScratchHeader(r) IN q \in Statuses /\ ScratchMade(r, q)
<1> DEFINE have == r.pix[Scratch].refcnt = 1
           t == CreatePixmap2(r, Scratch, "plain", TRUE, "works")
           rec == [NoPixmap EXCEPT !.refcnt = 1, !.info = Scratch]
           s == [t EXCEPT !.pix[Scratch] = rec]
           made == IF have THEN r ELSE s
           q == ScratchHeader(r)
<1>1. Scratch \in AllPixmaps /\ Scratch \in Records /\ Scratch \in Handles /\ Scratch # Scanout
  BY RecordsAre DEF AllPixmaps
<1>2. t = [r EXCEPT !.info[Scratch] = EmptyInfo]
  BY DEF CreatePixmap2, EmptyInfo
<1>3. rec = NewPixmap(Scratch, "null")
  BY NewPixmapsAre
<1>4. EmptyInfo \in InfoRecs /\ EmptyInfo.handle = Invalid
  BY <1>1, HoldingOK
<1>5. /\ t \in Statuses /\ t.server = r.server /\ t.pix = r.pix /\ t.win = r.win /\ t.buf = r.buf
      /\ t.bo = r.bo /\ t.info[Scratch] = EmptyInfo
      /\ \A i \in Records \ {Scratch} : t.info[i] = r.info[i]
  <2> HIDE DEF t
  <2> QED
    BY <1>1, <1>2, <1>4 DEF Statuses
<1>6. rec \in PixmapRecs
  <2> HIDE DEF rec
  <2> QED
    BY <1>1, <1>3, NewPixmapOK
<1> HIDE DEF t, rec
<1>7. /\ Goes(t, s) /\ s.server = t.server /\ s.info = t.info /\ s.bo = t.bo
      /\ s.pix[Scratch] = rec /\ OnePixmap(t, s, Scratch)
      /\ SameWindows(t, s) /\ SameBuffers(t, s)
  BY <1>1, <1>5, <1>6, SetPixmap
<1> HIDE DEF s
<1>8. made \in Statuses /\ ScratchMade(r, made) /\ made.info[Scratch].handle = Invalid
  <2>1. CASE have
    BY <2>1 DEF ScratchMade, ScratchSet, OnePixmap, SameWindows, SameBuffers
  <2>2. CASE ~have
    <3>1. made = s
      BY <2>2
    <3>2. s \in Statuses /\ s.info[Scratch].handle = Invalid
      BY <1>4, <1>5, <1>7 DEF Goes
    <3>3. /\ s.server = r.server /\ OnePixmap(r, s, Scratch) /\ SameWindows(r, s)
          /\ SameBuffers(r, s)
      BY <1>5, <1>7 DEF OnePixmap, SameWindows, SameBuffers
    <3>4. ScratchMade(r, s)
      BY <1>3, <1>5, <1>7, <2>2, <3>3 DEF ScratchMade
    <3> QED
      BY <3>1, <3>2, <3>4
  <2> QED
    BY <2>1, <2>2
<1>9. q = ModifyPixmapHeader(made, Scratch, "plain", FALSE, "foreign", "works")
  BY DEF ScratchHeader, s, t, rec
<1> HIDE DEF made
<1>10. q = DropHandle(made, Scratch)
  BY <1>9 DEF ModifyPixmapHeader, StepOut
<1>11. q = made
  BY <1>8, <1>10 DEF DropHandle
<1> QED
  BY <1>8, <1>11

LEMMA ScratchMadeOK ==
  ASSUME NEW r, Good(r), NEW q, ScratchMade(r, q)
  PROVE  Good(q) /\ Shape(r, q)
<1>1. Scratch \in AllPixmaps /\ Scratch \in Users
  BY DEF AllPixmaps, Users
<1>2. \A w \in Windows : q.win[w].mem = r.win[w].mem
  BY DEF ScratchMade, SameWindows
<1>3. CASE r.pix[Scratch].refcnt = 1
  <2>1. SamePixmaps(r, q) /\ SameWindows(r, q) /\ SameBuffers(r, q) /\ q.server = r.server
    BY <1>3 DEF ScratchMade, OnePixmap, SamePixmaps
  <2>2. /\ \A h \in Handles : q.bo[h] = r.bo[h]
        /\ \A i \in Records : q.info[i] = r.info[i]
    BY <1>3 DEF ScratchMade
  <2>3. \A u \in Users : HeldBy(q)[u] = HeldBy(r)[u]
    BY <1>2, <2>1, HeldStays DEF SamePixmaps
  <2>4. Screen \in AllPixmaps /\ Screen \in Pixmaps \cup {Screen}
    BY DEF AllPixmaps
  <2>5. WindowsSet(q)
    BY <1>1, <2>1, RestStays DEF Good, SameWindows
  <2>6. /\ OnePixmap(r, q, Screen) /\ q.pix[Screen] = r.pix[Screen]
        /\ r.pix[Screen].refcnt > 0 /\ r.pix[Screen].refcnt \in 0 .. MaxRefs
    BY <2>1, <2>4 DEF OnePixmap, SamePixmaps, Good, ScreenSet, PixmapsSet
  <2>7. r.pix[Screen].refcnt # 0
    BY <2>6
  <2>8. Good(q)
    BY <2>1, <2>2, <2>4, <2>5, <2>6, <2>7, PixmapChanges
  <2> QED
    BY <2>3, <2>8, SameShape
<1>4. CASE r.pix[Scratch].refcnt # 1
  <2>1. r.pix[Scratch] = NoPixmap
    BY <1>4 DEF Good, ScratchSet
  <2>2. /\ q.pix[Scratch].refcnt = 1 /\ q.pix[Scratch].info = Scratch
        /\ q.info[Scratch].refcount = 1 /\ q.info[Scratch].handle = Invalid
    BY <1>4 DEF ScratchMade, NewPixmap, EmptyInfo, Released
  <2>3. /\ q.server = r.server /\ OnePixmap(r, q, Scratch) /\ SameWindows(r, q)
        /\ SameBuffers(r, q) /\ \A h \in Handles : q.bo[h] = r.bo[h]
        /\ \A i \in Records \ {Scratch} : q.info[i] = r.info[i]
    BY DEF ScratchMade
  <2>4. Good(q)
    BY <2>1, <2>2, <2>3, ScratchJoins
  <2>5. Moved(r, q, Scratch, Scratch)
    BY <1>1, <1>2, <2>2, <2>3, PixmapMoved
  <2> QED
    BY <1>1, <2>4, <2>5, LeaveShape, ObjectsAre
<1> QED
  BY <1>3, <1>4
Accessed(m, e, d) == [m EXCEPT !.ext = e, !.dmabuf = d]

LEMMA AccessedOK ==
  ASSUME NEW m \in BoRecs, NEW e \in Int, NEW d \in BOOLEAN
  PROVE  LET n == Accessed(m, e, d)
         IN n \in BoRecs /\ n.ext = e /\ n.dmabuf = d /\ n.accel = m.accel /\ n.refcnt = m.refcnt
BY DEF BoRecs, Accessed

Started(m) == [m EXCEPT !.ext = @ + 1]

LEMMA StartedOK ==
  ASSUME NEW m \in BoRecs
  PROVE  /\ Started(m) \in BoRecs /\ Started(m).ext = m.ext + 1
         /\ Started(m).dmabuf = m.dmabuf /\ Started(m).accel = m.accel
         /\ Started(m).refcnt = m.refcnt
BY DEF BoRecs, Started

\* The last access of the hardware to a BO ends.
LEMMA EndAccess ==
  ASSUME NEW r \in Statuses, NEW h \in Handles, r.bo[h].accel, r.bo[h].ext = 1
  PROVE  LET q == SwitchHwUsage(r, h, TRUE)
         IN /\ q \in Statuses /\ OnlyBo(r, q, h) /\ q.bo[h].ext = 0 /\ ~q.bo[h].dmabuf
            /\ q.bo[h].accel /\ q.bo[h].refcnt = r.bo[h].refcnt
<1> DEFINE q == SwitchHwUsage(r, h, TRUE)
           m == r.bo[h]
           d == m.dmabuf /\ m.ext > 1
           n == Accessed(m, m.ext - 1, d)
<1>1. m \in BoRecs /\ m.accel /\ m.ext = 1
  BY DEF Statuses
<1>2. d \in BOOLEAN /\ ~d /\ m.ext - 1 \in Int /\ m.ext - 1 = 0
  BY <1>1 DEF BoRecs
<1>3. q = DeregisterExternalAccess(r, h)
  BY DEF SwitchHwUsage
<1>4. DeregisterExternalAccess(r, h) = [r EXCEPT !.bo[h].ext = @ - 1, !.bo[h].dmabuf = d]
  BY DEF DeregisterExternalAccess
<1> HIDE DEF d
<1>5. [r EXCEPT !.bo[h].ext = @ - 1, !.bo[h].dmabuf = d] = BoSet(r, h, n)
  BY DEF BoSet, Accessed, Statuses
<1> HIDE DEF m
<1>6. n \in BoRecs /\ n.ext = 0 /\ n.dmabuf = d /\ n.accel = m.accel /\ n.refcnt = m.refcnt
  BY ZenonT(30), <1>1, <1>2, AccessedOK
<1> HIDE DEF n, q
<1>7. Goes(r, BoSet(r, h, n)) /\ OnlyBo(r, BoSet(r, h, n), h) /\ BoSet(r, h, n).bo[h] = n
  BY <1>6, SetBoOnly
<1>8. q = BoSet(r, h, n)
  BY <1>3, <1>4, <1>5
<1>9. q \in Statuses /\ OnlyBo(r, q, h) /\ q.bo[h] = n
  BY <1>7, <1>8 DEF Goes
<1>10. n.accel /\ ~n.dmabuf
  BY <1>1, <1>2, <1>6, Zenon
<1> QED
  BY <1>6, <1>9, <1>10 DEF q, m

LEMMA StartAccess ==
  ASSUME NEW r \in Statuses, NEW h \in Handles, r.bo[h].accel
  PROVE  LET q == SwitchHwUsage(r, h, FALSE)
         IN q \in Statuses /\ OnlyBo(r, q, h) /\ q.bo[h] = Started(r.bo[h])
<1> DEFINE q == SwitchHwUsage(r, h, FALSE)
           n == Started(r.bo[h])
<1>1. r.bo[h] \in BoRecs
  BY DEF Statuses
<1>2. n \in BoRecs
  BY <1>1, StartedOK
<1>3. q = RegisterExternalAccess(r, h)
  BY DEF SwitchHwUsage
<1>4. RegisterExternalAccess(r, h) = BoSet(r, h, n)
  BY DEF RegisterExternalAccess, BoSet, Started
<1> HIDE DEF q, n
<1>5. Goes(r, BoSet(r, h, n)) /\ OnlyBo(r, BoSet(r, h, n), h) /\ BoSet(r, h, n).bo[h] = n
  BY <1>2, SetBoOnly
<1>6. q = BoSet(r, h, n)
  BY <1>3, <1>4
<1> QED
  BY <1>5, <1>6 DEF Goes, q, n

\* A copy ends the access of the hardware to the window's BO and starts it again.
LEMMA CopyRegionRuns ==
  ASSUME NEW r \in Statuses, Good(r), r.server.useDumb, NEW w \in Windows, r.win[w].mem # NoInfo
  PROVE  LET h == r.info[r.win[w].mem].handle
         IN Runs(r, SwitchHwUsage(ScratchHeader(SwitchHwUsage(r, h, TRUE)), h, FALSE))
<1> DEFINE i == r.win[w].mem
           h == r.info[i].handle
           r1 == SwitchHwUsage(r, i, TRUE)
           r2 == ScratchHeader(r1)
           q == SwitchHwUsage(r2, i, FALSE)
           hw == Started(r2.bo[i])
           u == BoSet(r, i, hw)
<1>1. /\ i \in Infos /\ i \in Records /\ i \in Handles /\ i # Scratch /\ i # Screen /\ i # Scanout
      /\ h = i /\ r.bo[i].refcnt = 1 /\ r.bo[i].accel /\ r.bo[i].ext = 1
  <2>1. i \in Infos
    BY DEF Good, BuffersSet
  <2>2. i \in Records /\ i \in Handles /\ i # Scratch /\ i # Screen /\ i # Scanout
    BY <2>1, RecordsAre
  <2>3. w \in Users /\ HeldBy(r)[w] = i
    BY WindowHolds
  <2>4. r.info[i].refcount > 0
    BY <2>2, <2>3, UsedIsCounted DEF Good
  <2>5. h = i /\ r.bo[i].refcnt = 1
    BY <2>1, <2>4 DEF Good, Backed
  <2>6. r.bo[i].accel /\ r.bo[i].ext = 1
    BY DEF Good, HardwareSet
  <2> QED
    BY <2>1, <2>2, <2>5, <2>6
<1>2. SwitchHwUsage(ScratchHeader(SwitchHwUsage(r, h, TRUE)), h, FALSE) = q
  BY <1>1
<1> HIDE DEF i, h
<1>3. /\ r1 \in Statuses /\ OnlyBo(r, r1, i) /\ r1.bo[i].ext = 0 /\ ~r1.bo[i].dmabuf
      /\ r1.bo[i].accel /\ r1.bo[i].refcnt = r.bo[i].refcnt
  BY <1>1, EndAccess
<1> HIDE DEF r1
<1>4. ScratchSet(r1) /\ r1.server.useDumb
  <2>1. Scratch \in AllPixmaps /\ Scratch \in Handles
    BY RecordsAre DEF AllPixmaps
  <2> QED
    BY <1>1, <1>3, <2>1 DEF OnlyBo, SamePixmaps, Good, ScratchSet
<1>5. r2 \in Statuses /\ ScratchMade(r1, r2)
  BY <1>3, <1>4, ScratchHeaderGoes
<1> HIDE DEF r2
<1>6. r2.bo[i] = r1.bo[i] /\ r2.bo[i] \in BoRecs
  BY <1>1, <1>5 DEF ScratchMade, Statuses
<1>7. r2.bo[i].accel
  BY <1>3, <1>6
<1>8. q \in Statuses /\ OnlyBo(r2, q, i) /\ q.bo[i] = hw
  BY <1>1, <1>5, <1>7, StartAccess
<1>9. hw \in BoRecs /\ hw.ext = 1 /\ ~hw.dmabuf /\ hw.accel /\ hw.refcnt = r.bo[i].refcnt
  <2>1. /\ hw \in BoRecs /\ hw.ext = r2.bo[i].ext + 1 /\ hw.refcnt = r2.bo[i].refcnt
        /\ hw.dmabuf = r2.bo[i].dmabuf /\ hw.accel = r2.bo[i].accel
    BY <1>6, StartedOK
  <2> HIDE DEF hw
  <2>2. hw.ext = 1 /\ hw.refcnt = r.bo[i].refcnt
    BY <1>3, <1>6, <2>1
  <2>3. ~hw.dmabuf /\ hw.accel
    BY <1>3, <1>6, <2>1, Zenon
  <2> QED
    BY <2>1, <2>2, <2>3
<1> HIDE DEF q, hw
<1>10. u \in Statuses /\ OnlyBo(r, u, i) /\ u.bo[i] = hw
  BY <1>1, <1>9, SetBoOnly DEF Goes
<1> HIDE DEF u
<1>11. Good(u)
  <2>1. /\ r.bo[i].refcnt > 0 /\ u.bo[i].refcnt = r.bo[i].refcnt
        /\ u.bo[i].ext = r.bo[i].ext /\ u.bo[i].ext = 1
    BY <1>1, <1>9, <1>10
  <2>2. u.bo[i].accel = r.bo[i].accel
    <3>1. u.bo[i].accel \in BOOLEAN /\ r.bo[i].accel \in BOOLEAN
      BY <1>1, <1>10 DEF Statuses, BoRecs
    <3>2. u.bo[i].accel /\ r.bo[i].accel
      BY <1>1, <1>9, <1>10
    <3> QED
      BY <3>1, <3>2, Zenon
  <2>3. /\ u.server = r.server /\ u.info = r.info
        /\ SamePixmaps(r, u) /\ SameWindows(r, u) /\ SameBuffers(r, u)
        /\ \A g \in Handles \ {i} : u.bo[g] = r.bo[g]
    BY <1>10 DEF OnlyBo
  <2> QED
    BY <1>1, <2>1, <2>2, <2>3, BoTouched
<1>12. ScratchMade(u, q)
  <2>1. Scratch \in AllPixmaps /\ Scratch \in Records
    BY RecordsAre DEF AllPixmaps
  <2>2. \A o \in AllPixmaps : u.pix[o] = r1.pix[o]
    BY <1>3, <1>10 DEF OnlyBo, SamePixmaps
  <2>3. q.server = u.server /\ u.info = r1.info /\ q.info = r2.info
    BY <1>3, <1>5, <1>8, <1>10 DEF OnlyBo, ScratchMade
  <2>4. OnePixmap(u, q, Scratch) /\ q.pix[Scratch] = r2.pix[Scratch]
    BY <1>5, <1>8, <2>1, <2>2 DEF OnlyBo, SamePixmaps, ScratchMade, OnePixmap
  <2>5. SameWindows(u, q) /\ SameBuffers(u, q)
    BY <1>3, <1>5, <1>8, <1>10 DEF OnlyBo, ScratchMade, SameWindows, SameBuffers
  <2>6. \A g \in Handles : q.bo[g] = u.bo[g]
    BY <1>3, <1>5, <1>8, <1>10 DEF OnlyBo, ScratchMade
  <2> QED
    BY <1>5, <2>1, <2>2, <2>3, <2>4, <2>5, <2>6 DEF ScratchMade
<1>13. Good(q) /\ Shape(u, q)
  BY <1>11, <1>12, ScratchMadeOK
<1>14. Shape(r, q)
  <2>1. \A v \in Users : Obj(u, v) = Obj(r, v)
    BY <1>10, OnlyBoHeld DEF Obj
  <2>2. \A j \in Infos : u.bo[j].refcnt = r.bo[j].refcnt
    <3>1. \A j \in Infos : j \in Handles
      BY RecordsAre
    <3> QED
      BY <1>1, <1>9, <1>10, <3>1 DEF OnlyBo
  <2> QED
    BY <1>13, <2>1, <2>2, ShapeFrom
<1>15. q.server = r.server
  BY <1>10, <1>12 DEF OnlyBo, ScratchMade
<1>16. Runs(r, q)
  BY <1>8, <1>13, <1>14, <1>15 DEF Runs
<1> QED
  BY <1>2, <1>16 DEF i, h

\* unref_bo_info for a record that has its own BO, whoever counts.
LEMMA UnrefOwn ==
  ASSUME NEW r \in Statuses, NEW i \in Infos, r.info[i].refcount \in Nat \ {0},
         r.info[i].handle = i, r.bo[i].refcnt = 1
  PROVE  LET q == Unref(r, i)
         IN /\ Goes(r, q)
            /\ Alive(q) => /\ Unrefs(r, q, i) /\ q.server = r.server
                           /\ SamePixmaps(r, q) /\ SameWindows(r, q) /\ SameBuffers(r, q)
<1> DEFINE q == Unref(r, i)
           n == r.info[i].refcount
           fewer == [r.info[i] EXCEPT !.refcount = @ - 1]
<1>1. i \in Records
  BY RecordsAre
<1>2. /\ Goes(r, q)
      /\ n > 1 => q = Put(r, i, fewer, r.bo[i])
      /\ Alive(q) /\ n = 1 /\ r.info[i].handle = i /\ r.bo[i].refcnt = 1 =>
           q = Put(r, i, Released, NoBO)
  BY <1>1, UnrefGoes
<1>3. n \in Nat \ {0}
  OBVIOUS
<1>4. r.info[i] \in InfoRecs /\ r.bo[i] \in BoRecs /\ Released \in InfoRecs /\ NoBO \in BoRecs
  BY <1>1, RecordsAre, InfoRecsOK, BoRecsOK DEF Statuses
<1>5. fewer \in InfoRecs /\ fewer.refcount = n - 1 /\ fewer.handle = r.info[i].handle
  BY <1>3, <1>4 DEF InfoRecs
<1> HIDE DEF q, n, fewer
<1>6. CASE n > 1
  <2>1. q = Put(r, i, fewer, r.bo[i])
    BY <1>2, <1>6
  <2>2. /\ q.server = r.server /\ SamePixmaps(r, q) /\ SameWindows(r, q) /\ SameBuffers(r, q)
        /\ OnlyOne(r, q, i) /\ q.info[i] = fewer /\ q.bo[i] = r.bo[i]
    BY <1>1, <1>4, <1>5, <2>1, PutUsers
  <2>3. Unrefs(r, q, i)
    BY <1>5, <1>6, <2>2 DEF Unrefs, n
  <2> QED
    BY <1>2, <2>2, <2>3 DEF q
<1>7. CASE n = 1
  <2>1. ASSUME Alive(q)
        PROVE  /\ Unrefs(r, q, i) /\ q.server = r.server
               /\ SamePixmaps(r, q) /\ SameWindows(r, q) /\ SameBuffers(r, q)
    <3>1. q = Put(r, i, Released, NoBO)
      BY <1>2, <1>7, <2>1
    <3>2. /\ q.server = r.server /\ SamePixmaps(r, q) /\ SameWindows(r, q) /\ SameBuffers(r, q)
          /\ OnlyOne(r, q, i) /\ q.info[i] = Released /\ q.bo[i] = NoBO
      BY <1>1, <1>4, <3>1, PutUsers
    <3> QED
      BY <1>7, <3>2 DEF Unrefs, n
  <2> QED
    BY <1>2, <2>1 DEF q
<1> QED
  BY <1>3, <1>6, <1>7

LEMMA UnrefMemStep ==
  ASSUME NEW r \in Statuses, NEW w \in Windows
  PROVE  LET q == UnrefMem(r, w) IN Goes(r, q)
<1> DEFINE i == r.win[w].mem
           t == Unref(r, i)
           q == UnrefMem(r, w)
<1>1. CASE i = NoInfo
  <2>1. q = r
    BY <1>1 DEF UnrefMem
  <2> QED
    BY <2>1, Stays
<1>2. CASE i # NoInfo
  <2>1. q = [t EXCEPT !.win[w].mem = NoInfo]
    BY <1>2 DEF UnrefMem
  <2>2. i \in Records
    BY <1>2, RecordsAre DEF Statuses, WindowRecs
  <2> HIDE DEF i
  <2>3. Goes(r, t)
    BY <2>2, UnrefGoes
  <2> HIDE DEF t, q
  <2>4. t \in Statuses
    BY <2>3 DEF Goes
  <2>5. Goes(t, q)
    BY <2>1, <2>4, SetMem
  <2>6. Goes(r, q)
    BY <2>3, <2>4, <2>5, GoesTwice
  <2> QED
    BY <2>6 DEF q
<1> QED
  BY <1>1, <1>2

\* The window's record has its own BO, whoever counts.
LEMMA UnrefMemOwn ==
  ASSUME NEW r \in Statuses, NEW w \in Windows, NEW i \in Infos, r.win[w].mem = i,
         r.info[i].refcount \in Nat \ {0}, r.info[i].handle = i, r.bo[i].refcnt = 1,
         Alive(UnrefMem(r, w))
  PROVE  LET q == UnrefMem(r, w)
         IN /\ Unrefs(r, q, i) /\ q.server = r.server
            /\ q.win[w].mem = NoInfo /\ q.win[w].pixmap = r.win[w].pixmap /\ OneWindow(r, q, w)
            /\ SamePixmaps(r, q) /\ SameBuffers(r, q)
<1> DEFINE t == Unref(r, i)
           q == UnrefMem(r, w)
<1>1. q = [t EXCEPT !.win[w].mem = NoInfo]
  BY RecordsAre DEF UnrefMem
<1>2. /\ Goes(r, t)
      /\ Alive(t) => /\ Unrefs(r, t, i) /\ t.server = r.server
                     /\ SamePixmaps(r, t) /\ SameWindows(r, t) /\ SameBuffers(r, t)
  BY UnrefOwn
<1> HIDE DEF t
<1>3. t \in Statuses
  BY <1>2 DEF Goes
<1>4. Alive(q)
  OBVIOUS
<1> HIDE DEF q
<1>5. /\ Goes(t, q) /\ q.server = t.server /\ q.info = t.info /\ q.bo = t.bo
      /\ q.win[w].mem = NoInfo /\ q.win[w].pixmap = t.win[w].pixmap /\ OneWindow(t, q, w)
      /\ SamePixmaps(t, q) /\ SameBuffers(t, q)
  BY <1>1, <1>3, SetMem
<1>6. /\ Unrefs(r, t, i) /\ t.server = r.server
      /\ SamePixmaps(r, t) /\ SameWindows(r, t) /\ SameBuffers(r, t)
  BY <1>2, <1>3, <1>4, <1>5, AliveBefore
<1>7. Unrefs(r, q, i)
  BY <1>5, <1>6 DEF Unrefs, OnlyOne
<1>8. /\ q.server = r.server /\ q.win[w].pixmap = r.win[w].pixmap /\ OneWindow(r, q, w)
      /\ SamePixmaps(r, q) /\ SameBuffers(r, q)
  BY <1>5, <1>6 DEF SamePixmaps, SameWindows, SameBuffers, OneWindow
<1> QED
  BY <1>5, <1>7, <1>8 DEF q

LEMMA BoMapOnly ==
  ASSUME NEW r \in Statuses, NEW h \in Handles, NEW works \in BOOLEAN, NEW outcome
  PROVE  LET q == BoMap(r, h, works, outcome)
         IN /\ Goes(r, q)
            /\ Alive(q) => /\ OnlyBo(r, q, h) /\ q.bo[h].refcnt = r.bo[h].refcnt
                           /\ q.bo[h].ext = r.bo[h].ext /\ q.bo[h].accel = r.bo[h].accel
<1> DEFINE q == BoMap(r, h, works, outcome)
           m == r.bo[h]
<1>1. /\ Goes(r, q)
      /\ Alive(q) => \E x, d \in BOOLEAN : /\ q = [r EXCEPT !.bo[h] = MappedBO(m, x, d)]
                                           /\ d # m.dmabuf => m.accel /\ m.ext > 0
  BY BoMapGoes
<1> HIDE DEF q
<1>2. ASSUME Alive(q)
      PROVE  /\ OnlyBo(r, q, h) /\ q.bo[h].refcnt = m.refcnt
             /\ q.bo[h].ext = m.ext /\ q.bo[h].accel = m.accel
  <2>1. PICK x \in BOOLEAN, d \in BOOLEAN : q = [r EXCEPT !.bo[h] = MappedBO(m, x, d)]
    BY <1>1, <1>2
  <2> DEFINE n == MappedBO(m, x, d)
  <2>2. m \in BoRecs
    BY DEF Statuses
  <2>3. n \in BoRecs /\ n.refcnt = m.refcnt /\ n.ext = m.ext /\ n.accel = m.accel
    BY <2>2 DEF BoRecs, MappedBO
  <2>4. q = BoSet(r, h, n)
    BY <2>1 DEF BoSet
  <2> HIDE DEF n
  <2>5. OnlyBo(r, q, h) /\ q.bo[h] = n
    BY <2>3, <2>4, SetBoOnly
  <2> QED
    BY <2>3, <2>5
<1> QED
  BY <1>1, <1>2 DEF q

\* The pointer to the pixels of a record is read again.
AddrRead(r, i) == [r EXCEPT !.info[i].addr = r.bo[i].mapped]

LEMMA AddrReadGoes ==
  ASSUME NEW r \in Statuses, NEW i \in Records
  PROVE  LET q == AddrRead(r, i)
         IN /\ Goes(r, q) /\ q.server = r.server
            /\ SamePixmaps(r, q) /\ SameWindows(r, q) /\ SameBuffers(r, q)
            /\ OnlyOne(r, q, i) /\ q.info[i].refcount = r.info[i].refcount
            /\ q.info[i].handle = r.info[i].handle /\ q.bo[i] = r.bo[i]
<1> DEFINE b == r.bo[i].mapped
           rec == [r.info[i] EXCEPT !.addr = b]
           q == Put(r, i, rec, r.bo[i])
<1>1. i \in Handles /\ r.bo[i] \in BoRecs /\ r.info[i] \in InfoRecs
  BY RecordsAre DEF Statuses
<1>2. b \in BOOLEAN
  BY <1>1 DEF BoRecs
<1>3. AddrRead(r, i) = [r EXCEPT !.info[i] = rec]
  BY DEF AddrRead
<1> HIDE DEF b
<1>4. rec \in InfoRecs /\ rec.refcount = r.info[i].refcount /\ rec.handle = r.info[i].handle
  BY <1>1, <1>2 DEF InfoRecs
<1> HIDE DEF rec
<1>5. [r EXCEPT !.info[i] = rec] = q
  BY <1>1, <1>4 DEF Put, Statuses
<1>6. /\ Goes(r, q) /\ q.server = r.server
      /\ SamePixmaps(r, q) /\ SameWindows(r, q) /\ SameBuffers(r, q)
      /\ OnlyOne(r, q, i) /\ q.info[i] = rec /\ q.bo[i] = r.bo[i]
  BY <1>1, <1>4, PutUsers
<1> HIDE DEF q
<1> QED
  BY <1>3, <1>4, <1>5, <1>6

\* A record made for a back buffer, before anybody has it.
Handed(r, t, i) ==
  /\ t.server = r.server /\ SamePixmaps(r, t) /\ SameWindows(r, t) /\ SameBuffers(r, t)
  /\ OnlyOne(r, t, i)
  /\ t.info[i].refcount = 1 /\ t.info[i].handle = i
  /\ t.bo[i].refcnt = 1 /\ t.bo[i].ext = 1 /\ t.bo[i].accel

MappedIfNot(r, i, outcome) ==
  IF r.info[i].addr THEN r ELSE AddrRead(BoMap(r, i, Maps(outcome, 3), outcome), i)

LEMMA MappedIfNotGoes ==
  ASSUME NEW r \in Statuses, NEW s \in Statuses, NEW i \in Infos, NEW outcome
  PROVE  LET q == MappedIfNot(s, i, outcome)
         IN Goes(s, q) /\ (Alive(q) /\ Handed(r, s, i) => Handed(r, q, i))
<1> DEFINE works == Maps(outcome, 3)
           m == BoMap(s, i, works, outcome)
           a == AddrRead(m, i)
           q == MappedIfNot(s, i, outcome)
<1>1. i \in Records /\ i \in Handles
  BY RecordsAre
<1>2. CASE s.info[i].addr
  <2>1. q = s
    BY <1>2 DEF MappedIfNot
  <2> HIDE DEF q
  <2>2. Goes(s, q) /\ (Alive(q) /\ Handed(r, s, i) => Handed(r, q, i))
    BY <2>1, Stays
  <2> QED
    BY <2>2 DEF q
<1>3. CASE ~s.info[i].addr
  <2>1. q = a
    BY <1>3 DEF MappedIfNot
  <2>2. works \in BOOLEAN
    BY MapsOK
  <2> HIDE DEF works, q
  <2>3. /\ Goes(s, m)
        /\ Alive(m) => /\ OnlyBo(s, m, i) /\ m.bo[i].refcnt = s.bo[i].refcnt
                       /\ m.bo[i].ext = s.bo[i].ext /\ m.bo[i].accel = s.bo[i].accel
    BY <1>1, <2>2, BoMapOnly
  <2> HIDE DEF m
  <2>4. m \in Statuses
    BY <2>3 DEF Goes
  <2>5. /\ Goes(m, a) /\ a.server = m.server
        /\ SamePixmaps(m, a) /\ SameWindows(m, a) /\ SameBuffers(m, a)
        /\ OnlyOne(m, a, i) /\ a.info[i].refcount = m.info[i].refcount
        /\ a.info[i].handle = m.info[i].handle /\ a.bo[i] = m.bo[i]
    BY <1>1, <2>4, AddrReadGoes
  <2> HIDE DEF a
  <2>6. Goes(s, a)
    BY <2>3, <2>4, <2>5, GoesTwice
  <2>7. ASSUME Alive(a), Handed(r, s, i)
        PROVE  Handed(r, a, i)
    <3>1. /\ OnlyBo(s, m, i) /\ m.bo[i].refcnt = s.bo[i].refcnt
          /\ m.bo[i].ext = s.bo[i].ext /\ m.bo[i].accel = s.bo[i].accel
      BY <2>3, <2>4, <2>5, <2>7, AliveBefore
    <3>2. /\ a.server = r.server /\ SamePixmaps(r, a) /\ SameWindows(r, a) /\ SameBuffers(r, a)
      BY <2>5, <2>7, <3>1 DEF Handed, OnlyBo, SamePixmaps, SameWindows, SameBuffers
    <3>3. OnlyOne(r, a, i)
      BY <1>1, <2>5, <2>7, <3>1 DEF Handed, OnlyBo, OnlyOne
    <3>4. a.info[i].refcount = 1 /\ a.info[i].handle = i /\ a.bo[i].refcnt = 1 /\ a.bo[i].ext = 1
      BY <2>5, <2>7, <3>1 DEF Handed, OnlyBo
    <3>5. a.bo[i].accel
      BY <2>5, <2>7, <3>1 DEF Handed
    <3> QED
      BY <3>2, <3>3, <3>4, <3>5 DEF Handed
  <2> QED
    BY <2>1, <2>6, <2>7 DEF q
<1> QED
  BY <1>2, <1>3

LEMMA AllocatedForHW ==
  ASSUME NEW r \in Statuses, r.server.useDumb, NEW i \in Infos,
         NEW usage \in {"backing", "scanout"}, NEW outcome
  PROVE  LET q == HandedToHW(ExaCreatePixmap(r, i, usage, outcome), i)
         IN Goes(r, q) /\ (Alive(q) => Handed(r, q, i))
<1> DEFINE t == ExaCreatePixmap(r, i, usage, outcome)
           q == HandedToHW(t, i)
<1>1. i \in Records /\ i \in Handles
  BY RecordsAre
<1>2. Goes(r, t) /\ (Alive(t) => Fresh(r, t, i) /\ t.bo[i].accel = Accel(r, usage))
  BY ExaCreated
<1>3. Accel(r, usage)
  BY DEF Accel, IsAccel
<1> HIDE DEF t
<1>4. t \in Statuses
  BY <1>2 DEF Goes
<1>5. q = SwitchHwUsage(t, i, FALSE)
  BY DEF HandedToHW
<1>6. Goes(t, q)
  <2> DEFINE bCPU == FALSE
  <2>1. bCPU \in BOOLEAN /\ q = SwitchHwUsage(t, i, bCPU)
    BY <1>5
  <2> HIDE DEF bCPU, q
  <2> QED
    BY <1>1, <1>4, <2>1, SwitchGoes
<1> HIDE DEF q
<1>7. Goes(r, q)
  BY <1>2, <1>4, <1>6, GoesTwice
<1>8. ASSUME Alive(q)
      PROVE  Handed(r, q, i)
  <2>1. Fresh(r, t, i) /\ t.bo[i].accel
    BY <1>2, <1>3, <1>4, <1>6, <1>8, AliveBefore
  <2>2. OnlyBo(t, q, i) /\ q.bo[i] = Started(t.bo[i]) /\ t.bo[i] \in BoRecs
    BY <1>1, <1>4, <1>5, <2>1, StartAccess DEF Statuses
  <2>3. /\ q.bo[i].ext = t.bo[i].ext + 1 /\ q.bo[i].refcnt = t.bo[i].refcnt
        /\ q.bo[i].accel = t.bo[i].accel
    BY <2>2, StartedOK
  <2>4. /\ q.server = r.server /\ SamePixmaps(r, q) /\ SameWindows(r, q) /\ SameBuffers(r, q)
    BY <2>1, <2>2 DEF Fresh, OnlyBo, SamePixmaps, SameWindows, SameBuffers
  <2>5. OnlyOne(r, q, i)
    BY <1>1, <2>1, <2>2 DEF Fresh, OnlyBo, OnlyOne
  <2>6. q.info[i].refcount = 1 /\ q.info[i].handle = i /\ q.bo[i].refcnt = 1 /\ q.bo[i].ext = 1
    BY <2>1, <2>2, <2>3 DEF Fresh, OnlyBo
  <2>7. q.bo[i].accel
    BY <2>1, <2>3, Zenon
  <2> QED
    BY <2>4, <2>5, <2>6, <2>7 DEF Handed
<1> QED
  BY <1>7, <1>8 DEF q, t

LEMMA MemCountedGoes ==
  ASSUME NEW r \in Statuses, NEW i \in Records
  PROVE  LET q == MemCounted(r, i)
         IN /\ Goes(r, q) /\ q.server = r.server
            /\ SamePixmaps(r, q) /\ SameWindows(r, q) /\ SameBuffers(r, q)
            /\ OnlyOne(r, q, i) /\ q.info[i].refcount = r.info[i].refcount + 1
            /\ q.info[i].handle = r.info[i].handle /\ q.bo[i] = r.bo[i]
<1> DEFINE rec == [r.info[i] EXCEPT !.refcount = @ + 1]
           q == Put(r, i, rec, r.bo[i])
<1>1. /\ i \in Handles /\ r.bo[i] \in BoRecs /\ r.info[i] \in InfoRecs
      /\ r.info[i].refcount + 1 \in Int
  BY RecordsAre DEF Statuses, InfoRecs
<1>2. MemCounted(r, i) = [r EXCEPT !.info[i] = rec]
  BY DEF MemCounted
<1>3. rec \in InfoRecs /\ rec.refcount = r.info[i].refcount + 1 /\ rec.handle = r.info[i].handle
  BY <1>1 DEF InfoRecs
<1> HIDE DEF rec
<1>4. [r EXCEPT !.info[i] = rec] = q
  BY <1>1, <1>3 DEF Put, Statuses
<1>5. /\ Goes(r, q) /\ q.server = r.server
      /\ SamePixmaps(r, q) /\ SameWindows(r, q) /\ SameBuffers(r, q)
      /\ OnlyOne(r, q, i) /\ q.info[i] = rec /\ q.bo[i] = r.bo[i]
  BY <1>1, <1>3, PutUsers
<1> HIDE DEF q
<1> QED
  BY <1>2, <1>3, <1>4, <1>5

FlipAdded(r, i, canflip, outcome) == IF canflip THEN AddFB(r, i, outcome) ELSE r

LEMMA FlipAddedGoes ==
  ASSUME NEW r \in Statuses, NEW h \in Handles, NEW canflip \in BOOLEAN, NEW outcome
  PROVE  LET q == FlipAdded(r, h, canflip, outcome)
         IN /\ Goes(r, q)
            /\ Alive(q) => /\ OnlyBo(r, q, h) /\ q.bo[h].refcnt = r.bo[h].refcnt
                           /\ q.bo[h].ext = r.bo[h].ext /\ q.bo[h].accel = r.bo[h].accel
<1> DEFINE a == AddFB(r, h, outcome)
           q == FlipAdded(r, h, canflip, outcome)
           m == r.bo[h]
<1>1. CASE ~canflip
  <2>1. q = r
    BY <1>1 DEF FlipAdded
  <2> HIDE DEF q
  <2>2. /\ Goes(r, q) /\ OnlyBo(r, q, h) /\ q.bo[h].refcnt = m.refcnt
        /\ q.bo[h].ext = m.ext /\ q.bo[h].accel = m.accel
    BY <2>1, Stays DEF OnlyBo, SamePixmaps, SameWindows, SameBuffers
  <2> QED
    BY <2>2 DEF q
<1>2. CASE canflip
  <2>1. q = a
    BY <1>2 DEF FlipAdded
  <2> HIDE DEF q
  <2>2. /\ Goes(r, a)
        /\ Alive(a) => \E f \in BOOLEAN : a = [r EXCEPT !.bo[h] = [m EXCEPT !.fb = f]]
    BY AddFBGoes
  <2> HIDE DEF a
  <2>3. ASSUME Alive(a)
        PROVE  /\ OnlyBo(r, a, h) /\ a.bo[h].refcnt = m.refcnt
               /\ a.bo[h].ext = m.ext /\ a.bo[h].accel = m.accel
    <3>1. PICK f \in BOOLEAN : a = [r EXCEPT !.bo[h] = [m EXCEPT !.fb = f]]
      BY <2>2, <2>3
    <3> DEFINE n == [m EXCEPT !.fb = f]
    <3>2. m \in BoRecs
      BY DEF Statuses
    <3>3. n \in BoRecs /\ n.refcnt = m.refcnt /\ n.ext = m.ext /\ n.accel = m.accel
      BY <3>2 DEF BoRecs
    <3>4. a = BoSet(r, h, n)
      BY <3>1 DEF BoSet
    <3> HIDE DEF n
    <3>5. OnlyBo(r, a, h) /\ a.bo[h] = n
      BY <3>3, <3>4, SetBoOnly
    <3> QED
      BY <3>3, <3>5
  <2> QED
    BY <2>1, <2>2, <2>3 DEF q
<1> QED
  BY <1>1, <1>2

\* Status v is s, but for a buffer that has record i.
BufferSet(s, x, i) == [s EXCEPT !.buf[x] = i]

WithBuffer(s, v, x, i) ==
  /\ v \in Statuses /\ v.server = s.server /\ v.info = s.info /\ v.bo = s.bo
  /\ v.buf[x] = i /\ OneBuffer(s, v, x) /\ SamePixmaps(s, v) /\ SameWindows(s, v)

LEMMA WithBufferOK ==
  ASSUME NEW s \in Statuses, NEW x \in Buffers, NEW i \in Infos
  PROVE  Goes(s, BufferSet(s, x, i)) /\ WithBuffer(s, BufferSet(s, x, i), x, i)
<1> DEFINE q == [s EXCEPT !.buf[x] = i]
<1>1. i \in Records \cup {NoInfo, NullBuffer}
  BY RecordsAre
<1>2. /\ Goes(s, q) /\ q.server = s.server /\ q.info = s.info /\ q.bo = s.bo
      /\ q.buf[x] = i /\ OneBuffer(s, q, x)
      /\ SamePixmaps(s, q) /\ SameWindows(s, q)
  BY <1>1, SetBuffer
<1> HIDE DEF q
<1>3. Goes(s, q) /\ WithBuffer(s, q, x, i)
  BY <1>2 DEF WithBuffer, Goes
<1> QED
  BY <1>3 DEF q, BufferSet

LEMMA HandedToBuffer ==
  ASSUME NEW r, Good(r), NEW x \in Buffers, r.buf[x] = NoInfo,
         NEW i \in Infos, r.info[i].refcount = 0,
         NEW t, Handed(r, t, i), NEW v, WithBuffer(t, v, x, i)
  PROVE  /\ Good(v) /\ v.server = r.server
         /\ OneBuffer(r, v, x) /\ SamePixmaps(r, v) /\ SameWindows(r, v)
<1>1. /\ v.server = r.server /\ OneBuffer(r, v, x) /\ SamePixmaps(r, v) /\ SameWindows(r, v)
  BY DEF Handed, WithBuffer, OneBuffer, SamePixmaps, SameWindows, SameBuffers
<1>2. /\ OnlyOne(r, v, i) /\ v.info[i].refcount = 1 /\ v.info[i].handle = i
      /\ v.bo[i].refcnt = 1 /\ v.bo[i].ext = 1 /\ v.buf[x] = i
  BY DEF Handed, WithBuffer, OnlyOne
<1>3. Good(v)
  BY <1>1, <1>2, BufferTakes
<1> QED
  BY <1>1, <1>3

LEMMA WindowLeaves ==
  ASSUME NEW t \in Statuses, NEW x \in Buffers, NEW i \in Infos, Good(BufferSet(t, x, i)),
         NEW w \in Windows, t.win[w].mem # i, Alive(UnrefMem(t, w))
  PROVE  LET v == BufferSet(t, x, i)
             q == BufferSet(UnrefMem(t, w), x, i)
         IN /\ Good(q) /\ q.server = v.server
            /\ q.win[w].mem = NoInfo /\ q.win[w].pixmap = v.win[w].pixmap /\ OneWindow(v, q, w)
            /\ SamePixmaps(v, q) /\ SameBuffers(v, q)
            /\ q.info[i] = v.info[i] /\ q.bo[i] = v.bo[i]
<1> DEFINE v == BufferSet(t, x, i)
           d == UnrefMem(t, w)
           q == BufferSet(d, x, i)
           j == t.win[w].mem
<1>1. WithBuffer(t, v, x, i)
  BY WithBufferOK
<1>2. CASE j = NoInfo
  <2>1. q = v
    BY <1>2 DEF UnrefMem
  <2>2. v.win[w].mem = NoInfo
    <3> HIDE DEF v
    <3> QED
      BY <1>1, <1>2 DEF WithBuffer, SameWindows
  <2> HIDE DEF v, q
  <2>3. /\ Good(q) /\ q.server = v.server
        /\ q.win[w].mem = NoInfo /\ q.win[w].pixmap = v.win[w].pixmap /\ OneWindow(v, q, w)
        /\ SamePixmaps(v, q) /\ SameBuffers(v, q)
        /\ q.info[i] = v.info[i] /\ q.bo[i] = v.bo[i]
    BY <2>1, <2>2 DEF OneWindow, SamePixmaps, SameBuffers, v
  <2> QED
    BY <2>3 DEF v, q
<1>3. CASE j # NoInfo
  <2> HIDE DEF v
  <2>1. Good(v) /\ v.win[w].mem = j /\ v.info = t.info /\ v.bo = t.bo
    BY <1>1 DEF WithBuffer, SameWindows, v
  <2>2. j \in Infos /\ j # i
    BY <1>3, <2>1 DEF Good, BuffersSet
  <2>3. j \in Records /\ i \in Records /\ i \in Handles
    BY <2>2, RecordsAre
  <2>4. w \in Users /\ HeldBy(v)[w] = j
    BY <2>1, WindowHolds
  <2>5. v.info[j].refcount \in Nat \ {0}
    BY <2>1, <2>3, <2>4, UsedIsCounted DEF Good
  <2>6. v.info[j].handle = j /\ v.bo[j].refcnt = 1
    BY <2>1, <2>2, <2>5 DEF Good, Backed
  <2>7. /\ t.info[j].refcount \in Nat \ {0} /\ t.info[j].handle = j /\ t.bo[j].refcnt = 1
        /\ t.win[w].mem = j
    BY <2>1, <2>5, <2>6
  <2> HIDE DEF j
  <2>8. /\ Unrefs(t, d, j) /\ d.server = t.server
        /\ d.win[w].mem = NoInfo /\ d.win[w].pixmap = t.win[w].pixmap /\ OneWindow(t, d, w)
        /\ SamePixmaps(t, d) /\ SameBuffers(t, d)
    BY <2>2, <2>7, UnrefMemOwn
  <2>9. d \in Statuses
    BY UnrefMemStep DEF Goes
  <2> HIDE DEF d
  <2>10. WithBuffer(d, q, x, i)
    BY <2>9, WithBufferOK
  <2> HIDE DEF q
  <2>11. Unrefs(v, q, j)
    BY <1>1, <2>8, <2>10 DEF Unrefs, OnlyOne, WithBuffer
  <2>12. /\ q.server = v.server /\ q.win[w].mem = NoInfo /\ q.win[w].pixmap = v.win[w].pixmap
         /\ OneWindow(v, q, w) /\ SamePixmaps(v, q)
    BY <1>1, <2>8, <2>10 DEF WithBuffer, OneWindow, SamePixmaps, SameWindows
  <2>13. SameBuffers(v, q)
    BY <1>1, <2>8, <2>10 DEF WithBuffer, OneBuffer, SameBuffers
  <2>14. Good(q)
    BY <2>1, <2>2, <2>11, <2>12, <2>13, WindowQuits
  <2>15. q.info[i] = v.info[i] /\ q.bo[i] = v.bo[i]
    BY <2>2, <2>3, <2>11 DEF Unrefs, OnlyOne
  <2> QED
    BY <2>12, <2>13, <2>14, <2>15 DEF q, d, v
<1> QED
  BY <1>2, <1>3

MemTaken(d, w, i) == MemCounted([d EXCEPT !.win[w].mem = i], i)

LEMMA WindowGets ==
  ASSUME NEW d \in Statuses, NEW x \in Buffers, NEW i \in Infos, NEW v, WithBuffer(d, v, x, i),
         Good(v), v.server.useDumb, NEW w \in Windows, v.win[w].mem = NoInfo,
         v.info[i].refcount > 0, v.bo[i].accel, v.bo[i].ext = 1
  PROVE  LET f == MemTaken(d, w, i)
             q == BufferSet(f, x, i)
         IN /\ Goes(d, f) /\ f.server = d.server
            /\ Good(q) /\ q.server = v.server
            /\ q.win[w].mem = i /\ OneWindow(v, q, w)
            /\ SamePixmaps(v, q) /\ SameBuffers(v, q) /\ q.bo[i] = v.bo[i]
<1> DEFINE e == [d EXCEPT !.win[w].mem = i]
           f == MemCounted(e, i)
           q == BufferSet(f, x, i)
<1>1. i \in Records /\ i \in Infos \cup {NoInfo}
  BY RecordsAre
<1>2. /\ Goes(d, e) /\ e.server = d.server /\ e.info = d.info /\ e.bo = d.bo
      /\ e.win[w].mem = i /\ e.win[w].pixmap = d.win[w].pixmap /\ OneWindow(d, e, w)
      /\ SamePixmaps(d, e) /\ SameBuffers(d, e)
  BY <1>1, SetMem
<1> HIDE DEF e
<1>3. e \in Statuses
  BY <1>2 DEF Goes
<1>4. /\ Goes(e, f) /\ f.server = e.server
      /\ SamePixmaps(e, f) /\ SameWindows(e, f) /\ SameBuffers(e, f)
      /\ OnlyOne(e, f, i) /\ f.info[i].refcount = e.info[i].refcount + 1
      /\ f.info[i].handle = e.info[i].handle /\ f.bo[i] = e.bo[i]
  BY <1>1, <1>3, MemCountedGoes
<1> HIDE DEF f
<1>5. f \in Statuses /\ Goes(d, f)
  BY <1>2, <1>3, <1>4, GoesTwice DEF Goes
<1>6. WithBuffer(f, q, x, i)
  BY <1>5, WithBufferOK
<1> HIDE DEF q
<1>7. /\ q.server = v.server /\ q.win[w].mem = i /\ q.win[w].pixmap = v.win[w].pixmap
      /\ OneWindow(v, q, w) /\ SamePixmaps(v, q)
  BY <1>2, <1>4, <1>6 DEF WithBuffer, OneWindow, SamePixmaps, SameWindows
<1>8. SameBuffers(v, q)
  BY <1>2, <1>4, <1>6 DEF WithBuffer, OneBuffer, SameBuffers
<1>9. /\ OnlyOne(v, q, i) /\ q.info[i].refcount = v.info[i].refcount + 1
      /\ q.info[i].handle = v.info[i].handle /\ q.bo[i] = v.bo[i]
  BY <1>2, <1>4, <1>6 DEF WithBuffer, OnlyOne
<1>10. Good(q)
  BY <1>7, <1>8, <1>9, WindowJoins
<1> QED
  BY <1>2, <1>4, <1>5, <1>7, <1>8, <1>9, <1>10 DEF q, f, e, MemTaken

\* The BO of a new back buffer has two users from the start: the buffer and the
\* window; what the window had before is left.
LEMMA AllocMemBufferRuns ==
  ASSUME NEW r \in Statuses, Good(r), r.server.useDumb, NEW x \in Buffers, r.buf[x] = NoInfo,
         NEW w \in Windows, NEW i \in Infos, r.info[i].refcount = 0,
         NEW canflip \in BOOLEAN, NEW outcome
  PROVE  LET r1 == ExaCreatePixmap(r, i, IF canflip THEN "scanout" ELSE "backing", outcome)
             r2 == HandedToHW(r1, i)
             r3 == MappedIfNot(r2, i, outcome)
             r4 == MemCounted([UnrefMem(r3, w) EXCEPT !.win[w].mem = i], i)
             r5 == FlipAdded(r4, i, canflip, outcome)
         IN Runs(r, BufferSet(r5, x, i))
<1> DEFINE usage == IF canflip THEN "scanout" ELSE "backing"
           r2 == HandedToHW(ExaCreatePixmap(r, i, usage, outcome), i)
           r3 == MappedIfNot(r2, i, outcome)
           d == UnrefMem(r3, w)
           e == [d EXCEPT !.win[w].mem = i]
           r4 == MemTaken(d, w, i)
           r5 == FlipAdded(r4, i, canflip, outcome)
           q == BufferSet(r5, x, i)
<1>1. /\ i \in Records /\ i \in Handles /\ w \in Users /\ x \in Users /\ w # x
      /\ usage \in {"backing", "scanout"}
  BY RecordsAre, PixmapBoAssumption DEF Users
<1> HIDE DEF usage
<1>2. Goes(r, r2) /\ (Alive(r2) => Handed(r, r2, i))
  BY <1>1, AllocatedForHW
<1> HIDE DEF r2
<1>3. r2 \in Statuses
  BY <1>2 DEF Goes
<1>4. Goes(r2, r3) /\ (Alive(r3) /\ Handed(r, r2, i) => Handed(r, r3, i))
  BY <1>3, MappedIfNotGoes
<1> HIDE DEF r3
<1>5. r3 \in Statuses
  BY <1>4 DEF Goes
<1>6. Goes(r3, d)
  BY <1>5, UnrefMemStep
<1>7. d \in Statuses
  <2> HIDE DEF d
  <2> QED
    BY <1>6 DEF Goes
<1>8. Goes(d, r4) /\ r4 \in Statuses
  <2> HIDE DEF d
  <2>1. i \in Infos \cup {NoInfo}
    OBVIOUS
  <2>2. Goes(d, e)
    BY <1>7, <2>1, SetMem
  <2> HIDE DEF e
  <2>3. e \in Statuses
    BY <2>2 DEF Goes
  <2>4. Goes(e, MemCounted(e, i)) /\ r4 = MemCounted(e, i)
    BY <1>1, <2>3, MemCountedGoes DEF MemTaken, e
  <2> HIDE DEF r4
  <2> QED
    BY <1>7, <2>2, <2>3, <2>4, GoesTwice DEF Goes
<1>9. /\ Goes(r4, r5)
      /\ Alive(r5) => /\ OnlyBo(r4, r5, i) /\ r5.bo[i].refcnt = r4.bo[i].refcnt
                      /\ r5.bo[i].ext = r4.bo[i].ext /\ r5.bo[i].accel = r4.bo[i].accel
  <2> HIDE DEF r4
  <2> QED
    BY <1>1, <1>8, FlipAddedGoes
<1> HIDE DEF r5
<1>10. r5 \in Statuses
  <2> HIDE DEF r4
  <2> QED
    BY <1>9 DEF Goes
<1>11. Goes(r5, q) /\ WithBuffer(r5, q, x, i)
  BY <1>10, WithBufferOK
<1> HIDE DEF q
<1>12. Goes(r, q)
  <2> HIDE DEF r4, d
  <2>1. Goes(r, r3)
    BY <1>2, <1>3, <1>4, GoesTwice
  <2>2. Goes(r, d)
    BY <1>5, <1>6, <2>1, GoesTwice
  <2>3. Goes(r, r4)
    BY <1>7, <1>8, <2>2, GoesTwice
  <2>4. Goes(r, r5)
    BY <1>8, <1>9, <2>3, GoesTwice
  <2> QED
    BY <1>10, <1>11, <2>4, GoesTwice
<1>13. ASSUME Alive(q)
       PROVE  Good(q) /\ Shape(r, q)
  <2> DEFINE v3 == BufferSet(r3, x, i)
             vd == BufferSet(d, x, i)
             v4 == BufferSet(r4, x, i)
  <2>1. Alive(r2) /\ Alive(r3) /\ Alive(d) /\ Alive(r4) /\ Alive(r5)
    <3> HIDE DEF r4, d
    <3>1. Alive(r5)
      BY <1>10, <1>11, <1>13, AliveBefore
    <3>2. Alive(r4)
      BY <1>8, <1>9, <3>1, AliveBefore
    <3>3. Alive(d)
      BY <1>7, <1>8, <3>2, AliveBefore
    <3>4. Alive(r3)
      BY <1>5, <1>6, <3>3, AliveBefore
    <3>5. Alive(r2)
      BY <1>3, <1>4, <3>4, AliveBefore
    <3> QED
      BY <3>1, <3>2, <3>3, <3>4, <3>5
  <2>2. Handed(r, r3, i)
    BY <1>2, <1>4, <2>1
  <2>3. WithBuffer(r3, v3, x, i)
    BY <1>5, WithBufferOK
  <2>4. /\ Good(v3) /\ v3.server = r.server
        /\ OneBuffer(r, v3, x) /\ SamePixmaps(r, v3) /\ SameWindows(r, v3)
    <3> HIDE DEF v3
    <3> QED
      BY <2>2, <2>3, HandedToBuffer
  <2>5. r3.win[w].mem # i
    <3>1. r.win[w].mem # i
      BY <1>1, FreeIsUnused DEF Good
    <3> QED
      BY <2>2, <3>1 DEF Handed, SameWindows
  <2>6. /\ Good(vd) /\ vd.server = v3.server
        /\ vd.win[w].mem = NoInfo /\ vd.win[w].pixmap = v3.win[w].pixmap /\ OneWindow(v3, vd, w)
        /\ SamePixmaps(v3, vd) /\ SameBuffers(v3, vd)
        /\ vd.info[i] = v3.info[i] /\ vd.bo[i] = v3.bo[i]
    BY <1>5, <2>1, <2>4, <2>5, WindowLeaves
  <2>7. /\ v3.info[i].refcount > 0 /\ v3.bo[i].accel /\ v3.bo[i].ext = 1
    <3> HIDE DEF v3
    <3> QED
      BY <2>2, <2>3 DEF Handed, WithBuffer
  <2> HIDE DEF v3
  <2>8. WithBuffer(d, vd, x, i)
    <3> HIDE DEF d
    <3> QED
      BY <1>7, WithBufferOK
  <2> HIDE DEF vd, d
  <2>9. vd.info[i].refcount > 0 /\ vd.bo[i].accel /\ vd.bo[i].ext = 1 /\ vd.server.useDumb
    BY <2>4, <2>6, <2>7
  <2>10. /\ Good(v4) /\ v4.server = vd.server
         /\ v4.win[w].mem = i /\ OneWindow(vd, v4, w)
         /\ SamePixmaps(vd, v4) /\ SameBuffers(vd, v4) /\ v4.bo[i] = vd.bo[i]
    BY <1>7, <2>6, <2>8, <2>9, WindowGets
  <2> HIDE DEF r4
  <2>11. WithBuffer(r4, v4, x, i)
    BY <1>8, WithBufferOK
  <2> HIDE DEF v4
  <2>12. /\ OnlyBo(r4, r5, i) /\ r5.bo[i].refcnt = r4.bo[i].refcnt
         /\ r5.bo[i].ext = r4.bo[i].ext /\ r5.bo[i].accel = r4.bo[i].accel
    BY <1>9, <2>1
  <2>13. /\ q.server = v4.server /\ q.info = v4.info /\ SamePixmaps(v4, q) /\ SameWindows(v4, q)
         /\ \A h \in Handles \ {i} : q.bo[h] = v4.bo[h]
    BY <1>11, <2>11, <2>12 DEF WithBuffer, OnlyBo, SamePixmaps, SameWindows
  <2>14. SameBuffers(v4, q)
    BY <1>11, <2>11, <2>12 DEF WithBuffer, OnlyBo, OneBuffer, SameBuffers
  <2>15. q.bo[i].refcnt = v4.bo[i].refcnt /\ q.bo[i].ext = v4.bo[i].ext /\ q.bo[i].accel = v4.bo[i].accel
    BY <1>11, <2>11, <2>12 DEF WithBuffer
  <2>16. v4.bo[i].refcnt > 0 /\ q.bo[i].ext = 1
    <3>1. v3.bo[i].refcnt = 1 /\ v3.bo[i].ext = 1
      BY <2>2, <2>3 DEF Handed, WithBuffer
    <3> QED
      BY <2>6, <2>10, <2>15, <3>1
  <2>17. Good(q)
    BY <1>1, <2>10, <2>13, <2>14, <2>15, <2>16, BoTouched
  <2>18. SamePixmaps(r, q)
    BY <2>4, <2>6, <2>10, <2>13 DEF SamePixmaps
  <2>19. OneWindow(r, q, w) /\ q.win[w].mem = i
    BY <2>4, <2>6, <2>10, <2>13 DEF SameWindows, OneWindow
  <2>20. OneBuffer(r, q, x) /\ q.buf[x] = i
    <3>1. q.buf[x] = i
      BY <1>11 DEF WithBuffer
    <3>2. \A y \in Buffers : q.buf[y] = v3.buf[y]
      BY <2>6, <2>10, <2>14 DEF SameBuffers
    <3> QED
      BY <2>4, <3>1, <3>2 DEF OneBuffer
  <2>21. HeldBy(q)[x] = i /\ HeldBy(q)[w] = i
    BY <2>19, <2>20, BufferHolds, WindowHolds
  <2>22. ASSUME NEW u \in Users \ {x, w}
         PROVE  HeldBy(q)[u] = HeldBy(r)[u]
    <3>1. CASE u \in AllPixmaps
      BY <2>18, <3>1, PixmapHolds DEF SamePixmaps
    <3>2. CASE u \in Windows
      BY <2>19, <3>2, WindowHolds DEF OneWindow
    <3>3. CASE u \in Buffers
      BY <2>20, <3>3, BufferHolds DEF OneBuffer
    <3> QED
      BY <2>22, <3>1, <3>2, <3>3 DEF Users
  <2>23. Obj(q, x) = i /\ Obj(q, w) = i
    BY <2>21, ObjectsAre DEF Obj
  <2>24. \A u \in Users \ {x, w} : Obj(q, u) = Obj(r, u)
    BY <2>22 DEF Obj
  <2>25. Took(r, q, x, w, i)
    BY <2>23, <2>24, FreeHasNoBo DEF Took
  <2> QED
    BY <1>1, <2>17, <2>25 DEF Shape
<1>14. Runs(r, q)
  BY <1>12, <1>13, Lively
<1> QED
  BY <1>14 DEF q, r5, r3, r2, usage, MemTaken

-----------------------------------------------------------------------------
(***************************************************************************)
(* The start of the screen.                                                *)
(***************************************************************************)

LEMMA ScanoutAllocated ==
  ASSUME NEW r \in Statuses, NEW usage, NEW outcome
  PROVE  LET q == BoMap(BoNew(r, Scanout, usage, outcome), Scanout, Maps(outcome, 1), outcome)
         IN /\ Goes(r, q)
            /\ Alive(q) => /\ OnlyBo(r, q, Scanout) /\ q.bo[Scanout].refcnt = 1
                           /\ q.bo[Scanout].ext = 0 /\ ~q.bo[Scanout].dmabuf
<1> DEFINE s == BoNew(r, Scanout, usage, outcome)
           works == Maps(outcome, 1)
           q == BoMap(s, Scanout, works, outcome)
           acc == Accel(r, usage)
           m == NewBO(acc)
<1>1. Scanout \in Handles /\ works \in BOOLEAN /\ acc \in BOOLEAN
  BY RecordsAre, MapsOK DEF Accel, IsAccel, Statuses
<1> HIDE DEF works
<1>2. Goes(r, s) /\ (Alive(s) => s = BoSet(r, Scanout, m))
  BY <1>1, BoNewGoes DEF BoSet
<1> HIDE DEF s, acc
<1>3. m \in BoRecs /\ m.refcnt = 1 /\ m.ext = 0 /\ ~m.dmabuf
  <2>1. m \in BoRecs
    BY <1>1, BoRecsOK
  <2>2. m.refcnt = 1 /\ m.ext = 0 /\ ~m.dmabuf
    BY DEF NewBO, NoBO
  <2> QED
    BY <2>1, <2>2
<1> HIDE DEF m
<1>4. s \in Statuses
  BY <1>2 DEF Goes
<1>5. /\ Goes(s, q)
      /\ Alive(q) => \E x, d \in BOOLEAN :
                       /\ q = [s EXCEPT !.bo[Scanout] = MappedBO(s.bo[Scanout], x, d)]
                       /\ d # s.bo[Scanout].dmabuf => s.bo[Scanout].accel /\ s.bo[Scanout].ext > 0
  BY <1>1, <1>4, BoMapGoes
<1> HIDE DEF q
<1>6. Goes(r, q)
  BY <1>2, <1>4, <1>5, GoesTwice
<1>7. ASSUME Alive(q)
      PROVE  /\ OnlyBo(r, q, Scanout) /\ q.bo[Scanout].refcnt = 1
             /\ q.bo[Scanout].ext = 0 /\ ~q.bo[Scanout].dmabuf
  <2>1. s = BoSet(r, Scanout, m)
    BY <1>2, <1>4, <1>5, <1>7, AliveBefore
  <2>2. OnlyBo(r, s, Scanout) /\ s.bo[Scanout] = m
    BY <1>1, <1>3, <2>1, SetBoOnly
  <2>3. PICK x \in BOOLEAN, d \in BOOLEAN :
                       /\ q = [s EXCEPT !.bo[Scanout] = MappedBO(s.bo[Scanout], x, d)]
                       /\ d # s.bo[Scanout].dmabuf => s.bo[Scanout].accel /\ s.bo[Scanout].ext > 0
    BY <1>5, <1>7
  <2> DEFINE n == MappedBO(m, x, d)
  <2>4. n \in BoRecs /\ n.refcnt = m.refcnt /\ n.ext = m.ext /\ n.dmabuf = d
    BY <1>3 DEF BoRecs, MappedBO
  <2>5. ~d
    BY <1>3, <2>2, <2>3
  <2>6. q = BoSet(s, Scanout, n)
    BY <2>2, <2>3 DEF BoSet
  <2> HIDE DEF n
  <2>7. OnlyBo(s, q, Scanout) /\ q.bo[Scanout] = n
    BY <1>1, <1>4, <2>4, <2>6, SetBoOnly
  <2>8. OnlyBo(r, q, Scanout)
    BY <2>2, <2>7 DEF OnlyBo, SamePixmaps, SameWindows, SameBuffers
  <2>9. q.bo[Scanout].refcnt = 1 /\ q.bo[Scanout].ext = 0
    BY <1>3, <2>4, <2>7
  <2>10. ~q.bo[Scanout].dmabuf
    BY <2>4, <2>5, <2>7
  <2> QED
    BY <2>8, <2>9, <2>10
<1> QED
  BY <1>6, <1>7 DEF q, s, works

\* The server goes on with the screen pixmap.
Readied(r) == [r EXCEPT !.server.phase = "resources"]

LEMMA ReadiedOK ==
  ASSUME NEW r \in Statuses
  PROVE  LET q == Readied(r)
         IN /\ q \in Statuses /\ q.server.phase = "resources" /\ q.server.useDumb = r.server.useDumb
            /\ q.pix = r.pix /\ q.win = r.win /\ q.buf = r.buf /\ q.info = r.info /\ q.bo = r.bo
BY DEF Readied, Statuses, Phases

LEMMA BareStatus ==
  ASSUME NEW r \in Statuses, NEW q \in Statuses, Bare(r), r.server.phase = "screen_init",
         SamePixmaps(r, q), SameWindows(r, q), SameBuffers(r, q), q.info = r.info,
         q.server.phase = "resources", \A g \in Handles \ {Scanout} : q.bo[g] = r.bo[g],
         IF q.server.useDumb
         THEN q.bo[Scanout].refcnt = 1 /\ q.bo[Scanout].ext = 0 /\ ~q.bo[Scanout].dmabuf
         ELSE q.bo[Scanout] = r.bo[Scanout]
  PROVE  Bare(q)
<1>1. q.pix = r.pix /\ q.win = r.win /\ q.buf = r.buf
  <2>1. /\ q.pix \in [AllPixmaps -> PixmapRecs] /\ r.pix \in [AllPixmaps -> PixmapRecs]
        /\ q.win \in [Windows -> WindowRecs] /\ r.win \in [Windows -> WindowRecs]
        /\ q.buf \in [Buffers -> Records \cup {NoInfo, NullBuffer}]
        /\ r.buf \in [Buffers -> Records \cup {NoInfo, NullBuffer}]
    BY DEF Statuses
  <2> QED
    BY <2>1 DEF SamePixmaps, SameWindows, SameBuffers
<1>2. r.bo[Scanout] = NoBO /\ \A h \in Handles \ {Scanout} : r.bo[h] = NoBO
  BY DEF Bare
<1> QED
  BY <1>1, <1>2 DEF Bare

LEMMA NothingIs ==
  ASSUME NEW r, Bare(r)
  PROVE  /\ \A p \in AllPixmaps : r.pix[p] = NoPixmap
         /\ \A w \in Windows : r.win[w].mem = NoInfo /\ r.win[w].pixmap = Screen
         /\ \A x \in Buffers : r.buf[x] = NoInfo
         /\ \A i \in Records : r.info[i] = Released
         /\ \A h \in Handles \ {Scanout} : r.bo[h] = NoBO
         /\ \A u \in Users : HeldBy(r)[u] = NoInfo
<1>1. /\ \A p \in AllPixmaps : r.pix[p] = NoPixmap
      /\ \A w \in Windows : r.win[w].mem = NoInfo /\ r.win[w].pixmap = Screen
      /\ \A x \in Buffers : r.buf[x] = NoInfo
      /\ \A i \in Records : r.info[i] = Released
      /\ \A h \in Handles \ {Scanout} : r.bo[h] = NoBO
  BY DEF Bare, NothingYet
<1>2. ASSUME NEW u \in Users
      PROVE  HeldBy(r)[u] = NoInfo
  <2>1. CASE u \in AllPixmaps
    BY <1>1, <2>1, PixmapHolds DEF NoPixmap
  <2>2. CASE u \in Windows
    BY <1>1, <2>2, WindowHolds
  <2>3. CASE u \in Buffers
    BY <1>1, <2>3, BufferHolds
  <2> QED
    BY <2>1, <2>2, <2>3 DEF Users
<1> QED
  BY <1>1, <1>2

LEMMA CountFirst ==
  ASSUME NEW r, NEW q, NEW u \in Users, NEW i \in Records, Moved(r, q, u, i),
         \A v \in Users : HeldBy(r)[v] = NoInfo
  PROVE  Count(HeldBy(q), i) = 1
<1>1. HeldBy(q)[u] = i /\ \A v \in Users \ {u} : HeldBy(q)[v] # i
  BY RecordsAre DEF Moved
<1>2. {v \in Users : HeldBy(q)[v] = i} = {u}
  BY <1>1
<1> QED
  BY <1>2, FS_Singleton DEF Count

\* The screen pixmap is there, and has the scanout buffer with EXA.
LEMMA FirstGood ==
  ASSUME NEW r, Bare(r), NEW q,
         OnePixmap(r, q, Screen), SameWindows(r, q), SameBuffers(r, q),
         q.pix[Screen].refcnt = 1,
         q.pix[Screen].info = (IF q.server.useDumb THEN Screen ELSE NoInfo),
         q.info[Screen].refcount = (IF q.server.useDumb THEN 1 ELSE 0),
         q.info[Screen].handle = (IF q.server.useDumb THEN Scanout ELSE Invalid),
         \A i \in Records \ {Screen} : q.info[i] = r.info[i],
         \A h \in Handles \ {Scanout} : q.bo[h] = r.bo[h],
         q.bo[Scanout].refcnt = (IF q.server.useDumb THEN 2 ELSE 0),
         q.bo[Scanout].ext = 0, ~q.bo[Scanout].dmabuf
  PROVE  Good(q) /\ \A u \in Users \ {Screen} : HeldBy(q)[u] = NoInfo
<1>1. /\ Screen \in AllPixmaps /\ Scratch \in AllPixmaps /\ Scratch # Screen
      /\ \A p \in Pixmaps : p \in AllPixmaps /\ p # Screen
      /\ Screen \in Users
  BY PixmapBoAssumption DEF AllPixmaps, Users
<1>2. /\ \A p \in AllPixmaps : r.pix[p] = NoPixmap
      /\ \A w \in Windows : r.win[w].mem = NoInfo /\ r.win[w].pixmap = Screen
      /\ \A x \in Buffers : r.buf[x] = NoInfo
      /\ \A i \in Records : r.info[i] = Released
      /\ \A h \in Handles \ {Scanout} : r.bo[h] = NoBO
      /\ \A u \in Users : HeldBy(r)[u] = NoInfo
  BY NothingIs
<1>3. /\ \A p \in AllPixmaps \ {Screen} : q.pix[p] = NoPixmap
      /\ \A w \in Windows : q.win[w].mem = NoInfo /\ q.win[w].pixmap = Screen
      /\ \A x \in Buffers : q.buf[x] = NoInfo
      /\ \A i \in Records \ {Screen} : q.info[i] = Released
      /\ \A h \in Handles \ {Scanout} : q.bo[h] = NoBO
  BY <1>2 DEF OnePixmap, SameWindows, SameBuffers
<1>4. Moved(r, q, Screen, q.pix[Screen].info)
  BY <1>1, PixmapMoved DEF SameWindows
<1>5. /\ HeldBy(q)[Screen] = q.pix[Screen].info
      /\ \A u \in Users \ {Screen} : HeldBy(q)[u] = NoInfo
  BY <1>2, <1>4 DEF Moved
<1>6. Counted(q)
  <2>1. ASSUME NEW i \in Records
        PROVE  Count(HeldBy(r), i) = 0
    <3>1. {u \in Users : HeldBy(r)[u] = i} = {}
      BY <1>2, RecordsAre
    <3> QED
      BY <3>1, FS_EmptySet DEF Count
  <2>2. ASSUME NEW i \in Records
        PROVE  q.info[i].refcount = Count(HeldBy(q), i)
    <3>1. CASE i = Screen /\ q.server.useDumb
      <4>1. q.pix[Screen].info = i /\ q.info[i].refcount = 1
        BY <3>1
      <4>2. Moved(r, q, Screen, i)
        BY <1>4, <4>1
      <4>3. Count(HeldBy(q), i) = 1
        BY <1>1, <1>2, <4>2, CountFirst
      <4> QED
        BY <4>1, <4>3
    <3>2. CASE i # Screen \/ ~q.server.useDumb
      <4>1. \A u \in Users : HeldBy(q)[u] # i
        BY <1>5, <3>2, RecordsAre
      <4>2. \A u \in Users : HeldBy(q)[u] = i <=> HeldBy(r)[u] = i
        BY <1>2, <4>1, RecordsAre
      <4>3. Count(HeldBy(q), i) = 0
        BY <2>1, <4>2, CountSame
      <4>4. q.info[i].refcount = 0
        BY <1>3, <3>2 DEF Released
      <4> QED
        BY <4>3, <4>4
    <3> QED
      BY <3>1, <3>2
  <2> QED
    BY <2>2 DEF Counted
<1>7. Backed(q)
  <2>1. \A i \in Infos : i \in Records \ {Screen} /\ i \in Handles \ {Scanout}
    BY RecordsAre
  <2>2. Released.refcount = 0 /\ Released.handle = Invalid
    BY DEF Released
  <2> QED
    BY <1>3, <2>1, <2>2 DEF Backed
<1>8. ScreenSet(q)
  <2>1. Screen \in Handles \ {Scanout}
    BY RecordsAre
  <2> QED
    BY <1>3, <2>1 DEF ScreenSet
<1>9. ScratchSet(q)
  <2>1. Scratch \in Handles \ {Scanout} /\ Scratch \in Records \ {Screen}
    BY RecordsAre
  <2> QED
    BY <1>1, <1>3, <2>1 DEF ScratchSet, Released
<1>10. PixmapsSet(q)
  <2>1. NoPixmap.refcnt = 0 /\ NoPixmap.info = NoInfo
    BY DEF NoPixmap
  <2>2. 0 \in 0 .. MaxRefs /\ 1 \in 0 .. MaxRefs
    BY PixmapBoAssumption
  <2>3. \A p \in AllPixmaps : q.pix[p].refcnt \in 0 .. MaxRefs
    BY <1>3, <2>1, <2>2
  <2>4. \A p \in Pixmaps : q.pix[p].refcnt = 0 /\ q.pix[p].info = NoInfo
    BY <1>1, <1>3, <2>1
  <2> QED
    BY <2>3, <2>4 DEF PixmapsSet
<1>11. BuffersSet(q)
  BY <1>3, RecordsAre DEF BuffersSet
<1>12. WindowsSet(q)
  BY <1>3 DEF WindowsSet
<1>13. HardwareSet(q)
  <2>1. \A i \in Infos : q.bo[i] = NoBO
    BY <1>3, RecordsAre
  <2>2. NoBO.ext = 0 /\ ~NoBO.dmabuf
    BY DEF NoBO
  <2> QED
    BY <1>3, <2>1, <2>2 DEF HardwareSet
<1> QED
  BY <1>5, <1>6, <1>7, <1>8, <1>9, <1>10, <1>11, <1>12, <1>13 DEF Good

\* The screen is there.
Opened(r, rec) == [r EXCEPT !.server.phase = "running", !.pix[Screen] = rec]

LEMMA OpenedOK ==
  ASSUME NEW r \in Statuses, NEW rec \in PixmapRecs
  PROVE  LET q == Opened(r, rec)
         IN /\ q \in Statuses /\ q.pix[Screen] = rec
            /\ OnePixmap(r, q, Screen) /\ SameWindows(r, q) /\ SameBuffers(r, q)
            /\ q.info = r.info /\ q.bo = r.bo
            /\ q.server.phase = "running" /\ q.server.useDumb = r.server.useDumb
<1> DEFINE q == Opened(r, rec)
<1>1. Screen \in AllPixmaps
  BY DEF AllPixmaps
<1>2. q \in Statuses
  BY <1>1 DEF Opened, Statuses, Phases
<1>3. /\ q.pix = [r.pix EXCEPT ![Screen] = rec]
      /\ q.win = r.win /\ q.buf = r.buf /\ q.info = r.info /\ q.bo = r.bo
      /\ q.server.phase = "running" /\ q.server.useDumb = r.server.useDumb
  BY DEF Opened, Statuses
<1>4. r.pix \in [AllPixmaps -> PixmapRecs]
  BY DEF Statuses
<1>5. q.pix[Screen] = rec /\ \A o \in AllPixmaps \ {Screen} : q.pix[o] = r.pix[o]
  BY <1>1, <1>3, <1>4
<1> HIDE DEF q
<1>6. OnePixmap(r, q, Screen) /\ SameWindows(r, q) /\ SameBuffers(r, q)
  BY <1>3, <1>5 DEF OnePixmap, SameWindows, SameBuffers
<1> QED
  BY <1>2, <1>3, <1>5, <1>6 DEF q

\* What the screen pixmap is made from with EXA.
ScreenHeader(r) ==
  LET r1 == CreatePixmap2(r, Screen, "plain", TRUE, "works")
      r2 == ModifyPixmapHeader(r1, Screen, "plain", FALSE, "scanout", "works")
  IN ModifyPixmapHeader(r2, Screen, "plain", FALSE, "none", "works")

LEMMA ScreenHeaderIs ==
  ASSUME NEW r \in Statuses, r.info[Screen] = Released, r.bo[Scanout].refcnt = 1
  PROVE  LET q == ScreenHeader(r)
         IN /\ q \in Statuses /\ q.server = r.server
            /\ q.pix = r.pix /\ q.win = r.win /\ q.buf = r.buf
            /\ \A i \in Records \ {Screen} : q.info[i] = r.info[i]
            /\ \A h \in Handles \ {Scanout} : q.bo[h] = r.bo[h]
            /\ q.info[Screen].refcount = 1 /\ q.info[Screen].handle = Scanout
            /\ q.bo[Scanout].refcnt = 2 /\ q.bo[Scanout].ext = r.bo[Scanout].ext
            /\ q.bo[Scanout].dmabuf = r.bo[Scanout].dmabuf
<1> DEFINE r1 == [r EXCEPT !.info[Screen] = EmptyInfo]
           more == [r.bo[Scanout] EXCEPT !.refcnt = @ + 1]
           held == [r1 EXCEPT !.bo[Scanout] = more]
           rec == [EmptyInfo EXCEPT !.handle = Scanout, !.addr = TRUE]
           q == [held EXCEPT !.info[Screen] = rec]
<1>1. /\ Screen \in Records /\ Scanout \in Handles /\ Scanout # Invalid
      /\ Scanout \in Handles \cup {Invalid}
  BY RecordsAre
<1>3. EmptyInfo \in InfoRecs /\ EmptyInfo.refcount = 1 /\ EmptyInfo.handle = Invalid
  <2>1. TRUE \in BOOLEAN
    OBVIOUS
  <2> QED
    BY Zenon, <1>1, <2>1, HoldingOK
<1>4. /\ r1 \in Statuses /\ r1.info[Screen] = EmptyInfo /\ r1.bo = r.bo
      /\ r1.server = r.server /\ r1.pix = r.pix /\ r1.win = r.win /\ r1.buf = r.buf
      /\ \A i \in Records \ {Screen} : r1.info[i] = r.info[i]
  BY <1>1, <1>3 DEF Statuses
<1>5. CreatePixmap2(r, Screen, "plain", TRUE, "works") = r1
  BY DEF CreatePixmap2, EmptyInfo
<1> HIDE DEF r1
<1>6. /\ more \in BoRecs /\ more.refcnt = 2 /\ more.ext = r.bo[Scanout].ext
      /\ more.dmabuf = r.bo[Scanout].dmabuf
  <2>1. r.bo[Scanout] \in BoRecs
    BY <1>1 DEF Statuses
  <2> QED
    BY <2>1 DEF BoRecs
<1>7. BoHold(r1, Scanout) = held
  BY <1>4 DEF BoHold, Use, ArmsocReference
<1> HIDE DEF more
<1>8. /\ held \in Statuses /\ held.info = r1.info /\ held.bo[Scanout] = more
      /\ held.server = r1.server /\ held.pix = r1.pix /\ held.win = r1.win /\ held.buf = r1.buf
      /\ \A h \in Handles \ {Scanout} : held.bo[h] = r1.bo[h]
  BY <1>1, <1>4, <1>6 DEF Statuses
<1> HIDE DEF held
<1>9. rec \in InfoRecs /\ rec.addr /\ rec.refcount = 1 /\ rec.handle = Scanout
  BY <1>1, <1>3 DEF InfoRecs
<1>10. [held EXCEPT !.info[Screen].handle = Scanout, !.info[Screen].addr = TRUE] = q
  <2>2. held.info[Screen] = EmptyInfo
    BY <1>4, <1>8
  <2>3. [held EXCEPT !.info[Screen].handle = Scanout, !.info[Screen].addr = TRUE]
          = [held EXCEPT !.info[Screen] = [held.info[Screen] EXCEPT !.handle = Scanout, !.addr = TRUE]]
    BY <1>1, <1>8 DEF Statuses
  <2> QED
    BY <2>2, <2>3
<1>11. ModifyPixmapHeader(r1, Screen, "plain", FALSE, "scanout", "works") = q
  <2>1. r1.info[Screen].handle = Invalid
    BY <1>3, <1>4
  <2>2. TakeScanout(r1, Screen) = q
    BY <1>7, <1>10, <2>1 DEF TakeScanout
  <2> QED
    BY <1>1, <2>1, <2>2 DEF ModifyPixmapHeader
<1>12. /\ q \in Statuses /\ q.info[Screen] = rec /\ q.bo = held.bo
       /\ q.server = held.server /\ q.pix = held.pix /\ q.win = held.win /\ q.buf = held.buf
       /\ \A i \in Records \ {Screen} : q.info[i] = held.info[i]
  BY <1>1, <1>8, <1>9 DEF Statuses
<1> HIDE DEF q, rec
<1>13. ScreenHeader(r) = q
  <2>1. q.info[Screen].addr
    BY <1>9, <1>12
  <2>2. ModifyPixmapHeader(q, Screen, "plain", FALSE, "none", "works") = q
    BY <2>1 DEF ModifyPixmapHeader
  <2> QED
    BY <1>5, <1>11, <2>2 DEF ScreenHeader
<1>14. /\ q \in Statuses /\ q.server = r.server
       /\ q.pix = r.pix /\ q.win = r.win /\ q.buf = r.buf
       /\ \A i \in Records \ {Screen} : q.info[i] = r.info[i]
       /\ \A h \in Handles \ {Scanout} : q.bo[h] = r.bo[h]
  BY <1>4, <1>8, <1>12
<1>15. q.info[Screen].refcount = 1 /\ q.info[Screen].handle = Scanout
  BY <1>9, <1>12
<1>16. q.bo[Scanout] = more
  BY <1>8, <1>12
<1> QED
  BY <1>6, <1>13, <1>14, <1>15, <1>16

\* The screen pixmap of EXA, and the one with memory of its own.
FirstPixmap(k) == [[NoPixmap EXCEPT !.info = k] EXCEPT !.refcnt = 1]

OwnPixmap == [[NoPixmap EXCEPT !.ptr = "own"] EXCEPT !.refcnt = 1]

LEMMA FirstPixmapsOK ==
  ASSUME NEW k \in Records
  PROVE  /\ FirstPixmap(k) \in PixmapRecs /\ FirstPixmap(k).refcnt = 1 /\ FirstPixmap(k).info = k
         /\ OwnPixmap \in PixmapRecs /\ OwnPixmap.refcnt = 1 /\ OwnPixmap.info = NoInfo
<1>1. NoPixmap \in PixmapRecs /\ NoPixmap.info = NoInfo
  BY DEF NoPixmap, PixmapRecs
<1>2. \A t \in PixmapRecs :
        [t EXCEPT !.info = k] \in PixmapRecs /\ [t EXCEPT !.info = k].info = k
  BY DEF PixmapRecs
<1>3. \A t \in PixmapRecs :
        [t EXCEPT !.ptr = "own"] \in PixmapRecs /\ [t EXCEPT !.ptr = "own"].info = t.info
  BY DEF PixmapRecs
<1>4. \A t \in PixmapRecs :
        /\ [t EXCEPT !.refcnt = 1] \in PixmapRecs
        /\ [t EXCEPT !.refcnt = 1].refcnt = 1 /\ [t EXCEPT !.refcnt = 1].info = t.info
  BY DEF PixmapRecs
<1> QED
  BY Zenon, <1>1, <1>2, <1>3, <1>4 DEF FirstPixmap, OwnPixmap

\* The expression of CreateScreenResources.
ScreenMade(r) ==
  LET s == IF r.server.useDumb THEN [ScreenHeader(r) EXCEPT !.pix[Screen].info = Screen]
           ELSE [r EXCEPT !.pix[Screen].ptr = "own"]
  IN [s EXCEPT !.server.phase = "running", !.pix[Screen].refcnt = 1]

LEMMA ScreenMadeOK ==
  ASSUME NEW r \in Statuses, Bare(r), r.server.phase = "resources"
  PROVE  LET q == ScreenMade(r)
         IN /\ q \in Statuses /\ Good(q)
            /\ q.server.phase = "running" /\ q.server.useDumb = r.server.useDumb
            /\ \A u \in Users \ {Screen} : HeldBy(q)[u] = NoInfo
<1> DEFINE s == IF r.server.useDumb THEN ScreenHeader(r) ELSE r
           rec == IF r.server.useDumb THEN FirstPixmap(Screen) ELSE OwnPixmap
           q == Opened(s, rec)
<1>1. Screen \in AllPixmaps /\ Screen \in Records /\ Screen \in Records \cup {NoInfo}
      /\ NoInfo \in Records \cup {NoInfo}
  BY RecordsAre DEF AllPixmaps
<1>2. r.pix[Screen] = NoPixmap /\ r.info[Screen] = Released
  BY <1>1, NothingIs
<1>3. r.server.useDumb => r.bo[Scanout].refcnt = 1
  BY DEF Bare
<1>4. r.bo[Scanout].ext = 0 /\ ~r.bo[Scanout].dmabuf /\ (~r.server.useDumb => r.bo[Scanout].refcnt = 0)
  BY DEF Bare, NoBO
<1>5. /\ s \in Statuses /\ s.server = r.server
      /\ s.pix = r.pix /\ s.win = r.win /\ s.buf = r.buf
      /\ \A i \in Records \ {Screen} : s.info[i] = r.info[i]
      /\ \A h \in Handles \ {Scanout} : s.bo[h] = r.bo[h]
  BY <1>2, <1>3, ScreenHeaderIs
<1>6. CASE r.server.useDumb
  <2>1. s = ScreenHeader(r)
    BY <1>6
  <2>6. rec \in PixmapRecs /\ rec.refcnt = 1 /\ rec.info = Screen
    BY <1>1, <1>6, FirstPixmapsOK
  <2>2. ScreenMade(r) = [[s EXCEPT !.pix[Screen].info = Screen]
                           EXCEPT !.server.phase = "running", !.pix[Screen].refcnt = 1]
    BY <1>6, <2>1 DEF ScreenMade
  <2>3. [[NoPixmap EXCEPT !.info = Screen] EXCEPT !.refcnt = 1] = rec
    BY <1>6 DEF FirstPixmap
  <2> HIDE DEF s, rec
  <2>4. s.pix[Screen] = NoPixmap
    BY <1>2, <1>5
  <2>5. ScreenMade(r) = q
    BY ZenonT(30), <1>1, <1>5, <2>2, <2>3, <2>4 DEF Opened, Statuses
  <2>7. /\ s.info[Screen].refcount = 1 /\ s.info[Screen].handle = Scanout
        /\ s.bo[Scanout].refcnt = 2 /\ s.bo[Scanout].ext = 0
        /\ ~s.bo[Scanout].dmabuf
    BY <1>2, <1>3, <1>4, <1>6, <2>1, ScreenHeaderIs
  <2>8. /\ q \in Statuses /\ q.pix[Screen] = rec
        /\ OnePixmap(s, q, Screen) /\ SameWindows(s, q) /\ SameBuffers(s, q)
        /\ q.info = s.info /\ q.bo = s.bo
        /\ q.server.phase = "running" /\ q.server.useDumb = s.server.useDumb
    BY <1>5, <2>6, OpenedOK
  <2> HIDE DEF q
  <2>9. OnePixmap(r, q, Screen) /\ SameWindows(r, q) /\ SameBuffers(r, q)
    BY <1>5, <2>8 DEF OnePixmap, SameWindows, SameBuffers
  <2>10. q.server.useDumb
    BY Zenon, <1>5, <1>6, <2>8
  <2>11. /\ q.pix[Screen].refcnt = 1
         /\ q.pix[Screen].info = (IF q.server.useDumb THEN Screen ELSE NoInfo)
         /\ q.info[Screen].refcount = (IF q.server.useDumb THEN 1 ELSE 0)
         /\ q.info[Screen].handle = (IF q.server.useDumb THEN Scanout ELSE Invalid)
    BY <2>6, <2>7, <2>8, <2>10
  <2>12. /\ \A i \in Records \ {Screen} : q.info[i] = r.info[i]
         /\ \A h \in Handles \ {Scanout} : q.bo[h] = r.bo[h]
    BY <1>5, <2>8
  <2>13. /\ q.bo[Scanout].refcnt = (IF q.server.useDumb THEN 2 ELSE 0)
         /\ q.bo[Scanout].ext = 0 /\ ~q.bo[Scanout].dmabuf
    BY <2>7, <2>8, <2>10
  <2>14. Good(q) /\ \A u \in Users \ {Screen} : HeldBy(q)[u] = NoInfo
    BY <2>9, <2>11, <2>12, <2>13, FirstGood
  <2> QED
    BY <1>5, <2>5, <2>8, <2>14
<1>7. CASE ~r.server.useDumb
  <2>1. s = r
    BY <1>7
  <2>6. rec \in PixmapRecs /\ rec.refcnt = 1 /\ rec.info = NoInfo
    BY <1>1, <1>7, FirstPixmapsOK
  <2>2. ScreenMade(r) = [[r EXCEPT !.pix[Screen].ptr = "own"]
                           EXCEPT !.server.phase = "running", !.pix[Screen].refcnt = 1]
    BY <1>7 DEF ScreenMade
  <2>3. [[NoPixmap EXCEPT !.ptr = "own"] EXCEPT !.refcnt = 1] = rec
    BY <1>7 DEF OwnPixmap
  <2> HIDE DEF s, rec
  <2>5. ScreenMade(r) = q
    BY ZenonT(30), <1>1, <1>2, <2>1, <2>2, <2>3 DEF Opened, Statuses
  <2>8. /\ q \in Statuses /\ q.pix[Screen] = rec
        /\ OnePixmap(s, q, Screen) /\ SameWindows(s, q) /\ SameBuffers(s, q)
        /\ q.info = s.info /\ q.bo = s.bo
        /\ q.server.phase = "running" /\ q.server.useDumb = s.server.useDumb
    BY <1>5, <2>6, OpenedOK
  <2> HIDE DEF q
  <2>9. OnePixmap(r, q, Screen) /\ SameWindows(r, q) /\ SameBuffers(r, q)
    BY <2>1, <2>8
  <2>10. ~q.server.useDumb
    BY Zenon, <1>7, <2>1, <2>8
  <2>7. r.info[Screen].refcount = 0 /\ r.info[Screen].handle = Invalid
    BY <1>2 DEF Released
  <2>11. /\ q.pix[Screen].refcnt = 1
         /\ q.pix[Screen].info = (IF q.server.useDumb THEN Screen ELSE NoInfo)
         /\ q.info[Screen].refcount = (IF q.server.useDumb THEN 1 ELSE 0)
         /\ q.info[Screen].handle = (IF q.server.useDumb THEN Scanout ELSE Invalid)
    BY <2>1, <2>6, <2>7, <2>8, <2>10
  <2>12. /\ \A i \in Records \ {Screen} : q.info[i] = r.info[i]
         /\ \A h \in Handles \ {Scanout} : q.bo[h] = r.bo[h]
    BY <2>1, <2>8
  <2>13. /\ q.bo[Scanout].refcnt = (IF q.server.useDumb THEN 2 ELSE 0)
         /\ q.bo[Scanout].ext = 0 /\ ~q.bo[Scanout].dmabuf
    BY <1>4, <1>7, <2>1, <2>8, <2>10
  <2>14. Good(q) /\ \A u \in Users \ {Screen} : HeldBy(q)[u] = NoInfo
    BY <2>9, <2>11, <2>12, <2>13, FirstGood
  <2> QED
    BY <2>1, <2>5, <2>8, <2>14
<1> QED
  BY <1>6, <1>7

-----------------------------------------------------------------------------
(***************************************************************************)
(* The actions.                                                            *)
(***************************************************************************)

\* What a step from r to q may do: the server dies, runs on, or comes up.
Steps(r, q) ==
  /\ GoodStatus(q)
  /\ \/ q.server.phase = "dead"
     \/ r.server.phase = "running" /\ q.server = r.server /\ Shape(r, q)
     \/ /\ r.server.phase = "screen_init" /\ q.server.phase = "resources"
        /\ q.server.useDumb = r.server.useDumb
     \/ /\ r.server.phase = "resources" /\ q.server.phase = "running"
        /\ q.server.useDumb = r.server.useDumb
        /\ \A u \in Users \ {Screen} : HeldBy(q)[u] = NoInfo

LEMMA StatusIs ==
  /\ Status.server = server /\ Status.pix = pix /\ Status.win = win
  /\ Status.buf = buf /\ Status.info = info /\ Status.bo = bo
BY DEF Status

LEMMA BecomeAlive ==
  ASSUME NEW q \in Statuses, Alive(q), Become(q)
  PROVE  Status' = q
<1>1. q = [server |-> q.server, pix |-> q.pix, win |-> q.win, buf |-> q.buf,
           info |-> q.info, bo |-> q.bo]
  BY DEF Statuses
<1>2. /\ server' = q.server /\ pix' = q.pix /\ win' = q.win /\ buf' = q.buf
      /\ info' = q.info /\ bo' = q.bo
  BY DEF Become, Alive
<1> QED
  BY <1>1, <1>2 DEF Status

LEMMA NothingOK ==
  /\ NothingYet.pix \in [AllPixmaps -> PixmapRecs]
  /\ NothingYet.win \in [Windows -> WindowRecs]
  /\ NothingYet.buf \in [Buffers -> Records \cup {NoInfo, NullBuffer}]
  /\ NothingYet.info \in [Records -> InfoRecs]
  /\ NothingYet.bo \in [Handles -> BoRecs]
<1>1. NoPixmap \in PixmapRecs
  BY DEF NoPixmap, PixmapRecs
<1>2. [pixmap |-> Screen, mem |-> NoInfo] \in WindowRecs
  BY DEF WindowRecs, AllPixmaps
<1>3. Released \in InfoRecs /\ NoBO \in BoRecs
  BY InfoRecsOK, BoRecsOK
<1> QED
  BY <1>1, <1>2, <1>3 DEF NothingYet

\* A status without anything.
LEMMA NothingIsGood ==
  ASSUME NEW r, r = [server |-> r.server, pix |-> r.pix, win |-> r.win, buf |-> r.buf,
                     info |-> r.info, bo |-> r.bo],
         r.server \in [phase : {"screen_init", "dead"}, useDumb : BOOLEAN],
         r.pix = NothingYet.pix, r.win = NothingYet.win, r.buf = NothingYet.buf,
         r.info = NothingYet.info, r.bo = NothingYet.bo
  PROVE  GoodStatus(r)
<1>1. r \in Statuses
  BY NothingOK DEF Statuses, Phases
<1>2. \A h \in Handles : r.bo[h] = NoBO
  BY DEF NothingYet
<1>3. r.server.phase \in {"screen_init", "dead"}
  OBVIOUS
<1>4. Bare(r)
  BY <1>2, <1>3, RecordsAre DEF Bare
<1> QED
  BY <1>1, <1>3, <1>4 DEF GoodStatus

LEMMA BecomeDead ==
  ASSUME NEW q, q.server \in [phase : {"dead"}, useDumb : BOOLEAN], Become(q)
  PROVE  GoodStatus(Status') /\ Status'.server.phase = "dead"
<1> DEFINE r == Status'
<1>1. r.server = q.server /\ r.server.phase = "dead"
  BY DEF Status, Become
<1>2. /\ r.pix = NothingYet.pix /\ r.win = NothingYet.win /\ r.buf = NothingYet.buf
      /\ r.info = NothingYet.info /\ r.bo = NothingYet.bo
  BY DEF Status, Become
<1>3. r = [server |-> r.server, pix |-> r.pix, win |-> r.win, buf |-> r.buf,
           info |-> r.info, bo |-> r.bo]
  BY DEF Status
<1> HIDE DEF r
<1>4. r.server \in [phase : {"screen_init", "dead"}, useDumb : BOOLEAN]
  BY <1>1
<1>5. GoodStatus(r)
  BY <1>2, <1>3, <1>4, NothingIsGood
<1> QED
  BY <1>1, <1>5 DEF r

\* The result of an expression of the running server is the next status.
LEMMA RunningStep ==
  ASSUME GoodStatus(Status), server.phase = "running", NEW q, Runs(Status, q), Become(q)
  PROVE  Steps(Status, Status')
<1>1. Status \in Statuses /\ Status.server = server
  BY StatusIs DEF GoodStatus
<1>2. server \in [phase : Phases, useDumb : BOOLEAN]
  BY <1>1 DEF Statuses
<1>3. CASE q.server = [server EXCEPT !.phase = "dead"]
  <2>1. q.server \in [phase : {"dead"}, useDumb : BOOLEAN]
    BY <1>2, <1>3
  <2> QED
    BY <2>1, BecomeDead DEF Steps
<1>4. CASE q.server = server /\ q \in Statuses /\ Good(q) /\ Shape(Status, q)
  <2>1. Alive(q)
    BY <1>4 DEF Alive
  <2>2. Status' = q
    BY <1>4, <2>1, BecomeAlive
  <2>3. GoodStatus(q)
    BY <1>4 DEF GoodStatus
  <2> QED
    BY <1>1, <1>4, <2>2, <2>3 DEF Steps
<1> QED
  BY <1>1, <1>3, <1>4 DEF Runs

LEMMA FreeInfosAre ==
  ASSUME NEW i \in FreeInfos(Status)
  PROVE  i \in Infos /\ Status.info[i].refcount = 0
BY DEF FreeInfos

LEMMA CreatePixmapSteps ==
  ASSUME GoodStatus(Status), NEW p \in Pixmaps, NEW usage, CreatePixmap(p, usage)
  PROVE  Steps(Status, Status')
<1> DEFINE made(outcome, i) ==
             IF server.useDumb
             THEN [ExaCreatePixmap(Status, i, usage, outcome)
                     EXCEPT !.pix[p] = [NoPixmap EXCEPT !.refcnt = 1, !.info = i]]
             ELSE [Status EXCEPT !.pix[p] = [NoPixmap EXCEPT !.refcnt = 1, !.ptr = "own"]]
<1>1. PICK outcome \in Outcomes \ {"no_fb", "no_dmabuf"}, i \in FreeInfos(Status) :
        server.phase = "running" /\ pix[p].refcnt = 0 /\ Become(made(outcome, i))
  BY DEF CreatePixmap
<1>2. Status \in Statuses /\ Good(Status) /\ Status.server = server /\ Status.pix[p].refcnt = 0
  BY <1>1, StatusIs DEF GoodStatus
<1>3. i \in Infos /\ Status.info[i].refcount = 0
  BY FreeInfosAre
<1>4. Runs(Status, made(outcome, i))
  <2>1. CASE server.useDumb
    BY <1>2, <1>3, <2>1, CreatePixmapRuns
  <2>2. CASE ~server.useDumb
    BY <1>2, <2>2, CreateOwnPixmapRuns
  <2> QED
    BY <2>1, <2>2
<1> HIDE DEF made
<1> QED
  BY <1>1, <1>4, RunningStep

LEMMA UsePixmapSteps ==
  ASSUME GoodStatus(Status), NEW p \in Pixmaps, UsePixmap(p)
  PROVE  Steps(Status, Status')
<1> DEFINE q == [Status EXCEPT !.pix[p].refcnt = @ + 1]
<1>1. server.phase = "running" /\ pix[p].refcnt \in 1 .. MaxRefs - 1 /\ Become(q)
  BY DEF UsePixmap
<1>2. Status \in Statuses /\ Good(Status) /\ Status.pix[p].refcnt \in 1 .. MaxRefs - 1
  BY <1>1, StatusIs DEF GoodStatus
<1>3. Runs(Status, q)
  BY <1>2, UsePixmapRuns
<1> HIDE DEF q
<1> QED
  BY <1>1, <1>3, RunningStep

LEMMA DestroyPixmapSteps ==
  ASSUME GoodStatus(Status), NEW p \in Pixmaps, DestroyPixmap(p)
  PROVE  Steps(Status, Status')
<1>1. /\ server.phase = "running" /\ pix[p].refcnt > 0 /\ Become(Destroyed(Status, p))
      /\ pix[p].refcnt = 1 => \A w \in Windows : win[w].pixmap # p
  BY DEF DestroyPixmap
<1>2. /\ Status \in Statuses /\ Good(Status) /\ Status.pix[p].refcnt > 0
      /\ Status.pix[p].refcnt = 1 => \A w \in Windows : Status.win[w].pixmap # p
  BY <1>1, StatusIs DEF GoodStatus
<1>3. Runs(Status, Destroyed(Status, p))
  BY <1>2, DestroyedRuns
<1> QED
  BY <1>1, <1>3, RunningStep

LEMMA AccessPixmapSteps ==
  ASSUME GoodStatus(Status), NEW p \in Pixmaps \cup {Screen}, AccessPixmap(p)
  PROVE  Steps(Status, Status')
<1> DEFINE h == info[pix[p].info].handle
           q(outcome) == BoUnmap(BoMap(Status, h, TRUE, outcome), h)
<1>1. PICK outcome \in Outcomes \cap {"works", "no_dmabuf"} :
        /\ server.phase = "running" /\ server.useDumb
        /\ pix[p].refcnt > 0 /\ Become(q(outcome))
  BY DEF AccessPixmap
<1>2. /\ Status \in Statuses /\ Good(Status) /\ Status.pix[p].refcnt > 0 /\ Status.server.useDumb
      /\ Status.info[Status.pix[p].info].handle = h
  BY <1>1, StatusIs DEF GoodStatus
<1>3. Runs(Status, q(outcome))
  BY <1>2, AccessPixmapRuns
<1> HIDE DEF q
<1> QED
  BY <1>1, <1>3, RunningStep

LEMMA RedirectWindowSteps ==
  ASSUME GoodStatus(Status), NEW w \in Windows, NEW p \in Pixmaps, RedirectWindow(w, p)
  PROVE  Steps(Status, Status')
<1> DEFINE q(outcome, i) == [ExaCreatePixmap(Status, i, "backing", outcome) EXCEPT
                 !.win[w].pixmap = p, !.pix[p] = [NoPixmap EXCEPT !.refcnt = 1, !.info = i]]
<1>1. PICK outcome \in Outcomes \ {"no_fb", "no_dmabuf"}, i \in FreeInfos(Status) :
        /\ server.phase = "running" /\ server.useDumb
        /\ win[w].pixmap = Screen /\ pix[p].refcnt = 0 /\ Become(q(outcome, i))
  BY DEF RedirectWindow
<1>2. /\ Status \in Statuses /\ Good(Status) /\ Status.server.useDumb
      /\ Status.pix[p].refcnt = 0 /\ Status.win[w].pixmap = Screen
  BY <1>1, StatusIs DEF GoodStatus
<1>3. i \in Infos /\ Status.info[i].refcount = 0
  BY FreeInfosAre
<1>4. Runs(Status, q(outcome, i))
  BY <1>2, <1>3, RedirectWindowRuns
<1> HIDE DEF q
<1> QED
  BY <1>1, <1>4, RunningStep

LEMMA UnredirectWindowSteps ==
  ASSUME GoodStatus(Status), NEW w \in Windows, UnredirectWindow(w)
  PROVE  Steps(Status, Status')
<1> DEFINE q == Destroyed([Status EXCEPT !.win[w].pixmap = Screen], Status.win[w].pixmap)
<1>1. server.phase = "running" /\ win[w].pixmap # Screen /\ Become(q)
  BY StatusIs DEF UnredirectWindow
<1>2. Status \in Statuses /\ Good(Status) /\ Status.win[w].pixmap # Screen
  BY <1>1, StatusIs DEF GoodStatus
<1>3. Runs(Status, q)
  BY <1>2, UnredirectWindowRuns
<1> HIDE DEF q
<1> QED
  BY <1>1, <1>3, RunningStep

LEMMA CopyRegionSteps ==
  ASSUME GoodStatus(Status), NEW w \in Windows, CopyRegion(w)
  PROVE  Steps(Status, Status')
<1> DEFINE h == info[win[w].mem].handle
           q == SwitchHwUsage(ScratchHeader(SwitchHwUsage(Status, h, TRUE)), h, FALSE)
<1>1. server.phase = "running" /\ server.useDumb /\ win[w].mem # NoInfo /\ Become(q)
  BY DEF CopyRegion
<1>2. /\ Status \in Statuses /\ Good(Status) /\ Status.server.useDumb /\ Status.win[w].mem # NoInfo
      /\ Status.info[Status.win[w].mem].handle = h
  BY <1>1, StatusIs DEF GoodStatus
<1>3. Runs(Status, q)
  BY <1>2, CopyRegionRuns
<1> HIDE DEF q
<1> QED
  BY <1>1, <1>3, RunningStep

LEMMA DestroyWindowSteps ==
  ASSUME GoodStatus(Status), NEW w \in Windows, DestroyWindow(w)
  PROVE  Steps(Status, Status')
<1>1. server.phase = "running" /\ Become(UnrefMem(Status, w))
  BY DEF DestroyWindow
<1>2. Status \in Statuses /\ Good(Status)
  BY <1>1, StatusIs DEF GoodStatus
<1>3. Runs(Status, UnrefMem(Status, w))
  BY <1>2, DestroyWindowRuns
<1> QED
  BY <1>1, <1>3, RunningStep

LEMMA CreatePixmapBufferSteps ==
  ASSUME GoodStatus(Status), NEW x \in Buffers, NEW p \in Pixmaps \cup {Screen},
         NEW front \in BOOLEAN, CreatePixmapBuffer(x, p, front)
  PROVE  Steps(Status, Status')
<1> DEFINE q(outcome, i) == PixmapBuffer(Status, x, p, front, outcome, i)
<1>1. PICK outcome \in Outcomes \cap {"works", "no_bo"}, i \in FreeInfos(Status) :
        /\ server.phase = "running" /\ buf[x] = NoInfo /\ pix[p].refcnt > 0
        /\ front => server.useDumb /\ pix[p].refcnt < MaxRefs
        /\ ~front => p # Screen
        /\ Become(q(outcome, i))
  BY ZenonT(30) DEF CreatePixmapBuffer, PixmapBuffer
<1>2. /\ Status \in Statuses /\ Good(Status) /\ Status.buf[x] = NoInfo
      /\ Status.pix[p].refcnt > 0
      /\ front => Status.server.useDumb /\ Status.pix[p].refcnt < MaxRefs
  BY <1>1, StatusIs DEF GoodStatus
<1>3. i \in Infos /\ Status.info[i].refcount = 0
  BY FreeInfosAre
<1>4. Runs(Status, q(outcome, i))
  BY <1>1, <1>2, <1>3, CreatePixmapBufferRuns
<1> HIDE DEF q
<1> QED
  BY <1>1, <1>4, RunningStep

LEMMA CreateNullBufferSteps ==
  ASSUME GoodStatus(Status), NEW x \in Buffers, NEW w \in Windows, CreateNullBuffer(x, w)
  PROVE  Steps(Status, Status')
<1> DEFINE q == [UnrefMem(Status, w) EXCEPT !.buf[x] = NullBuffer]
<1>1. server.phase = "running" /\ buf[x] = NoInfo /\ Become(q)
  BY DEF CreateNullBuffer, MayRequest
<1>2. Status \in Statuses /\ Good(Status) /\ Status.buf[x] = NoInfo
  BY <1>1, StatusIs DEF GoodStatus
<1>3. Runs(Status, q)
  BY <1>2, CreateNullBufferRuns
<1> HIDE DEF q
<1> QED
  BY <1>1, <1>3, RunningStep

LEMMA ReuseMemBufferSteps ==
  ASSUME GoodStatus(Status), NEW x \in Buffers, NEW w \in Windows, ReuseMemBuffer(x, w)
  PROVE  Steps(Status, Status')
<1> DEFINE i == Status.win[w].mem
           q == [Status EXCEPT !.info[i].refcount = @ + 1, !.buf[x] = i]
<1>1. server.phase = "running" /\ buf[x] = NoInfo /\ i # NoInfo /\ Become(q)
  BY StatusIs DEF ReuseMemBuffer, MayRequest
<1>2. Status \in Statuses /\ Good(Status) /\ Status.buf[x] = NoInfo
  BY <1>1, StatusIs DEF GoodStatus
<1>3. Runs(Status, q)
  BY <1>1, <1>2, ReuseMemBufferRuns
<1> HIDE DEF q
<1> QED
  BY <1>1, <1>3, RunningStep

LEMMA AllocMemBufferSteps ==
  ASSUME GoodStatus(Status), NEW x \in Buffers, NEW w \in Windows, AllocMemBuffer(x, w)
  PROVE  Steps(Status, Status')
<1> DEFINE r2(outcome, canflip, i) ==
             HandedToHW(ExaCreatePixmap(Status, i, IF canflip THEN "scanout" ELSE "backing", outcome), i)
           r3(outcome, canflip, i) == MappedIfNot(r2(outcome, canflip, i), i, outcome)
           r4(outcome, canflip, i) ==
             MemCounted([UnrefMem(r3(outcome, canflip, i), w) EXCEPT !.win[w].mem = i], i)
           r5(outcome, canflip, i) == FlipAdded(r4(outcome, canflip, i), i, canflip, outcome)
           q(outcome, canflip, i) == BufferSet(r5(outcome, canflip, i), x, i)
<1>1. PICK outcome \in Outcomes, canflip \in BOOLEAN, i \in FreeInfos(Status) :
        MayRequest(x) /\ Become(q(outcome, canflip, i))
  BY DEF AllocMemBuffer, MappedIfNot, AddrRead, FlipAdded, BufferSet
<1>2. /\ Status \in Statuses /\ Good(Status) /\ Status.buf[x] = NoInfo /\ Status.server.useDumb
      /\ server.phase = "running"
  BY <1>1, StatusIs DEF GoodStatus, MayRequest
<1>3. i \in Infos /\ Status.info[i].refcount = 0
  BY FreeInfosAre
<1>4. Runs(Status, q(outcome, canflip, i))
  BY <1>2, <1>3, AllocMemBufferRuns
<1> HIDE DEF q
<1> QED
  BY <1>1, <1>2, <1>4, RunningStep

LEMMA DestroyBufferSteps ==
  ASSUME GoodStatus(Status), NEW x \in Buffers, DestroyBuffer(x)
  PROVE  Steps(Status, Status')
<1> DEFINE q == [IF Status.buf[x] = NullBuffer THEN Status ELSE Unref(Status, Status.buf[x])
                   EXCEPT !.buf[x] = NoInfo]
<1>1. server.phase = "running" /\ Status.buf[x] # NoInfo /\ Become(q)
  BY StatusIs DEF DestroyBuffer
<1>2. Status \in Statuses /\ Good(Status)
  BY <1>1, StatusIs DEF GoodStatus
<1>3. Runs(Status, q)
  BY <1>1, <1>2, DestroyBufferRuns
<1> HIDE DEF q
<1> QED
  BY <1>1, <1>3, RunningStep

LEMMA ScreenInitSteps ==
  ASSUME GoodStatus(Status), ScreenInit
  PROVE  Steps(Status, Status')
<1> DEFINE s(outcome) ==
             BoMap(BoNew(Status, Scanout, "scanout", outcome), Scanout, Maps(outcome, 1), outcome)
<1>1. PICK outcome \in Outcomes \cap {"works", "no_bo", "no_map"} :
        /\ server.phase = "screen_init"
        /\ CASE ~server.useDumb -> Become(Readied(Status))
             [] server.useDumb /\ s(outcome).server.phase # "dead" /\ s(outcome).bo[Scanout].mapped ->
                  Become(Readied(s(outcome)))
             [] OTHER -> Become(Die(s(outcome)))
  BY DEF ScreenInit, Readied
<1> DEFINE r == s(outcome)
<1>2. /\ Status \in Statuses /\ Bare(Status) /\ Status.server = server
      /\ Status.server.phase = "screen_init"
  BY <1>1, StatusIs DEF GoodStatus
<1>3. server \in [phase : Phases, useDumb : BOOLEAN]
  BY <1>2 DEF Statuses
<1>4. /\ Goes(Status, r)
      /\ Alive(r) => /\ OnlyBo(Status, r, Scanout) /\ r.bo[Scanout].refcnt = 1
                     /\ r.bo[Scanout].ext = 0 /\ ~r.bo[Scanout].dmabuf
  BY <1>2, ScanoutAllocated
<1>5. \/ ~server.useDumb /\ Become(Readied(Status))
      \/ server.useDumb /\ Alive(r) /\ Become(Readied(r))
      \/ Become(Die(r))
  BY <1>1 DEF Alive
<1> HIDE DEF s, r
<1>6. CASE ~server.useDumb /\ Become(Readied(Status))
  <2> DEFINE q == Readied(Status)
  <2>1. /\ q \in Statuses /\ q.server.phase = "resources" /\ q.server.useDumb = Status.server.useDumb
        /\ q.pix = Status.pix /\ q.win = Status.win /\ q.buf = Status.buf
        /\ q.info = Status.info /\ q.bo = Status.bo
    BY <1>2, ReadiedOK
  <2>2. Become(q)
    BY <1>6
  <2> HIDE DEF q
  <2>3. SamePixmaps(Status, q) /\ SameWindows(Status, q) /\ SameBuffers(Status, q)
    BY <2>1 DEF SamePixmaps, SameWindows, SameBuffers
  <2>4. ~q.server.useDumb
    BY Zenon, <1>2, <1>6, <2>1
  <2>5. Bare(q)
    BY <1>2, <2>1, <2>3, <2>4, BareStatus
  <2>6. GoodStatus(q) /\ Alive(q)
    BY <2>1, <2>5 DEF GoodStatus, Alive
  <2>7. Status' = q
    BY <2>1, <2>2, <2>6, BecomeAlive
  <2> QED
    BY <1>2, <2>1, <2>6, <2>7 DEF Steps
<1>7. CASE server.useDumb /\ Alive(r) /\ Become(Readied(r))
  <2> DEFINE q == Readied(r)
  <2>1. /\ r \in Statuses /\ r.server = Status.server /\ OnlyBo(Status, r, Scanout)
        /\ r.bo[Scanout].refcnt = 1
        /\ r.bo[Scanout].ext = 0 /\ ~r.bo[Scanout].dmabuf
    BY <1>2, <1>4, <1>7, AliveBefore DEF Goes
  <2>2. /\ q \in Statuses /\ q.server.phase = "resources" /\ q.server.useDumb = r.server.useDumb
        /\ q.pix = r.pix /\ q.win = r.win /\ q.buf = r.buf
        /\ q.info = r.info /\ q.bo = r.bo
    BY <2>1, ReadiedOK
  <2>3. Become(q)
    BY <1>7
  <2> HIDE DEF q
  <2>4. SamePixmaps(Status, q) /\ SameWindows(Status, q) /\ SameBuffers(Status, q)
    BY <2>1, <2>2 DEF OnlyBo, SamePixmaps, SameWindows, SameBuffers
  <2>5. q.server.useDumb
    BY Zenon, <1>2, <1>7, <2>1, <2>2
  <2>6. q.info = Status.info
    <3>1. q.info \in [Records -> InfoRecs] /\ Status.info \in [Records -> InfoRecs]
      BY <1>2, <2>2 DEF Statuses
    <3> QED
      BY <2>1, <2>2, <3>1 DEF OnlyBo
  <2>7. \A g \in Handles \ {Scanout} : q.bo[g] = Status.bo[g]
    BY <2>1, <2>2 DEF OnlyBo
  <2>8. q.bo[Scanout].refcnt = 1 /\ q.bo[Scanout].ext = 0 /\ ~q.bo[Scanout].dmabuf
    BY <2>1, <2>2
  <2>9. Bare(q)
    BY <1>2, <2>2, <2>4, <2>5, <2>6, <2>7, <2>8, BareStatus
  <2>10. GoodStatus(q) /\ Alive(q)
    BY <2>2, <2>9 DEF GoodStatus, Alive
  <2>11. Status' = q
    BY <2>2, <2>3, <2>10, BecomeAlive
  <2> QED
    BY <1>2, <2>1, <2>2, <2>10, <2>11 DEF Steps
<1>8. CASE Become(Die(r))
  <2>1. r.server \in [phase : Phases, useDumb : BOOLEAN]
    BY <1>4 DEF Goes, Statuses
  <2>2. Die(r).server \in [phase : {"dead"}, useDumb : BOOLEAN]
    <3>1. r \in Statuses
      BY <1>4 DEF Goes
    <3>2. Die(r).server = [r.server EXCEPT !.phase = "dead"]
      BY <3>1 DEF Die, Statuses
    <3> QED
      BY <2>1, <3>2
  <2>3. GoodStatus(Status') /\ Status'.server.phase = "dead"
    BY <1>8, <2>2, BecomeDead
  <2> QED
    BY <2>3 DEF Steps
<1> QED
  BY <1>5, <1>6, <1>7, <1>8

LEMMA CreateScreenResourcesSteps ==
  ASSUME GoodStatus(Status), CreateScreenResources
  PROVE  Steps(Status, Status')
<1> DEFINE q == ScreenMade(Status)
<1>1. server.phase = "resources" /\ Become(q)
  BY StatusIs DEF CreateScreenResources, ScreenMade, ScreenHeader
<1>2. Status \in Statuses /\ Bare(Status) /\ Status.server.phase = "resources"
  BY <1>1, StatusIs DEF GoodStatus
<1>3. /\ q \in Statuses /\ Good(q)
      /\ q.server.phase = "running" /\ q.server.useDumb = Status.server.useDumb
      /\ \A u \in Users \ {Screen} : HeldBy(q)[u] = NoInfo
  BY <1>2, ScreenMadeOK
<1> HIDE DEF q
<1>4. Status' = q
  BY <1>1, <1>3, BecomeAlive DEF Alive
<1> QED
  BY <1>2, <1>3, <1>4 DEF Steps, GoodStatus

LEMMA NextSteps ==
  ASSUME IInv, Next
  PROVE  Steps(Status, Status')
<1>1. GoodStatus(Status)
  BY DEF IInv
<1>2. CASE ScreenInit \/ CreateScreenResources
  BY <1>1, <1>2, ScreenInitSteps, CreateScreenResourcesSteps
<1>3. ASSUME NEW p \in Pixmaps, NEW usage \in {"plain", "backing"}, CreatePixmap(p, usage)
      PROVE  Steps(Status, Status')
  BY <1>1, <1>3, CreatePixmapSteps
<1>4. ASSUME NEW p \in Pixmaps, UsePixmap(p) \/ DestroyPixmap(p)
      PROVE  Steps(Status, Status')
  BY <1>1, <1>4, UsePixmapSteps, DestroyPixmapSteps
<1>5. ASSUME NEW p \in Pixmaps \cup {Screen}, AccessPixmap(p)
      PROVE  Steps(Status, Status')
  BY <1>1, <1>5, AccessPixmapSteps
<1>6. ASSUME NEW w \in Windows, NEW p \in Pixmaps, RedirectWindow(w, p)
      PROVE  Steps(Status, Status')
  BY <1>1, <1>6, RedirectWindowSteps
<1>7. ASSUME NEW w \in Windows, UnredirectWindow(w) \/ CopyRegion(w) \/ DestroyWindow(w)
      PROVE  Steps(Status, Status')
  BY <1>1, <1>7, UnredirectWindowSteps, CopyRegionSteps, DestroyWindowSteps
<1>8. ASSUME NEW x \in Buffers, NEW p \in Pixmaps \cup {Screen}, NEW front \in BOOLEAN,
             CreatePixmapBuffer(x, p, front)
      PROVE  Steps(Status, Status')
  BY <1>1, <1>8, CreatePixmapBufferSteps
<1>9. ASSUME NEW x \in Buffers, NEW w \in Windows,
             CreateNullBuffer(x, w) \/ ReuseMemBuffer(x, w) \/ AllocMemBuffer(x, w)
      PROVE  Steps(Status, Status')
  BY <1>1, <1>9, CreateNullBufferSteps, ReuseMemBufferSteps, AllocMemBufferSteps
<1>10. ASSUME NEW x \in Buffers, DestroyBuffer(x)
       PROVE  Steps(Status, Status')
  BY <1>1, <1>10, DestroyBufferSteps
<1> QED
  BY <1>2, <1>3, <1>4, <1>5, <1>6, <1>7, <1>8, <1>9, <1>10 DEF Next

\* Nothing is shared or counted before the screen is there, and what is there
\* afterwards is counted exactly, backed by a BO, and used as HardwareSet says, in
\* every state the server reaches.
THEOREM IInvHolds == Spec => []IInv
<1>1. Init => IInv
  <2> SUFFICES ASSUME Init PROVE IInv
    OBVIOUS
  <2>1. Status = [server |-> Status.server, pix |-> Status.pix, win |-> Status.win,
                  buf |-> Status.buf, info |-> Status.info, bo |-> Status.bo]
    BY DEF Status
  <2>2. /\ Status.server \in [phase : {"screen_init", "dead"}, useDumb : BOOLEAN]
        /\ Status.pix = NothingYet.pix /\ Status.win = NothingYet.win
        /\ Status.buf = NothingYet.buf /\ Status.info = NothingYet.info
        /\ Status.bo = NothingYet.bo
    BY StatusIs DEF Init
  <2>3. GoodStatus(Status)
    BY Zenon, <2>1, <2>2, NothingIsGood
  <2> QED
    BY <2>3 DEF IInv
<1>2. IInv /\ [Next]_vars => IInv'
  <2> SUFFICES ASSUME IInv, [Next]_vars PROVE IInv'
    OBVIOUS
  <2>1. CASE Next
    <3>1. GoodStatus(Status')
      BY <2>1, NextSteps DEF Steps
    <3> QED
      BY <3>1 DEF IInv
  <2>2. CASE UNCHANGED vars
    <3>1. Status' = Status
      BY <2>2 DEF Status, vars
    <3> QED
      BY <3>1 DEF IInv
  <2> QED
    BY <2>1, <2>2
<1> QED
  BY <1>1, <1>2, PTL DEF Spec

-----------------------------------------------------------------------------
(***************************************************************************)
(* What follows for every reachable state.                                 *)
(***************************************************************************)
\* With Good, every counter is a natural number.
LEMMA GoodIsTyped ==
  ASSUME NEW r, GoodStatus(r)
  PROVE  /\ \A p \in AllPixmaps : r.pix[p].refcnt \in 0 .. MaxRefs
         /\ \A i \in Records : r.info[i].refcount \in Nat
         /\ \A h \in Handles : r.bo[h].refcnt \in Nat /\ r.bo[h].ext \in {0, 1}
<1>1. 0 \in 0 .. MaxRefs /\ 0 \in Nat /\ 1 \in Nat /\ 2 \in Nat
  BY PixmapBoAssumption
<1>2. NoBO.refcnt = 0 /\ NoBO.ext = 0 /\ NoPixmap.refcnt = 0 /\ Released.refcount = 0
  BY DEF NoBO, NoPixmap, Released
<1>3. CASE r.server.phase = "running"
  <2>1. Good(r)
    BY <1>3 DEF GoodStatus
  <2>2. \A p \in AllPixmaps : r.pix[p].refcnt \in 0 .. MaxRefs
    BY <2>1 DEF Good, PixmapsSet
  <2>3. \A i \in Records : r.info[i].refcount \in Nat
    BY <2>1, CountOK DEF Good, Counted
  <2>4. ASSUME NEW h \in Handles
        PROVE  r.bo[h].refcnt \in Nat /\ r.bo[h].ext \in {0, 1}
    <3>1. CASE h \in Infos
      <4>1. r.bo[h].ext \in {0, 1}
        BY <2>1, <3>1 DEF Good, HardwareSet
      <4>2. r.bo[h].refcnt = 1 \/ r.bo[h] = NoBO
        BY <2>1, <3>1 DEF Good, Backed
      <4> QED
        BY <1>1, <1>2, <4>1, <4>2
    <3>2. CASE h \in {Screen, Scratch}
      <4>1. r.bo[h] = NoBO
        BY <2>1, <3>2 DEF Good, ScreenSet, ScratchSet
      <4> QED
        BY <1>1, <1>2, <4>1
    <3>3. CASE h = Scanout
      <4>1. r.bo[Scanout].ext = 0 /\ (r.bo[Scanout].refcnt = 2 \/ r.bo[Scanout].refcnt = 0)
        BY <2>1 DEF Good, ScreenSet
      <4> QED
        BY <1>1, <3>3, <4>1
    <3> QED
      BY <3>1, <3>2, <3>3 DEF Handles, Records
  <2> QED
    BY <2>2, <2>3, <2>4
<1>4. CASE r.server.phase # "running"
  <2>1. Bare(r)
    BY <1>4 DEF GoodStatus
  <2>2. /\ \A p \in AllPixmaps : r.pix[p] = NoPixmap
        /\ \A i \in Records : r.info[i] = Released
        /\ \A h \in Handles \ {Scanout} : r.bo[h] = NoBO
    BY <2>1, NothingIs
  <2>3. r.bo[Scanout] = NoBO \/ (r.bo[Scanout].refcnt = 1 /\ r.bo[Scanout].ext = 0)
    BY <2>1 DEF Bare
  <2> QED
    BY <1>1, <1>2, <2>2, <2>3
<1> QED
  BY <1>3, <1>4

\* Every variable keeps its type: no count of references goes below zero or, for a
\* pixmap, beyond the bound, and at most one access of the hardware is registered.
THEOREM TypeCorrect == Spec => []TypeOK
<1>1. IInv => TypeOK
  <2> SUFFICES ASSUME IInv PROVE TypeOK
    OBVIOUS
  <2>1. GoodStatus(Status) /\ Status \in Statuses
    BY DEF IInv, GoodStatus
  <2>2. /\ \A p \in AllPixmaps : pix[p].refcnt \in 0 .. MaxRefs
        /\ \A i \in Records : info[i].refcount \in Nat
        /\ \A h \in Handles : bo[h].refcnt \in Nat /\ bo[h].ext \in {0, 1}
    BY <2>1, GoodIsTyped, StatusIs
  <2>3. /\ server \in [phase : Phases, useDumb : BOOLEAN]
        /\ pix \in [AllPixmaps -> PixmapRecs] /\ win \in [Windows -> WindowRecs]
        /\ buf \in [Buffers -> Records \cup {NoInfo, NullBuffer}]
        /\ info \in [Records -> InfoRecs] /\ bo \in [Handles -> BoRecs]
    BY <2>1 DEF Statuses, Status
  <2>4. pix \in [AllPixmaps -> [refcnt : 0 .. MaxRefs, info : Records \cup {NoInfo},
                                ptr : {"null", "own", "bo"}]]
    BY <2>2, <2>3 DEF PixmapRecs
  <2>5. info \in [Records -> [refcount : Nat, handle : Handles \cup {Invalid}, addr : BOOLEAN]]
    BY <2>2, <2>3 DEF InfoRecs
  <2>6. bo \in [Handles -> [refcnt : Nat, accel : BOOLEAN, mapped : BOOLEAN, ext : {0, 1},
                            dmabuf : BOOLEAN, fb : BOOLEAN]]
    BY <2>2, <2>3 DEF BoRecs
  <2> QED
    BY <2>3, <2>4, <2>5, <2>6 DEF TypeOK, Phases, WindowRecs
<1> QED
  BY <1>1, IInvHolds, PTL

LEMMA RunningIsGood ==
  ASSUME IInv, server.phase = "running"
  PROVE  Good(Status) /\ Status \in Statuses
BY StatusIs DEF IInv, GoodStatus

\* Every record has exactly the references counted that pixmaps, DRI2 buffers and
\* windows have to it, so that unref_bo_info frees the BO with the last of them.
THEOREM RefcountCorrect == Spec => []RefcountIsExact
<1>1. IInv => RefcountIsExact
  <2> SUFFICES ASSUME IInv, server.phase = "running", NEW i \in Records
               PROVE  info[i].refcount = Cardinality(Holders(i))
    BY DEF RefcountIsExact
  <2>1. Good(Status)
    BY RunningIsGood
  <2>2. info[i].refcount = Cardinality({u \in Users : HeldBy(Status)[u] = i})
    BY <2>1, StatusIs DEF Good, Counted, Count
  <2>3. \A p \in AllPixmaps : pix[p].info = i => pix[p].refcnt > 0
    <3>1. i # NoInfo
      BY RecordsAre
    <3>2. \A p \in Pixmaps : pix[p].info = i => pix[p].refcnt > 0
      BY <2>1, <3>1, StatusIs, PixmapBoAssumption DEF Good, PixmapsSet, AllPixmaps
    <3>3. pix[Screen].refcnt > 0
      BY <2>1, StatusIs DEF Good, ScreenSet
    <3>4. pix[Scratch].info = i => pix[Scratch].refcnt > 0
      BY <2>1, <3>1, StatusIs DEF Good, ScratchSet, NoPixmap
    <3> QED
      BY <3>2, <3>3, <3>4 DEF AllPixmaps
  <2>4. \A p \in AllPixmaps : HeldBy(Status)[p] = pix[p].info
    BY PixmapHolds, StatusIs
  <2>5. \A w \in Windows : HeldBy(Status)[w] = win[w].mem
    BY WindowHolds, StatusIs
  <2>6. \A x \in Buffers : HeldBy(Status)[x] = buf[x]
    BY BufferHolds, StatusIs
  <2>7. {u \in Users : HeldBy(Status)[u] = i} = Holders(i)
    BY <2>3, <2>4, <2>5, <2>6 DEF Holders, Users
  <2> QED
    BY <2>2, <2>7
<1> QED
  BY <1>1, IInvHolds, PTL

\* The BO of every record is its own or the scanout buffer, exists exactly while the
\* record is counted, and the scanout buffer has one more holder, fPtr.
THEOREM MemoryCorrect == Spec => []MemoryIsOwned
<1>1. IInv => MemoryIsOwned
  <2> SUFFICES ASSUME IInv, server.phase = "running"
               PROVE  /\ \A i \in Records : info[i].handle \in {Invalid, i, Scanout}
                      /\ \A i \in Records : bo[i].refcnt =
                           (IF info[i].handle = i /\ info[i].refcount > 0 THEN 1 ELSE 0)
                      /\ server.useDumb => bo[Scanout].refcnt =
                           1 + Cardinality({i \in Records : info[i].handle = Scanout})
    BY DEF MemoryIsOwned
  <2>1. Good(Status) /\ NoBO.refcnt = 0
    BY RunningIsGood DEF NoBO
  <2>2. \A i \in Infos :
          IF info[i].refcount > 0 THEN info[i].handle = i /\ bo[i].refcnt = 1
          ELSE info[i].handle = Invalid /\ bo[i] = NoBO
    BY <2>1, StatusIs DEF Good, Backed
  <2>3. /\ bo[Screen] = NoBO
        /\ server.useDumb => info[Screen].handle = Scanout /\ bo[Scanout].refcnt = 2
        /\ ~server.useDumb => info[Screen].handle = Invalid
    BY <2>1, StatusIs DEF Good, ScreenSet
  <2>4. info[Scratch].handle = Invalid /\ bo[Scratch] = NoBO
    BY <2>1, StatusIs DEF Good, ScratchSet
  <2>5. ASSUME NEW i \in Records
        PROVE  /\ info[i].handle \in {Invalid, i, Scanout}
               /\ bo[i].refcnt = (IF info[i].handle = i /\ info[i].refcount > 0 THEN 1 ELSE 0)
    <3>1. CASE i \in Infos
      BY <2>1, <2>2, <3>1, RecordsAre
    <3>2. CASE i = Screen
      BY <2>1, <2>3, <3>2, RecordsAre
    <3>3. CASE i = Scratch
      BY <2>1, <2>4, <3>3, RecordsAre
    <3> QED
      BY <3>1, <3>2, <3>3 DEF Records
  <2>6. ASSUME server.useDumb
        PROVE  bo[Scanout].refcnt = 1 + Cardinality({i \in Records : info[i].handle = Scanout})
    <3>1. {i \in Records : info[i].handle = Scanout} = {Screen}
      <4>1. \A i \in Infos : info[i].handle # Scanout
        BY <2>2, RecordsAre
      <4>2. info[Screen].handle = Scanout /\ info[Scratch].handle # Scanout
        BY <2>3, <2>4, <2>6, RecordsAre
      <4> QED
        BY <4>1, <4>2 DEF Records
    <3>2. Cardinality({Screen}) = 1
      BY FS_Singleton
    <3>3. bo[Scanout].refcnt = 1 + 1
      BY <2>3, <2>6
    <3>4. Cardinality({i \in Records : info[i].handle = Scanout}) = 1
      BY Zenon, <3>1, <3>2
    <3> QED
      BY Zenon, <3>3, <3>4
  <2> QED
    BY <2>5, <2>6
<1> QED
  BY <1>1, IInvHolds, PTL

\* An access of the hardware is registered for the BO of a window's state whenever
\* a swap comes to end it; a dma_buf is there only during an access.
THEOREM HardwareUseCorrect == Spec => []AccessCanEnd
<1>1. IInv => AccessCanEnd
  <2> SUFFICES ASSUME IInv, server.phase = "running", NEW h \in Handles, bo[h].refcnt > 0
               PROVE  /\ \A w \in Windows : win[w].mem = h => bo[h].ext > 0
                      /\ bo[h].dmabuf => bo[h].ext > 0
    BY DEF AccessCanEnd
  <2>1. Good(Status)
    BY RunningIsGood
  <2>2. h \in Infos \cup {Scanout} /\ (bo[h].dmabuf => bo[h].ext = 1)
    BY <2>1, BosAre, StatusIs
  <2>3. h # NoInfo
    BY <2>2, RecordsAre, PixmapBoAssumption
  <2>4. \A w \in Windows : win[w].mem # NoInfo => bo[win[w].mem].ext = 1
    BY <2>1, StatusIs DEF Good, HardwareSet
  <2>5. \A w \in Windows : win[w].mem = h => bo[h].ext = 1
    BY <2>3, <2>4
  <2> QED
    BY <2>2, <2>5
<1> QED
  BY <1>1, IInvHolds, PTL

\* The pixels of a live pixmap are in memory that exists, whatever DRI2 buffers were
\* made of the pixmap or destroyed.
THEOREM PixelsCorrect == Spec => []PixelsExist
<1>1. IInv => PixelsExist
  <2> SUFFICES ASSUME IInv, server.phase = "running", NEW p \in Pixmaps, pix[p].refcnt > 0
               PROVE  /\ pix[p].ptr = "own" => ~server.useDumb
                      /\ pix[p].info = NoInfo => pix[p].ptr = "own"
                      /\ pix[p].info # NoInfo => bo[pix[p].info].refcnt = 1
    BY DEF PixelsExist
  <2>1. Good(Status) /\ p \in AllPixmaps
    BY RunningIsGood DEF AllPixmaps
  <2>2. /\ pix[p].info \in Infos \cup {NoInfo}
        /\ server.useDumb => pix[p].info # NoInfo /\ pix[p].ptr = "null"
        /\ ~server.useDumb => pix[p].ptr = (IF pix[p].info = NoInfo THEN "own" ELSE "bo")
    BY <2>1, StatusIs DEF Good, PixmapsSet
  <2>3. ASSUME pix[p].info # NoInfo
        PROVE  bo[pix[p].info].refcnt = 1
    <3> DEFINE i == pix[p].info
    <3>1. i \in Infos /\ i \in Records
      BY <2>2, <2>3, RecordsAre
    <3>2. HeldBy(Status)[p] = i /\ p \in Users
      BY <2>1, PixmapHolds, StatusIs
    <3> HIDE DEF i
    <3>3. Status.info[i].refcount \in Nat \ {0}
      BY <2>1, <3>1, <3>2, UsedIsCounted DEF Good
    <3>4. Status.bo[i].refcnt = 1
      BY <2>1, <3>1, <3>3 DEF Good, Backed
    <3>5. bo[i].refcnt = 1
      BY <3>4, StatusIs
    <3> QED
      BY <3>5 DEF i
  <2> QED
    BY <2>2, <2>3
<1> QED
  BY <1>1, IInvHolds, PTL

-----------------------------------------------------------------------------
(***************************************************************************)
(* The refinement: what the driver does to its records and BOs is what     *)
(* SharedBo does to objects.                                               *)
(***************************************************************************)
Sharers == Users \cup {Scanout}

\* The object of every user, fPtr->scanout among them.
Objs(r) == [u \in Sharers |->
              IF u = Scanout THEN IF r.bo[Scanout].refcnt > 0 THEN Scanout ELSE Invalid
              ELSE Obj(r, u)]

Live(r) == {h \in Handles : r.bo[h].refcnt > 0}

LEMMA SharersAre ==
  Users \subseteq Sharers /\ Scanout \in Sharers /\ Scanout \notin Users
BY PixmapBoAssumption DEF Sharers, Users

LEMMA ObjsAre ==
  ASSUME NEW r
  PROVE  /\ Objs(r) = [u \in Sharers |-> Objs(r)[u]]
         /\ \A u \in Users : Objs(r)[u] = Obj(r, u)
         /\ Objs(r)[Scanout] = (IF r.bo[Scanout].refcnt > 0 THEN Scanout ELSE Invalid)
BY SharersAre DEF Objs

\* A BO exists exactly if somebody's record leads to it.
LEMMA LiveIsUsed ==
  ASSUME NEW r, GoodStatus(r)
  PROVE  /\ \A h \in Handles : h \in Live(r) <=> \E u \in Sharers : Objs(r)[u] = h
         /\ Live(r) \subseteq Handles
<1>1. NoBO.refcnt = 0
  BY DEF NoBO
<1>2. CASE r.server.phase = "running"
  <2>1. Good(r)
    BY <1>2 DEF GoodStatus
  <2>2. ASSUME NEW h \in Infos
        PROVE  h \in Live(r) <=> \E u \in Sharers : Objs(r)[u] = h
    <3>1. h \in Records /\ h \in Handles /\ h # Scanout /\ h # Invalid
      BY RecordsAre
    <3>2. \A u \in Users : Obj(r, u) = h <=> HeldBy(r)[u] = h
      BY <3>1 DEF Obj, ObjectFor
    <3>3. (\E u \in Sharers : Objs(r)[u] = h) <=> \E u \in Users : HeldBy(r)[u] = h
      BY <3>1, <3>2, ObjsAre, SharersAre DEF Sharers
    <3>4. ASSUME NEW u \in Users, HeldBy(r)[u] = h
          PROVE  r.bo[h].refcnt > 0
      <4>1. r.info[h].refcount \in Nat \ {0}
        BY <2>1, <3>1, <3>4, UsedIsCounted DEF Good
      <4> QED
        BY <2>1, <4>1 DEF Good, Backed
    <3>5. ASSUME r.bo[h].refcnt > 0
          PROVE  \E u \in Users : HeldBy(r)[u] = h
      <4>1. r.info[h].refcount > 0
        BY <1>1, <2>1, <3>5 DEF Good, Backed
      <4>2. Count(HeldBy(r), h) > 0
        BY <2>1, <3>1, <4>1 DEF Good, Counted
      <4>3. {u \in Users : HeldBy(r)[u] = h} # {}
        BY <4>2, FS_EmptySet DEF Count
      <4> QED
        BY <4>3
    <3> QED
      BY <3>1, <3>3, <3>4, <3>5 DEF Live
  <2>3. ASSUME NEW h \in {Screen, Scratch}
        PROVE  h \notin Live(r) /\ ~\E u \in Sharers : Objs(r)[u] = h
    <3>1. r.bo[h] = NoBO
      BY <2>1 DEF Good, ScreenSet, ScratchSet
    <3>2. h \notin Infos /\ h # Scanout /\ h # Invalid
      BY RecordsAre
    <3>3. \A u \in Users : Obj(r, u) # h
      BY <3>2 DEF Obj, ObjectFor
    <3> QED
      BY <1>1, <3>1, <3>2, <3>3, ObjsAre, SharersAre DEF Live, Sharers
  <2>4. Scanout \in Live(r) <=> \E u \in Sharers : Objs(r)[u] = Scanout
    <3>1. CASE r.bo[Scanout].refcnt > 0
      BY <3>1, ObjsAre, SharersAre, RecordsAre DEF Live
    <3>2. CASE ~(r.bo[Scanout].refcnt > 0)
      <4>1. ~r.server.useDumb
        BY <2>1, <3>2 DEF Good, ScreenSet
      <4>2. \A u \in Users : HeldBy(r)[u] # Screen
        <5>1. \A p \in AllPixmaps : r.pix[p].info # Screen
          <6>1. r.pix[Screen].info = NoInfo
            BY <2>1, <4>1 DEF Good, ScreenSet
          <6>2. r.pix[Scratch].info \in {Scratch, NoInfo}
            BY <2>1 DEF Good, ScratchSet, NoPixmap
          <6>3. \A p \in Pixmaps : r.pix[p].info \in Infos \cup {NoInfo}
            BY <2>1 DEF Good, PixmapsSet
          <6> QED
            BY <6>1, <6>2, <6>3, RecordsAre DEF AllPixmaps
        <5>2. \A w \in Windows : r.win[w].mem # Screen
          BY <2>1, RecordsAre DEF Good, BuffersSet
        <5>3. \A x \in Buffers : r.buf[x] # Screen
          BY <2>1, <4>1 DEF Good, BuffersSet
        <5>4. \A p \in AllPixmaps : HeldBy(r)[p] # Screen
          BY <5>1, PixmapHolds
        <5>5. \A w \in Windows : HeldBy(r)[w] # Screen
          BY <5>2, WindowHolds
        <5>6. \A x \in Buffers : HeldBy(r)[x] # Screen
          BY <5>3, BufferHolds
        <5> QED
          BY <5>4, <5>5, <5>6 DEF Users
      <4>3. \A u \in Users : Obj(r, u) # Scanout
        BY <4>2, RecordsAre DEF Obj, ObjectFor
      <4> QED
        BY <3>2, <4>3, ObjsAre, SharersAre, RecordsAre DEF Live, Sharers
    <3> QED
      BY <3>1, <3>2
  <2> QED
    BY <2>2, <2>3, <2>4 DEF Live, Handles, Records
<1>3. CASE r.server.phase # "running"
  <2>1. Bare(r)
    BY <1>3 DEF GoodStatus
  <2>2. \A h \in Handles \ {Scanout} : h \notin Live(r)
    BY <1>1, <2>1 DEF Bare, Live
  <2>3. \A u \in Users : Obj(r, u) = Invalid
    BY <2>1, NothingIs, ObjectsAre DEF Obj
  <2>4. \A h \in Handles : h \in Live(r) <=> (h = Scanout /\ r.bo[Scanout].refcnt > 0)
    BY <2>2, RecordsAre DEF Live
  <2>5. \A h \in Handles : (\E u \in Sharers : Objs(r)[u] = h)
                             <=> (h = Scanout /\ r.bo[Scanout].refcnt > 0)
    BY <2>3, ObjsAre, SharersAre, RecordsAre DEF Sharers
  <2> QED
    BY <2>4, <2>5 DEF Live
<1> QED
  BY <1>2, <1>3

\* The objects before and after a step, as SharedBo allows them.
Kept(q, handles) == Live(q) = {h \in handles : \E u \in Sharers : Objs(q)[u] = h}

Created2(r, q, u, v, h) ==
  /\ h \notin Live(r) /\ h \in Live(q)
  /\ Objs(q) = [Objs(r) EXCEPT ![u] = h, ![v] = h]
  /\ Kept(q, Live(r) \cup {h})

Shared2(r, q, u, v) ==
  /\ Objs(r)[u] # Invalid /\ Objs(r)[v] = Invalid
  /\ Objs(q) = [Objs(r) EXCEPT ![v] = Objs(r)[u]]
  /\ Kept(q, Live(r))

Left2(r, q, u) ==
  /\ Objs(r)[u] # Invalid
  /\ Objs(q) = [Objs(r) EXCEPT ![u] = Invalid]
  /\ Kept(q, Live(r))

Gone(q) == Objs(q) = [u \in Sharers |-> Invalid] /\ Live(q) = {}

SharedStep(r, q) ==
  \/ \E h \in Handles, u, v \in Sharers : Created2(r, q, u, v, h)
  \/ \E u, v \in Sharers : Shared2(r, q, u, v)
  \/ \E u \in Sharers : Left2(r, q, u)
  \/ Gone(q)
  \/ Objs(q) = Objs(r) /\ Live(q) = Live(r)

LEMMA KeptIs ==
  ASSUME NEW q, GoodStatus(q), NEW handles, handles \subseteq Handles,
         \A u \in Sharers : Objs(q)[u] \in handles \cup {Invalid}
  PROVE  Kept(q, handles)
<1>1. \A h \in Handles : h \in Live(q) <=> \E u \in Sharers : Objs(q)[u] = h
  BY LiveIsUsed
<1>2. Live(q) \subseteq Handles /\ Invalid \notin Handles
  BY LiveIsUsed, RecordsAre
<1>3. \A h \in Live(q) : h \in handles
  BY <1>1, <1>2
<1> QED
  BY <1>1, <1>2, <1>3 DEF Kept

LEMMA ObjsAreLive ==
  ASSUME NEW r, GoodStatus(r)
  PROVE  \A u \in Sharers : Objs(r)[u] \in Live(r) \cup {Invalid}
<1>1. ASSUME NEW u \in Sharers
      PROVE  Objs(r)[u] \in Handles \cup {Invalid}
  BY ObjsAre, RecordsAre DEF Sharers, Obj, ObjectFor
<1> QED
  BY <1>1, LiveIsUsed

\* Two users' objects are changed, and the others' are not.
LEMMA ObjsChange ==
  ASSUME NEW r, NEW q, NEW u \in Sharers, NEW v \in Sharers, NEW h,
         Objs(q)[u] = h, Objs(q)[v] = h,
         \A t \in Sharers \ {u, v} : Objs(q)[t] = Objs(r)[t]
  PROVE  Objs(q) = [Objs(r) EXCEPT ![u] = h, ![v] = h]
<1> DEFINE f == Objs(r)
           g == Objs(q)
<1>1. f = [t \in Sharers |-> f[t]] /\ g = [t \in Sharers |-> g[t]]
  BY ObjsAre
<1>2. g[u] = h /\ g[v] = h /\ \A t \in Sharers \ {u, v} : g[t] = f[t]
  OBVIOUS
<1> HIDE DEF f, g
<1>3. DOMAIN [f EXCEPT ![u] = h, ![v] = h] = Sharers
  BY <1>1
<1>4. \A t \in Sharers : [f EXCEPT ![u] = h, ![v] = h][t] = g[t]
  BY <1>1, <1>2
<1>5. [f EXCEPT ![u] = h, ![v] = h] = [t \in Sharers |-> [f EXCEPT ![u] = h, ![v] = h][t]]
  BY <1>1
<1>6. g = [f EXCEPT ![u] = h, ![v] = h]
  BY <1>1, <1>4, <1>5
<1> QED
  BY <1>6 DEF f, g

LEMMA ObjsChangeOne ==
  ASSUME NEW r, NEW q, NEW u \in Sharers, NEW h, Objs(q)[u] = h,
         \A t \in Sharers \ {u} : Objs(q)[t] = Objs(r)[t]
  PROVE  Objs(q) = [Objs(r) EXCEPT ![u] = h]
<1> DEFINE f == Objs(r)
           g == Objs(q)
<1>1. f = [t \in Sharers |-> f[t]] /\ g = [t \in Sharers |-> g[t]]
  BY ObjsAre
<1>2. g[u] = h /\ \A t \in Sharers \ {u} : g[t] = f[t]
  OBVIOUS
<1> HIDE DEF f, g
<1>3. \A t \in Sharers : [f EXCEPT ![u] = h][t] = g[t]
  BY <1>1, <1>2
<1>4. [f EXCEPT ![u] = h] = [t \in Sharers |-> [f EXCEPT ![u] = h][t]]
  BY <1>1
<1>5. g = [f EXCEPT ![u] = h]
  BY <1>1, <1>3, <1>4
<1> QED
  BY <1>5 DEF f, g

LEMMA ObjsSame ==
  ASSUME NEW r, NEW q, GoodStatus(r), GoodStatus(q),
         \A u \in Sharers : Objs(q)[u] = Objs(r)[u]
  PROVE  SharedStep(r, q)
<1>1. Objs(q) = Objs(r)
  BY ObjsAre
<1>2. \A h \in Handles : h \in Live(q) <=> h \in Live(r)
  BY <1>1, LiveIsUsed
<1>3. Live(q) = Live(r)
  BY <1>2, LiveIsUsed
<1> QED
  BY <1>1, <1>3 DEF SharedStep

\* A step of the running server.
LEMMA ShapeIsShared ==
  ASSUME NEW r, NEW q, GoodStatus(r), GoodStatus(q), r.server.phase = "running",
         q.server = r.server, Shape(r, q)
  PROVE  SharedStep(r, q)
<1>1. Good(r) /\ Good(q)
  BY DEF GoodStatus
<1>2. Objs(q)[Scanout] = Objs(r)[Scanout]
  <2>1. r.bo[Scanout].refcnt = q.bo[Scanout].refcnt
    BY <1>1 DEF Good, ScreenSet
  <2> QED
    BY <2>1, ObjsAre
<1>3. /\ \A u \in Users : Objs(r)[u] = Obj(r, u) /\ Objs(q)[u] = Obj(q, u)
      /\ Users \subseteq Sharers /\ Scanout \in Sharers /\ Scanout \notin Users
      /\ \A u \in Sharers : u \in Users \/ u = Scanout
  BY ObjsAre, SharersAre DEF Sharers
<1>4. \A u \in Sharers : Objs(r)[u] \in Live(r) \cup {Invalid}
  BY ObjsAreLive
<1>5. Live(r) \subseteq Handles
  BY LiveIsUsed
<1>6. CASE \A t \in Users : Obj(q, t) = Obj(r, t)
  <2>1. \A u \in Sharers : Objs(q)[u] = Objs(r)[u]
    BY <1>2, <1>3, <1>6
  <2> QED
    BY <2>1, ObjsSame
<1>7. ASSUME NEW u \in Users, NEW v \in Users, NEW i \in Infos, Took(r, q, u, v, i)
      PROVE  SharedStep(r, q)
  <2>1. i \in Handles /\ u \in Sharers /\ v \in Sharers
    BY <1>3, RecordsAre
  <2>2. /\ Objs(q)[u] = i /\ Objs(q)[v] = i
        /\ \A t \in Sharers \ {u, v} : Objs(q)[t] = Objs(r)[t]
    BY <1>2, <1>3, <1>7 DEF Took
  <2>3. Objs(q) = [Objs(r) EXCEPT ![u] = i, ![v] = i]
    BY <2>1, <2>2, ObjsChange
  <2>4. i \notin Live(r)
    BY <1>7 DEF Took, Live
  <2>5. i \in Live(q)
    BY <2>1, <2>2, LiveIsUsed
  <2>6. \A t \in Sharers : Objs(q)[t] \in (Live(r) \cup {i}) \cup {Invalid}
    BY <1>4, <2>2
  <2>7. Kept(q, Live(r) \cup {i})
    BY <1>5, <2>1, <2>6, KeptIs
  <2>8. Created2(r, q, u, v, i)
    BY <2>3, <2>4, <2>5, <2>7 DEF Created2
  <2> QED
    BY <2>1, <2>8 DEF SharedStep
<1>8. ASSUME NEW u \in Users, NEW v \in Users, Joined(r, q, u, v)
      PROVE  SharedStep(r, q)
  <2> DEFINE k == Objs(r)[u]
  <2>1. /\ k # Invalid /\ Objs(r)[v] = Invalid /\ Objs(q)[v] = k
        /\ \A t \in Sharers \ {v} : Objs(q)[t] = Objs(r)[t]
    BY <1>2, <1>3, <1>8 DEF Joined
  <2>2. v \in Sharers /\ u \in Sharers
    BY <1>3
  <2>3. k \in Live(r) \cup {Invalid}
    BY <1>4, <2>2
  <2> HIDE DEF k
  <2>4. Objs(q) = [Objs(r) EXCEPT ![v] = k]
    BY <2>1, <2>2, ObjsChangeOne
  <2>6. \A t \in Sharers : Objs(q)[t] \in Live(r) \cup {Invalid}
    BY <1>4, <2>1, <2>3
  <2>7. Kept(q, Live(r))
    BY <1>5, <2>6, KeptIs
  <2>8. Shared2(r, q, u, v)
    BY <2>1, <2>4, <2>7 DEF Shared2, k
  <2> QED
    BY <2>2, <2>8 DEF SharedStep
<1>9. ASSUME NEW u \in Users, Left(r, q, u)
      PROVE  SharedStep(r, q)
  <2>1. /\ Objs(q)[u] = Invalid
        /\ \A t \in Sharers \ {u} : Objs(q)[t] = Objs(r)[t]
    BY <1>2, <1>3, <1>9 DEF Left
  <2>2. u \in Sharers
    BY <1>3
  <2>3. CASE Objs(r)[u] = Invalid
    <3>1. \A t \in Sharers : Objs(q)[t] = Objs(r)[t]
      BY <2>1, <2>3
    <3> QED
      BY <3>1, ObjsSame
  <2>4. CASE Objs(r)[u] # Invalid
    <3>1. Objs(q) = [Objs(r) EXCEPT ![u] = Invalid]
      BY <2>1, <2>2, ObjsChangeOne
    <3>3. \A t \in Sharers : Objs(q)[t] \in Live(r) \cup {Invalid}
      BY <1>4, <2>1
    <3>4. Kept(q, Live(r))
      BY <1>5, <3>3, KeptIs
    <3>5. Left2(r, q, u)
      BY <2>4, <3>1, <3>4 DEF Left2
    <3> QED
      BY <2>2, <3>5 DEF SharedStep
  <2> QED
    BY <2>3, <2>4
<1> QED
  BY <1>6, <1>7, <1>8, <1>9 DEF Shape

\* What there is without the screen.
LEMMA BareObjects ==
  ASSUME NEW r, GoodStatus(r), r.server.phase # "running"
  PROVE  /\ \A u \in Users : Objs(r)[u] = Invalid
         /\ Objs(r)[Scanout] =
              (IF r.server.phase = "resources" /\ r.server.useDumb THEN Scanout ELSE Invalid)
<1>1. Bare(r)
  BY DEF GoodStatus
<1>2. ASSUME NEW u \in Users
      PROVE  Objs(r)[u] = Invalid
  <2>1. HeldBy(r)[u] = NoInfo
    BY <1>1, NothingIs
  <2>2. Obj(r, u) = Invalid
    BY Zenon, <2>1, ObjectsAre DEF Obj
  <2> QED
    BY <2>2, ObjsAre
<1>3. NoBO.refcnt = 0
  BY DEF NoBO
<1>4. r.bo[Scanout].refcnt = (IF r.server.phase = "resources" /\ r.server.useDumb THEN 1 ELSE 0)
  BY <1>1, <1>3 DEF Bare
<1> QED
  BY <1>2, <1>4, ObjsAre

LEMMA StepsAreShared ==
  ASSUME NEW r, NEW q, GoodStatus(r), Steps(r, q)
  PROVE  SharedStep(r, q)
<1>1. GoodStatus(q)
  BY DEF Steps
<1>2. CASE q.server.phase = "dead"
  <2>1. \A u \in Sharers : Objs(q)[u] = Invalid
    BY <1>1, <1>2, BareObjects DEF Sharers
  <2>2. Objs(q) = [u \in Sharers |-> Invalid]
    BY <2>1, ObjsAre
  <2>3. Live(q) = {}
    BY <1>1, <2>1, LiveIsUsed, RecordsAre
  <2> QED
    BY <2>2, <2>3 DEF SharedStep, Gone
<1>3. CASE r.server.phase = "running" /\ q.server = r.server /\ Shape(r, q)
  BY <1>1, <1>3, ShapeIsShared
<1>4. CASE /\ r.server.phase = "screen_init" /\ q.server.phase = "resources"
           /\ q.server.useDumb = r.server.useDumb
  <2>1. \A u \in Sharers : Objs(r)[u] = Invalid
    BY <1>4, BareObjects DEF Sharers
  <2>2. \A u \in Users : Objs(q)[u] = Invalid
    BY <1>1, <1>4, BareObjects
  <2>3. Objs(q)[Scanout] = (IF q.server.useDumb THEN Scanout ELSE Invalid)
    BY <1>1, <1>4, BareObjects
  <2>4. CASE q.server.useDumb
    <3>1. Objs(q)[Scanout] = Scanout /\ Scanout \in Sharers /\ Scanout \in Handles
      BY <2>3, <2>4, SharersAre, RecordsAre
    <3>2. \A u \in Sharers \ {Scanout} : Objs(q)[u] = Objs(r)[u]
      BY <2>1, <2>2, SharersAre DEF Sharers
    <3>3. Objs(q) = [Objs(r) EXCEPT ![Scanout] = Scanout, ![Scanout] = Scanout]
      BY <3>1, <3>2, ObjsChange
    <3>4. Scanout \notin Live(r)
      BY <2>1, <3>1, LiveIsUsed, RecordsAre
    <3>5. Scanout \in Live(q)
      BY <1>1, <3>1, LiveIsUsed
    <3>6. \A u \in Sharers : Objs(q)[u] \in (Live(r) \cup {Scanout}) \cup {Invalid}
      BY <2>1, <3>1, <3>2
    <3>7. Live(r) \cup {Scanout} \subseteq Handles
      BY <3>1, LiveIsUsed
    <3>8. Kept(q, Live(r) \cup {Scanout})
      BY <1>1, <3>6, <3>7, KeptIs
    <3>9. Created2(r, q, Scanout, Scanout, Scanout)
      BY <3>3, <3>4, <3>5, <3>8 DEF Created2
    <3> QED
      BY <3>1, <3>9 DEF SharedStep
  <2>5. CASE ~q.server.useDumb
    <3>1. \A u \in Sharers : Objs(q)[u] = Objs(r)[u]
      BY <2>1, <2>2, <2>3, <2>5 DEF Sharers
    <3> QED
      BY <1>1, <3>1, ObjsSame
  <2> QED
    BY <2>4, <2>5
<1>5. CASE /\ r.server.phase = "resources" /\ q.server.phase = "running"
           /\ q.server.useDumb = r.server.useDumb
           /\ \A u \in Users \ {Screen} : HeldBy(q)[u] = NoInfo
  <2>0. Good(q) /\ Screen \in Users /\ Screen \in Sharers /\ Screen \in AllPixmaps
    BY <1>1, <1>5, SharersAre DEF GoodStatus, Users, AllPixmaps
  <2>1. \A u \in Users : Objs(r)[u] = Invalid
    BY <1>5, BareObjects
  <2>2. Objs(r)[Scanout] = (IF q.server.useDumb THEN Scanout ELSE Invalid)
    BY <1>5, BareObjects
  <2>3. ASSUME NEW u \in Users \ {Screen}
        PROVE  Objs(q)[u] = Invalid
    <3>1. HeldBy(q)[u] = NoInfo
      BY <1>5
    <3>2. Obj(q, u) = Invalid
      BY Zenon, <3>1, ObjectsAre DEF Obj
    <3> QED
      BY <3>2, ObjsAre
  <2>4. /\ Objs(q)[Scanout] = (IF q.server.useDumb THEN Scanout ELSE Invalid)
        /\ HeldBy(q)[Screen] = (IF q.server.useDumb THEN Screen ELSE NoInfo)
    <3>1. q.bo[Scanout].refcnt = (IF q.server.useDumb THEN 2 ELSE 0)
      BY <2>0 DEF Good, ScreenSet
    <3>2. q.pix[Screen].info = (IF q.server.useDumb THEN Screen ELSE NoInfo)
      BY <2>0 DEF Good, ScreenSet
    <3> QED
      BY <2>0, <3>1, <3>2, ObjsAre, PixmapHolds
  <2>5. Objs(q)[Screen] = (IF q.server.useDumb THEN Scanout ELSE Invalid)
    BY <2>0, <2>4, ObjsAre, ObjectsAre DEF Obj
  <2>6. CASE q.server.useDumb
    <3>1. /\ Objs(r)[Scanout] = Scanout /\ Objs(r)[Screen] = Invalid
          /\ Objs(q)[Screen] = Scanout /\ Scanout # Invalid
          /\ Scanout \in Sharers
      <4>1. Scanout # Invalid /\ Scanout \in Sharers
        BY SharersAre, RecordsAre
      <4>2. Objs(r)[Screen] = Invalid
        BY <2>0, <2>1
      <4> QED
        BY <2>2, <2>5, <2>6, <4>1, <4>2
    <3>2. \A u \in Sharers \ {Screen} : Objs(q)[u] = Objs(r)[u]
      BY <2>1, <2>2, <2>3, <2>4 DEF Sharers
    <3>3. Objs(q) = [Objs(r) EXCEPT ![Screen] = Scanout]
      BY <2>0, <3>1, <3>2, ObjsChangeOne
    <3>5. Objs(r)[Scanout] \in Live(r)
      BY <3>1, ObjsAreLive
    <3>6. \A u \in Sharers : Objs(q)[u] \in Live(r) \cup {Invalid}
      BY <3>1, <3>2, <3>5, ObjsAreLive
    <3>7. Kept(q, Live(r))
      BY <1>1, <3>6, KeptIs, LiveIsUsed
    <3>8. Shared2(r, q, Scanout, Screen)
      BY <3>1, <3>3, <3>7 DEF Shared2
    <3> QED
      BY <2>0, <3>1, <3>8 DEF SharedStep
  <2>7. CASE ~q.server.useDumb
    <3>1. \A u \in Sharers : Objs(q)[u] = Objs(r)[u]
      BY <2>1, <2>2, <2>3, <2>4, <2>5, <2>7 DEF Sharers
    <3> QED
      BY <1>1, <3>1, ObjsSame
  <2> QED
    BY <2>6, <2>7
<1> QED
  BY <1>2, <1>3, <1>4, <1>5 DEF Steps

\* The record a user has leads to its object.
Handed2(r, u) == IF HeldBy(r)[u] \in Records THEN r.info[HeldBy(r)[u]].handle ELSE Invalid

LEMMA HandedIs ==
  ASSUME NEW r, GoodStatus(r), NEW u \in Users
  PROVE  Handed2(r, u) = Objs(r)[u]
<1> DEFINE k == HeldBy(r)[u]
<1>1. Objs(r)[u] = ObjectFor(k)
  BY ObjsAre DEF Obj
<1>2. CASE r.server.phase = "running"
  <2>1. Good(r)
    BY <1>2 DEF GoodStatus
  <2>2. CASE k \in Infos
    <3>1. k \in Records
      BY <2>2, RecordsAre
    <3>2. HeldBy(r)[u] = k
      OBVIOUS
    <3> HIDE DEF k
    <3>3. r.info[k].refcount \in Nat \ {0}
      BY <2>1, <3>1, <3>2, UsedIsCounted DEF Good
    <3>4. r.info[k].handle = k
      BY <2>1, <2>2, <3>3 DEF Good, Backed
    <3>5. ObjectFor(k) = k
      BY <2>2, ObjectsAre
    <3> QED
      BY <1>1, <3>1, <3>2, <3>4, <3>5 DEF Handed2
  <2>3. CASE k = Screen
    <3>1. r.server.useDumb
      <4>1. SUFFICES ASSUME ~r.server.useDumb PROVE FALSE
        OBVIOUS
      <4>2. ~(r.bo[Scanout].refcnt > 0) /\ r.pix[Screen].info = NoInfo
        BY <2>1, <4>1 DEF Good, ScreenSet
      <4>3. Objs(r)[u] = Scanout
        BY Zenon, <1>1, <2>3, ObjectsAre
      <4>4. Scanout \notin Live(r) /\ Scanout \in Handles /\ u \in Sharers
        BY <4>2, SharersAre, RecordsAre DEF Live
      <4> QED
        BY <4>3, <4>4, LiveIsUsed
    <3>2. r.info[Screen].handle = Scanout
      BY <2>1, <3>1 DEF Good, ScreenSet
    <3>3. ObjectFor(Screen) = Scanout /\ Screen \in Records
      BY ObjectsAre, RecordsAre
    <3> QED
      BY <1>1, <2>3, <3>2, <3>3 DEF Handed2
  <2>4. CASE k = Scratch
    <3>1. r.info[Scratch].handle = Invalid
      BY <2>1 DEF Good, ScratchSet
    <3>2. ObjectFor(Scratch) = Invalid /\ Scratch \in Records
      BY ObjectsAre, RecordsAre
    <3> QED
      BY <1>1, <2>4, <3>1, <3>2 DEF Handed2
  <2>5. CASE k \notin Records
    <3>1. ObjectFor(k) = Invalid
      BY <2>5, RecordsAre DEF ObjectFor
    <3> QED
      BY <1>1, <2>5, <3>1 DEF Handed2
  <2> QED
    BY <2>2, <2>3, <2>4, <2>5 DEF Records
<1>3. CASE r.server.phase # "running"
  <2>1. k = NoInfo
    BY <1>3, NothingIs DEF GoodStatus
  <2>2. Handed2(r, u) = Invalid
    BY <2>1, RecordsAre DEF Handed2
  <2>3. Objs(r)[u] = Invalid
    BY <1>3, BareObjects
  <2> QED
    BY <2>2, <2>3
<1> QED
  BY <1>2, <1>3

ObjectMap == [u \in AllPixmaps \cup Windows \cup Buffers \cup {Scanout} |-> ObjectOf(u)]

LiveMap == {h \in Handles : bo[h].refcnt > 0}

LEMMA MapIs ==
  ASSUME IInv
  PROVE  ObjectMap = Objs(Status) /\ LiveMap = Live(Status)
<1>1. GoodStatus(Status) /\ Scanout \notin Users
  BY SharersAre DEF IInv
<1>2. ASSUME NEW u \in Users
      PROVE  ObjectOf(u) = Objs(Status)[u]
  <2>1. HeldBy(Status)[u] = InfoOf(u)
    BY StatusIs DEF HeldBy, InfoOf
  <2>2. ObjectOf(u) = Handed2(Status, u)
    BY <1>1, <2>1, StatusIs DEF ObjectOf, Handed2
  <2> QED
    BY <1>1, <2>2, HandedIs
<1>3. ObjectOf(Scanout) = Objs(Status)[Scanout]
  BY StatusIs, ObjsAre DEF ObjectOf
<1>4. ObjectMap = [u \in Sharers |-> Objs(Status)[u]]
  BY <1>2, <1>3 DEF ObjectMap, Sharers, Users
<1> QED
  BY <1>4, ObjsAre, StatusIs DEF LiveMap, Live

LEMMA MapIsThen ==
  ASSUME IInv'
  PROVE  ObjectMap' = Objs(Status') /\ LiveMap' = Live(Status')
<1>1. GoodStatus(Status') /\ Scanout \notin Users
  BY SharersAre DEF IInv
<1>0. /\ Status'.server = server' /\ Status'.pix = pix' /\ Status'.win = win'
      /\ Status'.buf = buf' /\ Status'.info = info' /\ Status'.bo = bo'
  BY DEF Status
<1>2. ASSUME NEW u \in Users
      PROVE  ObjectOf(u)' = Objs(Status')[u]
  <2>1. HeldBy(Status')[u] = InfoOf(u)'
    BY <1>0 DEF HeldBy, InfoOf
  <2>2. ObjectOf(u)' = Handed2(Status', u)
    BY <1>0, <1>1, <2>1 DEF ObjectOf, Handed2
  <2> QED
    BY <1>1, <2>2, HandedIs
<1>3. ObjectOf(Scanout)' = Objs(Status')[Scanout]
  BY <1>0, ObjsAre DEF ObjectOf
<1>4. ObjectMap' = [u \in Sharers |-> Objs(Status')[u]]
  BY <1>2, <1>3 DEF ObjectMap, Sharers, Users
<1> QED
  BY <1>0, <1>4, ObjsAre DEF LiveMap, Live

\* Every step of the driver is one of SharedBo: a BO is allocated for those who use
\* it from the start, and freed in the step its last user leaves it.
THEOREM SharedBoImplemented == Spec => ImplementsSharedBo
<1>1. Init /\ IInv => Shared!Init
  <2> SUFFICES ASSUME Init, IInv PROVE Shared!Init
    OBVIOUS
  <2>1. GoodStatus(Status) /\ Status.server.phase = "screen_init"
    BY StatusIs DEF Init, IInv
  <2>2. \A u \in Sharers : Objs(Status)[u] = Invalid
    BY <2>1, BareObjects DEF Sharers
  <2>3. ObjectMap = [u \in Sharers |-> Invalid] /\ LiveMap = {}
    <3>1. Objs(Status) = [u \in Sharers |-> Invalid]
      BY <2>2, ObjsAre
    <3>2. Live(Status) = {}
      BY <2>1, <2>2, LiveIsUsed, RecordsAre
    <3> QED
      BY <3>1, <3>2, MapIs
  <2> QED
    BY <2>3 DEF Shared!Init, ObjectMap, LiveMap, Sharers, Users
<1>2. IInv /\ IInv' /\ [Next]_vars => [Shared!Next]_(Shared!vars)
  <2> SUFFICES ASSUME IInv, IInv', [Next]_vars PROVE [Shared!Next]_(Shared!vars)
    OBVIOUS
  <2>1. ObjectMap = Objs(Status) /\ LiveMap = Live(Status)
    BY MapIs
  <2>2. ObjectMap' = Objs(Status') /\ LiveMap' = Live(Status')
    BY MapIsThen
  <2>3. SharedStep(Status, Status')
    <3>1. CASE Next
      <4>1. GoodStatus(Status) /\ Steps(Status, Status')
        BY <3>1, NextSteps DEF IInv
      <4> QED
        BY <4>1, StepsAreShared
    <3>2. CASE UNCHANGED vars
      <4>1. Status' = Status
        BY <3>2 DEF Status, vars
      <4> QED
        BY <4>1 DEF SharedStep
    <3> QED
      BY <3>1, <3>2
  <2>4. ASSUME NEW h \in Handles, NEW u \in Sharers, NEW v \in Sharers,
               Created2(Status, Status', u, v, h)
        PROVE  Shared!Create(u, v, h)
    <3>1. /\ h \notin LiveMap /\ h \in LiveMap'
          /\ ObjectMap' = [ObjectMap EXCEPT ![u] = h, ![v] = h]
          /\ LiveMap' = {g \in LiveMap \cup {h} : \E t \in Sharers : ObjectMap'[t] = g}
      BY <2>1, <2>2, <2>4 DEF Created2, Kept
    <3> QED
      BY <3>1 DEF Shared!Create, Shared!Keep, ObjectMap, LiveMap, Sharers, Users
  <2>5. ASSUME NEW u \in Sharers, NEW v \in Sharers, Shared2(Status, Status', u, v)
        PROVE  Shared!Share(u, v)
    <3>1. /\ ObjectMap[u] # Invalid /\ ObjectMap[v] = Invalid
          /\ ObjectMap' = [ObjectMap EXCEPT ![v] = ObjectMap[u]]
          /\ LiveMap' = {g \in LiveMap : \E t \in Sharers : ObjectMap'[t] = g}
      BY <2>1, <2>2, <2>5 DEF Shared2, Kept
    <3> QED
      BY <3>1 DEF Shared!Share, Shared!Keep, ObjectMap, LiveMap, Sharers, Users
  <2>6. ASSUME NEW u \in Sharers, Left2(Status, Status', u)
        PROVE  Shared!Leave(u)
    <3>1. /\ ObjectMap[u] # Invalid
          /\ ObjectMap' = [ObjectMap EXCEPT ![u] = Invalid]
          /\ LiveMap' = {g \in LiveMap : \E t \in Sharers : ObjectMap'[t] = g}
      BY <2>1, <2>2, <2>6 DEF Left2, Kept
    <3> QED
      BY <3>1 DEF Shared!Leave, Shared!Keep, ObjectMap, LiveMap, Sharers, Users
  <2>7. ASSUME Gone(Status')
        PROVE  Shared!Crash
    <3>1. ObjectMap' = [u \in Sharers |-> Invalid] /\ LiveMap' = {}
      BY <2>2, <2>7 DEF Gone
    <3> QED
      BY <3>1 DEF Shared!Crash, ObjectMap, LiveMap, Sharers, Users
  <2>8. ASSUME Objs(Status') = Objs(Status), Live(Status') = Live(Status)
        PROVE  UNCHANGED Shared!vars
    <3>1. ObjectMap' = ObjectMap /\ LiveMap' = LiveMap
      BY <2>1, <2>2, <2>8
    <3> QED
      BY <3>1 DEF Shared!vars, ObjectMap, LiveMap
  <2>9. \A u : u \in Sharers <=> u \in AllPixmaps \cup Windows \cup Buffers \cup {Scanout}
    BY DEF Sharers, Users
  <2>10. Shared!Next \/ UNCHANGED Shared!vars
    BY <2>3, <2>4, <2>5, <2>6, <2>7, <2>8, <2>9 DEF SharedStep, Shared!Next
  <2> QED
    BY <2>10
<1> QED
  BY <1>1, <1>2, IInvHolds, PTL DEF Spec, ImplementsSharedBo, Shared!Spec
-----------------------------------------------------------------------------
(***************************************************************************)
(* What SharedBo promises, and the driver with it.                         *)
(***************************************************************************)
\* The promise of SharedBo, of the users' objects and the objects in memory.
Promise ==
  /\ ObjectMap \in [Sharers -> Handles \cup {Invalid}]
  /\ LiveMap \subseteq Handles
  /\ LiveMap = {ObjectMap[u] : u \in Sharers} \ {Invalid}

\* The same of its variables.
LEMMA PromiseIs == Shared!TypeOK /\ Shared!LiveIsUsed <=> Promise
BY DEF Shared!TypeOK, Shared!LiveIsUsed, Promise, ObjectMap, LiveMap, Sharers, Users

\* A step of SharedBo, with the sets spelled out.
SharedNext ==
  \/ \E h \in Handles, u, v \in Sharers :
       /\ h \notin LiveMap /\ h \in LiveMap'
       /\ ObjectMap' = [ObjectMap EXCEPT ![u] = h, ![v] = h]
       /\ LiveMap' = {g \in LiveMap \cup {h} : \E t \in Sharers : ObjectMap'[t] = g}
  \/ \E u, v \in Sharers :
       /\ ObjectMap[u] # Invalid /\ ObjectMap[v] = Invalid
       /\ ObjectMap' = [ObjectMap EXCEPT ![v] = ObjectMap[u]]
       /\ LiveMap' = {g \in LiveMap : \E t \in Sharers : ObjectMap'[t] = g}
  \/ \E u \in Sharers :
       /\ ObjectMap[u] # Invalid
       /\ ObjectMap' = [ObjectMap EXCEPT ![u] = Invalid]
       /\ LiveMap' = {g \in LiveMap : \E t \in Sharers : ObjectMap'[t] = g}
  \/ ObjectMap' = [u \in Sharers |-> Invalid] /\ LiveMap' = {}

\* What a step does to the map and to the set.
LEMMA SharedNextIs == Shared!Next => SharedNext
BY DEF Shared!Next, Shared!Create, Shared!Share, Shared!Leave, Shared!Crash, Shared!Keep,
       SharedNext, ObjectMap, LiveMap, Sharers, Users

\* Objects come and go with their users.
LEMMA PromiseKept ==
  ASSUME Promise, SharedNext \/ (ObjectMap' = ObjectMap /\ LiveMap' = LiveMap)
  PROVE  Promise'
<1>0. Invalid \notin Handles /\ Sharers' = Sharers /\ Handles' = Handles
  BY PixmapBoAssumption DEF Sharers, Users, AllPixmaps, Handles, Records
<1>1. ASSUME NEW h \in Handles, NEW u \in Sharers, NEW v \in Sharers,
             ObjectMap' = [ObjectMap EXCEPT ![u] = h, ![v] = h],
             LiveMap' = {g \in LiveMap \cup {h} : \E t \in Sharers : ObjectMap'[t] = g}
      PROVE  Promise'
  BY <1>0, <1>1 DEF Promise
<1>2. ASSUME NEW u \in Sharers, NEW v \in Sharers, ObjectMap[u] # Invalid,
             ObjectMap' = [ObjectMap EXCEPT ![v] = ObjectMap[u]],
             LiveMap' = {g \in LiveMap : \E t \in Sharers : ObjectMap'[t] = g}
      PROVE  Promise'
  BY <1>0, <1>2 DEF Promise
<1>3. ASSUME NEW u \in Sharers, ObjectMap' = [ObjectMap EXCEPT ![u] = Invalid],
             LiveMap' = {g \in LiveMap : \E t \in Sharers : ObjectMap'[t] = g}
      PROVE  Promise'
  BY <1>0, <1>3 DEF Promise
<1>4. CASE ObjectMap' = [u \in Sharers |-> Invalid] /\ LiveMap' = {}
  BY <1>0, <1>4 DEF Promise
<1>5. CASE ObjectMap' = ObjectMap /\ LiveMap' = LiveMap
  BY <1>0, <1>5 DEF Promise
<1> QED
  BY <1>1, <1>2, <1>3, <1>4, <1>5 DEF SharedNext

\* SharedBo keeps its promise: an object is in memory exactly when some user has it,
\* for any users and objects.
THEOREM LiveIsUsedCorrect == Shared!Spec => [](Shared!TypeOK /\ Shared!LiveIsUsed)
<1>1. Shared!Init => Promise
  <2>1. Shared!Init => ObjectMap = [u \in Sharers |-> Invalid] /\ LiveMap = {}
    BY DEF Shared!Init, ObjectMap, LiveMap, Sharers, Users
  <2> QED
    BY <2>1 DEF Promise
<1>2. Promise /\ [Shared!Next]_(Shared!vars) => Promise'
  <2>1. UNCHANGED Shared!vars => ObjectMap' = ObjectMap /\ LiveMap' = LiveMap
    BY DEF Shared!vars, ObjectMap, LiveMap
  <2> QED
    BY <2>1, SharedNextIs, PromiseKept
<1>3. Promise => Shared!TypeOK /\ Shared!LiveIsUsed
  BY PromiseIs
<1> QED
  BY <1>1, <1>2, <1>3, PTL DEF Shared!Spec

\* And so does the driver: what unref_bo_info and the backends' reference counts
\* are for.
THEOREM PromiseCorrect == Spec => [](Shared!TypeOK /\ Shared!LiveIsUsed)
BY SharedBoImplemented, LiveIsUsedCorrect, PTL DEF ImplementsSharedBo
=============================================================================
