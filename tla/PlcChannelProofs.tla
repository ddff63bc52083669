-------------------------- MODULE PlcChannelProofs --------------------------
(***************************************************************************)
(* Proofs about the caches between impedances and received PSDs, for any   *)
(* number of devices and loads, any topology and any impedances.           *)
(***************************************************************************)
EXTENDS PlcChannel, FiniteSetTheorems, TLAPS

USE OutletAssumption, SenderAssumption, LinkAssumption, NoPsdAssumption

---------------------------------------------------------------------------
(* The record type of a link's caches.                                     *)
Cache == [ctv : Calculation, ctv_is_up_2_date : BOOLEAN, hash_sum : SUBSET Object,
          abs_sqr_ctf : Calculation \cup {NoPsd}, is_up_2_date : BOOLEAN,
          rxPsd : Calculation \cup {NoPsd}]

(* A transfer function is calculated from outlets that exist.              *)
LEMMA SnapshotType ==
  ASSUME NEW l \in Link, NEW I \in Setting
  PROVE  Snapshot(l, I) \in Calculation /\ Snapshot(l, I) # NoPsd
<1>1. DependsOn(l) \subseteq Outlet
  BY DEF DependsOn, Link, Outlet
<1>2. Snapshot(l, I) \in [DependsOn(l) -> Object]
  BY <1>1 DEF Snapshot, Setting
<1> QED BY <1>2 DEF Calculation

(* The hash is 0 for no setting, and the same for no two.                  *)
LEMMA HashInjective ==
  ASSUME OwnImpedances
  PROVE  /\ \A I \in Setting : Present(I) # {}
         /\ \A I, J \in Setting : Present(I) = Present(J) => I = J
<1>1. ASSUME NEW I \in Setting PROVE Present(I) # {}
  <2>1. PICK o \in Outlet : NoImpedance \notin Impedances[o]
    BY DEF OwnImpedances
  <2> QED BY <2>1 DEF Present, Setting
<1>2. ASSUME NEW I \in Setting, NEW J \in Setting, Present(I) = Present(J), NEW o \in Outlet
      PROVE  I[o] = NoImpedance \/ J[o] = I[o]
  <2> SUFFICES ASSUME I[o] # NoImpedance PROVE J[o] = I[o]
    OBVIOUS
  <2>1. PICK p \in Outlet : J[p] = I[o]
    BY <1>2 DEF Present
  <2>2. J[p] \in Impedances[p] \cap Impedances[o]
    BY <2>1 DEF Setting
  <2> QED BY <2>1, <2>2 DEF OwnImpedances
<1>3. ASSUME NEW I \in Setting, NEW J \in Setting, Present(I) = Present(J) PROVE I = J
  <2>1. \A o \in Outlet : I[o] = J[o]
    BY <1>2, <1>3
  <2> QED BY <2>1 DEF Setting
<1> QED BY <1>1, <1>3

(* The hash the first impedances leave.                                    *)
LEMMA FirstHash ==
  ASSUME OwnImpedances, NEW I \in Setting
  PROVE  HashOf(I) = Present(I)
<1> DEFINE at(z) == {o \in Outlet : I[o] = z}
<1>1. ASSUME NEW z \in Present(I) PROVE z \in Object /\ z # NoImpedance /\ Cardinality(at(z)) = 1
  <2>1. PICK o \in Outlet : I[o] = z
    BY <1>1 DEF Present
  <2>2. z # NoImpedance /\ z \in Object
    BY <1>1, <2>1 DEF Present, Setting
  <2>3. at(z) = {o}
    BY <2>1, <2>2 DEF OwnImpedances, Setting
  <2> QED BY <2>2, <2>3, FS_Singleton
<1>2. ASSUME NEW z, z \notin Present(I), z # NoImpedance PROVE Cardinality(at(z)) = 0
  <2>1. at(z) = {}
    BY <1>2 DEF Present
  <2> QED BY <2>1, FS_EmptySet
<1> HIDE DEF at
<1>3. \A z \in HashOf(I) : z # NoImpedance /\ Cardinality(at(z)) % 2 = 1
  BY DEF HashOf, at
<1>4. \A z \in Object : z # NoImpedance /\ Cardinality(at(z)) % 2 = 1 => z \in HashOf(I)
  BY DEF HashOf, at
<1>5. 0 % 2 # 1 /\ 1 % 2 = 1
  OBVIOUS
<1> QED BY <1>1, <1>2, <1>3, <1>4, <1>5

(* SetImpedance keeps the hash that of the impedances present.             *)
LEMMA HashStep ==
  ASSUME OwnImpedances, NEW I \in Setting, NEW o \in Outlet, NEW z \in Impedances[o], I[o] # z
  PROVE  /\ [I EXCEPT ![o] = z] \in Setting
         /\ HashAfter(Present(I), I[o], z) = Present([I EXCEPT ![o] = z])
<1> DEFINE J == [I EXCEPT ![o] = z]
<1>1. J \in Setting /\ J[o] = z /\ \A p \in Outlet \ {o} : J[p] = I[p]
  BY DEF Setting, Object
<1> HIDE DEF J
<1>2. \A p \in Outlet \ {o} : I[p] # NoImpedance => I[p] # I[o] /\ I[p] # z
  BY DEF OwnImpedances, Setting
<1>3. Present(J) = {J[p] : p \in Outlet} \ {NoImpedance} /\ Present(I) = {I[p] : p \in Outlet} \ {NoImpedance}
  BY DEF Present
<1>4. ASSUME NEW x PROVE x \in HashAfter(Present(I), I[o], z) <=> x \in Present(J)
  <2>1. x \in Present(I) <=> x # NoImpedance /\ (x = I[o] \/ \E p \in Outlet \ {o} : x = I[p])
    BY <1>3
  <2>2. x \in Present(J) <=> x # NoImpedance /\ (x = z \/ \E p \in Outlet \ {o} : x = I[p])
    BY <1>1, <1>3
  <2>3. x # NoImpedance /\ (\E p \in Outlet \ {o} : x = I[p]) => x # I[o] /\ x # z
    BY <1>2
  <2> HIDE DEF J
  <2> QED BY <2>1, <2>2, <2>3 DEF HashAfter, SymDiff, Bits
<1> QED BY <1>1, <1>4 DEF J

---------------------------------------------------------------------------
(* Calculating what is missing gives the PSD of the present impedances:    *)
(* where the vector is reused because the hash is the same, so are the     *)
(* impedances.                                                             *)
LEMMA VectorCurrent ==
  ASSUME OwnImpedances, NEW l \in Link, NEW I \in Setting, NEW c \in Cache, NEW D,
         CacheCurrent(l, c, I, D)
  PROVE  LET u == UpdatedVector(l, c, I, Present(I))
         IN  u \in Cache /\ CacheCurrent(l, u, I, D) /\ u.ctv = Snapshot(l, I) /\ u.rxPsd = c.rxPsd
<1> DEFINE h == Present(I)
           s == Snapshot(l, I)
           u == UpdatedVector(l, c, I, h)
<1>1. s \in Calculation /\ h \subseteq Object
  BY SnapshotType DEF Present, Setting
<1>2. CASE c.ctv_is_up_2_date \/ c.hash_sum = h
  <2>1. u = c
    BY <1>2 DEF UpdatedVector
  <2>2. c.ctv = s
    BY <1>2, HashInjective DEF CacheCurrent
  <2> QED BY <2>1, <2>2
<1>3. CASE ~ (c.ctv_is_up_2_date \/ c.hash_sum = h)
  <2>1. u = [c EXCEPT !.ctv = s, !.hash_sum = h,
                      !.ctv_is_up_2_date = (c.ctv_is_up_2_date \/ l \notin Direct)]
    BY <1>3 DEF UpdatedVector
  <2> HIDE DEF u, s, h
  <2>2. /\ u \in Cache /\ u.ctv = s /\ u.hash_sum = h /\ u.rxPsd = c.rxPsd
        /\ u.abs_sqr_ctf = c.abs_sqr_ctf /\ u.is_up_2_date = c.is_up_2_date
    BY <1>1, <2>1 DEF Cache
  <2>3. CacheCurrent(l, u, I, D)
    BY <2>2 DEF CacheCurrent, s, h
  <2> QED BY <2>2, <2>3 DEF u, s, h
<1> QED BY <1>2, <1>3

LEMMA RefreshCurrent ==
  ASSUME OwnImpedances, NEW l \in Link, NEW I \in Setting, NEW c \in Cache, NEW D,
         CacheCurrent(l, c, I, D)
  PROVE  LET w == WithPsd(l, c, I, Present(I))
         IN  /\ w \in Cache /\ CacheCurrent(l, w, I, D) /\ w.rxPsd # NoPsd
             /\ c.rxPsd # NoPsd => w.rxPsd = c.rxPsd
<1> DEFINE h == Present(I)
           s == Snapshot(l, I)
           v == UpdatedVector(l, c, I, h)
           u == Updated(l, c, I, h)
           w == WithPsd(l, c, I, h)
<1>1. s \in Calculation /\ s # NoPsd /\ \A o \in DependsOn(l) : s[o] = I[o]
  BY SnapshotType DEF Snapshot
<1>2. v \in Cache /\ CacheCurrent(l, v, I, D) /\ v.ctv = s /\ v.rxPsd = c.rxPsd
  BY VectorCurrent
<1>3. u \in Cache /\ CacheCurrent(l, u, I, D) /\ u.abs_sqr_ctf = s
  <2>1. CASE c.is_up_2_date
    BY <2>1 DEF Updated, CacheCurrent
  <2>2. CASE ~ c.is_up_2_date
    <3>1. u = [v EXCEPT !.abs_sqr_ctf = v.ctv, !.is_up_2_date = TRUE]
      BY <2>2 DEF Updated
    <3> HIDE DEF u, v, s, h
    <3>2. /\ u \in Cache /\ u.abs_sqr_ctf = s /\ u.ctv = v.ctv /\ u.hash_sum = v.hash_sum
          /\ u.ctv_is_up_2_date = v.ctv_is_up_2_date /\ u.rxPsd = v.rxPsd
      BY <1>1, <1>2, <3>1 DEF Cache
    <3> QED BY <1>2, <3>2 DEF CacheCurrent, s
  <2> QED BY <2>1, <2>2
<1>4. CASE c.rxPsd # NoPsd
  BY <1>4 DEF WithPsd, CacheCurrent
<1>5. CASE c.rxPsd = NoPsd
  <2>1. w = [u EXCEPT !.rxPsd = u.abs_sqr_ctf]
    BY <1>5 DEF WithPsd
  <2> HIDE DEF w, u, v, s, h
  <2>2. /\ w \in Cache /\ w.rxPsd = s /\ w.ctv = u.ctv /\ w.hash_sum = u.hash_sum
        /\ w.ctv_is_up_2_date = u.ctv_is_up_2_date /\ w.abs_sqr_ctf = u.abs_sqr_ctf
        /\ w.is_up_2_date = u.is_up_2_date
    BY <1>1, <1>3, <2>1 DEF Cache
  <2>3. CacheCurrent(l, w, I, D)
    BY <1>1, <1>3, <2>2 DEF CacheCurrent, s
  <2> QED BY <1>1, <1>5, <2>2, <2>3 DEF w, h
<1> QED BY <1>4, <1>5

(* A change sets out of date and deletes what depends on it; a PSD that is *)
(* left depends on it only if o is a device on the path, and is noted.     *)
LEMMA ChangeCurrent ==
  ASSUME NEW I \in Setting, NEW o \in Outlet,
         NEW J \in Setting, \A p \in Outlet \ {o} : J[p] = I[p],
         NEW D, NEW C, \A l \in Link : C[l] \in Cache /\ CacheCurrent(l, C[l], I, D),
         NEW B, B = AfterChange(o, C), NEW E, E = OutdatedAfter(D, o, B)
  PROVE  \A l \in Link : /\ B[l] \in Cache /\ CacheCurrent(l, B[l], J, E)
                         /\ B[l].rxPsd # NoPsd => B[l].rxPsd = C[l].rxPsd
<1> SUFFICES ASSUME NEW l \in Link
             PROVE  /\ B[l] \in Cache /\ CacheCurrent(l, B[l], J, E)
                    /\ B[l].rxPsd # NoPsd => B[l].rxPsd = C[l].rxPsd
  OBVIOUS
<1> DEFINE c == C[l]
           d == B[l]
           b == IF l \in Affected(o) THEN OutOfDate(c) ELSE c
<1>1. c \in Cache /\ CacheCurrent(l, c, I, D)
  OBVIOUS
<1>2. d = IF l \in PsdDeleted(o) THEN [b EXCEPT !.rxPsd = NoPsd] ELSE b
  BY DEF AfterChange
<1>3. /\ DependsOn(l) \subseteq Outlet
      /\ \A p \in Outlet \ {o} : J[p] = I[p]
  BY DEF DependsOn, Link, Outlet, Setting
<1>4. o \in DependsOn(l) => l \in Affected(o)
  BY DEF DependsOn, Affected, Link, Outlet
<1>5. o \notin DependsOn(l) => Snapshot(l, J) = Snapshot(l, I)
  BY <1>3 DEF Snapshot
<1>6. o \in DependsOn(l) /\ l \notin PsdDeleted(o) => <<l, o>> \in Passing(o)
  <2> SUFFICES ASSUME o \in DependsOn(l), l \notin PsdDeleted(o) PROVE <<l, o>> \in Passing(o)
    OBVIOUS
  <2>1. o \in Device /\ o \in Taps[l]
    BY DEF DependsOn, PsdDeleted, Outlet, Link
  <2> QED BY <2>1 DEF Passing
<1> HIDE DEF c
<1>7. /\ b \in Cache /\ b.rxPsd = c.rxPsd /\ b.ctv = c.ctv /\ b.hash_sum = c.hash_sum
      /\ b.abs_sqr_ctf = c.abs_sqr_ctf
      /\ b.ctv_is_up_2_date => c.ctv_is_up_2_date /\ l \notin Affected(o)
      /\ b.is_up_2_date => c.is_up_2_date /\ l \notin Affected(o)
  BY <1>1 DEF Cache, OutOfDate
<1> HIDE DEF b
<1>8. /\ d \in Cache /\ (d.rxPsd # NoPsd => d.rxPsd = c.rxPsd /\ l \notin PsdDeleted(o))
      /\ d.ctv = c.ctv /\ d.hash_sum = c.hash_sum /\ d.abs_sqr_ctf = c.abs_sqr_ctf
      /\ d.ctv_is_up_2_date => c.ctv_is_up_2_date /\ l \notin Affected(o)
      /\ d.is_up_2_date => c.is_up_2_date /\ l \notin Affected(o)
  BY <1>2, <1>7 DEF Cache
<1>9. ASSUME d.rxPsd # NoPsd, NEW p \in DependsOn(l)
      PROVE  d.rxPsd[p] = J[p] \/ <<l, p>> \in E
  <2>1. <<l, p>> \in D \cup Passing(o) => <<l, p>> \in E
    BY <1>9 DEF OutdatedAfter
  <2>2. CASE p = o
    BY <1>6, <1>8, <1>9, <2>1, <2>2
  <2>3. CASE p # o
    <3>1. J[p] = I[p]
      BY <1>3, <2>3
    <3>2. c.rxPsd # NoPsd /\ d.rxPsd = c.rxPsd
      BY <1>8, <1>9
    <3>3. c.rxPsd[p] = I[p] \/ <<l, p>> \in D
      BY <1>1, <3>2 DEF CacheCurrent
    <3> QED BY <2>1, <3>1, <3>2, <3>3
  <2> QED BY <2>2, <2>3
<1> HIDE DEF d
<1>10. CacheCurrent(l, d, J, E)
  BY <1>1, <1>4, <1>5, <1>8, <1>9 DEF CacheCurrent
<1> QED BY <1>8, <1>10 DEF d, c

---------------------------------------------------------------------------
(* SetImpedance, with the transmitters that go on (T) and that start.      *)
LEMMA SetImpedanceStep ==
  ASSUME OwnImpedances, IInv, NEW o \in Outlet, NEW z \in Impedances[o],
         NEW immediately \in BOOLEAN, NEW T \in SUBSET transmitting, NEW start \in SUBSET Device,
         SetImpedance(o, z, immediately, T, start), transmitting' = T \cup start,
         propagating' \subseteq Device, scheduled' \in BOOLEAN, task' \in BOOLEAN
  PROVE  IInv'
<1> DEFINE I == impedance
           J == [impedance EXCEPT ![o] = z]
           changed == impedance[o] # z
           h == IF changed THEN HashAfter(hash_sum, impedance[o], z) ELSE hash_sum
           C == IF changed THEN AfterChange(o, impl) ELSE impl
           R == (IF changed /\ immediately THEN T ELSE {}) \cup start
           E == IF changed THEN OutdatedAfter(outdated, o, C) ELSE outdated
<1>1. /\ impedance' = J /\ hash_sum' = h /\ impl' = Refreshed(C, R, J, h)
      /\ handed' = [l \in Link |-> IF l[1] \in R THEN impl'[l].rxPsd ELSE handed[l]]
      /\ deferred' = IF changed /\ ~ immediately THEN deferred \cup T ELSE (deferred \cap T) \ R
      /\ outdated' = E /\ preset' = preset
  BY DEF SetImpedance
<1>2. /\ I \in Setting /\ hash_sum = Present(I) /\ transmitting \subseteq Device
      /\ deferred \subseteq Device /\ handed \in [Link -> Calculation \cup {NoPsd}]
      /\ outdated \subseteq Link \X Device /\ preset \in BOOLEAN
  BY DEF IInv, TypeOK, Setting
<1>3. \A l \in Link : impl[l] \in Cache /\ CacheCurrent(l, impl[l], I, outdated)
  BY DEF IInv, TypeOK, CachesCurrent, Cache
<1>4. J \in Setting /\ h = Present(J)
  <2>1. CASE changed
    BY <1>2, <2>1, HashStep
  <2>2. CASE ~ changed
    <3>1. J = I
      BY <1>2, <2>2 DEF Setting
    <3> QED BY <1>2, <2>2, <3>1
  <2> QED BY <2>1, <2>2
<1>5. ~ changed => J = I /\ E = outdated
  BY <1>2 DEF Setting
<1>6. ASSUME NEW l \in Link
      PROVE  /\ C[l] \in Cache /\ CacheCurrent(l, C[l], J, E)
             /\ C[l].rxPsd # NoPsd => C[l].rxPsd = impl[l].rxPsd
  <2>1. CASE changed
    <3>1. C = AfterChange(o, impl) /\ E = OutdatedAfter(outdated, o, C)
      BY <2>1
    <3>2. \A p \in Outlet \ {o} : J[p] = I[p]
      BY <1>2 DEF Setting
    <3> HIDE DEF C, E, J, I
    <3> QED BY <1>2, <1>3, <1>4, <3>1, <3>2, ChangeCurrent
  <2>2. CASE ~ changed
    BY <1>3, <1>5, <2>2
  <2> QED BY <2>1, <2>2
<1>7. \A l \in Link : impl'[l] = IF l[1] \in R THEN WithPsd(l, C[l], J, h) ELSE C[l]
  BY <1>1 DEF Refreshed
<1>8. DOMAIN impl' = Link /\ T \subseteq Device /\ R \subseteq Device
  BY <1>1, <1>2 DEF Refreshed
<1>9. E \subseteq Link \X Device /\ \A p \in E : C[p[1]].rxPsd # NoPsd
  BY <1>2 DEF IInv, OutdatedInMap, OutdatedAfter, Passing
<1> HIDE DEF I, J, changed, h, C, R, E
<1>10. ASSUME NEW l \in Link
       PROVE  /\ impl'[l] \in Cache /\ CacheCurrent(l, impl'[l], J, E)
              /\ C[l].rxPsd # NoPsd => impl'[l].rxPsd = C[l].rxPsd
              /\ l[1] \in R => handed'[l] = impl'[l].rxPsd /\ handed'[l] # NoPsd
              /\ l[1] \notin R => impl'[l] = C[l] /\ handed'[l] = handed[l]
  <2>1. CASE l[1] \in R
    <3>1. impl'[l] = WithPsd(l, C[l], J, Present(J))
      BY <1>4, <1>7, <2>1
    <3>2. /\ impl'[l] \in Cache /\ CacheCurrent(l, impl'[l], J, E) /\ impl'[l].rxPsd # NoPsd
          /\ C[l].rxPsd # NoPsd => impl'[l].rxPsd = C[l].rxPsd
      BY <1>4, <1>6, <3>1, RefreshCurrent
    <3> QED BY <1>1, <2>1, <3>2
  <2>2. CASE l[1] \notin R
    BY <1>1, <1>6, <1>7, <2>2
  <2> QED BY <2>1, <2>2
<1>11. handed' \in [Link -> Calculation \cup {NoPsd}]
  <2>1. \A l \in Link : handed'[l] \in Calculation \cup {NoPsd}
    BY <1>2, <1>10 DEF Cache
  <2> QED BY <1>1, <2>1
<1>12. TypeOK'
  <2>1. deferred' \subseteq Device /\ transmitting' \subseteq Device
    BY <1>1, <1>2, <1>8
  <2>2. impedance' \in [Outlet -> Object] /\ \A p \in Outlet : impedance'[p] \in Impedances[p]
    BY <1>1, <1>4 DEF Setting
  <2>3. hash_sum' \subseteq Object
    BY <1>1, <1>4 DEF Present, Setting
  <2>4. outdated' \subseteq Link \X Device /\ preset' \in BOOLEAN
    BY <1>1, <1>2, <1>9
  <2> QED BY <1>8, <1>10, <1>11, <2>1, <2>2, <2>3, <2>4 DEF TypeOK, Cache
<1>13. hash_sum' = Present(impedance') /\ CachesCurrent'
  BY <1>1, <1>4, <1>10 DEF CachesCurrent, CacheCurrent
<1>14. OutdatedInMap'
  <2> SUFFICES ASSUME NEW p \in E PROVE impl'[p[1]].rxPsd # NoPsd
    BY <1>1 DEF OutdatedInMap
  <2>1. p[1] \in Link /\ C[p[1]].rxPsd # NoPsd
    BY <1>9
  <2> QED BY <1>10, <2>1
<1>15. HandedCurrent'
  <2> SUFFICES ASSUME NEW l \in Link, l[1] \in transmitting', impl'[l].rxPsd # NoPsd
               PROVE  handed'[l] = impl'[l].rxPsd
    BY DEF HandedCurrent
  <2>1. CASE l[1] \in R
    BY <1>10, <2>1
  <2>2. CASE l[1] \notin R
    <3>1. l[1] \in transmitting
      BY <2>2 DEF R
    <3>2. impl'[l].rxPsd = impl[l].rxPsd /\ handed'[l] = handed[l]
      BY <1>6, <1>10, <2>2
    <3> QED BY <3>1, <3>2 DEF IInv, HandedCurrent
  <2> QED BY <2>1, <2>2
<1>16. PsdCurrent'
  <2> SUFFICES ASSUME NEW l \in Link, l[1] \in transmitting' \ deferred'
               PROVE  /\ handed'[l] # NoPsd
                      /\ \A p \in DependsOn(l) : handed'[l][p] = J[p] \/ <<l, p>> \in E
    BY <1>1 DEF PsdCurrent
  <2>1. CASE l[1] \in R
    BY <1>10, <2>1 DEF CacheCurrent
  <2>2. CASE l[1] \notin R
    <3>1. l[1] \in T /\ ~ changed /\ l[1] \notin deferred
      BY <1>1, <2>2 DEF R
    <3>2. handed[l] # NoPsd /\ \A p \in DependsOn(l) : handed[l][p] = I[p] \/ <<l, p>> \in outdated
      BY <3>1 DEF IInv, PsdCurrent, I
    <3> QED BY <1>5, <1>10, <2>2, <3>1, <3>2
  <2> QED BY <2>1, <2>2
<1> QED BY <1>12, <1>13, <1>14, <1>15, <1>16 DEF IInv

(* ProcessTimeslotTasks: what is missing is calculated from the present    *)
(* impedances, and what is still in the map has been handed out.           *)
LEMMA TasksStep ==
  ASSUME OwnImpedances, IInv, ProcessTimeslotTasks
  PROVE  IInv'
<1> DEFINE T == transmitting
<1>1. /\ impl' = Refreshed(impl, T, impedance, hash_sum) /\ deferred' = {}
      /\ handed' = [l \in Link |-> IF l[1] \in T /\ impl[l].rxPsd = NoPsd
                                     THEN impl'[l].rxPsd ELSE handed[l]]
      /\ task' \in BOOLEAN /\ scheduled' \in BOOLEAN
      /\ UNCHANGED <<impedance, hash_sum, transmitting, propagating, outdated, preset>>
  BY DEF ProcessTimeslotTasks, MoreSlotTasks
<1>2. /\ impedance \in Setting /\ hash_sum = Present(impedance)
      /\ handed \in [Link -> Calculation \cup {NoPsd}] /\ outdated \subseteq Link \X Device
  BY DEF IInv, TypeOK, Setting
<1>3. \A l \in Link : impl[l] \in Cache /\ CacheCurrent(l, impl[l], impedance, outdated)
  BY DEF IInv, TypeOK, CachesCurrent, Cache
<1>4. \A l \in Link : impl'[l] = IF l[1] \in T THEN WithPsd(l, impl[l], impedance, hash_sum)
                                  ELSE impl[l]
  BY <1>1 DEF Refreshed
<1>5. ASSUME NEW l \in Link
      PROVE  /\ impl'[l] \in Cache /\ CacheCurrent(l, impl'[l], impedance, outdated)
             /\ impl[l].rxPsd # NoPsd => impl'[l].rxPsd # NoPsd
             /\ l[1] \in T => handed'[l] = impl'[l].rxPsd /\ handed'[l] # NoPsd
             /\ l[1] \notin T => handed'[l] = handed[l]
  <2>1. CASE l[1] \in T
    <3>1. impl'[l] = WithPsd(l, impl[l], impedance, Present(impedance))
      BY <1>2, <1>4, <2>1
    <3>2. /\ impl'[l] \in Cache /\ CacheCurrent(l, impl'[l], impedance, outdated)
          /\ impl'[l].rxPsd # NoPsd
          /\ impl[l].rxPsd # NoPsd => impl'[l].rxPsd = impl[l].rxPsd
      BY <1>2, <1>3, <3>1, RefreshCurrent
    <3>3. impl[l].rxPsd # NoPsd => handed[l] = impl[l].rxPsd
      BY <2>1 DEF IInv, HandedCurrent
    <3> QED BY <1>1, <2>1, <3>2, <3>3
  <2>2. CASE l[1] \notin T
    BY <1>1, <1>3, <1>4, <2>2
  <2> QED BY <2>1, <2>2
<1>6. handed' \in [Link -> Calculation \cup {NoPsd}]
  <2>1. \A l \in Link : handed'[l] \in Calculation \cup {NoPsd}
    BY <1>2, <1>5 DEF Cache
  <2> QED BY <1>1, <2>1
<1>7. DOMAIN impl' = Link
  BY <1>1 DEF Refreshed
<1>8. TypeOK'
  BY <1>1, <1>5, <1>6, <1>7 DEF IInv, TypeOK, Cache
<1>9. hash_sum' = Present(impedance') /\ CachesCurrent'
  BY <1>1, <1>2, <1>5 DEF CachesCurrent, CacheCurrent
<1>10. OutdatedInMap'
  <2>1. \A p \in outdated : p[1] \in Link /\ impl[p[1]].rxPsd # NoPsd
    BY <1>2 DEF IInv, OutdatedInMap
  <2> QED BY <1>1, <1>5, <2>1 DEF OutdatedInMap
<1>11. HandedCurrent'
  BY <1>1, <1>5 DEF HandedCurrent
<1>12. PsdCurrent'
  BY <1>1, <1>5 DEF PsdCurrent, CacheCurrent
<1> QED BY <1>8, <1>9, <1>10, <1>11, <1>12 DEF IInv

LEMMA InitInv ==
  ASSUME OwnImpedances, Init
  PROVE  IInv
<1>1. impedance \in Setting
  <2>1. \A o \in Outlet : impedance[o] \in Impedances[o]
    BY DEF Init, Outlet
  <2> QED BY <2>1 DEF Init, Setting
<1>2. hash_sum = Present(impedance) /\ hash_sum \subseteq Object
  BY <1>1, FirstHash DEF Init, Present, Setting
<1>3. \A l \in Link : impl[l] = Calculated(l, impedance)
  BY DEF Init
<1>4. \A l \in Link : impl[l] \in Cache /\ CacheCurrent(l, impl[l], impedance, outdated)
  <2> SUFFICES ASSUME NEW l \in Link
               PROVE  impl[l] \in Cache /\ CacheCurrent(l, impl[l], impedance, outdated)
    OBVIOUS
  <2> DEFINE s == Snapshot(l, impedance)
  <2>1. s \in Calculation
    BY <1>1, SnapshotType
  <2>2. impl[l] = [ctv |-> s, ctv_is_up_2_date |-> l \notin Direct, hash_sum |-> {},
                   abs_sqr_ctf |-> NoPsd, is_up_2_date |-> FALSE, rxPsd |-> NoPsd]
    BY <1>3 DEF Calculated
  <2>3. /\ impl[l].ctv = s /\ impl[l].hash_sum = {} /\ impl[l].rxPsd = NoPsd
        /\ impl[l].is_up_2_date = FALSE
    BY <2>2
  <2>4. CacheCurrent(l, impl[l], impedance, outdated)
    BY <2>3 DEF CacheCurrent
  <2> HIDE DEF s
  <2>5. (l \notin Direct) \in BOOLEAN
    OBVIOUS
  <2>6. impl[l] \in Cache
    BY <2>1, <2>2, <2>5 DEF Cache
  <2> QED BY <2>4, <2>6
<1>5. TypeOK
  BY <1>1, <1>2, <1>4 DEF Init, TypeOK, Cache, Setting
<1>6. HandedCurrent /\ OutdatedInMap /\ PsdCurrent
  BY DEF Init, HandedCurrent, OutdatedInMap, PsdCurrent
<1> QED BY <1>2, <1>4, <1>5, <1>6 DEF IInv, CachesCurrent

LEMMA InvStep ==
  ASSUME OwnImpedances, IInv, [Next]_vars
  PROVE  IInv'
<1>1. /\ transmitting \subseteq Device /\ propagating \subseteq Device
      /\ scheduled \in BOOLEAN /\ task \in BOOLEAN
  BY DEF IInv, TypeOK
<1>2. ASSUME NEW o \in Outlet, NEW z \in Impedances[o], NEW now \in BOOLEAN,
             ChangeImpedance(o, z, now)
      PROVE  IInv'
  <2>1. SetImpedance(o, z, now, transmitting, {}) /\ UNCHANGED <<transmitting, propagating>>
    BY <1>2 DEF ChangeImpedance
  <2>2. scheduled' \in BOOLEAN /\ task' \in BOOLEAN
    BY <1>1, <1>2 DEF ChangeImpedance, ScheduleNextTimeslotTasks
  <2> QED BY <1>1, <2>1, <2>2, SetImpedanceStep
<1>3. ASSUME NEW t \in Device, StartTx(t) PROVE IInv'
  <2>1. /\ SetImpedance(t, TxImpedance[t], TRUE, transmitting, {t})
        /\ transmitting' = transmitting \cup {t} /\ UNCHANGED propagating
    BY <1>3 DEF StartTx
  <2>2. scheduled' \in BOOLEAN /\ task' \in BOOLEAN
    BY <1>1, <1>3 DEF StartTx, ScheduleNextTimeslotTasks
  <2>3. t \in Outlet /\ TxImpedance[t] \in Impedances[t]
    BY DEF Outlet
  <2>4. /\ TRUE \in BOOLEAN /\ transmitting \in SUBSET transmitting /\ {t} \in SUBSET Device
        /\ propagating' \subseteq Device
    BY <1>1, <2>1
  <2> QED BY <2>1, <2>2, <2>3, <2>4, SetImpedanceStep
<1>4. ASSUME NEW t \in Device, EndTx(t) PROVE IInv'
  <2>1. /\ SetImpedance(t, RxImpedance[t], TRUE, transmitting \ {t}, {})
        /\ transmitting' = (transmitting \ {t}) \cup {} /\ propagating' = propagating \cup {t}
        /\ UNCHANGED <<scheduled, task>>
    BY <1>4 DEF EndTx
  <2>2. t \in Outlet /\ RxImpedance[t] \in Impedances[t]
    BY DEF Outlet
  <2> QED BY <1>1, <2>1, <2>2, SetImpedanceStep
<1>5. ASSUME propagating' \subseteq Device,
             UNCHANGED <<impedance, hash_sum, impl, transmitting, scheduled, task, handed, deferred,
                         outdated, preset>>
      PROVE  IInv'
  <2>1. TypeOK'
    BY <1>5 DEF IInv, TypeOK
  <2>2. hash_sum' = Present(impedance')
    BY <1>5 DEF IInv
  <2>3. CachesCurrent'
    BY <1>5 DEF IInv, CachesCurrent, CacheCurrent
  <2>4. HandedCurrent' /\ OutdatedInMap' /\ PsdCurrent'
    BY <1>5 DEF IInv, HandedCurrent, OutdatedInMap, PsdCurrent
  <2> QED BY <2>1, <2>2, <2>3, <2>4 DEF IInv
<1>6. ASSUME NEW t \in Device, PropagationComplete(t) PROVE IInv'
  BY <1>1, <1>5, <1>6 DEF PropagationComplete
<1>7. CASE ProcessTimeslotTasks
  BY <1>7, TasksStep
<1>8. CASE UNCHANGED vars
  BY <1>1, <1>5, <1>8 DEF vars
<1> QED BY <1>2, <1>3, <1>4, <1>6, <1>7, <1>8 DEF Next

(* Where the hash tells settings apart, every receiver of a transmission   *)
(* under way has been given a PSD of the present impedances, its own, the  *)
(* loads' and the other devices', unless the change was to be applied      *)
(* later, or was that of a device on the path after the PSD in the map had *)
(* been calculated: the flags, the hash and the map that                   *)
(* GetChannelTransferVector, GetAbsSqrCtf and TransmissionStart consult    *)
(* let no other stale calculation through.                                 *)
THEOREM PsdCurrentCorrect ==
  ASSUME OwnImpedances
  PROVE  Spec => []PsdCurrent
<1>1. Init => IInv
  BY InitInv
<1>2. IInv /\ [Next]_vars => IInv'
  BY InvStep
<1>3. IInv => PsdCurrent
  BY DEF IInv
<1> QED BY <1>1, <1>2, <1>3, PTL DEF Spec

(* m_timeslot_tasks_scheduled is set exactly while ProcessTimeslotTasks is *)
(* in the event queue, which it is while anything is transmitted, unless   *)
(* the default constructor left it set: then no slot task ever runs.       *)
THEOREM SlotTasksRunCorrect == Spec => []SlotTasksRun
<1> DEFINE Inv == SlotTasksRun /\ scheduled \in BOOLEAN /\ task \in BOOLEAN /\ preset \in BOOLEAN
<1>1. Init => Inv
  <2> SUFFICES ASSUME Init PROVE Inv
    OBVIOUS
  <2>1. scheduled \in BOOLEAN /\ task = FALSE /\ preset = scheduled /\ transmitting = {}
    BY DEF Init
  <2>2. CASE scheduled = TRUE
    BY <2>1, <2>2 DEF SlotTasksRun
  <2>3. CASE scheduled = FALSE
    BY <2>1, <2>3 DEF SlotTasksRun
  <2> QED BY <2>1, <2>2, <2>3
<1>2. Inv /\ [Next]_vars => Inv'
  <2> SUFFICES ASSUME Inv, [Next]_vars PROVE Inv'
    OBVIOUS
  <2>1. ASSUME NEW o \in Outlet, NEW z, NEW now, ChangeImpedance(o, z, now) PROVE Inv'
    <3>1. UNCHANGED <<transmitting, preset>>
      BY <2>1 DEF ChangeImpedance, SetImpedance
    <3>2. CASE o \in Load
      <4>1. scheduled' = TRUE /\ task' = (task \/ ~ scheduled)
        BY <2>1, <3>2 DEF ChangeImpedance, ScheduleNextTimeslotTasks
      <4> QED BY <3>1, <4>1 DEF SlotTasksRun
    <3>3. CASE o \notin Load
      <4>1. UNCHANGED <<scheduled, task>>
        BY <2>1, <3>3 DEF ChangeImpedance
      <4> QED BY <3>1, <4>1 DEF SlotTasksRun
    <3> QED BY <3>2, <3>3
  <2>2. ASSUME NEW t \in Device, StartTx(t) PROVE Inv'
    BY <2>2 DEF StartTx, SetImpedance, ScheduleNextTimeslotTasks, SlotTasksRun
  <2>3. ASSUME NEW t \in Device, EndTx(t) PROVE Inv'
    BY <2>3 DEF EndTx, SetImpedance, SlotTasksRun
  <2>4. ASSUME NEW t \in Device, PropagationComplete(t) PROVE Inv'
    BY <2>4 DEF PropagationComplete, SlotTasksRun
  <2>5. CASE ProcessTimeslotTasks
    BY <2>5 DEF ProcessTimeslotTasks, MoreSlotTasks, SlotTasksRun
  <2>6. CASE UNCHANGED vars
    BY <2>6 DEF vars, SlotTasksRun
  <2> QED BY <2>1, <2>2, <2>3, <2>4, <2>5, <2>6 DEF Next
<1>3. Inv => SlotTasksRun
  OBVIOUS
<1> QED BY <1>1, <1>2, <1>3, PTL DEF Spec
=============================================================================
