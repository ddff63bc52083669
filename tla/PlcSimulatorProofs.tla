------------------------ MODULE PlcSimulatorProofs ------------------------
(***************************************************************************)
(* Proofs about the event engine, for every set of delays, every set of    *)
(* granularities and every number of events.                               *)
(***************************************************************************)
EXTENDS PlcSimulator, FiniteSetTheorems, TLAPS

USE DelaysAssumption, TicksAssumption, MaxUidAssumption

---------------------------------------------------------------------------
(* The quantised delay of a Schedule call is a natural number: rounding to *)
(* the granularity never schedules into the past.                          *)
LEMMA QuantizedIsNat ==
  ASSUME NEW t \in Nat, NEW k \in Nat \ {0}
  PROVE  GetQuantizedTicks(t, k) \in Nat
<1>1. t \div k \in Nat /\ t % k \in Nat /\ k \div 2 \in Nat
  BY SMT
<1>2. (t \div k) * k \in Nat
  BY <1>1, SMT
<1> QED BY <1>1, <1>2 DEF GetQuantizedTicks

(* Every step leaves the variables in their types.                         *)
LEMMA TypeStep == TypeOK /\ [Next]_vars => TypeOK'
<1> SUFFICES ASSUME TypeOK, [Next]_vars PROVE TypeOK'
  OBVIOUS
<1> USE DEF TypeOK
<1>a. ASSUME NEW ts \in Nat, Insert(ts)
      PROVE  /\ events' \subseteq Key /\ uid' \in Nat /\ unscheduled' \in Int
             /\ UNCHANGED <<cancelled, destroy, currentTs, currentUid, stop, tick, ctl, ran>>
  BY <1>a DEF Insert, Key
<1>1. ASSUME NEW d \in Delays, Schedule(d) PROVE TypeOK'
  <2>1. GetQuantizedTicks(d, tick) + currentTs \in Nat
    BY QuantizedIsNat
  <2> QED BY <1>1, <1>a, <2>1 DEF Schedule
<1>2. ASSUME NEW d \in Delays, ScheduleWithContext(d) PROVE TypeOK'
  <2>1. currentTs + GetQuantizedTicks(d, tick) \in Nat
    BY QuantizedIsNat
  <2> QED BY <1>2, <1>a, <2>1 DEF ScheduleWithContext
<1>3. CASE ScheduleNow
  BY <1>3, <1>a DEF ScheduleNow
<1>4. CASE ScheduleDestroy
  BY <1>4 DEF ScheduleDestroy
<1>5. ASSUME NEW id \in issued, Cancel(id) \/ Remove(id) PROVE TypeOK'
  <2>1. id.uid \in Nat
    BY DEF Key
  <2>2. CASE Cancel(id)
    <3>1. cancelled' \subseteq Nat
      BY <2>1, <2>2 DEF Cancel
    <3>2. UNCHANGED <<events, issued, destroy, ran, currentTs, currentUid, uid,
                      unscheduled, tick, stop, ctl>>
      BY <2>2 DEF Cancel, core
    <3> QED BY <3>1, <3>2
  <2>3. CASE Remove(id)
    <3>1. events' \subseteq Key
      BY <2>3 DEF Remove
    <3>2. cancelled' \subseteq Nat
      BY <2>1, <2>3 DEF Remove
    <3>3. unscheduled' \in Int
      BY <2>3 DEF Remove
    <3>4. UNCHANGED <<issued, destroy, ran, currentTs, currentUid, uid, tick, stop, ctl>>
      BY <2>3 DEF Remove
    <3> QED BY <3>1, <3>2, <3>3, <3>4
  <2> QED BY <1>5, <2>2, <2>3
<1>6. ASSUME NEW d \in destroy, RemoveDestroy(d) \/ CancelDestroy(d) PROVE TypeOK'
  BY <1>6 DEF RemoveDestroy, CancelDestroy, core
<1>7. CASE Stop
  BY <1>7 DEF Stop, core
<1>8. ASSUME NEW k \in Ticks, SetGranularity(k) PROVE TypeOK'
  BY <1>8 DEF SetGranularity
<1>9. CASE Run \/ RunReturns \/ Destroy \/ Return
  BY <1>9 DEF Run, RunReturns, Destroy, Return, core, Control
<1>10. ASSUME NEW from \in Control, NEW into \in Control, ProcessOneEvent(from, into)
       PROVE  TypeOK'
  <2>1. PICK e \in events :
          /\ events' = events \ {e} /\ unscheduled' = unscheduled - 1
          /\ currentTs' = e.ts /\ currentUid' = e.uid
          /\ \/ ctl' = from /\ UNCHANGED ran
             \/ ctl' = into /\ ran' = ran \cup {e.uid}
    BY <1>10 DEF ProcessOneEvent
  <2>2. e.ts \in Nat /\ e.uid \in Nat
    BY DEF Key
  <2>3. UNCHANGED <<cancelled, destroy, uid, stop, tick, issued>>
    BY <1>10 DEF ProcessOneEvent
  <2>4. events' \subseteq Key
    BY <2>1
  <2>5. ran' \subseteq Nat
    BY <2>1, <2>2
  <2>6. unscheduled' \in Int /\ currentTs' \in Nat /\ currentUid' \in Nat
    BY <2>1, <2>2
  <2>7. ctl' \in Control
    BY <2>1
  <2> QED BY <2>3, <2>4, <2>5, <2>6, <2>7
<1>11. CASE RunLoop \/ RunOneEvent
  BY <1>11, <1>10 DEF RunLoop, RunOneEvent, Control
<1>12. CASE DestroyLoop
  BY <1>12 DEF DestroyLoop, core, Control
<1>13. CASE UNCHANGED vars
  BY <1>13 DEF vars
<1> QED
  BY <1>1, <1>2, <1>3, <1>4, <1>5, <1>6, <1>7, <1>8, <1>9, <1>11, <1>12, <1>13
     DEF Next, User, Engine

(* The constructor leaves the variables in their types.                    *)
LEMMA InitTypes == Init => TypeOK
<1> SUFFICES ASSUME Init PROVE TypeOK
  OBVIOUS
<1>1. stop \in BOOLEAN
  BY DEF Init
<1>2. ctl \in Control
  BY DEF Init, Control
<1> QED BY <1>1, <1>2 DEF Init, TypeOK

(* The engine's variables stay in their types.                             *)
THEOREM TypeCorrect == Spec => []TypeOK
<1>1. Init => TypeOK
  BY InitTypes
<1> QED BY <1>1, TypeStep, PTL DEF Spec

---------------------------------------------------------------------------
(* The conjuncts of the inductive invariant beyond the types.              *)
Rest == PendingAhead /\ NoEventLost /\ UidsUnique /\ LeftForAReason /\ IsFiniteSet(events)

(* A new event, at the current time or later, keeps the invariant: its key *)
(* is above every key issued before, and it is counted once.               *)
LEMMA InsertKeeps ==
  ASSUME IInv, NEW ts \in Nat, ts >= currentTs, Insert(ts),
         issued' \subseteq issued \cup (events' \ events)
  PROVE  Rest'
<1> DEFINE new == [ts |-> ts, uid |-> uid]
<1>1. /\ events' = events \cup {new} /\ uid' = uid + 1 /\ unscheduled' = unscheduled + 1
      /\ UNCHANGED <<cancelled, destroy, currentTs, currentUid, ran>>
  BY DEF Insert
<1>2. /\ TypeOK /\ UidsUnique /\ PendingAhead /\ NoEventLost /\ LeftForAReason
      /\ IsFiniteSet(events)
  BY DEF IInv
<1>4. new.ts = ts /\ new.uid = uid /\ uid \in Nat /\ currentUid < uid
  BY <1>2 DEF TypeOK, UidsUnique
<1>a. new \notin events
  BY <1>2, <1>4 DEF UidsUnique
<1>b. issued' \subseteq issued \cup {new}
  BY <1>1
<1>3. new \notin events /\ issued' \subseteq issued \cup {new}
  BY <1>a, <1>b
<1> HIDE DEF new
<1>5. PendingAhead'
  BY <1>1, <1>2, <1>4 DEF PendingAhead, Before, CurrentKey, TypeOK
<1>6. IsFiniteSet(events') /\ Cardinality(events') = Cardinality(events) + 1
  BY <1>1, <1>2, <1>3, FS_AddElement
<1>7. NoEventLost'
  BY <1>1, <1>2, <1>6 DEF NoEventLost
<1>8. UidsUnique'
  <2>1. \A e \in events' \cup issued' : e = new \/ e \in events \cup issued
    BY <1>1, <1>3
  <2>2. \A e \in events \cup issued : e.uid \in Nat /\ e.uid < uid
    BY <1>2 DEF TypeOK, UidsUnique, Key
  <2>3. /\ \A e \in events' \cup issued' : e.uid < uid'
        /\ \A e, f \in events' \cup issued' : e.uid = f.uid => e = f
    BY <1>1, <1>2, <1>4, <2>1, <2>2 DEF UidsUnique
  <2>4. \A d \in destroy \cup ran : d \in Nat /\ d < uid
    BY <1>2 DEF TypeOK, UidsUnique
  <2> QED BY <1>1, <1>2, <1>4, <2>3, <2>4 DEF UidsUnique, TypeOK
<1>9. LeftForAReason'
  BY <1>1, <1>2, <1>3 DEF LeftForAReason, CurrentKey, Before
<1> QED BY <1>5, <1>6, <1>7, <1>8, <1>9 DEF Rest

(* Cancelling changes no list, and a larger set of cancelled events keeps  *)
(* the invariant; so does a step that only moves control or drops a        *)
(* destroy event.                                                          *)
LEMMA QuietKeeps ==
  ASSUME IInv, cancelled \subseteq cancelled', destroy' \subseteq destroy,
         UNCHANGED <<events, issued, currentTs, currentUid, uid, unscheduled, ran>>
  PROVE  Rest'
<1>1. /\ UidsUnique /\ PendingAhead /\ NoEventLost /\ LeftForAReason
      /\ IsFiniteSet(events)
  BY DEF IInv
<1>2. PendingAhead' /\ NoEventLost' /\ IsFiniteSet(events')
  BY <1>1 DEF PendingAhead, NoEventLost, CurrentKey
<1>3. UidsUnique'
  BY <1>1 DEF UidsUnique
<1>4. LeftForAReason'
  BY <1>1 DEF LeftForAReason, CurrentKey
<1> QED BY <1>2, <1>3, <1>4 DEF Rest

(* Taking a pending event off the list keeps the count exact.              *)
LEMMA TakenOff ==
  ASSUME IInv, NEW e \in events, events' = events \ {e}, unscheduled' = unscheduled - 1
  PROVE  NoEventLost' /\ IsFiniteSet(events')
<1>1. NoEventLost /\ IsFiniteSet(events)
  BY DEF IInv
<1>2. /\ IsFiniteSet(events \ {e})
      /\ Cardinality(events \ {e}) = Cardinality(events) - 1
  BY <1>1, FS_RemoveElement
<1> QED BY <1>1, <1>2 DEF NoEventLost

(* Remove acts on a live id only, and a live id is pending: the count      *)
(* drops exactly when the list shrinks.                                    *)
LEMMA RemoveKeeps ==
  ASSUME IInv, NEW id \in issued, Remove(id)
  PROVE  Rest'
<1>1. /\ TypeOK /\ UidsUnique /\ PendingAhead /\ LeftForAReason
  BY DEF IInv
<1>2. /\ events' = events \ {id} /\ cancelled' = cancelled \cup {id.uid}
      /\ unscheduled' = unscheduled - 1 /\ ~ IsExpired(id)
      /\ UNCHANGED <<destroy, currentTs, currentUid, uid, issued, ran>>
  BY DEF Remove
<1>3. id \in Key
  BY <1>1 DEF TypeOK
<1>4. id \in events
  BY <1>1, <1>2, <1>3 DEF LeftForAReason, IsExpired, Before, CurrentKey, TypeOK, Key
<1>5. NoEventLost' /\ IsFiniteSet(events')
  BY <1>2, <1>4, TakenOff
<1>6. PendingAhead'
  BY <1>1, <1>2 DEF PendingAhead, CurrentKey
<1>7. UidsUnique'
  BY <1>1, <1>2 DEF UidsUnique
<1>8. LeftForAReason'
  BY <1>1, <1>2 DEF LeftForAReason, CurrentKey
<1> QED BY <1>5, <1>6, <1>7, <1>8 DEF Rest

(* The event taken is the first one in the order of keys: what remains is  *)
(* after it, what had left the list stays behind it.                       *)
LEMMA ProcessKeeps ==
  ASSUME IInv, NEW from, NEW into, ProcessOneEvent(from, into)
  PROVE  Rest' /\ currentTs' >= currentTs
<1>1. /\ TypeOK /\ UidsUnique /\ PendingAhead /\ LeftForAReason
  BY DEF IInv
<1>2. PICK e \in events :
        /\ IsNext(e) /\ events' = events \ {e} /\ unscheduled' = unscheduled - 1
        /\ currentTs' = e.ts /\ currentUid' = e.uid
        /\ ran' = ran \/ ran' = ran \cup {e.uid}
  BY DEF ProcessOneEvent
<1>3. UNCHANGED <<cancelled, destroy, uid, issued>>
  BY DEF ProcessOneEvent
<1>4. e \in Key /\ events \subseteq Key /\ issued \subseteq Key
  BY <1>1 DEF TypeOK
<1>5. Before(CurrentKey, e)
  BY <1>1 DEF PendingAhead
<1>6. NoEventLost' /\ IsFiniteSet(events')
  BY <1>2, TakenOff
<1>7. \A f \in events : f # e => Before(e, f)
  <2> SUFFICES ASSUME NEW f \in events, f # e PROVE Before(e, f)
    OBVIOUS
  <2>1. f.uid # e.uid /\ ~ Before(f, e)
    BY <1>1, <1>2 DEF UidsUnique, IsNext
  <2>2. e.ts \in Nat /\ e.uid \in Nat /\ f.ts \in Nat /\ f.uid \in Nat
    BY <1>4 DEF Key
  <2> QED BY <2>1, <2>2 DEF Before
<1>8. PendingAhead'
  BY <1>2, <1>7 DEF PendingAhead, CurrentKey, Before
<1>9. UidsUnique'
  <2>1. e.uid < uid /\ \A f \in events \ {e} : f.uid # e.uid
    BY <1>1, <1>2 DEF UidsUnique
  <2>2. /\ currentUid' < uid' /\ \A f \in events' \cup issued' : f.uid < uid'
        /\ \A f, g \in events' \cup issued' : f.uid = g.uid => f = g
    BY <1>1, <1>2, <1>3, <2>1 DEF UidsUnique
  <2>3. /\ \A d \in destroy' \cup ran' : d < uid'
        /\ \A f \in events' : f.uid \notin ran'
        /\ \A d \in destroy' : d \notin ran' /\ \A f \in events' : f.uid # d
    BY <1>1, <1>2, <1>3, <2>1 DEF UidsUnique
  <2> QED BY <2>2, <2>3 DEF UidsUnique
<1>10. LeftForAReason'
  <2> SUFFICES ASSUME NEW id \in issued'
               PROVE  id \in events' \/ ~ Before(CurrentKey', id) \/ id.uid \in cancelled'
    BY DEF LeftForAReason
  <2>1. id \in events \/ ~ Before(CurrentKey, id) \/ id.uid \in cancelled
    BY <1>1, <1>3 DEF LeftForAReason
  <2>2. CurrentKey'.ts = e.ts /\ CurrentKey'.uid = e.uid
    BY <1>2 DEF CurrentKey
  <2>3. /\ e.ts \in Nat /\ e.uid \in Nat /\ id.ts \in Nat /\ id.uid \in Nat
        /\ CurrentKey.ts \in Nat /\ CurrentKey.uid \in Nat
    BY <1>1, <1>3, <1>4 DEF Key, TypeOK, CurrentKey
  <2>4. CASE id = e
    BY <2>2, <2>3, <2>4 DEF Before
  <2>5. CASE id # e /\ id \in events
    BY <1>2, <2>5
  <2>6. CASE ~ Before(CurrentKey, id)
    BY <1>5, <2>2, <2>3, <2>6 DEF Before
  <2> QED BY <1>3, <2>1, <2>4, <2>5, <2>6
<1>11. currentTs' >= currentTs
  <2>1. currentTs \in Nat /\ e.ts \in Nat
    BY <1>1, <1>4 DEF TypeOK, Key
  <2> QED BY <1>2, <1>5, <2>1 DEF Before, CurrentKey
<1> QED BY <1>6, <1>8, <1>9, <1>10, <1>11 DEF Rest

(* ScheduleDestroy takes a uid of its own.                                 *)
LEMMA ScheduleDestroyKeeps ==
  ASSUME IInv, ScheduleDestroy
  PROVE  Rest'
<1>1. /\ TypeOK /\ UidsUnique /\ PendingAhead /\ NoEventLost /\ LeftForAReason
      /\ IsFiniteSet(events)
  BY DEF IInv
<1>2. /\ destroy' = destroy \cup {uid} /\ uid' = uid + 1
      /\ UNCHANGED <<events, cancelled, currentTs, currentUid, unscheduled, issued, ran>>
  BY DEF ScheduleDestroy
<1>3. PendingAhead' /\ NoEventLost' /\ LeftForAReason' /\ IsFiniteSet(events')
  BY <1>1, <1>2 DEF PendingAhead, NoEventLost, LeftForAReason, CurrentKey
<1>4. UidsUnique'
  <2>1. /\ uid \in Nat /\ currentUid \in Nat
        /\ \A e \in events \cup issued : e.uid \in Nat /\ e.uid < uid
        /\ \A d \in destroy \cup ran : d \in Nat /\ d < uid
    BY <1>1 DEF TypeOK, UidsUnique, Key
  <2> QED BY <1>1, <1>2, <2>1 DEF UidsUnique
<1> QED BY <1>3, <1>4 DEF Rest

(* Destroy's loop runs a destroy event that has not run before.            *)
LEMMA DestroyLoopKeeps ==
  ASSUME IInv, DestroyLoop
  PROVE  Rest'
<1>1. UNCHANGED <<events, cancelled, currentTs, currentUid, uid, unscheduled, issued>>
  BY DEF DestroyLoop, core
<1>2. CASE destroy = {}
  BY <1>1, <1>2, QuietKeeps DEF DestroyLoop
<1>3. CASE destroy # {}
  <2>1. PICK d \in destroy :
          destroy' = destroy \ {d} /\ (ran' = ran \/ ran' = ran \cup {d})
    BY <1>3 DEF DestroyLoop
  <2>2. /\ UidsUnique /\ PendingAhead /\ NoEventLost /\ LeftForAReason
        /\ IsFiniteSet(events)
    BY DEF IInv
  <2>3. PendingAhead' /\ NoEventLost' /\ LeftForAReason' /\ IsFiniteSet(events')
    BY <1>1, <2>2 DEF PendingAhead, NoEventLost, LeftForAReason, CurrentKey
  <2>4. UidsUnique'
    BY <1>1, <2>1, <2>2 DEF UidsUnique
  <2> QED BY <2>3, <2>4 DEF Rest
<1> QED BY <1>2, <1>3

(* Every step keeps the inductive invariant.                               *)
LEMMA InvStep == IInv /\ [Next]_vars => IInv'
<1> SUFFICES ASSUME IInv, [Next]_vars PROVE Rest'
  BY TypeStep DEF IInv, Rest
<1>t. TypeOK
  BY DEF IInv
<1>q. ASSUME NEW d \in Delays
      PROVE  /\ GetQuantizedTicks(d, tick) + currentTs \in Nat
             /\ GetQuantizedTicks(d, tick) + currentTs >= currentTs
             /\ currentTs + GetQuantizedTicks(d, tick) = GetQuantizedTicks(d, tick) + currentTs
  <2>1. GetQuantizedTicks(d, tick) \in Nat /\ currentTs \in Nat
    BY <1>t, QuantizedIsNat DEF TypeOK
  <2> QED BY <2>1
<1>1. ASSUME NEW d \in Delays, Schedule(d) PROVE Rest'
  BY <1>1, <1>q, InsertKeeps DEF Schedule
<1>2. ASSUME NEW d \in Delays, ScheduleWithContext(d) PROVE Rest'
  BY <1>2, <1>q, InsertKeeps DEF ScheduleWithContext
<1>3. CASE ScheduleNow
  BY <1>3, <1>t, InsertKeeps DEF ScheduleNow, TypeOK
<1>4. CASE ScheduleDestroy
  BY <1>4, ScheduleDestroyKeeps
<1>5. ASSUME NEW id \in issued, Cancel(id) PROVE Rest'
  BY <1>5, QuietKeeps DEF Cancel, core
<1>6. ASSUME NEW id \in issued, Remove(id) PROVE Rest'
  BY <1>6, RemoveKeeps
<1>7. ASSUME NEW d \in destroy, RemoveDestroy(d) PROVE Rest'
  BY <1>7, QuietKeeps DEF RemoveDestroy, core
<1>8. ASSUME NEW d \in destroy, CancelDestroy(d) PROVE Rest'
  BY <1>8, QuietKeeps DEF CancelDestroy, core
<1>9. CASE Stop
  BY <1>9, QuietKeeps DEF Stop, core
<1>10. ASSUME NEW k \in Ticks, SetGranularity(k) PROVE Rest'
  BY <1>10, QuietKeeps DEF SetGranularity
<1>11. CASE Run \/ RunReturns \/ Destroy \/ Return
  BY <1>11, QuietKeeps DEF Run, RunReturns, Destroy, Return, core
<1>12. CASE RunLoop \/ RunOneEvent
  BY <1>12, ProcessKeeps DEF RunLoop, RunOneEvent
<1>13. CASE DestroyLoop
  BY <1>13, DestroyLoopKeeps
<1>14. CASE UNCHANGED vars
  BY <1>14, QuietKeeps DEF vars
<1> QED
  BY <1>1, <1>2, <1>3, <1>4, <1>5, <1>6, <1>7, <1>8, <1>9, <1>10, <1>11, <1>12,
     <1>13, <1>14
     DEF Next, User, Engine

(* The inductive invariant holds in every state.                           *)
THEOREM Inductive == Spec => []IInv
<1>1. Init => IInv
  <2> SUFFICES ASSUME Init PROVE IInv
    OBVIOUS
  <2>1. TypeOK
    BY InitTypes
  <2>2. IsFiniteSet(events) /\ NoEventLost
    BY FS_EmptySet DEF Init, NoEventLost
  <2>3. PendingAhead /\ UidsUnique /\ LeftForAReason
    BY DEF Init, PendingAhead, UidsUnique, LeftForAReason
  <2> QED BY <2>1, <2>2, <2>3 DEF IInv
<1> QED BY <1>1, InvStep, PTL DEF Spec

(* Simultaneous events are taken in the order they were scheduled and the  *)
(* clock never passes a pending event.                                     *)
THEOREM PendingAheadCorrect == Spec => []PendingAhead
<1>1. IInv => PendingAhead
  BY DEF IInv
<1> QED BY <1>1, Inductive, PTL

(* The consistency test at the end of Run cannot fail.                     *)
THEOREM NoEventLostCorrect == Spec => []NoEventLost
<1>1. IInv => NoEventLost
  BY DEF IInv
<1> QED BY <1>1, Inductive, PTL

(* IsExpired tells exactly the ids whose event is pending and uncancelled  *)
(* from the others.                                                        *)
THEOREM ExpiredExactCorrect == Spec => []ExpiredExact
<1>1. IInv => ExpiredExact
  <2> SUFFICES ASSUME IInv, NEW id \in issued
               PROVE  IsExpired(id) <=> (id \notin events \/ id.uid \in cancelled)
    BY DEF ExpiredExact
  <2>1. TypeOK /\ PendingAhead /\ LeftForAReason
    BY DEF IInv
  <2>2. /\ id.ts \in Nat /\ id.uid \in Nat /\ currentTs \in Nat /\ currentUid \in Nat
    BY <2>1 DEF TypeOK, Key
  <2>3. IsExpired(id) <=> ~ Before(CurrentKey, id) \/ id.uid \in cancelled
    BY <2>2 DEF IsExpired, Before, CurrentKey
  <2> QED BY <2>1, <2>3 DEF PendingAhead, LeftForAReason
<1> QED BY <1>1, Inductive, PTL

(* Simulated time never goes back.                                         *)
THEOREM TimeNeverGoesBackCorrect == Spec => TimeNeverGoesBack
<1>1. IInv /\ [Next]_vars => [currentTs' >= currentTs]_vars
  <2> SUFFICES ASSUME IInv, Next PROVE currentTs' >= currentTs
    OBVIOUS
  <2>1. CASE RunLoop \/ RunOneEvent
    BY <2>1, ProcessKeeps DEF RunLoop, RunOneEvent
  <2>2. CASE ~ (RunLoop \/ RunOneEvent)
    <3>1. currentTs \in Nat
      BY DEF IInv, TypeOK
    <3>2. UNCHANGED currentTs
      BY <2>2 DEF Next, User, Engine, Schedule, ScheduleWithContext, ScheduleNow, Insert,
         ScheduleDestroy, Cancel, Remove, RemoveDestroy, CancelDestroy, Stop,
         SetGranularity, Run, RunReturns, Destroy, Return, DestroyLoop, core
    <3> QED BY <3>1, <3>2
  <2> QED BY <2>1, <2>2
<1> QED BY <1>1, Inductive, PTL DEF Spec, TimeNeverGoesBack

(* No body is entered twice, nor after its event was cancelled or removed. *)
THEOREM RunsAtMostOnceCorrect == Spec => RunsAtMostOnce
<1> DEFINE Fresh ==
      ctl' # ctl => /\ ctl' \in {"body", "single"}
                         => currentUid' \notin ran \cup cancelled
                    /\ ctl' = "destroyBody"
                         => \E d \in destroy \ (ran \cup cancelled) : destroy' = destroy \ {d}
<1>1. IInv /\ [Next]_vars => [Fresh]_vars
  <2> SUFFICES ASSUME IInv, Next, ctl' # ctl PROVE Fresh
    OBVIOUS
  <2>1. UidsUnique
    BY DEF IInv
  <2>2. ASSUME NEW from, NEW into, ProcessOneEvent(from, into), into # "destroyBody"
        PROVE  Fresh
    BY <2>1, <2>2 DEF ProcessOneEvent, UidsUnique
  <2>3. CASE RunLoop \/ RunOneEvent
    BY <2>2, <2>3 DEF RunLoop, RunOneEvent
  <2>4. CASE DestroyLoop
    BY <2>1, <2>4 DEF DestroyLoop, UidsUnique
  <2>5. CASE Run \/ RunReturns \/ Destroy \/ Return
    BY <2>5 DEF Run, RunReturns, Destroy, Return
  <2>6. CASE User
    BY <2>6 DEF User, Schedule, ScheduleWithContext, ScheduleNow, Insert,
       ScheduleDestroy, Cancel, Remove, RemoveDestroy, CancelDestroy, Stop, SetGranularity
  <2> QED BY <2>3, <2>4, <2>5, <2>6 DEF Next, Engine
<1> QED BY <1>1, Inductive, PTL DEF Spec, RunsAtMostOnce
=============================================================================
