--------------------------- MODULE PlcSimulator ---------------------------
(***************************************************************************)
(* The discrete-event engine PLC_SimulatorImpl                             *)
(* (ns-3.15/src/plc/model/plc-simulator-impl.cc) over the key-ordered      *)
(* event list of the ns-3 core (scheduler.h, map-scheduler.cc) and         *)
(* EventImpl (event-impl.cc).                                              *)
(*                                                                         *)
(* The bodies of events, and the program that sets a simulation up, are    *)
(* arbitrary: whenever control is with them (UserCode) they may call any   *)
(* operation of the engine in any order.  An event is known by its key     *)
(* (m_ts, m_uid); m_context is carried along and never read by the engine, *)
(* so it is left out.                                                      *)
(***************************************************************************)
EXTENDS Integers, FiniteSets

CONSTANTS
  Delays,    \* the relative times, in time-resolution units, passed to Schedule
  Ticks,     \* the granularities passed to SetGranularity
  MaxUid     \* bound: no event is scheduled once m_uid has reached MaxUid

ASSUME DelaysAssumption == Delays \subseteq Nat
ASSUME TicksAssumption  == Ticks \subseteq Nat \ {0}
ASSUME MaxUidAssumption == MaxUid \in Nat

VARIABLES
  events,       \* m_events: the pending events, each known by its key
  cancelled,    \* the uids whose EventImpl has m_cancel set
  destroy,      \* m_destroyEvents, named by the value m_uid had at ScheduleDestroy
  currentTs,    \* m_currentTs
  currentUid,   \* m_currentUid
  uid,          \* m_uid
  unscheduled,  \* m_unscheduledEvents
  stop,         \* m_stop
  tick,         \* m_tick_ts
  ctl,          \* who has control (see Control)
  issued,       \* history: the EventIds handed out to callers
  ran           \* history: the uids of the events whose Notify was called

core == <<currentTs, currentUid, uid, unscheduled, tick>>
vars == <<events, cancelled, destroy, currentTs, currentUid, uid, unscheduled,
          stop, tick, ctl, issued, ran>>

Key == [ts : Nat, uid : Nat]

(***************************************************************************)
(* "main": the program, outside the engine; "loop": in Run, between two    *)
(* events; "body": in an event that Run invoked; "single": in an event     *)
(* that RunOneEvent invoked; "destroying": in Destroy, between two destroy *)
(* events; "destroyBody": in a destroy event.                              *)
(***************************************************************************)
Control == {"main", "loop", "body", "single", "destroying", "destroyBody"}
UserCode == ctl \in {"main", "body", "single", "destroyBody"}

---------------------------------------------------------------------------
(* The key of the event being processed.                                   *)
CurrentKey == [ts |-> currentTs, uid |-> currentUid]

(* The order of keys: operator < of Scheduler::EventKey.                   *)
Before(a, b) == a.ts < b.ts \/ (a.ts = b.ts /\ a.uid < b.uid)

(* Two wrong choices of the next event: simultaneous events in any order,  *)
(* and any pending event at all.                                           *)
IsNextByTime(e) == e \in events /\ \A f \in events : e.ts <= f.ts
IsNextAny(e) == e \in events

(* The event RemoveNext of the scheduler returns.                          *)
IsNext(e) == e \in events /\ \A f \in events : ~ Before(f, e)

(* Rounding the wrong way: a rest below half a tick rounds down once more. *)
QuantizedTooLow(t, k) ==
  LET ticks == (t \div k) * k
  IN  IF t % k > k \div 2 THEN ticks ELSE ticks - k

(* GetQuantizedTicks: t rounded to a multiple of the granularity k.        *)
GetQuantizedTicks(t, k) ==
  LET ticks == (t \div k) * k
  IN  IF t % k > k \div 2 THEN ticks + k ELSE ticks

(* Forgetting that the event being processed is expired too.               *)
IsExpiredStrict(id) ==
  \/ id.ts < currentTs
  \/ id.ts = currentTs /\ id.uid < currentUid
  \/ id.uid \in cancelled

(* IsExpired for an ordinary event (uid # 2).                              *)
IsExpired(id) ==
  \/ id.ts < currentTs
  \/ id.ts = currentTs /\ id.uid <= currentUid
  \/ id.uid \in cancelled

---------------------------------------------------------------------------
Init ==
  /\ events = {} /\ cancelled = {} /\ destroy = {}
  /\ currentTs = 0 /\ currentUid = 0
  /\ uid = 4 /\ unscheduled = 0
  /\ stop = FALSE /\ tick = 1 /\ ctl = "main"
  /\ issued = {} /\ ran = {}

(* What Schedule, ScheduleWithContext and ScheduleNow have in common: the  *)
(* event enters the list at ts under the next uid.                         *)
Insert(ts) ==
  /\ UserCode /\ uid < MaxUid
  /\ events' = events \cup {[ts |-> ts, uid |-> uid]}
  /\ uid' = uid + 1
  /\ unscheduled' = unscheduled + 1
  /\ UNCHANGED <<cancelled, destroy, currentTs, currentUid, stop, tick, ctl, ran>>

Schedule(d) ==
  /\ Insert(GetQuantizedTicks(d, tick) + currentTs)
  /\ issued' = issued \cup (events' \ events)

(* ScheduleWithContext returns no EventId.                                 *)
ScheduleWithContext(d) ==
  /\ Insert(currentTs + GetQuantizedTicks(d, tick))
  /\ UNCHANGED issued

ScheduleNow ==
  /\ Insert(currentTs)
  /\ issued' = issued \cup (events' \ events)

ScheduleDestroy ==
  /\ UserCode /\ uid < MaxUid
  /\ destroy' = destroy \cup {uid}
  /\ uid' = uid + 1
  /\ UNCHANGED <<events, cancelled, currentTs, currentUid, unscheduled, stop,
                 tick, ctl, issued, ran>>

(* Cancel marks the event and leaves it in the list.                       *)
Cancel(id) ==
  /\ UserCode
  /\ ~ IsExpired(id)
  /\ cancelled' = cancelled \cup {id.uid}
  /\ UNCHANGED <<events, destroy, core, stop, ctl, issued, ran>>

(* Remove without the Cancel of the EventImpl.                             *)
RemoveUnmarked(id) ==
  /\ UserCode
  /\ ~ IsExpired(id)
  /\ events' = events \ {id}
  /\ unscheduled' = unscheduled - 1
  /\ UNCHANGED <<cancelled, destroy, currentTs, currentUid, uid, stop, tick,
                 ctl, issued, ran>>

(* Remove takes the event out of the list, marks it and uncounts it.       *)
Remove(id) ==
  /\ UserCode
  /\ ~ IsExpired(id)
  /\ events' = events \ {id}
  /\ cancelled' = cancelled \cup {id.uid}
  /\ unscheduled' = unscheduled - 1
  /\ UNCHANGED <<destroy, currentTs, currentUid, uid, stop, tick, ctl, issued, ran>>

(* Remove and Cancel of a destroy event (uid 2): Cancel only marks it.     *)
RemoveDestroy(d) ==
  /\ UserCode /\ d \in destroy
  /\ destroy' = destroy \ {d}
  /\ UNCHANGED <<events, cancelled, core, stop, ctl, issued, ran>>

CancelDestroy(d) ==
  /\ UserCode /\ d \in destroy \ cancelled
  /\ cancelled' = cancelled \cup {d}
  /\ UNCHANGED <<events, destroy, core, stop, ctl, issued, ran>>

Stop ==
  /\ UserCode /\ ~ stop
  /\ stop' = TRUE
  /\ UNCHANGED <<events, cancelled, destroy, core, ctl, issued, ran>>

SetGranularity(k) ==
  /\ UserCode
  /\ tick' = k
  /\ UNCHANGED <<events, cancelled, destroy, currentTs, currentUid, uid,
                 unscheduled, stop, ctl, issued, ran>>

---------------------------------------------------------------------------
Run ==
  /\ ctl = "main"
  /\ stop' = FALSE
  /\ ctl' = "loop"
  /\ UNCHANGED <<events, cancelled, destroy, core, issued, ran>>

(* Invoke without its test of m_cancel.                                    *)
ProcessEvenCancelled(from, into) ==
  /\ ctl = from
  /\ \E e \in events :
       /\ IsNext(e)
       /\ events' = events \ {e}
       /\ unscheduled' = unscheduled - 1
       /\ currentTs' = e.ts
       /\ currentUid' = e.uid
       /\ ctl' = into
       /\ ran' = ran \cup {e.uid}
  /\ UNCHANGED <<cancelled, destroy, uid, stop, tick, issued>>

(* PeekNext for RemoveNext when the event is a cancelled one.              *)
ProcessKeepingCancelled(from, into) ==
  /\ ctl = from
  /\ \E e \in events :
       /\ IsNext(e)
       /\ currentTs' = e.ts
       /\ currentUid' = e.uid
       /\ IF e.uid \in cancelled
            THEN ctl' = from /\ UNCHANGED <<events, unscheduled, ran>>
            ELSE /\ ctl' = into /\ ran' = ran \cup {e.uid}
                 /\ events' = events \ {e} /\ unscheduled' = unscheduled - 1
  /\ UNCHANGED <<cancelled, destroy, uid, stop, tick, issued>>

(* ProcessOneEvent up to the call of Invoke, which calls the body (and so  *)
(* hands control to user code) unless the event was cancelled.             *)
ProcessOneEvent(from, into) ==
  /\ ctl = from
  /\ \E e \in events :
       /\ IsNext(e)
       /\ events' = events \ {e}
       /\ unscheduled' = unscheduled - 1
       /\ currentTs' = e.ts
       /\ currentUid' = e.uid
       /\ IF e.uid \in cancelled
            THEN ctl' = from /\ UNCHANGED ran
            ELSE ctl' = into /\ ran' = ran \cup {e.uid}
  /\ UNCHANGED <<cancelled, destroy, uid, stop, tick, issued>>

(* The event's body returns: back into Run's loop or to RunOneEvent's      *)
(* caller, or to Destroy's loop.                                           *)
Return ==
  /\ \/ ctl = "body" /\ ctl' = "loop"
     \/ ctl = "single" /\ ctl' = "main"
     \/ ctl = "destroyBody" /\ ctl' = "destroying"
  /\ UNCHANGED <<events, cancelled, destroy, core, stop, issued, ran>>

RunLoop == ~ stop /\ ProcessOneEvent("loop", "body")

RunOneEvent == ProcessOneEvent("main", "single")

RunReturns ==
  /\ ctl = "loop"
  /\ events = {} \/ stop
  /\ ctl' = "main"
  /\ UNCHANGED <<events, cancelled, destroy, core, stop, issued, ran>>

(* Destroy: the destroy events are taken from the front of their list, the *)
(* oldest first, and invoked unless cancelled.                             *)
Destroy ==
  /\ ctl = "main" /\ destroy # {}
  /\ ctl' = "destroying"
  /\ UNCHANGED <<events, cancelled, destroy, core, stop, issued, ran>>

DestroyLoop ==
  /\ ctl = "destroying"
  /\ IF destroy = {}
       THEN ctl' = "main" /\ UNCHANGED <<destroy, ran>>
       ELSE \E d \in destroy :
              /\ \A x \in destroy : d <= x
              /\ destroy' = destroy \ {d}
              /\ IF d \in cancelled
                   THEN UNCHANGED <<ctl, ran>>
                   ELSE ctl' = "destroyBody" /\ ran' = ran \cup {d}
  /\ UNCHANGED <<events, cancelled, core, stop, issued>>

---------------------------------------------------------------------------
User ==
  \/ \E d \in Delays : Schedule(d)
  \/ \E d \in Delays : ScheduleWithContext(d)
  \/ ScheduleNow
  \/ ScheduleDestroy
  \/ \E id \in issued : Cancel(id)
  \/ \E id \in issued : Remove(id)
  \/ \E d \in destroy : RemoveDestroy(d)
  \/ \E d \in destroy : CancelDestroy(d)
  \/ Stop
  \/ \E k \in Ticks : SetGranularity(k)

Engine == RunLoop \/ RunReturns \/ DestroyLoop \/ Return

Next == User \/ Run \/ RunOneEvent \/ Destroy \/ Engine

(* The engine's own loops run until they are done, and every event's body  *)
(* returns; nothing obliges the program to call anything.                  *)
Spec == Init /\ [][Next]_vars /\ WF_vars(Engine)

---------------------------------------------------------------------------
(* The variables stay in their types.                                      *)
TypeOK ==
  /\ events \subseteq Key /\ issued \subseteq Key
  /\ cancelled \subseteq Nat /\ destroy \subseteq Nat /\ ran \subseteq Nat
  /\ currentTs \in Nat /\ currentUid \in Nat /\ uid \in Nat
  /\ unscheduled \in Int /\ tick \in Nat \ {0}
  /\ stop \in BOOLEAN /\ ctl \in Control

(***************************************************************************)
(* What is still pending lies strictly after the event being processed, in *)
(* the order of keys: simultaneous events are never taken out of the order *)
(* in which they were scheduled, and the engine's own assertion            *)
(* "next.key.m_ts >= m_currentTs" (ProcessOneEvent) cannot fail.           *)
(***************************************************************************)
PendingAhead ==
  \A e \in events : Before(CurrentKey, e)

(***************************************************************************)
(* m_unscheduledEvents is the number of pending events, whatever mixture   *)
(* of Cancel, Remove and expired ids the program went through: the         *)
(* "consistency test to check that we didn't lose any events along the     *)
(* way" at the end of Run always succeeds.                                 *)
(***************************************************************************)
NoEventLost == unscheduled = Cardinality(events)

(***************************************************************************)
(* IsExpired, which compares keys with the current one and looks at no     *)
(* list, is right about every EventId a caller may hold: an id is expired  *)
(* exactly when its event has left the list or has been cancelled.         *)
(***************************************************************************)
ExpiredExact ==
  \A id \in issued : IsExpired(id) <=> (id \notin events \/ id.uid \in cancelled)

(***************************************************************************)
(* The body of an event is entered at most once, and never after a Cancel  *)
(* or a Remove took effect on the event, whichever loop takes it from the  *)
(* list (EventImpl::Invoke, ProcessOneEvent, Destroy).                     *)
(***************************************************************************)
RunsAtMostOnce ==
  [][ctl' # ctl => /\ ctl' \in {"body", "single"}
                        => currentUid' \notin ran \cup cancelled
                   /\ ctl' = "destroyBody"
                        => \E d \in destroy \ (ran \cup cancelled) : destroy' = destroy \ {d}]_vars

(* Simulated time never goes back, from whichever loop events are taken.   *)
TimeNeverGoesBack == [][currentTs' >= currentTs]_vars

(* Run is not stuck: once entered it returns, or user code keeps being     *)
(* called until the bound on scheduled events is reached.                  *)
RunTerminates == (ctl = "loop") ~> (ctl = "main")

---------------------------------------------------------------------------
(* Uids identify events: none is issued twice, for an ordinary event or    *)
(* for a destroy event, and none is reused after the event ran.            *)
UidsUnique ==
  /\ currentUid < uid
  /\ \A e \in events \cup issued : e.uid < uid
  /\ \A e, f \in events \cup issued : e.uid = f.uid => e = f
  /\ \A d \in destroy \cup ran : d < uid
  /\ \A e \in events : e.uid \notin ran
  /\ \A d \in destroy : d \notin ran /\ \A e \in events : e.uid # d

(* An id that was handed out and is no longer pending lies at or before    *)
(* the event being processed, or was cancelled.                            *)
LeftForAReason ==
  \A id \in issued : id \in events \/ ~ Before(CurrentKey, id) \/ id.uid \in cancelled

(* The inductive invariant behind the theorems of PlcSimulatorProofs.      *)
IInv ==
  /\ TypeOK /\ PendingAhead /\ NoEventLost /\ UidsUnique /\ LeftForAReason
  /\ IsFiniteSet(events)
=============================================================================
