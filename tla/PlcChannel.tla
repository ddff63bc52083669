----------------------------- MODULE PlcChannel -----------------------------
(***************************************************************************)
(* The caches between an impedance change and the power a receiver sees:   *)
(* PLC_Outlet::SetImpedance (plc-outlet.cc), the hash of all impedances    *)
(* (plc-node.cc), the transfer functions of PLC_ChannelTransferImpl and    *)
(* the received PSDs of PLC_Channel (plc-channel.cc), with the time slot   *)
(* tasks that refresh them, and the half-duplex PHYs (plc-phy.cc) that     *)
(* switch their own outlet's impedance with every transmission.            *)
(*                                                                         *)
(* A transfer function or PSD stands for the impedances it was calculated  *)
(* from.  Those are the receiver's and those of the outlets that load the  *)
(* path, the ones DiscoverBackboneBranches registers.  The hash XORs       *)
(* object addresses: the model takes the set of the objects that occur in  *)
(* it an odd number of times, so addresses never collide by themselves.    *)
(* All channels are time invariant, and a device keeps its transmit PSD.   *)
(* Events are untimed, with one exception: a frame lasts longer than a     *)
(* signal takes to arrive.                                                 *)
(***************************************************************************)
EXTENDS Naturals, FiniteSets

CONSTANTS
  Device,         \* the devices; each has a tx and an rx interface
  Sender,         \* those that ever send
  Load,           \* the outlets without an rx interface
  NoImpedance,    \* a null impedance: open circuit
  RxImpedance, TxImpedance,  \* [Device -> object]: m_eqRxImpedance, m_eqTxImpedance
  Impedances,     \* [outlet -> objects]: what SetImpedance may be called with
  Taps,           \* [Link -> outlets registered with a branch of its path]
  Direct,         \* the links without a backbone branch
  NoPsd           \* no entry in the map of received PSDs

Outlet == Device \cup Load
Link == {l \in Device \X Device : l[1] # l[2]}
Object == UNION {Impedances[o] : o \in Outlet}

(* The outlets a link's transfer function depends on, and what one is      *)
(* calculated from: the impedances of these outlets.                       *)
DependsOn(l) == {l[2]} \cup Taps[l]
Calculation == UNION {[DependsOn(l) -> Object] : l \in Link}

ASSUME OutletAssumption ==
  /\ IsFiniteSet(Device) /\ IsFiniteSet(Load) /\ Device \cap Load = {}
  /\ RxImpedance \in [Device -> Object] /\ TxImpedance \in [Device -> Object]
  /\ \A d \in Device : {RxImpedance[d], TxImpedance[d]} \subseteq Impedances[d]
ASSUME SenderAssumption == Sender \subseteq Device
ASSUME LinkAssumption ==
  /\ Taps \in [Link -> SUBSET Outlet] /\ \A l \in Link : Taps[l] \cap {l[1], l[2]} = {}
  /\ Direct \subseteq Link
ASSUME NoPsdAssumption == NoPsd \notin Calculation

VARIABLES
  impedance,     \* PLC_Node: m_impedance of every outlet
  hash_sum,      \* PLC_Node: m_impedance_hash_sum (static)
  impl,          \* [Link -> record]: PLC_ChannelTransferImpl, and its entry in
                 \*   m_transmission_descriptors
  transmitting,  \* PLC_Channel: m_transmitting, m_propagating
  propagating,
  scheduled,     \* m_timeslot_tasks_scheduled
  task,          \* ProcessTimeslotTasks is in the event queue
  handed,        \* history: the PSD the receiver was last given, by StartRx or RxPsdChanged
  deferred,      \* history: the transmitters under way at a change made with
                 \*   updateImmediately = false, and not updated since
  outdated,      \* history: <<l, d>> if device d, on the path of l, has changed since
                 \*   the PSD of l that is in the map was calculated
  preset         \* history: scheduled at first

vars == <<impedance, hash_sum, impl, transmitting, propagating, scheduled, task, handed, deferred,
          outdated, preset>>

---------------------------------------------------------------------------
(* What a transfer function of l calculated now stands for.                *)
Snapshot(l, I) == [o \in DependsOn(l) |-> I[o]]

SymDiff(A, B) == (A \ B) \cup (B \ A)
Bits(z) == IF z = NoImpedance THEN {} ELSE {z}

(* PLC_Node::SetImpedance: the hash after z replaces y, if y's share were  *)
(* left in it, and as it is.                                               *)
HashAfterAdding(h, y, z) == SymDiff(h, Bits(z))
HashAfter(h, y, z) == SymDiff(SymDiff(h, Bits(y)), Bits(z))

(* The nodes set their first impedance in any order.                       *)
HashOf(I) == {z \in Object : z # NoImpedance /\ Cardinality({o \in Outlet : I[o] = z}) % 2 = 1}

(* GetChannelTransferVector: calculated anew unless it is up to date or    *)
(* the hash is the one it was calculated under.  A direct connection       *)
(* returns before it sets the flags.                                       *)
UpdatedVector(l, c, I, h) ==
  IF c.ctv_is_up_2_date \/ c.hash_sum = h THEN c
  ELSE [c EXCEPT !.ctv = Snapshot(l, I), !.hash_sum = h,
                 !.ctv_is_up_2_date = (@ \/ l \notin Direct)]

(* GetAbsSqrCtf and GenerateAbsSqrCtf.                                     *)
Updated(l, c, I, h) ==
  IF c.is_up_2_date THEN c
  ELSE LET u == UpdatedVector(l, c, I, h)
       IN  [u EXCEPT !.abs_sqr_ctf = u.ctv, !.is_up_2_date = TRUE]

(* The received PSD is calculated if it is not in the map.                 *)
WithPsd(l, c, I, h) ==
  IF c.rxPsd # NoPsd THEN c
  ELSE LET u == Updated(l, c, I, h) IN [u EXCEPT !.rxPsd = u.abs_sqr_ctf]

(* SetOutOfDate, and with it DeleteOutOfDatePSDs.                          *)
OutOfDate(c) == [c EXCEPT !.ctv_is_up_2_date = FALSE, !.is_up_2_date = FALSE]

(* AcquaintAffectedInstances: the links whose transfer function is set out *)
(* of date when the impedance of o changes, every one of an affected       *)
(* transmitter, ...                                                        *)
Affected(o) ==
  IF o \in Device THEN {l \in Link : l[1] # o}
  ELSE {l \in Link : \E m \in Link : m[1] = l[1] /\ o \in Taps[m]}

(* ... and those whose PSDs are deleted: where o has a device, only those  *)
(* of the links to it, whatever other paths it loads.                      *)
PsdDeletedOfDevices(o) == IF o \in Device THEN {l \in Link : l[2] = o} ELSE {}
PsdDeleted(o) == IF o \in Device THEN {l \in Link : l[2] = o} ELSE {l \in Link : o \in Taps[l]}

AfterChange(o, C) ==
  [l \in Link |->
     LET c == IF l \in Affected(o) THEN OutOfDate(C[l]) ELSE C[l]
     IN  IF l \in PsdDeleted(o) THEN [c EXCEPT !.rxPsd = NoPsd] ELSE c]

(* UpdateReceivePSDs and the loop of TransmissionStart: the transmitters T *)
(* have their missing PSDs calculated; the receivers are told.             *)
Refreshed(C, T, I, h) == [l \in Link |-> IF l[1] \in T THEN WithPsd(l, C[l], I, h) ELSE C[l]]

---------------------------------------------------------------------------
(* What CalcTransmissionChannels leaves: it calculates the transfer        *)
(* vectors without noting the hash.                                        *)
Calculated(l, I) ==
  [ctv |-> Snapshot(l, I), ctv_is_up_2_date |-> l \notin Direct, hash_sum |-> {},
   abs_sqr_ctf |-> NoPsd, is_up_2_date |-> FALSE, rxPsd |-> NoPsd]

(* The constructor that takes a graph clears m_timeslot_tasks_scheduled;   *)
(* the default constructor leaves it to chance.                            *)
Init ==
  /\ impedance \in [Outlet -> Object]
  /\ \A d \in Device : impedance[d] = RxImpedance[d]
  /\ \A o \in Load : impedance[o] \in Impedances[o]
  /\ hash_sum = HashOf(impedance)
  /\ impl = [l \in Link |-> Calculated(l, impedance)]
  /\ transmitting = {} /\ propagating = {}
  /\ scheduled \in BOOLEAN /\ task = FALSE
  /\ handed = [l \in Link |-> NoPsd]
  /\ deferred = {} /\ outdated = {} /\ preset = scheduled

(* What becomes of outdated: the links whose path the device outlet o      *)
(* loads are added, and those whose PSD is not in the map are dropped.     *)
Passing(o) == {p \in Link \X (Device \cap {o}) : o \in Taps[p[1]]}
OutdatedAfter(D, o, C) == {p \in D \cup Passing(o) : C[p[1]].rxPsd # NoPsd}

(* PLC_Outlet::SetImpedance of o to z, the transmitters T being active;    *)
(* start are those that start with it.  Nothing happens if o has z.        *)
SetImpedance(o, z, immediately, T, start) ==
  LET changed == impedance[o] # z
      I == [impedance EXCEPT ![o] = z]
      h == IF changed THEN HashAfter(hash_sum, impedance[o], z) ELSE hash_sum
      C == IF changed THEN AfterChange(o, impl) ELSE impl
      R == (IF changed /\ immediately THEN T ELSE {}) \cup start
  IN  /\ impedance' = I
      /\ hash_sum' = h
      /\ impl' = Refreshed(C, R, I, h)
      /\ handed' = [l \in Link |-> IF l[1] \in R THEN impl'[l].rxPsd ELSE handed[l]]
      /\ deferred' = IF changed /\ ~ immediately THEN deferred \cup T ELSE (deferred \cap T) \ R
      /\ outdated' = IF changed THEN OutdatedAfter(outdated, o, C) ELSE outdated
      /\ UNCHANGED preset

(* ScheduleNextTimeslotTasks.                                              *)
ScheduleNextTimeslotTasks == scheduled' = TRUE /\ task' = (task \/ ~ scheduled)

(* A user, or a load that is switched, changes an impedance; the outlet of *)
(* a load schedules the slot tasks as well.                                *)
ChangeImpedance(o, z, immediately) ==
  /\ impedance[o] # z
  /\ SetImpedance(o, z, immediately, transmitting, {})
  /\ IF o \in Load THEN ScheduleNextTimeslotTasks ELSE UNCHANGED <<scheduled, task>>
  /\ UNCHANGED <<transmitting, propagating>>

(* SendFrame: ChangeState(TX), which switches the impedance, then          *)
(* TransmissionStart.                                                      *)
StartTx(t) ==
  /\ t \notin transmitting
  /\ SetImpedance(t, TxImpedance[t], TRUE, transmitting, {t})
  /\ transmitting' = transmitting \cup {t}
  /\ ScheduleNextTimeslotTasks
  /\ UNCHANGED propagating

(* TransmissionEnd, then ChangeState(IDLE).                                *)
EndTx(t) ==
  /\ t \in transmitting /\ t \notin propagating
  /\ transmitting' = transmitting \ {t}
  /\ propagating' = propagating \cup {t}
  /\ SetImpedance(t, RxImpedance[t], TRUE, transmitting', {})
  /\ UNCHANGED <<scheduled, task>>

PropagationComplete(t) ==
  /\ t \in propagating
  /\ propagating' = propagating \ {t}
  /\ UNCHANGED <<impedance, hash_sum, impl, transmitting, scheduled, task, handed, deferred, outdated,
                 preset>>

(* The slot tasks go on while this holds: if one looked only at what is    *)
(* still propagating, and as it is.                                        *)
MorePropagating == propagating # {}
MoreSlotTasks == transmitting # {} \/ propagating # {}

(* ProcessTimeslotTasks: receivers of a PSD that is still there are not    *)
(* told.                                                                   *)
ProcessTimeslotTasks ==
  /\ task
  /\ impl' = Refreshed(impl, transmitting, impedance, hash_sum)
  /\ handed' = [l \in Link |-> IF l[1] \in transmitting /\ impl[l].rxPsd = NoPsd
                                 THEN impl'[l].rxPsd ELSE handed[l]]
  /\ deferred' = {}
  /\ task' = MoreSlotTasks
  /\ scheduled' = MoreSlotTasks
  /\ UNCHANGED <<impedance, hash_sum, transmitting, propagating, outdated, preset>>

---------------------------------------------------------------------------
Next ==
  \/ \E o \in Outlet : \E z \in Impedances[o], now \in BOOLEAN : ChangeImpedance(o, z, now)
  \/ \E t \in Sender : StartTx(t) \/ EndTx(t) \/ PropagationComplete(t)
  \/ ProcessTimeslotTasks

(* Simulated time reaches the end of every slot.                           *)
Spec == Init /\ [][Next]_vars /\ WF_vars(ProcessTimeslotTasks)

---------------------------------------------------------------------------
(* The variables stay in their types.                                      *)
TypeOK ==
  /\ impedance \in [Outlet -> Object] /\ \A o \in Outlet : impedance[o] \in Impedances[o]
  /\ hash_sum \subseteq Object
  /\ DOMAIN impl = Link
  /\ \A l \in Link :
       /\ impl[l] \in [ctv : Calculation, ctv_is_up_2_date : BOOLEAN, hash_sum : SUBSET Object,
                       abs_sqr_ctf : Calculation \cup {NoPsd}, is_up_2_date : BOOLEAN,
                       rxPsd : Calculation \cup {NoPsd}]
  /\ transmitting \subseteq Device /\ propagating \subseteq Device /\ deferred \subseteq Device
  /\ scheduled \in BOOLEAN /\ task \in BOOLEAN
  /\ handed \in [Link -> Calculation \cup {NoPsd}]
  /\ outdated \subseteq Link \X Device /\ preset \in BOOLEAN

(***************************************************************************)
(* Every receiver of a transmission under way has been given a PSD that    *)
(* results from the impedances as they are now, its own and that of every  *)
(* outlet on the path, whatever changed when, and through two levels of    *)
(* out-of-date flags, the hash and the map of PSDs ("recalculation when    *)
(* needed next time, i.e. the values will be up to date",                  *)
(* DeleteOutOfDatePSDs).  A change made with updateImmediately = false may *)
(* be outstanding.  And AcquaintAffectedInstances forgets one thing: the   *)
(* PSD in the map survives the change of another device on the path, and   *)
(* only for that device's impedance may it be out of date.                 *)
(***************************************************************************)
PsdCurrent ==
  \A l \in Link : l[1] \in transmitting \ deferred =>
    /\ handed[l] # NoPsd
    /\ \A o \in DependsOn(l) : handed[l][o] = impedance[o] \/ <<l, o>> \in outdated

(***************************************************************************)
(* m_timeslot_tasks_scheduled is set exactly while a slot task is in the   *)
(* event queue, and one is while anything is transmitted: otherwise no     *)
(* task would ever run again, or two would run side by side.  A channel    *)
(* that starts with the flag set (PLC_ChannelHelper makes it with the      *)
(* default constructor) never runs one.                                    *)
(***************************************************************************)
SlotTasksRun ==
  IF preset THEN scheduled /\ ~ task
  ELSE /\ scheduled = task
       /\ transmitting # {} => task

(***************************************************************************)
(* A change that SetImpedance was told not to apply at once reaches the    *)
(* receivers of the transmissions under way with the next slot task,       *)
(* unless the channel started with the flag set.                           *)
(***************************************************************************)
DeferredApplied == \A t \in Device : t \in deferred /\ ~ preset ~> t \notin deferred

---------------------------------------------------------------------------
(***************************************************************************)
(* The inductive invariant behind the theorems of PlcChannelProofs.        *)
(***************************************************************************)
(* Where the hash tells any two settings of the impedances apart: no two   *)
(* outlets share an impedance object (SetRxImpedance and SetTxImpedance    *)
(* copy theirs), and one outlet always has one, so that the hash is never  *)
(* the 0 a transfer function starts with.  Without it PsdCurrent fails.    *)
OwnImpedances ==
  /\ \A o, p \in Outlet : o # p => Impedances[o] \cap Impedances[p] \subseteq {NoImpedance}
  /\ \E o \in Outlet : NoImpedance \notin Impedances[o]

Setting == {I \in [Outlet -> Object] : \A o \in Outlet : I[o] \in Impedances[o]}
Present(I) == {I[o] : o \in Outlet} \ {NoImpedance}

(* Every level of l's cache c that is not out of date was calculated from  *)
(* the impedances I, but for those of devices that D pairs with l; the     *)
(* transfer vector stems from the impedances whose hash stands beside it,  *)
(* whether it is out of date or not.                                       *)
CacheCurrent(l, c, I, D) ==
  /\ c.ctv_is_up_2_date => c.ctv = Snapshot(l, I)
  /\ c.is_up_2_date => c.abs_sqr_ctf = Snapshot(l, I)
  /\ c.rxPsd # NoPsd => \A o \in DependsOn(l) : c.rxPsd[o] = I[o] \/ <<l, o>> \in D
  /\ c.hash_sum = {} \/ \E J \in Setting : c.hash_sum = Present(J) /\ c.ctv = Snapshot(l, J)

CachesCurrent == \A l \in Link : CacheCurrent(l, impl[l], impedance, outdated)

(* A receiver has been given the PSD that is in the map.                   *)
HandedCurrent ==
  \A l \in Link : l[1] \in transmitting /\ impl[l].rxPsd # NoPsd => handed[l] = impl[l].rxPsd

OutdatedInMap == \A p \in outdated : impl[p[1]].rxPsd # NoPsd

IInv ==
  /\ TypeOK /\ hash_sum = Present(impedance)
  /\ CachesCurrent /\ HandedCurrent /\ OutdatedInMap /\ PsdCurrent
=============================================================================
