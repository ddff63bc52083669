# A TLA+ model of the ns-3 power line communication module

The repository bundles ns-3.15 with the power line communication (PLC) module
in `ns-3.15/src/plc/` and a Qt front end, `plc-gnosis`.  The module's own logic
is in `ns-3.15/src/plc/model/`: a discrete-event engine, two MAC protocols over
CSMA/CA, several half-duplex OFDM PHYs and a channel that carries power
spectral densities (PSDs) between interfaces.  This directory holds TLA+
models of that logic, the TLC configurations that check them on small
instances, and TLAPS proofs for instances of any size.  Paths below are
relative to `ns-3.15/src/plc/model/` unless they say otherwise.

## The system

| Component | State it keeps | Operations | What makes it correct |
|---|---|---|---|
| `PLC_SimulatorImpl` (`plc-simulator-impl.cc`) over `MapScheduler`, `EventImpl` | event list, destroy list, clock, current uid, next uid, count of pending events, stop flag, granularity | `Schedule*`, `Cancel`, `Remove`, `IsExpired`, `Stop`, `Run`, `RunOneEvent`, `Destroy`, `SetGranularity` | events run once, in key order, never after cancellation; the count is exact; ids are judged rightly; `Run` ends |
| `PLC_Mac` (`plc-mac.cc`) | CSMA/CA: active flag, NB, BE, attempts | `StartCsmaCa`, `RandomBackoffDelay`, `RequestCca`, `CcaConfirm`, `CsmaCaConfirm` | one procedure per frame, ended by access or failure |
| `PLC_ArqMac` | frame and header at hand, awaiting flag, sequence number, replays, timer | `Send`, `DoProcess`, `NotifyCcaConfirm`, `NotifyCsmaCaConfirm`, `NotifyTransmissionEnd`, `AcknowledgementTimeout` | each accepted frame gets one outcome, and the outcome is true |
| `PLC_HarqMac` | the same, and the number of redundancy frames requested | as above, over a HARQ PHY | as above; redundancy is of the frame awaited |
| `PLC_InformationRatePhy`, `PLC_ErrorRatePhy` (`plc-phy.cc`) | IDLE/TX/RX, locked transmitter, interference per transmitter | `StartTx`, `StartRx`, end of preamble, header and payload, `CcaRequest`, `UpdateRxPsd` | the state is ended by the event that belongs to it; a signal leaves the sums as it entered them |
| `PLC_ChaseCombiningPhy`, `PLC_IncrementalRedundancyPhy` | message remembered, awaiting redundancy, its timer | `SendRedundancy`, reception of redundancy, failure timeout | nobody waits without a timer |
| `PLC_Interference`, `PLC_LinkPerformanceModel` | sums of signals, gathered information | add, remove, alter a signal; start and end reception | every signal added is removed once |
| `PLC_Channel`, interfaces | transmitting and propagating interfaces, cached receive PSDs, time slot task | `TransmissionStart`, `TransmissionEnd`, time slot updates | each receiver in range sees each signal; caches are current |
| Noise sources (`plc-noise.cc`) | enabled flag | start and end of pulses | pulses are interference only |
| `PLC_CsmaCa` (`plc-csmaca.cc`) | its own CSMA/CA state | `Start`, `Cancel`, CCA results | (dead code: not built, not referred to) |
| `PLC_Outlet`, `PLC_Node` | impedances and their hash | `SetImpedance` by loads, users and the PHYs | caches follow impedance changes |
| Topology: `PLC_Graph`, `PLC_Edge`, `PLC_BackboneBranch` | graph, paths | built before a run | |
| `PLC_NetDevice`, helpers | wiring | send, receive, configuration | |
| `PLC_Value`, cables, capacity tables | none | complex arithmetic | |

Everything runs on one thread: components interact by direct calls within an
event and by scheduling events.  A MAC asks its PHY for a clear channel
assessment (CCA); the PHY answers after eight symbols through a callback; the
MAC grants itself access in yet another event and calls `StartTx`; the channel
schedules `StartRx` at every other interface after a propagation delay; the
receiving PHY passes through preamble, header and payload and calls the MAC,
which forwards the frame to the application (which may call `Send` from inside
that callback) and requests a CCA for its acknowledgement.  What makes the code
hard to test is not parallelism but the order of these events: between two
events of one procedure any event of another node, or of another procedure of
the same node, may run, and several can fall on the same instant.  Losses,
collisions, noise, timers and late acknowledgements all act through that order.
`PROJECT.json` lists the individual hazards with the lines where they bite.

## Modules

| Module | Models |
|---|---|
| `PlcSimulator` | the event engine, called in every possible way by event bodies and by the main program |
| `PlcAgenda` | the same event list as its users see it: pending events relative to now, in order; constant operators only |
| `PlcArqNetwork` (extends `PlcAgenda`) | nodes with the stack `PLC_NetDeviceHelper` builds by default: ARQ MAC, CSMA/CA, information rate PHY, channel, noise pulses |
| `PlcDelivery` | abstract: what a MAC promises the applications above it |
| `PlcHarqNetwork` (extends `PlcArqNetwork`) | the same network with the HARQ MAC over the chase combining or the incremental redundancy PHY |
| `PlcChannel` | impedance changes, the transfer function and PSD caches, slot tasks, transmissions |
| `PlcReceiver` | one receiver: its PHY's bookkeeping of signals and the sums of `PLC_Interference` |
| `MCPlcSimulator`, `MCPlcArqNetwork`, `MCPlcHarqNetwork`, `MCPlcChannel`, `MCPlcReceiver` | instances for TLC |
| `PlcSimulatorProofs` | proofs about the engine |
| `PlcAgendaProofs` | lemmas on the agenda's operators: ranks stay ranks, and how the numbers of events of a kind change |
| `PlcArqNetworkProofs` | proofs about what ARQ devices report to their applications |
| `PlcPhyProofs` (extends the last two) | proofs about the PHYs of ARQ devices |
| `PlcTimingProofs` (extends `PlcPhyProofs`) | proofs about ARQ devices that depend on when events are due, where one node sends |
| `PlcHarqNetworkProofs` (extends `PlcTimingProofs`) | what the other modules prove of ARQ devices, for HARQ devices; their waits for redundancy, and which frame redundancy is of |
| `PlcChannelProofs`, `PlcReceiverProofs` | proofs about the channel's caches and the receiver's sums |

`PlcArqNetwork` and `PlcHarqNetwork` compose MAC, PHY, channel and engine in
time; `PlcChannel` and `PlcReceiver` open up what those two abstract from, the
power that arrives, and leave out time.  The interface between the last two is
what `PlcChannel` records in `handed`: the PSDs given to a receiver by `StartRx`
and `RxPsdChanged` are the inputs of `PlcReceiver`.

### PlcSimulator

Each variable is a member of the class (the comment at its declaration names
it); `ctl` is the program counter of the engine (in `Run`'s loop, in an event's
body, in `Destroy`'s loop, or outside).  `UserCode` holds whenever the program
or an event's body has control; then any engine operation may be called, on any
id handed out so far.  `Stop(time)` needs no action of its own: it is a
`Schedule` whose event calls `Stop`.  `m_context` is carried along without
being read and is left out, as are reference counts.  Destroy events all have
uid 2 in the code and are told apart by their `EventImpl`; the model names them
by the value of `m_uid`, which `ScheduleDestroy` advances as well.

### PlcArqNetwork

Each scheduled callback is an event in `agenda`, and each kind of event has an
action which performs the whole callback, including the calls it makes into
other components (`EndRxPayload` contains `DoProcess`, `EndCca` contains
`CcaConfirm` and `NotifyCcaConfirm`, and so on).  An event runs only when it is
the head of the agenda, so simultaneous events run in the order in which they
were scheduled, exactly as in the engine.  The agenda keeps times relative to
now, which makes states with the same future equal; no handler modelled reads
the absolute time.  Two callbacks scheduled back to back for the same instant
are one event, since nothing can come between them (`ChangeState(IDLE)` and
`NotifyFrameSent`, as well as the channel's `TransmissionEnd`, which has no
other effect than to end the membership in `m_transmitting` that state TX
already expresses; `EndRxPayload` and `ChangeState(IDLE)`).

Choices left open: the backoff drawn (within the range the truncated uniform
variable can give), whether a signal is strong enough to lock on, whether header
and payload are decoded, whether interference lies above the CCA threshold, the
moments at which applications send and noise pulses start, and the initial value
of `m_csmaca_attempts`, which the code never initialises.  `accepted`,
`delivered`, `acked` and `failed` are history variables recording the calls at
the upper interface.

Not in this model: promiscuous mode, teardown, payload contents, and (left to
`PlcReceiver`) PHYs with different modulation and coding schemes and channels
that change during a frame.  Every node is in range of every other; a PHY that cannot hear another
behaves like one for which the signal is too weak to lock on and below the
threshold.

### PlcDelivery

The service has four steps: a frame is accepted, delivered (possibly again),
acknowledged, or failed.  `ImplementsService` maps its `outstanding` to
`m_txPacket` where `m_awaiting_ack` is set, and takes the history variables as
they are.  The refinement says in one formula that acknowledgements are true,
that outcomes are reported once and only for the frame outstanding, and that
nothing the PHYs, timers, replays, redundancy or collisions do shows at the upper
interface.  The one weakness the service has to admit is the code's: receiving a
data frame makes a node abandon the frame it has outstanding.

### PlcHarqNetwork

Everything the MACs and PHYs share is `PlcArqNetwork`'s; the module redefines
what differs.  The sets of event kinds (`Kind`, `Reception`) are the same for both
networks, and so are the properties of the PHY states; the ARQ network simply
never schedules the kinds redundancy needs.  `phyType` is chosen initially.  After a timeout `PLC_HarqMac`
requests one CCA and, if the channel is clear, redundancy.  With chase combining
that is the remembered packet again, with incremental redundancy a frame without
header, which only a PHY awaiting redundancy can use; the others take it for a
header, fail, and treat the rest as interference.  `aborted` records a failed
assertion, after which nothing happens.  `message` is one variable because
`m_uncoded_msg` is one member: the incremental redundancy PHY uses it for what it
sends and clears it when it has received something.

### PlcChannel

A transfer function or PSD is represented by the impedances it was computed from
(`Snapshot`), so "current" means equal to the snapshot of now.  Per link, `impl`
holds the fields of `PLC_ChannelTransferImpl` that decide whether something is
computed again: the transfer vector with its flag and hash, the squared magnitude
with its flag, and the PSD cached in `m_transmission_descriptors`.
`SetImpedance` is the whole call: hash, `AcquaintAffectedInstances`, and, unless
deferred, `UpdateReceivePSDs`.  `StartTx` and `EndTx` include the impedance switch
of `ChangeState`.  The addresses the hash combines are abstract and distinct.
Any outlet, of a load or of a device, may load the path between two other devices
(`Taps`).  Assumed: channels are time invariant; a device keeps its transmit PSD;
what lies between an outlet and the transfer vector (edges, two-port parameters) is
recomputed correctly.

Three history variables record what the code leaves undone.  `deferred`: transmitters
under way when an impedance was changed with `updateImmediately = false`.
`outdated`: a change at a device's outlet marks the transfer functions of the paths
it loads as out of date, but `AcquaintAffectedInstances` (`plc-outlet.cc:142`) deletes
only the PSDs received by that device, so the others stay in the map until something
else deletes them; the variable pairs such a link with the device that changed.
`preset`: the initial value of `m_timeslot_tasks_scheduled`, which the constructor with
a graph clears and the default constructor (`plc-channel.cc:894`, the one
`PLC_ChannelHelper` uses) leaves uninitialised; the model starts with either.

### PlcReceiver

The state of a PHY that concerns signals (`m_state`, `m_locked_txId`,
`m_rxNoisePsdMap`) and `PLC_Interference`'s sums, with PSDs as numbers.  Each
signal has a stage, its present PSD, and the PSD it arrived with, which the
code's scheduled events hold.  `kind` selects `PLC_ErrorRatePhy` or
`PLC_InformationRatePhy`.  Five history variables record where the code departs
from what its trace sources promise:

* `missed`: an update came when the PHY could not place it (before arrival, during
  the preamble, or after a failed header), or was undone when the payload started
  with the PSD of the arrival;
* `leaked`: a PSD was taken out of the sum that was not the one in it;
* `mismatch`: a payload in another scheme left `EndRx` out;
* `altered`, `aborted`: the channel numbers its transmit interfaces from 0
  (`plc-channel.cc:1016`), and the PHY uses 0 for "not locked" during a preamble
  (`plc-phy.cc:697`).  A change of interferer 0 then exchanges `m_rxSignal`, and with
  `PLC_ErrorRatePhy` the end of interferer 0 ends the reception of the frame.  Every
  receiver hears interface 0 but the one whose device owns it.

The properties are stated outside these cases; that they hold there, under every
interleaving, shows that the list of cases is complete.  `MapIsInterferers` holds
after an abort, too, with the entry of interface 0 as the only exception.  Not in the
model: the packet that `PLC_ErrorRatePhy` gives to its MAC, once more, when it is
aborted, and the null `m_rxSignal` it would use if no frame was received before (the
model takes 0).

## Runs

All values are in the `.cfg` files.  Times are small integers that keep the
relations that matter (CCA longer than a propagation delay, a backoff unit
longer than a CCA).

| Run | Instance | Shows |
|---|---|---|
| `simulator` | up to 3 events of either kind, delays 1 and 3, granularities 1 and 2 | all properties of the engine |
| `arq_oneway` | one sender, two frames, one replay allowed, one noise pulse, `AckTimeout` 8 (an acknowledgement takes at most 7) | one pending step per awaited frame (`OneStepPending`), none left behind (`NothingAfterOutcome`), every frame resolved (`Resolved`) |
| `arq_late` | the same with `AckTimeout` 4, no replay configured | acknowledgements that arrive after their frame was given up never confirm a later frame |
| `arq_duplex` | two senders with a frame each, short timeout, one replay | PHY state, interference count, outcomes and the refinement of `PlcDelivery` under collisions, crossing frames and replies from the data callback |
| `arq_silent_loss` | two senders | violation, see below |
| `arq_replays` | one sender | violation, see below |
| `harq` | one sender, two frames, either PHY, `AckTimeout` 3 (a round trip takes 2, a CCA 4, an acknowledgement without its header 4), one noise pulse | redundancy is of the awaited frame, waiting for redundancy is always timed, PHY state, outcomes, refinement of `PlcDelivery` |
| `harq_wedge` | one sender, one frame, one noise pulse | violation, see below |
| `harq_assert` | two senders, `AckTimeout` 0 (100 us are nothing beside a symbol of 2.24 ms) | violation, see below |
| `channel` | three devices and a load in a star; two devices send, one of them with another impedance than it receives with; either value of the flag at first | every receiver has a current PSD, up to the recorded departures (`PsdCurrent`), slot tasks run when and only when they should, or never (`SlotTasksRun`), deferred changes arrive (`DeferredApplied`) |
| `channel_hash` | two devices without impedance, a load | violation, see below |
| `receiver` | three transmitters, interface 0 among them, with two PSDs each, three signals, both PHYs | the sums behind SINR and CCA, the lock and the interference map |

The bounds are the smallest for which the cases of interest occur: two frames
for an acknowledgement to meet the wrong one; sequence numbers modulo 2 so that
every start value, hence the wrap-around, is covered; one replay so that a
replay can cross its acknowledgement; a noise pulse of any onset so that a CCA
can fail at any moment.  In `channel`, a third device is needed for a device to load
the path between two others; one of those that send switches its impedance while the
other transmits, with the load changing in between.  In `receiver`, three signals let a
transmitter come back after an earlier signal has left its traces while another one is
received or interferes, or let interferer 0 end in the preamble of one frame with a
third signal present; the PSDs are such that no two sets of signals have the same sum.  In `simulator`, three events suffice for an event to
schedule, cancel or remove another one, simultaneous or later, while a third is
pending.  `CHECK_DEADLOCK FALSE` appears in the ARQ configurations because a
simulation ends when the agenda is empty; the other instances have no such
state.

`Resolved` in `arq_oneway` holds under conditions that the instance states: no
data traffic towards the sender, a timeout longer than an acknowledgement takes,
and no interference long enough to keep the channel occupied for
`MaxCSMABackoffs + 1` assessments in a row.  Without any of them frames can be
lost silently, as `arq_silent_loss` shows for the first.  In particular CSMA/CA never
fails in `arq_oneway`, so the run says nothing about what `PLC_ArqMac` does then
(hazards at `plc-mac.cc:557` and `plc-mac.h:178`); with two pulses instead of one TLC
finds the frame that is given up without a callback.

### Where code and interface disagree

* `arq_silent_loss`: `plc-mac.h:76` offers a "Callback for failed data
  transmission", but an accepted frame can end with no callback at all, and with
  `m_awaiting_ack` set so that later frames are refused.  In the trace a signal
  reaches the PHY between `EndCca` and `CsmaCaConfirm`; `StartTx` is refused and
  `NotifyCsmaCaConfirm` (`plc-mac.cc:536`) only logs it.
* `arq_replays`: `m_replays++ <= m_max_replays` (`plc-mac.cc:592`) replays a
  frame `m_max_replays + 1` times before "Maximum replays reached".
* `harq_wedge`: in the HARQ MAC a CCA that finds the channel occupied before a
  redundancy frame (`plc-mac.cc:782`) ends everything: nothing is scheduled any
  more, no callback comes, and later frames are refused.  One noise pulse is
  enough, without any other traffic.
* `harq_assert`: `PLC_ChaseCombiningPhy::SendRedundancy` asserts that there is a
  packet (`plc-phy.cc:1416`).  A node with two CCAs under way, its own and one
  for an acknowledgement, takes the first result for its CSMA/CA procedure and
  the second for a request for redundancy, before it has sent anything.
* `channel_hash`: "the values will be up to date" (`plc-channel.cc:1347`) fails
  when the impedance hash returns to its initial value 0, which
  `CalcTransmissionChannels` never replaced: the transfer function with the load
  on is used after it was switched off.

### Fairness

`PlcSimulator` assumes weak fairness of the engine's own steps and of the return
of event bodies: the loops do nothing else, and a body that never returns is no
property of the engine.  With `MaxUid` bounding the events scheduled, `Run` then
returns (`RunTerminates`).  `PlcArqNetwork` assumes weak fairness of
`ProcessOneEvent`, that is, of `Run`'s loop; applications and noise sources are
under no obligation.  `PlcHarqNetwork` assumes the same.  `PlcChannel` assumes weak
fairness of `ProcessTimeslotTasks` alone: once scheduled, its event is run.

## Proofs

`PlcSimulatorProofs` holds for every set of delays, every set of positive
granularities and any number of events.  The properties are not inductive by
themselves.  `IInv` adds that uids are unique among pending, issued, destroyed
and executed events (`UidsUnique`), that the list is finite, and that an issued
id which is no longer pending either lies at or before the current key or was
cancelled (`LeftForAReason`), which is the fact that lets `IsExpired` decide
without looking at the list.  From `IInv`: `TypeOK`, `PendingAhead`,
`NoEventLost`, `ExpiredExact`, and the action properties `TimeNeverGoesBack` and
`RunsAtMostOnce`.

`PlcArqNetworkProofs` holds for any finite set of nodes, any delays and
durations, and any CSMA/CA parameters.  Its assumption `MaxSends <= SeqMod` says
that no sequence number is used twice by a node; beyond 65536 frames of one node
an acknowledgement old enough could match again, in the code too.  `AckSound`
needs to know where an acknowledgement comes from and that its number belongs to
one frame only.  `IInv` therefore states that each frame in the agenda or at a
MAC is a data frame that was accepted or answers a data frame that was delivered
(`FramesOK`), that the numbers given out are not older than the number of frames
sent (`NumbersFresh`), hence unique (`NumbersUnique`), and that an awaited frame
is the node's own (`OwnFrame`).  From it: `TypeOK`, `AckSound` and `OutcomeOnce`.
The same invariant carries the refinement (`ServiceImplemented`): initial states
map to initial states of `PlcDelivery`, `Send`, `ReceiveData`, a matching
`ReceiveAck` and `TransmissionFailed` map to `Accept`, `Deliver`, `Acknowledge`
and `Fail`, and every other step leaves the service's variables alone.
`NumbersUnique` makes the acknowledged frame one that was delivered, and
`NumbersFresh` makes the accepted frame a new one.

`PlcPhyProofs` proves `PhyFollowsAgenda` and `NoiseBalanced` under the same
assumptions.  Both count pending events, so the proof rests on what the agenda's
operators do to a count, and that on an invariant of the agenda which is easily
overlooked: an entry is a due time, a rank and an event, and if two entries could
get the same rank, adding one of two equal events would add nothing.  `Ranked`
says that the rank of an entry is the number of those due with it and ahead of
it, and that no two share due time and rank.  `PlcAgendaProofs` shows that `Add`,
`AddForEach`, `Without`, `Elapse` and `Pop` keep it (lemma `Rekeyed`: renumbering
a finite set one to one keeps order and cardinalities) and states for each how
`Count` changes.  `PhyInv` is `Ranked` together with, per node, one "txEnd" event
exactly in state TX, one event of a reception exactly in state RX, and as many
"removeNoise" events as signals counted.  All other events are `Quiet`; a step
either leaves the three counts alone, or changes one of them and the state with it.

`PlcTimingProofs` proves `NothingAfterOutcome` and `OneStepPending`, which are false
for some constants: with two senders a reply takes the place of an awaited frame, and
with a short timer a late acknowledgement leaves a CSMA/CA procedure behind (hazards
at `plc-mac.cc:580` and `595`).  The theorems therefore have hypotheses, each a formula
on the constants.  `OneSender(s)`: only the application of `s` sends.  `Patient(s)`:
the timer is longer than the way to any listener, its CCA, the way back and an
acknowledgement on the air.  By default it is 100 ms (`plc-mac.cc:348`), a symbol takes
2.24 ms (`plc-phy.cc:99`) and a CCA 8 symbols (`plc-defs.h:66`).  `FewPulses`, for
`OneStepPending` only: there are no more noise pulses than backoffs and each is
shorter than a CCA; beyond that CSMA/CA may give up for good (`plc-mac.cc:552`).  The
instance of `arq_oneway` satisfies all three.

* `TimeInv` says that at most one event carries a frame of `s` on, its *step*, and that
  at most one event, the *token*, may still bring an acknowledgement to `s`: the data
  frame at its destination, the CCA there, the acknowledgement on its way back.  With
  the time the exchange still takes after it (`Left`), the token ends before the timer
  expires (`Watched`).  So an acknowledgement comes only while the timer is the step,
  which it cancels, and when the timer expires no token is left.
* `NoiseInv` adds a budget.  A pulse that is shorter than a CCA can spoil one assessment
  only, so NB backoffs have used up NB pulses; pulses and removals that may still spoil
  the next assessment (`Threats`) are counted against those not yet started.  Hence
  CSMA/CA of a sender that nobody else interferes with is never refused.  That nothing
  but pulses interferes at its CCA follows from `TimeInv`: no acknowledgement is on its
  way then, and one that was taken for noise has passed (`Settled`).

`PlcHarqNetworkProofs` covers either PHY.  `HarqInv` is `IInv` and `PhyInv` with
three additions: a frame a PHY remembers is accounted for like the frames in the
agenda (it may be sent again at any time), only an incremental redundancy PHY
waits, and `Timed`: the failure timer is pending exactly while a node waits and
receives no payload, and no header is being decided about at a node that waits.
The last clause is what makes the first inductive: a header that succeeds at a
waiting node would schedule a payload beside the timer.  It holds because a
waiting PHY skips the header (`HarqPreamble`) and begins to wait only at the end
of a payload, when by `PhyInv` no other reception is pending.  From `HarqInv`:
`HarqTypeOK`, `OutcomeOnce`, `AckSound`, `PhyFollowsAgenda`, `WaitIsTimed`, and the
refinement of `PlcDelivery` (`HarqServiceImplemented`).  The callbacks the two
networks share are steps of `PlcArqNetwork`, so its lemmas carry over.

`RedundancyOfAwaitedCorrect` in the same module is about timing again, with
`OneSender(s)` and `Prompt(s)`: the timer is longer than a signal takes to a listener
and back, and shorter than preamble and payload of an acknowledgement.  The default is
100 us (`plc-mac.cc:632`) against symbols of 2.24 ms, so the first half holds on lines
of some 10 km and the second always; the instance of `harq` satisfies both.  The timer
thus always expires before an acknowledgement is complete, and what protects the
exchange is the CCA before the redundancy frame.  `AloneInv` says that `s` contends for
the channel with a frame nothing has carried yet, or has sent it, remembers it in the
PHY and may ask for redundancy, or is idle (`Pursuit`); and it bounds what may bring an
acknowledgement to `s` from both sides: it reaches `s` before the CCA of the pending
step ends (`Reaches`), and is not received completely before that (`TooLate`; a PHY
that awaits redundancy skips headers, which `Skips` accounts for).  Hence a CCA that an
acknowledgement meets finds the PHY receiving or disturbed and, if it finds the channel
clear all the same, no acknowledgement will follow; and a reception, which would make
the PHY forget the frame or refuse to send, ends at `s` only when no redundancy is
about to be sent.

`PlcChannelProofs` holds for any finite sets of devices and loads and any paths.
`PsdCurrentCorrect` has one hypothesis, `OwnImpedances`: no two outlets use one
impedance object and some outlet always has one, so that the XOR of their addresses
tells settings apart and never returns to the initial 0.  `channel_hash` shows that
`PsdCurrent` fails without the second half; the instance of `channel` satisfies both.
The invariant says that the hash is the set of objects present, and that each level of
the cache (vector, squared magnitude, PSD, what was handed to the receiver) is current
or marked as out of date (`CachesCurrent`, `HandedCurrent`), where a PSD in the map
may differ from the present impedance of a device `outdated` pairs with its link, and
of no other outlet (`OutdatedInMap` ends the exception when the PSD is deleted).  The
property without `outdated` fails in the instance of `channel`.
`SlotTasksRunCorrect` has no hypothesis: it covers both initial values of
`m_timeslot_tasks_scheduled`.

`PlcReceiverProofs` holds for any finite set of transmitters and any PSDs.
`NoiseIsSum` compares a sum kept step by step with a sum over a set, so the proof
needs what adding, removing or exchanging a summand does to
`SumFunctionOnSet`; these lemmas are derived from the definition of the fold by
looking at a smallest counterexample among the subsets of a finite set, since an
induction theorem cannot be applied.  `IInv` relates each signal's stage to the
PHY's lock (`LockOK`), to the map (`MapOK`), and to the PSD by which it takes part
in the sums (`PsdTaken`, `NoiseIsShares`), which after a missed change is not the
present one.  These hold until `aborted` (`Undisturbed`); `MapOK` and `AbortOK` hold
always.  `AbortOK` says who can confuse interface 0 with no lock, and that an abort
leaves no lock on another interface behind: a lock other than 0 is on a frame whose
preamble is over.  So only the entry of interface 0 can go stale.

Only model-checked: the liveness properties `RunTerminates`, `Resolved` and
`DeferredApplied`, which depend on fairness and are outside what the prover supports.
Every invariant and action property that a passing run checks is proved as well.

The hypotheses on timing cannot be dropped.  For `RedundancyOfAwaited` TLC finds two
ways around them.  With one sender and a timer longer than an acknowledgement
(`AckTimeout` 6, `AckTime` 1, `CcaTime` 2 in `Harq.cfg`), an acknowledgement can be
received while the CCA before a redundancy frame is pending; the redundancy frame is
sent although nothing is awaited, the next frame winds up a second chain of events
beside it, and when CSMA/CA fails the CCA of one chain is taken for that of the other
while the PHY remembers the previous frame.  With two senders of two frames each, data
frames that arrive at a sender start CCAs of their own, with the same effect, and the
PHY remembers an acknowledgement.

## Not modelled

`PLC_Value`, cables, capacity tables, SINR and spectrum helpers are
floating-point computations without control state.  Topology construction and the
path search happen before a simulation; their result is a constant of
`PlcChannel`.  Time-variant channels index the same caches by time slot and need
the arithmetic of slots; the slot tasks themselves are modelled.  `PLC_NetDevice`
and the helpers wire components.  `PLC_CsmaCa` is not built and nothing refers to
it.  `plc-gnosis` is a user interface.  The rest of ns-3 is third-party code; the
scheduler and event classes the engine calls are part of its model.

## Plan

Done: the engine; the ARQ and HARQ stacks and the service they implement; the
channel's caches; the receiver's sums; proofs of every invariant, action property and
refinement the passing runs check.  What could follow: the timing theorems for several
senders that take turns; time-variant channels, which need the arithmetic of slots;
the topology and the path search as a component of their own.
