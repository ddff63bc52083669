----------------------------- MODULE PlcReceiver ----------------------------
(***************************************************************************)
(* The signals at one receiver and the sums PLC_Interference keeps of them *)
(* (plc-interference.cc), under the two families of PHYs that feed it      *)
(* (plc-phy.cc): PLC_ErrorRatePhy, which finds the PSD of an interferer in *)
(* its map when the signal ends, and PLC_InformationRatePhy, which removes *)
(* the PSD it was given when the signal arrived.  The sums decide the SINR *)
(* and the clear channel assessment.                                       *)
(*                                                                         *)
(* Signals start, arrive, change and end in any order that one transmitter *)
(* at a time allows: a transmitter's next signal starts after its last has *)
(* ended here, a CCA lasting longer than any propagation.  A PSD is a      *)
(* number; what a frame decodes to is a choice.                            *)
(***************************************************************************)
EXTENDS Integers, FiniteSets, Functions

CONSTANTS
  Kinds,      \* the PHYs considered: subset of {"errorRate", "informationRate"}
  TxId,       \* the transmitters' interface numbers
  Psd,        \* [TxId -> the PSDs its signal may arrive with]
  NoPsd,      \* no entry in m_rxNoisePsdMap
  MaxSignals  \* bound on the signals sent

(* The channel numbers interfaces from 0, which m_locked_txId also takes   *)
(* for "not locked": only one receiver does not hear interface 0.          *)
ASSUME TxIdAssumption == IsFiniteSet(TxId) /\ TxId \subseteq Nat
ASSUME PsdAssumption == DOMAIN Psd = TxId /\ \A t \in TxId : Psd[t] \subseteq Nat
ASSUME KindAssumption == Kinds \subseteq {"errorRate", "informationRate"}
ASSUME NoPsdAssumption == NoPsd \notin Nat
ASSUME BoundAssumption == MaxSignals \in Nat

VARIABLES
  kind,             \* the class of the PHY
  state,            \* m_state
  locked_txId,      \* m_locked_txId
  rxNoisePsdMap,    \* m_rxNoisePsdMap
  interference,     \* PLC_Interference: m_allSignals, m_noiseSignals, m_rxSignal
  signal,           \* [TxId -> record]: its stage ("none", "onTheWay", "preamble",
                    \*   "header", "payload"; interference: "noise" from the start, or
                    \*   "failed"), its PSD now, and the one it arrived with, which the
                    \*   scheduled events hold
  sent,             \* signals sent so far
  missed,           \* history: transmitters whose present PSD the PHY did not take over
  leaked,           \* history: a PSD was removed that is not the one in the sum
  mismatch,         \* history: a payload came in another scheme
  altered,          \* history: m_rxSignal was exchanged though none was received
  aborted           \* history: the end of an interferer was taken for a reception's

history == <<missed, leaked, mismatch, altered, aborted>>
vars == <<kind, state, locked_txId, rxNoisePsdMap, interference, signal, sent, history>>

In(t, stages) == signal[t].stage \in stages
At(t, stage) == signal' = [signal EXCEPT ![t].stage = stage]

Received == {t \in TxId : In(t, {"header", "payload"})}
Interfering == {t \in TxId : In(t, {"noise", "failed"})}

(* The PSD the PHY goes on with: that of its map for an interferer, or the *)
(* one the signal arrived with.                                            *)
Share(t) == IF In(t, {"noise"}) THEN rxNoisePsdMap[t] ELSE signal[t].captured

(* t's PSD is psd now, and the PHY does not take it over.                  *)
Missing(t, psd) == IF Share(t) = psd THEN missed \ {t} ELSE missed \cup {t}

---------------------------------------------------------------------------
(* PLC_Interference, through PLC_LinkPerformanceModel.  Before the first   *)
(* StartRx m_rxSignal is null, and only a program that confuses interface  *)
(* 0 with no lock looks at it: it would stop there, the model takes 0.     *)
StartRx(i, psd) == [i EXCEPT !.rx = psd, !.all = @ + psd]
AlterRxSignal(i, psd) == [i EXCEPT !.rx = psd, !.all = @ + psd - i.rx]
EndRx(i) == [i EXCEPT !.all = @ - i.rx]
AddNoiseSignal(i, psd) == [i EXCEPT !.noise = @ + psd, !.all = @ + psd]
RemoveNoiseSignal(i, psd) == [i EXCEPT !.noise = @ - psd, !.all = @ - psd]

---------------------------------------------------------------------------
Init ==
  /\ kind \in Kinds
  /\ state = "IDLE" /\ locked_txId = 0
  /\ rxNoisePsdMap = [t \in TxId |-> NoPsd]
  /\ interference = [all |-> 0, noise |-> 0, rx |-> 0]
  /\ signal = [t \in TxId |-> [stage |-> "none", psd |-> 0, captured |-> 0]]
  /\ sent = 0
  /\ missed = {} /\ leaked = FALSE /\ mismatch = FALSE /\ altered = FALSE /\ aborted = FALSE

(* TransmissionStart at the channel: StartRx follows after the propagation.*)
TransmissionStart(t, psd) ==
  /\ In(t, {"none"}) /\ sent < MaxSignals
  /\ signal' = [signal EXCEPT ![t] = [stage |-> "onTheWay", psd |-> psd, captured |-> psd]]
  /\ sent' = sent + 1
  /\ UNCHANGED <<kind, state, locked_txId, rxNoisePsdMap, interference, history>>

(* The PHY locks on a signal it could detect: if it did so while receiving *)
(* another, and as it does.                                                *)
CanLockBusy(detectable) == detectable /\ state # "TX"
CanLock(detectable) == detectable /\ state = "IDLE"

(* DoStartRx: m_locked_txId is reset, and set when the preamble is over.   *)
DoStartRx(t, detectable) ==
  /\ In(t, {"onTheWay"})
  /\ IF CanLock(detectable)
       THEN /\ state' = "RX" /\ locked_txId' = 0
            /\ At(t, "preamble")
            /\ UNCHANGED <<rxNoisePsdMap, interference>>
       ELSE /\ rxNoisePsdMap' = [rxNoisePsdMap EXCEPT ![t] = signal[t].captured]
            /\ interference' = AddNoiseSignal(interference, signal[t].captured)
            /\ At(t, "noise")
            /\ UNCHANGED <<state, locked_txId>>
  /\ UNCHANGED <<kind, sent, history>>

(* PreambleDetectionSuccessful, with StartReception.                       *)
PreambleDetectionSuccessful(t) ==
  /\ In(t, {"preamble"})
  /\ locked_txId' = t
  /\ interference' = StartRx(interference, signal[t].captured)
  /\ At(t, IF kind = "errorRate" THEN "payload" ELSE "header")
  /\ UNCHANGED <<kind, state, rxNoisePsdMap, sent, history>>

(* EndRxHeader: the payload is received with the PSD the signal arrived    *)
(* with, ...                                                               *)
HeaderReceived(t) ==
  /\ In(t, {"header"})
  /\ interference' = StartRx(EndRx(interference), signal[t].captured)
  /\ At(t, "payload")
  /\ missed' = Missing(t, signal[t].psd)
  /\ UNCHANGED <<kind, state, locked_txId, rxNoisePsdMap, sent, leaked, mismatch, altered, aborted>>

(* ... or the rest of the signal is interference; a payload in another     *)
(* scheme does not end the reception of the header.  If a failed header    *)
(* did not end it either, and as it is.                                    *)
WithoutHeaderKept(other) == interference
WithoutHeader(other) == IF other THEN interference ELSE EndRx(interference)

HeaderFailed(t, other) ==
  /\ In(t, {"header"})
  /\ interference' = AddNoiseSignal(WithoutHeader(other), signal[t].captured)
  /\ state' = "IDLE"
  /\ At(t, "failed")
  /\ missed' = Missing(t, signal[t].psd)
  /\ mismatch' = (mismatch \/ other)
  /\ UNCHANGED <<kind, locked_txId, rxNoisePsdMap, sent, leaked, altered, aborted>>

(* EndRx of PLC_ErrorRatePhy when t's signal ends: the map without t's     *)
(* entry, if it were not erased, and as it is.  The end of interferer 0    *)
(* during a preamble passes for that of the frame.                         *)
MapKept(t) == rxNoisePsdMap
MapErased(t) == [rxNoisePsdMap EXCEPT ![t] = NoPsd]

ErrorRateEndRx(t) ==
  /\ kind = "errorRate" /\ In(t, {"payload", "noise"})
  /\ IF state = "RX" /\ locked_txId = t
       THEN /\ state' = "IDLE" /\ locked_txId' = 0
            /\ interference' = EndRx(interference)
            /\ UNCHANGED rxNoisePsdMap
       ELSE /\ interference' = IF rxNoisePsdMap[t] = NoPsd THEN interference
                               ELSE RemoveNoiseSignal(interference, rxNoisePsdMap[t])
            /\ rxNoisePsdMap' = MapErased(t)
            /\ UNCHANGED <<state, locked_txId>>
  /\ At(t, "none")
  /\ missed' = missed \ {t}
  /\ aborted' = (aborted \/ (state = "RX" /\ locked_txId = t /\ In(t, {"noise"})))
  /\ UNCHANGED <<kind, sent, leaked, mismatch, altered>>

(* EndRxPayload of PLC_InformationRatePhy, then ChangeState(IDLE).         *)
EndRxPayload(t) ==
  /\ kind = "informationRate" /\ In(t, {"payload"})
  /\ interference' = EndRx(interference)
  /\ state' = "IDLE"
  /\ At(t, "none")
  /\ missed' = missed \ {t}
  /\ UNCHANGED <<kind, locked_txId, rxNoisePsdMap, sent, leaked, mismatch, altered, aborted>>

(* The RemoveNoiseSignal that DoStartRx or EndRxHeader scheduled.          *)
ScheduledRemoval(t) ==
  /\ kind = "informationRate" /\ In(t, {"noise", "failed"})
  /\ interference' = RemoveNoiseSignal(interference, signal[t].captured)
  /\ leaked' = (leaked \/ (In(t, {"noise"}) /\ rxNoisePsdMap[t] # signal[t].captured))
  /\ At(t, "none")
  /\ missed' = missed \ {t}
  /\ UNCHANGED <<kind, state, locked_txId, rxNoisePsdMap, sent, mismatch, altered, aborted>>

(* The lock an update of t's PSD is compared with: if any reception would  *)
(* do, and as it is.                                                       *)
IsReceiving(t) == state = "RX"
IsLockedOn(t) == state = "RX" /\ locked_txId = t

(* The map after an update: if the new PSD were not noted, and as it is.   *)
MapStale(t, psd) == rxNoisePsdMap
MapUpdated(t, psd) == [rxNoisePsdMap EXCEPT ![t] = psd]

(* DoUpdateRxPsd: a reception is altered, an interferer exchanged, and     *)
(* what is neither is left alone.                                          *)
DoUpdateRxPsd(t, psd) ==
  /\ ~ In(t, {"none"})
  /\ signal' = [signal EXCEPT ![t].psd = psd]
  /\ CASE IsLockedOn(t) ->
            /\ interference' = AlterRxSignal(interference, psd)
            /\ missed' = IF t \in Received THEN missed \ {t} ELSE Missing(t, psd)
            /\ UNCHANGED <<rxNoisePsdMap, leaked>>
       [] ~ IsLockedOn(t) /\ rxNoisePsdMap[t] # NoPsd ->
            /\ interference' = AddNoiseSignal(RemoveNoiseSignal(interference, rxNoisePsdMap[t]), psd)
            /\ rxNoisePsdMap' = MapUpdated(t, psd)
            /\ leaked' = (leaked \/ (~ In(t, {"noise"}) /\ rxNoisePsdMap[t] # psd))
            /\ missed' = IF In(t, {"noise"}) THEN missed \ {t} ELSE Missing(t, psd)
       [] OTHER ->
            /\ missed' = Missing(t, psd)
            /\ UNCHANGED <<interference, rxNoisePsdMap, leaked>>
  /\ altered' = (altered \/ (IsLockedOn(t) /\ t \notin Received))
  /\ UNCHANGED <<kind, state, locked_txId, sent, mismatch, aborted>>

(* The device's own transmissions: DoStartTx, and the ChangeState(IDLE)    *)
(* that it schedules.                                                      *)
StartTx == /\ state = "IDLE" /\ state' = "TX"
           /\ UNCHANGED <<kind, locked_txId, rxNoisePsdMap, interference, signal, sent, history>>
EndTx == /\ state = "TX" /\ state' = "IDLE"
         /\ UNCHANGED <<kind, locked_txId, rxNoisePsdMap, interference, signal, sent, history>>

---------------------------------------------------------------------------
SignalStep(t) ==
  \/ \E psd \in Psd[t] : TransmissionStart(t, psd) \/ DoUpdateRxPsd(t, psd)
  \/ \E detectable \in BOOLEAN : DoStartRx(t, detectable)
  \/ PreambleDetectionSuccessful(t)
  \/ HeaderReceived(t)
  \/ \E other \in BOOLEAN : HeaderFailed(t, other)
  \/ ErrorRateEndRx(t)
  \/ EndRxPayload(t)
  \/ ScheduledRemoval(t)

Next == (\E t \in TxId : SignalStep(t)) \/ StartTx \/ EndTx

Spec == Init /\ [][Next]_vars

---------------------------------------------------------------------------
(***************************************************************************)
(* m_noiseSignals is what its trace source promises, the "Sum of all       *)
(* interfering signals at the receiver frontend", each with its present    *)
(* PSD, through any interleaving of arrivals, changes and ends.  Excepted  *)
(* is a change the PHY did not take over, until its signal is gone, what   *)
(* happens after PLC_InformationRatePhy removed a PSD that is not the one  *)
(* in the sum, and what happens after PLC_ErrorRatePhy, in a preamble,     *)
(* took the end of interferer 0 for that of the frame.                     *)
(***************************************************************************)
NoiseIsSum ==
  /\ missed \cap Interfering = {} /\ ~ leaked /\ ~ aborted
       => interference.noise = SumFunctionOnSet([t \in TxId |-> signal[t].psd], Interfering)
  /\ kind = "errorRate" /\ leaked => aborted

(***************************************************************************)
(* m_allSignals, which the clear channel assessment reads, is the noise    *)
(* and the signal being received, whatever was exchanged or missed: after  *)
(* the last signal ends, no power of a received one is left.  Only a       *)
(* payload in another scheme breaks this (EndRxHeader), and a change or    *)
(* the end of interferer 0 in a preamble.                                  *)
(***************************************************************************)
AllIsNoiseAndSignal ==
  /\ ~ mismatch /\ ~ altered /\ ~ aborted
       => interference.all = interference.noise + (IF Received = {} THEN 0 ELSE interference.rx)
  /\ altered => 0 \in TxId

(***************************************************************************)
(* The PHY is in RX exactly while one signal is received, is locked on     *)
(* that signal from its preamble's end on, and decodes it with the PSD it  *)
(* has now, unless the change came before the PHY had locked or the        *)
(* payload was started with the PSD the signal arrived with.  Excepted is  *)
(* what follows the end of interferer 0 in a preamble, which only          *)
(* PLC_ErrorRatePhy acts on.                                               *)
(***************************************************************************)
LockedOnReceived ==
  LET here == {t \in TxId : In(t, {"preamble"})} \cup Received
  IN  IF aborted THEN kind = "errorRate" /\ 0 \in TxId
      ELSE /\ state = "RX" <=> here # {}
           /\ Cardinality(here) <= 1
           /\ \A t \in Received : /\ locked_txId = t
                                  /\ t \notin missed => interference.rx = signal[t].psd

(***************************************************************************)
(* The map of PLC_ErrorRatePhy holds the interfering signals and no other: *)
(* DoStartRx asserts that a new interferer has no entry, and a stale one   *)
(* would be exchanged or removed in the place of a signal that is gone.    *)
(* Every interferer has its entry; only the entry of interface 0 can ever  *)
(* be stale, after its end was taken for that of a frame.                  *)
(***************************************************************************)
MapIsInterferers ==
  kind = "errorRate" =>
    \A t \in TxId : /\ t \in Interfering => rxNoisePsdMap[t] # NoPsd
                    /\ rxNoisePsdMap[t] # NoPsd => t \in Interfering \/ (t = 0 /\ aborted)

---------------------------------------------------------------------------
(***************************************************************************)
(* The inductive invariant behind the theorems of PlcReceiverProofs.       *)
(***************************************************************************)
Stage == {"none", "onTheWay", "preamble", "header", "payload", "noise", "failed"}

TypeOK ==
  /\ kind \in Kinds /\ state \in {"IDLE", "RX", "TX"} /\ locked_txId \in TxId \cup {0}
  /\ rxNoisePsdMap \in [TxId -> Nat \cup {NoPsd}]
  /\ interference \in [all : Int, noise : Int, rx : Int]
  /\ signal \in [TxId -> [stage : Stage, psd : Nat, captured : Nat]]
  /\ sent \in 0 .. MaxSignals /\ missed \subseteq TxId
  /\ leaked \in BOOLEAN /\ mismatch \in BOOLEAN /\ altered \in BOOLEAN /\ aborted \in BOOLEAN

(* At most one signal is received; the lock is not set before its preamble *)
(* is over, and what a reception before it left in m_locked_txId is gone.  *)
LockOK ==
  /\ \A t, u \in TxId : In(t, {"preamble", "header", "payload"}) /\ In(u, {"preamble", "header", "payload"})
                          => t = u
  /\ state = "RX" <=> \E t \in TxId : In(t, {"preamble", "header", "payload"})
  /\ \A t \in TxId : /\ In(t, {"preamble"}) => locked_txId = 0
                     /\ In(t, {"header", "payload"}) => locked_txId = t

(* The PSD the PHY goes on with is the present one, unless it was missed.  *)
PsdTaken ==
  \A t \in TxId \ missed :
    /\ In(t, {"onTheWay", "preamble"}) => signal[t].captured = signal[t].psd
    /\ In(t, {"header", "payload"}) => interference.rx = signal[t].psd
    /\ In(t, {"noise", "failed"}) => Share(t) = signal[t].psd

(* PLC_ErrorRatePhy has no header to fail, and its map no stale entry but  *)
(* that of interface 0; in the other's map the entry of an interferer is   *)
(* the one that was added.                                                 *)
MapOK ==
  /\ \A t \in TxId : In(t, {"noise"}) => rxNoisePsdMap[t] # NoPsd
  /\ kind = "errorRate" =>
       /\ leaked => aborted
       /\ \A t \in TxId : /\ ~ In(t, {"header", "failed"})
                          /\ rxNoisePsdMap[t] # NoPsd => In(t, {"noise"}) \/ (t = 0 /\ aborted)

(* Who confuses interface 0 with no lock; a lock on another interface is   *)
(* on a frame whose preamble is over, even then.                           *)
AbortOK ==
  /\ altered => 0 \in TxId
  /\ aborted => kind = "errorRate" /\ 0 \in TxId
  /\ kind = "errorRate" /\ state = "RX" /\ locked_txId # 0 => In(locked_txId, {"payload"})

NoiseIsShares ==
  ~ leaked => interference.noise = SumFunctionOnSet([t \in TxId |-> Share(t)], Interfering)

Undisturbed == LockOK /\ PsdTaken /\ AllIsNoiseAndSignal /\ NoiseIsShares

IInv == TypeOK /\ MapOK /\ AbortOK /\ (~ aborted => Undisturbed)
=============================================================================
