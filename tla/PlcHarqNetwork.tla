--------------------------- MODULE PlcHarqNetwork ---------------------------
(***************************************************************************)
(* The network of PlcArqNetwork with hybrid ARQ: PLC_HarqMac (plc-mac.cc)  *)
(* over PLC_ChaseCombiningPhy or PLC_IncrementalRedundancyPhy              *)
(* (plc-phy.cc).  What the two MACs and the PHYs have in common is taken   *)
(* from there, with MaxReplays for m_max_redundancy_frames, replays for    *)
(* m_sent_redundancy_frames and AckTimeout for m_acknowledgement_timeout.  *)
(*                                                                         *)
(* After a timeout the MAC does not run CSMA/CA again: it requests one     *)
(* CCA, and if the channel is clear asks the PHY for redundancy on the     *)
(* frame the PHY remembers.  The redundancy frames of                      *)
(* PLC_IncrementalRedundancyPhy have no header: they have events of their  *)
(* own, and a PHY that does not await redundancy cannot receive them.      *)
(* How many bits remain, and the SINR base of chase combining, decide      *)
(* whether a payload can be decoded, which is a free choice.               *)
(***************************************************************************)
EXTENDS PlcArqNetwork

CONSTANTS
  RedundancyTime,   \* duration of m_redundancy_chunks chunks
  FailureTimeout    \* reception_failure_timeout

ASSUME RedundancyAssumption == RedundancyTime \in Nat /\ FailureTimeout \in Nat

VARIABLES
  phyType,              \* which PHY the network is built with
  message,              \* what redundancy is sent on: the message of m_txMetaInfo ("CC"),
                        \*   m_uncoded_msg ("IR")
  encoded,              \* "CC": m_txPacket of the PHY is set
  awaiting_redundancy,  \* "IR": m_awaiting_redundancy
  aborted               \* an assertion has failed

sender == <<phyType, message, encoded, aborted>>
redundancy == <<sender, awaiting_redundancy>>
harqVars == <<vars, redundancy>>

HarqInit ==
  /\ Init
  /\ phyType \in {"CC", "IR"}
  /\ message = [n \in Node |-> NoFrame]
  /\ encoded = [n \in Node |-> FALSE]
  /\ awaiting_redundancy = [n \in Node |-> FALSE]
  /\ aborted = FALSE

---------------------------------------------------------------------------
(***************************************************************************)
(* Sending.                                                                *)
(***************************************************************************)
(* The PHY would refuse any frame: IR while it awaits redundancy.          *)
Refuses(n) == phyType = "IR" /\ awaiting_redundancy[n]

(* m_uncoded_msg or the message of m_txMetaInfo after DoStartTx, if it kept*)
(* the one it has, and as it is.                                           *)
RememberedOnce(n) == IF message[n] = NoFrame THEN txPacket[n] ELSE message[n]
Remembered(n) == txPacket[n]

(* DoStartTx of both PHYs: the message is remembered even if the PHY then  *)
(* turns out to be busy; the encoded packet of "CC" is not.                *)
HarqStartTx(n, A) ==
  /\ IF Refuses(n) \/ txPacket[n] = NoFrame
       THEN agenda' = A /\ UNCHANGED <<state, message, encoded>>
       ELSE /\ StartTx(n, A)
            /\ message' = [message EXCEPT ![n] = Remembered(n)]
            /\ encoded' = [encoded EXCEPT ![n] = @ \/ (phyType = "CC" /\ state[n] = "IDLE")]
  /\ UNCHANGED <<phyType, aborted, awaiting_redundancy>>

RedundancyKind == IF phyType = "CC" THEN "startRx" ELSE "startRedundancy"
RedundancyAirTime(f) ==
  IF phyType = "CC" THEN AirTime(f) ELSE PreambleTime + RedundancyTime

(* SendRedundancy of both PHYs: "CC" asserts that it has an encoded packet,*)
(* "IR" returns false when it has no message.                              *)
SendRedundancy(n, A) ==
  /\ aborted' = (phyType = "CC" /\ ~ encoded[n])
  /\ IF state[n] = "IDLE" /\ message[n] # NoFrame /\ ~ aborted'
       THEN SendFrame(n, message[n], RedundancyKind, RedundancyAirTime(message[n]), A)
       ELSE agenda' = A /\ UNCHANGED state
  /\ UNCHANGED <<phyType, message, encoded, awaiting_redundancy>>

(* PLC_HarqMac::NotifyCcaConfirm.                                          *)
HarqNotifyCcaConfirm(n, status, A) ==
  /\ ~ csmaca_active[n]
  /\ \/ status = "CLEAR" /\ awaiting_ack[n] /\ SendRedundancy(n, A)
     \/ status = "CLEAR" /\ ~ awaiting_ack[n] /\ HarqStartTx(n, A)
     \/ status = "OCCUPIED" /\ agenda' = A /\ UNCHANGED <<state, redundancy>>
  /\ UNCHANGED <<csma, noise>>

HarqEndCca(x) ==
  /\ Due("endCca", x)
  /\ \E status \in ClearChannelAssessment(x.ev.node) :
       \/ CcaConfirm(x.ev.node, status, After(x)) /\ UNCHANGED redundancy
       \/ HarqNotifyCcaConfirm(x.ev.node, status, After(x))
  /\ UNCHANGED <<arq, history, bounds>>

HarqCsmaCaIdle(x) ==
  /\ Due("csmaIdle", x)
  /\ csmaca_active' = [csmaca_active EXCEPT ![x.ev.node] = FALSE]
  /\ HarqStartTx(x.ev.node, After(x))
  /\ UNCHANGED <<NB, BE, csmaca_attempts, arq, noise, history, bounds>>

(* PLC_HarqMac::AcknowledgementTimeout while it may still send redundancy. *)
RequestRedundancy(n, A) ==
  /\ awaiting_ack[n] /\ replays[n] <= MaxReplays
  /\ replays' = [replays EXCEPT ![n] = @ + 1]
  /\ agenda' = Add(A, CcaTime, Ev("endCca", n))
  /\ UNCHANGED <<csma, awaiting_ack, failed>>

HarqAcknowledgementTimeout(x) ==
  /\ Due("timeout", x) \/ Due("oldTimeout", x)
  /\ \/ IgnoreTimeout(x.ev.node, After(x))
     \/ TransmissionFailed(x.ev.node, After(x))
     \/ RequestRedundancy(x.ev.node, After(x))
  /\ UNCHANGED <<txPacket, sequence_number, phy, accepted, delivered, acked, bounds, redundancy>>

(***************************************************************************)
(* Receiving.                                                              *)
(***************************************************************************)
(* The durations of what is received.                                      *)
IsRedundancy(ev) == ev.kind \in {"startRedundancy", "redundancyPreamble"}
RxPayloadTime(ev) == IF IsRedundancy(ev) THEN RedundancyTime ELSE PayloadTime(ev.frame)
RxHeaderTime(ev) == IF IsRedundancy(ev) THEN 0 ELSE HeaderTime

(* DoStartRx of a redundancy frame.                                        *)
StartRxRedundancy(x) ==
  LET n == x.ev.node IN
  /\ Due("startRedundancy", x)
  /\ \/ /\ CanLock(n, x.ev.frame)
        /\ state' = [state EXCEPT ![n] = "RX"]
        /\ agenda' = Add(After(x), PreambleTime, RxEv("redundancyPreamble", n, x.ev.frame))
        /\ UNCHANGED noise
     \/ /\ Interfere(n, PreambleTime + RedundancyTime, After(x))
        /\ UNCHANGED state
  /\ UNCHANGED <<csma, arq, history, bounds, redundancy>>

(* m_receptionFailureTimeoutEvent.Cancel (), forgotten and done.           *)
KeepFailureTimer(A, n) == A
CancelFailureTimer(A, n) ==
  Without(A, {y \in A : y.ev.kind = "failureTimeout" /\ y.ev.node = n})

(* PreambleDetectionSuccessful and StartReception: a PHY that awaits       *)
(* redundancy takes whatever comes for it and receives a payload at once.  *)
HarqPreamble(x) ==
  LET n == x.ev.node IN
  /\ Due("preamble", x) \/ Due("redundancyPreamble", x)
  /\ agenda' =
       IF Refuses(n)
         THEN Add(CancelFailureTimer(After(x), n), RxPayloadTime(x.ev), RxEv("rxPayload", n, x.ev.frame))
         ELSE Add(After(x), RxHeaderTime(x.ev),
                  RxEv(IF IsRedundancy(x.ev) THEN "redundancyHeader" ELSE "rxHeader", n, x.ev.frame))
  /\ UNCHANGED <<csma, arq, phy, history, bounds, redundancy>>

(* EndRxHeader of a frame that has none: no information was gathered.      *)
RedundancyHeader(x) ==
  /\ Due("redundancyHeader", x)
  /\ Interfere(x.ev.node, RedundancyTime, After(x))
  /\ state' = [state EXCEPT ![x.ev.node] = "IDLE"]
  /\ UNCHANGED <<csma, arq, history, bounds, redundancy>>

(* EndRxPayload of PLC_IncrementalRedundancyPhy, then ChangeState(IDLE).   *)
Decoded(n, f, A) ==
  /\ message' = [message EXCEPT ![n] = NoFrame]
  /\ awaiting_redundancy' = [awaiting_redundancy EXCEPT ![n] = FALSE]
  /\ DoProcess(n, f, CancelFailureTimer(A, n))

AwaitRedundancy(n, A) ==
  /\ awaiting_redundancy' = [awaiting_redundancy EXCEPT ![n] = TRUE]
  /\ agenda' = Add(CancelFailureTimer(A, n), FailureTimeout, Ev("failureTimeout", n))
  /\ UNCHANGED <<message, csma, arq, history, bounds>>

EndRxRedundancy(x) ==
  /\ Due("rxPayload", x)
  /\ phyType = "IR"
  /\ \/ Decoded(x.ev.node, x.ev.frame, After(x))
     \/ AwaitRedundancy(x.ev.node, After(x))
  /\ state' = [state EXCEPT ![x.ev.node] = "IDLE"]
  /\ UNCHANGED <<noise, phyType, encoded, aborted>>

ReceptionFailureTimeout(x) ==
  /\ Due("failureTimeout", x)
  /\ message' = [message EXCEPT ![x.ev.node] = NoFrame]
  /\ awaiting_redundancy' = [awaiting_redundancy EXCEPT ![x.ev.node] = FALSE]
  /\ agenda' = After(x)
  /\ UNCHANGED <<csma, arq, phy, history, bounds, phyType, encoded, aborted>>

---------------------------------------------------------------------------
(* The callbacks that are those of PlcArqNetwork.                          *)
CommonProcess(x) ==
  /\ \/ RestartCsmaCa(x) \/ RandomBackoffDelay(x) \/ RequestCca(x)
     \/ CsmaCaFailure(x) \/ FrameSent(x) \/ StartRx(x)
     \/ EndRxHeader(x) \/ (phyType = "CC" /\ EndRxPayload(x)) \/ RemoveNoiseSignal(x)
  /\ UNCHANGED redundancy

HarqProcess(x) ==
  \/ CommonProcess(x)
  \/ HarqEndCca(x) \/ HarqCsmaCaIdle(x) \/ HarqAcknowledgementTimeout(x)
  \/ StartRxRedundancy(x) \/ HarqPreamble(x) \/ RedundancyHeader(x)
  \/ EndRxRedundancy(x) \/ ReceptionFailureTimeout(x)

HarqProcessOneEvent == ~ aborted /\ \E x \in agenda : HarqProcess(x)

HarqNext ==
  \/ HarqProcessOneEvent
  \/ ~ aborted /\ Environment /\ UNCHANGED redundancy

HarqSpec == HarqInit /\ [][HarqNext]_harqVars /\ WF_harqVars(HarqProcessOneEvent)

---------------------------------------------------------------------------
(* The variables stay in their types.                                      *)
HarqTypeOK ==
  /\ TypeOK
  /\ phyType \in {"CC", "IR"} /\ message \in [Node -> Frame \cup {NoFrame}]
  /\ encoded \in [Node -> BOOLEAN] /\ awaiting_redundancy \in [Node -> BOOLEAN]
  /\ aborted \in BOOLEAN

(***************************************************************************)
(* A PHY that awaits redundancy refuses to transmit, so its wait must have *)
(* an end: exactly while it waits, one event is pending that ends the wait,*)
(* the failure timer or the reception that has taken its place.            *)
(***************************************************************************)
WaitIsTimed ==
  \A n \in Node :
    Cardinality(Pending({"failureTimeout"}, n)) =
      IF awaiting_redundancy[n] /\ Pending({"rxPayload"}, n) = {} THEN 1 ELSE 0

(***************************************************************************)
(* Redundancy is sent on the frame whose acknowledgement is awaited, never *)
(* on another message the PHY still remembers: MAC and PHY keep the frame  *)
(* apart from each other, and the PHY's copy is set, dropped and replaced  *)
(* by receptions and refusals the MAC does not see.                        *)
(***************************************************************************)
RedundancyOfAwaited ==
  \A n \in Node :
    awaiting_ack[n] /\ ~ csmaca_active[n] /\ Pending({"endCca"}, n) # {}
      => message[n] \in {txPacket[n], NoFrame}

(***************************************************************************)
(* The assertion "No previous tx packet, cannot send redundancy" of        *)
(* PLC_ChaseCombiningPhy::SendRedundancy does not fail: a node asks for    *)
(* redundancy only after a frame has left its PHY.                         *)
(***************************************************************************)
RedundancyHasPacket == ~ aborted

---------------------------------------------------------------------------
(* The agenda A holds the timers of the waits w for redundancy: a reception*)
(* that decides about a header is none that ends a wait.                   *)
Timed(A, w) ==
  \A n \in Node :
    /\ Count(A, {"failureTimeout"}, n) = IF w[n] /\ Count(A, {"rxPayload"}, n) = 0 THEN 1 ELSE 0
    /\ w[n] => Count(A, {"rxHeader", "redundancyHeader"}, n) = 0

(* The inductive invariant behind the theorems of PlcHarqNetworkProofs.    *)
HarqInv ==
  /\ IInv /\ PhyInv /\ HarqTypeOK
  /\ \A n \in Node : KnownFrame(message[n], accepted, delivered)
  /\ Timed(agenda, awaiting_redundancy)
  /\ \A n \in Node : awaiting_redundancy[n] => phyType = "IR"
=============================================================================
