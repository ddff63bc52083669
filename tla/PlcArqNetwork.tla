--------------------------- MODULE PlcArqNetwork ---------------------------
(***************************************************************************)
(* A network of PLC devices as PLC_NetDeviceHelper builds it by default:   *)
(* on every node a PLC_ArqMac (plc-mac.cc) over a half-duplex              *)
(* PLC_InformationRatePhy (plc-phy.cc), joined by a PLC_Channel            *)
(* (plc-channel.cc) to which noise sources (plc-noise.cc) may be attached, *)
(* all driven by one event engine (PlcSimulator, seen through PlcAgenda).  *)
(*                                                                         *)
(* Every scheduled callback is an event of the agenda with an action of    *)
(* its own; what a callback calls directly happens in the same action.     *)
(* Two callbacks scheduled one right after the other for the same time are *)
(* one event (ChangeState(IDLE) and NotifyFrameSent; EndRxPayload and      *)
(* ChangeState(IDLE)), since no other event can come between them.         *)
(*                                                                         *)
(* The data are abstracted: a frame is its MAC header; whether a signal is *)
(* strong enough to lock on, whether the information gathered suffices to  *)
(* decode, and whether interference lies above the CCA threshold are free  *)
(* choices.  All PHYs use one modulation and coding scheme.                *)
(***************************************************************************)
EXTENDS PlcAgenda

CONSTANTS
  Node,         \* the nodes, named by the index of their rx interface
  Sources,      \* the nodes whose application sends data
  NoFrame,      \* no packet: a null Ptr<Packet>
  SeqMod,       \* sequence numbers are modulo SeqMod (2^16 in the code)
  MinBE, MaxBE, MaxCSMABackoffs, UnitBackoff,  \* m_macMinBE, ..., in time units
  MaxAttempts,  \* MAX_CSMACA_ATTEMPTS
  MaxReplays,   \* m_max_replays
  AckTimeout,   \* m_timeout
  CcaTime,      \* CCA_NUM_SYMBOLS symbols
  PreambleTime, HeaderTime, DataTime, AckTime,  \* durations of a frame's parts
  PulseTime,    \* duration of a noise pulse
  Delay,        \* Delay[m][n]: direct path propagation delay
  MaxSends,     \* bound: data frames accepted from one application
  MaxPulses     \* bound: noise pulses

ASSUME NodeAssumption ==
  Node \subseteq Nat /\ IsFiniteSet(Node) /\ Sources \subseteq Node
ASSUME SeqAssumption ==
  SeqMod \in Nat \ {0} /\ MaxSends \in Nat /\ MaxSends <= SeqMod /\ MaxPulses \in Nat
ASSUME CsmaAssumption ==
  /\ MinBE \in Nat /\ MaxBE \in Nat /\ MaxCSMABackoffs \in Nat
  /\ UnitBackoff \in Nat /\ MaxAttempts \in Nat /\ MaxReplays \in Nat
ASSUME TimeAssumption ==
  /\ AckTimeout \in Nat /\ CcaTime \in Nat \ {0}
  /\ PreambleTime \in Nat /\ HeaderTime \in Nat /\ DataTime \in Nat /\ AckTime \in Nat
  /\ PulseTime \in Nat /\ Delay \in [Node -> [Node -> Nat]]

Seq16 == 0 .. SeqMod - 1
Frame == [type : {"DATA", "ACK"}, src : Node, dst : Node, seq : Seq16]
ASSUME NoFrameAssumption == NoFrame \notin Frame

VARIABLES
  agenda,            \* the pending events
  csmaca_active,     \* PLC_Mac: m_csmaca_active, m_NB, m_BE, m_csmaca_attempts
  NB, BE, csmaca_attempts,
  awaiting_ack,      \* PLC_ArqMac: m_awaiting_ack
  txPacket,          \* m_txPacket with the m_txHeader it carries
  sequence_number,   \* m_sequence_number
  replays,           \* m_replays
  state,             \* PLC_Phy: m_state
  noise,             \* how many interference signals m_information_rate_model adds up
  sends, pulses,     \* bounds: data frames accepted per node, noise pulses
  accepted,          \* history: frames for which Send returned true,
  delivered,         \*   that were forwarded up by their destination,
  acked, failed      \*   whose acknowledgement / failure callback was called

csma == <<csmaca_active, NB, BE, csmaca_attempts>>
arq == <<awaiting_ack, txPacket, sequence_number, replays>>
phy == <<state, noise>>
history == <<accepted, delivered, acked, failed>>
bounds == <<sends, pulses>>
vars == <<agenda, csma, arq, phy, history, bounds>>

---------------------------------------------------------------------------
(* The kinds of events, and those of a reception.  Only the PHYs of        *)
(* PlcHarqNetwork schedule the last line of Kind.                          *)
Kind == {"startCsma", "backoff", "requestCca", "endCca", "csmaIdle", "csmaFailure",
         "txEnd", "startRx", "preamble", "rxHeader", "rxPayload", "removeNoise",
         "timeout", "oldTimeout",
         "startRedundancy", "redundancyPreamble", "redundancyHeader", "failureTimeout"}
Reception == {"preamble", "rxHeader", "rxPayload", "redundancyPreamble", "redundancyHeader"}
Event == {e \in [kind : Kind, node : Node, frame : Frame \cup {NoFrame}] :
            e.kind \in Reception => e.frame # NoFrame}

Ev(kind, n) == [kind |-> kind, node |-> n, frame |-> NoFrame]
RxEv(kind, n, f) == [kind |-> kind, node |-> n, frame |-> f]

PayloadTime(f) == IF f.type = "DATA" THEN DataTime ELSE AckTime
AirTime(f) == PreambleTime + HeaderTime + PayloadTime(f)

(* What UniformVariable(0, 2^BE - 1).GetValue(), a real below its upper    *)
(* bound, can be truncated to.                                             *)
Backoffs(be) == IF 2 ^ be > 2 THEN 0 .. 2 ^ be - 2 ELSE {0}

Init ==
  /\ agenda = {}
  /\ csmaca_active = [n \in Node |-> FALSE]
  /\ NB = [n \in Node |-> 0] /\ BE = [n \in Node |-> MinBE]
  /\ csmaca_attempts \in [Node -> 0 .. MaxAttempts]  \* never initialised
  /\ awaiting_ack = [n \in Node |-> FALSE]
  /\ txPacket = [n \in Node |-> NoFrame]
  /\ sequence_number \in [Node -> Seq16]
  /\ replays = [n \in Node |-> 0]
  /\ state = [n \in Node |-> "IDLE"] /\ noise = [n \in Node |-> 0]
  /\ sends = [n \in Node |-> 0] /\ pulses = 0
  /\ accepted = {} /\ delivered = {} /\ acked = {} /\ failed = {}

---------------------------------------------------------------------------
(* The event x is the next one to run, and runs the callback named kind;   *)
(* After(x) is the agenda once it has been taken off.                      *)
Due(kind, x) == IsHead(agenda, x) /\ x.ev.kind = kind
After(x) == Pop(agenda, x)

(***************************************************************************)
(* PLC_Mac: CSMA/CA.                                                       *)
(***************************************************************************)
(* StartCsmaCa; the caller schedules RandomBackoffDelay for now.           *)
StartCsmaCa(n) ==
  /\ NB' = [NB EXCEPT ![n] = 0]
  /\ BE' = [BE EXCEPT ![n] = MinBE]
  /\ csmaca_active' = [csmaca_active EXCEPT ![n] = TRUE]
  /\ UNCHANGED csmaca_attempts

(* StartCsmaCa scheduled anew by NotifyCsmaCaConfirm.                      *)
RestartCsmaCa(x) ==
  /\ Due("startCsma", x)
  /\ StartCsmaCa(x.ev.node)
  /\ agenda' = Add(After(x), 0, Ev("backoff", x.ev.node))
  /\ UNCHANGED <<arq, phy, history, bounds>>

RandomBackoffDelay(x) ==
  /\ Due("backoff", x)
  /\ \E b \in Backoffs(BE[x.ev.node]) :
       agenda' = Add(After(x), b * UnitBackoff, Ev("requestCca", x.ev.node))
  /\ UNCHANGED <<csma, arq, phy, history, bounds>>

(* RequestCca and the CcaRequest of the PHY that it calls.                 *)
RequestCca(x) ==
  /\ Due("requestCca", x)
  /\ agenda' = Add(After(x), CcaTime, Ev("endCca", x.ev.node))
  /\ UNCHANGED <<csma, arq, phy, history, bounds>>

(* ClearChannelAssessment: the results possible at n.                      *)
ClearChannelAssessment(n) ==
  IF state[n] # "IDLE" THEN {"OCCUPIED"}
  ELSE IF noise[n] = 0 THEN {"CLEAR"} ELSE {"CLEAR", "OCCUPIED"}

(* SendFrame and TransmissionStart: every other node gets the signal, by   *)
(* an event of the given kind, after its delay; it lasts for the time d.   *)
SendFrame(n, f, kind, d, A) ==
  /\ state' = [state EXCEPT ![n] = "TX"]
  /\ agenda' = Add(AddForEach(A, [m \in Node \ {n} |-> RxEv(kind, m, f)], Delay[n]),
                   d, Ev("txEnd", n))

(* DoStartTx: a PHY that is not idle rejects the frame.                    *)
StartTx(n, A) ==
  IF state[n] = "IDLE" /\ txPacket[n] # NoFrame
    THEN SendFrame(n, txPacket[n], "startRx", AirTime(txPacket[n]), A)
    ELSE agenda' = A /\ UNCHANGED state

(* One backoff too few.                                                    *)
AfterBusyEarly(backoffs) == IF backoffs >= MaxCSMABackoffs THEN "csmaFailure" ELSE "backoff"

(* What CcaConfirm schedules once the channel was found occupied again.    *)
AfterBusy(backoffs) == IF backoffs > MaxCSMABackoffs THEN "csmaFailure" ELSE "backoff"

(* CcaConfirm: while CSMA/CA is active the result is its own, whoever      *)
(* requested the assessment, ...                                           *)
CcaConfirm(n, status, A) ==
  /\ csmaca_active[n]
  /\ \/ /\ status = "CLEAR"
        /\ agenda' = Add(A, 0, Ev("csmaIdle", n))
        /\ UNCHANGED <<NB, BE>>
     \/ /\ status = "OCCUPIED"
        /\ BE' = [BE EXCEPT ![n] = IF @ + 1 < MaxBE THEN @ + 1 ELSE MaxBE]
        /\ NB' = [NB EXCEPT ![n] = @ + 1]
        /\ agenda' = Add(A, 0, Ev(AfterBusy(NB[n] + 1), n))
  /\ UNCHANGED <<csmaca_active, csmaca_attempts, phy>>

(* ... otherwise NotifyCcaConfirm sends the frame at hand if the channel   *)
(* is clear, and forgets it if not.                                        *)
NotifyCcaConfirm(n, status, A) ==
  /\ ~ csmaca_active[n]
  /\ \/ status = "CLEAR" /\ StartTx(n, A)
     \/ status = "OCCUPIED" /\ agenda' = A /\ UNCHANGED state
  /\ UNCHANGED <<csma, noise>>

EndCca(x) ==
  /\ Due("endCca", x)
  /\ \E status \in ClearChannelAssessment(x.ev.node) :
       \/ CcaConfirm(x.ev.node, status, After(x))
       \/ NotifyCcaConfirm(x.ev.node, status, After(x))
  /\ UNCHANGED <<arq, history, bounds>>

(* CsmaCaConfirm and NotifyCsmaCaConfirm: access granted, ...              *)
CsmaCaIdle(x) ==
  /\ Due("csmaIdle", x)
  /\ csmaca_active' = [csmaca_active EXCEPT ![x.ev.node] = FALSE]
  /\ StartTx(x.ev.node, After(x))
  /\ UNCHANGED <<NB, BE, csmaca_attempts, arq, noise, history, bounds>>

(* ... or refused: CSMA/CA starts over, up to MaxAttempts times.           *)
CsmaCaFailure(x) ==
  LET n == x.ev.node IN
  /\ Due("csmaFailure", x)
  /\ csmaca_active' = [csmaca_active EXCEPT ![n] = FALSE]
  /\ IF csmaca_attempts[n] < MaxAttempts
       THEN /\ csmaca_attempts' = [csmaca_attempts EXCEPT ![n] = @ + 1]
            /\ agenda' = Add(After(x), 0, Ev("startCsma", n))
       ELSE /\ csmaca_attempts' = [csmaca_attempts EXCEPT ![n] = 0]
            /\ agenda' = After(x)
  /\ UNCHANGED <<NB, BE, arq, phy, history, bounds>>

(***************************************************************************)
(* PLC_ArqMac: stop and wait.                                              *)
(***************************************************************************)
NewData(n, d) == [type |-> "DATA", src |-> n, dst |-> d, seq |-> sequence_number[n]]
AckOf(f) == [type |-> "ACK", src |-> f.dst, dst |-> f.src, seq |-> f.seq]

(* m_sequence_number++, on more than 16 bits and on 16.                    *)
NextSeqUnwrapped(s) == s + 1
NextSeq(s) == IF s = SeqMod - 1 THEN 0 ELSE s + 1

(* DoSendFrom, called when it does not refuse the frame; m_txPacket and    *)
(* m_awaiting_ack, which a reply loses at once, are left to the callers.   *)
DoSendFrom(n, d) ==
  /\ n \in Sources /\ sends[n] < MaxSends
  /\ ~ awaiting_ack[n]
  /\ accepted' = accepted \cup {NewData(n, d)}
  /\ sequence_number' = [sequence_number EXCEPT ![n] = NextSeq(@)]
  /\ replays' = [replays EXCEPT ![n] = 0]
  /\ StartCsmaCa(n)
  /\ sends' = [sends EXCEPT ![n] = @ + 1]
  /\ UNCHANGED pulses

(* The application sends, some time t before the next event.               *)
Send(n, d, t) ==
  /\ MayElapse(agenda, t)
  /\ DoSendFrom(n, d)
  /\ txPacket' = [txPacket EXCEPT ![n] = NewData(n, d)]
  /\ awaiting_ack' = [awaiting_ack EXCEPT ![n] = TRUE]
  /\ agenda' = Add(Elapse(agenda, t), 0, Ev("backoff", n))
  /\ UNCHANGED <<phy, delivered, acked, failed>>

(* The event m_timeoutEvent refers to.                                     *)
Timers(A, n) == {y \in A : y.ev.kind = "timeout" /\ y.ev.node = n}

(* DoProcess of a data frame for n: forward it up, where the application   *)
(* may answer with a frame of its own to d, then acknowledge it.           *)
ReceiveData(n, f, A) ==
  /\ f.type = "DATA" /\ f.dst = n
  /\ delivered' = delivered \cup {f}
  /\ txPacket' = [txPacket EXCEPT ![n] = AckOf(f)]
  /\ awaiting_ack' = [awaiting_ack EXCEPT ![n] = FALSE]
  /\ \/ /\ agenda' = Add(A, CcaTime, Ev("endCca", n))
        /\ UNCHANGED <<csma, sequence_number, replays, accepted, bounds>>
     \/ \E d \in Node \ {n} :
          /\ DoSendFrom(n, d)
          /\ agenda' = Add(Add(A, 0, Ev("backoff", n)), CcaTime, Ev("endCca", n))
  /\ UNCHANGED <<acked, failed>>

(* Wrong tests of an acknowledgement: of any number, of a frame no longer  *)
(* waited for, without looking at the type of the frame.                   *)
AckMatchesAnyNumber(n, f) == f.type = "ACK" /\ awaiting_ack[n]
AckMatchesUnawaited(n, f) == f.type = "ACK" /\ f.seq = txPacket[n].seq
AckMatchesAnyType(n, f) == awaiting_ack[n] /\ f.seq = txPacket[n].seq

(* The condition under which DoProcess takes a frame for the               *)
(* acknowledgement awaited: neither its sender nor its age is looked at.   *)
AckMatches(n, f) == f.type = "ACK" /\ awaiting_ack[n] /\ f.seq = txPacket[n].seq

(* m_timeoutEvent.Cancel (), forgotten and done.                           *)
KeepTimer(A, n) == A
CancelTimer(A, n) == Without(A, Timers(A, n))

(* DoProcess of a frame for n that is not a data frame.                    *)
ReceiveAck(n, f, A) ==
  /\ f.dst = n
  /\ IF AckMatches(n, f)
       THEN /\ awaiting_ack' = [awaiting_ack EXCEPT ![n] = FALSE]
            /\ agenda' = CancelTimer(A, n)
            /\ acked' = acked \cup {txPacket[n]}
       ELSE /\ f.type # "DATA"
            /\ agenda' = A /\ UNCHANGED <<awaiting_ack, acked>>
  /\ UNCHANGED <<csma, txPacket, sequence_number, replays, accepted, delivered, failed, bounds>>

(* DoProcess of a frame for another node.                                  *)
Discard(n, f, A) ==
  /\ f.dst # n
  /\ agenda' = A
  /\ UNCHANGED <<csma, arq, history, bounds>>

(* AcknowledgementTimeout, the current timer's or an older one's: nothing  *)
(* is awaited any more, ...                                                *)
IgnoreTimeout(n, A) ==
  /\ ~ awaiting_ack[n]
  /\ agenda' = A
  /\ UNCHANGED <<csma, awaiting_ack, replays, failed>>

(* ... the transmission has failed, ...                                    *)
TransmissionFailed(n, A) ==
  /\ awaiting_ack[n] /\ replays[n] > MaxReplays
  /\ awaiting_ack' = [awaiting_ack EXCEPT ![n] = FALSE]
  /\ replays' = [replays EXCEPT ![n] = 0]
  /\ failed' = failed \cup {txPacket[n]}
  /\ agenda' = A
  /\ UNCHANGED csma

(* ... or the frame is sent again.                                         *)
Replay(n, A) ==
  /\ awaiting_ack[n] /\ replays[n] <= MaxReplays
  /\ replays' = [replays EXCEPT ![n] = @ + 1]
  /\ StartCsmaCa(n)
  /\ agenda' = Add(A, 0, Ev("backoff", n))
  /\ UNCHANGED <<awaiting_ack, failed>>

AcknowledgementTimeout(x) ==
  /\ Due("timeout", x) \/ Due("oldTimeout", x)
  /\ \/ IgnoreTimeout(x.ev.node, After(x))
     \/ TransmissionFailed(x.ev.node, After(x))
     \/ Replay(x.ev.node, After(x))
  /\ UNCHANGED <<txPacket, sequence_number, phy, accepted, delivered, acked, bounds>>

(***************************************************************************)
(* PLC_InformationRatePhy and PLC_Channel.                                 *)
(***************************************************************************)
(* m_timeoutEvent is assigned a new event; the old one, if it is pending,  *)
(* can no longer be cancelled.                                             *)
Superseded(A, n) ==
  {IF y \in Timers(A, n) THEN Entry(y.due, y.ord, Ev("oldTimeout", n)) ELSE y : y \in A}

(* The clock wound up for the first transmission only, and for each one    *)
(* that is to be acknowledged.                                             *)
MustWindFirst(n) == awaiting_ack[n] /\ replays[n] = 0
MustWind(n) == awaiting_ack[n]

(* ChangeState(IDLE), then NotifyFrameSent and NotifyTransmissionEnd.      *)
FrameSent(x) ==
  LET n == x.ev.node IN
  /\ Due("txEnd", x)
  /\ state' = [state EXCEPT ![n] = "IDLE"]
  /\ agenda' = IF MustWind(n)
                 THEN Add(Superseded(After(x), n), AckTimeout, Ev("timeout", n))
                 ELSE After(x)
  /\ UNCHANGED <<csma, arq, noise, history, bounds>>

(* Interference nobody will remove.                                        *)
InterfereForEver(n, d, A) ==
  /\ noise' = [noise EXCEPT ![n] = @ + 1]
  /\ agenda' = A

(* A signal is interference at n for the time d: AddNoiseSignal now,       *)
(* RemoveNoiseSignal then.                                                 *)
Interfere(n, d, A) ==
  /\ noise' = [noise EXCEPT ![n] = @ + 1]
  /\ agenda' = Add(A, d, Ev("removeNoise", n))

(* Locking on a frame while busy, and only when idle.                      *)
CanLockBusy(n, f) == f # NoFrame
CanLock(n, f) == f # NoFrame /\ state[n] = "IDLE"

(* DoStartRx: the PHY may lock on a frame, if it is strong enough, or take *)
(* the signal as interference.                                             *)
StartRx(x) ==
  LET n == x.ev.node
      f == x.ev.frame
  IN
  /\ Due("startRx", x)
  /\ \/ /\ CanLock(n, f)
        /\ state' = [state EXCEPT ![n] = "RX"]
        /\ agenda' = Add(After(x), PreambleTime, RxEv("preamble", n, f))
        /\ UNCHANGED noise
     \/ /\ Interfere(n, IF f = NoFrame THEN PulseTime ELSE AirTime(f), After(x))
        /\ UNCHANGED state
  /\ UNCHANGED <<csma, arq, history, bounds>>

(* PreambleDetectionSuccessful and StartReception.                         *)
PreambleDetectionSuccessful(x) ==
  /\ Due("preamble", x)
  /\ agenda' = Add(After(x), HeaderTime, RxEv("rxHeader", x.ev.node, x.ev.frame))
  /\ UNCHANGED <<csma, arq, phy, history, bounds>>

(* EndRxHeader: without its header the rest of the frame is interference.  *)
EndRxHeader(x) ==
  LET n == x.ev.node
      f == x.ev.frame
  IN
  /\ Due("rxHeader", x)
  /\ \/ /\ agenda' = Add(After(x), PayloadTime(f), RxEv("rxPayload", n, f))
        /\ UNCHANGED phy
     \/ /\ Interfere(n, PayloadTime(f), After(x))
        /\ state' = [state EXCEPT ![n] = "IDLE"]
  /\ UNCHANGED <<csma, arq, history, bounds>>

(* The MAC's DoProcess of the frame f, decoded at n.                       *)
DoProcess(n, f, A) == ReceiveData(n, f, A) \/ ReceiveAck(n, f, A) \/ Discard(n, f, A)

(* EndRxPayload, then ChangeState(IDLE).                                   *)
EndRxPayload(x) ==
  /\ Due("rxPayload", x)
  /\ \/ DoProcess(x.ev.node, x.ev.frame, After(x))
     \/ /\ agenda' = After(x)   \* not able to decode
        /\ UNCHANGED <<csma, arq, history, bounds>>
  /\ state' = [state EXCEPT ![x.ev.node] = "IDLE"]
  /\ UNCHANGED noise

RemoveNoiseSignal(x) ==
  /\ Due("removeNoise", x)
  /\ noise' = [noise EXCEPT ![x.ev.node] = @ - 1]
  /\ agenda' = After(x)
  /\ UNCHANGED <<csma, arq, state, history, bounds>>

(* A noise source at a node of its own, within range of n, starts a pulse  *)
(* (PulseStart); several sources, or several pulses, reach several nodes.  *)
PulseStart(n, t) ==
  /\ pulses < MaxPulses
  /\ MayElapse(agenda, t)
  /\ pulses' = pulses + 1
  /\ agenda' = Add(Elapse(agenda, t), 0, Ev("startRx", n))
  /\ UNCHANGED <<csma, arq, phy, history, sends>>

---------------------------------------------------------------------------
(* What the engine's Run loop does next.                                   *)
Process(x) ==
  \/ RestartCsmaCa(x) \/ RandomBackoffDelay(x) \/ RequestCca(x) \/ EndCca(x)
  \/ CsmaCaIdle(x) \/ CsmaCaFailure(x) \/ AcknowledgementTimeout(x)
  \/ FrameSent(x) \/ StartRx(x) \/ PreambleDetectionSuccessful(x)
  \/ EndRxHeader(x) \/ EndRxPayload(x) \/ RemoveNoiseSignal(x)

ProcessOneEvent == \E x \in agenda : Process(x)

(* The times at which an application or a noise source may act next.       *)
Elapsed == {0} \cup UNION {0 .. y.due : y \in agenda}

Environment ==
  \E t \in Elapsed : \/ \E n \in Sources, d \in Node : d # n /\ Send(n, d, t)
                     \/ \E n \in Node : PulseStart(n, t)

Next == ProcessOneEvent \/ Environment

Spec == Init /\ [][Next]_vars /\ WF_vars(ProcessOneEvent)

---------------------------------------------------------------------------
(* The variables stay in their types.                                      *)
TypeOK ==
  /\ \A y \in agenda : y.due \in Nat /\ y.ev \in Event
  /\ csmaca_active \in [Node -> BOOLEAN] /\ NB \in [Node -> Nat]
  /\ BE \in [Node -> Nat] /\ csmaca_attempts \in [Node -> 0 .. MaxAttempts]
  /\ awaiting_ack \in [Node -> BOOLEAN] /\ txPacket \in [Node -> Frame \cup {NoFrame}]
  /\ sequence_number \in [Node -> Seq16] /\ replays \in [Node -> 0 .. MaxReplays + 1]
  /\ state \in [Node -> {"IDLE", "TX", "RX"}] /\ noise \in [Node -> Int]
  /\ sends \in [Node -> 0 .. MaxSends] /\ pulses \in 0 .. MaxPulses
  /\ accepted \subseteq Frame /\ delivered \subseteq Frame
  /\ acked \subseteq Frame /\ failed \subseteq Frame

(***************************************************************************)
(* An acknowledgement callback tells the truth: the data frame it is about *)
(* was forwarded up at its destination.  DoProcess accepts an ACK by its   *)
(* sequence number alone, from whatever node and however late it comes.    *)
(***************************************************************************)
AckSound == acked \subseteq delivered

(***************************************************************************)
(* The application hears at most one outcome of a frame: it is reported    *)
(* acknowledged or failed, never both and never twice, whatever timers and *)
(* late acknowledgements are still under way.                              *)
(***************************************************************************)
OutcomeOnce ==
  /\ acked \cap failed = {}
  /\ \A n \in Node : awaiting_ack[n] => txPacket[n] \in accepted \ (acked \cup failed)

Pending(kinds, n) == {y \in agenda : y.ev.kind \in kinds /\ y.ev.node = n}

(***************************************************************************)
(* The PHY's state is backed by exactly one event that will end it, and by *)
(* no event of another state: the assertions GetState() == RX in           *)
(* PreambleDetectionSuccessful and EndRxHeader, and the channel's that a   *)
(* transmitter is not transmitting already, cannot fail, and no late       *)
(* ChangeState(IDLE) ends a transmission or a reception it is not for.     *)
(***************************************************************************)
PhyFollowsAgenda ==
  \A n \in Node :
    LET tx == Cardinality(Pending({"txEnd"}, n))
        rx == Cardinality(Pending(Reception, n))
    IN  /\ tx = IF state[n] = "TX" THEN 1 ELSE 0
        /\ rx = IF state[n] = "RX" THEN 1 ELSE 0

(***************************************************************************)
(* Every interference signal added will be removed, once: when nothing is  *)
(* pending the power seen by a CCA is back to where it started.            *)
(***************************************************************************)
NoiseBalanced == \A n \in Node : noise[n] = Cardinality(Pending({"removeNoise"}, n))

(***************************************************************************)
(* While a node waits for an acknowledgement exactly one event carries its *)
(* frame on: a step of CSMA/CA, the end of the transmission or the timer.  *)
(* With none the node would refuse every further frame for ever; with two  *)
(* it would run two CSMA/CA procedures over one set of variables.          *)
(***************************************************************************)
OneStepPending ==
  \A n \in Sources : awaiting_ack[n] =>
    Cardinality(Pending({"startCsma", "backoff", "requestCca", "endCca", "csmaIdle",
                         "csmaFailure", "txEnd", "timeout", "oldTimeout"}, n)) = 1

(***************************************************************************)
(* A frame whose acknowledgement was received is not sent again: what is   *)
(* left of the agenda holds no CSMA/CA procedure without a frame to send.  *)
(***************************************************************************)
NothingAfterOutcome ==
  \A n \in Sources : ~ awaiting_ack[n] => Pending(Kind \ {"removeNoise", "startRx"}, n) = {}

(***************************************************************************)
(* Every data frame the MAC accepted is eventually reported acknowledged   *)
(* or failed ("Callback for failed data transmission", plc-mac.h).         *)
(***************************************************************************)
Resolved ==
  \A n, d \in Node, s \in Seq16 :
    LET f == [type |-> "DATA", src |-> n, dst |-> d, seq |-> s]
    IN  f \in accepted ~> f \in acked \cup failed

(***************************************************************************)
(* The MAC implements the service of PlcDelivery: what a node is waiting   *)
(* for is the frame m_txPacket holds while m_awaiting_ack is set.          *)
(***************************************************************************)
Outstanding == [n \in Node |-> IF awaiting_ack[n] THEN txPacket[n] ELSE NoFrame]
Service == INSTANCE PlcDelivery WITH outstanding <- Outstanding

(* Every step of DoSendFrom, DoProcess and AcknowledgementTimeout, and of  *)
(* all that happens in between, is one the service allows, or none.        *)
ImplementsService == Service!Spec

(* A frame is replayed at most m_max_replays times before AcknowledgementTimeout *)
(* reports "Maximum replays reached, transmission failed!".                *)
ReplaysWithinMax == \A n \in Node : replays[n] <= MaxReplays

---------------------------------------------------------------------------
(***************************************************************************)
(* The inductive invariant behind the theorems of PlcArqNetworkProofs.     *)
(***************************************************************************)
(* Where a frame may come from: a data frame was accepted from an          *)
(* application, an acknowledgement answers a data frame that was delivered.*)
KnownFrame(f, acc, del) ==
  \/ f = NoFrame
  \/ f \in Frame /\ f.type = "DATA" /\ f \in acc
  \/ f \in Frame /\ f.type = "ACK" /\ \E g \in del : g.src = f.dst /\ g.seq = f.seq

Accounted(A, acc, del) ==
  \A y \in A : y.due \in Nat /\ y.ev \in Event /\ KnownFrame(y.ev.frame, acc, del)

(* How many sequence numbers ago s was given out, if the next one is sn.   *)
Age(s, sn) == IF s < sn THEN sn - s ELSE sn + SeqMod - s

(* No sequence number is older than the number of frames accepted, hence   *)
(* none is in use when it is given out again.                              *)
NumbersFresh ==
  \A f \in accepted : f.type = "DATA" /\ Age(f.seq, sequence_number[f.src]) \in 1 .. sends[f.src]

NumbersUnique == \A f, g \in accepted : f.src = g.src /\ f.seq = g.seq => f = g

OwnFrame == \A n \in Node : awaiting_ack[n] => txPacket[n].src = n

FramesOK ==
  /\ Accounted(agenda, accepted, delivered)
  /\ \A n \in Node : KnownFrame(txPacket[n], accepted, delivered)
  /\ delivered \subseteq accepted /\ failed \subseteq accepted

IInv ==
  /\ TypeOK /\ FramesOK /\ NumbersFresh /\ NumbersUnique /\ OwnFrame
  /\ AckSound /\ OutcomeOnce

(* The agenda A backs the PHYs' states s and the interference z they count.*)
Backed(A, s, z) ==
  /\ Ranked(A)
  /\ s \in [Node -> {"IDLE", "TX", "RX"}] /\ z \in [Node -> Int]
  /\ \A n \in Node : /\ Count(A, {"txEnd"}, n) = IF s[n] = "TX" THEN 1 ELSE 0
                     /\ Count(A, Reception, n) = IF s[n] = "RX" THEN 1 ELSE 0
                     /\ Count(A, {"removeNoise"}, n) = z[n]

(* The inductive invariant behind the theorems of PlcPhyProofs.            *)
PhyInv == Backed(agenda, state, noise)
=============================================================================
