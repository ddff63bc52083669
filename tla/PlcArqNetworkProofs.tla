------------------------ MODULE PlcArqNetworkProofs ------------------------
(***************************************************************************)
(* Proofs about the network of ARQ devices, for any number of nodes, any   *)
(* timing, any loss and any number of frames up to the point where a       *)
(* sequence number is given out twice (MaxSends <= SeqMod).                *)
(***************************************************************************)
EXTENDS PlcArqNetwork, TLAPS

USE NodeAssumption, SeqAssumption, CsmaAssumption, TimeAssumption, NoFrameAssumption

---------------------------------------------------------------------------
(* What the operations on the agenda keep: every entry is due in the       *)
(* future and its frame is accounted for.                                  *)
LEMMA AddAccounted ==
  ASSUME NEW A, NEW acc, NEW del, Accounted(A, acc, del),
         NEW due \in Nat, NEW ev \in Event, KnownFrame(ev.frame, acc, del)
  PROVE  Accounted(Add(A, due, ev), acc, del)
<1> SUFFICES ASSUME NEW y \in Add(A, due, ev)
             PROVE  y.due \in Nat /\ y.ev \in Event /\ KnownFrame(y.ev.frame, acc, del)
  BY DEF Accounted
<1>1. CASE y \in A
  BY <1>1 DEF Accounted
<1>2. CASE y = Entry(due, DueIn(A, due), ev)
  BY <1>2 DEF Entry
<1> QED BY <1>1, <1>2 DEF Add

(* An event without a frame is accounted for.                              *)
LEMMA AddPlain ==
  ASSUME NEW A, NEW acc, NEW del, Accounted(A, acc, del),
         NEW due \in Nat, NEW kind \in Kind \ Reception, NEW n \in Node
  PROVE  Accounted(Add(A, due, Ev(kind, n)), acc, del)
<1>1. Ev(kind, n) \in Event /\ KnownFrame(Ev(kind, n).frame, acc, del)
  BY DEF Ev, Event, KnownFrame
<1> QED BY <1>1, AddAccounted

(* Time passes no further than to the earliest entry.                      *)
LEMMA ElapseAccounted ==
  ASSUME NEW A, NEW acc, NEW del, Accounted(A, acc, del),
         NEW t \in Nat, MayElapse(A, t)
  PROVE  Accounted(Elapse(A, t), acc, del)
<1> SUFFICES ASSUME NEW y \in Elapse(A, t)
             PROVE  y.due \in Nat /\ y.ev \in Event /\ KnownFrame(y.ev.frame, acc, del)
  BY DEF Accounted
<1>1. PICK z \in A : y = Entry(z.due - t, z.ord, z.ev)
  BY DEF Elapse
<1>2. z.due \in Nat /\ t <= z.due /\ z.ev \in Event /\ KnownFrame(z.ev.frame, acc, del)
  BY DEF Accounted, MayElapse
<1>3. y.due = z.due - t /\ y.ev = z.ev
  BY <1>1 DEF Entry
<1> QED BY <1>2, <1>3

(* Taking entries off the agenda.                                          *)
LEMMA WithoutAccounted ==
  ASSUME NEW A, NEW acc, NEW del, Accounted(A, acc, del), NEW gone
  PROVE  /\ Accounted(Without(A, gone), acc, del)
         /\ \A y \in Without(A, gone) : \E z \in A : y.due = z.due
<1> SUFFICES ASSUME NEW y \in Without(A, gone)
             PROVE  /\ y.due \in Nat /\ y.ev \in Event /\ KnownFrame(y.ev.frame, acc, del)
                    /\ \E z \in A : y.due = z.due
  BY DEF Accounted
<1>1. PICK z \in A : \E k : y = Entry(z.due, k, z.ev)
  BY DEF Without
<1>2. y.due = z.due /\ y.ev = z.ev
  BY <1>1 DEF Entry
<1> QED BY <1>2 DEF Accounted

(* Taking the head off the agenda.                                         *)
LEMMA PopAccounted ==
  ASSUME NEW A, NEW acc, NEW del, Accounted(A, acc, del), NEW x, IsHead(A, x)
  PROVE  Accounted(Pop(A, x), acc, del)
<1>1. x \in A /\ x.due \in Nat
  BY DEF IsHead, Accounted
<1>2. \A z \in A : z.due \in Nat /\ x.due <= z.due
  BY <1>1 DEF IsHead, Accounted
<1>3. MayElapse(Without(A, {x}), x.due)
  BY <1>2, WithoutAccounted DEF MayElapse
<1> QED BY <1>1, <1>3, WithoutAccounted, ElapseAccounted DEF Pop

(* One signal for every node in reach.                                     *)
LEMMA AddForEachAccounted ==
  ASSUME NEW A, NEW acc, NEW del, Accounted(A, acc, del),
         NEW f, KnownFrame(f, acc, del), NEW kind \in Kind \ Reception, NEW n \in Node,
         NEW D \in [Node -> Nat]
  PROVE  Accounted(AddForEach(A, [m \in Node \ {n} |-> RxEv(kind, m, f)], D), acc, del)
<1> DEFINE E == [m \in Node \ {n} |-> RxEv(kind, m, f)]
<1> SUFFICES ASSUME NEW y \in AddForEach(A, E, D)
             PROVE  y.due \in Nat /\ y.ev \in Event /\ KnownFrame(y.ev.frame, acc, del)
  BY DEF Accounted
<1>1. CASE y \in A
  BY <1>1 DEF Accounted
<1>2. CASE y \notin A
  <2>1. PICK m \in Node \ {n} : \E k : y = Entry(D[m], k, RxEv(kind, m, f))
    BY <1>2 DEF AddForEach
  <2>2. f \in Frame \cup {NoFrame}
    BY DEF KnownFrame
  <2>3. y.due = D[m] /\ y.ev = RxEv(kind, m, f)
    BY <2>1 DEF Entry
  <2>4. y.ev \in Event /\ y.ev.frame = f
    BY <2>2, <2>3 DEF RxEv, Event
  <2>5. D[m] \in Nat
    OBVIOUS
  <2> QED BY <2>3, <2>4, <2>5
<1> QED BY <1>1, <1>2

(* A superseded timer stays a timer.                                       *)
LEMMA SupersededAccounted ==
  ASSUME NEW A, NEW acc, NEW del, Accounted(A, acc, del), NEW n \in Node
  PROVE  Accounted(Superseded(A, n), acc, del)
<1> SUFFICES ASSUME NEW y \in Superseded(A, n)
             PROVE  y.due \in Nat /\ y.ev \in Event /\ KnownFrame(y.ev.frame, acc, del)
  BY DEF Accounted
<1>1. PICK z \in A : y = z \/ y = Entry(z.due, z.ord, Ev("oldTimeout", n))
  BY DEF Superseded
<1>2. CASE y = z
  BY <1>2 DEF Accounted
<1>3. CASE y = Entry(z.due, z.ord, Ev("oldTimeout", n))
  <2>1. y.due = z.due /\ y.ev = Ev("oldTimeout", n)
    BY <1>3 DEF Entry
  <2> QED BY <2>1 DEF Accounted, Ev, Event, Kind, Reception, KnownFrame
<1> QED BY <1>1, <1>2, <1>3

(* More accepted and more delivered frames account for no less.            *)
LEMMA AccountedGrows ==
  ASSUME NEW A, NEW acc, NEW del, NEW acc2, NEW del2,
         acc \subseteq acc2, del \subseteq del2
  PROVE  /\ Accounted(A, acc, del) => Accounted(A, acc2, del2)
         /\ \A f : KnownFrame(f, acc, del) => KnownFrame(f, acc2, del2)
<1>1. \A f : KnownFrame(f, acc, del) => KnownFrame(f, acc2, del2)
  BY DEF KnownFrame
<1> QED BY <1>1 DEF Accounted

(* A frame's time on the air is a number.                                  *)
LEMMA TimesAreNat ==
  \A f : PayloadTime(f) \in Nat /\ AirTime(f) \in Nat
BY DEF PayloadTime, AirTime

---------------------------------------------------------------------------
(* The invariant beyond the types.                                         *)
Rest == FramesOK /\ NumbersFresh /\ NumbersUnique /\ OwnFrame /\ AckSound /\ OutcomeOnce

(* A step of CSMA/CA or of the PHY, which touches neither the state of the *)
(* ARQ nor the history, need only account for what it schedules.           *)
LEMMA QuietStep ==
  ASSUME IInv, UNCHANGED <<arq, history, bounds>>,
         Accounted(agenda', accepted, delivered)
  PROVE  Rest'
<1> USE DEF arq, history, bounds
<1>1. FramesOK'
  BY DEF IInv, FramesOK
<1>2. NumbersFresh' /\ NumbersUnique'
  BY DEF IInv, NumbersFresh, NumbersUnique
<1>3. OwnFrame' /\ AckSound' /\ OutcomeOnce'
  BY DEF IInv, OwnFrame, AckSound, OutcomeOnce
<1> QED BY <1>1, <1>2, <1>3 DEF Rest

(* The head of the agenda, and what is left once it has been taken off.    *)
LEMMA HeadFacts ==
  ASSUME IInv, NEW x, IsHead(agenda, x)
  PROVE  /\ x.ev \in Event /\ x.ev.node \in Node
         /\ KnownFrame(x.ev.frame, accepted, delivered)
         /\ Accounted(After(x), accepted, delivered)
<1>1. Accounted(agenda, accepted, delivered)
  BY DEF IInv, FramesOK
<1>2. x \in agenda
  BY DEF IsHead
<1>3. Accounted(After(x), accepted, delivered)
  BY <1>1, PopAccounted DEF After
<1>4. x.ev \in Event /\ KnownFrame(x.ev.frame, accepted, delivered)
  BY <1>1, <1>2 DEF Accounted
<1> QED BY <1>3, <1>4 DEF Event

(* A frame that is accounted for is sent, ...                              *)
LEMMA SendFrameFacts ==
  ASSUME IInv, NEW n \in Node, NEW f, KnownFrame(f, accepted, delivered),
         NEW kind \in Kind \ Reception, NEW d \in Nat,
         NEW A, Accounted(A, accepted, delivered), SendFrame(n, f, kind, d, A)
  PROVE  /\ Accounted(agenda', accepted, delivered)
         /\ state' \in [Node -> {"IDLE", "TX", "RX"}]
<1>1. state \in [Node -> {"IDLE", "TX", "RX"}]
  BY DEF IInv, TypeOK
<1> DEFINE B == AddForEach(A, [m \in Node \ {n} |-> RxEv(kind, m, f)], Delay[n])
<1>2. Accounted(B, accepted, delivered)
  BY AddForEachAccounted
<1>3. state' = [state EXCEPT ![n] = "TX"] /\ agenda' = Add(B, d, Ev("txEnd", n))
  BY DEF SendFrame
<1> HIDE DEF B
<1>4. "txEnd" \in Kind \ Reception
  BY DEF Kind, Reception
<1>5. Accounted(agenda', accepted, delivered)
  BY <1>2, <1>3, <1>4, AddPlain
<1> QED BY <1>1, <1>3, <1>5

(* ... as by StartTx, which may do nothing.                                *)
LEMMA StartTxFacts ==
  ASSUME IInv, NEW n \in Node, NEW A, Accounted(A, accepted, delivered), StartTx(n, A)
  PROVE  /\ Accounted(agenda', accepted, delivered)
         /\ state' \in [Node -> {"IDLE", "TX", "RX"}]
<1>1. CASE state[n] = "IDLE" /\ txPacket[n] # NoFrame
  <2>1. KnownFrame(txPacket[n], accepted, delivered) /\ "startRx" \in Kind \ Reception
    BY DEF IInv, FramesOK, Kind, Reception
  <2>2. SendFrame(n, txPacket[n], "startRx", AirTime(txPacket[n]), A)
    BY <1>1 DEF StartTx
  <2> QED BY <2>1, <2>2, SendFrameFacts, TimesAreNat
<1>2. CASE ~ (state[n] = "IDLE" /\ txPacket[n] # NoFrame)
  BY <1>2 DEF StartTx, IInv, TypeOK
<1> QED BY <1>1, <1>2

(* The variables of CSMA/CA stay in their types when it starts.            *)
LEMMA StartCsmaCaTypes ==
  ASSUME TypeOK, NEW n \in Node, StartCsmaCa(n)
  PROVE  /\ csmaca_active' \in [Node -> BOOLEAN] /\ NB' \in [Node -> Nat]
         /\ BE' \in [Node -> Nat] /\ csmaca_attempts' \in [Node -> 0 .. MaxAttempts]
BY DEF TypeOK, StartCsmaCa

(* The types of what CSMA/CA and the PHY own.                              *)
LowTypes ==
  /\ csmaca_active \in [Node -> BOOLEAN] /\ NB \in [Node -> Nat]
  /\ BE \in [Node -> Nat] /\ csmaca_attempts \in [Node -> 0 .. MaxAttempts]
  /\ state \in [Node -> {"IDLE", "TX", "RX"}] /\ noise \in [Node -> Int]

(* A quiet step keeps the whole invariant if it keeps those types.         *)
LEMMA QuietInv ==
  ASSUME IInv, UNCHANGED <<arq, history, bounds>>,
         Accounted(agenda', accepted, delivered), LowTypes'
  PROVE  IInv'
<1>1. Rest'
  BY QuietStep
<1>2. \A y \in agenda' : y.due \in Nat /\ y.ev \in Event
  BY DEF Accounted
<1>3. TypeOK'
  BY <1>2 DEF IInv, TypeOK, LowTypes, arq, history, bounds
<1> QED BY <1>1, <1>3 DEF IInv, Rest

---------------------------------------------------------------------------
(* The steps of CSMA/CA.                                                   *)
LEMMA CsmaSteps ==
  ASSUME IInv, NEW x,
         RestartCsmaCa(x) \/ RandomBackoffDelay(x) \/ RequestCca(x) \/ EndCca(x)
         \/ CsmaCaIdle(x) \/ CsmaCaFailure(x)
  PROVE  IInv'
<1> DEFINE n == x.ev.node
<1>h. IsHead(agenda, x)
  BY DEF RestartCsmaCa, RandomBackoffDelay, RequestCca, EndCca, CsmaCaIdle, CsmaCaFailure, Due
<1>1. n \in Node /\ Accounted(After(x), accepted, delivered)
  BY <1>h, HeadFacts
<1>2. LowTypes /\ TypeOK
  BY DEF IInv, TypeOK, LowTypes
<1>k. {"backoff", "requestCca", "endCca", "csmaIdle", "csmaFailure", "startCsma"}
        \subseteq Kind \ Reception
  BY DEF Kind, Reception
<1>p. ASSUME NEW due \in Nat, NEW kind \in Kind \ Reception, agenda' = Add(After(x), due, Ev(kind, n))
      PROVE  Accounted(agenda', accepted, delivered)
  BY <1>1, <1>p, AddPlain
<1> HIDE DEF n
<1>3. CASE RestartCsmaCa(x)
  <2>1. StartCsmaCa(n) /\ agenda' = Add(After(x), 0, Ev("backoff", n))
        /\ UNCHANGED <<arq, phy, history, bounds>>
    BY <1>3 DEF RestartCsmaCa, n
  <2>2. LowTypes'
    BY <1>1, <1>2, <2>1, StartCsmaCaTypes DEF LowTypes, phy
  <2> QED BY <1>k, <1>p, <2>1, <2>2, QuietInv
<1>4. CASE RandomBackoffDelay(x)
  <2>1. PICK b \in Backoffs(BE[n]) : agenda' = Add(After(x), b * UnitBackoff, Ev("requestCca", n))
    BY <1>4 DEF RandomBackoffDelay, n
  <2>2. b * UnitBackoff \in Nat
    <3>1. b \in Nat
      BY DEF Backoffs
    <3> QED BY <3>1
  <2>3. UNCHANGED <<csma, arq, phy, history, bounds>>
    BY <1>4 DEF RandomBackoffDelay
  <2>4. LowTypes'
    BY <1>2, <2>3 DEF LowTypes, csma, phy
  <2> QED BY <1>k, <1>p, <2>1, <2>2, <2>3, <2>4, QuietInv
<1>5. CASE RequestCca(x)
  <2>1. agenda' = Add(After(x), CcaTime, Ev("endCca", n)) /\ UNCHANGED <<csma, arq, phy, history, bounds>>
    BY <1>5 DEF RequestCca, n
  <2>2. LowTypes'
    BY <1>2, <2>1 DEF LowTypes, csma, phy
  <2> QED BY <1>k, <1>p, <2>1, <2>2, QuietInv
<1>6. CASE EndCca(x)
  <2>0. UNCHANGED <<arq, history, bounds>>
    BY <1>6 DEF EndCca
  <2>1. CASE agenda' = Add(After(x), 0, Ev("csmaIdle", n)) /\ UNCHANGED <<csma, phy>>
    <3>1. LowTypes'
      BY <1>2, <2>1 DEF LowTypes, csma, phy
    <3> QED BY <1>k, <1>p, <2>0, <2>1, <3>1, QuietInv
  <2>2. CASE /\ BE' = [BE EXCEPT ![n] = IF @ + 1 < MaxBE THEN @ + 1 ELSE MaxBE]
             /\ NB' = [NB EXCEPT ![n] = NB[n] + 1]
             /\ agenda' = Add(After(x), 0, Ev(AfterBusy(NB[n] + 1), n))
             /\ UNCHANGED <<csmaca_active, csmaca_attempts, phy>>
    <3>1. AfterBusy(NB[n] + 1) \in Kind \ Reception
      BY <1>k DEF AfterBusy
    <3>2. BE' \in [Node -> Nat] /\ NB' \in [Node -> Nat]
      BY <1>1, <1>2, <2>2 DEF LowTypes
    <3>3. LowTypes'
      BY <1>2, <2>2, <3>2 DEF LowTypes, phy
    <3> QED BY <1>p, <2>0, <2>2, <3>1, <3>3, QuietInv
  <2>3. CASE StartTx(n, After(x)) /\ UNCHANGED <<csma, noise>>
    <3>1. /\ Accounted(agenda', accepted, delivered)
          /\ state' \in [Node -> {"IDLE", "TX", "RX"}]
      BY <1>1, <2>3, StartTxFacts
    <3>2. LowTypes'
      BY <1>2, <2>3, <3>1 DEF LowTypes, csma
    <3> QED BY <2>0, <3>1, <3>2, QuietInv
  <2>4. CASE agenda' = After(x) /\ UNCHANGED <<csma, phy>>
    <3>1. LowTypes'
      BY <1>2, <2>4 DEF LowTypes, csma, phy
    <3> QED BY <1>1, <2>0, <2>4, <3>1, QuietInv
  <2> QED BY <1>6, <2>1, <2>2, <2>3, <2>4 DEF EndCca, CcaConfirm, NotifyCcaConfirm, csma, phy, n
<1>7. CASE CsmaCaIdle(x)
  <2>1. /\ csmaca_active' = [csmaca_active EXCEPT ![n] = FALSE] /\ StartTx(n, After(x))
        /\ UNCHANGED <<NB, BE, csmaca_attempts, arq, noise, history, bounds>>
    BY <1>7 DEF CsmaCaIdle, n
  <2>2. /\ Accounted(agenda', accepted, delivered)
        /\ state' \in [Node -> {"IDLE", "TX", "RX"}]
    BY <1>1, <2>1, StartTxFacts
  <2>3. csmaca_active' \in [Node -> BOOLEAN]
    BY <1>2, <2>1 DEF LowTypes
  <2>4. LowTypes'
    BY <1>2, <2>1, <2>2, <2>3 DEF LowTypes
  <2> QED BY <2>1, <2>2, <2>4, QuietInv
<1>8. CASE CsmaCaFailure(x)
  <2>1. /\ csmaca_active' = [csmaca_active EXCEPT ![n] = FALSE]
        /\ UNCHANGED <<NB, BE, arq, phy, history, bounds>>
    BY <1>8 DEF CsmaCaFailure, n
  <2>2. /\ Accounted(agenda', accepted, delivered)
        /\ csmaca_attempts' \in [Node -> 0 .. MaxAttempts]
    <3>1. csmaca_attempts \in [Node -> 0 .. MaxAttempts]
      BY <1>2 DEF LowTypes
    <3>2. CASE csmaca_attempts[n] < MaxAttempts
      <4>1. /\ csmaca_attempts' = [csmaca_attempts EXCEPT ![n] = @ + 1]
            /\ agenda' = Add(After(x), 0, Ev("startCsma", n))
        BY <1>8, <3>2 DEF CsmaCaFailure, n
      <4> QED BY <1>1, <1>k, <1>p, <3>1, <3>2, <4>1
    <3>3. CASE ~ (csmaca_attempts[n] < MaxAttempts)
      <4>1. /\ csmaca_attempts' = [csmaca_attempts EXCEPT ![n] = 0]
            /\ agenda' = After(x)
        BY <1>8, <3>3 DEF CsmaCaFailure, n
      <4> QED BY <1>1, <3>1, <4>1
    <3> QED BY <3>2, <3>3
  <2>3. csmaca_active' \in [Node -> BOOLEAN]
    BY <1>2, <2>1 DEF LowTypes
  <2>4. LowTypes'
    BY <1>2, <2>1, <2>2, <2>3 DEF LowTypes, phy
  <2> QED BY <2>1, <2>2, <2>4, QuietInv
<1> QED BY <1>3, <1>4, <1>5, <1>6, <1>7, <1>8

---------------------------------------------------------------------------
(* Interference changes the count of signals and schedules its end.        *)
LEMMA InterfereFacts ==
  ASSUME IInv, NEW n \in Node, NEW d \in Nat, NEW A, Accounted(A, accepted, delivered),
         Interfere(n, d, A)
  PROVE  Accounted(agenda', accepted, delivered) /\ noise' \in [Node -> Int]
<1>1. noise \in [Node -> Int]
  BY DEF IInv, TypeOK
<1>2. noise' \in [Node -> Int]
  BY <1>1 DEF Interfere
<1>3. "removeNoise" \in Kind \ Reception
  BY DEF Kind, Reception
<1>4. Accounted(agenda', accepted, delivered)
  BY <1>3, AddPlain DEF Interfere
<1> QED BY <1>2, <1>4

(* The next step of a reception carries the frame of the step before.      *)
LEMMA AddRx ==
  ASSUME NEW A, NEW acc, NEW del, Accounted(A, acc, del),
         NEW due \in Nat, NEW kind \in Kind, NEW n \in Node, NEW f, KnownFrame(f, acc, del),
         f # NoFrame
  PROVE  Accounted(Add(A, due, RxEv(kind, n, f)), acc, del)
<1>1. f \in Frame \cup {NoFrame}
  BY DEF KnownFrame
<1>2. RxEv(kind, n, f) \in Event /\ RxEv(kind, n, f).frame = f
  BY <1>1 DEF RxEv, Event
<1> QED BY <1>2, AddAccounted

(* The steps of the PHY other than the end of a payload.                   *)
LEMMA PhySteps ==
  ASSUME IInv, NEW x,
         FrameSent(x) \/ StartRx(x) \/ PreambleDetectionSuccessful(x) \/ EndRxHeader(x)
         \/ RemoveNoiseSignal(x)
  PROVE  IInv'
<1> DEFINE n == x.ev.node
           f == x.ev.frame
<1>h. IsHead(agenda, x)
  BY DEF FrameSent, StartRx, PreambleDetectionSuccessful, EndRxHeader, RemoveNoiseSignal, Due
<1>1. /\ n \in Node /\ Accounted(After(x), accepted, delivered)
      /\ KnownFrame(f, accepted, delivered)
  BY <1>h, HeadFacts
<1>2. LowTypes
  BY DEF IInv, TypeOK, LowTypes
<1>k. "timeout" \in Kind \ Reception /\ Reception \subseteq Kind
  BY DEF Kind, Reception
<1>r. x.ev.kind \in Reception => f # NoFrame
  BY <1>h, HeadFacts DEF Event
<1> HIDE DEF n, f
<1>3. CASE FrameSent(x)
  <2>1. /\ state' = [state EXCEPT ![n] = "IDLE"]
        /\ \/ agenda' = Add(Superseded(After(x), n), AckTimeout, Ev("timeout", n))
           \/ agenda' = After(x)
        /\ UNCHANGED <<csma, arq, noise, history, bounds>>
    BY <1>3 DEF FrameSent, n
  <2>2. Accounted(Superseded(After(x), n), accepted, delivered)
    BY <1>1, SupersededAccounted
  <2>3. Accounted(agenda', accepted, delivered)
    BY <1>1, <1>k, <2>1, <2>2, AddPlain
  <2>4. state' \in [Node -> {"IDLE", "TX", "RX"}]
    BY <1>2, <2>1 DEF LowTypes
  <2>5. LowTypes'
    BY <1>2, <2>1, <2>4 DEF LowTypes, csma
  <2> QED BY <2>1, <2>3, <2>5, QuietInv
<1>4. CASE StartRx(x)
  <2>0. UNCHANGED <<csma, arq, history, bounds>>
    BY <1>4 DEF StartRx
  <2>1. CASE /\ f # NoFrame /\ state' = [state EXCEPT ![n] = "RX"]
             /\ agenda' = Add(After(x), PreambleTime, RxEv("preamble", n, f))
             /\ UNCHANGED noise
    <3>1. Accounted(agenda', accepted, delivered)
      BY <1>1, <1>k, <2>1, AddRx DEF Reception
    <3>2. state' \in [Node -> {"IDLE", "TX", "RX"}]
      BY <1>2, <2>1 DEF LowTypes
    <3>3. LowTypes'
      BY <1>2, <2>0, <2>1, <3>2 DEF LowTypes, csma
    <3> QED BY <2>0, <3>1, <3>3, QuietInv
  <2>2. CASE /\ Interfere(n, IF f = NoFrame THEN PulseTime ELSE AirTime(f), After(x))
             /\ UNCHANGED state
    <3>1. (IF f = NoFrame THEN PulseTime ELSE AirTime(f)) \in Nat
      BY TimesAreNat
    <3>2. Accounted(agenda', accepted, delivered) /\ noise' \in [Node -> Int]
      BY <1>1, <2>2, <3>1, InterfereFacts
    <3>3. LowTypes'
      BY <1>2, <2>0, <2>2, <3>2 DEF LowTypes, csma
    <3> QED BY <2>0, <3>2, <3>3, QuietInv
  <2> QED BY <1>4, <2>1, <2>2 DEF StartRx, CanLock, n, f
<1>5. CASE PreambleDetectionSuccessful(x)
  <2>1. /\ agenda' = Add(After(x), HeaderTime, RxEv("rxHeader", n, f))
        /\ UNCHANGED <<csma, arq, phy, history, bounds>>
    BY <1>5 DEF PreambleDetectionSuccessful, n, f
  <2>r. f # NoFrame
    BY <1>5, <1>r DEF PreambleDetectionSuccessful, Due, Reception
  <2>2. Accounted(agenda', accepted, delivered)
    BY <1>1, <1>k, <2>1, <2>r, AddRx DEF Reception
  <2>3. LowTypes'
    BY <1>2, <2>1 DEF LowTypes, csma, phy
  <2> QED BY <2>1, <2>2, <2>3, QuietInv
<1>6. CASE EndRxHeader(x)
  <2>0. UNCHANGED <<csma, arq, history, bounds>>
    BY <1>6 DEF EndRxHeader
  <2>r. f # NoFrame
    BY <1>6, <1>r DEF EndRxHeader, Due, Reception
  <2>1. CASE /\ agenda' = Add(After(x), PayloadTime(f), RxEv("rxPayload", n, f))
             /\ UNCHANGED phy
    <3>1. Accounted(agenda', accepted, delivered)
      BY <1>1, <1>k, <2>1, <2>r, AddRx, TimesAreNat DEF Reception
    <3>2. LowTypes'
      BY <1>2, <2>0, <2>1 DEF LowTypes, csma, phy
    <3> QED BY <2>0, <3>1, <3>2, QuietInv
  <2>2. CASE Interfere(n, PayloadTime(f), After(x)) /\ state' = [state EXCEPT ![n] = "IDLE"]
    <3>1. Accounted(agenda', accepted, delivered) /\ noise' \in [Node -> Int]
      BY <1>1, <2>2, InterfereFacts, TimesAreNat
    <3>2. state' \in [Node -> {"IDLE", "TX", "RX"}]
      BY <1>2, <2>2 DEF LowTypes
    <3>3. LowTypes'
      BY <1>2, <2>0, <3>1, <3>2 DEF LowTypes, csma
    <3> QED BY <2>0, <3>1, <3>3, QuietInv
  <2> QED BY <1>6, <2>1, <2>2 DEF EndRxHeader, n, f
<1>7. CASE RemoveNoiseSignal(x)
  <2>1. /\ noise' = [noise EXCEPT ![n] = @ - 1] /\ agenda' = After(x)
        /\ UNCHANGED <<csma, arq, state, history, bounds>>
    BY <1>7 DEF RemoveNoiseSignal, n
  <2>2. noise' \in [Node -> Int]
    BY <1>1, <1>2, <2>1 DEF LowTypes
  <2>3. LowTypes'
    BY <1>2, <2>1, <2>2 DEF LowTypes, csma
  <2> QED BY <1>1, <2>1, <2>3, QuietInv
<1> QED BY <1>3, <1>4, <1>5, <1>6, <1>7

(* A noise pulse brings a signal without a frame.                          *)
LEMMA PulseStep ==
  ASSUME IInv, NEW n \in Node, NEW t \in Nat, PulseStart(n, t)
  PROVE  IInv'
<1>1. /\ MayElapse(agenda, t) /\ pulses < MaxPulses /\ pulses' = pulses + 1
      /\ agenda' = Add(Elapse(agenda, t), 0, Ev("startRx", n))
      /\ UNCHANGED <<csma, arq, phy, history, sends>>
  BY DEF PulseStart
<1>2. Accounted(agenda, accepted, delivered) /\ "startRx" \in Kind \ Reception
  BY DEF IInv, FramesOK, Kind, Reception
<1>3. Accounted(agenda', accepted, delivered)
  BY <1>1, <1>2, ElapseAccounted, AddPlain
<1>4. \A y \in agenda' : y.due \in Nat /\ y.ev \in Event
  BY <1>3 DEF Accounted
<1>5. pulses' \in 0 .. MaxPulses
  BY <1>1 DEF IInv, TypeOK
<1>6. TypeOK'
  BY <1>1, <1>4, <1>5 DEF IInv, TypeOK, csma, arq, phy, history
<1>7. FramesOK'
  BY <1>1, <1>3 DEF IInv, FramesOK, arq, history
<1>8. NumbersFresh' /\ NumbersUnique'
  BY <1>1 DEF IInv, NumbersFresh, NumbersUnique, arq, history
<1>9. OwnFrame' /\ AckSound' /\ OutcomeOnce'
  BY <1>1 DEF IInv, OwnFrame, AckSound, OutcomeOnce, arq, history
<1> QED BY <1>6, <1>7, <1>8, <1>9 DEF IInv

---------------------------------------------------------------------------
(* The numbering of frames: the number given to a new frame is carried by  *)
(* no frame of the same node, since none is SeqMod numbers old.            *)
LEMMA NewNumber ==
  ASSUME IInv, NEW n \in Node, NEW d \in Node, DoSendFrom(n, d)
  PROVE  /\ NewData(n, d) \in Frame /\ NewData(n, d) \notin accepted
         /\ sequence_number' \in [Node -> Seq16] /\ sends' \in [Node -> 0 .. MaxSends]
         /\ replays' \in [Node -> 0 .. MaxReplays + 1]
         /\ accepted' = accepted \cup {NewData(n, d)}
         /\ NumbersFresh' /\ NumbersUnique'
<1> DEFINE new == NewData(n, d)
           sn == sequence_number[n]
<1>1. /\ sends[n] < MaxSends /\ accepted' = accepted \cup {new}
      /\ sequence_number' = [sequence_number EXCEPT ![n] = NextSeq(sn)]
      /\ replays' = [replays EXCEPT ![n] = 0]
      /\ sends' = [sends EXCEPT ![n] = sends[n] + 1]
  BY DEF DoSendFrom
<1>2. /\ sequence_number \in [Node -> Seq16] /\ sends \in [Node -> 0 .. MaxSends]
      /\ replays \in [Node -> 0 .. MaxReplays + 1] /\ accepted \subseteq Frame
      /\ NumbersFresh /\ NumbersUnique
  BY DEF IInv, TypeOK
<1>3. sn \in 0 .. SeqMod - 1
  BY <1>2 DEF Seq16
<1>4. /\ new \in Frame /\ new.type = "DATA" /\ new.src = n /\ new.seq = sn
  BY <1>2 DEF NewData, Frame
<1>5. NextSeq(sn) \in 0 .. SeqMod - 1
  BY <1>3 DEF NextSeq
<1>6. /\ sequence_number' \in [Node -> Seq16] /\ sends' \in [Node -> 0 .. MaxSends]
      /\ replays' \in [Node -> 0 .. MaxReplays + 1]
  BY <1>1, <1>2, <1>5 DEF Seq16
<1>7. ASSUME NEW f \in accepted
      PROVE  /\ f.src \in Node /\ f.seq \in 0 .. SeqMod - 1 /\ f.type = "DATA"
             /\ Age(f.seq, sequence_number[f.src]) \in 1 .. sends[f.src]
  BY <1>2 DEF NumbersFresh, Frame, Seq16
<1>8. \A f \in accepted : f.src = n => f.seq # sn
  <2> SUFFICES ASSUME NEW f \in accepted, f.src = n, f.seq = sn PROVE FALSE
    OBVIOUS
  <2>1. Age(sn, sn) \in 1 .. sends[n]
    BY <1>7
  <2>2. Age(sn, sn) = SeqMod
    BY <1>3 DEF Age
  <2> QED BY <1>1, <1>2, <2>1, <2>2
<1> HIDE DEF new, sn
<1>9. new \notin accepted
  BY <1>4, <1>8
<1>10. NumbersUnique'
  <2> SUFFICES ASSUME NEW f \in accepted', NEW g \in accepted', f.src = g.src, f.seq = g.seq
               PROVE  f = g
    BY DEF NumbersUnique
  <2>1. CASE f \in accepted /\ g \in accepted
    BY <1>2, <2>1 DEF NumbersUnique
  <2>2. CASE f = new \/ g = new
    BY <1>1, <1>4, <1>8, <2>2
  <2> QED BY <1>1, <2>1, <2>2
<1>11. NumbersFresh'
  <2> SUFFICES ASSUME NEW f \in accepted'
               PROVE  /\ f.type = "DATA"
                      /\ Age(f.seq, sequence_number'[f.src]) \in 1 .. sends'[f.src]
    BY DEF NumbersFresh, Age
  <2>1. CASE f = new
    <3>1. sequence_number'[n] = NextSeq(sn) /\ sends'[n] = sends[n] + 1 /\ sends[n] \in Nat
      BY <1>1, <1>2
    <3>2. Age(sn, NextSeq(sn)) = 1
      BY <1>3 DEF Age, NextSeq
    <3> QED BY <1>4, <2>1, <3>1, <3>2
  <2>2. CASE f \in accepted /\ f.src = n
    <3>1. sequence_number'[n] = NextSeq(sn) /\ sends'[n] = sends[n] + 1 /\ sends[n] \in Nat
      BY <1>1, <1>2
    <3>2. /\ f.seq \in 0 .. SeqMod - 1 /\ f.type = "DATA" /\ f.seq # sn
          /\ Age(f.seq, sn) \in 1 .. sends[n]
      BY <1>7, <1>8, <2>2 DEF sn
    <3>3. Age(f.seq, NextSeq(sn)) = Age(f.seq, sn) + 1
      BY <1>3, <3>2 DEF Age, NextSeq
    <3>4. Age(f.seq, NextSeq(sn)) \in 1 .. sends[n] + 1
      BY <3>1, <3>2, <3>3
    <3> QED BY <2>2, <3>1, <3>2, <3>4
  <2>3. CASE f \in accepted /\ f.src # n
    <3>1. sequence_number'[f.src] = sequence_number[f.src] /\ sends'[f.src] = sends[f.src]
      BY <1>1, <1>2, <1>7, <2>3
    <3> QED BY <1>7, <2>3, <3>1
  <2> QED BY <1>1, <2>1, <2>2, <2>3
<1> QED BY <1>1, <1>4, <1>6, <1>9, <1>10, <1>11 DEF new

(* The application sends.                                                  *)
LEMMA SendStep ==
  ASSUME IInv, NEW n \in Node, NEW d \in Node, NEW t \in Nat, Send(n, d, t)
  PROVE  IInv'
<1> DEFINE new == NewData(n, d)
<1>1. /\ MayElapse(agenda, t) /\ DoSendFrom(n, d)
      /\ txPacket' = [txPacket EXCEPT ![n] = new]
      /\ awaiting_ack' = [awaiting_ack EXCEPT ![n] = TRUE]
      /\ agenda' = Add(Elapse(agenda, t), 0, Ev("backoff", n))
      /\ UNCHANGED <<phy, delivered, acked, failed>>
  BY DEF Send
<1>2. /\ new \in Frame /\ new \notin accepted
      /\ sequence_number' \in [Node -> Seq16] /\ sends' \in [Node -> 0 .. MaxSends]
      /\ replays' \in [Node -> 0 .. MaxReplays + 1]
      /\ accepted' = accepted \cup {new}
      /\ NumbersFresh' /\ NumbersUnique'
  BY <1>1, NewNumber
<1>3. TypeOK /\ FramesOK /\ OwnFrame /\ AckSound /\ OutcomeOnce
  BY DEF IInv
<1>4. new.type = "DATA" /\ new.src = n
  BY DEF NewData
<1> HIDE DEF new
<1>5. Accounted(agenda', accepted', delivered')
  <2>1. Accounted(agenda, accepted', delivered')
    BY <1>1, <1>2, <1>3, AccountedGrows DEF FramesOK
  <2>2. "backoff" \in Kind \ Reception
    BY DEF Kind, Reception
  <2> QED BY <1>1, <2>1, <2>2, ElapseAccounted, AddPlain
<1>6. FramesOK'
  <2>1. \A m \in Node : KnownFrame(txPacket[m], accepted', delivered')
    BY <1>1, <1>2, <1>3, AccountedGrows DEF FramesOK
  <2>2. KnownFrame(new, accepted', delivered')
    BY <1>2, <1>4 DEF KnownFrame
  <2>3. \A m \in Node : KnownFrame(txPacket'[m], accepted', delivered')
    BY <1>1, <1>3, <2>1, <2>2 DEF TypeOK
  <2>4. delivered' \subseteq accepted' /\ failed' \subseteq accepted'
    BY <1>1, <1>2, <1>3 DEF FramesOK
  <2> QED BY <1>5, <2>3, <2>4 DEF FramesOK
<1>7. TypeOK'
  <2>1. \A y \in agenda' : y.due \in Nat /\ y.ev \in Event
    BY <1>5 DEF Accounted
  <2>2. /\ csmaca_active' \in [Node -> BOOLEAN] /\ NB' \in [Node -> Nat]
        /\ BE' \in [Node -> Nat] /\ csmaca_attempts' \in [Node -> 0 .. MaxAttempts]
    BY <1>1, <1>3, StartCsmaCaTypes DEF DoSendFrom
  <2>3. txPacket' \in [Node -> Frame \cup {NoFrame}] /\ awaiting_ack' \in [Node -> BOOLEAN]
    BY <1>1, <1>2, <1>3 DEF TypeOK
  <2>4. accepted' \subseteq Frame
    BY <1>2, <1>3 DEF TypeOK
  <2>5. UNCHANGED pulses
    BY <1>1 DEF DoSendFrom
  <2> QED BY <1>1, <1>2, <1>3, <2>1, <2>2, <2>3, <2>4, <2>5 DEF TypeOK, phy
<1>8. OwnFrame'
  BY <1>1, <1>3, <1>4 DEF OwnFrame, TypeOK
<1>9. OutcomeOnce'
  <2>1. new \notin acked \cup failed
    BY <1>2, <1>3 DEF FramesOK, AckSound
  <2> QED BY <1>1, <1>2, <1>3, <2>1 DEF OutcomeOnce, TypeOK
<1>10. AckSound'
  BY <1>1, <1>3 DEF AckSound
<1> QED BY <1>2, <1>6, <1>7, <1>8, <1>9, <1>10 DEF IInv

(* The timer, current or superseded: nothing is awaited, the node gives    *)
(* up, ...                                                                 *)
LEMMA GiveUpStep ==
  ASSUME IInv, NEW n \in Node, NEW A, Accounted(A, accepted, delivered),
         IgnoreTimeout(n, A) \/ TransmissionFailed(n, A),
         UNCHANGED <<txPacket, sequence_number, phy, accepted, delivered, acked, bounds>>
  PROVE  IInv'
<1>1. /\ TypeOK /\ FramesOK /\ NumbersFresh /\ NumbersUnique /\ OwnFrame
      /\ AckSound /\ OutcomeOnce
  BY DEF IInv
<1>2. UNCHANGED csma /\ agenda' = A
  BY DEF IgnoreTimeout, TransmissionFailed
<1>3. CASE IgnoreTimeout(n, A)
  <2>1. LowTypes'
    BY <1>1, <1>2 DEF TypeOK, LowTypes, csma, phy
  <2>2. UNCHANGED <<arq, history, bounds>>
    BY <1>3 DEF IgnoreTimeout, arq, history
  <2> QED BY <1>2, <2>1, <2>2, QuietInv
<1>4. CASE TransmissionFailed(n, A)
  <2>0. /\ awaiting_ack[n] /\ awaiting_ack' = [awaiting_ack EXCEPT ![n] = FALSE]
        /\ replays' = [replays EXCEPT ![n] = 0] /\ failed' = failed \cup {txPacket[n]}
    BY <1>4 DEF TransmissionFailed
  <2>1. txPacket[n] \in accepted /\ txPacket[n] \notin acked /\ txPacket[n].src = n
    BY <1>1, <2>0 DEF OutcomeOnce, OwnFrame
  <2>2. \A y \in agenda' : y.due \in Nat /\ y.ev \in Event
    BY <1>2 DEF Accounted
  <2>3. /\ replays' \in [Node -> 0 .. MaxReplays + 1] /\ awaiting_ack' \in [Node -> BOOLEAN]
    BY <1>1, <2>0 DEF TypeOK
  <2>4. failed' \subseteq Frame
    BY <1>1, <2>0, <2>1 DEF TypeOK
  <2>5. TypeOK'
    BY <1>1, <1>2, <2>2, <2>3, <2>4 DEF TypeOK, csma, phy, bounds
  <2>6. FramesOK'
    BY <1>1, <1>2, <2>0, <2>1 DEF FramesOK
  <2>7. \A m \in Node : awaiting_ack'[m] => m # n /\ awaiting_ack[m]
    BY <1>1, <2>0 DEF TypeOK
  <2>8. OwnFrame'
    BY <1>1, <2>7 DEF OwnFrame
  <2>9. OutcomeOnce'
    BY <1>1, <2>0, <2>1, <2>7 DEF OutcomeOnce, OwnFrame
  <2>10. NumbersFresh' /\ NumbersUnique' /\ AckSound'
    BY <1>1 DEF NumbersFresh, NumbersUnique, AckSound, bounds
  <2> QED BY <2>5, <2>6, <2>8, <2>9, <2>10 DEF IInv
<1> QED BY <1>3, <1>4

(* ... or it has another try, whatever that schedules.                     *)
LEMMA RetryStep ==
  ASSUME IInv, NEW n \in Node, replays[n] <= MaxReplays, replays' = [replays EXCEPT ![n] = @ + 1],
         Accounted(agenda', accepted, delivered),
         csmaca_active' \in [Node -> BOOLEAN], NB' \in [Node -> Nat],
         BE' \in [Node -> Nat], csmaca_attempts' \in [Node -> 0 .. MaxAttempts],
         UNCHANGED <<awaiting_ack, failed, txPacket, sequence_number, phy, accepted, delivered,
                     acked, bounds>>
  PROVE  IInv'
<1>1. /\ TypeOK /\ FramesOK /\ NumbersFresh /\ NumbersUnique /\ OwnFrame
      /\ AckSound /\ OutcomeOnce
  BY DEF IInv
<1>2. replays' \in [Node -> 0 .. MaxReplays + 1]
  BY <1>1 DEF TypeOK
<1>3. \A y \in agenda' : y.due \in Nat /\ y.ev \in Event
  BY DEF Accounted
<1>4. TypeOK'
  BY <1>1, <1>2, <1>3 DEF TypeOK, phy, bounds
<1>5. FramesOK' /\ OwnFrame' /\ OutcomeOnce'
  BY <1>1 DEF FramesOK, OwnFrame, OutcomeOnce
<1>6. NumbersFresh' /\ NumbersUnique' /\ AckSound'
  BY <1>1 DEF NumbersFresh, NumbersUnique, AckSound, bounds
<1> QED BY <1>4, <1>5, <1>6 DEF IInv

LEMMA TimeoutStep ==
  ASSUME IInv, NEW x, AcknowledgementTimeout(x)
  PROVE  IInv'
<1> DEFINE n == x.ev.node
<1>1. IsHead(agenda, x) /\ "backoff" \in Kind \ Reception
  BY DEF AcknowledgementTimeout, Due, Kind, Reception
<1>2. n \in Node /\ Accounted(After(x), accepted, delivered)
  BY <1>1, HeadFacts
<1>3. UNCHANGED <<txPacket, sequence_number, phy, accepted, delivered, acked, bounds>>
  BY DEF AcknowledgementTimeout
<1> HIDE DEF n
<1>4. CASE IgnoreTimeout(n, After(x)) \/ TransmissionFailed(n, After(x))
  BY <1>2, <1>3, <1>4, GiveUpStep
<1>5. CASE Replay(n, After(x))
  <2>1. /\ replays[n] <= MaxReplays /\ replays' = [replays EXCEPT ![n] = @ + 1] /\ StartCsmaCa(n)
        /\ agenda' = Add(After(x), 0, Ev("backoff", n)) /\ UNCHANGED <<awaiting_ack, failed>>
    BY <1>5 DEF Replay
  <2>2. Accounted(agenda', accepted, delivered)
    BY <1>1, <1>2, <2>1, AddPlain
  <2>3. /\ csmaca_active' \in [Node -> BOOLEAN] /\ NB' \in [Node -> Nat]
        /\ BE' \in [Node -> Nat] /\ csmaca_attempts' \in [Node -> 0 .. MaxAttempts]
    BY <1>2, <2>1, StartCsmaCaTypes DEF IInv
  <2> QED BY <1>2, <1>3, <2>1, <2>2, <2>3, RetryStep
<1> QED BY <1>4, <1>5 DEF AcknowledgementTimeout, n

(* A data frame comes in: it is delivered, and whatever the node was       *)
(* waiting for is replaced by the acknowledgement.                         *)
LEMMA DataStep ==
  ASSUME IInv, NEW n \in Node, NEW f, KnownFrame(f, accepted, delivered), f # NoFrame,
         NEW A, Accounted(A, accepted, delivered), ReceiveData(n, f, A),
         state' \in [Node -> {"IDLE", "TX", "RX"}], UNCHANGED noise
  PROVE  IInv'
<1>1. /\ f.type = "DATA" /\ f.dst = n /\ delivered' = delivered \cup {f}
      /\ txPacket' = [txPacket EXCEPT ![n] = AckOf(f)]
      /\ awaiting_ack' = [awaiting_ack EXCEPT ![n] = FALSE]
      /\ UNCHANGED <<acked, failed>>
  BY DEF ReceiveData
<1>2. /\ TypeOK /\ FramesOK /\ NumbersFresh /\ NumbersUnique /\ OwnFrame
      /\ AckSound /\ OutcomeOnce
  BY DEF IInv
<1>3. f \in Frame /\ f \in accepted
  BY <1>1 DEF KnownFrame
<1>4. /\ AckOf(f) \in Frame /\ AckOf(f).type = "ACK" /\ AckOf(f).dst = f.src
      /\ AckOf(f).seq = f.seq
  BY <1>3 DEF AckOf, Frame
<1>k. {"endCca", "backoff"} \subseteq Kind \ Reception
  BY DEF Kind, Reception
<1>5. ASSUME accepted \subseteq accepted', accepted' \subseteq Frame,
             NumbersFresh', NumbersUnique',
             Accounted(agenda', accepted', delivered'),
             sequence_number' \in [Node -> Seq16],
             sends' \in [Node -> 0 .. MaxSends], UNCHANGED pulses,
             replays' \in [Node -> 0 .. MaxReplays + 1],
             csmaca_active' \in [Node -> BOOLEAN], NB' \in [Node -> Nat],
             BE' \in [Node -> Nat], csmaca_attempts' \in [Node -> 0 .. MaxAttempts]
      PROVE  IInv'
  <2>1. \A y \in agenda' : y.due \in Nat /\ y.ev \in Event
    BY <1>5 DEF Accounted
  <2>2. txPacket' \in [Node -> Frame \cup {NoFrame}] /\ awaiting_ack' \in [Node -> BOOLEAN]
    BY <1>1, <1>2, <1>4 DEF TypeOK
  <2>3. delivered' \subseteq Frame
    BY <1>1, <1>2, <1>3 DEF TypeOK
  <2>4. TypeOK'
    BY <1>1, <1>2, <1>5, <2>1, <2>2, <2>3 DEF TypeOK
  <2>5. KnownFrame(AckOf(f), accepted', delivered')
    BY <1>1, <1>4 DEF KnownFrame
  <2>6. \A m \in Node : KnownFrame(txPacket[m], accepted', delivered')
    BY <1>1, <1>2, <1>5, AccountedGrows DEF FramesOK
  <2>7. \A m \in Node : KnownFrame(txPacket'[m], accepted', delivered')
    BY <1>1, <1>2, <2>5, <2>6 DEF TypeOK
  <2>8. FramesOK'
    BY <1>1, <1>2, <1>3, <1>5, <2>7 DEF FramesOK
  <2>9. \A m \in Node : awaiting_ack'[m] => awaiting_ack[m] /\ txPacket'[m] = txPacket[m]
    BY <1>1, <1>2 DEF TypeOK
  <2>10. OwnFrame' /\ AckSound'
    BY <1>1, <1>2, <2>9 DEF OwnFrame, AckSound
  <2>11. OutcomeOnce'
    BY <1>1, <1>2, <1>5, <2>9 DEF OutcomeOnce
  <2> QED BY <1>5, <2>4, <2>8, <2>10, <2>11 DEF IInv
<1>6. CASE /\ agenda' = Add(A, CcaTime, Ev("endCca", n))
           /\ UNCHANGED <<csma, sequence_number, replays, accepted, bounds>>
  <2>1. Accounted(A, accepted', delivered')
    BY <1>1, <1>6, AccountedGrows
  <2>2. Accounted(agenda', accepted', delivered')
    BY <1>6, <1>k, <2>1, AddPlain
  <2>3. NumbersFresh' /\ NumbersUnique'
    BY <1>2, <1>6 DEF NumbersFresh, NumbersUnique, bounds
  <2>4. /\ accepted' \subseteq Frame /\ sequence_number' \in [Node -> Seq16]
        /\ sends' \in [Node -> 0 .. MaxSends] /\ UNCHANGED pulses
        /\ replays' \in [Node -> 0 .. MaxReplays + 1]
    BY <1>2, <1>6 DEF TypeOK, bounds
  <2>5. /\ csmaca_active' \in [Node -> BOOLEAN] /\ NB' \in [Node -> Nat]
        /\ BE' \in [Node -> Nat] /\ csmaca_attempts' \in [Node -> 0 .. MaxAttempts]
    BY <1>2, <1>6 DEF TypeOK, csma
  <2> QED BY <1>5, <1>6, <2>2, <2>3, <2>4, <2>5
<1>7. ASSUME NEW d \in Node \ {n}, DoSendFrom(n, d),
             agenda' = Add(Add(A, 0, Ev("backoff", n)), CcaTime, Ev("endCca", n))
      PROVE  IInv'
  <2>1. /\ NewData(n, d) \in Frame
        /\ sequence_number' \in [Node -> Seq16] /\ sends' \in [Node -> 0 .. MaxSends]
        /\ replays' \in [Node -> 0 .. MaxReplays + 1]
        /\ accepted' = accepted \cup {NewData(n, d)}
        /\ NumbersFresh' /\ NumbersUnique'
    BY <1>7, NewNumber
  <2>2. accepted \subseteq accepted' /\ accepted' \subseteq Frame
    BY <1>2, <2>1 DEF TypeOK
  <2>3. Accounted(A, accepted', delivered')
    BY <1>1, <2>2, AccountedGrows
  <2>4. Accounted(Add(A, 0, Ev("backoff", n)), accepted', delivered')
    BY <1>k, <2>3, AddPlain
  <2>5. Accounted(agenda', accepted', delivered')
    BY <1>7, <1>k, <2>4, AddPlain
  <2>6. /\ csmaca_active' \in [Node -> BOOLEAN] /\ NB' \in [Node -> Nat]
        /\ BE' \in [Node -> Nat] /\ csmaca_attempts' \in [Node -> 0 .. MaxAttempts]
    BY <1>2, <1>7, StartCsmaCaTypes DEF DoSendFrom
  <2>7. UNCHANGED pulses
    BY <1>7 DEF DoSendFrom
  <2> QED BY <1>5, <2>1, <2>2, <2>5, <2>6, <2>7
<1> QED BY <1>6, <1>7 DEF ReceiveData

(* The acknowledgement awaited comes in.  It answers a frame that was      *)
(* delivered, of this node and with the number of the frame at hand; since *)
(* numbers are unique it is the frame at hand that was delivered.          *)
LEMMA AckStep ==
  ASSUME IInv, NEW n \in Node, NEW f, KnownFrame(f, accepted, delivered), f # NoFrame,
         NEW A, Accounted(A, accepted, delivered), ReceiveAck(n, f, A),
         state' \in [Node -> {"IDLE", "TX", "RX"}], UNCHANGED noise
  PROVE  IInv'
<1>1. /\ f.dst = n
      /\ UNCHANGED <<csma, txPacket, sequence_number, replays, accepted, delivered, failed, bounds>>
  BY DEF ReceiveAck
<1>2. /\ TypeOK /\ FramesOK /\ NumbersFresh /\ NumbersUnique /\ OwnFrame
      /\ AckSound /\ OutcomeOnce
  BY DEF IInv
<1>3. CASE AckMatches(n, f)
  <2>1. /\ awaiting_ack' = [awaiting_ack EXCEPT ![n] = FALSE]
        /\ agenda' = Without(A, Timers(A, n)) /\ acked' = acked \cup {txPacket[n]}
    BY <1>3 DEF ReceiveAck, CancelTimer
  <2>2. awaiting_ack[n] /\ f.type = "ACK" /\ f.seq = txPacket[n].seq
    BY <1>3 DEF AckMatches
  <2>3. /\ txPacket[n] \in accepted /\ txPacket[n] \notin failed /\ txPacket[n].src = n
    BY <1>2, <2>2 DEF OutcomeOnce, OwnFrame
  <2>4. PICK g \in delivered : g.src = f.dst /\ g.seq = f.seq
    BY <2>2 DEF KnownFrame
  <2>5. g = txPacket[n]
    BY <1>1, <1>2, <2>2, <2>3, <2>4 DEF NumbersUnique, FramesOK
  <2>6. Accounted(agenda', accepted, delivered)
    BY <2>1, WithoutAccounted
  <2>7. \A y \in agenda' : y.due \in Nat /\ y.ev \in Event
    BY <2>6 DEF Accounted
  <2>8. awaiting_ack' \in [Node -> BOOLEAN] /\ acked' \subseteq Frame
    BY <1>2, <2>1, <2>3 DEF TypeOK
  <2>9. TypeOK'
    BY <1>1, <1>2, <2>7, <2>8 DEF TypeOK, csma, bounds
  <2>10. FramesOK' /\ NumbersFresh' /\ NumbersUnique'
    BY <1>1, <1>2, <2>6 DEF FramesOK, NumbersFresh, NumbersUnique, bounds
  <2>11. AckSound'
    BY <1>1, <1>2, <2>1, <2>5 DEF AckSound
  <2>12. \A m \in Node : awaiting_ack'[m] => m # n /\ awaiting_ack[m]
    BY <1>2, <2>1 DEF TypeOK
  <2>13. OwnFrame'
    BY <1>1, <1>2, <2>12 DEF OwnFrame
  <2>14. OutcomeOnce'
    BY <1>1, <1>2, <2>1, <2>3, <2>12 DEF OutcomeOnce, OwnFrame
  <2> QED BY <2>9, <2>10, <2>11, <2>13, <2>14 DEF IInv
<1>4. CASE ~ AckMatches(n, f)
  <2>1. agenda' = A /\ UNCHANGED <<awaiting_ack, acked>>
    BY <1>4 DEF ReceiveAck
  <2>2. LowTypes'
    BY <1>1, <1>2 DEF TypeOK, LowTypes, csma
  <2>3. UNCHANGED <<arq, history, bounds>>
    BY <1>1, <2>1 DEF arq, history
  <2> QED BY <2>1, <2>2, <2>3, QuietInv
<1> QED BY <1>3, <1>4

(* DoProcess of a frame that is accounted for.                             *)
LEMMA ProcessStep ==
  ASSUME IInv, NEW n \in Node, NEW f, KnownFrame(f, accepted, delivered), f # NoFrame,
         NEW A, Accounted(A, accepted, delivered), DoProcess(n, f, A),
         state' \in [Node -> {"IDLE", "TX", "RX"}], UNCHANGED noise
  PROVE  IInv'
<1>1. CASE Discard(n, f, A)
  <2>1. agenda' = A /\ UNCHANGED <<csma, arq, history, bounds>>
    BY <1>1 DEF Discard
  <2>2. LowTypes'
    BY <2>1 DEF IInv, TypeOK, LowTypes, csma
  <2> QED BY <2>1, <2>2, QuietInv
<1>2. CASE ReceiveData(n, f, A)
  BY <1>2, DataStep
<1>3. CASE ReceiveAck(n, f, A)
  BY <1>3, AckStep
<1> QED BY <1>1, <1>2, <1>3 DEF DoProcess

(* The end of a payload.                                                   *)
LEMMA PayloadStep ==
  ASSUME IInv, NEW x, EndRxPayload(x)
  PROVE  IInv'
<1> DEFINE n == x.ev.node
           f == x.ev.frame
<1>1. IsHead(agenda, x) /\ x.ev.kind = "rxPayload"
  BY DEF EndRxPayload, Due
<1>2. /\ n \in Node /\ Accounted(After(x), accepted, delivered)
      /\ KnownFrame(f, accepted, delivered) /\ f # NoFrame
  BY <1>1, HeadFacts DEF Event, Reception
<1>3. LowTypes
  BY DEF IInv, TypeOK, LowTypes
<1>4. state' = [state EXCEPT ![n] = "IDLE"] /\ UNCHANGED noise
  BY DEF EndRxPayload
<1>5. state' \in [Node -> {"IDLE", "TX", "RX"}]
  BY <1>3, <1>4 DEF LowTypes
<1> HIDE DEF n, f
<1>6. CASE agenda' = After(x) /\ UNCHANGED <<csma, arq, history, bounds>>
  <2>1. LowTypes'
    BY <1>3, <1>4, <1>5, <1>6 DEF LowTypes, csma
  <2> QED BY <1>2, <1>6, <2>1, QuietInv
<1>7. CASE DoProcess(n, f, After(x))
  BY <1>2, <1>4, <1>5, <1>7, ProcessStep
<1> QED BY <1>6, <1>7 DEF EndRxPayload, n, f

---------------------------------------------------------------------------
(* Every step keeps the inductive invariant.                               *)
LEMMA InvStep == IInv /\ [Next]_vars => IInv'
<1> SUFFICES ASSUME IInv, [Next]_vars PROVE IInv'
  OBVIOUS
<1>1. ASSUME NEW x \in agenda, Process(x) PROVE IInv'
  <2>1. CASE RestartCsmaCa(x) \/ RandomBackoffDelay(x) \/ RequestCca(x) \/ EndCca(x)
             \/ CsmaCaIdle(x) \/ CsmaCaFailure(x)
    BY <2>1, CsmaSteps
  <2>2. CASE AcknowledgementTimeout(x)
    BY <2>2, TimeoutStep
  <2>3. CASE FrameSent(x) \/ StartRx(x) \/ PreambleDetectionSuccessful(x) \/ EndRxHeader(x)
             \/ RemoveNoiseSignal(x)
    BY <2>3, PhySteps
  <2>4. CASE EndRxPayload(x)
    BY <2>4, PayloadStep
  <2> QED BY <1>1, <2>1, <2>2, <2>3, <2>4 DEF Process
<1>2. CASE Environment
  <2>1. PICK t \in Elapsed : \/ \E n \in Sources, d \in Node : d # n /\ Send(n, d, t)
                             \/ \E n \in Node : PulseStart(n, t)
    BY <1>2 DEF Environment
  <2>2. t \in Nat
    <3>1. \A y \in agenda : y.due \in Nat
      BY DEF IInv, TypeOK
    <3> QED BY <3>1 DEF Elapsed
  <2>3. CASE \E n \in Sources, d \in Node : d # n /\ Send(n, d, t)
    BY <2>2, <2>3, SendStep
  <2>4. CASE \E n \in Node : PulseStart(n, t)
    BY <2>2, <2>4, PulseStep
  <2> QED BY <2>1, <2>3, <2>4
<1>3. CASE UNCHANGED vars
  <2>1. LowTypes'
    BY <1>3 DEF IInv, TypeOK, LowTypes, vars, csma, phy
  <2>2. UNCHANGED <<arq, history, bounds>>
    BY <1>3 DEF vars
  <2>3. Accounted(agenda', accepted, delivered)
    BY <1>3 DEF IInv, FramesOK, vars
  <2> QED BY <2>1, <2>2, <2>3, QuietInv
<1> QED BY <1>1, <1>2, <1>3 DEF Next, ProcessOneEvent

(* The invariant holds before anything was sent, whatever the numbers the  *)
(* nodes start from and whatever m_csmaca_attempts holds.                  *)
LEMMA InitInv == Init => IInv
<1> SUFFICES ASSUME Init PROVE IInv
  OBVIOUS
<1>1. TypeOK
  BY DEF Init, TypeOK, Seq16
<1>2. FramesOK
  BY DEF Init, FramesOK, Accounted, KnownFrame
<1>3. NumbersFresh /\ NumbersUnique
  BY DEF Init, NumbersFresh, NumbersUnique
<1>4. OwnFrame /\ AckSound /\ OutcomeOnce
  BY DEF Init, OwnFrame, AckSound, OutcomeOnce
<1> QED BY <1>1, <1>2, <1>3, <1>4 DEF IInv

(* The inductive invariant holds in every state.                           *)
THEOREM Inductive == Spec => []IInv
BY InitInv, InvStep, PTL DEF Spec

(* The devices' variables stay in their types.                             *)
THEOREM TypeCorrect == Spec => []TypeOK
<1>1. IInv => TypeOK
  BY DEF IInv
<1> QED BY <1>1, Inductive, PTL

(* Every acknowledgement callback is about a frame that was delivered,     *)
(* although DoProcess looks at the sequence number alone.                  *)
THEOREM AckSoundCorrect == Spec => []AckSound
<1>1. IInv => AckSound
  BY DEF IInv
<1> QED BY <1>1, Inductive, PTL

(* No frame is reported both acknowledged and failed, or twice.            *)
THEOREM OutcomeOnceCorrect == Spec => []OutcomeOnce
<1>1. IInv => OutcomeOnce
  BY DEF IInv
<1> QED BY <1>1, Inductive, PTL

---------------------------------------------------------------------------
(* The refinement of PlcDelivery.  What happens below the ARQ is invisible *)
(* to the applications.                                                    *)
LEMMA QuietService ==
  ASSUME UNCHANGED <<awaiting_ack, txPacket, accepted, delivered, acked, failed>>
  PROVE  UNCHANGED Service!vars
BY DEF Service!vars, Outstanding

(* A node that stops waiting has nothing outstanding, the others keep what *)
(* they have.                                                              *)
LEMMA StopsWaiting ==
  ASSUME TypeOK, NEW n \in Node,
         awaiting_ack' = [awaiting_ack EXCEPT ![n] = FALSE],
         \A m \in Node \ {n} : txPacket'[m] = txPacket[m]
  PROVE  Outstanding' = [Outstanding EXCEPT ![n] = NoFrame]
<1>1. awaiting_ack \in [Node -> BOOLEAN]
  BY DEF TypeOK
<1>2. \A m \in Node : awaiting_ack'[m] = IF m = n THEN FALSE ELSE awaiting_ack[m]
  BY <1>1
<1> QED BY <1>2 DEF Outstanding

(* DoSendFrom gives the application's frame a number of its own.           *)
LEMMA NewIsFresh ==
  ASSUME IInv, NEW n \in Node, NEW d \in Node, DoSendFrom(n, d)
  PROVE  /\ Service!Fresh(n, NewData(n, d)) /\ Outstanding[n] = NoFrame
         /\ accepted' = accepted \cup {NewData(n, d)}
<1>1. NewData(n, d) \in Frame \ accepted /\ accepted' = accepted \cup {NewData(n, d)}
  BY NewNumber
<1>2. NewData(n, d).type = "DATA" /\ NewData(n, d).src = n
  BY DEF NewData
<1>3. ~ awaiting_ack[n]
  BY DEF DoSendFrom
<1> QED BY <1>1, <1>2, <1>3 DEF Service!Fresh, Outstanding

LEMMA SendAccepts ==
  ASSUME IInv, NEW n \in Node, NEW d \in Node, NEW t, Send(n, d, t)
  PROVE  Service!Next
<1> DEFINE new == NewData(n, d)
<1>1. /\ DoSendFrom(n, d) /\ UNCHANGED <<delivered, acked, failed>>
      /\ txPacket' = [txPacket EXCEPT ![n] = new]
      /\ awaiting_ack' = [awaiting_ack EXCEPT ![n] = TRUE]
  BY DEF Send
<1>2. Service!Fresh(n, new) /\ Outstanding[n] = NoFrame /\ accepted' = accepted \cup {new}
  BY <1>1, NewIsFresh
<1> HIDE DEF new
<1>3. awaiting_ack \in [Node -> BOOLEAN] /\ txPacket \in [Node -> Frame \cup {NoFrame}]
  BY DEF IInv, TypeOK
<1>4. Outstanding' = [Outstanding EXCEPT ![n] = new]
  BY <1>1, <1>3 DEF Outstanding
<1>5. Service!Accept(n, new) /\ new \in Frame
  BY <1>1, <1>2, <1>4 DEF Service!Accept, Service!Fresh
<1> QED BY <1>5 DEF Service!Next

(* A failure is reported of a frame that is outstanding.                   *)
LEMMA FailureFails ==
  ASSUME IInv, NEW n \in Node, NEW A, TransmissionFailed(n, A),
         UNCHANGED <<txPacket, accepted, delivered, acked>>
  PROVE  Service!Next
<1>1. /\ awaiting_ack[n] /\ awaiting_ack' = [awaiting_ack EXCEPT ![n] = FALSE]
      /\ failed' = failed \cup {txPacket[n]}
  BY DEF TransmissionFailed
<1>2. TypeOK /\ OutcomeOnce
  BY DEF IInv
<1>3. Outstanding' = [Outstanding EXCEPT ![n] = NoFrame]
  BY <1>1, <1>2, StopsWaiting
<1>4. Outstanding[n] = txPacket[n]
  BY <1>1 DEF Outstanding
<1>5. txPacket[n] # NoFrame
  BY <1>1, <1>2 DEF OutcomeOnce, TypeOK
<1>6. Service!Fail(n)
  BY <1>1, <1>3, <1>4, <1>5 DEF Service!Fail
<1> QED BY <1>6 DEF Service!Next

LEMMA TimeoutFails ==
  ASSUME IInv, NEW x, AcknowledgementTimeout(x)
  PROVE  Service!Next \/ UNCHANGED Service!vars
<1> DEFINE n == x.ev.node
<1>1. n \in Node
  BY HeadFacts DEF AcknowledgementTimeout, Due
<1>2. UNCHANGED <<txPacket, accepted, delivered, acked>>
  BY DEF AcknowledgementTimeout
<1> HIDE DEF n
<1>3. CASE IgnoreTimeout(n, After(x)) \/ Replay(n, After(x))
  <2>1. UNCHANGED <<awaiting_ack, failed>>
    BY <1>3 DEF IgnoreTimeout, Replay
  <2> QED BY <1>2, <2>1, QuietService
<1>4. CASE TransmissionFailed(n, After(x))
  BY <1>1, <1>2, <1>4, FailureFails
<1> QED BY <1>3, <1>4 DEF AcknowledgementTimeout, n

(* A data frame for this node is delivered; what the node had outstanding, *)
(* or has just been given by its application, is abandoned.                *)
LEMMA DataDelivers ==
  ASSUME IInv, NEW n \in Node, NEW f, KnownFrame(f, accepted, delivered), f # NoFrame,
         NEW A, ReceiveData(n, f, A)
  PROVE  Service!Next
<1>1. /\ f.type = "DATA" /\ f.dst = n /\ delivered' = delivered \cup {f}
      /\ txPacket' = [txPacket EXCEPT ![n] = AckOf(f)]
      /\ awaiting_ack' = [awaiting_ack EXCEPT ![n] = FALSE]
      /\ UNCHANGED <<acked, failed>>
  BY DEF ReceiveData
<1>2. f \in accepted /\ f \in Frame
  BY <1>1 DEF KnownFrame
<1>3. TypeOK
  BY DEF IInv
<1>4. \A m \in Node \ {n} : txPacket'[m] = txPacket[m]
  BY <1>1, <1>3 DEF TypeOK
<1>5. Outstanding' = [Outstanding EXCEPT ![n] = NoFrame]
  BY <1>1, <1>3, <1>4, StopsWaiting
<1>6. CASE UNCHANGED accepted
  <2>1. Service!Deliver(f)
    BY <1>1, <1>2, <1>5, <1>6 DEF Service!Deliver
  <2> QED BY <1>2, <2>1 DEF Service!Next
<1>7. CASE \E d \in Node \ {n} : DoSendFrom(n, d)
  <2>1. PICK d \in Node : DoSendFrom(n, d)
    BY <1>7
  <2> DEFINE new == NewData(n, d)
  <2>2. Service!Fresh(n, new) /\ Outstanding[n] = NoFrame /\ accepted' = accepted \cup {new}
    BY <2>1, NewIsFresh
  <2> HIDE DEF new
  <2>3. new \in Frame
    BY <2>2 DEF Service!Fresh
  <2>4. Service!Deliver(f)
    BY <1>1, <1>2, <1>5, <2>2, <2>3 DEF Service!Deliver
  <2> QED BY <1>2, <2>4 DEF Service!Next
<1> QED BY <1>6, <1>7 DEF ReceiveData

(* The frame an acknowledgement is taken for is the one outstanding, and   *)
(* has been delivered.                                                     *)
LEMMA AckAcknowledges ==
  ASSUME IInv, NEW n \in Node, NEW f, KnownFrame(f, accepted, delivered), f # NoFrame,
         NEW A, ReceiveAck(n, f, A)
  PROVE  Service!Next \/ UNCHANGED Service!vars
<1>1. f.dst = n /\ UNCHANGED <<txPacket, accepted, delivered, failed>>
  BY DEF ReceiveAck
<1>2. /\ TypeOK /\ FramesOK /\ NumbersUnique /\ OwnFrame /\ OutcomeOnce
  BY DEF IInv
<1>3. CASE AckMatches(n, f)
  <2>1. /\ awaiting_ack' = [awaiting_ack EXCEPT ![n] = FALSE]
        /\ acked' = acked \cup {txPacket[n]}
    BY <1>3 DEF ReceiveAck
  <2>2. awaiting_ack[n] /\ f.type = "ACK" /\ f.seq = txPacket[n].seq
    BY <1>3 DEF AckMatches
  <2>3. txPacket[n] \in accepted /\ txPacket[n].src = n
    BY <1>2, <2>2 DEF OutcomeOnce, OwnFrame
  <2>4. PICK g \in delivered : g.src = f.dst /\ g.seq = f.seq
    BY <2>2 DEF KnownFrame
  <2>5. txPacket[n] \in delivered
    BY <1>1, <1>2, <2>2, <2>3, <2>4 DEF NumbersUnique, FramesOK
  <2>6. Outstanding' = [Outstanding EXCEPT ![n] = NoFrame]
    BY <1>1, <1>2, <2>1, StopsWaiting
  <2>7. Outstanding[n] = txPacket[n]
    BY <2>2 DEF Outstanding
  <2>8. Service!Acknowledge(n)
    BY <1>1, <2>1, <2>5, <2>6, <2>7 DEF Service!Acknowledge
  <2> QED BY <2>8 DEF Service!Next
<1>4. CASE ~ AckMatches(n, f)
  <2>1. UNCHANGED <<awaiting_ack, acked>>
    BY <1>4 DEF ReceiveAck
  <2> QED BY <1>1, <2>1, QuietService
<1> QED BY <1>3, <1>4

LEMMA ProcessService ==
  ASSUME IInv, NEW n \in Node, NEW f, KnownFrame(f, accepted, delivered), f # NoFrame,
         NEW A, DoProcess(n, f, A)
  PROVE  Service!Next \/ UNCHANGED Service!vars
<1>1. CASE ReceiveData(n, f, A)
  BY <1>1, DataDelivers
<1>2. CASE ReceiveAck(n, f, A)
  BY <1>2, AckAcknowledges
<1>3. CASE Discard(n, f, A)
  BY <1>3, QuietService DEF Discard, arq, history
<1> QED BY <1>1, <1>2, <1>3 DEF DoProcess

(* Every step of the network is a step of the service, or none.            *)
LEMMA ServiceStep == IInv /\ [Next]_vars => [Service!Next]_Service!vars
<1> SUFFICES ASSUME IInv, [Next]_vars PROVE Service!Next \/ UNCHANGED Service!vars
  OBVIOUS
<1> DEFINE quiet == UNCHANGED <<awaiting_ack, txPacket, accepted, delivered, acked, failed>>
<1>q. quiet => UNCHANGED Service!vars
  BY QuietService
<1>1. ASSUME NEW x \in agenda, Process(x) PROVE Service!Next \/ UNCHANGED Service!vars
  <2>1. CASE RestartCsmaCa(x) \/ RandomBackoffDelay(x) \/ RequestCca(x) \/ EndCca(x)
             \/ CsmaCaIdle(x) \/ CsmaCaFailure(x)
    <3>1. UNCHANGED <<arq, history>>
      BY <2>1 DEF RestartCsmaCa, RandomBackoffDelay, RequestCca, EndCca, CsmaCaIdle, CsmaCaFailure
    <3> QED BY <1>q, <3>1 DEF arq, history
  <2>2. CASE AcknowledgementTimeout(x)
    BY <2>2, TimeoutFails
  <2>3. CASE FrameSent(x) \/ StartRx(x) \/ PreambleDetectionSuccessful(x) \/ EndRxHeader(x)
             \/ RemoveNoiseSignal(x)
    <3>1. UNCHANGED <<arq, history>>
      BY <2>3 DEF FrameSent, StartRx, PreambleDetectionSuccessful, EndRxHeader, RemoveNoiseSignal
    <3> QED BY <1>q, <3>1 DEF arq, history
  <2>4. CASE EndRxPayload(x)
    <3> DEFINE n == x.ev.node
               f == x.ev.frame
    <3>1. IsHead(agenda, x) /\ x.ev.kind = "rxPayload"
      BY <2>4 DEF EndRxPayload, Due
    <3>2. n \in Node /\ KnownFrame(f, accepted, delivered) /\ f # NoFrame
      BY <3>1, HeadFacts DEF Event, Reception
    <3> HIDE DEF n, f
    <3>3. CASE DoProcess(n, f, After(x))
      BY <3>2, <3>3, ProcessService
    <3>4. CASE UNCHANGED <<arq, history>>
      BY <1>q, <3>4 DEF arq, history
    <3> QED BY <2>4, <3>3, <3>4 DEF EndRxPayload, n, f
  <2> QED BY <1>1, <2>1, <2>2, <2>3, <2>4 DEF Process
<1>2. CASE Environment
  <2>1. PICK t \in Elapsed : \/ \E n \in Sources, d \in Node : d # n /\ Send(n, d, t)
                             \/ \E n \in Node : PulseStart(n, t)
    BY <1>2 DEF Environment
  <2>2. CASE \E n \in Sources, d \in Node : d # n /\ Send(n, d, t)
    BY <2>2, SendAccepts
  <2>3. CASE \E n \in Node : PulseStart(n, t)
    BY <1>q, <2>3 DEF PulseStart, arq, history
  <2> QED BY <2>1, <2>2, <2>3
<1>3. CASE UNCHANGED vars
  BY <1>q, <1>3 DEF vars, arq, history
<1> QED BY <1>1, <1>2, <1>3 DEF Next, ProcessOneEvent

(* The ARQ devices implement the service of PlcDelivery: DoSendFrom,       *)
(* DoProcess and AcknowledgementTimeout are steps the service allows, and  *)
(* all that happens in between is none, for every number of nodes, every   *)
(* timing and every loss.                                                  *)
THEOREM ServiceImplemented == Spec => ImplementsService
<1>1. Init => Service!Init
  BY DEF Init, Service!Init, Outstanding
<1> QED BY <1>1, Inductive, ServiceStep, PTL DEF Spec, ImplementsService, Service!Spec
=============================================================================
