------------------------ MODULE PlcHarqNetworkProofs ------------------------
(***************************************************************************)
(* Proofs about the network with hybrid ARQ, over either PHY, for any      *)
(* number of nodes, any timing and any loss, up to the point where a       *)
(* sequence number is given out twice (MaxSends <= SeqMod); and, where one *)
(* node sends and its timer is short, whose redundancy it sends.           *)
(***************************************************************************)
EXTENDS PlcHarqNetwork, PlcTimingProofs

USE NodeAssumption, SeqAssumption, CsmaAssumption, TimeAssumption, NoFrameAssumption
USE RedundancyAssumption

(* The kinds of events that decide whether a wait for redundancy is timed. *)
Waits == {"failureTimeout", "rxPayload", "rxHeader", "redundancyHeader"}

(* From A to B no such event of a node in M has come or gone.              *)
Kept(A, B, M) ==
  Ranked(B) /\ \A K \in SUBSET Waits : \A m \in M : Count(B, K, m) = Count(A, K, m)

Apart(ev, M) == ev.kind \notin Waits \/ ev.node \notin M

LEMMA ApartIs ==
  ASSUME NEW ev, NEW M, Apart(ev, M), NEW K \in SUBSET Waits, NEW m \in M
  PROVE  ~ Is(ev, K, m)
BY DEF Apart, Is

LEMMA KeptTrans ==
  ASSUME NEW A, NEW B, NEW C, NEW M, Kept(A, B, M), Kept(B, C, M)
  PROVE  Kept(A, C, M)
BY DEF Kept

LEMMA AddKept ==
  ASSUME NEW A, Ranked(A), NEW M, NEW d \in Nat, NEW ev, Apart(ev, M)
  PROVE  Kept(A, Add(A, d, ev), M)
<1>1. /\ Ranked(Add(A, d, ev))
      /\ \A K, n : ~ Is(ev, K, n) => Count(Add(A, d, ev), K, n) = Count(A, K, n)
  BY AddRanked
<1>2. \A K \in SUBSET Waits : \A m \in M : ~ Is(ev, K, m)
  BY ApartIs
<1> QED BY <1>1, <1>2 DEF Kept

LEMMA PopKept ==
  ASSUME NEW A, Ranked(A), NEW M, NEW x, IsHead(A, x), Apart(x.ev, M)
  PROVE  Kept(A, Pop(A, x), M)
<1>1. Ranked(Pop(A, x))
  BY PopRanked
<1>2. \A K, n : ~ Is(x.ev, K, n) => Count(Pop(A, x), K, n) = Count(A, K, n)
  BY PopCount
<1>3. \A K \in SUBSET Waits : \A m \in M : ~ Is(x.ev, K, m)
  BY ApartIs
<1> QED BY <1>1, <1>2, <1>3 DEF Kept

LEMMA ElapseKept ==
  ASSUME NEW A, Ranked(A), NEW M, NEW t \in Nat, MayElapse(A, t)
  PROVE  Kept(A, Elapse(A, t), M)
<1>1. Ranked(Elapse(A, t)) /\ \A K, n : Count(Elapse(A, t), K, n) = Count(A, K, n)
  BY ElapseRanked
<1> QED BY <1>1 DEF Kept

LEMMA WithoutKept ==
  ASSUME NEW A, Ranked(A), NEW M, NEW gone, gone \subseteq A, \A y \in gone : Apart(y.ev, M)
  PROVE  Kept(A, Without(A, gone), M)
<1>1. Ranked(Without(A, gone)) /\ \A K, n : Count(Without(A, gone), K, n) = Count(A \ gone, K, n)
  BY WithoutRanked
<1>2. ASSUME NEW K \in SUBSET Waits, NEW m \in M
      PROVE  Count(Without(A, gone), K, m) = Count(A, K, m)
  <2>1. \A y \in gone : ~ Is(y.ev, K, m)
    BY ApartIs
  <2>2. {y \in A \ gone : Is(y.ev, K, m)} = {y \in A : Is(y.ev, K, m)}
    BY <2>1
  <2>3. Count(A \ gone, K, m) = Count(A, K, m)
    BY <2>2 DEF Count, Is
  <2> QED BY <1>1, <2>3
<1> QED BY <1>1, <1>2 DEF Kept

LEMMA SupersededKept ==
  ASSUME NEW A, Ranked(A), NEW M, NEW n
  PROVE  Kept(A, Superseded(A, n), M)
<1>1. /\ Ranked(Superseded(A, n))
      /\ \A K, m : "timeout" \notin K /\ "oldTimeout" \notin K
           => Count(Superseded(A, n), K, m) = Count(A, K, m)
  BY SupersededRanked
<1>2. \A K \in SUBSET Waits : "timeout" \notin K /\ "oldTimeout" \notin K
  BY DEF Waits
<1> QED BY <1>1, <1>2 DEF Kept

(* A frame is sent.                                                        *)
LEMMA SendFrameKept ==
  ASSUME NEW A, Ranked(A), NEW n \in Node, NEW f, NEW kind, kind \notin Waits, NEW d \in Nat,
         SendFrame(n, f, kind, d, A)
  PROVE  Kept(A, agenda', Node)
<1> DEFINE E == [m \in Node \ {n} |-> RxEv(kind, m, f)]
           D == Delay[n]
           B == AddForEach(A, E, D)
<1>1. agenda' = Add(B, d, Ev("txEnd", n))
  BY DEF SendFrame
<1>2. /\ DOMAIN E = Node \ {n} /\ IsFiniteSet(DOMAIN E) /\ DOMAIN E \subseteq Nat
      /\ \A m \in DOMAIN E : D[m] \in Nat
  <2>1. DOMAIN E = Node \ {n} /\ IsFiniteSet(Node \ {n})
    BY FS_RemoveElement
  <2> QED BY <2>1
<1>3. \A k \in DOMAIN E : E[k].kind = kind
  BY DEF RxEv
<1>4. /\ Ranked(B)
      /\ \A K, m : (\A k \in DOMAIN E : ~ Is(E[k], K, m)) => Count(B, K, m) = Count(A, K, m)
  <2>1. IsFiniteSet(DOMAIN E) /\ DOMAIN E \subseteq Nat /\ \A m \in DOMAIN E : D[m] \in Nat
    BY <1>2
  <2> HIDE DEF D, E
  <2> QED BY <2>1, AddForEachRanked
<1> HIDE DEF E, D, B
<1>5. Kept(A, B, Node)
  <2>1. \A K \in SUBSET Waits : \A m : \A k \in DOMAIN E : ~ Is(E[k], K, m)
    BY <1>3 DEF Is
  <2> QED BY <1>4, <2>1 DEF Kept
<1>6. Apart(Ev("txEnd", n), Node)
  BY DEF Apart, Ev, Waits
<1>7. Kept(B, agenda', Node)
  BY <1>1, <1>4, <1>6, AddKept
<1> QED BY <1>5, <1>7, KeptTrans

LEMMA StartTxKept ==
  ASSUME NEW A, Ranked(A), NEW n \in Node, StartTx(n, A)
  PROVE  Kept(A, agenda', Node)
<1>1. CASE state[n] = "IDLE" /\ txPacket[n] # NoFrame
  <2>1. SendFrame(n, txPacket[n], "startRx", AirTime(txPacket[n]), A)
    BY <1>1 DEF StartTx
  <2>2. "startRx" \notin Waits
    BY DEF Waits
  <2> QED BY <2>1, <2>2, SendFrameKept, TimesAreNat
<1>2. CASE ~ (state[n] = "IDLE" /\ txPacket[n] # NoFrame)
  BY <1>2 DEF StartTx, Kept
<1> QED BY <1>1, <1>2

(* DoProcess schedules and cancels other events.                           *)
LEMMA DoProcessKept ==
  ASSUME NEW A, Ranked(A), NEW n \in Node, NEW f, DoProcess(n, f, A)
  PROVE  Kept(A, agenda', Node)
<1>a. \A kind \in {"endCca", "backoff"} : Apart(Ev(kind, n), Node)
  BY DEF Apart, Ev, Waits
<1>1. CASE agenda' = A
  BY <1>1 DEF Kept
<1>2. CASE agenda' = Add(A, CcaTime, Ev("endCca", n))
  BY <1>a, <1>2, AddKept
<1>3. CASE agenda' = Add(Add(A, 0, Ev("backoff", n)), CcaTime, Ev("endCca", n))
  <2>1. Kept(A, Add(A, 0, Ev("backoff", n)), Node)
    BY <1>a, AddKept
  <2>2. Kept(Add(A, 0, Ev("backoff", n)), agenda', Node)
    BY <1>a, <1>3, <2>1, AddKept DEF Kept
  <2> QED BY <2>1, <2>2, KeptTrans
<1>4. CASE agenda' = CancelTimer(A, n)
  <2>1. Timers(A, n) \subseteq A /\ \A y \in Timers(A, n) : Apart(y.ev, Node)
    BY DEF Timers, Apart, Waits
  <2> QED BY <1>4, <2>1, WithoutKept DEF CancelTimer
<1> QED BY <1>1, <1>2, <1>3, <1>4 DEF DoProcess, ReceiveData, ReceiveAck, Discard

---------------------------------------------------------------------------
(* The steps that touch no such event: one runs and at most one follows.   *)
LEMMA QuietKept ==
  ASSUME Ranked(agenda), NEW x, IsHead(agenda, x), x.ev.kind \notin Waits,
         NEW d \in Nat, NEW ev, ev.kind \notin Waits,
         agenda' = After(x) \/ agenda' = Add(After(x), d, ev)
  PROVE  Kept(agenda, agenda', Node)
<1>1. Kept(agenda, After(x), Node)
  BY PopKept DEF After, Apart
<1>2. Apart(ev, Node)
  BY DEF Apart
<1>3. Ranked(After(x))
  BY <1>1 DEF Kept
<1>4. Kept(After(x), Add(After(x), d, ev), Node)
  BY <1>2, <1>3, AddKept
<1>5. Kept(agenda, Add(After(x), d, ev), Node)
  BY <1>1, <1>4, KeptTrans
<1> QED BY <1>1, <1>5

LEMMA CsmaKept ==
  ASSUME Ranked(agenda), BE \in [Node -> Nat], NEW x, x.ev.node \in Node,
         RestartCsmaCa(x) \/ RandomBackoffDelay(x) \/ RequestCca(x) \/ CsmaCaFailure(x)
  PROVE  Kept(agenda, agenda', Node)
<1>1. PICK d \in Nat, kind \in {"startCsma", "backoff", "requestCca", "endCca"} :
        agenda' = After(x) \/ agenda' = Add(After(x), d, Ev(kind, x.ev.node))
  BY CsmaSchedules
<1>2. IsHead(agenda, x) /\ x.ev.kind \in {"startCsma", "backoff", "requestCca", "csmaFailure"}
  BY CsmaSchedules
<1>3. x.ev.kind \notin Waits /\ Ev(kind, x.ev.node).kind \notin Waits
  BY <1>2 DEF Ev, Waits
<1> QED BY <1>1, <1>2, <1>3, QuietKept

LEMMA FrameSentKept ==
  ASSUME Ranked(agenda), NEW x, x.ev.node \in Node, FrameSent(x)
  PROVE  Kept(agenda, agenda', Node)
<1> DEFINE n == x.ev.node
           B == Superseded(After(x), n)
<1>1. /\ IsHead(agenda, x) /\ x.ev.kind = "txEnd"
      /\ agenda' = After(x) \/ agenda' = Add(B, AckTimeout, Ev("timeout", n))
  BY DEF FrameSent, Due
<1>2. Kept(agenda, After(x), Node)
  BY <1>1, PopKept DEF After, Apart, Waits
<1>3. Kept(After(x), B, Node)
  BY <1>2, SupersededKept DEF Kept
<1>4. Ranked(B) /\ Apart(Ev("timeout", n), Node)
  BY <1>3 DEF Kept, Apart, Ev, Waits
<1>5. Kept(B, Add(B, AckTimeout, Ev("timeout", n)), Node)
  BY <1>4, AddKept
<1>6. Kept(agenda, Add(B, AckTimeout, Ev("timeout", n)), Node)
  BY <1>2, <1>3, <1>5, KeptTrans
<1> QED BY <1>1, <1>2, <1>6

(* A signal starts, or interference ends.                                  *)
LEMMA SignalKept ==
  ASSUME Ranked(agenda), NEW x, x.ev.node \in Node,
         StartRx(x) \/ StartRxRedundancy(x) \/ RemoveNoiseSignal(x)
  PROVE  Kept(agenda, agenda', Node)
<1>1. IsHead(agenda, x) /\ x.ev.kind \notin Waits
  BY DEF StartRx, StartRxRedundancy, RemoveNoiseSignal, Due, Waits
<1>2. \E ev : /\ ev.kind \in {"preamble", "redundancyPreamble", "removeNoise"}
               /\ \E d \in Nat : agenda' = After(x) \/ agenda' = Add(After(x), d, ev)
  <2>1. CASE StartRx(x)
    <3>1. (IF x.ev.frame = NoFrame THEN PulseTime ELSE AirTime(x.ev.frame)) \in Nat
      BY TimesAreNat
    <3>2. RxEv("preamble", x.ev.node, x.ev.frame).kind = "preamble"
      BY DEF RxEv
    <3>3. Ev("removeNoise", x.ev.node).kind = "removeNoise"
      BY DEF Ev
    <3> QED BY <2>1, <3>1, <3>2, <3>3 DEF StartRx, Interfere
  <2>2. CASE StartRxRedundancy(x)
    <3>1. PreambleTime + RedundancyTime \in Nat
      OBVIOUS
    <3>2. RxEv("redundancyPreamble", x.ev.node, x.ev.frame).kind = "redundancyPreamble"
      BY DEF RxEv
    <3>3. Ev("removeNoise", x.ev.node).kind = "removeNoise"
      BY DEF Ev
    <3> QED BY <2>2, <3>1, <3>2, <3>3 DEF StartRxRedundancy, Interfere
  <2>3. CASE RemoveNoiseSignal(x)
    <3>1. Ev("removeNoise", x.ev.node).kind = "removeNoise"
      BY DEF Ev
    <3> QED BY <2>3, <3>1 DEF RemoveNoiseSignal
  <2> QED BY <2>1, <2>2, <2>3
<1>3. PICK ev : /\ ev.kind \in {"preamble", "redundancyPreamble", "removeNoise"}
                /\ \E d \in Nat : agenda' = After(x) \/ agenda' = Add(After(x), d, ev)
  BY <1>2
<1>4. ev.kind \notin Waits
  BY <1>3 DEF Waits
<1> QED BY <1>1, <1>3, <1>4, QuietKept

LEMMA EnvironmentKept ==
  ASSUME Ranked(agenda), Environment
  PROVE  Kept(agenda, agenda', Node)
<1>1. PICK t \in Nat, n \in Node, kind \in {"backoff", "startRx"} :
        MayElapse(agenda, t) /\ agenda' = Add(Elapse(agenda, t), 0, Ev(kind, n))
  BY EnvironmentSchedules
<1>2. Kept(agenda, Elapse(agenda, t), Node)
  BY <1>1, ElapseKept
<1>3. Ranked(Elapse(agenda, t)) /\ Apart(Ev(kind, n), Node)
  BY <1>2 DEF Kept, Apart, Ev, Waits
<1>4. Kept(Elapse(agenda, t), agenda', Node)
  BY <1>1, <1>3, AddKept
<1> QED BY <1>2, <1>4, KeptTrans

(* What PLC_HarqMac sends.                                                 *)
LEMMA RedundancyTimes ==
  \A f, ev : RedundancyAirTime(f) \in Nat /\ RxPayloadTime(ev) \in Nat /\ RxHeaderTime(ev) \in Nat
<1> TAKE f, ev
<1>1. AirTime(f) \in Nat /\ PayloadTime(ev.frame) \in Nat
  BY TimesAreNat
<1> QED BY <1>1 DEF RedundancyAirTime, RxPayloadTime, RxHeaderTime

LEMMA SendersKept ==
  ASSUME NEW A, Ranked(A), NEW n \in Node, SendRedundancy(n, A) \/ HarqStartTx(n, A)
  PROVE  Kept(A, agenda', Node)
<1>1. RedundancyKind \notin Waits
  BY DEF RedundancyKind, Waits
<1>2. CASE SendRedundancy(n, A)
  <2>1. CASE SendFrame(n, message[n], RedundancyKind, RedundancyAirTime(message[n]), A)
    BY <1>1, <2>1, SendFrameKept, RedundancyTimes
  <2>2. CASE agenda' = A
    BY <2>2 DEF Kept
  <2> QED BY <1>2, <2>1, <2>2 DEF SendRedundancy
<1>3. CASE HarqStartTx(n, A)
  <2>1. CASE StartTx(n, A)
    BY <2>1, StartTxKept
  <2>2. CASE agenda' = A
    BY <2>2 DEF Kept
  <2> QED BY <1>3, <2>1, <2>2 DEF HarqStartTx
<1> QED BY <1>2, <1>3

LEMMA HarqMacKept ==
  ASSUME Ranked(agenda), NEW x, x.ev.node \in Node,
         HarqEndCca(x) \/ HarqCsmaCaIdle(x) \/ HarqAcknowledgementTimeout(x)
  PROVE  Kept(agenda, agenda', Node)
<1> DEFINE n == x.ev.node
<1>1. IsHead(agenda, x) /\ x.ev.kind \notin Waits
  BY DEF HarqEndCca, HarqCsmaCaIdle, HarqAcknowledgementTimeout, Due, Waits
<1>2. Kept(agenda, After(x), Node)
  BY <1>1, PopKept DEF After, Apart
<1>3. Ranked(After(x))
  BY <1>2 DEF Kept
<1>4. CASE SendRedundancy(n, After(x)) \/ HarqStartTx(n, After(x))
  <2>1. Kept(After(x), agenda', Node)
    BY <1>3, <1>4, SendersKept
  <2> QED BY <1>2, <2>1, KeptTrans
<1>5. CASE agenda' = After(x)
  BY <1>2, <1>5
<1>6. ASSUME NEW d \in Nat, NEW kind \in {"csmaIdle", "csmaFailure", "backoff", "endCca"},
             agenda' = Add(After(x), d, Ev(kind, n))
      PROVE  Kept(agenda, agenda', Node)
  <2>1. Ev(kind, n).kind \notin Waits
    BY DEF Ev, Waits
  <2> QED BY <1>1, <1>6, <2>1, QuietKept
<1>7. CASE HarqEndCca(x)
  <2>1. PICK status : CcaConfirm(n, status, After(x)) \/ HarqNotifyCcaConfirm(n, status, After(x))
    BY <1>7 DEF HarqEndCca
  <2>2. CASE CcaConfirm(n, status, After(x))
    <3>1. AfterBusy(NB[n] + 1) \in {"csmaFailure", "backoff"}
      BY DEF AfterBusy
    <3> QED BY <1>6, <2>2, <3>1 DEF CcaConfirm
  <2>3. CASE HarqNotifyCcaConfirm(n, status, After(x))
    BY <1>4, <1>5, <2>3 DEF HarqNotifyCcaConfirm
  <2> QED BY <2>1, <2>2, <2>3
<1>8. CASE HarqCsmaCaIdle(x)
  BY <1>4, <1>8 DEF HarqCsmaCaIdle
<1>9. CASE HarqAcknowledgementTimeout(x)
  BY <1>5, <1>6, <1>9 DEF HarqAcknowledgementTimeout, IgnoreTimeout, TransmissionFailed, RequestRedundancy
<1> QED BY <1>7, <1>8, <1>9

---------------------------------------------------------------------------
(* The waits stay timed if nothing that bears on them happens, ...         *)
LEMMA TimedKept ==
  ASSUME NEW A, NEW B, NEW w, Timed(A, w), Kept(A, B, Node)
  PROVE  Timed(B, w)
<1>1. \A K \in {{"failureTimeout"}, {"rxPayload"}, {"rxHeader", "redundancyHeader"}} :
        \A n \in Node : Count(B, K, n) = Count(A, K, n)
  BY DEF Kept, Waits
<1> QED BY <1>1 DEF Timed

(* ... or only at a node where they still are.                             *)
LEMMA TimedAt ==
  ASSUME NEW A, NEW B, NEW w, NEW r, NEW n \in Node, Timed(A, w), Kept(A, B, Node \ {n}),
         \A m \in Node \ {n} : r[m] = w[m],
         Count(B, {"failureTimeout"}, n) = IF r[n] /\ Count(B, {"rxPayload"}, n) = 0 THEN 1 ELSE 0,
         r[n] => Count(B, {"rxHeader", "redundancyHeader"}, n) = 0
  PROVE  Timed(B, r)
<1>1. \A K \in {{"failureTimeout"}, {"rxPayload"}, {"rxHeader", "redundancyHeader"}} :
        \A m \in Node \ {n} : Count(B, K, m) = Count(A, K, m)
  BY DEF Kept, Waits
<1>2. ASSUME NEW m \in Node \ {n}
      PROVE  /\ Count(B, {"failureTimeout"}, m) =
                  IF r[m] /\ Count(B, {"rxPayload"}, m) = 0 THEN 1 ELSE 0
             /\ r[m] => Count(B, {"rxHeader", "redundancyHeader"}, m) = 0
  BY <1>1 DEF Timed
<1> QED BY <1>2 DEF Timed

(* At a node that does not wait anything but the failure timer may run ... *)
LEMMA PopIdle ==
  ASSUME NEW A, Ranked(A), NEW w, Timed(A, w), NEW x, IsHead(A, x), x.ev.node \in Node,
         ~ w[x.ev.node], x.ev.kind # "failureTimeout"
  PROVE  Ranked(Pop(A, x)) /\ Timed(Pop(A, x), w)
<1>1. PICK n \in Node : n = x.ev.node
  OBVIOUS
<1>2. Kept(A, Pop(A, x), Node \ {n})
  BY <1>1, PopKept DEF Apart
<1>3. Count(Pop(A, x), {"failureTimeout"}, n) = Count(A, {"failureTimeout"}, n)
  <2>1. ~ Is(x.ev, {"failureTimeout"}, n)
    BY DEF Is
  <2> QED BY <2>1, PopCount
<1>4. Count(A, {"failureTimeout"}, n) = 0 /\ ~ w[n]
  BY <1>1 DEF Timed
<1>5. Timed(Pop(A, x), w)
  BY <1>2, <1>3, <1>4, TimedAt
<1> QED BY <1>2, <1>5 DEF Kept

(* ... and be scheduled.                                                   *)
LEMMA AddIdle ==
  ASSUME NEW A, Ranked(A), NEW w, Timed(A, w), NEW d \in Nat, NEW ev, ev.node \in Node,
         ~ w[ev.node], ev.kind # "failureTimeout"
  PROVE  Timed(Add(A, d, ev), w)
<1>1. PICK n \in Node : n = ev.node
  OBVIOUS
<1>2. Kept(A, Add(A, d, ev), Node \ {n})
  BY <1>1, AddKept DEF Apart
<1>3. Count(Add(A, d, ev), {"failureTimeout"}, n) = Count(A, {"failureTimeout"}, n)
  <2>1. ~ Is(ev, {"failureTimeout"}, n)
    BY DEF Is
  <2> QED BY <2>1, AddRanked
<1>4. Count(A, {"failureTimeout"}, n) = 0 /\ ~ w[n]
  BY <1>1 DEF Timed
<1> QED BY <1>2, <1>3, <1>4, TimedAt

(* The failure timer is cancelled.                                         *)
LEMMA CancelFailure ==
  ASSUME NEW A, Ranked(A), NEW n \in Node, NEW B, B = CancelFailureTimer(A, n)
  PROVE  /\ Ranked(B) /\ Kept(A, B, Node \ {n})
         /\ Count(B, {"failureTimeout"}, n) = 0
         /\ \A K : "failureTimeout" \notin K => Count(B, K, n) = Count(A, K, n)
<1> DEFINE gone == {y \in A : y.ev.kind = "failureTimeout" /\ y.ev.node = n}
<1>1. B = Without(A, gone) /\ gone \subseteq A
  BY DEF CancelFailureTimer
<1>2. \A y \in gone : Apart(y.ev, Node \ {n})
  BY DEF Apart
<1>3. \A y \in A \ gone : ~ Is(y.ev, {"failureTimeout"}, n)
  BY DEF Is
<1>4. \A K : "failureTimeout" \notin K => \A y \in gone : ~ Is(y.ev, K, n)
  BY DEF Is
<1> HIDE DEF gone
<1>5. Kept(A, B, Node \ {n})
  BY <1>1, <1>2, WithoutKept
<1>6. \A K : Count(B, K, n) = Count(A \ gone, K, n)
  BY <1>1, WithoutRanked
<1>7. Count(A \ gone, {"failureTimeout"}, n) = 0
  <2>1. {y \in A \ gone : Is(y.ev, {"failureTimeout"}, n)} = {}
    BY <1>3
  <2> QED BY <2>1, FS_EmptySet DEF Count, Is
<1>8. ASSUME NEW K, "failureTimeout" \notin K
      PROVE  Count(A \ gone, K, n) = Count(A, K, n)
  <2>1. {y \in A \ gone : Is(y.ev, K, n)} = {y \in A : Is(y.ev, K, n)}
    BY <1>4, <1>8
  <2> QED BY <2>1 DEF Count, Is
<1> QED BY <1>5, <1>6, <1>7, <1>8 DEF Kept

(* A header is decided about: its PHY does not wait.                       *)
LEMMA HeaderTimed ==
  ASSUME Ranked(agenda), NEW w, Timed(agenda, w), NEW x, x.ev.node \in Node,
         EndRxHeader(x) \/ RedundancyHeader(x)
  PROVE  Timed(agenda', w)
<1>1. PICK n \in Node : n = x.ev.node
  OBVIOUS
<1>2. IsHead(agenda, x) /\ x.ev.kind \in {"rxHeader", "redundancyHeader"}
  BY DEF EndRxHeader, RedundancyHeader, Due
<1>3. ~ w[n]
  <2>1. Is(x.ev, {"rxHeader", "redundancyHeader"}, n)
    BY <1>1, <1>2 DEF Is
  <2>2. Count(agenda, {"rxHeader", "redundancyHeader"}, n) >= 1
    BY <1>2, <2>1, PopCount
  <2> QED BY <2>2 DEF Timed
<1>4. Ranked(After(x)) /\ Timed(After(x), w)
  BY <1>1, <1>2, <1>3, PopIdle DEF After
<1>5. \E ev : /\ ev.kind \in {"rxPayload", "removeNoise"} /\ ev.node = n
               /\ \E d \in Nat : agenda' = Add(After(x), d, ev)
  <2>1. PayloadTime(x.ev.frame) \in Nat
    BY TimesAreNat
  <2>2. /\ RxEv("rxPayload", n, x.ev.frame).kind = "rxPayload"
        /\ RxEv("rxPayload", n, x.ev.frame).node = n
    BY DEF RxEv
  <2>3. Ev("removeNoise", n).kind = "removeNoise" /\ Ev("removeNoise", n).node = n
    BY DEF Ev
  <2> QED BY <1>1, <2>1, <2>2, <2>3 DEF EndRxHeader, RedundancyHeader, Interfere
<1>6. PICK ev : /\ ev.kind \in {"rxPayload", "removeNoise"} /\ ev.node = n
                /\ \E d \in Nat : agenda' = Add(After(x), d, ev)
  BY <1>5
<1> QED BY <1>3, <1>4, <1>6, AddIdle

(* A preamble ends: the timer of a PHY that waits makes room for what is   *)
(* received.                                                               *)
LEMMA PreambleTimed ==
  ASSUME Ranked(agenda), NEW w, w = awaiting_redundancy, Timed(agenda, w),
         \A n \in Node : w[n] => phyType = "IR", NEW x, x.ev.node \in Node, HarqPreamble(x)
  PROVE  Timed(agenda', w)
<1>1. PICK n \in Node : n = x.ev.node
  OBVIOUS
<1>2. IsHead(agenda, x) /\ x.ev.kind \in {"preamble", "redundancyPreamble"}
  BY DEF HarqPreamble, Due
<1>3. CASE ~ Refuses(n)
  <2>1. ~ w[n]
    BY <1>3 DEF Refuses
  <2>2. Ranked(After(x)) /\ Timed(After(x), w)
    BY <1>1, <1>2, <2>1, PopIdle DEF After
  <2>3. PICK kind \in {"redundancyHeader", "rxHeader"} :
          agenda' = Add(After(x), RxHeaderTime(x.ev), RxEv(kind, n, x.ev.frame))
    BY <1>1, <1>3 DEF HarqPreamble
  <2>4. RxEv(kind, n, x.ev.frame).node = n /\ RxEv(kind, n, x.ev.frame).kind # "failureTimeout"
    BY DEF RxEv
  <2> QED BY <2>1, <2>2, <2>3, <2>4, AddIdle, RedundancyTimes
<1>4. CASE Refuses(n)
  <2> DEFINE A == After(x)
             B == CancelFailureTimer(A, n)
             e == RxEv("rxPayload", n, x.ev.frame)
  <2>1. w[n] /\ agenda' = Add(B, RxPayloadTime(x.ev), e)
    BY <1>1, <1>4 DEF Refuses, HarqPreamble
  <2>2. Kept(agenda, A, Node)
    BY <1>2, PopKept DEF After, Apart, Waits
  <2>3. Count(A, {"rxHeader", "redundancyHeader"}, n) = 0
    <3>1. Timed(A, w)
      BY <2>2, TimedKept
    <3> QED BY <2>1, <3>1 DEF Timed
  <2>4. Ranked(A) /\ Kept(agenda, A, Node \ {n})
    BY <2>2 DEF Kept
  <2>5. e.kind = "rxPayload" /\ e.node = n
    BY DEF RxEv
  <2> HIDE DEF A, e
  <2>6. /\ Ranked(B) /\ Kept(A, B, Node \ {n}) /\ Count(B, {"failureTimeout"}, n) = 0
        /\ Count(B, {"rxHeader", "redundancyHeader"}, n) = 0
    BY <2>3, <2>4, CancelFailure
  <2> HIDE DEF B
  <2>7. /\ ~ Is(e, {"failureTimeout"}, n) /\ ~ Is(e, {"rxHeader", "redundancyHeader"}, n)
        /\ Is(e, {"rxPayload"}, n) /\ Apart(e, Node \ {n})
    BY <2>5 DEF Is, Apart
  <2>8. Kept(B, agenda', Node \ {n})
    BY <2>1, <2>6, <2>7, AddKept, RedundancyTimes
  <2>9. Kept(agenda, agenda', Node \ {n})
    BY <2>4, <2>6, <2>8, KeptTrans
  <2>10. /\ Count(agenda', {"failureTimeout"}, n) = 0
         /\ Count(agenda', {"rxHeader", "redundancyHeader"}, n) = 0
    BY <2>1, <2>6, <2>7, AddRanked, RedundancyTimes
  <2>11. /\ Count(agenda', {"rxPayload"}, n) = Count(B, {"rxPayload"}, n) + 1
         /\ Count(B, {"rxPayload"}, n) \in Nat
    BY <2>1, <2>6, <2>7, AddRanked, RedundancyTimes
  <2>12. Count(agenda', {"rxPayload"}, n) # 0
    BY <2>11
  <2> QED BY <2>9, <2>10, <2>12, TimedAt
<1> QED BY <1>3, <1>4

(* No event of some kinds is pending if none of more kinds is.             *)
LEMMA CountPart ==
  ASSUME NEW A, Ranked(A), NEW n, NEW L, Count(A, L, n) = 0, NEW K \in SUBSET L
  PROVE  Count(A, K, n) = 0
<1> DEFINE S == {y \in A : y.ev.kind \in L /\ y.ev.node = n}
           T == {y \in A : y.ev.kind \in K /\ y.ev.node = n}
<1>1. IsFiniteSet(A) /\ S \subseteq A /\ T \subseteq S
  BY DEF Ranked
<1>2. IsFiniteSet(S) /\ Cardinality(S) = 0
  BY <1>1, FS_Subset DEF Count
<1> HIDE DEF S, T
<1>3. S = {}
  BY <1>2, FS_EmptySet
<1>4. T = {}
  BY <1>1, <1>3
<1> QED BY <1>4, FS_EmptySet DEF Count, T

(* A payload ends, and with it what is received for a wait: either the     *)
(* wait is over or a timer is set.                                         *)
LEMMA PayloadTimed ==
  ASSUME Backed(agenda, state, noise), Timed(agenda, awaiting_redundancy),
         awaiting_redundancy \in [Node -> BOOLEAN], NEW x, x.ev.node \in Node, EndRxRedundancy(x)
  PROVE  Timed(agenda', awaiting_redundancy')
<1>1. PICK n \in Node : n = x.ev.node
  OBVIOUS
<1>2. IsHead(agenda, x) /\ x.ev.kind = "rxPayload" /\ Ranked(agenda)
  BY DEF EndRxRedundancy, Due, Backed
<1> DEFINE A == After(x)
           B == CancelFailureTimer(A, n)
           r == awaiting_redundancy'
<1>3. Kept(agenda, A, Node \ {n})
  BY <1>1, <1>2, PopKept DEF After, Apart
<1>4. Ranked(A) /\ Count(A, Reception, n) = 0
  <2>1. "rxPayload" \in Reception
    BY DEF Reception
  <2>2. Backed(A, [state EXCEPT ![n] = "IDLE"], noise)
    BY <1>1, <1>2, <2>1, PopReception
  <2>3. state \in [Node -> {"IDLE", "TX", "RX"}]
    BY DEF Backed
  <2>4. [state EXCEPT ![n] = "IDLE"][n] # "RX"
    BY <2>3
  <2> QED BY <2>2, <2>4 DEF Backed
<1>5. Decoded(n, x.ev.frame, A) \/ AwaitRedundancy(n, A)
  BY <1>1 DEF EndRxRedundancy
<1> HIDE DEF A
<1>6. Count(A, {"rxPayload"}, n) = 0 /\ Count(A, {"rxHeader", "redundancyHeader"}, n) = 0
  <2>1. {"rxPayload"} \in SUBSET Reception /\ {"rxHeader", "redundancyHeader"} \in SUBSET Reception
    BY DEF Reception
  <2> QED BY <1>4, <2>1, CountPart
<1>7. /\ Ranked(B) /\ Kept(A, B, Node \ {n}) /\ Count(B, {"failureTimeout"}, n) = 0
      /\ Count(B, {"rxPayload"}, n) = 0 /\ Count(B, {"rxHeader", "redundancyHeader"}, n) = 0
  BY <1>4, <1>6, CancelFailure
<1>8. Kept(agenda, B, Node \ {n})
  BY <1>3, <1>7, KeptTrans
<1>9. CASE Decoded(n, x.ev.frame, A)
  <2>1. DoProcess(n, x.ev.frame, B) /\ r = [awaiting_redundancy EXCEPT ![n] = FALSE]
    BY <1>9 DEF Decoded
  <2>2. ~ r[n] /\ \A m \in Node \ {n} : r[m] = awaiting_redundancy[m]
    BY <2>1
  <2> HIDE DEF B, r
  <2>3. Kept(B, agenda', Node)
    BY <1>7, <2>1, DoProcessKept
  <2>4. Kept(B, agenda', Node \ {n}) /\ Count(agenda', {"failureTimeout"}, n) = 0
    BY <1>7, <2>3 DEF Kept, Waits
  <2>5. Kept(agenda, agenda', Node \ {n})
    BY <1>8, <2>4, KeptTrans
  <2>6. Timed(agenda', r)
    BY <2>2, <2>4, <2>5, TimedAt
  <2> QED BY <2>6 DEF r
<1>10. CASE AwaitRedundancy(n, A)
  <2> DEFINE e == Ev("failureTimeout", n)
  <2>1. agenda' = Add(B, FailureTimeout, e) /\ r = [awaiting_redundancy EXCEPT ![n] = TRUE]
    BY <1>10 DEF AwaitRedundancy
  <2>2. r[n] /\ \A m \in Node \ {n} : r[m] = awaiting_redundancy[m]
    BY <2>1
  <2>3. /\ Is(e, {"failureTimeout"}, n) /\ Apart(e, Node \ {n})
        /\ ~ Is(e, {"rxPayload"}, n) /\ ~ Is(e, {"rxHeader", "redundancyHeader"}, n)
    BY DEF Is, Apart, Ev
  <2> HIDE DEF B, r, e
  <2>4. /\ Count(agenda', {"failureTimeout"}, n) = 1 /\ Count(agenda', {"rxPayload"}, n) = 0
        /\ Count(agenda', {"rxHeader", "redundancyHeader"}, n) = 0
    BY <1>7, <2>1, <2>3, AddRanked
  <2>5. Kept(B, agenda', Node \ {n})
    BY <1>7, <2>1, <2>3, AddKept
  <2>6. Kept(agenda, agenda', Node \ {n})
    BY <1>8, <2>5, KeptTrans
  <2>7. Timed(agenda', r)
    BY <2>2, <2>4, <2>6, TimedAt
  <2> QED BY <2>7 DEF r
<1> QED BY <1>5, <1>9, <1>10

(* The failure timer expires.                                              *)
LEMMA FailureTimed ==
  ASSUME Ranked(agenda), Timed(agenda, awaiting_redundancy),
         awaiting_redundancy \in [Node -> BOOLEAN], NEW x, x.ev.node \in Node,
         ReceptionFailureTimeout(x)
  PROVE  Timed(agenda', awaiting_redundancy')
<1>1. PICK n \in Node : n = x.ev.node
  OBVIOUS
<1> DEFINE r == awaiting_redundancy'
<1>2. /\ IsHead(agenda, x) /\ x.ev.kind = "failureTimeout" /\ agenda' = Pop(agenda, x)
      /\ r = [awaiting_redundancy EXCEPT ![n] = FALSE]
  BY <1>1 DEF ReceptionFailureTimeout, Due, After
<1>3. ~ r[n] /\ \A m \in Node \ {n} : r[m] = awaiting_redundancy[m]
  BY <1>2
<1>4. Kept(agenda, agenda', Node \ {n})
  BY <1>1, <1>2, PopKept DEF Apart
<1>5. Count(agenda', {"failureTimeout"}, n) = 0
  <2>1. Is(x.ev, {"failureTimeout"}, n)
    BY <1>1, <1>2 DEF Is
  <2>2. /\ Count(agenda', {"failureTimeout"}, n) = Count(agenda, {"failureTimeout"}, n) - 1
        /\ Count(agenda, {"failureTimeout"}, n) >= 1
    BY <1>2, <2>1, PopCount
  <2>3. Count(agenda, {"failureTimeout"}, n) \in {0, 1}
    BY DEF Timed
  <2> QED BY <2>2, <2>3
<1> HIDE DEF r
<1>6. Timed(agenda', r)
  BY <1>3, <1>4, <1>5, TimedAt
<1> QED BY <1>6 DEF r

---------------------------------------------------------------------------
(* The PHYs' states follow the agenda through the steps of PLC_HarqMac,    *)
LEMMA SendersBacked ==
  ASSUME NEW A, Backed(A, state, noise), NEW n \in Node, SendRedundancy(n, A) \/ HarqStartTx(n, A)
  PROVE  Backed(agenda', state', noise)
<1>1. Quiet(RedundancyKind)
  BY KindsApart DEF RedundancyKind
<1>2. CASE SendRedundancy(n, A)
  <2>1. CASE /\ state[n] = "IDLE"
             /\ SendFrame(n, message[n], RedundancyKind, RedundancyAirTime(message[n]), A)
    BY <1>1, <2>1, SendFrameBacked, RedundancyTimes
  <2>2. CASE agenda' = A /\ state' = state
    BY <2>2
  <2> QED BY <1>2, <2>1, <2>2 DEF SendRedundancy
<1>3. CASE HarqStartTx(n, A)
  <2>1. CASE StartTx(n, A)
    BY <2>1, StartTxBacked
  <2>2. CASE agenda' = A /\ state' = state
    BY <2>2
  <2> QED BY <1>3, <2>1, <2>2 DEF HarqStartTx
<1> QED BY <1>2, <1>3

LEMMA HarqMacBacked ==
  ASSUME Backed(agenda, state, noise), NEW x, x.ev.node \in Node,
         HarqEndCca(x) \/ HarqCsmaCaIdle(x) \/ HarqAcknowledgementTimeout(x)
  PROVE  Backed(agenda', state', noise')
<1> DEFINE n == x.ev.node
<1>1. /\ IsHead(agenda, x) /\ x.ev.kind \in {"endCca", "csmaIdle", "timeout", "oldTimeout"}
  BY DEF HarqEndCca, HarqCsmaCaIdle, HarqAcknowledgementTimeout, Due
<1>2. Quiet(x.ev.kind)
  BY <1>1, KindsApart
<1>3. Backed(After(x), state, noise)
  BY <1>1, <1>2, PopQuiet DEF After
<1>4. CASE HarqEndCca(x)
  <2>1. PICK status : CcaConfirm(n, status, After(x)) \/ HarqNotifyCcaConfirm(n, status, After(x))
    BY <1>4 DEF HarqEndCca
  <2>2. CASE CcaConfirm(n, status, After(x))
    BY <1>3, <2>2, CcaConfirmBacked
  <2>3. CASE HarqNotifyCcaConfirm(n, status, After(x))
    <3>1. noise' = noise
      BY <2>3 DEF HarqNotifyCcaConfirm
    <3>2. CASE SendRedundancy(n, After(x)) \/ HarqStartTx(n, After(x))
      BY <1>3, <3>1, <3>2, SendersBacked
    <3>3. CASE agenda' = After(x) /\ state' = state
      BY <1>3, <3>1, <3>3
    <3> QED BY <2>3, <3>2, <3>3 DEF HarqNotifyCcaConfirm
  <2> QED BY <2>1, <2>2, <2>3
<1>5. CASE HarqCsmaCaIdle(x)
  <2>1. noise' = noise /\ HarqStartTx(n, After(x))
    BY <1>5 DEF HarqCsmaCaIdle
  <2> QED BY <1>3, <2>1, SendersBacked
<1>6. CASE HarqAcknowledgementTimeout(x)
  <2>1. /\ UNCHANGED phy
        /\ agenda' = After(x) \/ agenda' = Add(After(x), CcaTime, Ev("endCca", n))
    BY <1>6 DEF HarqAcknowledgementTimeout, IgnoreTimeout, TransmissionFailed, RequestRedundancy
  <2>2. Quiet(Ev("endCca", n).kind)
    BY KindsApart DEF Ev
  <2> QED BY <1>1, <1>2, <2>1, <2>2, QuietBacked
<1> QED BY <1>4, <1>5, <1>6

(* through the receptions of redundancy,                                   *)
LEMMA CancelFailureBacked ==
  ASSUME NEW A, NEW s, NEW z, Backed(A, s, z), NEW n
  PROVE  Backed(CancelFailureTimer(A, n), s, z)
<1> DEFINE gone == {y \in A : y.ev.kind = "failureTimeout" /\ y.ev.node = n}
<1>1. gone \subseteq A /\ \A y \in gone : Quiet(y.ev.kind)
  BY KindsApart
<1>2. CancelFailureTimer(A, n) = Without(A, gone)
  BY DEF CancelFailureTimer
<1> HIDE DEF gone
<1> QED BY <1>1, <1>2, CancelBacked

LEMMA StartRxRedundancyBacked ==
  ASSUME Backed(agenda, state, noise), NEW x, x.ev.node \in Node, StartRxRedundancy(x)
  PROVE  Backed(agenda', state', noise')
<1> DEFINE n == x.ev.node
           f == x.ev.frame
<1>1. IsHead(agenda, x) /\ x.ev.kind = "startRedundancy"
  BY DEF StartRxRedundancy, Due
<1>2. Backed(After(x), state, noise)
  BY <1>1, PopQuiet, KindsApart DEF After
<1>3. CASE /\ CanLock(n, f) /\ state' = [state EXCEPT ![n] = "RX"] /\ noise' = noise
           /\ agenda' = Add(After(x), PreambleTime, RxEv("redundancyPreamble", n, f))
  <2>1. state[n] = "IDLE" /\ "redundancyPreamble" \in Reception
    BY <1>3 DEF CanLock, Reception
  <2> QED BY <1>2, <1>3, <2>1, AddRxEvent, KindsApart
<1>4. CASE Interfere(n, PreambleTime + RedundancyTime, After(x)) /\ state' = state
  <2>1. PreambleTime + RedundancyTime \in Nat
    OBVIOUS
  <2> QED BY <1>2, <1>4, <2>1, InterfereBacked
<1> QED BY <1>3, <1>4 DEF StartRxRedundancy

LEMMA HarqPreambleBacked ==
  ASSUME Backed(agenda, state, noise), NEW x, x.ev.node \in Node, HarqPreamble(x)
  PROVE  Backed(agenda', state', noise')
<1> DEFINE n == x.ev.node
           r == [state EXCEPT ![n] = "IDLE"]
<1>1. /\ IsHead(agenda, x) /\ x.ev.kind \in Reception /\ UNCHANGED phy
      /\ {"rxPayload", "rxHeader", "redundancyHeader"} \subseteq Reception
  BY DEF HarqPreamble, Due, Reception
<1>2. state[n] = "RX" /\ Backed(After(x), r, noise) /\ state \in [Node -> {"IDLE", "TX", "RX"}]
  BY <1>1, PopReception DEF Backed
<1>3. CASE Refuses(n)
  <2>1. agenda' = Add(CancelFailureTimer(After(x), n), RxPayloadTime(x.ev),
                      RxEv("rxPayload", n, x.ev.frame))
    BY <1>3 DEF HarqPreamble
  <2>2. Backed(CancelFailureTimer(After(x), n), r, noise)
    BY <1>2, CancelFailureBacked
  <2> QED BY <1>1, <1>2, <2>1, <2>2, ReceptionGoesOn, RedundancyTimes
<1>4. CASE ~ Refuses(n)
  <2>1. PICK kind \in {"redundancyHeader", "rxHeader"} :
          agenda' = Add(After(x), RxHeaderTime(x.ev), RxEv(kind, n, x.ev.frame))
    BY <1>4 DEF HarqPreamble
  <2> QED BY <1>1, <1>2, <2>1, ReceptionGoesOn, RedundancyTimes
<1> QED BY <1>3, <1>4

LEMMA RedundancyHeaderBacked ==
  ASSUME Backed(agenda, state, noise), NEW x, x.ev.node \in Node, RedundancyHeader(x)
  PROVE  Backed(agenda', state', noise')
<1>1. /\ IsHead(agenda, x) /\ x.ev.kind \in Reception /\ Interfere(x.ev.node, RedundancyTime, After(x))
      /\ state' = [state EXCEPT ![x.ev.node] = "IDLE"]
  BY DEF RedundancyHeader, Due, Reception
<1>2. Backed(After(x), state', noise)
  BY <1>1, PopReception
<1> QED BY <1>1, <1>2, InterfereBacked

LEMMA EndRxRedundancyBacked ==
  ASSUME Backed(agenda, state, noise), NEW x, x.ev.node \in Node, EndRxRedundancy(x)
  PROVE  Backed(agenda', state', noise')
<1> DEFINE n == x.ev.node
           B == CancelFailureTimer(After(x), n)
<1>1. /\ IsHead(agenda, x) /\ x.ev.kind \in Reception /\ noise' = noise
      /\ state' = [state EXCEPT ![n] = "IDLE"]
      /\ DoProcess(n, x.ev.frame, B) \/ agenda' = Add(B, FailureTimeout, Ev("failureTimeout", n))
  BY DEF EndRxRedundancy, Due, Reception, Decoded, AwaitRedundancy
<1>2. Backed(After(x), state', noise)
  BY <1>1, PopReception
<1>3. Backed(B, state', noise)
  BY <1>2, CancelFailureBacked
<1>4. Quiet(Ev("failureTimeout", n).kind)
  BY KindsApart DEF Ev
<1> HIDE DEF B
<1>5. CASE DoProcess(n, x.ev.frame, B)
  BY <1>1, <1>3, <1>5, DoProcessBacked
<1>6. CASE agenda' = Add(B, FailureTimeout, Ev("failureTimeout", n))
  BY <1>1, <1>3, <1>4, <1>6, AddQuiet
<1> QED BY <1>1, <1>5, <1>6

(* and when a wait ends.                                                   *)
LEMMA FailureBacked ==
  ASSUME Backed(agenda, state, noise), NEW x, x.ev.node \in Node, ReceptionFailureTimeout(x)
  PROVE  Backed(agenda', state', noise')
<1>1. /\ IsHead(agenda, x) /\ x.ev.kind = "failureTimeout" /\ agenda' = Pop(agenda, x) /\ UNCHANGED phy
  BY DEF ReceptionFailureTimeout, Due, After
<1>2. Backed(Pop(agenda, x), state, noise)
  BY <1>1, PopQuiet, KindsApart
<1> QED BY <1>1, <1>2 DEF phy

---------------------------------------------------------------------------
(* The steps that are PLC_HarqMac's and its PHYs' own keep the invariant   *)
(* of the ARQ: the frames PHYs remember are accounted for like the others. *)
LEMMA HarqQuietInv ==
  ASSUME IInv, UNCHANGED <<arq, history, bounds>>, Accounted(agenda', accepted, delivered),
         csmaca_active' \in [Node -> BOOLEAN], UNCHANGED <<NB, BE, csmaca_attempts>>,
         Backed(agenda', state', noise')
  PROVE  IInv'
<1>1. LowTypes'
  BY DEF IInv, TypeOK, LowTypes, Backed
<1> QED BY <1>1, QuietInv

LEMMA SendersAccounted ==
  ASSUME IInv, NEW n \in Node, KnownFrame(message[n], accepted, delivered),
         NEW A, Accounted(A, accepted, delivered), SendRedundancy(n, A) \/ HarqStartTx(n, A)
  PROVE  Accounted(agenda', accepted, delivered)
<1>1. RedundancyKind \in Kind \ Reception
  BY DEF RedundancyKind, Kind, Reception
<1>2. CASE SendRedundancy(n, A)
  <2>1. CASE SendFrame(n, message[n], RedundancyKind, RedundancyAirTime(message[n]), A)
    BY <1>1, <2>1, SendFrameFacts, RedundancyTimes
  <2>2. CASE agenda' = A
    BY <2>2
  <2> QED BY <1>2, <2>1, <2>2 DEF SendRedundancy
<1>3. CASE HarqStartTx(n, A)
  <2>1. CASE StartTx(n, A)
    BY <2>1, StartTxFacts
  <2>2. CASE agenda' = A
    BY <2>2
  <2> QED BY <1>3, <2>1, <2>2 DEF HarqStartTx
<1> QED BY <1>2, <1>3

LEMMA HarqMacInv ==
  ASSUME IInv, Backed(agenda', state', noise'), NEW x, x.ev.node \in Node,
         KnownFrame(message[x.ev.node], accepted, delivered),
         HarqEndCca(x) \/ HarqCsmaCaIdle(x) \/ HarqAcknowledgementTimeout(x)
  PROVE  IInv'
<1> DEFINE n == x.ev.node
<1>1. IsHead(agenda, x)
  BY DEF HarqEndCca, HarqCsmaCaIdle, HarqAcknowledgementTimeout, Due
<1>2. Accounted(After(x), accepted, delivered)
  BY <1>1, HeadFacts
<1>t. /\ csmaca_active \in [Node -> BOOLEAN] /\ NB \in [Node -> Nat]
      /\ BE \in [Node -> Nat] /\ csmaca_attempts \in [Node -> 0 .. MaxAttempts]
  BY DEF IInv, TypeOK
<1>3. CASE HarqEndCca(x)
  <2>1. PICK status \in ClearChannelAssessment(n) :
          CcaConfirm(n, status, After(x)) \/ HarqNotifyCcaConfirm(n, status, After(x))
    BY <1>3 DEF HarqEndCca
  <2>2. CASE CcaConfirm(n, status, After(x))
    <3>1. EndCca(x)
      BY <1>3, <2>2 DEF HarqEndCca, EndCca
    <3> QED BY <3>1, CsmaSteps
  <2>3. CASE HarqNotifyCcaConfirm(n, status, After(x))
    <3>1. UNCHANGED csma /\ UNCHANGED <<arq, history, bounds>>
      BY <1>3, <2>3 DEF HarqEndCca, HarqNotifyCcaConfirm
    <3>2. CASE SendRedundancy(n, After(x)) \/ HarqStartTx(n, After(x))
      <4>1. Accounted(agenda', accepted, delivered)
        BY <1>2, <3>2, SendersAccounted
      <4> QED BY <1>t, <3>1, <4>1, HarqQuietInv DEF csma
    <3>3. CASE agenda' = After(x)
      BY <1>t, <1>2, <3>1, <3>3, HarqQuietInv DEF csma
    <3> QED BY <2>3, <3>2, <3>3 DEF HarqNotifyCcaConfirm
  <2> QED BY <2>1, <2>2, <2>3
<1>4. CASE HarqCsmaCaIdle(x)
  <2>1. /\ csmaca_active' = [csmaca_active EXCEPT ![n] = FALSE] /\ HarqStartTx(n, After(x))
        /\ UNCHANGED <<NB, BE, csmaca_attempts, arq, history, bounds>>
    BY <1>4 DEF HarqCsmaCaIdle
  <2>2. Accounted(agenda', accepted, delivered)
    BY <1>2, <2>1, SendersAccounted
  <2>3. csmaca_active' \in [Node -> BOOLEAN]
    BY <1>t, <2>1
  <2> QED BY <2>1, <2>2, <2>3, HarqQuietInv
<1>5. CASE HarqAcknowledgementTimeout(x)
  <2>1. UNCHANGED <<txPacket, sequence_number, phy, accepted, delivered, acked, bounds>>
    BY <1>5 DEF HarqAcknowledgementTimeout
  <2>2. CASE IgnoreTimeout(n, After(x)) \/ TransmissionFailed(n, After(x))
    BY <1>2, <2>1, <2>2, GiveUpStep
  <2>3. CASE RequestRedundancy(n, After(x))
    <3>1. /\ replays[n] <= MaxReplays /\ replays' = [replays EXCEPT ![n] = @ + 1]
          /\ agenda' = Add(After(x), CcaTime, Ev("endCca", n))
          /\ UNCHANGED <<csma, awaiting_ack, failed>>
      BY <2>3 DEF RequestRedundancy
    <3>2. "endCca" \in Kind \ Reception
      BY DEF Kind, Reception
    <3>3. Accounted(agenda', accepted, delivered)
      BY <1>2, <3>1, <3>2, AddPlain
    <3> QED BY <1>t, <2>1, <3>1, <3>3, RetryStep DEF csma
  <2> QED BY <1>5, <2>2, <2>3 DEF HarqAcknowledgementTimeout
<1> QED BY <1>3, <1>4, <1>5

LEMMA HarqPhySteps ==
  ASSUME IInv, Backed(agenda', state', noise'), NEW x, x.ev.node \in Node,
         StartRxRedundancy(x) \/ HarqPreamble(x) \/ RedundancyHeader(x) \/ ReceptionFailureTimeout(x)
  PROVE  IInv'
<1> DEFINE n == x.ev.node
           f == x.ev.frame
           B == CancelFailureTimer(After(x), n)
<1>1. IsHead(agenda, x)
  BY DEF StartRxRedundancy, HarqPreamble, RedundancyHeader, ReceptionFailureTimeout, Due
<1>2. Accounted(After(x), accepted, delivered) /\ KnownFrame(f, accepted, delivered)
  BY <1>1, HeadFacts
<1>3. x.ev.kind \in Reception => f # NoFrame
  BY <1>1, HeadFacts DEF Event
<1>4. UNCHANGED <<arq, history, bounds>> /\ UNCHANGED csma
  BY DEF StartRxRedundancy, HarqPreamble, RedundancyHeader, ReceptionFailureTimeout
<1>5. csmaca_active \in [Node -> BOOLEAN]
  BY DEF IInv, TypeOK
<1>6. {"rxPayload", "rxHeader", "redundancyHeader", "redundancyPreamble"} \subseteq Kind
  BY DEF Kind
<1>7. Accounted(B, accepted, delivered)
  BY <1>2, WithoutAccounted DEF CancelFailureTimer
<1>i. ASSUME NEW d \in Nat, Interfere(n, d, After(x)) PROVE Accounted(agenda', accepted, delivered)
  BY <1>2, <1>i, InterfereFacts
<1>8. Accounted(agenda', accepted, delivered)
  <2>1. CASE StartRxRedundancy(x)
    <3>1. CASE f # NoFrame /\ agenda' = Add(After(x), PreambleTime, RxEv("redundancyPreamble", n, f))
      BY <1>2, <1>6, <3>1, AddRx
    <3>2. CASE Interfere(n, PreambleTime + RedundancyTime, After(x))
      BY <1>i, <3>2
    <3> QED BY <2>1, <3>1, <3>2 DEF StartRxRedundancy, CanLock
  <2>2. CASE HarqPreamble(x)
    <3>1. f # NoFrame
      BY <1>3, <2>2 DEF HarqPreamble, Due, Reception
    <3>2. CASE agenda' = Add(B, RxPayloadTime(x.ev), RxEv("rxPayload", n, f))
      <4> HIDE DEF B
      <4> QED BY <1>2, <1>6, <1>7, <3>1, <3>2, AddRx, RedundancyTimes
    <3>3. ASSUME NEW kind \in {"redundancyHeader", "rxHeader"},
                 agenda' = Add(After(x), RxHeaderTime(x.ev), RxEv(kind, n, f))
          PROVE  Accounted(agenda', accepted, delivered)
      BY <1>2, <1>6, <3>1, <3>3, AddRx, RedundancyTimes
    <3> QED BY <2>2, <3>2, <3>3 DEF HarqPreamble
  <2>3. CASE RedundancyHeader(x)
    BY <1>i, <2>3 DEF RedundancyHeader
  <2>4. CASE ReceptionFailureTimeout(x)
    BY <1>2, <2>4 DEF ReceptionFailureTimeout
  <2> QED BY <2>1, <2>2, <2>3, <2>4
<1> QED BY <1>4, <1>5, <1>8, HarqQuietInv DEF csma

LEMMA EndRxRedundancyInv ==
  ASSUME IInv, Backed(agenda', state', noise'), NEW x, x.ev.node \in Node, EndRxRedundancy(x)
  PROVE  IInv'
<1> DEFINE n == x.ev.node
           f == x.ev.frame
           B == CancelFailureTimer(After(x), n)
<1>1. IsHead(agenda, x) /\ x.ev.kind \in Reception /\ noise' = noise
  BY DEF EndRxRedundancy, Due, Reception
<1>2. /\ Accounted(After(x), accepted, delivered) /\ KnownFrame(f, accepted, delivered)
      /\ f # NoFrame
  BY <1>1, HeadFacts DEF Event
<1>3. Accounted(B, accepted, delivered)
  BY <1>2, WithoutAccounted DEF CancelFailureTimer
<1>4. state' \in [Node -> {"IDLE", "TX", "RX"}]
  BY DEF Backed
<1>5. CASE DoProcess(n, f, B)
  <2> HIDE DEF B
  <2> QED BY <1>1, <1>2, <1>3, <1>4, <1>5, ProcessStep
<1>6. CASE /\ agenda' = Add(B, FailureTimeout, Ev("failureTimeout", n))
           /\ UNCHANGED csma /\ UNCHANGED <<arq, history, bounds>>
  <2>1. "failureTimeout" \in Kind \ Reception /\ csmaca_active \in [Node -> BOOLEAN]
    BY DEF Kind, Reception, IInv, TypeOK
  <2> HIDE DEF B
  <2>2. Accounted(agenda', accepted, delivered)
    BY <1>3, <1>6, <2>1, AddPlain
  <2> QED BY <1>6, <2>1, <2>2, HarqQuietInv DEF csma
<1> QED BY <1>5, <1>6 DEF EndRxRedundancy, Decoded, AwaitRedundancy

---------------------------------------------------------------------------
(* What the PHYs remember of a frame stays accounted for.                  *)
Remembers ==
  /\ phyType \in {"CC", "IR"} /\ message \in [Node -> Frame \cup {NoFrame}]
  /\ encoded \in [Node -> BOOLEAN] /\ awaiting_redundancy \in [Node -> BOOLEAN]
  /\ aborted \in BOOLEAN
  /\ \A n \in Node : KnownFrame(message[n], accepted, delivered)
  /\ \A n \in Node : awaiting_redundancy[n] => phyType = "IR"

LEMMA HarqInvParts ==
  HarqInv <=> IInv /\ PhyInv /\ Timed(agenda, awaiting_redundancy) /\ Remembers
BY DEF HarqInv, HarqTypeOK, Remembers, IInv

LEMMA HarqInvPartsPrimed ==
  ASSUME IInv', PhyInv', Timed(agenda', awaiting_redundancy'), Remembers'
  PROVE  HarqInv'
BY DEF HarqInv, HarqTypeOK, Remembers, IInv

LEMMA RemembersGrows ==
  ASSUME Remembers, UNCHANGED redundancy, accepted \subseteq accepted', delivered \subseteq delivered'
  PROVE  Remembers'
<1>1. \A f : KnownFrame(f, accepted, delivered) => KnownFrame(f, accepted', delivered')
  BY AccountedGrows
<1> QED BY <1>1 DEF Remembers, redundancy, sender

LEMMA DoProcessGrows ==
  ASSUME NEW n, NEW f, NEW A, DoProcess(n, f, A)
  PROVE  accepted \subseteq accepted' /\ delivered \subseteq delivered'
BY DEF DoProcess, ReceiveData, ReceiveAck, Discard, DoSendFrom, history

LEMMA CommonGrows ==
  ASSUME NEW x, CommonProcess(x)
  PROVE  UNCHANGED redundancy /\ accepted \subseteq accepted' /\ delivered \subseteq delivered'
<1>1. UNCHANGED redundancy
  BY DEF CommonProcess
<1>2. CASE UNCHANGED history
  BY <1>1, <1>2 DEF history
<1>3. CASE DoProcess(x.ev.node, x.ev.frame, After(x))
  BY <1>1, <1>3, DoProcessGrows
<1> QED BY <1>2, <1>3 DEF CommonProcess, RestartCsmaCa, RandomBackoffDelay, RequestCca, CsmaCaFailure,
        FrameSent, StartRx, EndRxHeader, EndRxPayload, RemoveNoiseSignal

LEMMA EnvironmentGrows ==
  ASSUME Environment
  PROVE  accepted \subseteq accepted' /\ delivered \subseteq delivered'
BY DEF Environment, Send, PulseStart, DoSendFrom, history

(* DoStartTx and SendRedundancy.                                           *)
LEMMA SendersRemember ==
  ASSUME IInv, Remembers, NEW n \in Node, NEW A, SendRedundancy(n, A) \/ HarqStartTx(n, A),
         UNCHANGED <<accepted, delivered>>
  PROVE  Remembers'
<1>1. txPacket[n] \in Frame \cup {NoFrame} /\ KnownFrame(txPacket[n], accepted, delivered)
  BY DEF IInv, TypeOK, FramesOK
<1>2. CASE SendRedundancy(n, A)
  <2>1. UNCHANGED <<phyType, message, encoded, awaiting_redundancy>> /\ aborted' \in BOOLEAN
    BY <1>2 DEF SendRedundancy
  <2> QED BY <2>1 DEF Remembers
<1>3. CASE HarqStartTx(n, A)
  <2>1. UNCHANGED <<phyType, aborted, awaiting_redundancy>>
    BY <1>3 DEF HarqStartTx
  <2>2. CASE UNCHANGED <<message, encoded>>
    BY <2>1, <2>2 DEF Remembers
  <2>3. CASE /\ message' = [message EXCEPT ![n] = txPacket[n]]
             /\ encoded' = [encoded EXCEPT ![n] = @ \/ (phyType = "CC" /\ state[n] = "IDLE")]
    <3>1. /\ message' \in [Node -> Frame \cup {NoFrame}] /\ encoded' \in [Node -> BOOLEAN]
          /\ \A m \in Node : KnownFrame(message'[m], accepted, delivered)
      BY <1>1, <2>3 DEF Remembers
    <3> QED BY <2>1, <3>1 DEF Remembers
  <2> QED BY <1>3, <2>2, <2>3 DEF HarqStartTx, Remembered
<1> QED BY <1>2, <1>3

LEMMA HarqMacRemembers ==
  ASSUME IInv, Remembers, NEW x, x.ev.node \in Node,
         HarqEndCca(x) \/ HarqCsmaCaIdle(x) \/ HarqAcknowledgementTimeout(x)
  PROVE  Remembers'
<1>1. UNCHANGED <<accepted, delivered>>
  BY DEF HarqEndCca, HarqCsmaCaIdle, HarqAcknowledgementTimeout, history
<1>2. CASE SendRedundancy(x.ev.node, After(x)) \/ HarqStartTx(x.ev.node, After(x))
  BY <1>1, <1>2, SendersRemember
<1>3. CASE UNCHANGED redundancy
  BY <1>1, <1>3, RemembersGrows
<1> QED BY <1>2, <1>3 DEF HarqEndCca, HarqCsmaCaIdle, HarqAcknowledgementTimeout, HarqNotifyCcaConfirm

(* A wait for redundancy begins or ends.                                   *)
LEMMA WaitRemembers ==
  ASSUME Remembers, NEW n \in Node, NEW b \in BOOLEAN, b => phyType = "IR",
         message' = message \/ message' = [message EXCEPT ![n] = NoFrame],
         awaiting_redundancy' = [awaiting_redundancy EXCEPT ![n] = b],
         UNCHANGED <<phyType, encoded, aborted>>,
         accepted \subseteq accepted', delivered \subseteq delivered'
  PROVE  Remembers'
<1>1. \A f : KnownFrame(f, accepted, delivered) => KnownFrame(f, accepted', delivered')
  BY AccountedGrows
<1>2. KnownFrame(NoFrame, accepted', delivered')
  BY DEF KnownFrame
<1>3. message' \in [Node -> Frame \cup {NoFrame}] /\ awaiting_redundancy' \in [Node -> BOOLEAN]
  BY DEF Remembers
<1>4. \A m \in Node : message'[m] = message[m] \/ message'[m] = NoFrame
  BY DEF Remembers
<1>5. \A m \in Node : awaiting_redundancy'[m] => phyType' = "IR"
  BY DEF Remembers
<1>6. \A m \in Node : KnownFrame(message'[m], accepted', delivered')
  BY <1>1, <1>2, <1>4 DEF Remembers
<1> QED BY <1>3, <1>5, <1>6 DEF Remembers

LEMMA HarqPhyRemembers ==
  ASSUME Remembers, NEW x, x.ev.node \in Node,
         StartRxRedundancy(x) \/ HarqPreamble(x) \/ RedundancyHeader(x)
         \/ EndRxRedundancy(x) \/ ReceptionFailureTimeout(x)
  PROVE  Remembers'
<1> DEFINE n == x.ev.node
<1>1. CASE StartRxRedundancy(x) \/ HarqPreamble(x) \/ RedundancyHeader(x)
  <2>1. UNCHANGED redundancy /\ UNCHANGED history
    BY <1>1 DEF StartRxRedundancy, HarqPreamble, RedundancyHeader
  <2> QED BY <2>1, RemembersGrows DEF history
<1>2. CASE ReceptionFailureTimeout(x)
  <2>1. /\ message' = [message EXCEPT ![n] = NoFrame]
        /\ awaiting_redundancy' = [awaiting_redundancy EXCEPT ![n] = FALSE]
        /\ UNCHANGED <<phyType, encoded, aborted>> /\ UNCHANGED history
    BY <1>2 DEF ReceptionFailureTimeout
  <2> QED BY <2>1, WaitRemembers DEF history
<1>3. CASE EndRxRedundancy(x)
  <2>1. phyType = "IR" /\ UNCHANGED <<phyType, encoded, aborted>>
    BY <1>3 DEF EndRxRedundancy
  <2>2. CASE Decoded(n, x.ev.frame, After(x))
    <3>1. accepted \subseteq accepted' /\ delivered \subseteq delivered'
      BY <2>2, DoProcessGrows DEF Decoded
    <3>2. /\ message' = [message EXCEPT ![n] = NoFrame]
          /\ awaiting_redundancy' = [awaiting_redundancy EXCEPT ![n] = FALSE]
      BY <2>2 DEF Decoded
    <3> QED BY <2>1, <3>1, <3>2, WaitRemembers
  <2>3. CASE AwaitRedundancy(n, After(x))
    <3>1. /\ message' = message /\ UNCHANGED history
          /\ awaiting_redundancy' = [awaiting_redundancy EXCEPT ![n] = TRUE]
      BY <2>3 DEF AwaitRedundancy
    <3> QED BY <2>1, <3>1, WaitRemembers DEF history
  <2> QED BY <1>3, <2>2, <2>3 DEF EndRxRedundancy
<1> QED BY <1>1, <1>2, <1>3

(* EndRxPayload of PLC_ChaseCombiningPhy, which never waits.               *)
LEMMA ChasePayloadTimed ==
  ASSUME Ranked(agenda), NEW w, Timed(agenda, w), NEW x, x.ev.node \in Node, ~ w[x.ev.node],
         EndRxPayload(x)
  PROVE  Timed(agenda', w)
<1>1. /\ IsHead(agenda, x) /\ x.ev.kind = "rxPayload"
      /\ DoProcess(x.ev.node, x.ev.frame, After(x)) \/ agenda' = After(x)
  BY DEF EndRxPayload, Due
<1>2. Ranked(After(x)) /\ Timed(After(x), w)
  BY <1>1, PopIdle DEF After
<1>3. CASE DoProcess(x.ev.node, x.ev.frame, After(x))
  <2>1. Kept(After(x), agenda', Node)
    BY <1>2, <1>3, DoProcessKept
  <2> QED BY <1>2, <2>1, TimedKept
<1> QED BY <1>1, <1>2, <1>3

---------------------------------------------------------------------------
LEMMA HarqInitInv == HarqInit => HarqInv
<1> SUFFICES ASSUME HarqInit PROVE HarqInv
  OBVIOUS
<1>1. Init
  BY DEF HarqInit
<1>2. IInv /\ PhyInv
  BY <1>1, InitInv, PhyInit
<1>3. /\ agenda = {} /\ awaiting_redundancy = [n \in Node |-> FALSE]
      /\ message = [n \in Node |-> NoFrame]
  BY DEF HarqInit, Init
<1>4. Timed(agenda, awaiting_redundancy)
  <2>1. \A K, n : Count({}, K, n) = 0
    BY FS_EmptySet DEF Count
  <2> QED BY <1>3, <2>1 DEF Timed
<1>5. Remembers
  BY <1>3 DEF HarqInit, Remembers, KnownFrame
<1> QED BY <1>2, <1>4, <1>5, HarqInvParts

(* The callbacks HARQ devices share with ARQ devices are steps of those.   *)
LEMMA CommonIsNext ==
  ASSUME NEW x \in agenda, CommonProcess(x)
  PROVE  Next
BY DEF CommonProcess, Next, ProcessOneEvent, Process

LEMMA CommonTimed ==
  ASSUME Ranked(agenda), BE \in [Node -> Nat], NEW w, w = awaiting_redundancy, Timed(agenda, w),
         \A n \in Node : w[n] => phyType = "IR", NEW x, x.ev.node \in Node, CommonProcess(x)
  PROVE  Timed(agenda', w)
<1>1. CASE RestartCsmaCa(x) \/ RandomBackoffDelay(x) \/ RequestCca(x) \/ CsmaCaFailure(x)
  <2>1. Kept(agenda, agenda', Node)
    BY <1>1, CsmaKept
  <2> QED BY <2>1, TimedKept
<1>2. CASE FrameSent(x)
  <2>1. Kept(agenda, agenda', Node)
    BY <1>2, FrameSentKept
  <2> QED BY <2>1, TimedKept
<1>3. CASE StartRx(x) \/ RemoveNoiseSignal(x)
  <2>1. Kept(agenda, agenda', Node)
    BY <1>3, SignalKept
  <2> QED BY <2>1, TimedKept
<1>4. CASE EndRxHeader(x)
  BY <1>4, HeaderTimed
<1>5. CASE phyType = "CC" /\ EndRxPayload(x)
  <2>1. ~ w[x.ev.node]
    BY <1>5
  <2> QED BY <1>5, <2>1, ChasePayloadTimed
<1> QED BY <1>1, <1>2, <1>3, <1>4, <1>5 DEF CommonProcess

(* One step for each callback of the HARQ devices.                         *)
LEMMA HarqProcessStep ==
  ASSUME HarqInv, NEW x \in agenda, HarqProcess(x)
  PROVE  HarqInv'
<1>1. /\ IInv /\ PhyInv /\ Remembers /\ Timed(agenda, awaiting_redundancy)
      /\ Backed(agenda, state, noise)
  BY HarqInvParts DEF PhyInv
<1>2. /\ x.ev.node \in Node /\ BE \in [Node -> Nat] /\ Ranked(agenda)
      /\ awaiting_redundancy \in [Node -> BOOLEAN]
      /\ \A n \in Node : awaiting_redundancy[n] => phyType = "IR"
      /\ KnownFrame(message[x.ev.node], accepted, delivered)
  BY <1>1 DEF IInv, TypeOK, Event, Backed, Remembers
<1>q. ASSUME IInv', Backed(agenda', state', noise'), Timed(agenda', awaiting_redundancy'), Remembers'
      PROVE  HarqInv'
  BY <1>q, HarqInvPartsPrimed DEF PhyInv
<1>3. CASE CommonProcess(x)
  <2>1. IInv' /\ PhyInv'
    BY <1>1, <1>3, CommonIsNext, InvStep, PhyStep
  <2>2. UNCHANGED redundancy /\ accepted \subseteq accepted' /\ delivered \subseteq delivered'
    BY <1>3, CommonGrows
  <2>3. Remembers'
    BY <1>1, <2>2, RemembersGrows
  <2>4. Timed(agenda', awaiting_redundancy)
    BY <1>1, <1>2, <1>3, CommonTimed
  <2> QED BY <1>q, <2>1, <2>2, <2>3, <2>4 DEF PhyInv, redundancy
<1>4. CASE HarqEndCca(x) \/ HarqCsmaCaIdle(x) \/ HarqAcknowledgementTimeout(x)
  <2>1. Backed(agenda', state', noise')
    BY <1>1, <1>2, <1>4, HarqMacBacked
  <2>2. IInv'
    BY <1>1, <1>2, <1>4, <2>1, HarqMacInv
  <2>3. Remembers'
    BY <1>1, <1>2, <1>4, HarqMacRemembers
  <2>4. Kept(agenda, agenda', Node)
    BY <1>2, <1>4, HarqMacKept
  <2>5. awaiting_redundancy' = awaiting_redundancy
    BY <1>4 DEF HarqEndCca, HarqCsmaCaIdle, HarqAcknowledgementTimeout, HarqNotifyCcaConfirm,
                SendRedundancy, HarqStartTx, redundancy
  <2>6. Timed(agenda', awaiting_redundancy')
    BY <1>1, <2>4, <2>5, TimedKept
  <2> QED BY <1>q, <2>1, <2>2, <2>3, <2>6
<1>5. CASE StartRxRedundancy(x) \/ HarqPreamble(x) \/ RedundancyHeader(x)
  <2>1. Backed(agenda', state', noise')
    BY <1>1, <1>2, <1>5, StartRxRedundancyBacked, HarqPreambleBacked, RedundancyHeaderBacked
  <2>2. IInv'
    BY <1>1, <1>2, <1>5, <2>1, HarqPhySteps
  <2>3. Remembers'
    BY <1>1, <1>2, <1>5, HarqPhyRemembers
  <2>4. awaiting_redundancy' = awaiting_redundancy
    BY <1>5 DEF StartRxRedundancy, HarqPreamble, RedundancyHeader, redundancy
  <2>5. Timed(agenda', awaiting_redundancy)
    <3>1. CASE StartRxRedundancy(x)
      <4>1. Kept(agenda, agenda', Node)
        BY <1>2, <3>1, SignalKept
      <4> QED BY <1>1, <4>1, TimedKept
    <3>2. CASE HarqPreamble(x)
      BY <1>1, <1>2, <3>2, PreambleTimed
    <3>3. CASE RedundancyHeader(x)
      BY <1>1, <1>2, <3>3, HeaderTimed
    <3> QED BY <1>5, <3>1, <3>2, <3>3
  <2> QED BY <1>q, <2>1, <2>2, <2>3, <2>4, <2>5
<1>6. CASE EndRxRedundancy(x)
  <2>1. Backed(agenda', state', noise')
    BY <1>1, <1>2, <1>6, EndRxRedundancyBacked
  <2>2. IInv'
    BY <1>1, <1>2, <1>6, <2>1, EndRxRedundancyInv
  <2>3. Remembers'
    BY <1>1, <1>2, <1>6, HarqPhyRemembers
  <2>4. Timed(agenda', awaiting_redundancy')
    BY <1>1, <1>2, <1>6, PayloadTimed
  <2> QED BY <1>q, <2>1, <2>2, <2>3, <2>4
<1>7. CASE ReceptionFailureTimeout(x)
  <2>1. Backed(agenda', state', noise')
    BY <1>1, <1>2, <1>7, FailureBacked
  <2>2. IInv'
    BY <1>1, <1>2, <1>7, <2>1, HarqPhySteps
  <2>3. Remembers'
    BY <1>1, <1>2, <1>7, HarqPhyRemembers
  <2>4. Timed(agenda', awaiting_redundancy')
    BY <1>1, <1>2, <1>7, FailureTimed
  <2> QED BY <1>q, <2>1, <2>2, <2>3, <2>4
<1> QED BY <1>3, <1>4, <1>5, <1>6, <1>7 DEF HarqProcess

LEMMA HarqStep == HarqInv /\ [HarqNext]_harqVars => HarqInv'
<1> SUFFICES ASSUME HarqInv, [HarqNext]_harqVars PROVE HarqInv'
  OBVIOUS
<1>1. IInv /\ PhyInv /\ Remembers /\ Timed(agenda, awaiting_redundancy) /\ Ranked(agenda)
  BY HarqInvParts DEF PhyInv, Backed
<1>2. CASE HarqProcessOneEvent
  BY <1>2, HarqProcessStep DEF HarqProcessOneEvent
<1>3. CASE Environment /\ UNCHANGED redundancy
  <2>1. Next
    BY <1>3 DEF Next
  <2>2. IInv' /\ PhyInv'
    BY <1>1, <2>1, InvStep, PhyStep
  <2>3. Kept(agenda, agenda', Node)
    BY <1>1, <1>3, EnvironmentKept
  <2>4. Timed(agenda', awaiting_redundancy)
    BY <1>1, <2>3, TimedKept
  <2>5. Remembers'
    BY <1>1, <1>3, EnvironmentGrows, RemembersGrows
  <2>6. awaiting_redundancy' = awaiting_redundancy
    BY <1>3 DEF redundancy
  <2> QED BY <2>2, <2>4, <2>5, <2>6, HarqInvPartsPrimed
<1>4. CASE UNCHANGED harqVars
  <2>1. UNCHANGED vars /\ UNCHANGED redundancy
    BY <1>4 DEF harqVars
  <2>2. IInv' /\ PhyInv'
    BY <1>1, <2>1, InvStep, PhyStep
  <2>3. /\ agenda' = agenda /\ awaiting_redundancy' = awaiting_redundancy
        /\ accepted' = accepted /\ delivered' = delivered
    BY <2>1 DEF vars, redundancy, history
  <2>4. Remembers'
    BY <1>1, <2>1, <2>3, RemembersGrows
  <2>5. Timed(agenda', awaiting_redundancy')
    BY <1>1, <2>3
  <2> QED BY <2>2, <2>4, <2>5, HarqInvPartsPrimed
<1> QED BY <1>2, <1>3, <1>4 DEF HarqNext

(* HARQ devices keep the invariant of ARQ devices, and with it what is     *)
(* known of waits for redundancy and of the frames PHYs remember.          *)
THEOREM HarqInductive == HarqSpec => []HarqInv
BY HarqInitInv, HarqStep, PTL DEF HarqSpec

(* The devices' variables stay in their types.                             *)
THEOREM HarqTypeCorrect == HarqSpec => []HarqTypeOK
<1>1. HarqInv => HarqTypeOK
  BY DEF HarqInv
<1> QED BY <1>1, HarqInductive, PTL

(* No frame is reported both acknowledged and failed, or twice, by         *)
(* PLC_HarqMac either.                                                     *)
THEOREM HarqOutcomeOnceCorrect == HarqSpec => []OutcomeOnce
<1>1. HarqInv => OutcomeOnce
  BY DEF HarqInv, IInv
<1> QED BY <1>1, HarqInductive, PTL

(* A frame PLC_HarqMac reports acknowledged was delivered, whether it was  *)
(* decoded at once or with the help of redundancy.                         *)
THEOREM HarqAckSoundCorrect == HarqSpec => []AckSound
<1>1. HarqInv => AckSound
  BY DEF HarqInv, IInv
<1> QED BY <1>1, HarqInductive, PTL

(* A PHY that refuses to transmit while it awaits redundancy, or skips the *)
(* header of what it receives, still transmits and receives exactly while  *)
(* one event is pending that will end it.                                  *)
THEOREM HarqPhyFollowsAgendaCorrect == HarqSpec => []PhyFollowsAgenda
<1>1. HarqInv => PhyFollowsAgenda
  BY DEF HarqInv, PhyInv, Backed, PhyFollowsAgenda, Pending, Count
<1> QED BY <1>1, HarqInductive, PTL

(* Every wait for redundancy has exactly one event that will end it: the   *)
(* failure timer is cancelled and started again by receptions, and never   *)
(* lost, doubled or left behind.                                           *)
THEOREM WaitIsTimedCorrect == HarqSpec => []WaitIsTimed
<1>1. ASSUME HarqInv PROVE WaitIsTimed
  <2>1. Timed(agenda, awaiting_redundancy) /\ IsFiniteSet(agenda)
    BY <1>1 DEF HarqInv, PhyInv, Backed, Ranked
  <2>2. ASSUME NEW n \in Node
        PROVE  Count(agenda, {"rxPayload"}, n) = 0 <=> Pending({"rxPayload"}, n) = {}
    <3>1. IsFiniteSet(Pending({"rxPayload"}, n))
      BY <2>1, FS_Subset DEF Pending
    <3>2. Count(agenda, {"rxPayload"}, n) = Cardinality(Pending({"rxPayload"}, n))
      BY DEF Count, Pending
    <3> QED BY <3>1, <3>2, FS_EmptySet
  <2>3. \A n \in Node : Count(agenda, {"failureTimeout"}, n) = Cardinality(Pending({"failureTimeout"}, n))
    BY DEF Count, Pending
  <2> QED BY <2>1, <2>2, <2>3 DEF Timed, WaitIsTimed
<1> QED BY <1>1, HarqInductive, PTL

---------------------------------------------------------------------------
(* What HARQ devices do for their applications is the service of           *)
(* PlcDelivery, too.                                                       *)
LEMMA HarqProcessService ==
  ASSUME HarqInv, NEW x \in agenda, HarqProcess(x)
  PROVE  Service!Next \/ UNCHANGED Service!vars
<1>1. IInv /\ x.ev.node \in Node
  BY DEF HarqInv, IInv, TypeOK, Event
<1>q. UNCHANGED <<awaiting_ack, txPacket, accepted, delivered, acked, failed>> => UNCHANGED Service!vars
  BY QuietService
<1>2. CASE CommonProcess(x)
  BY <1>1, <1>2, CommonIsNext, ServiceStep
<1>3. CASE UNCHANGED <<arq, history>>
  BY <1>3, <1>q DEF arq, history
<1>4. CASE HarqAcknowledgementTimeout(x)
  <2>1. UNCHANGED <<txPacket, accepted, delivered, acked>>
    BY <1>4 DEF HarqAcknowledgementTimeout
  <2>2. CASE UNCHANGED <<awaiting_ack, failed>>
    BY <1>q, <2>1, <2>2
  <2>3. CASE TransmissionFailed(x.ev.node, After(x))
    BY <1>1, <2>1, <2>3, FailureFails
  <2> QED BY <1>4, <2>2, <2>3 DEF HarqAcknowledgementTimeout, IgnoreTimeout, RequestRedundancy
<1>5. CASE EndRxRedundancy(x)
  <2>1. IsHead(agenda, x) /\ x.ev.kind \in Reception
    BY <1>5 DEF EndRxRedundancy, Due, Reception
  <2>2. KnownFrame(x.ev.frame, accepted, delivered) /\ x.ev.frame # NoFrame
    BY <1>1, <2>1, HeadFacts DEF Event
  <2>3. CASE DoProcess(x.ev.node, x.ev.frame, CancelFailureTimer(After(x), x.ev.node))
    BY <1>1, <2>2, <2>3, ProcessService
  <2>4. CASE UNCHANGED arq /\ UNCHANGED history
    BY <1>3, <2>4
  <2> QED BY <1>5, <2>3, <2>4 DEF EndRxRedundancy, Decoded, AwaitRedundancy
<1>6. CASE HarqEndCca(x) \/ HarqCsmaCaIdle(x) \/ StartRxRedundancy(x) \/ HarqPreamble(x)
           \/ RedundancyHeader(x) \/ ReceptionFailureTimeout(x)
  <2>1. UNCHANGED arq /\ UNCHANGED history
    BY <1>6 DEF HarqEndCca, HarqCsmaCaIdle, StartRxRedundancy, HarqPreamble, RedundancyHeader,
                ReceptionFailureTimeout
  <2> QED BY <1>3, <2>1
<1> QED BY <1>2, <1>4, <1>5, <1>6 DEF HarqProcess

LEMMA HarqServiceStep == HarqInv /\ [HarqNext]_harqVars => [Service!Next]_Service!vars
<1> SUFFICES ASSUME HarqInv, [HarqNext]_harqVars PROVE Service!Next \/ UNCHANGED Service!vars
  OBVIOUS
<1>1. IInv
  BY DEF HarqInv
<1>2. CASE HarqProcessOneEvent
  BY <1>2, HarqProcessService DEF HarqProcessOneEvent
<1>3. CASE Environment
  BY <1>1, <1>3, ServiceStep DEF Next
<1>4. CASE UNCHANGED harqVars
  BY <1>1, <1>4, ServiceStep DEF harqVars
<1> QED BY <1>2, <1>3, <1>4 DEF HarqNext

(* HARQ devices implement the service of PlcDelivery: redundancy frames,   *)
(* waits for them and refusals of the PHY change when a frame is delivered *)
(* or reported, never what may be reported of it.                          *)
THEOREM HarqServiceImplemented == HarqSpec => ImplementsService
<1>1. HarqInit => Service!Init
  BY DEF HarqInit, Init, Service!Init, Outstanding
<1> QED BY <1>1, HarqInductive, HarqServiceStep, PTL DEF HarqSpec, ImplementsService, Service!Spec

---------------------------------------------------------------------------
(***************************************************************************)
(* Whose redundancy is sent, when one node sends.  Its timer expires long  *)
(* before an acknowledgement could be complete, but not before a signal    *)
(* could have come back: the CCA that follows it ends while an             *)
(* acknowledgement, if there is one, is being received.  So it is with the *)
(* defaults, a timer of 100 us against symbols of 2240 us, on any line     *)
(* that a signal crosses in less than 50 us.                               *)
(***************************************************************************)
Prompt(s) ==
  /\ \A m \in Node \ {s} : Delay[s][m] + Delay[m][s] < AckTimeout
  /\ AckTimeout < PreambleTime + AckTime

(* What may still bring an acknowledgement to s: a data frame on its way or*)
(* being received, the assessment after it, an acknowledgement on its way. *)
IsData(ev) == ev.frame # NoFrame /\ ev.frame.type = "DATA"
Coming(ev, s) ==
  \/ ev.node = s /\ ev.kind = "startRx" /\ ev.frame # NoFrame
  \/ ev.node # s /\ ev.kind = "endCca"
  \/ ev.node # s /\ ev.kind # "redundancyHeader" /\ IsData(ev)

(* How long after ev the acknowledgement reaches s at the latest, ...      *)
Lasts(ev) == CASE ev.kind = "startRedundancy" -> PreambleTime + RedundancyTime
               [] ev.kind = "redundancyPreamble" -> RedundancyTime
               [] OTHER -> OnAir(ev)
Until(ev, s) == IF ev.node = s THEN 0
                ELSE Delay[ev.node][s] + (IF ev.kind = "endCca" THEN 0 ELSE Lasts(ev) + CcaTime)

(* ... and by how much sooner it may: a PHY that awaits redundancy does not*)
(* receive the header.                                                     *)
Skips(ev, s) == IF ev.node # s /\ ev.kind \in {"startRx", "preamble"} THEN HeaderTime ELSE 0

(* What s receives, and how long it still takes.                           *)
Receives(ev, s) == ev.node = s /\ ev.kind \in {"preamble", "rxHeader", "rxPayload"}
Remains(ev) == CASE ev.kind = "preamble" -> HeaderTime + AckTime
                 [] ev.kind = "rxHeader" -> AckTime
                 [] OTHER -> 0

(* When the CCA that the step z leads to has ended, at the earliest.       *)
ToCca(kind) == CASE kind = "txEnd" -> AckTimeout + CcaTime
                 [] kind \in {"endCca", "csmaIdle"} -> 0
                 [] OTHER -> CcaTime
CcaOver(z) == z.due + ToCca(z.ev.kind)

(* Acknowledgements still to come reach s before its CCA ends, ...         *)
Reaches(y, s, t) == Coming(y.ev, s) => y.due + Until(y.ev, s) < t

(* ... and are not received before that.                                   *)
TooLate(y, s, t) ==
  /\ Coming(y.ev, s) => t + Skips(y.ev, s) <= y.due + Until(y.ev, s) + AckTimeout + HeaderTime
  /\ Receives(y.ev, s) => t < y.due + Remains(y.ev)

(* The frame f of s contends for the channel, and was not sent yet (un), or*)
(* it was sent and redundancy on it may follow, which the PHY has (ok).    *)
Contends(kind, act) == IF act THEN kind \in Contention ELSE kind = "startCsma"
Follows(kind, act) == ~ act /\ kind \in {"txEnd", "timeout", "endCca"}
Stage(A, s, kind, t, act, f, un, ok) ==
  \/ Contends(kind, act) /\ un /\ \A y \in A : y.ev.frame # f
  \/ Follows(kind, act) /\ ok /\ \A y \in A : TooLate(y, s, t)
Pursued(A, s, z, act, f, un, ok) ==
  /\ IsStep(z.ev, s) /\ \A y \in A : IsStep(y.ev, s) => y = z
  /\ \A y \in A : Reaches(y, s, CcaOver(z))
  /\ Stage(A, s, z.ev.kind, CcaOver(z), act, f, un, ok)

(* Nothing carries a frame of s on, or just one event does.                *)
Ready(A, s) == NoStep(A, s) /\ \A y \in A : Reaches(y, s, CcaTime)
Pursuit(A, s, aw, act, f, un, ok) ==
  Ready(A, s) \/ (aw /\ \E z \in A : Pursued(A, s, z, act, f, un, ok))

(* The frame is not on its way; the PHY has it or none, and may send.      *)
Unheard(f, del) == f \notin del
Faithful(f, msg, ref) == msg \in {f, NoFrame} /\ ~ ref

---------------------------------------------------------------------------
LEMMA UntilIsNat ==
  ASSUME NEW s \in Node, NEW ev \in Event
  PROVE  /\ Until(ev, s) \in Nat /\ Skips(ev, s) \in Nat /\ Remains(ev) \in Nat
         /\ Skips(ev, s) \in {0, HeaderTime}
<1>1. Lasts(ev) \in Nat
  BY LeftIsNat DEF Lasts
<1>2. ev.node \in Node
  BY DEF Event
<1>3. \A m \in Node : Delay[m][s] \in Nat
  OBVIOUS
<1>4. Delay[ev.node][s] \in Nat
  BY <1>2, <1>3
<1> QED BY <1>1, <1>4 DEF Until, Skips, Remains

LEMMA ToCcaIsNat ==
  \A kind : ToCca(kind) \in Nat
BY DEF ToCca

(* What entries of B have of entries of A, t later.                        *)
Later(A, B, t) == \A b \in B : \E y \in A : b.ev = y.ev /\ b.due = y.due - t

LEMMA ReachesLater ==
  ASSUME NEW s \in Node, NEW y, NEW b, y.due \in Nat, y.ev \in Event, NEW t \in Nat,
         b.ev = y.ev, b.due = y.due - t, NEW c \in Int
  PROVE  /\ Reaches(y, s, c) => Reaches(b, s, c - t)
         /\ TooLate(y, s, c) => TooLate(b, s, c - t)
<1>1. Until(y.ev, s) \in Nat /\ Skips(y.ev, s) \in Nat /\ Remains(y.ev) \in Nat
  BY UntilIsNat
<1>2. Reaches(y, s, c) => Reaches(b, s, c - t)
  BY <1>1 DEF Reaches
<1>3. ASSUME TooLate(y, s, c) PROVE TooLate(b, s, c - t)
  BY <1>1, <1>3 DEF TooLate
<1> QED BY <1>2, <1>3

LEMMA StageLater ==
  ASSUME NEW s \in Node, NEW A, Dated(A), NEW B, NEW t \in Nat, Later(A, B, t), NEW c \in Int,
         NEW kind, NEW act, NEW f, NEW un, NEW ok
  PROVE  /\ (\A y \in A : Reaches(y, s, c)) => \A b \in B : Reaches(b, s, c - t)
         /\ Stage(A, s, kind, c, act, f, un, ok) => Stage(B, s, kind, c - t, act, f, un, ok)
         /\ NoStep(A, s) => NoStep(B, s)
<1>1. (\A y \in A : Reaches(y, s, c)) => \A b \in B : Reaches(b, s, c - t)
  BY ReachesLater DEF Later, Dated
<1>2. (\A y \in A : TooLate(y, s, c)) => \A b \in B : TooLate(b, s, c - t)
  BY ReachesLater DEF Later, Dated
<1>3. (\A y \in A : y.ev.frame # f) => \A b \in B : b.ev.frame # f
  BY DEF Later
<1>4. NoStep(A, s) => NoStep(B, s)
  BY DEF Later, NoStep
<1>5. Stage(A, s, kind, c, act, f, un, ok) => Stage(B, s, kind, c - t, act, f, un, ok)
  BY <1>2, <1>3 DEF Stage
<1> QED BY <1>1, <1>4, <1>5

LEMMA ReadyLater ==
  ASSUME NEW s \in Node, NEW A, Dated(A), NEW B, NEW t \in Nat, Later(A, B, t), Ready(A, s)
  PROVE  Ready(B, s)
<1>1. NoStep(B, s) /\ \A b \in B : Reaches(b, s, CcaTime - t)
  BY StageLater DEF Ready
<1>2. \A b \in B : b.due \in Int /\ b.ev \in Event
  BY DEF Later, Dated
<1>3. \A b \in B : Reaches(b, s, CcaTime)
  <2> SUFFICES ASSUME NEW b \in B, Coming(b.ev, s)
               PROVE  b.due + Until(b.ev, s) < CcaTime
    BY DEF Reaches
  <2>1. b.due + Until(b.ev, s) < CcaTime - t
    BY <1>1 DEF Reaches
  <2>2. Until(b.ev, s) \in Nat
    BY <1>2, UntilIsNat
  <2> QED BY <1>2, <2>1, <2>2
<1> QED BY <1>1, <1>3 DEF Ready

(* C holds entries of A, each due t earlier: all that are steps of s.      *)
Reduced(A, C, t, s) ==
  \E f, R : /\ R \subseteq A /\ C = {f[y] : y \in R}
            /\ \A y \in R : f[y].ev = y.ev /\ f[y].due = y.due - t
            /\ \A y \in A \ R : ~ IsStep(y.ev, s)

LEMMA MovedReduced ==
  ASSUME NEW A, NEW R \in SUBSET A, NEW C, NEW t, Moved(R, C, t), NEW s,
         \A y \in A \ R : ~ IsStep(y.ev, s)
  PROVE  Reduced(A, C, t, s)
BY DEF Moved, Reduced

LEMMA PopReduced ==
  ASSUME NEW A, NEW x, NEW s, ~ IsStep(x.ev, s)
  PROVE  Reduced(A, Pop(A, x), x.due, s)
<1>1. Moved(A \ {x}, Pop(A, x), x.due)
  BY PopMoved
<1>2. A \ {x} \in SUBSET A /\ \A y \in A \ (A \ {x}) : ~ IsStep(y.ev, s)
  OBVIOUS
<1> QED BY <1>1, <1>2, MovedReduced

LEMMA ElapseReduced ==
  ASSUME NEW A, NEW t, NEW s
  PROVE  Reduced(A, Elapse(A, t), t, s)
<1>1. Moved(A, Elapse(A, t), t)
  BY ElapseMoved
<1>2. A \in SUBSET A /\ \A y \in A \ A : ~ IsStep(y.ev, s)
  OBVIOUS
<1> QED BY <1>1, <1>2, MovedReduced

(* Entries that are no steps are cancelled.                                *)
LEMMA WithoutReduced ==
  ASSUME NEW A, NEW C, NEW t, NEW s, Reduced(A, C, t, s), NEW gone,
         \A y \in gone : ~ IsStep(y.ev, s)
  PROVE  Reduced(A, Without(C, gone), t, s)
<1>1. PICK f, R : /\ R \subseteq A /\ C = {f[y] : y \in R}
                  /\ \A y \in R : f[y].ev = y.ev /\ f[y].due = y.due - t
                  /\ \A y \in A \ R : ~ IsStep(y.ev, s)
  BY DEF Reduced
<1>2. PICK g : /\ Without(C, gone) = {g[y] : y \in C \ gone}
               /\ \A y \in C \ gone : g[y].ev = y.ev /\ g[y].due = y.due
  BY WithoutMoved
<1> DEFINE Q == {y \in R : f[y] \notin gone}
           h == [y \in Q |-> g[f[y]]]
<1>3. Q \subseteq A
  BY <1>1
<1>4. Without(C, gone) = {h[y] : y \in Q}
  <2>1. \A c \in C \ gone : \E y \in Q : c = f[y]
    BY <1>1
  <2>2. \A y \in Q : f[y] \in C \ gone /\ h[y] = g[f[y]]
    BY <1>1
  <2> HIDE DEF Q, h
  <2>3. \A b \in Without(C, gone) : \E y \in Q : b = h[y]
    BY <1>2, <2>1, <2>2
  <2>4. \A y \in Q : h[y] \in Without(C, gone)
    BY <1>2, <2>2
  <2> QED BY <2>3, <2>4
<1>5. \A y \in Q : h[y].ev = y.ev /\ h[y].due = y.due - t
  BY <1>1, <1>2
<1>6. \A y \in A \ Q : ~ IsStep(y.ev, s)
  BY <1>1
<1> HIDE DEF Q, h
<1> QED BY <1>3, <1>4, <1>5, <1>6 DEF Reduced

(* What a callback may schedule after ev, when ev is no step of s, for a   *)
(* time d later: it brings no acknowledgement to s that ev did not, nor in *)
(* any other time, ...                                                     *)
Succeeds(next, d, ev, s) ==
  Coming(next, s) => /\ Coming(ev, s) /\ d + Until(next, s) <= Until(ev, s)
                     /\ Until(ev, s) + Skips(next, s) <= d + Until(next, s) + Skips(ev, s)

(* ... and none is received sooner.                                        *)
InTurn(next, d, ev, s) ==
  Receives(next, s) =>
    \/ Receives(ev, s) /\ Remains(ev) <= d + Remains(next)
    \/ Coming(ev, s) /\ ev.node = s /\ AckTimeout + HeaderTime < d + Remains(next)

(* What has nothing to do with acknowledgements to s.                      *)
Plain(ev, s) == ~ Coming(ev, s) /\ ~ Receives(ev, s)

LEMMA SucceedsInTime ==
  ASSUME NEW s \in Node, NEW x, x.ev \in Event, x.due \in Nat,
         NEW e, e.ev \in Event, e.due \in Nat, Succeeds(e.ev, e.due, x.ev, s), NEW c \in Int
  PROVE  /\ Reaches(x, s, c) => Reaches(e, s, c - x.due)
         /\ TooLate(x, s, c) /\ InTurn(e.ev, e.due, x.ev, s) => TooLate(e, s, c - x.due)
<1>1. /\ Until(x.ev, s) \in Nat /\ Skips(x.ev, s) \in Nat /\ Remains(x.ev) \in Nat
      /\ Until(e.ev, s) \in Nat /\ Skips(e.ev, s) \in Nat /\ Remains(e.ev) \in Nat
  BY UntilIsNat
<1>2. Reaches(x, s, c) => Reaches(e, s, c - x.due)
  BY <1>1 DEF Reaches, Succeeds
<1>3. ASSUME TooLate(x, s, c), Coming(e.ev, s)
      PROVE  (c - x.due) + Skips(e.ev, s) <= e.due + Until(e.ev, s) + AckTimeout + HeaderTime
  BY <1>1, <1>3 DEF TooLate, Succeeds
<1>4. ASSUME TooLate(x, s, c), InTurn(e.ev, e.due, x.ev, s), Receives(e.ev, s)
      PROVE  c - x.due < e.due + Remains(e.ev)
  <2>1. CASE Receives(x.ev, s) /\ Remains(x.ev) <= e.due + Remains(e.ev)
    BY <1>1, <1>4, <2>1 DEF TooLate
  <2>2. CASE Coming(x.ev, s) /\ x.ev.node = s /\ AckTimeout + HeaderTime < e.due + Remains(e.ev)
    <3>1. Until(x.ev, s) = 0 /\ Skips(x.ev, s) = 0
      BY <2>2 DEF Until, Skips
    <3>2. c + 0 <= x.due + 0 + AckTimeout + HeaderTime
      BY <1>4, <2>2, <3>1 DEF TooLate
    <3> QED BY <1>1, <2>2, <3>2
  <2> QED BY <1>4, <2>1, <2>2 DEF InTurn
<1> QED BY <1>2, <1>3, <1>4 DEF TooLate

LEMMA PlainInTime ==
  ASSUME NEW s, NEW e, Plain(e.ev, s), NEW c
  PROVE  Reaches(e, s, c) /\ TooLate(e, s, c)
BY DEF Plain, Reaches, TooLate

(* An event that is no step runs, or time passes.                          *)
LEMMA Succession ==
  ASSUME NEW s \in Node, NEW A, Dated(A), NEW C, NEW t \in Nat, Reduced(A, C, t, s),
         NEW aw, NEW act, NEW f, NEW un, NEW ok, Pursuit(A, s, aw, act, f, un, ok),
         aw => f # NoFrame, NEW S,
         \A e \in S : /\ e.due \in Nat /\ e.ev \in Event /\ ~ IsStep(e.ev, s)
                      /\ aw /\ e.ev.frame = f => \E y \in A : y.ev.frame = f
                      /\ \/ Plain(e.ev, s)
                         \/ \E x \in A : /\ x.due = t /\ Succeeds(e.ev, e.due, x.ev, s)
                                         /\ ok => InTurn(e.ev, e.due, x.ev, s)
  PROVE  Pursuit(C \cup S, s, aw, act, f, un, ok)
<1>1. PICK g, R : /\ R \subseteq A /\ C = {g[y] : y \in R}
                  /\ \A y \in R : g[y].ev = y.ev /\ g[y].due = y.due - t
                  /\ \A y \in A \ R : ~ IsStep(y.ev, s)
  BY DEF Reduced
<1>2. Later(A, C, t)
  BY <1>1 DEF Later
<1>3. ASSUME NEW c \in Int
      PROVE  /\ (\A y \in A : Reaches(y, s, c)) => \A e \in S : Reaches(e, s, c - t)
             /\ ok /\ (\A y \in A : TooLate(y, s, c)) => \A e \in S : TooLate(e, s, c - t)
  BY SucceedsInTime, PlainInTime DEF Dated
<1>4. ASSUME aw, \A y \in A : y.ev.frame # f
      PROVE  \A e \in S : e.ev.frame # f
  BY <1>4
<1>5. CASE Ready(A, s)
  <2>1. Ready(C, s)
    BY <1>2, <1>5, ReadyLater
  <2>2. \A e \in S : Reaches(e, s, CcaTime - t)
    BY <1>3, <1>5 DEF Ready
  <2>3. \A e \in S : Reaches(e, s, CcaTime)
    <3> SUFFICES ASSUME NEW e \in S, Coming(e.ev, s)
                 PROVE  e.due + Until(e.ev, s) < CcaTime
      BY DEF Reaches
    <3>1. e.due + Until(e.ev, s) < CcaTime - t
      BY <2>2 DEF Reaches
    <3>2. Until(e.ev, s) \in Nat /\ e.due \in Nat
      BY UntilIsNat
    <3> QED BY <3>1, <3>2
  <2>4. NoStep(C \cup S, s)
    BY <2>1 DEF Ready, NoStep
  <2> QED BY <2>1, <2>3, <2>4 DEF Ready, Pursuit
<1>6. CASE aw /\ \E z \in A : Pursued(A, s, z, act, f, un, ok)
  <2>1. PICK z \in A : Pursued(A, s, z, act, f, un, ok)
    BY <1>6
  <2>2. z \in R
    BY <1>1, <2>1 DEF Pursued
  <2>3. PICK c \in Int : c = CcaOver(z) /\ CcaOver(g[z]) = c - t
    BY <1>1, <2>2, ToCcaIsNat DEF CcaOver, Dated
  <2>4. \A b \in C \cup S : Reaches(b, s, c - t)
    <3>1. \A y \in A : Reaches(y, s, c)
      BY <2>1, <2>3 DEF Pursued
    <3>2. \A b \in C : Reaches(b, s, c - t)
      BY <1>2, <3>1, StageLater
    <3> QED BY <1>3, <3>1, <3>2
  <2>5. Stage(C \cup S, s, z.ev.kind, c - t, act, f, un, ok)
    <3>1. Stage(A, s, z.ev.kind, c, act, f, un, ok)
      BY <2>1, <2>3 DEF Pursued
    <3>2. Stage(C, s, z.ev.kind, c - t, act, f, un, ok)
      BY <1>2, <3>1, StageLater
    <3>3. CASE Contends(z.ev.kind, act) /\ un /\ \A y \in A : y.ev.frame # f
      <4>1. \A b \in C \cup S : b.ev.frame # f
        BY <1>2, <1>4, <1>6, <3>3 DEF Later
      <4> QED BY <3>3, <4>1 DEF Stage
    <3>4. CASE Follows(z.ev.kind, act) /\ ok /\ \A y \in A : TooLate(y, s, c)
      <4>1. \A b \in C : TooLate(b, s, c - t)
        BY <1>2, <3>4, ReachesLater DEF Later, Dated
      <4>2. \A b \in C \cup S : TooLate(b, s, c - t)
        BY <1>3, <3>4, <4>1
      <4> QED BY <3>4, <4>2 DEF Stage
    <3> QED BY <3>1, <3>3, <3>4 DEF Stage
  <2>6. \A b \in C \cup S : IsStep(b.ev, s) => b = g[z]
    BY <1>1, <2>1 DEF Pursued
  <2>7. g[z] \in C \cup S /\ g[z].ev = z.ev /\ IsStep(z.ev, s)
    BY <1>1, <2>1, <2>2 DEF Pursued
  <2>8. Pursued(C \cup S, s, g[z], act, f, un, ok)
    BY <2>3, <2>4, <2>5, <2>6, <2>7 DEF Pursued
  <2> QED BY <1>6, <2>7, <2>8 DEF Pursuit
<1> QED BY <1>5, <1>6 DEF Pursuit

(* What is known of the frame of s changes.                                *)
LEMMA PursuitKnows ==
  ASSUME NEW A, NEW s, NEW aw, NEW act, NEW f, NEW un, NEW ok, Pursuit(A, s, aw, act, f, un, ok),
         NEW un2, NEW ok2, un /\ (\A y \in A : y.ev.frame # f) => un2, ok => ok2
  PROVE  Pursuit(A, s, aw, act, f, un2, ok2)
<1>1. ASSUME NEW z, Pursued(A, s, z, act, f, un, ok)
      PROVE  Pursued(A, s, z, act, f, un2, ok2)
  BY <1>1 DEF Pursued, Stage
<1> QED BY <1>1 DEF Pursuit

(* A reception ends at s: no redundancy can be about to follow.            *)
LEMMA ReceivedAtSender ==
  ASSUME NEW A, Dated(A), NEW x, IsHead(A, x), NEW s, x.ev.node = s, x.ev.kind = "rxPayload",
         NEW aw, NEW act, NEW f, NEW un, NEW ok, Pursuit(A, s, aw, act, f, un, ok), NEW ok2
  PROVE  Pursuit(A, s, aw, act, f, un, ok2)
<1>1. ASSUME NEW z \in A, Pursued(A, s, z, act, f, un, ok)
      PROVE  Pursued(A, s, z, act, f, un, ok2)
  <2>1. ~ TooLate(x, s, CcaOver(z))
    <3>1. Receives(x.ev, s) /\ Remains(x.ev) = 0
      BY DEF Receives, Remains
    <3>2. x.due \in Nat /\ z.due \in Nat /\ x.due <= z.due
      BY DEF Dated, IsHead
    <3>3. ToCca(z.ev.kind) \in Nat
      BY ToCcaIsNat
    <3>4. ~ (CcaOver(z) < x.due + 0)
      BY <3>2, <3>3 DEF CcaOver
    <3> QED BY <3>1, <3>4 DEF TooLate
  <2>2. x \in A
    BY DEF IsHead
  <2> QED BY <1>1, <2>1, <2>2 DEF Pursued, Stage
<1> QED BY <1>1 DEF Pursuit

(* A step of s runs: what it leaves, seen from then, ...                   *)
LEMMA PursuitStepRuns ==
  ASSUME NEW s \in Node, NEW A, Dated(A), NEW x, IsHead(A, x), IsStep(x.ev, s),
         NEW aw, NEW act, NEW f, NEW un, NEW ok, Pursuit(A, s, aw, act, f, un, ok)
  PROVE  /\ aw /\ NoStep(Pop(A, x), s)
         /\ \A b \in Pop(A, x) : Reaches(b, s, ToCca(x.ev.kind))
         /\ Stage(Pop(A, x), s, x.ev.kind, ToCca(x.ev.kind), act, f, un, ok)
<1>1. x \in A /\ x.due \in Nat
  BY DEF IsHead, Dated
<1>2. aw /\ Pursued(A, s, x, act, f, un, ok)
  BY <1>1 DEF Pursuit, Ready, NoStep, Pursued
<1> DEFINE R == A \ {x}
<1>3. Later(R, Pop(A, x), x.due) /\ Dated(R)
  BY PopMoved DEF Moved, Later, Dated
<1>4. PICK c \in Int : c = CcaOver(x) /\ c - x.due = ToCca(x.ev.kind)
  BY <1>1, ToCcaIsNat DEF CcaOver
<1>5. NoStep(R, s)
  BY <1>2 DEF Pursued, NoStep
<1>6. \A y \in R : Reaches(y, s, c)
  BY <1>2, <1>4 DEF Pursued
<1>7. Stage(R, s, x.ev.kind, c, act, f, un, ok)
  <2>1. Stage(A, s, x.ev.kind, c, act, f, un, ok)
    BY <1>2, <1>4 DEF Pursued
  <2> QED BY <2>1 DEF Stage
<1> HIDE DEF R
<1>8. NoStep(Pop(A, x), s)
  BY <1>1, <1>3, <1>4, <1>5, StageLater
<1>9. \A b \in Pop(A, x) : Reaches(b, s, c - x.due)
  BY <1>1, <1>3, <1>4, <1>6, StageLater
<1>10. Stage(Pop(A, x), s, x.ev.kind, c - x.due, act, f, un, ok)
  BY <1>1, <1>3, <1>4, <1>7, StageLater
<1> QED BY <1>2, <1>4, <1>8, <1>9, <1>10

(* ... and a step is scheduled when there is none.                         *)
LEMMA PursuitAddStep ==
  ASSUME NEW A, NEW s, NoStep(A, s), NEW d, NEW kind \in StepKind,
         \A y \in A : Reaches(y, s, d + ToCca(kind)),
         NEW act, NEW f, f # NoFrame, NEW un, NEW ok, Stage(A, s, kind, d + ToCca(kind), act, f, un, ok)
  PROVE  Pursuit(Add(A, d, Ev(kind, s)), s, TRUE, act, f, un, ok)
<1>1. PICK e : Add(A, d, Ev(kind, s)) = A \cup {e} /\ e.ev = Ev(kind, s) /\ e.due = d
  BY AddView
<1>2. e.ev.kind = kind /\ e.ev.node = s /\ e.ev.frame = NoFrame
  BY <1>1 DEF Ev
<1>3. IsStep(e.ev, s) /\ Plain(e.ev, s)
  BY <1>2 DEF IsStep, Plain, Coming, Receives, StepKind, Contention, Watch
<1>4. CcaOver(e) = d + ToCca(kind)
  BY <1>1, <1>2 DEF CcaOver
<1>5. \A y \in A \cup {e} : Reaches(y, s, CcaOver(e))
  BY <1>3, <1>4, PlainInTime
<1>6. Stage(A \cup {e}, s, kind, CcaOver(e), act, f, un, ok)
  <2>1. TooLate(e, s, CcaOver(e)) /\ e.ev.frame # f
    BY <1>2, <1>3, PlainInTime
  <2> QED BY <1>4, <2>1 DEF Stage
<1>7. \A y \in A \cup {e} : IsStep(y.ev, s) => y = e
  BY DEF NoStep
<1>8. Pursued(A \cup {e}, s, e, act, f, un, ok)
  BY <1>2, <1>3, <1>5, <1>6, <1>7 DEF Pursued
<1> QED BY <1>1, <1>8 DEF Pursuit

---------------------------------------------------------------------------
(* What is found where: only s contends for the channel and times its      *)
(* frames, and it receives nothing but acknowledgements.                   *)
AloneEvent(ev, s) ==
  /\ ev.kind \in {"startCsma", "backoff", "requestCca", "csmaIdle", "csmaFailure", "timeout", "oldTimeout"}
       => ev.node = s /\ ev.kind # "oldTimeout"
  /\ ev.node = s => /\ ev.kind \notin {"startRedundancy", "redundancyPreamble", "redundancyHeader"}
                    /\ ev.frame = NoFrame \/ ev.frame.type = "ACK"
AloneEvents(A, s) == \A y \in A : AloneEvent(y.ev, s)
Listening(s) ==
  /\ \A f \in accepted : f.src = s /\ f.dst # s
  /\ \A m \in Node \ {s} : ~ awaiting_ack[m] /\ ~ csmaca_active[m]
  /\ \A m \in Node \ {s} : txPacket[m] = NoFrame \/ txPacket[m].type = "ACK"

(* The inductive invariant.                                                *)
AloneInv(s) ==
  /\ AloneEvents(agenda, s) /\ Listening(s)
  /\ Pursuit(agenda, s, awaiting_ack[s], csmaca_active[s], txPacket[s],
             Unheard(txPacket[s], delivered), Faithful(txPacket[s], message[s], Refuses(s)))

(* An event that is no step of s runs: what it schedules.                  *)
LEMMA PassOn ==
  ASSUME IInv, NEW s \in Node, AloneEvents(agenda, s), NEW x, IsHead(agenda, x), ~ IsStep(x.ev, s),
         NEW aw, NEW act, NEW f, NEW un, NEW ok, Pursuit(agenda, s, aw, act, f, un, ok), aw => f # NoFrame,
         NEW C, Reduced(agenda, C, x.due, s),
         NEW d \in Nat, NEW ev \in Event, ~ IsStep(ev, s), AloneEvent(ev, s),
         ev.frame \in {x.ev.frame, NoFrame},
         Plain(ev, s) \/ (Succeeds(ev, d, x.ev, s) /\ (ok => InTurn(ev, d, x.ev, s))),
         agenda' = C \/ agenda' = Add(C, d, ev)
  PROVE  Pursuit(agenda', s, aw, act, f, un, ok) /\ AloneEvents(agenda', s)
<1>1. Dated(agenda) /\ x \in agenda /\ x.due \in Nat
  BY DEF IInv, TypeOK, Dated, IsHead
<1>2. AloneEvents(C, s)
  BY DEF AloneEvents, Reduced
<1>3. CASE agenda' = C
  <2>1. Pursuit(C \cup {}, s, aw, act, f, un, ok)
    BY <1>1, Succession
  <2>2. C \cup {} = C
    OBVIOUS
  <2> QED BY <1>2, <1>3, <2>1, <2>2
<1>4. CASE agenda' = Add(C, d, ev)
  <2>1. PICK e : Add(C, d, ev) = C \cup {e} /\ e.ev = ev /\ e.due = d
    BY AddView
  <2>2. \A b \in {e} : /\ b.due \in Nat /\ b.ev \in Event /\ ~ IsStep(b.ev, s)
                       /\ aw /\ b.ev.frame = f => \E y \in agenda : y.ev.frame = f
    BY <1>1, <2>1
  <2>3. \A b \in {e} : \/ Plain(b.ev, s)
                       \/ \E y \in agenda : /\ y.due = x.due /\ Succeeds(b.ev, b.due, y.ev, s)
                                            /\ ok => InTurn(b.ev, b.due, y.ev, s)
    BY <1>1, <2>1
  <2>4. Pursuit(C \cup {e}, s, aw, act, f, un, ok)
    BY <1>1, <2>2, <2>3, Succession
  <2>5. AloneEvents(C \cup {e}, s)
    BY <1>2, <2>1 DEF AloneEvents
  <2> QED BY <1>4, <2>1, <2>4, <2>5
<1> QED BY <1>3, <1>4

(* The event of a reception that follows ev, the time d later.             *)
NextOf(ev, kind, d) ==
  \/ ev.kind = "startRx" /\ kind = "preamble" /\ d = PreambleTime
  \/ ev.kind = "preamble" /\ kind = "rxHeader" /\ d = HeaderTime
  \/ ev.kind = "preamble" /\ kind = "rxPayload" /\ d = PayloadTime(ev.frame)
  \/ ev.kind = "rxHeader" /\ kind = "rxPayload" /\ d = PayloadTime(ev.frame)
  \/ ev.kind = "startRedundancy" /\ kind = "redundancyPreamble" /\ d = PreambleTime
  \/ ev.kind = "redundancyPreamble" /\ kind = "rxPayload" /\ d = RedundancyTime
  \/ ev.kind = "redundancyPreamble" /\ kind = "redundancyHeader"

(* The next event of a reception brings an acknowledgement when the last   *)
(* one would have, unless the header is skipped.                           *)
LEMMA NextReception ==
  ASSUME NEW s \in Node, Prompt(s), NEW x, x.ev \in Event, AloneEvent(x.ev, s), x.ev.frame # NoFrame,
         NEW d \in Nat, NEW kind,
         NextOf(x.ev, kind, d), NEW ev, ev = RxEv(kind, x.ev.node, x.ev.frame)
  PROVE  /\ ev \in Event /\ ~ IsStep(ev, s) /\ AloneEvent(ev, s) /\ ev.frame = x.ev.frame
         /\ Succeeds(ev, d, x.ev, s)
         /\ (x.ev.kind = "preamble" /\ kind = "rxPayload" /\ x.ev.node = s) \/ InTurn(ev, d, x.ev, s)
<1> USE DEF NextOf
<1>1. ev \in Event
  BY DEF RxEv, Event, Kind
<1>2. ev.kind = kind /\ ev.node = x.ev.node /\ ev.frame = x.ev.frame
  BY DEF RxEv
<1>3. ~ IsStep(ev, s) /\ AloneEvent(ev, s)
  BY <1>2 DEF IsStep, StepKind, Contention, Watch, AloneEvent
<1>4. CASE x.ev.node = s
  <2>1. ~ Coming(ev, s)
    BY <1>2, <1>4 DEF Coming
  <2>2. x.ev.frame.type = "ACK"
    BY <1>4 DEF AloneEvent
  <2>3. PayloadTime(x.ev.frame) = AckTime
    BY <2>2 DEF PayloadTime
  <2>4. CASE x.ev.kind = "startRx" /\ kind = "preamble" /\ d = PreambleTime
    <3>1. Coming(x.ev, s)
      BY <1>4, <2>4 DEF Coming
    <3>2. Remains(ev) = HeaderTime + AckTime
      BY <1>2, <2>4 DEF Remains
    <3>3. AckTimeout + HeaderTime < d + Remains(ev)
      BY <2>4, <3>2 DEF Prompt
    <3> QED BY <1>1, <1>2, <1>3, <1>4, <2>1, <3>1, <3>3 DEF Succeeds, InTurn
  <2>5. CASE x.ev.kind \in {"preamble", "rxHeader"} /\ ~ (x.ev.kind = "preamble" /\ kind = "rxPayload")
    <3>1. Receives(x.ev, s)
      BY <1>4, <2>5 DEF Receives
    <3>2. Remains(x.ev) <= d + Remains(ev)
      BY <1>2, <2>3, <2>5 DEF Remains
    <3> QED BY <1>1, <1>2, <1>3, <2>1, <3>1, <3>2 DEF Succeeds, InTurn
  <2>6. x.ev.kind \notin {"startRedundancy", "redundancyPreamble"}
    BY <1>4 DEF AloneEvent
  <2> QED BY <1>1, <1>2, <1>3, <1>4, <2>1, <2>4, <2>5, <2>6 DEF Succeeds
<1>5. CASE x.ev.node # s
  <2>1. ~ Receives(ev, s)
    BY <1>2, <1>5 DEF Receives
  <2>2. ASSUME Coming(ev, s)
        PROVE  /\ Coming(x.ev, s) /\ d + Until(ev, s) <= Until(x.ev, s)
               /\ Until(x.ev, s) + Skips(ev, s) <= d + Until(ev, s) + Skips(x.ev, s)
    <3>1. Coming(x.ev, s) /\ kind # "redundancyHeader"
      BY <1>2, <1>5, <2>2 DEF Coming, IsData
    <3>2. x.ev.node \in Node
      BY DEF Event
    <3>3. \A m \in Node : Delay[m][s] \in Nat
      OBVIOUS
    <3>4. Delay[x.ev.node][s] \in Nat /\ PayloadTime(x.ev.frame) \in Nat
      BY <3>2, <3>3, TimesAreNat
    <3>5. /\ Until(ev, s) = Delay[x.ev.node][s] + (Lasts(ev) + CcaTime)
          /\ Until(x.ev, s) = Delay[x.ev.node][s] + (Lasts(x.ev) + CcaTime)
      BY <1>2, <1>5 DEF Until
    <3>6. Lasts(ev) \in Nat /\ Lasts(x.ev) \in Nat
      BY <1>1, LeftIsNat DEF Lasts
    <3>7. d + Lasts(ev) <= Lasts(x.ev) /\ Lasts(x.ev) + Skips(ev, s) <= d + Lasts(ev) + Skips(x.ev, s)
      <4> USE <1>2, <1>5, <3>1, <3>4 DEF Lasts, OnAir, AirTime, Skips
      <4>1. CASE x.ev.kind = "startRx" /\ kind = "preamble" /\ d = PreambleTime
        BY <4>1
      <4>2. CASE x.ev.kind = "preamble" /\ kind = "rxHeader" /\ d = HeaderTime
        BY <4>2
      <4>3. CASE x.ev.kind = "preamble" /\ kind = "rxPayload" /\ d = PayloadTime(x.ev.frame)
        BY <4>3
      <4>4. CASE x.ev.kind = "rxHeader" /\ kind = "rxPayload" /\ d = PayloadTime(x.ev.frame)
        BY <4>4
      <4>5. CASE x.ev.kind = "startRedundancy" /\ kind = "redundancyPreamble" /\ d = PreambleTime
        BY <4>5
      <4>6. CASE x.ev.kind = "redundancyPreamble" /\ kind = "rxPayload" /\ d = RedundancyTime
        BY <4>6
      <4> QED BY <4>1, <4>2, <4>3, <4>4, <4>5, <4>6
    <3>8. Skips(ev, s) \in Nat /\ Skips(x.ev, s) \in Nat
      BY <1>1, UntilIsNat
    <3> QED BY <3>1, <3>4, <3>5, <3>6, <3>7, <3>8
  <2> QED BY <1>1, <1>2, <1>3, <2>1, <2>2 DEF Succeeds, InTurn
<1> QED BY <1>4, <1>5

(* An event without a frame that is no step, or the end of a CCA elsewhere.*)
LEMMA PlainEvent ==
  ASSUME NEW s, NEW n \in Node, NEW kind \in {"removeNoise", "failureTimeout", "txEnd", "startRx"},
         kind = "txEnd" => n # s
  PROVE  /\ Ev(kind, n) \in Event /\ ~ IsStep(Ev(kind, n), s) /\ AloneEvent(Ev(kind, n), s)
         /\ Plain(Ev(kind, n), s) /\ Ev(kind, n).frame = NoFrame
<1>1. Ev(kind, n).kind = kind /\ Ev(kind, n).node = n /\ Ev(kind, n).frame = NoFrame
  BY DEF Ev
<1>2. Ev(kind, n) \in Event
  BY DEF Ev, Event, Kind, Reception
<1>3. ~ IsStep(Ev(kind, n), s)
  BY <1>1 DEF IsStep, StepKind, Contention, Watch
<1>4. AloneEvent(Ev(kind, n), s)
  BY <1>1 DEF AloneEvent
<1>5. Plain(Ev(kind, n), s)
  BY <1>1 DEF Plain, Coming, Receives, IsData
<1> QED BY <1>1, <1>2, <1>3, <1>4, <1>5

(* The head of the agenda and what it leaves.                              *)
LEMMA AloneHead ==
  ASSUME IInv, NEW s \in Node, AloneInv(s), NEW x, IsHead(agenda, x)
  PROVE  /\ x \in agenda /\ x.due \in Nat /\ x.ev \in Event /\ x.ev.node \in Node /\ AloneEvent(x.ev, s)
         /\ Dated(agenda) /\ AloneEvents(agenda, s) /\ AloneEvents(After(x), s)
         /\ awaiting_ack[s] => txPacket[s] \in accepted /\ txPacket[s] # NoFrame /\ txPacket[s].type = "DATA"
         /\ awaiting_ack[s] \in BOOLEAN /\ csmaca_active[s] \in BOOLEAN
         /\ Pursuit(agenda, s, awaiting_ack[s], csmaca_active[s], txPacket[s],
                    Unheard(txPacket[s], delivered), Faithful(txPacket[s], message[s], Refuses(s)))
<1>1. x.ev \in Event /\ x.ev.node \in Node
  BY HeadFacts
<1>2. x \in agenda /\ x.due \in Nat /\ Dated(agenda)
  BY DEF IsHead, IInv, TypeOK, Dated
<1>3. AloneEvents(agenda, s) /\ AloneEvent(x.ev, s)
  BY <1>2 DEF AloneInv, AloneEvents
<1>4. AloneEvents(After(x), s)
  BY <1>3, PopMoved DEF AloneEvents, Moved, After
<1>5. awaiting_ack[s] => txPacket[s] \in accepted /\ txPacket[s] # NoFrame /\ txPacket[s].type = "DATA"
  BY DEF IInv, OutcomeOnce, TypeOK, NumbersFresh
<1> QED BY <1>1, <1>2, <1>3, <1>4, <1>5 DEF AloneInv, IInv, TypeOK

(* A step that leaves the MACs alone.                                      *)
LEMMA QuietAlone ==
  ASSUME NEW s \in Node, AloneInv(s), AloneEvents(agenda', s), UNCHANGED <<csmaca_active, arq, history>>,
         Pursuit(agenda', s, awaiting_ack[s], csmaca_active[s], txPacket[s],
                 Unheard(txPacket[s], delivered), Faithful(txPacket[s], message'[s], Refuses(s)'))
  PROVE  AloneInv(s)'
<1>1. /\ csmaca_active' = csmaca_active /\ awaiting_ack' = awaiting_ack /\ txPacket' = txPacket
      /\ accepted' = accepted /\ delivered' = delivered
  BY DEF arq, history
<1>2. Listening(s)'
  BY <1>1 DEF AloneInv, Listening
<1>3. AloneEvents(agenda, s)'
  BY DEF AloneEvents
<1> QED BY <1>1, <1>2, <1>3 DEF AloneInv

(* An event of a PHY runs, and the MACs and what is remembered stay.       *)
LEMMA QuietPass ==
  ASSUME IInv, NEW s \in Node, AloneInv(s), NEW x, IsHead(agenda, x), ~ IsStep(x.ev, s),
         UNCHANGED <<csmaca_active, arq, history>>, NEW C, Reduced(agenda, C, x.due, s),
         NEW ok, Faithful(txPacket[s], message[s], Refuses(s)) => ok,
         ok => Faithful(txPacket[s], message'[s], Refuses(s)'),
         NEW d \in Nat, NEW ev \in Event, ~ IsStep(ev, s), AloneEvent(ev, s),
         ev.frame \in {x.ev.frame, NoFrame},
         Plain(ev, s) \/ (Succeeds(ev, d, x.ev, s) /\ (ok => InTurn(ev, d, x.ev, s))),
         agenda' = C \/ agenda' = Add(C, d, ev)
  PROVE  AloneInv(s)'
<1> DEFINE aw == awaiting_ack[s]
           act == csmaca_active[s]
           f == txPacket[s]
           un == Unheard(txPacket[s], delivered)
<1>1. /\ AloneEvents(agenda, s) /\ (aw => f # NoFrame)
      /\ Pursuit(agenda, s, aw, act, f, un, Faithful(txPacket[s], message[s], Refuses(s)))
  BY AloneHead
<1> HIDE DEF aw, act, f, un
<1>2. Pursuit(agenda, s, aw, act, f, un, ok)
  BY <1>1, PursuitKnows
<1>3. Pursuit(agenda', s, aw, act, f, un, ok) /\ AloneEvents(agenda', s)
  BY <1>1, <1>2, PassOn
<1>4. Pursuit(agenda', s, aw, act, f, un, Faithful(txPacket[s], message'[s], Refuses(s)'))
  BY <1>3, PursuitKnows
<1> QED BY <1>3, <1>4, QuietAlone DEF aw, act, f, un

LEMMA ReceptionAlone ==
  ASSUME IInv, NEW s \in Node, Prompt(s), AloneInv(s), NEW x, UNCHANGED redundancy,
         StartRx(x) \/ EndRxHeader(x) \/ RemoveNoiseSignal(x) \/ StartRxRedundancy(x)
         \/ HarqPreamble(x) \/ RedundancyHeader(x)
  PROVE  AloneInv(s)'
<1> DEFINE n == x.ev.node
           f == x.ev.frame
           ok == Faithful(txPacket[s], message[s], Refuses(s))
<1>1. /\ IsHead(agenda, x) /\ UNCHANGED <<csma, arq, history>>
      /\ x.ev.kind \in {"startRx", "rxHeader", "removeNoise", "startRedundancy", "preamble",
                        "redundancyPreamble", "redundancyHeader"}
  BY DEF StartRx, EndRxHeader, RemoveNoiseSignal, StartRxRedundancy, HarqPreamble, RedundancyHeader, Due
<1>2. /\ x.ev \in Event /\ n \in Node /\ AloneEvent(x.ev, s) /\ x.due \in Nat
  BY <1>1, AloneHead
<1>3. ~ IsStep(x.ev, s) /\ UNCHANGED <<csmaca_active, arq, history>>
  BY <1>1 DEF IsStep, StepKind, Contention, Watch, csma
<1>4. Faithful(txPacket[s], message'[s], Refuses(s)') = ok
  BY DEF redundancy, sender, Refuses
<1>5. Reduced(agenda, After(x), x.due, s)
  BY <1>3, PopReduced DEF After
<1> HIDE DEF ok
<1>6. ASSUME NEW C, Reduced(agenda, C, x.due, s), NEW d \in Nat, NEW ev \in Event, ~ IsStep(ev, s),
             AloneEvent(ev, s), ev.frame \in {f, NoFrame},
             Plain(ev, s) \/ (Succeeds(ev, d, x.ev, s) /\ (ok => InTurn(ev, d, x.ev, s))),
             agenda' = C \/ agenda' = Add(C, d, ev)
      PROVE  AloneInv(s)'
  <2>1. /\ Faithful(txPacket[s], message[s], Refuses(s)) => ok
        /\ ok => Faithful(txPacket[s], message'[s], Refuses(s)')
    BY <1>4 DEF ok
  <2> QED BY <1>1, <1>3, <1>6, <2>1, QuietPass
<1>7. ASSUME NEW d \in Nat, Interfere(n, d, After(x)) \/ agenda' = After(x)
      PROVE  AloneInv(s)'
  <2>1. /\ Ev("removeNoise", n) \in Event /\ ~ IsStep(Ev("removeNoise", n), s)
        /\ AloneEvent(Ev("removeNoise", n), s) /\ Plain(Ev("removeNoise", n), s)
        /\ Ev("removeNoise", n).frame = NoFrame
    BY <1>2, PlainEvent
  <2>2. agenda' = After(x) \/ agenda' = Add(After(x), d, Ev("removeNoise", n))
    BY <1>7 DEF Interfere
  <2> QED BY <1>5, <1>6, <2>1, <2>2
<1>8. ASSUME f # NoFrame, NEW C, Reduced(agenda, C, x.due, s), NEW d \in Nat, NEW kind,
             \/ x.ev.kind = "startRx" /\ kind = "preamble" /\ d = PreambleTime
             \/ x.ev.kind = "preamble" /\ kind = "rxHeader" /\ d = HeaderTime
             \/ x.ev.kind = "preamble" /\ kind = "rxPayload" /\ d = PayloadTime(f) /\ Refuses(n)
             \/ x.ev.kind = "rxHeader" /\ kind = "rxPayload" /\ d = PayloadTime(f)
             \/ x.ev.kind = "startRedundancy" /\ kind = "redundancyPreamble" /\ d = PreambleTime
             \/ x.ev.kind = "redundancyPreamble" /\ kind = "rxPayload" /\ d = RedundancyTime
             \/ x.ev.kind = "redundancyPreamble" /\ kind = "redundancyHeader",
             agenda' = Add(C, d, RxEv(kind, n, f))
      PROVE  AloneInv(s)'
  <2>1. PICK ev : ev = RxEv(kind, n, f)
    OBVIOUS
  <2>2. /\ ev \in Event /\ ~ IsStep(ev, s) /\ AloneEvent(ev, s) /\ ev.frame = f
        /\ Succeeds(ev, d, x.ev, s)
        /\ (x.ev.kind = "preamble" /\ kind = "rxPayload" /\ n = s) \/ InTurn(ev, d, x.ev, s)
    <3>1. NextOf(x.ev, kind, d)
      BY <1>8 DEF NextOf
    <3>2. x.ev.frame # NoFrame /\ d \in Nat
      BY <1>8
    <3>3. x.ev \in Event /\ AloneEvent(x.ev, s) /\ ev = RxEv(kind, x.ev.node, x.ev.frame)
      BY <1>2, <2>1
    <3>4. /\ ev \in Event /\ ~ IsStep(ev, s) /\ AloneEvent(ev, s) /\ ev.frame = x.ev.frame
          /\ Succeeds(ev, d, x.ev, s)
          /\ (x.ev.kind = "preamble" /\ kind = "rxPayload" /\ x.ev.node = s) \/ InTurn(ev, d, x.ev, s)
      BY ONLY s \in Node, Prompt(s), <3>1, <3>2, <3>3, NextReception
    <3> QED BY <3>4
  <2>3. ok => InTurn(ev, d, x.ev, s)
    BY <1>8, <2>2 DEF ok, Faithful
  <2> QED BY <1>6, <1>8, <2>1, <2>2, <2>3
<1>9. CASE StartRx(x)
  <2>1. CASE CanLock(n, f) /\ agenda' = Add(After(x), PreambleTime, RxEv("preamble", n, f))
    <3>1. f # NoFrame /\ x.ev.kind = "startRx"
      BY <1>9, <2>1 DEF CanLock, StartRx, Due
    <3> QED BY <1>5, <1>8, <2>1, <3>1
  <2>2. CASE Interfere(n, IF f = NoFrame THEN PulseTime ELSE AirTime(f), After(x))
    <3>1. (IF f = NoFrame THEN PulseTime ELSE AirTime(f)) \in Nat
      BY TimesAreNat
    <3> QED BY <1>7, <2>2, <3>1
  <2> QED BY <1>9, <2>1, <2>2 DEF StartRx
<1>10. CASE EndRxHeader(x)
  <2>0. PayloadTime(f) \in Nat /\ x.ev.kind = "rxHeader"
    BY <1>10, TimesAreNat DEF EndRxHeader, Due
  <2>1. CASE agenda' = Add(After(x), PayloadTime(f), RxEv("rxPayload", n, f))
    <3>1. f # NoFrame
      BY <1>2, <2>0 DEF Event, Reception
    <3> QED BY <1>5, <1>8, <2>0, <2>1, <3>1
  <2>2. CASE Interfere(n, PayloadTime(f), After(x))
    BY <1>7, <2>0, <2>2
  <2> QED BY <1>10, <2>1, <2>2 DEF EndRxHeader
<1>11. CASE RemoveNoiseSignal(x)
  <2>1. agenda' = After(x) /\ 0 \in Nat
    BY <1>11 DEF RemoveNoiseSignal
  <2> QED BY <1>7, <2>1
<1>12. CASE StartRxRedundancy(x)
  <2>1. CASE CanLock(n, f) /\ agenda' = Add(After(x), PreambleTime, RxEv("redundancyPreamble", n, f))
    <3>1. f # NoFrame /\ x.ev.kind = "startRedundancy"
      BY <1>12, <2>1 DEF CanLock, StartRxRedundancy, Due
    <3> QED BY <1>5, <1>8, <2>1, <3>1
  <2>2. CASE Interfere(n, PreambleTime + RedundancyTime, After(x))
    BY <1>7, <2>2
  <2> QED BY <1>12, <2>1, <2>2 DEF StartRxRedundancy
<1>13. CASE RedundancyHeader(x)
  BY <1>7, <1>13 DEF RedundancyHeader
<1>14. CASE HarqPreamble(x)
  <2>0. x.ev.kind \in {"preamble", "redundancyPreamble"}
    BY <1>14 DEF HarqPreamble, Due
  <2>1. f # NoFrame
    BY <1>2, <2>0 DEF Event, Reception
  <2>2. RxPayloadTime(x.ev) \in Nat /\ RxHeaderTime(x.ev) \in Nat
    BY RedundancyTimes
  <2>3. CASE Refuses(n)
    <3>1. agenda' = Add(CancelFailureTimer(After(x), n), RxPayloadTime(x.ev), RxEv("rxPayload", n, f))
      BY <1>14, <2>3 DEF HarqPreamble
    <3>2. Reduced(agenda, CancelFailureTimer(After(x), n), x.due, s)
      <4>1. \A y \in {y \in After(x) : y.ev.kind = "failureTimeout" /\ y.ev.node = n} : ~ IsStep(y.ev, s)
        BY DEF IsStep, StepKind, Contention, Watch
      <4> QED BY <1>5, <4>1, WithoutReduced DEF CancelFailureTimer
    <3>3. \/ x.ev.kind = "preamble" /\ RxPayloadTime(x.ev) = PayloadTime(f)
          \/ x.ev.kind = "redundancyPreamble" /\ RxPayloadTime(x.ev) = RedundancyTime
      BY <2>0 DEF RxPayloadTime, IsRedundancy
    <3> QED BY <1>8, <2>1, <2>2, <2>3, <3>1, <3>2, <3>3
  <2>4. CASE ~ Refuses(n)
    <3>1. agenda' = Add(After(x), RxHeaderTime(x.ev),
                        RxEv(IF IsRedundancy(x.ev) THEN "redundancyHeader" ELSE "rxHeader", n, f))
      BY <1>14, <2>4 DEF HarqPreamble
    <3>2. CASE x.ev.kind = "preamble"
      <4>1. agenda' = Add(After(x), HeaderTime, RxEv("rxHeader", n, f))
        BY <3>1, <3>2 DEF IsRedundancy, RxHeaderTime
      <4> QED BY <1>5, <1>8, <2>1, <3>2, <4>1
    <3>3. CASE x.ev.kind = "redundancyPreamble"
      <4>1. agenda' = Add(After(x), RxHeaderTime(x.ev), RxEv("redundancyHeader", n, f))
        BY <3>1, <3>3 DEF IsRedundancy
      <4> QED BY <1>5, <1>8, <2>1, <2>2, <3>3, <4>1
    <3> QED BY <2>0, <3>2, <3>3
  <2> QED BY <2>3, <2>4
<1> QED BY <1>9, <1>10, <1>11, <1>12, <1>13, <1>14

(* ReceptionFailureTimeout: the PHY forgets.                               *)
LEMMA FailureAlone ==
  ASSUME IInv, HarqTypeOK, NEW s \in Node, AloneInv(s), NEW x, ReceptionFailureTimeout(x)
  PROVE  AloneInv(s)'
<1>1. /\ IsHead(agenda, x) /\ x.ev.kind = "failureTimeout" /\ agenda' = After(x)
      /\ UNCHANGED <<csmaca_active, arq, history>>
  BY DEF ReceptionFailureTimeout, Due, csma
<1>2. ~ IsStep(x.ev, s) /\ x.ev.node \in Node
  BY <1>1, HeadFacts DEF IsStep, StepKind, Contention, Watch
<1>3. Reduced(agenda, After(x), x.due, s)
  BY <1>2, PopReduced DEF After
<1>4. /\ message' = [message EXCEPT ![x.ev.node] = NoFrame]
      /\ awaiting_redundancy' = [awaiting_redundancy EXCEPT ![x.ev.node] = FALSE]
      /\ phyType' = phyType /\ message \in [Node -> Frame \cup {NoFrame}]
      /\ awaiting_redundancy \in [Node -> BOOLEAN]
  BY DEF ReceptionFailureTimeout, HarqTypeOK
<1>5. Faithful(txPacket[s], message[s], Refuses(s)) => Faithful(txPacket[s], message'[s], Refuses(s)')
  <2>1. CASE x.ev.node = s
    BY <1>4, <2>1 DEF Faithful, Refuses
  <2>2. CASE x.ev.node # s
    BY <1>4, <2>2 DEF Faithful, Refuses
  <2> QED BY <2>1, <2>2
<1>6. /\ Ev("removeNoise", s) \in Event /\ ~ IsStep(Ev("removeNoise", s), s)
      /\ AloneEvent(Ev("removeNoise", s), s) /\ Plain(Ev("removeNoise", s), s)
      /\ Ev("removeNoise", s).frame = NoFrame /\ 0 \in Nat
  BY PlainEvent
<1> QED BY <1>1, <1>2, <1>3, <1>5, <1>6, QuietPass

(* An acknowledgement accepted by s is of a frame that was delivered.      *)
LEMMA AcceptedIsDelivered ==
  ASSUME IInv, NEW s \in Node, NEW f, f # NoFrame, KnownFrame(f, accepted, delivered), f.dst = s,
         AckMatches(s, f)
  PROVE  txPacket[s] \in delivered
<1>1. f.type = "ACK" /\ awaiting_ack[s] /\ f.seq = txPacket[s].seq
  BY DEF AckMatches
<1>2. PICK g \in delivered : g.src = s /\ g.seq = txPacket[s].seq
  BY <1>1 DEF KnownFrame
<1>3. g \in accepted /\ txPacket[s] \in accepted /\ txPacket[s].src = s
  BY <1>1 DEF IInv, FramesOK, OutcomeOnce, OwnFrame
<1>4. g = txPacket[s]
  BY <1>2, <1>3 DEF IInv, NumbersUnique
<1> QED BY <1>4

(* The MAC processes a frame.                                              *)
LEMMA ProcessAlone ==
  ASSUME IInv, NEW s, OneSender(s), AloneInv(s), NEW x, IsHead(agenda, x), x.ev.kind = "rxPayload",
         NEW C, Reduced(agenda, C, x.due, s), DoProcess(x.ev.node, x.ev.frame, C),
         Faithful(txPacket[s], message[s], Refuses(s)) => Faithful(txPacket[s], message'[s], Refuses(s)')
  PROVE  AloneInv(s)'
<1> DEFINE f == x.ev.frame
           aw == awaiting_ack[s]
           act == csmaca_active[s]
           own == txPacket[s]
           un == Unheard(txPacket[s], delivered)
           ok == Faithful(txPacket[s], message[s], Refuses(s))
<1>0. s \in Node /\ Sources = {s}
  BY DEF OneSender
<1>1. /\ x \in agenda /\ x.ev \in Event /\ x.ev.node \in Node /\ AloneEvent(x.ev, s) /\ x.due \in Nat
      /\ Dated(agenda) /\ AloneEvents(agenda, s) /\ (aw => own # NoFrame)
      /\ Pursuit(agenda, s, aw, act, own, un, ok)
  BY <1>0, AloneHead
<1>2. KnownFrame(f, accepted, delivered) /\ f # NoFrame
  BY <1>1, HeadFacts DEF Event, Reception
<1>3. ~ IsStep(x.ev, s)
  BY DEF IsStep, StepKind, Contention, Watch
<1>4. /\ awaiting_ack \in [Node -> BOOLEAN] /\ csmaca_active \in [Node -> BOOLEAN]
      /\ txPacket \in [Node -> Frame \cup {NoFrame}]
  BY DEF IInv, TypeOK
<1>5. Listening(s)
  BY DEF AloneInv
<1>6. CASE ReceiveData(x.ev.node, f, C)
  <2>1. f.type = "DATA" /\ f.dst = x.ev.node /\ f \in accepted
    BY <1>2, <1>6 DEF ReceiveData, KnownFrame
  <2>2. x.ev.node # s
    BY <1>5, <2>1 DEF Listening
  <2>3. x.ev.node \notin Sources
    BY <1>0, <2>2
  <2>4. /\ agenda' = Add(C, CcaTime, Ev("endCca", x.ev.node))
        /\ txPacket' = [txPacket EXCEPT ![x.ev.node] = AckOf(f)]
        /\ awaiting_ack' = [awaiting_ack EXCEPT ![x.ev.node] = FALSE]
        /\ csmaca_active' = csmaca_active /\ accepted' = accepted
        /\ delivered' = delivered \cup {f}
    BY <1>6, <2>3 DEF ReceiveData, DoSendFrom, csma
  <2>5. PICK n \in Node \ {s} : n = x.ev.node
    BY <1>1, <2>2
  <2>e. PICK ev : ev = Ev("endCca", n)
    OBVIOUS
  <2>6. ev = Ev("endCca", n) /\ ev.kind = "endCca" /\ ev.node = n /\ ev.frame = NoFrame
    BY <2>e DEF Ev
  <2>7. ev \in Event /\ ~ IsStep(ev, s) /\ AloneEvent(ev, s) /\ ~ Receives(ev, s)
    <3>1. ev \in Event
      BY <2>6 DEF Ev, Event, Kind, Reception
    <3> QED BY <2>6, <3>1 DEF IsStep, AloneEvent, Receives
  <2>8. Succeeds(ev, CcaTime, x.ev, s)
    <3>1. Coming(x.ev, s)
      BY <1>2, <2>1, <2>2 DEF Coming, IsData
    <3>2. Lasts(x.ev) = 0
      BY DEF Lasts, OnAir
    <3>3. Until(x.ev, s) = Delay[n][s] + (0 + CcaTime) /\ Until(ev, s) = Delay[n][s] + 0
      BY <2>2, <2>5, <2>6, <3>2 DEF Until
    <3>4. Skips(ev, s) = 0 /\ Skips(x.ev, s) = 0
      BY <2>6 DEF Skips
    <3>5. Delay[n][s] \in Nat
      BY <1>0
    <3> QED BY <3>1, <3>3, <3>4, <3>5 DEF Succeeds
  <2>9. txPacket'[s] = own /\ awaiting_ack'[s] = aw /\ csmaca_active'[s] = act
    BY <1>0, <1>4, <2>2, <2>4
  <2>10. Pursuit(agenda, s, aw, act, own, Unheard(own, delivered'), ok)
    <3>1. un /\ (\A y \in agenda : y.ev.frame # own) => Unheard(own, delivered')
      BY <1>1, <2>4 DEF Unheard
    <3> QED BY <1>1, <3>1, PursuitKnows
  <2>11. Pursuit(agenda', s, aw, act, own, Unheard(own, delivered'), ok) /\ AloneEvents(agenda', s)
    <3>1. ok => InTurn(ev, CcaTime, x.ev, s)
      BY <2>7 DEF InTurn
    <3>2. agenda' = C \/ agenda' = Add(C, CcaTime, ev)
      BY <2>4, <2>5, <2>6
    <3>3. ev.frame \in {x.ev.frame, NoFrame} /\ CcaTime \in Nat
      BY <2>6
    <3> HIDE DEF aw, act, own, ok
    <3> QED BY <1>0, <1>1, <1>3, <2>7, <2>8, <2>10, <3>1, <3>2, <3>3, PassOn
  <2>12. Pursuit(agenda', s, aw, act, own, Unheard(own, delivered'), Faithful(own, message'[s], Refuses(s)'))
    <3> HIDE DEF aw, act
    <3> QED BY <2>11, PursuitKnows
  <2>13. \A m \in Node \ {s} : ~ awaiting_ack'[m] /\ ~ csmaca_active'[m]
    BY <1>4, <1>5, <2>4 DEF Listening
  <2>14. \A m \in Node \ {s} : txPacket'[m] = NoFrame \/ txPacket'[m].type = "ACK"
    BY <1>4, <1>5, <2>4 DEF Listening, AckOf
  <2>15. Listening(s)'
    BY <1>5, <2>4, <2>13, <2>14 DEF Listening
  <2> QED BY <2>9, <2>11, <2>12, <2>15 DEF AloneInv, AloneEvents
<1>7. CASE agenda' = C /\ UNCHANGED <<csma, arq, history>>
  <2>1. /\ Ev("removeNoise", s) \in Event /\ ~ IsStep(Ev("removeNoise", s), s)
        /\ AloneEvent(Ev("removeNoise", s), s) /\ Plain(Ev("removeNoise", s), s)
        /\ Ev("removeNoise", s).frame = NoFrame /\ 0 \in Nat
    BY <1>0, PlainEvent
  <2>2. UNCHANGED <<csmaca_active, arq, history>>
    BY <1>7 DEF csma
  <2> QED BY <1>0, <1>3, <1>7, <2>1, <2>2, QuietPass
<1>8. CASE ReceiveAck(x.ev.node, f, C) /\ AckMatches(x.ev.node, f)
  <2>1. x.ev.node = s
    BY <1>1, <1>5, <1>8 DEF AckMatches, Listening
  <2>2. /\ agenda' = CancelTimer(C, s) /\ awaiting_ack' = [awaiting_ack EXCEPT ![s] = FALSE]
        /\ csmaca_active' = csmaca_active /\ txPacket' = txPacket /\ accepted' = accepted
    BY <1>8, <2>1 DEF ReceiveAck, csma
  <2>3. un = FALSE
    <3>1. txPacket[s] \in delivered
      BY <1>0, <1>2, <1>8, <2>1, AcceptedIsDelivered DEF ReceiveAck
    <3> QED BY <3>1 DEF Unheard
  <2>4. Pursuit(agenda, s, aw, act, own, FALSE, FALSE)
    <3> HIDE DEF aw, act, own, ok
    <3> QED BY <1>1, <2>1, <2>3, ReceivedAtSender
  <2>5. Ready(agenda, s)
    BY <2>4 DEF Pursuit, Pursued, Stage
  <2>6. Reduced(agenda, CancelTimer(C, s), x.due, s)
    <3>1. \A y \in Timers(C, s) : ~ IsStep(y.ev, s)
      BY <2>5 DEF Timers, Ready, NoStep, Reduced
    <3> QED BY <3>1, WithoutReduced DEF CancelTimer
  <2>7. Later(agenda, agenda', x.due)
    BY <2>2, <2>6 DEF Reduced, Later
  <2>8. Ready(agenda', s)
    BY <1>0, <1>1, <2>5, <2>7, ReadyLater
  <2>9. AloneEvents(agenda', s)
    BY <1>1, <2>7 DEF AloneEvents, Later
  <2>10. Listening(s)'
    BY <1>4, <1>5, <2>2 DEF Listening
  <2> QED BY <2>8, <2>9, <2>10 DEF AloneInv, AloneEvents, Pursuit
<1>9. CASE ReceiveAck(x.ev.node, f, C) /\ ~ AckMatches(x.ev.node, f)
  BY <1>7, <1>9 DEF ReceiveAck, arq, history
<1>10. CASE Discard(x.ev.node, f, C)
  BY <1>7, <1>10 DEF Discard
<1> QED BY <1>6, <1>8, <1>9, <1>10 DEF DoProcess

(* EndRxPayload of either PHY.                                             *)
LEMMA PayloadAlone ==
  ASSUME IInv, HarqTypeOK, NEW s, OneSender(s), AloneInv(s), NEW x,
         (EndRxPayload(x) /\ UNCHANGED redundancy) \/ EndRxRedundancy(x)
  PROVE  AloneInv(s)'
<1>0. s \in Node
  BY DEF OneSender
<1>1. IsHead(agenda, x) /\ x.ev.kind = "rxPayload"
  BY DEF EndRxPayload, EndRxRedundancy, Due
<1>2. ~ IsStep(x.ev, s) /\ x.ev.node \in Node
  BY <1>1, HeadFacts DEF IsStep, StepKind, Contention, Watch
<1>3. Reduced(agenda, After(x), x.due, s)
  BY <1>2, PopReduced DEF After
<1>4. \A n : Reduced(agenda, CancelFailureTimer(After(x), n), x.due, s)
  <2> TAKE n
  <2>1. \A y \in {y \in After(x) : y.ev.kind = "failureTimeout" /\ y.ev.node = n} : ~ IsStep(y.ev, s)
    BY DEF IsStep, StepKind, Contention, Watch
  <2> QED BY <1>3, <2>1, WithoutReduced DEF CancelFailureTimer
<1>5. /\ message \in [Node -> Frame \cup {NoFrame}] /\ awaiting_redundancy \in [Node -> BOOLEAN]
  BY DEF HarqTypeOK
<1>6. CASE EndRxPayload(x) /\ UNCHANGED redundancy
  <2>1. Faithful(txPacket[s], message'[s], Refuses(s)') = Faithful(txPacket[s], message[s], Refuses(s))
    BY <1>6 DEF redundancy, sender, Refuses
  <2>2. CASE DoProcess(x.ev.node, x.ev.frame, After(x))
    BY <1>1, <1>3, <2>1, <2>2, ProcessAlone
  <2>3. CASE agenda' = After(x) /\ UNCHANGED <<csma, arq, history, bounds>>
    <3>1. /\ Ev("removeNoise", s) \in Event /\ ~ IsStep(Ev("removeNoise", s), s)
          /\ AloneEvent(Ev("removeNoise", s), s) /\ Plain(Ev("removeNoise", s), s)
          /\ Ev("removeNoise", s).frame = NoFrame /\ 0 \in Nat
      BY <1>0, PlainEvent
    <3>2. UNCHANGED <<csmaca_active, arq, history>>
      BY <2>3 DEF csma
    <3> QED BY <1>0, <1>1, <1>2, <1>3, <2>1, <2>3, <3>1, <3>2, QuietPass
  <2> QED BY <1>6, <2>2, <2>3 DEF EndRxPayload
<1>7. CASE EndRxRedundancy(x) /\ Decoded(x.ev.node, x.ev.frame, After(x))
  <2>1. /\ message' = [message EXCEPT ![x.ev.node] = NoFrame]
        /\ awaiting_redundancy' = [awaiting_redundancy EXCEPT ![x.ev.node] = FALSE]
        /\ phyType' = phyType
        /\ DoProcess(x.ev.node, x.ev.frame, CancelFailureTimer(After(x), x.ev.node))
    BY <1>7 DEF Decoded, EndRxRedundancy
  <2>2. Faithful(txPacket[s], message[s], Refuses(s)) => Faithful(txPacket[s], message'[s], Refuses(s)')
    <3>1. CASE x.ev.node = s
      BY <1>0, <1>5, <2>1, <3>1 DEF Faithful, Refuses
    <3>2. CASE x.ev.node # s
      BY <1>0, <1>5, <2>1, <3>2 DEF Faithful, Refuses
    <3> QED BY <3>1, <3>2
  <2> QED BY <1>1, <1>4, <2>1, <2>2, ProcessAlone
<1>8. CASE EndRxRedundancy(x) /\ AwaitRedundancy(x.ev.node, After(x))
  <2> DEFINE C == CancelFailureTimer(After(x), x.ev.node)
  <2>1. PICK n \in Node : n = x.ev.node
    BY <1>2
  <2>2. /\ awaiting_redundancy' = [awaiting_redundancy EXCEPT ![n] = TRUE]
        /\ agenda' = Add(C, FailureTimeout, Ev("failureTimeout", n))
        /\ message' = message /\ phyType' = phyType /\ UNCHANGED <<csmaca_active, arq, history>>
    BY <1>8, <2>1 DEF AwaitRedundancy, EndRxRedundancy, csma
  <2>3. /\ Ev("failureTimeout", n) \in Event /\ ~ IsStep(Ev("failureTimeout", n), s)
        /\ AloneEvent(Ev("failureTimeout", n), s) /\ Plain(Ev("failureTimeout", n), s)
        /\ Ev("failureTimeout", n).frame = NoFrame /\ FailureTimeout \in Nat
    BY <1>0, PlainEvent
  <2>4. Reduced(agenda, C, x.due, s)
    BY <1>4
  <2> HIDE DEF C
  <2>5. CASE n # s
    <3>1. Faithful(txPacket[s], message'[s], Refuses(s)') = Faithful(txPacket[s], message[s], Refuses(s))
      BY <1>0, <1>5, <2>2, <2>5 DEF Refuses
    <3> QED BY <1>0, <1>1, <1>2, <2>2, <2>3, <2>4, <3>1, QuietPass
  <2>6. CASE n = s
    <3> DEFINE aw == awaiting_ack[s]
               act == csmaca_active[s]
               own == txPacket[s]
               un == Unheard(txPacket[s], delivered)
               ok == Faithful(txPacket[s], message[s], Refuses(s))
    <3>1. /\ Dated(agenda) /\ AloneEvents(agenda, s) /\ (aw => own # NoFrame)
          /\ Pursuit(agenda, s, aw, act, own, un, ok)
      BY <1>0, <1>1, AloneHead
    <3> HIDE DEF aw, act, own, un, ok
    <3>2. PICK new : new = Faithful(txPacket[s], message'[s], Refuses(s)')
      OBVIOUS
    <3>3. Pursuit(agenda, s, aw, act, own, un, new)
      BY <1>1, <2>1, <2>6, <3>1, ReceivedAtSender
    <3>4. Pursuit(agenda', s, aw, act, own, un, new) /\ AloneEvents(agenda', s)
      BY <1>0, <1>1, <1>2, <2>2, <2>3, <2>4, <3>1, <3>3, PassOn
    <3> QED BY <1>0, <2>2, <3>2, <3>4, QuietAlone DEF aw, act, own, un
  <2> QED BY <2>5, <2>6
<1> QED BY <1>6, <1>7, <1>8 DEF EndRxRedundancy
---------------------------------------------------------------------------
(* A later bound.                                                          *)
LEMMA ReachesSooner ==
  ASSUME NEW s \in Node, NEW A, Dated(A), NEW c \in Int, NEW d \in Int, c <= d,
         \A y \in A : Reaches(y, s, c)
  PROVE  \A y \in A : Reaches(y, s, d)
<1> SUFFICES ASSUME NEW y \in A, Coming(y.ev, s)
             PROVE  y.due + Until(y.ev, s) < d
  BY DEF Reaches
<1>1. y.due + Until(y.ev, s) < c
  BY DEF Reaches
<1>2. Until(y.ev, s) \in Nat /\ y.due \in Nat
  BY UntilIsNat DEF Dated
<1> QED BY <1>1, <1>2

(* A step of s runs.                                                       *)
LEMMA SenderStep ==
  ASSUME IInv, NEW s \in Node, AloneInv(s), NEW x, IsHead(agenda, x), IsStep(x.ev, s)
  PROVE  /\ awaiting_ack[s] = TRUE /\ NoStep(After(x), s) /\ AloneEvents(After(x), s) /\ Dated(After(x))
         /\ \A y \in After(x) : Reaches(y, s, ToCca(x.ev.kind))
         /\ Stage(After(x), s, x.ev.kind, ToCca(x.ev.kind), csmaca_active[s], txPacket[s],
                  Unheard(txPacket[s], delivered), Faithful(txPacket[s], message[s], Refuses(s)))
         /\ txPacket[s] \in accepted /\ txPacket[s] \in Frame /\ txPacket[s] # NoFrame
         /\ txPacket[s].type = "DATA"
<1> DEFINE aw == awaiting_ack[s]
           act == csmaca_active[s]
           f == txPacket[s]
           un == Unheard(txPacket[s], delivered)
           ok == Faithful(txPacket[s], message[s], Refuses(s))
<1>1. /\ Dated(agenda) /\ AloneEvents(After(x), s) /\ aw \in BOOLEAN
      /\ aw => f \in accepted /\ f # NoFrame /\ f.type = "DATA"
      /\ Pursuit(agenda, s, aw, act, f, un, ok)
  BY AloneHead
<1>2. Dated(After(x))
  BY HeadFacts DEF Accounted, Dated
<1> HIDE DEF aw, act, f, un, ok
<1>3. /\ aw /\ NoStep(Pop(agenda, x), s)
      /\ \A b \in Pop(agenda, x) : Reaches(b, s, ToCca(x.ev.kind))
      /\ Stage(Pop(agenda, x), s, x.ev.kind, ToCca(x.ev.kind), act, f, un, ok)
  BY <1>1, PursuitStepRuns
<1>4. aw = TRUE /\ f \in accepted /\ f # NoFrame /\ f.type = "DATA"
  BY <1>1, <1>3
<1>5. f \in Frame
  BY <1>4 DEF IInv, TypeOK
<1> QED BY <1>1, <1>2, <1>3, <1>4, <1>5 DEF aw, act, f, un, ok, After

(* s schedules its next step, ...                                          *)
LEMMA SenderGoesOn ==
  ASSUME NEW s \in Node, NEW A, NoStep(A, s), AloneEvents(A, s), Listening(s)', awaiting_ack'[s] = TRUE,
         NEW d, NEW kind \in StepKind, txPacket'[s] # NoFrame,
         \A y \in A : Reaches(y, s, d + ToCca(kind)),
         Stage(A, s, kind, d + ToCca(kind), csmaca_active'[s], txPacket'[s],
               Unheard(txPacket'[s], delivered'), Faithful(txPacket'[s], message'[s], Refuses(s)')),
         agenda' = Add(A, d, Ev(kind, s))
  PROVE  AloneInv(s)'
<1> DEFINE act == csmaca_active'[s]
           f == txPacket'[s]
           un == Unheard(txPacket'[s], delivered')
           ok == Faithful(txPacket'[s], message'[s], Refuses(s)')
<1> HIDE DEF act, f, un, ok
<1>1. Pursuit(Add(A, d, Ev(kind, s)), s, TRUE, act, f, un, ok)
  <2>1. Stage(A, s, kind, d + ToCca(kind), act, f, un, ok) /\ f # NoFrame
    BY DEF act, f, un, ok
  <2> QED BY <2>1, PursuitAddStep
<1>2. AloneEvents(agenda', s)
  <2>1. PICK e : Add(A, d, Ev(kind, s)) = A \cup {e} /\ e.ev = Ev(kind, s)
    BY AddView
  <2>2. e.ev.kind = kind /\ e.ev.node = s /\ e.ev.frame = NoFrame
    BY <2>1 DEF Ev
  <2>3. AloneEvent(e.ev, s)
    BY <2>2 DEF AloneEvent, StepKind, Contention, Watch
  <2> QED BY <2>1, <2>3 DEF AloneEvents
<1>3. AloneEvents(agenda, s)'
  BY <1>2 DEF AloneEvents
<1> QED BY <1>1, <1>3 DEF AloneInv, act, f, un, ok

(* ... or none.                                                            *)
LEMMA SenderStops ==
  ASSUME NEW s \in Node, NoStep(agenda', s), AloneEvents(agenda', s), Listening(s)',
         \A y \in agenda' : Reaches(y, s, CcaTime)
  PROVE  AloneInv(s)'
<1>1. Ready(agenda', s)
  BY DEF Ready
<1>2. AloneEvents(agenda, s)'
  BY DEF AloneEvents
<1> QED BY <1>1, <1>2 DEF AloneInv, Pursuit

LEMMA ListeningKept ==
  ASSUME NEW s \in Node, Listening(s), accepted' = accepted, txPacket' = txPacket,
         \A m \in Node \ {s} : awaiting_ack'[m] = awaiting_ack[m] /\ csmaca_active'[m] = csmaca_active[m]
  PROVE  Listening(s)'
BY DEF Listening

(* CSMA/CA goes on.                                                        *)
LEMMA ContentionAlone ==
  ASSUME IInv, NEW s \in Node, AloneInv(s), NEW x, IsHead(agenda, x), IsStep(x.ev, s),
         x.ev.kind \notin {"txEnd", "timeout", "endCca"} \/ csmaca_active[s],
         NEW kind \in StepKind, NEW d \in Nat, ToCca(x.ev.kind) <= d + ToCca(kind),
         Contends(kind, csmaca_active'[s]), agenda' = Add(After(x), d, Ev(kind, s)),
         UNCHANGED <<arq, history>>, \A m \in Node \ {s} : csmaca_active'[m] = csmaca_active[m]
  PROVE  AloneInv(s)'
<1>1. /\ awaiting_ack[s] = TRUE /\ NoStep(After(x), s) /\ AloneEvents(After(x), s) /\ Dated(After(x))
      /\ \A y \in After(x) : Reaches(y, s, ToCca(x.ev.kind))
      /\ Stage(After(x), s, x.ev.kind, ToCca(x.ev.kind), csmaca_active[s], txPacket[s],
               Unheard(txPacket[s], delivered), Faithful(txPacket[s], message[s], Refuses(s)))
      /\ txPacket[s] # NoFrame
  BY SenderStep
<1>2. Unheard(txPacket[s], delivered) /\ \A y \in After(x) : y.ev.frame # txPacket[s]
  BY <1>1 DEF Stage, Follows
<1>3. awaiting_ack' = awaiting_ack /\ txPacket' = txPacket /\ accepted' = accepted /\ delivered' = delivered
  BY DEF arq, history
<1>4. Listening(s)'
  BY <1>3, ListeningKept DEF AloneInv
<1>5. \A y \in After(x) : Reaches(y, s, d + ToCca(kind))
  <2>1. ToCca(x.ev.kind) \in Int /\ d + ToCca(kind) \in Int
    BY ToCcaIsNat
  <2> QED BY <1>1, <2>1, ReachesSooner
<1>6. Stage(After(x), s, kind, d + ToCca(kind), csmaca_active'[s], txPacket'[s],
            Unheard(txPacket'[s], delivered'), Faithful(txPacket'[s], message'[s], Refuses(s)'))
  BY <1>2, <1>3 DEF Stage
<1>7. awaiting_ack'[s] = TRUE /\ txPacket'[s] # NoFrame
  BY <1>1, <1>3
<1> QED BY <1>1, <1>4, <1>5, <1>6, <1>7, SenderGoesOn

LEMMA CsmaAlone ==
  ASSUME IInv, NEW s \in Node, AloneInv(s), NEW x,
         RestartCsmaCa(x) \/ RandomBackoffDelay(x) \/ RequestCca(x) \/ CsmaCaFailure(x)
  PROVE  AloneInv(s)'
<1>1. /\ IsHead(agenda, x) /\ UNCHANGED <<arq, history>>
      /\ x.ev.kind \in {"startCsma", "backoff", "requestCca", "csmaFailure"}
  BY DEF RestartCsmaCa, RandomBackoffDelay, RequestCca, CsmaCaFailure, Due
<1>2. x.ev.node = s
  BY <1>1, AloneHead DEF AloneEvent
<1>3. IsStep(x.ev, s)
  BY <1>1, <1>2 DEF IsStep, StepKind, Contention
<1>4. x.ev.kind # "startCsma" => csmaca_active[s]
  <2>1. Stage(After(x), s, x.ev.kind, ToCca(x.ev.kind), csmaca_active[s], txPacket[s],
              Unheard(txPacket[s], delivered), Faithful(txPacket[s], message[s], Refuses(s)))
    BY <1>1, <1>3, SenderStep
  <2> QED BY <1>1, <2>1 DEF Stage, Contends, Follows
<1>5. csmaca_active \in [Node -> BOOLEAN] /\ BE \in [Node -> Nat]
  BY DEF IInv, TypeOK
<1>6. {"startCsma", "backoff", "requestCca", "endCca"} \subseteq StepKind
  BY DEF StepKind, Contention
<1>7. ToCca(x.ev.kind) = CcaTime /\ ToCca("startCsma") = CcaTime /\ ToCca("backoff") = CcaTime
      /\ ToCca("requestCca") = CcaTime /\ ToCca("endCca") = 0
  BY <1>1 DEF ToCca
<1>8. CASE RestartCsmaCa(x)
  <2>1. agenda' = Add(After(x), 0, Ev("backoff", s)) /\ csmaca_active' = [csmaca_active EXCEPT ![s] = TRUE]
    BY <1>2, <1>8 DEF RestartCsmaCa, StartCsmaCa
  <2>2. csmaca_active'[s] /\ \A m \in Node \ {s} : csmaca_active'[m] = csmaca_active[m]
    BY <1>5, <2>1
  <2>3. Contends("backoff", csmaca_active'[s]) /\ ToCca(x.ev.kind) <= 0 + ToCca("backoff")
    BY <1>7, <2>2 DEF Contends, Contention
  <2> QED BY <1>1, <1>3, <1>6, <2>1, <2>2, <2>3, ContentionAlone
<1>9. CASE RandomBackoffDelay(x)
  <2>1. PICK b \in Backoffs(BE[s]) : agenda' = Add(After(x), b * UnitBackoff, Ev("requestCca", s))
    BY <1>2, <1>9 DEF RandomBackoffDelay
  <2>2. b \in Nat
    BY <1>5 DEF Backoffs
  <2>3. PICK d \in Nat : d = b * UnitBackoff
    BY <2>2
  <2>4. csmaca_active' = csmaca_active /\ csmaca_active[s]
    BY <1>4, <1>9 DEF RandomBackoffDelay, csma, Due
  <2>5. Contends("requestCca", csmaca_active'[s]) /\ ToCca(x.ev.kind) <= d + ToCca("requestCca")
    BY <1>7, <2>4 DEF Contends, Contention
  <2> QED BY <1>1, <1>3, <1>6, <2>1, <2>3, <2>4, <2>5, ContentionAlone
<1>10. CASE RequestCca(x)
  <2>1. agenda' = Add(After(x), CcaTime, Ev("endCca", s))
    BY <1>2, <1>10 DEF RequestCca
  <2>2. csmaca_active' = csmaca_active /\ csmaca_active[s]
    BY <1>4, <1>10 DEF RequestCca, csma, Due
  <2>3. Contends("endCca", csmaca_active'[s]) /\ ToCca(x.ev.kind) <= CcaTime + ToCca("endCca")
    BY <1>7, <2>2 DEF Contends, Contention
  <2> QED BY <1>1, <1>3, <1>6, <2>1, <2>2, <2>3, ContentionAlone
<1>11. CASE CsmaCaFailure(x)
  <2>1. csmaca_active' = [csmaca_active EXCEPT ![s] = FALSE]
    BY <1>2, <1>11 DEF CsmaCaFailure
  <2>2. ~ csmaca_active'[s] /\ \A m \in Node \ {s} : csmaca_active'[m] = csmaca_active[m]
    BY <1>5, <2>1
  <2>3. CASE agenda' = Add(After(x), 0, Ev("startCsma", s))
    <3>1. Contends("startCsma", csmaca_active'[s]) /\ ToCca(x.ev.kind) <= 0 + ToCca("startCsma")
      BY <1>7, <2>2 DEF Contends
    <3>2. x.ev.kind \notin {"txEnd", "timeout", "endCca"}
      BY <1>1
    <3> QED BY <1>1, <1>3, <1>6, <2>2, <2>3, <3>1, <3>2, ContentionAlone
  <2>4. CASE agenda' = After(x)
    <3>0. /\ NoStep(After(x), s) /\ AloneEvents(After(x), s)
          /\ \A y \in After(x) : Reaches(y, s, ToCca(x.ev.kind))
      BY <1>1, <1>3, SenderStep
    <3>1. NoStep(agenda', s) /\ AloneEvents(agenda', s) /\ \A y \in agenda' : Reaches(y, s, CcaTime)
      BY <1>7, <2>4, <3>0
    <3>2. awaiting_ack' = awaiting_ack /\ txPacket' = txPacket /\ accepted' = accepted
      BY <1>1 DEF arq, history
    <3>3. Listening(s)'
      BY <2>2, <3>2, ListeningKept DEF AloneInv
    <3> QED BY <3>1, <3>3, SenderStops
  <2> QED BY <1>2, <1>11, <2>3, <2>4 DEF CsmaCaFailure
<1> QED BY <1>8, <1>9, <1>10, <1>11

(* The frame was sent, and its redundancy is yet to be decided about.      *)
LEMMA FollowAlone ==
  ASSUME IInv, NEW s \in Node, AloneInv(s), NEW x, IsHead(agenda, x), IsStep(x.ev, s),
         x.ev.kind \in {"txEnd", "timeout"}, NEW kind \in {"timeout", "endCca"},
         NEW d, ToCca(x.ev.kind) = d + ToCca(kind), agenda' = Add(After(x), d, Ev(kind, s)),
         UNCHANGED <<awaiting_ack, txPacket, csma, accepted, delivered, redundancy>>
  PROVE  AloneInv(s)'
<1>1. /\ awaiting_ack[s] = TRUE /\ NoStep(After(x), s) /\ AloneEvents(After(x), s)
      /\ \A y \in After(x) : Reaches(y, s, ToCca(x.ev.kind))
      /\ Stage(After(x), s, x.ev.kind, ToCca(x.ev.kind), csmaca_active[s], txPacket[s],
               Unheard(txPacket[s], delivered), Faithful(txPacket[s], message[s], Refuses(s)))
      /\ txPacket[s] # NoFrame
  BY SenderStep
<1>2. /\ ~ csmaca_active[s] /\ Faithful(txPacket[s], message[s], Refuses(s))
      /\ \A y \in After(x) : TooLate(y, s, ToCca(x.ev.kind))
  BY <1>1 DEF Stage, Contends, Contention, Follows
<1>3. csmaca_active' = csmaca_active /\ message' = message /\ Refuses(s)' = Refuses(s)
  BY DEF csma, redundancy, sender, Refuses
<1>4. Listening(s)'
  BY <1>3, ListeningKept DEF AloneInv
<1>5. Stage(After(x), s, kind, d + ToCca(kind), csmaca_active'[s], txPacket'[s],
            Unheard(txPacket'[s], delivered'), Faithful(txPacket'[s], message'[s], Refuses(s)'))
  BY <1>2, <1>3 DEF Stage, Follows
<1>6. awaiting_ack'[s] = TRUE /\ txPacket'[s] # NoFrame /\ kind \in StepKind
  BY <1>1 DEF StepKind, Contention, Watch
<1>7. \A y \in After(x) : Reaches(y, s, d + ToCca(kind))
  BY <1>1
<1> QED BY <1>1, <1>4, <1>5, <1>6, <1>7, SenderGoesOn

(* The end of a transmission.                                              *)
LEMMA FrameSentAlone ==
  ASSUME IInv, NEW s \in Node, AloneInv(s), NEW x, FrameSent(x), UNCHANGED redundancy
  PROVE  AloneInv(s)'
<1>1. /\ IsHead(agenda, x) /\ x.ev.kind = "txEnd" /\ UNCHANGED <<arq, history, csma>>
      /\ x.ev.node \in Node
  BY HeadFacts DEF FrameSent, Due
<1>2. /\ csmaca_active' = csmaca_active /\ UNCHANGED <<csmaca_active, arq, history>>
      /\ UNCHANGED <<awaiting_ack, txPacket, csma, accepted, delivered, redundancy>>
  BY <1>1 DEF csma, arq, history
<1>3. CASE x.ev.node = s
  <2>1. IsStep(x.ev, s)
    BY <1>1, <1>3 DEF IsStep, StepKind, Watch
  <2>2. awaiting_ack[s] /\ NoStep(After(x), s)
    BY <1>1, <2>1, SenderStep
  <2>3. Timers(After(x), s) = {}
    BY <2>2 DEF Timers, NoStep, IsStep, StepKind, Watch
  <2>4. Superseded(After(x), s) = After(x)
    BY <2>3 DEF Superseded
  <2>5. agenda' = Add(After(x), AckTimeout, Ev("timeout", s))
    BY <1>3, <2>2, <2>4 DEF FrameSent, MustWind
  <2>6. ToCca(x.ev.kind) = AckTimeout + ToCca("timeout")
    BY <1>1 DEF ToCca
  <2> QED BY <1>1, <1>2, <2>1, <2>5, <2>6, FollowAlone
<1>4. CASE x.ev.node # s
  <2>1. ~ IsStep(x.ev, s) /\ ~ awaiting_ack[x.ev.node]
    BY <1>1, <1>4 DEF IsStep, AloneInv, Listening
  <2>2. agenda' = After(x)
    BY <2>1 DEF FrameSent, MustWind
  <2>3. Reduced(agenda, After(x), x.due, s)
    BY <2>1, PopReduced DEF After
  <2>4. /\ Ev("removeNoise", s) \in Event /\ ~ IsStep(Ev("removeNoise", s), s)
        /\ AloneEvent(Ev("removeNoise", s), s) /\ Plain(Ev("removeNoise", s), s)
        /\ Ev("removeNoise", s).frame = NoFrame /\ 0 \in Nat
    BY PlainEvent
  <2>5. Faithful(txPacket[s], message'[s], Refuses(s)') = Faithful(txPacket[s], message[s], Refuses(s))
    BY DEF redundancy, sender, Refuses
  <2> QED BY <1>1, <1>2, <2>1, <2>2, <2>3, <2>4, <2>5, QuietPass
<1> QED BY <1>3, <1>4

(* The timer expires.                                                      *)
LEMMA TimeoutAlone ==
  ASSUME IInv, NEW s \in Node, AloneInv(s), NEW x, HarqAcknowledgementTimeout(x)
  PROVE  AloneInv(s)'
<1>1. /\ IsHead(agenda, x) /\ x.ev.kind \in {"timeout", "oldTimeout"}
      /\ UNCHANGED <<txPacket, accepted, delivered, redundancy>>
  BY DEF HarqAcknowledgementTimeout, Due
<1>2. x.ev.node = s /\ x.ev.kind = "timeout"
  BY <1>1, AloneHead DEF AloneEvent
<1>3. IsStep(x.ev, s)
  BY <1>2 DEF IsStep, StepKind, Watch
<1>4. /\ awaiting_ack[s] = TRUE /\ NoStep(After(x), s) /\ AloneEvents(After(x), s)
      /\ \A y \in After(x) : Reaches(y, s, ToCca(x.ev.kind))
  BY <1>1, <1>3, SenderStep
<1>5. ToCca(x.ev.kind) = CcaTime /\ ToCca(x.ev.kind) = CcaTime + ToCca("endCca")
  BY <1>2 DEF ToCca
<1>6. CASE TransmissionFailed(s, After(x))
  <2>1. agenda' = After(x) /\ awaiting_ack' = [awaiting_ack EXCEPT ![s] = FALSE] /\ csmaca_active' = csmaca_active
    BY <1>6 DEF TransmissionFailed, csma
  <2>2. \A m \in Node \ {s} : awaiting_ack'[m] = awaiting_ack[m]
    BY <2>1 DEF IInv, TypeOK
  <2>3. Listening(s)'
    BY <1>1, <2>1, <2>2, ListeningKept DEF AloneInv
  <2> QED BY <1>4, <1>5, <2>1, <2>3, SenderStops
<1>7. CASE RequestRedundancy(s, After(x))
  <2>1. agenda' = Add(After(x), CcaTime, Ev("endCca", s)) /\ UNCHANGED <<csma, awaiting_ack>>
    BY <1>7 DEF RequestRedundancy
  <2>2. UNCHANGED <<awaiting_ack, txPacket, csma, accepted, delivered, redundancy>>
    BY <1>1, <2>1
  <2> QED BY <1>1, <1>2, <1>3, <1>5, <2>1, <2>2, FollowAlone
<1> QED BY <1>2, <1>4, <1>6, <1>7 DEF HarqAcknowledgementTimeout, IgnoreTimeout

---------------------------------------------------------------------------
(* s transmits, when nothing is on its way to it.                          *)
LEMMA SenderSendsAlone ==
  ASSUME NEW s \in Node, Prompt(s), NEW A, Dated(A), NoStep(A, s), AloneEvents(A, s),
         \A y \in A : Reaches(y, s, 0), \A y \in A : ~ Receives(y.ev, s),
         NEW f \in Frame, f # NoFrame, f.type = "DATA", NEW d, NEW kind,
         \/ kind = "startRx" /\ d = AirTime(f)
         \/ kind = "startRedundancy" /\ d = PreambleTime + RedundancyTime,
         SendFrame(s, f, kind, d, A), Listening(s)', awaiting_ack'[s] = TRUE, ~ csmaca_active'[s],
         txPacket'[s] = f, Faithful(txPacket'[s], message'[s], Refuses(s)')
  PROVE  AloneInv(s)'
<1> DEFINE E == [m \in Node \ {s} |-> RxEv(kind, m, f)]
           B == AddForEach(A, E, Delay[s])
<1>1. agenda' = Add(B, d, Ev("txEnd", s))
  BY DEF SendFrame
<1>e. DOMAIN E = Node \ {s} /\ \A m \in Node \ {s} : E[m] = RxEv(kind, m, f)
  OBVIOUS
<1> HIDE DEF E
<1>2. PICK g : /\ B = A \cup {g[m] : m \in DOMAIN E}
               /\ \A m \in DOMAIN E : g[m].ev = E[m] /\ g[m].due = Delay[s][m]
  BY AddForEachView DEF B
<1> HIDE DEF B
<1>3. \A m \in Node \ {s} : g[m].ev = RxEv(kind, m, f) /\ g[m].due = Delay[s][m]
  BY <1>e, <1>2
<1>4. \A y \in B : y \in A \/ \E m \in Node \ {s} : y = g[m]
  BY <1>e, <1>2
<1>5. PICK c \in Int : c = d + ToCca("txEnd") /\ c = d + AckTimeout + CcaTime /\ d \in Nat
  <2>1. d \in Nat
    BY TimesAreNat
  <2> QED BY <2>1 DEF ToCca
<1>6. ASSUME NEW y \in A
      PROVE  Reaches(y, s, c) /\ TooLate(y, s, c)
  <2>1. Until(y.ev, s) \in Nat /\ y.due \in Nat
    BY UntilIsNat DEF Dated
  <2>2. ~ Coming(y.ev, s)
    BY <2>1 DEF Reaches
  <2> QED BY <2>2 DEF Reaches, TooLate
<1>7. ASSUME NEW m \in Node \ {s}
      PROVE  /\ ~ IsStep(g[m].ev, s) /\ AloneEvent(g[m].ev, s)
             /\ Reaches(g[m], s, c) /\ TooLate(g[m], s, c)
  <2>0. RxEv(kind, m, f).kind = kind /\ RxEv(kind, m, f).node = m /\ RxEv(kind, m, f).frame = f
    BY DEF RxEv
  <2>1. g[m].ev.kind = kind /\ g[m].ev.node = m /\ g[m].ev.frame = f
    BY <1>3, <2>0
  <2>2. ~ IsStep(g[m].ev, s) /\ AloneEvent(g[m].ev, s) /\ ~ Receives(g[m].ev, s)
    BY <2>1 DEF IsStep, AloneEvent, Receives
  <2>3. Lasts(g[m].ev) = d
    BY <2>1 DEF Lasts, OnAir
  <2>4. Until(g[m].ev, s) = Delay[m][s] + (d + CcaTime)
    BY <2>1, <2>3 DEF Until
  <2>5. Skips(g[m].ev, s) <= HeaderTime /\ Skips(g[m].ev, s) \in Nat
    BY DEF Skips
  <2>6. Delay[m][s] \in Nat /\ Delay[s][m] \in Nat /\ Delay[s][m] + Delay[m][s] < AckTimeout
    BY DEF Prompt
  <2>7. g[m].due = Delay[s][m]
    BY <1>3
  <2>8. Delay[s][m] + (Delay[m][s] + (d + CcaTime)) < c
    BY <1>5, <2>6
  <2>9. c + Skips(g[m].ev, s) <= Delay[s][m] + (Delay[m][s] + (d + CcaTime)) + AckTimeout + HeaderTime
    BY <1>5, <2>5, <2>6
  <2> QED BY <2>2, <2>4, <2>7, <2>8, <2>9 DEF Reaches, TooLate
<1>8. NoStep(B, s) /\ AloneEvents(B, s) /\ \A y \in B : Reaches(y, s, c) /\ TooLate(y, s, c)
  BY <1>4, <1>6, <1>7 DEF NoStep, AloneEvents
<1>9. Stage(B, s, "txEnd", d + ToCca("txEnd"), csmaca_active'[s], txPacket'[s],
            Unheard(txPacket'[s], delivered'), Faithful(txPacket'[s], message'[s], Refuses(s)'))
  BY <1>5, <1>8 DEF Stage, Follows
<1>10. "txEnd" \in StepKind /\ txPacket'[s] # NoFrame /\ \A y \in B : Reaches(y, s, d + ToCca("txEnd"))
  BY <1>5, <1>8 DEF StepKind, Watch
<1> QED BY <1>1, <1>8, <1>9, <1>10, SenderGoesOn

(* A PHY that is idle receives nothing.                                    *)
LEMMA IdleReceivesNothing ==
  ASSUME PhyInv, NEW s \in Node, state[s] = "IDLE", NEW x, IsHead(agenda, x)
  PROVE  \A y \in After(x) : ~ Receives(y.ev, s)
<1>1. Count(agenda, Reception, s) = 0 /\ IsFiniteSet(agenda)
  BY DEF PhyInv, Backed, Ranked
<1>2. {y \in agenda : y.ev.kind \in Reception /\ y.ev.node = s} = {}
  <2>1. {y \in agenda : y.ev.kind \in Reception /\ y.ev.node = s} \subseteq agenda
    OBVIOUS
  <2>2. IsFiniteSet({y \in agenda : y.ev.kind \in Reception /\ y.ev.node = s})
    BY <1>1, <2>1, FS_Subset
  <2> QED BY <1>1, <2>2, FS_EmptySet DEF Count
<1>3. \A y \in agenda : ~ Receives(y.ev, s)
  BY <1>2 DEF Receives, Reception
<1> QED BY <1>3, PopMoved DEF After, Moved

(* CSMA/CA has been granted the channel.                                   *)
LEMMA IdleAlone ==
  ASSUME IInv, PhyInv, HarqTypeOK, NEW s \in Node, Prompt(s), AloneInv(s), NEW x, HarqCsmaCaIdle(x)
  PROVE  AloneInv(s)'
<1>1. /\ IsHead(agenda, x) /\ x.ev.kind = "csmaIdle" /\ UNCHANGED <<arq, history>>
      /\ HarqStartTx(x.ev.node, After(x))
      /\ csmaca_active' = [csmaca_active EXCEPT ![x.ev.node] = FALSE]
  BY DEF HarqCsmaCaIdle, Due
<1>2. x.ev.node = s
  BY <1>1, AloneHead DEF AloneEvent
<1>3. IsStep(x.ev, s) /\ ToCca(x.ev.kind) = 0
  BY <1>1, <1>2 DEF IsStep, StepKind, Contention, ToCca
<1>4. /\ awaiting_ack[s] = TRUE /\ NoStep(After(x), s) /\ AloneEvents(After(x), s) /\ Dated(After(x))
      /\ \A y \in After(x) : Reaches(y, s, ToCca(x.ev.kind))
      /\ txPacket[s] \in Frame /\ txPacket[s] # NoFrame /\ txPacket[s].type = "DATA"
  BY <1>1, <1>3, SenderStep
<1>5. awaiting_ack' = awaiting_ack /\ txPacket' = txPacket /\ accepted' = accepted
  BY <1>1 DEF arq, history
<1>6. ~ csmaca_active'[s] /\ \A m \in Node \ {s} : csmaca_active'[m] = csmaca_active[m]
  BY <1>1, <1>2 DEF IInv, TypeOK
<1>7. Listening(s)'
  BY <1>5, <1>6, ListeningKept DEF AloneInv
<1>8. CASE agenda' = After(x)
  <2>1. 0 \in Int /\ CcaTime \in Int /\ 0 <= CcaTime
    OBVIOUS
  <2>2. \A y \in After(x) : Reaches(y, s, CcaTime)
    BY <1>3, <1>4, <2>1, ReachesSooner
  <2> QED BY <1>4, <1>7, <1>8, <2>2, SenderStops
<1>9. CASE ~ Refuses(s) /\ state[s] = "IDLE"
  <2>1. /\ SendFrame(s, txPacket[s], "startRx", AirTime(txPacket[s]), After(x))
        /\ message' = [message EXCEPT ![s] = txPacket[s]]
        /\ UNCHANGED <<phyType, awaiting_redundancy>>
    BY <1>1, <1>2, <1>4, <1>9 DEF HarqStartTx, StartTx, Remembered
  <2>2. Faithful(txPacket'[s], message'[s], Refuses(s)')
    BY <1>5, <1>9, <2>1 DEF Faithful, Refuses, HarqTypeOK
  <2>3. \A y \in After(x) : ~ Receives(y.ev, s)
    BY <1>1, <1>9, IdleReceivesNothing
  <2>4. txPacket'[s] = txPacket[s] /\ awaiting_ack'[s] = TRUE
    BY <1>4, <1>5
  <2>5. \A y \in After(x) : Reaches(y, s, 0)
    BY <1>3, <1>4
  <2> QED BY <1>4, <1>6, <1>7, <2>1, <2>2, <2>3, <2>4, <2>5, SenderSendsAlone
<1>10. agenda' = After(x) \/ (~ Refuses(s) /\ state[s] = "IDLE")
  BY <1>1, <1>2 DEF HarqStartTx, StartTx
<1> QED BY <1>8, <1>9, <1>10

(* Another node transmits its acknowledgement.                             *)
LEMMA OtherSendsAlone ==
  ASSUME IInv, HarqTypeOK, NEW s \in Node, AloneInv(s), NEW x, IsHead(agenda, x), x.ev.kind = "endCca",
         NEW n \in Node \ {s}, x.ev.node = n, UNCHANGED <<csmaca_active, arq, history>>,
         HarqStartTx(n, After(x))
  PROVE  AloneInv(s)'
<1> DEFINE f == txPacket[n]
           E == [m \in Node \ {n} |-> RxEv("startRx", m, f)]
           C == After(x)
           B == AddForEach(C, E, Delay[n])
<1>1. ~ IsStep(x.ev, s)
  BY DEF IsStep
<1>2. Reduced(agenda, C, x.due, s)
  BY <1>1, PopReduced DEF After
<1>3. Faithful(txPacket[s], message'[s], Refuses(s)') = Faithful(txPacket[s], message[s], Refuses(s))
  BY DEF HarqStartTx, HarqTypeOK, Refuses
<1>4. CASE agenda' = C
  <2>1. /\ Ev("removeNoise", s) \in Event /\ ~ IsStep(Ev("removeNoise", s), s)
        /\ AloneEvent(Ev("removeNoise", s), s) /\ Plain(Ev("removeNoise", s), s)
        /\ Ev("removeNoise", s).frame = NoFrame /\ 0 \in Nat
    BY PlainEvent
  <2> HIDE DEF C
  <2> QED BY <1>1, <1>2, <1>3, <1>4, <2>1, QuietPass
<1>5. CASE f # NoFrame /\ SendFrame(n, f, "startRx", AirTime(f), C)
  <2>1. agenda' = Add(B, AirTime(f), Ev("txEnd", n))
    BY <1>5 DEF SendFrame
  <2>e. DOMAIN E = Node \ {n} /\ \A m \in Node \ {n} : E[m] = RxEv("startRx", m, f)
    OBVIOUS
  <2>f. f \in Frame /\ f.type = "ACK"
    BY <1>5 DEF AloneInv, Listening, IInv, TypeOK
  <2> HIDE DEF E
  <2>2. PICK g : /\ B = C \cup {g[m] : m \in DOMAIN E}
                 /\ \A m \in DOMAIN E : g[m].ev = E[m] /\ g[m].due = Delay[n][m]
    BY AddForEachView DEF B
  <2> HIDE DEF B, f, C
  <2>3. PICK e : Add(B, AirTime(f), Ev("txEnd", n)) = B \cup {e} /\ e.ev = Ev("txEnd", n) /\ e.due = AirTime(f)
    BY AddView
  <2> DEFINE S == {g[m] : m \in DOMAIN E} \cup {e}
  <2>4. agenda' = C \cup S
    BY <2>1, <2>2, <2>3
  <2>5. \A b \in S : b = e \/ \E m \in Node \ {n} : b = g[m]
    BY <2>e
  <2>6. \A m \in Node \ {n} : g[m].ev = RxEv("startRx", m, f) /\ g[m].due = Delay[n][m]
    BY <2>e, <2>2
  <2> HIDE DEF S
  <2> DEFINE aw == awaiting_ack[s]
             act == csmaca_active[s]
             own == txPacket[s]
             un == Unheard(txPacket[s], delivered)
             ok == Faithful(txPacket[s], message[s], Refuses(s))
  <2>7. /\ x \in agenda /\ x.due \in Nat /\ x.ev \in Event
        /\ Dated(agenda) /\ AloneEvents(agenda, s) /\ AloneEvents(C, s)
        /\ aw => own # NoFrame /\ own.type = "DATA"
        /\ Pursuit(agenda, s, aw, act, own, un, ok)
    BY AloneHead DEF C
  <2> HIDE DEF aw, act, own, un, ok
  <2>8. /\ e.due \in Nat /\ e.ev \in Event /\ ~ IsStep(e.ev, s) /\ AloneEvent(e.ev, s)
        /\ Plain(e.ev, s) /\ e.ev.frame = NoFrame
    <3>1. AirTime(f) \in Nat
      BY TimesAreNat
    <3> QED BY <2>3, <3>1, PlainEvent
  <2>9. ASSUME NEW m \in Node \ {n}
        PROVE  /\ g[m].due \in Nat /\ g[m].ev \in Event /\ ~ IsStep(g[m].ev, s) /\ AloneEvent(g[m].ev, s)
               /\ g[m].ev.frame = f /\ InTurn(g[m].ev, g[m].due, x.ev, s)
               /\ Succeeds(g[m].ev, g[m].due, x.ev, s)
    <3>a. PICK ev : ev = RxEv("startRx", m, f)
      OBVIOUS
    <3>b. ev.kind = "startRx" /\ ev.node = m /\ ev.frame = f /\ ev \in Event
      BY <2>f, <3>a DEF RxEv, Event, Kind, Reception
    <3>c. g[m].ev = ev
      BY <2>6, <3>a
    <3>1. g[m].ev.kind = "startRx" /\ g[m].ev.node = m /\ g[m].ev.frame = f
      BY <3>b, <3>c
    <3>2. g[m].ev \in Event
      BY <3>b, <3>c
    <3>3. g[m].due = Delay[n][m] /\ Delay[n][m] \in Nat
      BY <2>6
    <3>4. ~ IsStep(g[m].ev, s) /\ AloneEvent(g[m].ev, s) /\ ~ Receives(g[m].ev, s)
      BY <3>1, <2>f DEF IsStep, StepKind, Contention, Watch, AloneEvent, Receives
    <3>5. CASE m = s
      <4>1. Coming(x.ev, s) /\ Until(x.ev, s) = Delay[n][s] + 0 /\ Skips(x.ev, s) = 0
        BY DEF Coming, Until, Skips
      <4>2. Until(g[m].ev, s) = 0 /\ Skips(g[m].ev, s) = 0
        BY <3>1, <3>5 DEF Until, Skips
      <4>3. Succeeds(g[m].ev, g[m].due, x.ev, s)
        BY <3>3, <3>5, <4>1, <4>2 DEF Succeeds
      <4> QED BY <3>1, <3>2, <3>3, <3>4, <4>3 DEF InTurn
    <3>6. CASE m # s
      <4>1. ~ Coming(g[m].ev, s)
        BY <2>f, <3>1, <3>6 DEF Coming, IsData
      <4> QED BY <3>1, <3>2, <3>3, <3>4, <4>1 DEF InTurn, Succeeds
    <3> QED BY <3>5, <3>6
  <2>10. \A b \in S : /\ b.due \in Nat /\ b.ev \in Event /\ ~ IsStep(b.ev, s)
                      /\ aw /\ b.ev.frame = own => \E y \in agenda : y.ev.frame = own
                      /\ \/ Plain(b.ev, s)
                         \/ \E y \in agenda : /\ y.due = x.due /\ Succeeds(b.ev, b.due, y.ev, s)
                                              /\ ok => InTurn(b.ev, b.due, y.ev, s)
    <3> SUFFICES ASSUME NEW b \in S
                 PROVE  /\ b.due \in Nat /\ b.ev \in Event /\ ~ IsStep(b.ev, s)
                        /\ ~ (aw /\ b.ev.frame = own)
                        /\ Plain(b.ev, s) \/ (Succeeds(b.ev, b.due, x.ev, s) /\ InTurn(b.ev, b.due, x.ev, s))
      BY <2>7
    <3>1. CASE b = e
      BY <2>7, <2>8, <3>1
    <3>2. CASE \E m \in Node \ {n} : b = g[m]
      <4>1. PICK m \in Node \ {n} : b = g[m]
        BY <3>2
      <4> QED BY <2>7, <2>9, <2>f, <4>1
    <3> QED BY <2>5, <3>1, <3>2
  <2>11. Pursuit(C \cup S, s, aw, act, own, un, ok)
    <3>1. aw => own # NoFrame
      BY <2>7
    <3> QED BY <1>2, <2>7, <2>10, <3>1, Succession
  <2>12. AloneEvents(C \cup S, s)
    BY <2>5, <2>7, <2>8, <2>9 DEF AloneEvents
  <2>13. /\ AloneEvents(agenda', s)
         /\ Pursuit(agenda', s, aw, act, own, un, Faithful(txPacket[s], message'[s], Refuses(s)'))
    BY <1>3, <2>4, <2>11, <2>12 DEF ok
  <2> QED BY <2>13, QuietAlone DEF aw, act, own, un
<1>6. agenda' = C \/ (f # NoFrame /\ SendFrame(n, f, "startRx", AirTime(f), C))
  BY DEF HarqStartTx, StartTx
<1> QED BY <1>4, <1>5, <1>6

(* The end of an assessment at s.                                          *)
LEMMA SenderCcaAlone ==
  ASSUME IInv, PhyInv, HarqTypeOK, NEW s \in Node, Prompt(s), AloneInv(s),
         NEW x, HarqEndCca(x), x.ev.node = s
  PROVE  AloneInv(s)'
<1>1. IsHead(agenda, x) /\ x.ev.kind = "endCca" /\ UNCHANGED <<arq, history>>
  BY DEF HarqEndCca, Due
<1>2. IsStep(x.ev, s) /\ ToCca(x.ev.kind) = 0
  BY <1>1 DEF IsStep, StepKind, Contention, ToCca
<1>3. /\ awaiting_ack[s] = TRUE /\ NoStep(After(x), s) /\ AloneEvents(After(x), s) /\ Dated(After(x))
      /\ \A y \in After(x) : Reaches(y, s, ToCca(x.ev.kind))
      /\ Stage(After(x), s, x.ev.kind, ToCca(x.ev.kind), csmaca_active[s], txPacket[s],
               Unheard(txPacket[s], delivered), Faithful(txPacket[s], message[s], Refuses(s)))
      /\ txPacket[s] \in Frame /\ txPacket[s] # NoFrame /\ txPacket[s].type = "DATA"
  BY <1>1, <1>2, SenderStep
<1>4. CASE csmaca_active[s]
  <2>1. PICK status : CcaConfirm(s, status, After(x))
    BY <1>4 DEF HarqEndCca, HarqNotifyCcaConfirm
  <2>2. PICK kind \in {"csmaIdle", "csmaFailure", "backoff"} : agenda' = Add(After(x), 0, Ev(kind, s))
    BY <2>1 DEF CcaConfirm, AfterBusy
  <2>3. csmaca_active' = csmaca_active /\ kind \in StepKind /\ Contends(kind, csmaca_active'[s])
    BY <1>4, <2>1 DEF CcaConfirm, StepKind, Contention, Contends
  <2>4. ToCca(x.ev.kind) <= 0 + ToCca(kind)
    BY <1>2, ToCcaIsNat
  <2>5. /\ x.ev.kind \notin {"txEnd", "timeout", "endCca"} \/ csmaca_active[s]
        /\ \A m \in Node \ {s} : csmaca_active'[m] = csmaca_active[m]
        /\ IsStep(x.ev, s) /\ 0 \in Nat
    BY <1>2, <1>4, <2>3
  <2> QED BY <1>1, <2>2, <2>3, <2>4, <2>5, ContentionAlone
<1>5. CASE ~ csmaca_active[s]
  <2>1. Faithful(txPacket[s], message[s], Refuses(s))
    BY <1>1, <1>3, <1>5 DEF Stage, Contends, Contention
  <2>2. PICK status : HarqNotifyCcaConfirm(s, status, After(x))
    BY <1>5 DEF HarqEndCca, CcaConfirm
  <2>3. /\ awaiting_ack' = awaiting_ack /\ txPacket' = txPacket /\ accepted' = accepted
        /\ csmaca_active' = csmaca_active
    BY <1>1, <2>2 DEF HarqNotifyCcaConfirm, arq, history, csma
  <2>4. Listening(s)'
    BY <2>3, ListeningKept DEF AloneInv
  <2>5. CASE agenda' = After(x)
    <3>1. 0 \in Int /\ CcaTime \in Int /\ 0 <= CcaTime
      OBVIOUS
    <3>2. \A y \in After(x) : Reaches(y, s, CcaTime)
      BY <1>2, <1>3, <3>1, ReachesSooner
    <3> QED BY <1>3, <2>4, <2>5, <3>2, SenderStops
  <2>6. CASE SendRedundancy(s, After(x)) /\ agenda' # After(x)
    <3>1. /\ state[s] = "IDLE" /\ message[s] # NoFrame
          /\ SendFrame(s, message[s], RedundancyKind, RedundancyAirTime(message[s]), After(x))
          /\ UNCHANGED <<phyType, message, awaiting_redundancy>>
      BY <2>6 DEF SendRedundancy
    <3>2. message[s] = txPacket[s] /\ Faithful(txPacket'[s], message'[s], Refuses(s)')
      BY <2>1, <2>3, <3>1 DEF Faithful, Refuses
    <3>3. PICK f \in Frame : f = txPacket[s] /\ f # NoFrame /\ f.type = "DATA"
      BY <1>3
    <3>4. PICK kind, d : /\ kind = RedundancyKind /\ d = RedundancyAirTime(f)
                         /\ \/ kind = "startRx" /\ d = AirTime(f)
                            \/ kind = "startRedundancy" /\ d = PreambleTime + RedundancyTime
      BY DEF RedundancyKind, RedundancyAirTime
    <3>5. SendFrame(s, f, kind, d, After(x))
      BY <3>1, <3>2, <3>3, <3>4
    <3>a. \/ kind = "startRx" /\ d = AirTime(f)
          \/ kind = "startRedundancy" /\ d = PreambleTime + RedundancyTime
      BY <3>4
    <3>b. NoStep(After(x), s) /\ AloneEvents(After(x), s) /\ Dated(After(x)) /\ f # NoFrame /\ f.type = "DATA"
      BY <1>3, <3>3
    <3>6. \A y \in After(x) : ~ Receives(y.ev, s)
      BY <1>1, <3>1, IdleReceivesNothing
    <3>7. txPacket'[s] = f /\ awaiting_ack'[s] = TRUE /\ ~ csmaca_active'[s]
      BY <1>3, <1>5, <2>3, <3>3
    <3>8. \A y \in After(x) : Reaches(y, s, 0)
      BY <1>2, <1>3
    <3> QED BY <2>4, <3>2, <3>5, <3>6, <3>7, <3>8, <3>a, <3>b, SenderSendsAlone
  <2> QED BY <1>3, <2>2, <2>5, <2>6 DEF HarqNotifyCcaConfirm
<1> QED BY <1>4, <1>5

(* ... and elsewhere.                                                      *)
LEMMA EndCcaAlone ==
  ASSUME IInv, PhyInv, HarqTypeOK, NEW s \in Node, Prompt(s), AloneInv(s), NEW x, HarqEndCca(x)
  PROVE  AloneInv(s)'
<1>1. /\ IsHead(agenda, x) /\ x.ev.kind = "endCca" /\ UNCHANGED <<arq, history>>
      /\ x.ev.node \in Node
  BY HeadFacts DEF HarqEndCca, Due
<1>2. CASE x.ev.node = s
  BY <1>2, SenderCcaAlone
<1>3. CASE x.ev.node # s
  <2>1. PICK n \in Node \ {s} : n = x.ev.node
    BY <1>1, <1>3
  <2>2. ~ csmaca_active[n] /\ ~ awaiting_ack[n]
    BY DEF AloneInv, Listening
  <2>3. PICK status : HarqNotifyCcaConfirm(n, status, After(x))
    BY <2>1, <2>2 DEF HarqEndCca, CcaConfirm
  <2>4. UNCHANGED <<csmaca_active, arq, history>>
    BY <1>1, <2>3 DEF HarqNotifyCcaConfirm, csma
  <2>5. CASE HarqStartTx(n, After(x))
    BY <1>1, <2>1, <2>4, <2>5, OtherSendsAlone
  <2>6. CASE agenda' = After(x) /\ UNCHANGED redundancy
    <3>1. ~ IsStep(x.ev, s)
      BY <1>3 DEF IsStep
    <3>2. Reduced(agenda, After(x), x.due, s)
      BY <3>1, PopReduced DEF After
    <3>3. /\ Ev("removeNoise", s) \in Event /\ ~ IsStep(Ev("removeNoise", s), s)
          /\ AloneEvent(Ev("removeNoise", s), s) /\ Plain(Ev("removeNoise", s), s)
          /\ Ev("removeNoise", s).frame = NoFrame /\ 0 \in Nat
      BY PlainEvent
    <3>4. Faithful(txPacket[s], message'[s], Refuses(s)') = Faithful(txPacket[s], message[s], Refuses(s))
      BY <2>6 DEF redundancy, sender, Refuses
    <3> QED BY <1>1, <2>4, <2>6, <3>1, <3>2, <3>3, <3>4, QuietPass
  <2> QED BY <2>2, <2>3, <2>5, <2>6 DEF HarqNotifyCcaConfirm
<1> QED BY <1>2, <1>3

---------------------------------------------------------------------------
(* The application sends: nothing has ever carried the new frame.          *)
LEMMA SendAlone ==
  ASSUME IInv, NEW s, OneSender(s), AloneInv(s), NEW n \in Sources, NEW d \in Node, d # n,
         NEW t \in Nat, Send(n, d, t), UNCHANGED redundancy
  PROVE  AloneInv(s)'
<1> DEFINE A == Elapse(agenda, t)
<1>1. n = s /\ s \in Node
  BY DEF OneSender
<1>2. PICK f : f = NewData(s, d)
  OBVIOUS
<1>3. /\ ~ awaiting_ack[s] /\ agenda' = Add(A, 0, Ev("backoff", s))
      /\ csmaca_active' = [csmaca_active EXCEPT ![s] = TRUE]
      /\ awaiting_ack' = [awaiting_ack EXCEPT ![s] = TRUE]
      /\ txPacket' = [txPacket EXCEPT ![s] = f]
      /\ accepted' = accepted \cup {f} /\ delivered' = delivered
  BY <1>1, <1>2 DEF Send, DoSendFrom, StartCsmaCa
<1>4. /\ awaiting_ack \in [Node -> BOOLEAN] /\ csmaca_active \in [Node -> BOOLEAN]
      /\ txPacket \in [Node -> Frame \cup {NoFrame}] /\ Dated(agenda)
  BY DEF IInv, TypeOK, Dated
<1>5. f \in Frame \ accepted /\ f.type = "DATA" /\ f.src = s /\ f.dst = d
  <2>1. DoSendFrom(s, d)
    BY <1>1 DEF Send
  <2>2. NewData(s, d) \in Frame \ accepted
    BY <1>1, <2>1, NewNumber
  <2> QED BY <1>2, <2>2 DEF NewData
<1>6. f # NoFrame
  BY <1>5
<1>7. Later(agenda, A, t)
  BY ElapseMoved DEF Moved, Later
<1> HIDE DEF A
<1>8. Ready(agenda, s) /\ AloneEvents(agenda, s) /\ Listening(s)
  BY <1>3 DEF AloneInv, Pursuit
<1>9. Ready(A, s)
  BY <1>1, <1>4, <1>7, <1>8, ReadyLater
<1>10. AloneEvents(A, s)
  BY <1>7, <1>8 DEF AloneEvents, Later
<1>11. \A y \in A : y.ev.frame # f
  <2>1. \A y \in agenda : y.ev.frame # f
    BY <1>5, <1>6 DEF IInv, FramesOK, Accounted, KnownFrame
  <2> QED BY <1>7, <2>1 DEF Later
<1>12. csmaca_active'[s] = TRUE /\ awaiting_ack'[s] = TRUE /\ txPacket'[s] = f
  BY <1>1, <1>3, <1>4
<1>13. Unheard(txPacket'[s], delivered')
  BY <1>3, <1>5, <1>12 DEF Unheard, IInv, FramesOK
<1>14. Listening(s)'
  <2>1. \A m \in Node \ {s} : /\ awaiting_ack'[m] = awaiting_ack[m] /\ csmaca_active'[m] = csmaca_active[m]
                             /\ txPacket'[m] = txPacket[m]
    BY <1>3, <1>4
  <2>2. \A h \in accepted' : h.src = s /\ h.dst # s
    BY <1>1, <1>3, <1>5, <1>8 DEF Listening
  <2> QED BY <1>8, <2>1, <2>2 DEF Listening
<1>15. ToCca("backoff") = CcaTime /\ "backoff" \in StepKind /\ 0 + CcaTime = CcaTime
  BY DEF ToCca, StepKind, Contention
<1>16. \A y \in A : Reaches(y, s, 0 + ToCca("backoff"))
  BY <1>9, <1>15 DEF Ready
<1>17. Stage(A, s, "backoff", 0 + ToCca("backoff"), csmaca_active'[s], txPacket'[s],
             Unheard(txPacket'[s], delivered'), Faithful(txPacket'[s], message'[s], Refuses(s)'))
  BY <1>11, <1>12, <1>13 DEF Stage, Contends, Contention
<1>18. NoStep(A, s)
  BY <1>9 DEF Ready
<1> QED BY <1>1, <1>3, <1>6, <1>10, <1>12, <1>14, <1>15, <1>16, <1>17, <1>18, SenderGoesOn

(* A noise source starts a pulse.                                          *)
LEMMA PulseAlone ==
  ASSUME IInv, NEW s \in Node, AloneInv(s), NEW n \in Node, NEW t \in Nat, PulseStart(n, t),
         UNCHANGED redundancy
  PROVE  AloneInv(s)'
<1> DEFINE A == Elapse(agenda, t)
           aw == awaiting_ack[s]
           act == csmaca_active[s]
           own == txPacket[s]
           un == Unheard(txPacket[s], delivered)
           ok == Faithful(txPacket[s], message[s], Refuses(s))
<1>1. agenda' = Add(A, 0, Ev("startRx", n)) /\ UNCHANGED <<csmaca_active, arq, history>>
  BY DEF PulseStart, csma
<1>2. Reduced(agenda, A, t, s)
  BY ElapseReduced
<1>3. /\ Dated(agenda) /\ AloneEvents(agenda, s) /\ (aw => own # NoFrame)
      /\ Pursuit(agenda, s, aw, act, own, un, ok)
  <2>1. aw => own # NoFrame
    BY DEF IInv, OutcomeOnce, TypeOK
  <2> QED BY <2>1 DEF IInv, TypeOK, Dated, AloneInv
<1>4. ok = Faithful(txPacket[s], message'[s], Refuses(s)')
  BY DEF redundancy, sender, Refuses
<1> HIDE DEF A, aw, act, own, un, ok
<1>5. PICK e : Add(A, 0, Ev("startRx", n)) = A \cup {e} /\ e.ev = Ev("startRx", n) /\ e.due = 0
  BY AddView
<1>6. /\ e.ev \in Event /\ ~ IsStep(e.ev, s) /\ AloneEvent(e.ev, s)
      /\ Plain(e.ev, s) /\ e.ev.frame = NoFrame /\ e.due \in Nat
  BY <1>5, PlainEvent
<1>7. Pursuit(A \cup {e}, s, aw, act, own, un, ok)
  <2>1. \A b \in {e} : /\ b.due \in Nat /\ b.ev \in Event /\ ~ IsStep(b.ev, s)
                       /\ aw /\ b.ev.frame = own => \E y \in agenda : y.ev.frame = own
                       /\ \/ Plain(b.ev, s)
                          \/ \E y \in agenda : /\ y.due = t /\ Succeeds(b.ev, b.due, y.ev, s)
                                               /\ ok => InTurn(b.ev, b.due, y.ev, s)
    BY <1>3, <1>6
  <2> QED BY <1>2, <1>3, <2>1, Succession
<1>8. AloneEvents(A \cup {e}, s)
  BY <1>2, <1>3, <1>6 DEF AloneEvents, Reduced
<1>9. /\ AloneEvents(agenda', s)
      /\ Pursuit(agenda', s, aw, act, own, un, Faithful(txPacket[s], message'[s], Refuses(s)'))
  BY <1>1, <1>4, <1>5, <1>7, <1>8
<1> QED BY <1>1, <1>9, QuietAlone DEF aw, act, own, un

LEMMA AloneInit ==
  ASSUME NEW s, OneSender(s), HarqInit
  PROVE  AloneInv(s)
<1>1. agenda = {} /\ Listening(s)
  BY DEF HarqInit, Init, Listening
<1>2. Ready(agenda, s)
  BY <1>1 DEF Ready, NoStep
<1> QED BY <1>1, <1>2 DEF AloneInv, AloneEvents, Pursuit

LEMMA AloneStep ==
  ASSUME NEW s, OneSender(s), Prompt(s), HarqInv, AloneInv(s), [HarqNext]_harqVars
  PROVE  AloneInv(s)'
<1>0. s \in Node /\ IInv /\ PhyInv /\ HarqTypeOK
  BY DEF OneSender, HarqInv
<1>1. CASE HarqProcessOneEvent
  <2>1. PICK x \in agenda : HarqProcess(x)
    BY <1>1 DEF HarqProcessOneEvent
  <2>2. CASE CommonProcess(x)
    <3>0. UNCHANGED redundancy
      BY <2>2 DEF CommonProcess
    <3>1. CASE RestartCsmaCa(x) \/ RandomBackoffDelay(x) \/ RequestCca(x) \/ CsmaCaFailure(x)
      BY <1>0, <3>1, CsmaAlone
    <3>2. CASE FrameSent(x)
      BY <1>0, <3>0, <3>2, FrameSentAlone
    <3>3. CASE StartRx(x) \/ EndRxHeader(x) \/ RemoveNoiseSignal(x)
      BY <1>0, <3>0, <3>3, ReceptionAlone
    <3>4. CASE EndRxPayload(x)
      BY <1>0, <3>0, <3>4, PayloadAlone
    <3> QED BY <2>2, <3>1, <3>2, <3>3, <3>4 DEF CommonProcess
  <2>3. CASE HarqEndCca(x) \/ HarqCsmaCaIdle(x) \/ HarqAcknowledgementTimeout(x)
    BY <1>0, <2>3, EndCcaAlone, IdleAlone, TimeoutAlone
  <2>4. CASE StartRxRedundancy(x) \/ HarqPreamble(x) \/ RedundancyHeader(x)
    <3>1. UNCHANGED redundancy
      BY <2>4 DEF StartRxRedundancy, HarqPreamble, RedundancyHeader
    <3> QED BY <1>0, <2>4, <3>1, ReceptionAlone
  <2>5. CASE EndRxRedundancy(x)
    BY <1>0, <2>5, PayloadAlone
  <2>6. CASE ReceptionFailureTimeout(x)
    BY <1>0, <2>6, FailureAlone
  <2> QED BY <2>1, <2>2, <2>3, <2>4, <2>5, <2>6 DEF HarqProcess
<1>2. CASE Environment /\ UNCHANGED redundancy
  <2>1. PICK t \in Nat : \/ \E n \in Sources, d \in Node : d # n /\ Send(n, d, t)
                        \/ \E n \in Node : PulseStart(n, t)
    BY <1>0, <1>2, EnvironmentView
  <2> QED BY <1>0, <1>2, <2>1, SendAlone, PulseAlone
<1>3. CASE UNCHANGED harqVars
  <2>1. /\ agenda' = agenda /\ UNCHANGED <<csmaca_active, arq, history>>
        /\ message' = message /\ Refuses(s)' = Refuses(s)
    BY <1>3 DEF harqVars, vars, csma, redundancy, sender, Refuses
  <2>2. AloneEvents(agenda', s)
    BY <2>1 DEF AloneInv
  <2>3. Pursuit(agenda', s, awaiting_ack[s], csmaca_active[s], txPacket[s],
                Unheard(txPacket[s], delivered), Faithful(txPacket[s], message'[s], Refuses(s)'))
    BY <2>1 DEF AloneInv
  <2> QED BY <1>0, <2>1, <2>2, <2>3, QuietAlone
<1> QED BY <1>1, <1>2, <1>3 DEF HarqNext

LEMMA AloneInductive ==
  ASSUME NEW s, OneSender(s), Prompt(s)
  PROVE  HarqSpec => []AloneInv(s)
<1>1. HarqInit => AloneInv(s)
  BY AloneInit
<1>2. HarqInv /\ AloneInv(s) /\ [HarqNext]_harqVars => AloneInv(s)'
  BY AloneStep
<1> QED BY <1>1, <1>2, HarqInductive, PTL DEF HarqSpec

(* What SendRedundancy will transmit after the pending CCA is the frame    *)
(* whose acknowledgement the MAC awaits, or nothing, for any number of     *)
(* listeners, any loss and any noise, with both PHYs, if one node sends    *)
(* and its timer is longer than a round trip of the signal and shorter     *)
(* than an acknowledgement (OneSender, Prompt).                            *)
THEOREM RedundancyOfAwaitedCorrect ==
  ASSUME NEW s, OneSender(s), Prompt(s)
  PROVE  HarqSpec => []RedundancyOfAwaited
<1>1. HarqInv /\ AloneInv(s) => RedundancyOfAwaited
  <2> SUFFICES ASSUME HarqInv, AloneInv(s), NEW n \in Node, awaiting_ack[n], ~ csmaca_active[n],
                      NEW y \in agenda, y.ev.kind = "endCca", y.ev.node = n
               PROVE  message[n] \in {txPacket[n], NoFrame}
    BY DEF RedundancyOfAwaited, Pending
  <2>1. n = s
    BY DEF AloneInv, Listening
  <2>2. IsStep(y.ev, s)
    BY <2>1 DEF IsStep, StepKind, Contention
  <2>3. Pursuit(agenda, s, awaiting_ack[s], csmaca_active[s], txPacket[s],
                Unheard(txPacket[s], delivered), Faithful(txPacket[s], message[s], Refuses(s)))
    BY DEF AloneInv
  <2>4. PICK z \in agenda : Pursued(agenda, s, z, csmaca_active[s], txPacket[s],
                                   Unheard(txPacket[s], delivered), Faithful(txPacket[s], message[s], Refuses(s)))
    BY <2>2, <2>3 DEF Pursuit, Ready, NoStep
  <2>5. z.ev.kind = "endCca"
    BY <2>2, <2>4 DEF Pursued
  <2>6. Faithful(txPacket[s], message[s], Refuses(s))
    BY <2>1, <2>4, <2>5 DEF Pursued, Stage, Contends
  <2> QED BY <2>1, <2>6 DEF Faithful
<1> QED BY <1>1, AloneInductive, HarqInductive, PTL
=============================================================================
