--------------------------- MODULE PlcTimingProofs ---------------------------
(***************************************************************************)
(* What a node that sends with PLC_ArqMac has pending, when it is the only *)
(* one whose application sends and its timer is longer than the exchange   *)
(* of a data frame and its acknowledgement.  Both are hypotheses of the    *)
(* theorems: two senders, or a timer that expires while an answer is still *)
(* under way, do leave a second CSMA/CA procedure behind.                  *)
(***************************************************************************)
EXTENDS PlcPhyProofs

USE NodeAssumption, SeqAssumption, CsmaAssumption, TimeAssumption, NoFrameAssumption

(* The application of s is the only one that sends.                        *)
OneSender(s) == s \in Node /\ Sources = {s}

(* A timer outlasts the answer: m_timeout, counted from the end of the     *)
(* data frame, is longer than the propagation there and back, the CCA      *)
(* before the acknowledgement and the acknowledgement itself.              *)
AckAir == PreambleTime + HeaderTime + AckTime
Patient(s) == \A m \in Node \ {s} : Delay[s][m] + CcaTime + Delay[m][s] + AckAir < AckTimeout

---------------------------------------------------------------------------
(* The kinds of events that carry the frame of s on: it contends for the   *)
(* channel, or it is watched until it is acknowledged.                     *)
Contention == {"backoff", "requestCca", "endCca", "csmaIdle", "csmaFailure"}
Watch == {"txEnd", "timeout"}
StepKind == Contention \cup Watch \cup {"startCsma"}
IsStep(ev, s) == ev.node = s /\ ev.kind \in StepKind

(* The exchange under way: the data frame on its way to its destination    *)
(* and in its reception, the assessment there before the acknowledgement   *)
(* is sent, and the acknowledgement on its way to s.                       *)
Heard == {"startRx", "preamble", "rxHeader", "rxPayload"}
IsToken(ev, s) ==
  \/ ev.node = s /\ ev.frame # NoFrame
  \/ ev.node # s /\ ev.kind = "endCca"
  \/ ev.node # s /\ ev.frame # NoFrame /\ ev.frame.type = "DATA" /\ ev.frame.dst = ev.node

(* How long the exchange can go on at most once ev has run.                *)
OnAir(ev) == CASE ev.kind = "startRx" -> AirTime(ev.frame)
               [] ev.kind = "preamble" -> HeaderTime + PayloadTime(ev.frame)
               [] ev.kind = "rxHeader" -> PayloadTime(ev.frame)
               [] OTHER -> 0
Left(ev, s) == IF ev.node = s THEN OnAir(ev)
               ELSE Delay[ev.node][s] + AckAir + (IF ev.kind = "endCca" THEN 0 ELSE OnAir(ev) + CcaTime)

(* When the timer expires, and that something is over in t, before it does.*)
Deadline(z) == IF z.ev.kind = "txEnd" THEN z.due + AckTimeout ELSE z.due
Watched(A, s, t) == \E z \in A : z.ev.node = s /\ z.ev.kind \in Watch /\ t < Deadline(z)

(* At most one event carries the frame of s on, and only while s waits for *)
(* an acknowledgement; at most one exchange is under way, and it is over   *)
(* before the timer expires.                                               *)
NoStep(A, s) == \A y \in A : ~ IsStep(y.ev, s)
NoToken(A, s) == \A y \in A : ~ IsToken(y.ev, s)
OneToken(A, s) == \A y, z \in A : IsToken(y.ev, s) /\ IsToken(z.ev, s) => y = z
Chain(A, s, aw, act) ==
  /\ \A y, z \in A : IsStep(y.ev, s) /\ IsStep(z.ev, s) => y = z
  /\ OneToken(A, s)
  /\ \A z \in A : IsStep(z.ev, s) => aw /\ (z.ev.kind \in Contention => act)
  /\ \A y \in A : IsToken(y.ev, s) => Watched(A, s, y.due + Left(y.ev, s))

(* What the other nodes do: they listen, and answer.                       *)
OneWayEvent(ev, s) ==
  /\ ev.frame # NoFrame => ev.kind \in Heard
  /\ \/ IsStep(ev, s)
     \/ ev.node # s /\ ev.kind \in {"endCca", "txEnd"}
     \/ ev.kind \in Heard \cup {"removeNoise"}
OneWayEvents(A, s) == \A y \in A : OneWayEvent(y.ev, s)
OneWay(s) ==
  /\ OneWayEvents(agenda, s)
  /\ \A f \in accepted : f.src = s /\ f.dst # s
  /\ \A m \in Node \ {s} : ~ awaiting_ack[m] /\ ~ csmaca_active[m]
  /\ \A m \in Node \ {s} : txPacket[m] = NoFrame \/ txPacket[m].type = "ACK"

(* The inductive invariant.                                                *)
TimeInv(s) == OneWay(s) /\ Chain(agenda, s, awaiting_ack[s], csmaca_active[s])

---------------------------------------------------------------------------
(* B holds the entries of A, each due t earlier.                           *)
Moved(A, B, t) ==
  \E f : B = {f[y] : y \in A} /\ \A y \in A : f[y].ev = y.ev /\ f[y].due = y.due - t

LEMMA ElapseMoved ==
  ASSUME NEW A, NEW t
  PROVE  Moved(A, Elapse(A, t), t)
<1> DEFINE f == [y \in A |-> Entry(y.due - t, y.ord, y.ev)]
<1>1. Elapse(A, t) = {f[y] : y \in A}
  BY DEF Elapse
<1>2. \A y \in A : f[y].ev = y.ev /\ f[y].due = y.due - t
  BY DEF Entry
<1> HIDE DEF f
<1> QED BY <1>1, <1>2 DEF Moved

LEMMA WithoutMoved ==
  ASSUME NEW A, NEW gone
  PROVE  \E f : /\ Without(A, gone) = {f[y] : y \in A \ gone}
                /\ \A y \in A \ gone : f[y].ev = y.ev /\ f[y].due = y.due
<1> DEFINE ahead(y) == {x \in gone : x.due = y.due /\ x.ord < y.ord}
           f == [y \in A \ gone |-> Entry(y.due, y.ord - Cardinality(ahead(y)), y.ev)]
<1>1. Without(A, gone) = {f[y] : y \in A \ gone}
  BY DEF Without
<1>2. \A y \in A \ gone : f[y].ev = y.ev /\ f[y].due = y.due
  BY DEF Entry
<1> HIDE DEF f
<1> QED BY <1>1, <1>2

LEMMA PopMoved ==
  ASSUME NEW A, NEW x
  PROVE  Moved(A \ {x}, Pop(A, x), x.due)
<1>1. PICK f : /\ Without(A, {x}) = {f[y] : y \in A \ {x}}
               /\ \A y \in A \ {x} : f[y].ev = y.ev /\ f[y].due = y.due
  BY WithoutMoved
<1>m. Moved(Without(A, {x}), Pop(A, x), x.due)
  BY ElapseMoved DEF Pop
<1>2. PICK g : /\ Pop(A, x) = {g[y] : y \in Without(A, {x})}
               /\ \A y \in Without(A, {x}) : g[y].ev = y.ev /\ g[y].due = y.due - x.due
  BY <1>m DEF Moved
<1> DEFINE h == [y \in A \ {x} |-> g[f[y]]]
<1>3. Pop(A, x) = {h[y] : y \in A \ {x}}
  BY <1>1, <1>2
<1>4. \A y \in A \ {x} : h[y].ev = y.ev /\ h[y].due = y.due - x.due
  BY <1>1, <1>2
<1> HIDE DEF h
<1> QED BY <1>3, <1>4 DEF Moved

LEMMA AddView ==
  ASSUME NEW A, NEW d, NEW ev
  PROVE  \E e : Add(A, d, ev) = A \cup {e} /\ e.ev = ev /\ e.due = d
<1>1. PICK e : e = Entry(d, DueIn(A, d), ev)
  OBVIOUS
<1>2. e.ev = ev /\ e.due = d
  BY <1>1 DEF Entry
<1>3. Add(A, d, ev) = A \cup {e}
  BY <1>1 DEF Add
<1> QED BY <1>2, <1>3

LEMMA AddForEachView ==
  ASSUME NEW A, NEW E, NEW D
  PROVE  \E g : /\ AddForEach(A, E, D) = A \cup {g[m] : m \in DOMAIN E}
                /\ \A m \in DOMAIN E : g[m].ev = E[m] /\ g[m].due = D[m]
<1> DEFINE before(m) == {k \in DOMAIN E : k < m /\ D[k] = D[m]}
           g == [m \in DOMAIN E |-> Entry(D[m], DueIn(A, D[m]) + Cardinality(before(m)), E[m])]
<1>1. AddForEach(A, E, D) = A \cup {g[m] : m \in DOMAIN E}
  BY DEF AddForEach
<1>2. \A m \in DOMAIN E : g[m].ev = E[m] /\ g[m].due = D[m]
  BY DEF Entry
<1> HIDE DEF g
<1> QED BY <1>1, <1>2

---------------------------------------------------------------------------
(* Entries with times and events of their types.                           *)
Dated(A) == \A y \in A : y.due \in Nat /\ y.ev \in Event

LEMMA LeftIsNat ==
  ASSUME NEW s \in Node, NEW ev \in Event
  PROVE  Left(ev, s) \in Nat /\ OnAir(ev) \in Nat /\ AckAir \in Nat
<1>1. OnAir(ev) \in Nat
  BY TimesAreNat DEF OnAir
<1>2. AckAir \in Nat
  BY DEF AckAir
<1>3. ev.node \in Node
  BY DEF Event
<1>4. \A m \in Node : Delay[m][s] \in Nat
  OBVIOUS
<1>5. Delay[ev.node][s] \in Nat
  BY <1>3, <1>4
<1> QED BY <1>1, <1>2, <1>5 DEF Left

(* Time passes for all that is pending.                                    *)
LEMMA WatchedMoved ==
  ASSUME NEW A, NEW B, NEW t \in Nat, Dated(A), Moved(A, B, t),
         NEW s \in Node, NEW d \in Int, Watched(A, s, d)
  PROVE  Watched(B, s, d - t)
<1>1. PICK f : B = {f[y] : y \in A} /\ \A y \in A : f[y].ev = y.ev /\ f[y].due = y.due - t
  BY DEF Moved
<1>2. PICK z \in A : z.ev.node = s /\ z.ev.kind \in Watch /\ d < Deadline(z)
  BY DEF Watched
<1>3. f[z] \in B /\ f[z].ev = z.ev /\ f[z].due = z.due - t /\ z.due \in Nat
  BY <1>1, <1>2 DEF Dated
<1>4. d - t < Deadline(f[z])
  BY <1>2, <1>3 DEF Deadline
<1> QED BY <1>2, <1>3, <1>4 DEF Watched

LEMMA ChainMoved ==
  ASSUME NEW A, NEW B, NEW t \in Nat, Dated(A), Moved(A, B, t),
         NEW s \in Node, NEW aw, NEW act, Chain(A, s, aw, act)
  PROVE  Chain(B, s, aw, act)
<1>1. PICK f : B = {f[y] : y \in A} /\ \A y \in A : f[y].ev = y.ev /\ f[y].due = y.due - t
  BY DEF Moved
<1>2. \A b \in B : \E y \in A : b = f[y] /\ b.ev = y.ev /\ b.due = y.due - t
  BY <1>1
<1>3. \A y, z \in B : IsStep(y.ev, s) /\ IsStep(z.ev, s) => y = z
  BY <1>2 DEF Chain
<1>4. OneToken(B, s)
  BY <1>2 DEF Chain, OneToken
<1>5. \A z \in B : IsStep(z.ev, s) => aw /\ (z.ev.kind \in Contention => act)
  BY <1>2 DEF Chain
<1>6. ASSUME NEW b \in B, IsToken(b.ev, s)
      PROVE  Watched(B, s, b.due + Left(b.ev, s))
  <2>1. PICK y \in A : b.ev = y.ev /\ b.due = y.due - t
    BY <1>2
  <2>2. y.due \in Nat /\ Left(y.ev, s) \in Nat
    BY LeftIsNat DEF Dated
  <2>3. Watched(A, s, y.due + Left(y.ev, s))
    BY <1>6, <2>1 DEF Chain
  <2>4. Watched(B, s, (y.due + Left(y.ev, s)) - t)
    BY <2>2, <2>3, WatchedMoved
  <2>5. (y.due + Left(y.ev, s)) - t = b.due + Left(b.ev, s)
    BY <2>1, <2>2
  <2> QED BY <2>4, <2>5
<1> QED BY <1>3, <1>4, <1>5, <1>6 DEF Chain

(* An event that is no step of s leaves the agenda.                        *)
LEMMA ChainDrop ==
  ASSUME NEW A, NEW s, NEW aw, NEW act, Chain(A, s, aw, act), NEW x \in A, ~ IsStep(x.ev, s)
  PROVE  Chain(A \ {x}, s, aw, act) /\ (IsToken(x.ev, s) => NoToken(A \ {x}, s))
<1>1. \A t : Watched(A, s, t) => Watched(A \ {x}, s, t)
  BY DEF Watched, IsStep, StepKind
<1> QED BY <1>1 DEF Chain, NoToken, OneToken

(* A step of s runs: none is left, and if it was not the end of the        *)
(* transmission no exchange is under way.                                  *)
LEMMA StepRuns ==
  ASSUME NEW A, Dated(A), NEW x, IsHead(A, x), NEW s \in Node, NEW aw, NEW act,
         Chain(A, s, aw, act), IsStep(x.ev, s)
  PROVE  /\ NoStep(Pop(A, x), s) /\ OneToken(Pop(A, x), s)
         /\ x.ev.kind # "txEnd" => NoToken(Pop(A, x), s)
         /\ x.ev.kind = "txEnd" =>
              \A y \in Pop(A, x) : IsToken(y.ev, s) => y.due + Left(y.ev, s) < AckTimeout
<1> DEFINE B == Pop(A, x)
<1>1. PICK f : /\ B = {f[y] : y \in A \ {x}}
               /\ \A y \in A \ {x} : f[y].ev = y.ev /\ f[y].due = y.due - x.due
  BY PopMoved DEF Moved
<1> HIDE DEF B
<1>2. \A b \in B : \E y \in A \ {x} : b = f[y] /\ b.ev = y.ev /\ b.due = y.due - x.due
  BY <1>1
<1>3. x \in A /\ x.due \in Nat /\ \A y \in A : y.due \in Nat /\ x.due <= y.due
  BY DEF IsHead, Dated
<1>4. NoStep(B, s)
  BY <1>2, <1>3 DEF NoStep, Chain
<1>5. OneToken(B, s)
  BY <1>2 DEF OneToken, Chain
<1>6. ASSUME NEW y \in A, IsToken(y.ev, s)
      PROVE  x.ev.kind \in Watch /\ y.due + Left(y.ev, s) < Deadline(x) /\ Left(y.ev, s) \in Nat
  <2>1. PICK z \in A : z.ev.node = s /\ z.ev.kind \in Watch /\ y.due + Left(y.ev, s) < Deadline(z)
    BY <1>6 DEF Chain, Watched
  <2>2. z = x
    BY <1>3, <2>1 DEF Chain, IsStep, StepKind
  <2> QED BY <2>1, <2>2, LeftIsNat DEF Dated
<1>7. ASSUME x.ev.kind # "txEnd"
      PROVE  NoToken(B, s)
  <2> SUFFICES ASSUME NEW b \in B, IsToken(b.ev, s)
               PROVE  FALSE
    BY DEF NoToken
  <2>1. PICK y \in A : b.ev = y.ev
    BY <1>2
  <2>2. y.due + Left(y.ev, s) < x.due /\ Left(y.ev, s) \in Nat
    BY <1>6, <1>7, <2>1 DEF Deadline
  <2>3. y.due \in Nat /\ x.due <= y.due /\ x.due \in Nat
    BY <1>3
  <2> QED BY <2>2, <2>3
<1>8. ASSUME x.ev.kind = "txEnd", NEW b \in B, IsToken(b.ev, s)
      PROVE  b.due + Left(b.ev, s) < AckTimeout
  <2>1. PICK y \in A : b.ev = y.ev /\ b.due = y.due - x.due
    BY <1>2
  <2>2. y.due + Left(y.ev, s) < x.due + AckTimeout /\ Left(y.ev, s) \in Nat
    BY <1>6, <1>8, <2>1 DEF Deadline
  <2>3. y.due \in Nat /\ x.due \in Nat
    BY <1>3
  <2> QED BY <2>1, <2>2, <2>3
<1> QED BY <1>4, <1>5, <1>7, <1>8 DEF B

(* Another event runs: if it was of the exchange there is none any more,   *)
(* but the time that was left for it is.                                   *)
LEMMA OtherRuns ==
  ASSUME NEW A, Dated(A), NEW x, IsHead(A, x), NEW s \in Node, NEW aw, NEW act,
         Chain(A, s, aw, act), ~ IsStep(x.ev, s)
  PROVE  /\ Chain(Pop(A, x), s, aw, act)
         /\ IsToken(x.ev, s) => NoToken(Pop(A, x), s) /\ Watched(Pop(A, x), s, Left(x.ev, s))
<1>1. x \in A /\ x.due \in Nat /\ x.ev \in Event
  BY DEF IsHead, Dated
<1>2. Chain(A \ {x}, s, aw, act) /\ (IsToken(x.ev, s) => NoToken(A \ {x}, s))
  BY <1>1, ChainDrop
<1>3. Moved(A \ {x}, Pop(A, x), x.due) /\ Dated(A \ {x})
  BY PopMoved DEF Dated
<1>4. Chain(Pop(A, x), s, aw, act)
  BY <1>1, <1>2, <1>3, ChainMoved
<1>5. ASSUME IsToken(x.ev, s)
      PROVE  NoToken(Pop(A, x), s)
  <2>1. \A b \in Pop(A, x) : \E y \in A \ {x} : b.ev = y.ev
    BY <1>3 DEF Moved
  <2> QED BY <1>2, <1>5, <2>1 DEF NoToken
<1>6. ASSUME IsToken(x.ev, s)
      PROVE  Watched(Pop(A, x), s, Left(x.ev, s))
  <2>1. Watched(A \ {x}, s, x.due + Left(x.ev, s))
    BY <1>1, <1>6 DEF Chain, Watched, IsStep, StepKind
  <2>2. Left(x.ev, s) \in Nat
    BY <1>1, LeftIsNat
  <2>3. Watched(Pop(A, x), s, (x.due + Left(x.ev, s)) - x.due)
    BY <1>1, <1>3, <2>1, <2>2, WatchedMoved
  <2>4. (x.due + Left(x.ev, s)) - x.due = Left(x.ev, s)
    BY <1>1, <2>2
  <2> QED BY <2>3, <2>4
<1> QED BY <1>4, <1>5, <1>6

(* What is scheduled: nothing of the two, ...                              *)
LEMMA AddOther ==
  ASSUME NEW A, NEW s, NEW aw, NEW act, Chain(A, s, aw, act),
         NEW d, NEW ev, ~ IsStep(ev, s), ~ IsToken(ev, s)
  PROVE  Chain(Add(A, d, ev), s, aw, act)
<1>1. PICK e : Add(A, d, ev) = A \cup {e} /\ e.ev = ev /\ e.due = d
  BY AddView
<1>2. \A t : Watched(A, s, t) => Watched(A \cup {e}, s, t)
  BY DEF Watched
<1> QED BY <1>1, <1>2 DEF Chain, OneToken

(* ... a step, when there is none, ...                                     *)
LEMMA AddStep ==
  ASSUME NEW A, NEW s, NoStep(A, s), OneToken(A, s),
         NEW d, NEW ev, IsStep(ev, s), ev.frame = NoFrame,
         \/ NoToken(A, s)
         \/ /\ ev.kind = "timeout"
            /\ \A y \in A : IsToken(y.ev, s) => y.due + Left(y.ev, s) < d
         \/ /\ ev.kind = "txEnd"
            /\ \A y \in A : IsToken(y.ev, s) => y.due + Left(y.ev, s) < d + AckTimeout,
         NEW act, ev.kind \in Contention => act
  PROVE  Chain(Add(A, d, ev), s, TRUE, act)
<1>1. PICK e : Add(A, d, ev) = A \cup {e} /\ e.ev = ev /\ e.due = d
  BY AddView
<1>2. ~ IsToken(ev, s)
  BY DEF IsStep, IsToken
<1>3. \A y \in A : IsToken(y.ev, s) => /\ e.ev.node = s /\ e.ev.kind \in Watch
                                         /\ y.due + Left(y.ev, s) < Deadline(e)
  BY <1>1 DEF NoToken, Deadline, IsStep, Watch
<1>4. \A y \in A \cup {e} : IsToken(y.ev, s) => Watched(A \cup {e}, s, y.due + Left(y.ev, s))
  BY <1>1, <1>2, <1>3 DEF Watched
<1>5. \A y, z \in A \cup {e} : IsStep(y.ev, s) /\ IsStep(z.ev, s) => y = z
  BY <1>1 DEF NoStep
<1>6. OneToken(A \cup {e}, s)
  BY <1>1, <1>2 DEF OneToken
<1> QED BY <1>1, <1>4, <1>5, <1>6 DEF Chain, NoStep

(* ... or what continues the exchange, in the time that is left for it.    *)
LEMMA AddToken ==
  ASSUME NEW A, NEW s \in Node, NEW aw, NEW act, Chain(A, s, aw, act), Dated(A), NoToken(A, s),
         NEW d \in Nat, NEW ev \in Event, ~ IsStep(ev, s),
         NEW t \in Nat, Watched(A, s, t), d + Left(ev, s) <= t
  PROVE  Chain(Add(A, d, ev), s, aw, act)
<1>1. PICK e : Add(A, d, ev) = A \cup {e} /\ e.ev = ev /\ e.due = d
  BY AddView
<1>2. \A r : Watched(A, s, r) => Watched(A \cup {e}, s, r)
  BY DEF Watched
<1>3. Watched(A, s, d + Left(ev, s))
  <2>1. PICK z \in A : z.ev.node = s /\ z.ev.kind \in Watch /\ t < Deadline(z)
    BY DEF Watched
  <2>2. z.due \in Nat /\ Left(ev, s) \in Nat
    BY LeftIsNat DEF Dated
  <2>3. d + Left(ev, s) < Deadline(z)
    BY <2>1, <2>2 DEF Deadline
  <2> QED BY <2>1, <2>3 DEF Watched
<1>4. Watched(A \cup {e}, s, e.due + Left(e.ev, s))
  BY <1>1, <1>2, <1>3
<1>5. OneToken(A \cup {e}, s)
  BY DEF OneToken, NoToken
<1>6. \A y, z \in A \cup {e} : IsStep(y.ev, s) /\ IsStep(z.ev, s) => y = z
  BY <1>1 DEF Chain
<1>7. \A z \in A \cup {e} : IsStep(z.ev, s) => aw /\ (z.ev.kind \in Contention => act)
  BY <1>1 DEF Chain
<1>8. \A y \in A : ~ IsToken(y.ev, s)
  BY DEF NoToken
<1> QED BY <1>1, <1>4, <1>5, <1>6, <1>7, <1>8 DEF Chain

(* Nothing of the two is there.                                            *)
LEMMA QuietChain ==
  ASSUME NEW A, NEW s, NoStep(A, s), NoToken(A, s), NEW aw, NEW act
  PROVE  Chain(A, s, aw, act)
BY DEF NoStep, NoToken, Chain, OneToken

LEMMA NoStepNoToken ==
  ASSUME NEW A, NEW s, NEW aw, NEW act, Chain(A, s, aw, act), ~ aw
  PROVE  NoStep(A, s) /\ NoToken(A, s)
<1>1. NoStep(A, s)
  BY DEF NoStep, Chain
<1>2. \A t : ~ Watched(A, s, t)
  BY <1>1 DEF NoStep, Watched, IsStep, StepKind
<1> QED BY <1>1, <1>2 DEF NoToken, Chain

---------------------------------------------------------------------------
LEMMA EvFacts ==
  ASSUME NEW kind, NEW n, NEW s
  PROVE  /\ Ev(kind, n).kind = kind /\ Ev(kind, n).node = n /\ Ev(kind, n).frame = NoFrame
         /\ IsStep(Ev(kind, n), s) <=> n = s /\ kind \in StepKind
         /\ IsToken(Ev(kind, n), s) <=> n # s /\ kind = "endCca"
BY DEF Ev, IsStep, IsToken

LEMMA RxEvFacts ==
  ASSUME NEW kind \in Heard, NEW n, NEW s, NEW f, f # NoFrame
  PROVE  /\ RxEv(kind, n, f).kind = kind /\ RxEv(kind, n, f).node = n /\ RxEv(kind, n, f).frame = f
         /\ ~ IsStep(RxEv(kind, n, f), s) /\ OneWayEvent(RxEv(kind, n, f), s)
         /\ IsToken(RxEv(kind, n, f), s) <=> n = s \/ (f.type = "DATA" /\ f.dst = n)
<1>1. kind \notin StepKind /\ kind # "endCca"
  BY DEF StepKind, Heard, Contention, Watch
<1> QED BY <1>1 DEF RxEv, IsStep, IsToken, OneWayEvent

(* The operations on the agenda keep to the events of a single sender.     *)
LEMMA AddOneWay ==
  ASSUME NEW A, NEW s, OneWayEvents(A, s), NEW d, NEW ev, OneWayEvent(ev, s)
  PROVE  OneWayEvents(Add(A, d, ev), s)
<1>1. PICK e : Add(A, d, ev) = A \cup {e} /\ e.ev = ev
  BY AddView
<1> QED BY <1>1 DEF OneWayEvents

LEMMA MovedOneWay ==
  ASSUME NEW A, NEW B, NEW t, Moved(A, B, t), NEW s, OneWayEvents(A, s)
  PROVE  OneWayEvents(B, s)
BY DEF OneWayEvents, Moved

(* The head of the agenda and what it leaves.                              *)
LEMMA HeadView ==
  ASSUME IInv, NEW s \in Node, OneWay(s), NEW x, IsHead(agenda, x)
  PROVE  /\ x \in agenda /\ x.ev \in Event /\ x.ev.node \in Node /\ OneWayEvent(x.ev, s)
         /\ After(x) = Pop(agenda, x) /\ Dated(agenda) /\ Dated(After(x))
         /\ OneWayEvents(After(x), s)
<1>1. x.ev \in Event /\ x.ev.node \in Node /\ Accounted(After(x), accepted, delivered)
  BY HeadFacts
<1>2. x \in agenda
  BY DEF IsHead
<1>3. Dated(agenda) /\ Dated(After(x))
  BY <1>1 DEF IInv, TypeOK, Dated, Accounted
<1>4. OneWayEvents(agenda \ {x}, s) /\ OneWayEvent(x.ev, s)
  BY <1>2 DEF OneWay, OneWayEvents
<1>5. OneWayEvents(Pop(agenda, x), s)
  BY <1>4, PopMoved, MovedOneWay
<1> QED BY <1>1, <1>2, <1>3, <1>4, <1>5 DEF After

(* A step that leaves the ARQ and the CSMA/CA of the other nodes alone.    *)
LEMMA OneWayKept ==
  ASSUME NEW s \in Node, OneWay(s), OneWayEvents(agenda', s), UNCHANGED <<arq, history>>,
         \A m \in Node \ {s} : csmaca_active'[m] = csmaca_active[m]
  PROVE  OneWay(s)'
BY DEF OneWay, OneWayEvents, arq, history

---------------------------------------------------------------------------
(* CSMA/CA goes on, at s.                                                  *)
LEMMA ContentionGoesOn ==
  ASSUME IInv, NEW s \in Node, TimeInv(s), NEW x, IsHead(agenda, x), IsStep(x.ev, s),
         x.ev.kind # "txEnd", NEW d \in Nat, NEW kind \in StepKind,
         agenda' = Add(After(x), d, Ev(kind, s)), UNCHANGED <<arq, history>>,
         \A m \in Node \ {s} : csmaca_active'[m] = csmaca_active[m],
         kind \in Contention => csmaca_active'[s]
  PROVE  TimeInv(s)'
<1>1. OneWay(s) /\ Chain(agenda, s, awaiting_ack[s], csmaca_active[s])
  BY DEF TimeInv
<1>2. After(x) = Pop(agenda, x) /\ Dated(agenda) /\ OneWayEvents(After(x), s) /\ x \in agenda
  BY <1>1, HeadView
<1>3. NoStep(After(x), s) /\ OneToken(After(x), s) /\ NoToken(After(x), s)
  BY <1>1, <1>2, StepRuns
<1>4. awaiting_ack[s] /\ awaiting_ack \in [Node -> BOOLEAN] /\ awaiting_ack' = awaiting_ack
  BY <1>1, <1>2 DEF Chain, IInv, TypeOK, arq
<1>5. IsStep(Ev(kind, s), s) /\ Ev(kind, s).frame = NoFrame /\ Ev(kind, s).kind = kind
  BY EvFacts
<1>6. Chain(agenda', s, TRUE, csmaca_active'[s])
  BY <1>3, <1>5, AddStep
<1>7. awaiting_ack'[s] = TRUE
  BY <1>4
<1>8. OneWayEvent(Ev(kind, s), s)
  BY <1>5 DEF OneWayEvent
<1>9. OneWay(s)'
  BY <1>1, <1>2, <1>8, AddOneWay, OneWayKept
<1> QED BY <1>6, <1>7, <1>9 DEF TimeInv

(* CSMA/CA, or the waiting, ends at s.                                     *)
LEMMA ContentionEnds ==
  ASSUME IInv, NEW s \in Node, TimeInv(s), NEW x, IsHead(agenda, x), IsStep(x.ev, s),
         x.ev.kind # "txEnd", agenda' = After(x)
  PROVE  Chain(agenda', s, awaiting_ack'[s], csmaca_active'[s]) /\ OneWayEvents(agenda', s)
<1>1. OneWay(s) /\ Chain(agenda, s, awaiting_ack[s], csmaca_active[s])
  BY DEF TimeInv
<1>2. After(x) = Pop(agenda, x) /\ Dated(agenda) /\ OneWayEvents(After(x), s)
  BY <1>1, HeadView
<1>3. NoStep(After(x), s) /\ NoToken(After(x), s)
  BY <1>1, <1>2, StepRuns
<1> QED BY <1>2, <1>3, QuietChain

(* An event that is no step of s runs and schedules one, if any, that is   *)
(* none either: it continues the exchange, or ends it.                     *)
LEMMA Relay ==
  ASSUME IInv, NEW s \in Node, TimeInv(s), NEW x, IsHead(agenda, x), ~ IsStep(x.ev, s),
         NEW d \in Nat, NEW ev \in Event, ~ IsStep(ev, s), OneWayEvent(ev, s),
         IsToken(ev, s) => IsToken(x.ev, s) /\ d + Left(ev, s) <= Left(x.ev, s),
         NEW B, B = After(x) \/ B = Add(After(x), d, ev)
  PROVE  Chain(B, s, awaiting_ack[s], csmaca_active[s]) /\ OneWayEvents(B, s)
<1> DEFINE aw == awaiting_ack[s]
           act == csmaca_active[s]
<1>1. OneWay(s) /\ Chain(agenda, s, aw, act)
  BY DEF TimeInv
<1> HIDE DEF aw, act
<1>2. /\ After(x) = Pop(agenda, x) /\ Dated(agenda) /\ Dated(After(x))
      /\ OneWayEvents(After(x), s) /\ x.ev \in Event
  BY <1>1, HeadView
<1>3. /\ Chain(After(x), s, aw, act)
      /\ IsToken(x.ev, s) => NoToken(After(x), s) /\ Watched(After(x), s, Left(x.ev, s))
  BY <1>1, <1>2, OtherRuns
<1>4. OneWayEvents(B, s)
  BY <1>2, AddOneWay
<1>5. CASE B = After(x)
  BY <1>3, <1>4, <1>5 DEF aw, act
<1>6. CASE B = Add(After(x), d, ev) /\ ~ IsToken(ev, s)
  <2>1. Chain(B, s, aw, act)
    BY <1>3, <1>6, AddOther
  <2> QED BY <1>4, <2>1 DEF aw, act
<1>7. CASE B = Add(After(x), d, ev) /\ IsToken(ev, s)
  <2>1. NoToken(After(x), s) /\ Watched(After(x), s, Left(x.ev, s)) /\ d + Left(ev, s) <= Left(x.ev, s)
    BY <1>3, <1>7
  <2>2. Left(x.ev, s) \in Nat
    BY <1>2, LeftIsNat
  <2>3. Chain(B, s, aw, act)
    BY <1>2, <1>3, <1>7, <2>1, <2>2, AddToken
  <2> QED BY <1>4, <2>3 DEF aw, act
<1> QED BY <1>5, <1>6, <1>7

---------------------------------------------------------------------------
(* These are steps of s wherever they are found.                           *)
LEMMA OnlyAtSender ==
  ASSUME NEW ev, NEW s, OneWayEvent(ev, s),
         ev.kind \in {"startCsma", "backoff", "requestCca", "csmaIdle", "csmaFailure", "timeout", "oldTimeout"}
  PROVE  IsStep(ev, s) /\ ev.node = s /\ ev.kind # "oldTimeout"
<1>1. ev.kind \notin Heard \cup {"removeNoise", "endCca", "txEnd"}
  BY DEF Heard
<1>2. IsStep(ev, s)
  BY <1>1 DEF OneWayEvent
<1> QED BY <1>2 DEF IsStep, StepKind, Contention, Watch

LEMMA CsmaTiming ==
  ASSUME IInv, NEW s \in Node, TimeInv(s), NEW x,
         RestartCsmaCa(x) \/ RandomBackoffDelay(x) \/ RequestCca(x) \/ CsmaCaFailure(x)
  PROVE  TimeInv(s)'
<1>1. /\ IsHead(agenda, x) /\ UNCHANGED <<arq, history>>
      /\ x.ev.kind \in {"startCsma", "backoff", "requestCca", "csmaFailure"}
  BY DEF RestartCsmaCa, RandomBackoffDelay, RequestCca, CsmaCaFailure, Due
<1>2. OneWay(s) /\ Chain(agenda, s, awaiting_ack[s], csmaca_active[s])
  BY DEF TimeInv
<1>3. OneWayEvent(x.ev, s) /\ x \in agenda
  BY <1>1, <1>2, HeadView
<1>4. IsStep(x.ev, s) /\ x.ev.node = s
  BY <1>1, <1>3, OnlyAtSender
<1>5. x.ev.kind \in Contention => csmaca_active[s]
  BY <1>2, <1>3, <1>4 DEF Chain
<1>6. csmaca_active \in [Node -> BOOLEAN] /\ BE \in [Node -> Nat]
  BY DEF IInv, TypeOK
<1>7. {"startCsma", "backoff", "requestCca", "endCca"} \subseteq StepKind
  BY DEF StepKind, Contention
<1>8. CASE RestartCsmaCa(x)
  <2>1. agenda' = Add(After(x), 0, Ev("backoff", s)) /\ csmaca_active' = [csmaca_active EXCEPT ![s] = TRUE]
    BY <1>4, <1>8 DEF RestartCsmaCa, StartCsmaCa
  <2>2. csmaca_active'[s] /\ \A m \in Node \ {s} : csmaca_active'[m] = csmaca_active[m]
    BY <1>6, <2>1
  <2> QED BY <1>1, <1>4, <1>7, <2>1, <2>2, ContentionGoesOn
<1>9. CASE RandomBackoffDelay(x)
  <2>1. PICK b \in Backoffs(BE[s]) : agenda' = Add(After(x), b * UnitBackoff, Ev("requestCca", s))
    BY <1>4, <1>9 DEF RandomBackoffDelay
  <2>2. b \in Nat
    BY <1>6 DEF Backoffs
  <2>3. b * UnitBackoff \in Nat
    BY <2>2
  <2>4. csmaca_active' = csmaca_active /\ csmaca_active[s]
    BY <1>1, <1>5, <1>9 DEF RandomBackoffDelay, csma, Due, Contention
  <2> QED BY <1>1, <1>4, <1>7, <2>1, <2>3, <2>4, ContentionGoesOn
<1>10. CASE RequestCca(x)
  <2>1. agenda' = Add(After(x), CcaTime, Ev("endCca", s))
    BY <1>4, <1>10 DEF RequestCca
  <2>2. csmaca_active' = csmaca_active /\ csmaca_active[s]
    BY <1>1, <1>5, <1>10 DEF RequestCca, csma, Due, Contention
  <2> QED BY <1>1, <1>4, <1>7, <2>1, <2>2, ContentionGoesOn
<1>11. CASE CsmaCaFailure(x)
  <2>1. csmaca_active' = [csmaca_active EXCEPT ![s] = FALSE]
    BY <1>4, <1>11 DEF CsmaCaFailure
  <2>2. \A m \in Node \ {s} : csmaca_active'[m] = csmaca_active[m]
    BY <1>6, <2>1
  <2>3. CASE agenda' = Add(After(x), 0, Ev("startCsma", s))
    <3>1. "startCsma" \notin Contention
      BY DEF Contention
    <3> QED BY <1>1, <1>4, <1>7, <2>2, <2>3, <3>1, ContentionGoesOn
  <2>4. CASE agenda' = After(x)
    <3>1. Chain(agenda', s, awaiting_ack'[s], csmaca_active'[s]) /\ OneWayEvents(agenda', s)
      BY <1>1, <1>4, <2>4, ContentionEnds
    <3> QED BY <1>1, <1>2, <2>2, <3>1, OneWayKept DEF TimeInv
  <2> QED BY <1>4, <1>11, <2>3, <2>4 DEF CsmaCaFailure
<1> QED BY <1>8, <1>9, <1>10, <1>11

(* s transmits its data frame: an exchange begins.                         *)
LEMMA SenderTransmits ==
  ASSUME IInv, NEW s \in Node, Patient(s), OneWay(s), awaiting_ack[s],
         NEW A, NoStep(A, s), NoToken(A, s), OneWayEvents(A, s), StartTx(s, A), NEW act
  PROVE  Chain(agenda', s, TRUE, act) /\ OneWayEvents(agenda', s)
<1> DEFINE f == txPacket[s]
           E == [m \in Node \ {s} |-> RxEv("startRx", m, f)]
           B == AddForEach(A, E, Delay[s])
<1>1. f \in accepted /\ f \in Frame /\ f # NoFrame
  BY DEF IInv, OutcomeOnce, TypeOK
<1>2. f.type = "DATA" /\ f.dst # s
  BY <1>1 DEF IInv, NumbersFresh, OneWay
<1>3. CASE state[s] # "IDLE"
  <2>1. agenda' = A
    BY <1>3 DEF StartTx
  <2> QED BY <2>1, QuietChain
<1>4. CASE state[s] = "IDLE"
  <2>1. agenda' = Add(B, AirTime(f), Ev("txEnd", s))
    BY <1>1, <1>4 DEF StartTx, SendFrame
  <2>e. DOMAIN E = Node \ {s} /\ \A m \in Node \ {s} : E[m] = RxEv("startRx", m, f)
    OBVIOUS
  <2> HIDE DEF E
  <2>2. PICK g : /\ B = A \cup {g[m] : m \in DOMAIN E}
                 /\ \A m \in DOMAIN E : g[m].ev = E[m] /\ g[m].due = Delay[s][m]
    BY AddForEachView DEF B
  <2> HIDE DEF B
  <2>3. \A m \in Node \ {s} : g[m].ev = RxEv("startRx", m, f) /\ g[m].due = Delay[s][m]
    BY <2>e, <2>2
  <2>4. \A y \in B : y \in A \/ \E m \in Node \ {s} : y = g[m]
    BY <2>e, <2>2
  <2> HIDE DEF f
  <2>5. "startRx" \in Heard
    BY DEF Heard
  <2>6. ASSUME NEW m \in Node \ {s}
        PROVE  /\ ~ IsStep(g[m].ev, s) /\ OneWayEvent(g[m].ev, s)
               /\ IsToken(g[m].ev, s) => m = f.dst
               /\ g[m].due + Left(g[m].ev, s) < AirTime(f) + AckTimeout
    <3>1. /\ ~ IsStep(g[m].ev, s) /\ OneWayEvent(g[m].ev, s)
          /\ IsToken(g[m].ev, s) => m = f.dst
      BY <1>1, <2>3, <2>5, RxEvFacts
    <3>2. RxEv("startRx", m, f).kind = "startRx" /\ RxEv("startRx", m, f).node = m /\ RxEv("startRx", m, f).frame = f
      BY DEF RxEv
    <3>3. Left(g[m].ev, s) = Delay[m][s] + AckAir + (AirTime(f) + CcaTime)
      BY <2>3, <3>2 DEF Left, OnAir
    <3>4. AirTime(f) \in Nat /\ AckAir \in Nat /\ Delay[m][s] \in Nat /\ Delay[s][m] \in Nat
      BY TimesAreNat DEF AckAir
    <3>5. Delay[s][m] + CcaTime + Delay[m][s] + AckAir < AckTimeout
      BY DEF Patient
    <3>6. g[m].due + Left(g[m].ev, s) < AirTime(f) + AckTimeout
      BY <2>3, <3>3, <3>4, <3>5
    <3> QED BY <3>1, <3>6
  <2>7. NoStep(B, s) /\ OneWayEvents(B, s)
    BY <2>4, <2>6 DEF NoStep, OneWayEvents
  <2>8. OneToken(B, s)
    BY <2>4, <2>6 DEF NoToken, OneToken
  <2>9. \A y \in B : IsToken(y.ev, s) => y.due + Left(y.ev, s) < AirTime(f) + AckTimeout
    BY <2>4, <2>6 DEF NoToken
  <2>10. /\ IsStep(Ev("txEnd", s), s) /\ Ev("txEnd", s).frame = NoFrame /\ Ev("txEnd", s).kind = "txEnd"
         /\ "txEnd" \notin Contention
    BY EvFacts DEF StepKind, Watch, Contention
  <2>11. Chain(agenda', s, TRUE, act)
    BY <2>1, <2>7, <2>8, <2>9, <2>10, AddStep
  <2>12. OneWayEvent(Ev("txEnd", s), s)
    BY <2>10 DEF OneWayEvent
  <2> QED BY <2>1, <2>7, <2>11, <2>12, AddOneWay
<1> QED BY <1>3, <1>4

(* Another node transmits the acknowledgement it has prepared.             *)
LEMMA OtherTransmits ==
  ASSUME IInv, NEW s \in Node, OneWay(s), NEW n \in Node \ {s},
         NEW A, Dated(A), NEW aw, NEW act, Chain(A, s, aw, act), NoToken(A, s), OneWayEvents(A, s),
         Watched(A, s, Delay[n][s] + AckAir), StartTx(n, A)
  PROVE  Chain(agenda', s, aw, act) /\ OneWayEvents(agenda', s)
<1> DEFINE f == txPacket[n]
           E == [m \in Node \ {n} |-> RxEv("startRx", m, f)]
           B == AddForEach(A, E, Delay[n])
<1>1. f = NoFrame \/ f.type = "ACK"
  BY DEF OneWay
<1>2. CASE state[n] # "IDLE" \/ f = NoFrame
  <2>1. agenda' = A
    BY <1>2 DEF StartTx
  <2> QED BY <2>1
<1>3. CASE state[n] = "IDLE" /\ f # NoFrame
  <2>1. agenda' = Add(B, AirTime(f), Ev("txEnd", n))
    BY <1>3 DEF StartTx, SendFrame
  <2>e. DOMAIN E = Node \ {n} /\ \A m \in Node \ {n} : E[m] = RxEv("startRx", m, f)
    OBVIOUS
  <2> HIDE DEF E
  <2>2. PICK g : /\ B = A \cup {g[m] : m \in DOMAIN E}
                 /\ \A m \in DOMAIN E : g[m].ev = E[m] /\ g[m].due = Delay[n][m]
    BY AddForEachView DEF B
  <2> HIDE DEF B
  <2>3. \A m \in Node \ {n} : g[m].ev = RxEv("startRx", m, f) /\ g[m].due = Delay[n][m]
    BY <2>e, <2>2
  <2>4. \A y \in B : y \in A \/ \E m \in Node \ {n} : y = g[m]
    BY <2>e, <2>2
  <2>a. A \subseteq B
    BY <2>2
  <2> HIDE DEF f
  <2>5. "startRx" \in Heard
    BY DEF Heard
  <2>6. ASSUME NEW m \in Node \ {n}
        PROVE  /\ ~ IsStep(g[m].ev, s) /\ OneWayEvent(g[m].ev, s)
               /\ IsToken(g[m].ev, s) => m = s
    BY <1>1, <1>3, <2>3, <2>5, RxEvFacts
  <2>7. g[s].due + Left(g[s].ev, s) = Delay[n][s] + AckAir
    <3>1. RxEv("startRx", s, f).kind = "startRx" /\ RxEv("startRx", s, f).node = s /\ RxEv("startRx", s, f).frame = f
      BY DEF RxEv
    <3>2. Left(g[s].ev, s) = AirTime(f)
      BY <2>3, <3>1 DEF Left, OnAir
    <3>3. AirTime(f) = AckAir
      BY <1>1, <1>3 DEF AirTime, PayloadTime, AckAir
    <3> QED BY <2>3, <3>2, <3>3
  <2>8. \A t : Watched(A, s, t) => Watched(B, s, t)
    BY <2>a DEF Watched
  <2>9. \A y \in B : IsToken(y.ev, s) => y = g[s]
    BY <2>4, <2>6 DEF NoToken
  <2>10. OneToken(B, s)
    BY <2>9 DEF OneToken
  <2>11. \A y \in B : IsToken(y.ev, s) => Watched(B, s, y.due + Left(y.ev, s))
    BY <2>7, <2>8, <2>9
  <2>12. /\ \A y, z \in B : IsStep(y.ev, s) /\ IsStep(z.ev, s) => y = z
         /\ \A z \in B : IsStep(z.ev, s) => aw /\ (z.ev.kind \in Contention => act)
    BY <2>4, <2>6 DEF Chain
  <2>13. Chain(B, s, aw, act)
    BY <2>10, <2>11, <2>12 DEF Chain
  <2>14. OneWayEvents(B, s)
    BY <2>4, <2>6 DEF OneWayEvents
  <2>15. ~ IsStep(Ev("txEnd", n), s) /\ ~ IsToken(Ev("txEnd", n), s) /\ OneWayEvent(Ev("txEnd", n), s)
    <3>1. Ev("txEnd", n).kind = "txEnd" /\ Ev("txEnd", n).node # s /\ Ev("txEnd", n).frame = NoFrame
      BY EvFacts
    <3> QED BY <3>1 DEF OneWayEvent, IsStep, IsToken
  <2> QED BY <2>1, <2>13, <2>14, <2>15, AddOther, AddOneWay
<1> QED BY <1>2, <1>3

---------------------------------------------------------------------------
(* The end of an assessment: a step of CSMA/CA at s, elsewhere the part of *)
(* the exchange before the acknowledgement is sent.                        *)
LEMMA EndCcaTiming ==
  ASSUME IInv, NEW s \in Node, TimeInv(s), NEW x, EndCca(x)
  PROVE  TimeInv(s)'
<1>1. IsHead(agenda, x) /\ x.ev.kind = "endCca" /\ UNCHANGED <<arq, history>>
  BY DEF EndCca, Due
<1>2. OneWay(s) /\ Chain(agenda, s, awaiting_ack[s], csmaca_active[s])
  BY DEF TimeInv
<1>3. /\ x \in agenda /\ x.ev \in Event /\ x.ev.node \in Node
      /\ After(x) = Pop(agenda, x) /\ Dated(agenda) /\ Dated(After(x)) /\ OneWayEvents(After(x), s)
  BY <1>1, <1>2, HeadView
<1>4. "endCca" \in Contention /\ Contention \subseteq StepKind
  BY DEF Contention, StepKind
<1>5. CASE x.ev.node = s
  <2>1. IsStep(x.ev, s) /\ csmaca_active[s]
    BY <1>1, <1>2, <1>3, <1>4, <1>5 DEF IsStep, Chain
  <2>2. PICK status : CcaConfirm(s, status, After(x))
    BY <1>5, <2>1 DEF EndCca, NotifyCcaConfirm
  <2>3. PICK kind \in {"csmaIdle", "csmaFailure", "backoff"} : agenda' = Add(After(x), 0, Ev(kind, s))
    BY <2>2 DEF CcaConfirm, AfterBusy
  <2>4. csmaca_active' = csmaca_active /\ kind \in StepKind
    BY <2>2 DEF CcaConfirm, StepKind, Contention
  <2> QED BY <1>1, <2>1, <2>3, <2>4, ContentionGoesOn
<1>6. CASE x.ev.node # s
  <2>1. ~ csmaca_active[x.ev.node] /\ ~ IsStep(x.ev, s) /\ IsToken(x.ev, s)
    BY <1>1, <1>2, <1>3, <1>6 DEF OneWay, IsStep, IsToken
  <2>2. PICK status : NotifyCcaConfirm(x.ev.node, status, After(x))
    BY <2>1 DEF EndCca, CcaConfirm
  <2>3. csmaca_active' = csmaca_active /\ awaiting_ack' = awaiting_ack
    BY <1>1, <2>2 DEF NotifyCcaConfirm, csma, arq
  <2>4. Left(x.ev, s) = Delay[x.ev.node][s] + AckAir
    <3>1. Left(x.ev, s) = Delay[x.ev.node][s] + AckAir + 0
      BY <1>1, <1>6 DEF Left
    <3>2. \A m \in Node : Delay[m][s] + AckAir \in Nat
      BY DEF AckAir
    <3>3. Delay[x.ev.node][s] + AckAir \in Nat
      BY <1>3, <3>2
    <3> QED BY <3>1, <3>3
  <2>5. /\ Chain(After(x), s, awaiting_ack[s], csmaca_active[s]) /\ NoToken(After(x), s)
        /\ Watched(After(x), s, Left(x.ev, s))
    BY <1>1, <1>2, <1>3, <2>1, OtherRuns
  <2>6. Chain(agenda', s, awaiting_ack[s], csmaca_active[s]) /\ OneWayEvents(agenda', s)
    <3>1. CASE StartTx(x.ev.node, After(x))
      <4>1. PICK n \in Node \ {s} : n = x.ev.node
        BY <1>3, <1>6
      <4>2. StartTx(n, After(x)) /\ Watched(After(x), s, Delay[n][s] + AckAir)
        BY <2>4, <2>5, <3>1, <4>1
      <4> QED BY <1>2, <1>3, <2>5, <4>2, OtherTransmits
    <3>2. CASE agenda' = After(x)
      BY <1>3, <2>5, <3>2
    <3> QED BY <2>2, <3>1, <3>2 DEF NotifyCcaConfirm
  <2>7. OneWay(s)'
    BY <1>1, <1>2, <2>3, <2>6, OneWayKept
  <2> QED BY <2>3, <2>6, <2>7 DEF TimeInv
<1> QED BY <1>5, <1>6

(* CSMA/CA has been granted the channel.                                   *)
LEMMA CsmaCaIdleTiming ==
  ASSUME IInv, NEW s \in Node, Patient(s), TimeInv(s), NEW x, CsmaCaIdle(x)
  PROVE  TimeInv(s)'
<1>1. IsHead(agenda, x) /\ x.ev.kind = "csmaIdle" /\ UNCHANGED <<arq, history>>
  BY DEF CsmaCaIdle, Due
<1>2. OneWay(s) /\ Chain(agenda, s, awaiting_ack[s], csmaca_active[s])
  BY DEF TimeInv
<1>3. /\ x \in agenda /\ OneWayEvent(x.ev, s)
      /\ After(x) = Pop(agenda, x) /\ Dated(agenda) /\ OneWayEvents(After(x), s)
  BY <1>1, <1>2, HeadView
<1>4. IsStep(x.ev, s) /\ x.ev.node = s
  BY <1>1, <1>3, OnlyAtSender
<1>5. awaiting_ack[s] /\ awaiting_ack \in [Node -> BOOLEAN] /\ awaiting_ack' = awaiting_ack
  BY <1>1, <1>2, <1>3, <1>4 DEF Chain, IInv, TypeOK, arq
<1>6. NoStep(After(x), s) /\ NoToken(After(x), s)
  BY <1>1, <1>2, <1>3, <1>4, StepRuns
<1>7. StartTx(s, After(x)) /\ csmaca_active' = [csmaca_active EXCEPT ![s] = FALSE]
  BY <1>4 DEF CsmaCaIdle
<1>8. Chain(agenda', s, TRUE, csmaca_active'[s]) /\ OneWayEvents(agenda', s)
  BY <1>2, <1>3, <1>5, <1>6, <1>7, SenderTransmits
<1>9. \A m \in Node \ {s} : csmaca_active'[m] = csmaca_active[m]
  BY <1>7 DEF IInv, TypeOK
<1>10. OneWay(s)'
  BY <1>1, <1>2, <1>8, <1>9, OneWayKept
<1>11. awaiting_ack'[s] = TRUE
  BY <1>5
<1> QED BY <1>8, <1>10, <1>11 DEF TimeInv

(* The timer expires: the exchange is over.                                *)
LEMMA TimeoutTiming ==
  ASSUME IInv, NEW s \in Node, TimeInv(s), NEW x, AcknowledgementTimeout(x)
  PROVE  TimeInv(s)'
<1>1. /\ IsHead(agenda, x) /\ x.ev.kind \in {"timeout", "oldTimeout"}
      /\ UNCHANGED <<txPacket, sequence_number, accepted>>
  BY DEF AcknowledgementTimeout, Due
<1>2. OneWay(s) /\ Chain(agenda, s, awaiting_ack[s], csmaca_active[s])
  BY DEF TimeInv
<1>3. /\ x \in agenda /\ OneWayEvent(x.ev, s) /\ OneWayEvents(After(x), s)
      /\ After(x) = Pop(agenda, x) /\ Dated(agenda)
  BY <1>1, <1>2, HeadView
<1>4. IsStep(x.ev, s) /\ x.ev.node = s /\ x.ev.kind # "txEnd"
  BY <1>1, <1>3, OnlyAtSender
<1>5. NoStep(After(x), s) /\ NoToken(After(x), s) /\ OneToken(After(x), s)
  BY <1>2, <1>3, <1>4, StepRuns, <1>1
<1>6. awaiting_ack \in [Node -> BOOLEAN] /\ csmaca_active \in [Node -> BOOLEAN] /\ awaiting_ack[s]
  BY <1>2, <1>3, <1>4 DEF IInv, TypeOK, Chain
<1>7. CASE IgnoreTimeout(s, After(x))
  BY <1>6, <1>7 DEF IgnoreTimeout
<1>8. CASE TransmissionFailed(s, After(x))
  <2>1. agenda' = After(x) /\ awaiting_ack' = [awaiting_ack EXCEPT ![s] = FALSE] /\ csmaca_active' = csmaca_active
    BY <1>8 DEF TransmissionFailed, csma
  <2>2. Chain(agenda', s, awaiting_ack'[s], csmaca_active'[s])
    BY <1>5, <2>1, QuietChain
  <2>3. OneWay(s)'
    BY <1>1, <1>2, <1>3, <1>6, <2>1 DEF OneWay, OneWayEvents
  <2> QED BY <2>2, <2>3 DEF TimeInv
<1>9. CASE Replay(s, After(x))
  <2>1. /\ agenda' = Add(After(x), 0, Ev("backoff", s)) /\ awaiting_ack' = awaiting_ack
        /\ csmaca_active' = [csmaca_active EXCEPT ![s] = TRUE]
    BY <1>9 DEF Replay, StartCsmaCa
  <2>2. /\ IsStep(Ev("backoff", s), s) /\ Ev("backoff", s).frame = NoFrame
        /\ csmaca_active'[s] /\ awaiting_ack'[s] = TRUE
    BY <1>6, <2>1, EvFacts DEF StepKind, Contention
  <2>3. Chain(agenda', s, TRUE, csmaca_active'[s])
    BY <1>5, <2>1, <2>2, AddStep
  <2>4. OneWayEvents(agenda', s)
    BY <1>3, <2>1, <2>2, AddOneWay DEF OneWayEvent
  <2>5. OneWay(s)'
    BY <1>1, <1>2, <1>6, <2>1, <2>4 DEF OneWay, OneWayEvents
  <2> QED BY <2>2, <2>3, <2>5 DEF TimeInv
<1> QED BY <1>4, <1>7, <1>8, <1>9 DEF AcknowledgementTimeout

(* The end of a transmission: s winds its timer.                           *)
LEMMA FrameSentTiming ==
  ASSUME IInv, NEW s \in Node, TimeInv(s), NEW x, FrameSent(x)
  PROVE  TimeInv(s)'
<1>1. IsHead(agenda, x) /\ x.ev.kind = "txEnd" /\ UNCHANGED <<arq, history, csma>>
  BY DEF FrameSent, Due
<1>2. OneWay(s) /\ Chain(agenda, s, awaiting_ack[s], csmaca_active[s])
  BY DEF TimeInv
<1>3. /\ x \in agenda /\ x.ev \in Event /\ x.ev.node \in Node /\ OneWayEvents(After(x), s)
      /\ After(x) = Pop(agenda, x) /\ Dated(agenda)
  BY <1>1, <1>2, HeadView
<1>4. awaiting_ack' = awaiting_ack /\ csmaca_active' = csmaca_active /\ awaiting_ack \in [Node -> BOOLEAN]
  BY <1>1 DEF arq, csma, IInv, TypeOK
<1>5. CASE x.ev.node = s
  <2>1. IsStep(x.ev, s)
    BY <1>1, <1>5 DEF IsStep, StepKind, Watch
  <2>2. awaiting_ack[s]
    BY <1>2, <1>3, <2>1 DEF Chain
  <2>3. /\ NoStep(After(x), s) /\ OneToken(After(x), s)
        /\ \A y \in After(x) : IsToken(y.ev, s) => y.due + Left(y.ev, s) < AckTimeout
    BY <1>1, <1>2, <1>3, <2>1, StepRuns
  <2>4. Timers(After(x), s) = {}
    BY <2>3 DEF Timers, NoStep, IsStep, StepKind, Watch
  <2>5. Superseded(After(x), s) = After(x)
    BY <2>4 DEF Superseded
  <2>6. agenda' = Add(After(x), AckTimeout, Ev("timeout", s))
    BY <1>5, <2>2, <2>5 DEF FrameSent, MustWind
  <2>7. /\ IsStep(Ev("timeout", s), s) /\ Ev("timeout", s).frame = NoFrame /\ Ev("timeout", s).kind = "timeout"
        /\ "timeout" \notin Contention
    BY EvFacts DEF StepKind, Watch, Contention
  <2>8. Chain(agenda', s, TRUE, csmaca_active'[s])
    BY <2>3, <2>6, <2>7, AddStep
  <2>9. OneWayEvents(agenda', s)
    BY <1>3, <2>6, <2>7, AddOneWay DEF OneWayEvent
  <2>10. OneWay(s)' /\ awaiting_ack'[s] = TRUE
    BY <1>1, <1>2, <1>4, <2>2, <2>9, OneWayKept
  <2> QED BY <2>8, <2>10 DEF TimeInv
<1>6. CASE x.ev.node # s
  <2>1. ~ IsStep(x.ev, s) /\ ~ awaiting_ack[x.ev.node]
    BY <1>2, <1>3, <1>6 DEF IsStep, OneWay
  <2>2. agenda' = Pop(agenda, x)
    BY <1>3, <2>1 DEF FrameSent, MustWind
  <2>3. Chain(agenda', s, awaiting_ack[s], csmaca_active[s])
    BY <1>1, <1>2, <1>3, <2>1, <2>2, OtherRuns
  <2>4. OneWay(s)'
    BY <1>1, <1>2, <1>3, <1>4, <2>2, OneWayKept
  <2> QED BY <1>4, <2>3, <2>4 DEF TimeInv
<1> QED BY <1>5, <1>6

---------------------------------------------------------------------------
(* The end of an interference is neither a step nor part of the exchange.  *)
LEMMA RemovalEvent ==
  ASSUME NEW n \in Node, NEW s
  PROVE  /\ Ev("removeNoise", n) \in Event /\ ~ IsStep(Ev("removeNoise", n), s)
         /\ ~ IsToken(Ev("removeNoise", n), s) /\ OneWayEvent(Ev("removeNoise", n), s)
<1>1. /\ Ev("removeNoise", n).kind = "removeNoise" /\ Ev("removeNoise", n).frame = NoFrame
      /\ "removeNoise" \notin StepKind
  BY EvFacts DEF StepKind, Contention, Watch
<1>2. Ev("removeNoise", n) \in Event
  BY DEF Ev, Event, Kind, Reception
<1> QED BY <1>1, <1>2 DEF IsStep, IsToken, OneWayEvent

(* The next event of a reception continues the exchange the last one was   *)
(* part of, in the time that it takes.                                     *)
LEMMA NextOfReception ==
  ASSUME NEW s \in Node, NEW x, x.ev \in Event, x.ev.frame # NoFrame, x.ev.kind \in Heard,
         NEW d \in Nat, NEW kind \in Heard,
         \/ x.ev.kind = "startRx" /\ kind = "preamble" /\ d = PreambleTime
         \/ x.ev.kind = "preamble" /\ kind = "rxHeader" /\ d = HeaderTime
         \/ x.ev.kind = "rxHeader" /\ kind = "rxPayload" /\ d = PayloadTime(x.ev.frame),
         NEW ev, ev = RxEv(kind, x.ev.node, x.ev.frame)
  PROVE  /\ ev \in Event /\ ~ IsStep(ev, s) /\ OneWayEvent(ev, s)
         /\ IsToken(ev, s) => IsToken(x.ev, s) /\ d + Left(ev, s) <= Left(x.ev, s)
<1>1. ev \in Event
  BY DEF RxEv, Event, Heard, Kind
<1>2. /\ ev.kind = kind /\ ev.node = x.ev.node /\ ev.frame = x.ev.frame
      /\ ~ IsStep(ev, s) /\ OneWayEvent(ev, s)
  BY RxEvFacts
<1>3. kind # "endCca" /\ x.ev.kind # "endCca"
  BY DEF Heard
<1>4. IsToken(ev, s) => IsToken(x.ev, s)
  BY <1>2, <1>3 DEF IsToken
<1>5. PayloadTime(x.ev.frame) \in Nat
  BY TimesAreNat
<1>6. OnAir(x.ev) = d + OnAir(ev) /\ OnAir(ev) \in Nat
  BY <1>2, <1>5 DEF OnAir, AirTime
<1>7. x.ev.node \in Node
  BY DEF Event
<1>8. \A m \in Node : Delay[m][s] \in Nat
  OBVIOUS
<1>9. Delay[x.ev.node][s] \in Nat
  BY <1>7, <1>8
<1>a. AckAir \in Nat
  BY DEF AckAir
<1>10. Left(x.ev, s) = d + Left(ev, s)
  BY <1>2, <1>3, <1>6, <1>9, <1>a DEF Left
<1>11. Left(ev, s) \in Nat
  BY <1>1, LeftIsNat
<1> QED BY <1>1, <1>2, <1>4, <1>10, <1>11

(* The steps of a reception before its end.                                *)
LEMMA ReceptionTiming ==
  ASSUME IInv, NEW s \in Node, TimeInv(s), NEW x,
         StartRx(x) \/ PreambleDetectionSuccessful(x) \/ EndRxHeader(x) \/ RemoveNoiseSignal(x)
  PROVE  TimeInv(s)'
<1>1. /\ IsHead(agenda, x) /\ x.ev.kind \in {"startRx", "preamble", "rxHeader", "removeNoise"}
      /\ UNCHANGED <<arq, history, csma>>
  BY DEF StartRx, PreambleDetectionSuccessful, EndRxHeader, RemoveNoiseSignal, Due
<1>2. OneWay(s) /\ Chain(agenda, s, awaiting_ack[s], csmaca_active[s])
  BY DEF TimeInv
<1>3. /\ x \in agenda /\ x.ev \in Event /\ x.ev.node \in Node /\ OneWayEvents(After(x), s)
      /\ After(x) = Pop(agenda, x) /\ Dated(agenda)
  BY <1>1, <1>2, HeadView
<1>4. awaiting_ack' = awaiting_ack /\ csmaca_active' = csmaca_active
  BY <1>1 DEF arq, csma
<1>5. ~ IsStep(x.ev, s)
  BY <1>1 DEF IsStep, StepKind, Contention, Watch
<1>6. {"startRx", "preamble", "rxHeader", "rxPayload"} \subseteq Heard /\ "preamble" \in Reception /\ "rxHeader" \in Reception
  BY DEF Heard, Reception
<1>7. SUFFICES ASSUME ~ (Chain(agenda', s, awaiting_ack[s], csmaca_active[s]) /\ OneWayEvents(agenda', s))
               PROVE  FALSE
  BY <1>1, <1>2, <1>4, OneWayKept DEF TimeInv
<1>8. ASSUME NEW d \in Nat, NEW ev \in Event, ~ IsStep(ev, s), OneWayEvent(ev, s),
             IsToken(ev, s) => IsToken(x.ev, s) /\ d + Left(ev, s) <= Left(x.ev, s),
             agenda' = After(x) \/ agenda' = Add(After(x), d, ev)
      PROVE  FALSE
  BY <1>1, <1>5, <1>7, <1>8, Relay
<1>9. ASSUME NEW d \in Nat, agenda' = Add(After(x), d, Ev("removeNoise", x.ev.node)) \/ agenda' = After(x)
      PROVE  FALSE
  <2>1. PICK n \in Node : n = x.ev.node
    BY <1>3
  <2> QED BY <1>8, <1>9, <2>1, RemovalEvent
<1>10. CASE StartRx(x)
  <2>1. CASE /\ CanLock(x.ev.node, x.ev.frame)
             /\ agenda' = Add(After(x), PreambleTime, RxEv("preamble", x.ev.node, x.ev.frame))
    <3>1. x.ev.frame # NoFrame /\ x.ev.kind = "startRx"
      BY <1>10, <2>1 DEF CanLock, StartRx, Due
    <3>2. PICK ev : ev = RxEv("preamble", x.ev.node, x.ev.frame)
      OBVIOUS
    <3>3. /\ ev \in Event /\ ~ IsStep(ev, s) /\ OneWayEvent(ev, s)
          /\ IsToken(ev, s) => IsToken(x.ev, s) /\ PreambleTime + Left(ev, s) <= Left(x.ev, s)
      BY <1>3, <1>6, <3>1, <3>2, NextOfReception
    <3> QED BY <1>8, <2>1, <3>2, <3>3
  <2>2. CASE Interfere(x.ev.node, IF x.ev.frame = NoFrame THEN PulseTime ELSE AirTime(x.ev.frame), After(x))
    BY <1>9, <2>2, TimesAreNat DEF Interfere
  <2> QED BY <1>10, <2>1, <2>2 DEF StartRx
<1>11. CASE PreambleDetectionSuccessful(x)
  <2>1. x.ev.kind = "preamble" /\ x.ev.frame # NoFrame
    BY <1>3, <1>6, <1>11 DEF PreambleDetectionSuccessful, Due, Event
  <2>2. PICK ev : ev = RxEv("rxHeader", x.ev.node, x.ev.frame)
    OBVIOUS
  <2>3. /\ ev \in Event /\ ~ IsStep(ev, s) /\ OneWayEvent(ev, s)
        /\ IsToken(ev, s) => IsToken(x.ev, s) /\ HeaderTime + Left(ev, s) <= Left(x.ev, s)
    BY <1>3, <1>6, <2>1, <2>2, NextOfReception
  <2>4. agenda' = Add(After(x), HeaderTime, ev)
    BY <1>11, <2>2 DEF PreambleDetectionSuccessful
  <2> QED BY <1>8, <2>3, <2>4
<1>12. CASE EndRxHeader(x)
  <2>1. x.ev.kind = "rxHeader" /\ x.ev.frame # NoFrame /\ PayloadTime(x.ev.frame) \in Nat
    BY <1>3, <1>6, <1>12, TimesAreNat DEF EndRxHeader, Due, Event
  <2>2. PICK ev : ev = RxEv("rxPayload", x.ev.node, x.ev.frame)
    OBVIOUS
  <2>3. /\ ev \in Event /\ ~ IsStep(ev, s) /\ OneWayEvent(ev, s)
        /\ IsToken(ev, s) => IsToken(x.ev, s) /\ PayloadTime(x.ev.frame) + Left(ev, s) <= Left(x.ev, s)
    BY <1>3, <1>6, <2>1, <2>2, NextOfReception
  <2>4. CASE agenda' = Add(After(x), PayloadTime(x.ev.frame), ev)
    BY <1>8, <2>1, <2>3, <2>4
  <2>5. CASE Interfere(x.ev.node, PayloadTime(x.ev.frame), After(x))
    BY <1>9, <2>1, <2>5 DEF Interfere
  <2> QED BY <1>12, <2>2, <2>4, <2>5 DEF EndRxHeader
<1>13. CASE RemoveNoiseSignal(x)
  BY <1>9, <1>13 DEF RemoveNoiseSignal
<1> QED BY <1>10, <1>11, <1>12, <1>13

(* The acknowledgement arrives: the timer, all that is pending, is         *)
(* cancelled.                                                              *)
LEMMA TimerCancelled ==
  ASSUME NEW A, NEW s, NEW aw, NEW act, Chain(A, s, aw, act), NoToken(A, s), OneWayEvents(A, s),
         \A z \in A : IsStep(z.ev, s) => z.ev.kind = "timeout"
  PROVE  /\ NoStep(CancelTimer(A, s), s) /\ NoToken(CancelTimer(A, s), s)
         /\ OneWayEvents(CancelTimer(A, s), s)
<1>1. PICK f : /\ CancelTimer(A, s) = {f[y] : y \in A \ Timers(A, s)}
               /\ \A y \in A \ Timers(A, s) : f[y].ev = y.ev /\ f[y].due = y.due
  BY WithoutMoved DEF CancelTimer
<1>2. \A b \in CancelTimer(A, s) : \E y \in A \ Timers(A, s) : b.ev = y.ev
  BY <1>1
<1>3. \A y \in A \ Timers(A, s) : ~ IsStep(y.ev, s)
  BY DEF Timers, IsStep
<1> QED BY <1>2, <1>3 DEF NoStep, NoToken, OneWayEvents

(* The end of a reception: the destination goes on to the assessment, s    *)
(* accepts the acknowledgement it awaits.                                  *)
LEMMA EndRxPayloadTiming ==
  ASSUME IInv, PhyInv, NEW s, OneSender(s), TimeInv(s), NEW x, EndRxPayload(x)
  PROVE  TimeInv(s)'
<1> DEFINE f == x.ev.frame
<1>0. s \in Node /\ Sources = {s}
  BY DEF OneSender
<1>1. IsHead(agenda, x) /\ x.ev.kind = "rxPayload"
  BY DEF EndRxPayload, Due
<1>2. OneWay(s) /\ Chain(agenda, s, awaiting_ack[s], csmaca_active[s])
  BY DEF TimeInv
<1>3. /\ x \in agenda /\ x.ev \in Event /\ x.ev.node \in Node /\ OneWayEvents(After(x), s)
      /\ After(x) = Pop(agenda, x) /\ Dated(agenda)
  BY <1>0, <1>1, <1>2, HeadView
<1>4. KnownFrame(f, accepted, delivered) /\ f # NoFrame
  BY <1>1, <1>3, HeadFacts DEF Event, Reception
<1>5. ~ IsStep(x.ev, s)
  BY <1>1 DEF IsStep, StepKind, Contention, Watch
<1>6. awaiting_ack \in [Node -> BOOLEAN] /\ csmaca_active \in [Node -> BOOLEAN] /\ txPacket \in [Node -> Frame \cup {NoFrame}]
  BY DEF IInv, TypeOK
<1>7. /\ Chain(After(x), s, awaiting_ack[s], csmaca_active[s])
      /\ IsToken(x.ev, s) => NoToken(After(x), s)
  <2>1. IsHead(agenda, x) /\ Dated(agenda) /\ s \in Node /\ After(x) = Pop(agenda, x)
    BY <1>0, <1>1, <1>3
  <2> QED BY <1>2, <1>5, <2>1, OtherRuns
<1>8. CASE ReceiveData(x.ev.node, f, After(x))
  <2>1. f.type = "DATA" /\ f.dst = x.ev.node /\ f \in accepted
    BY <1>4, <1>8 DEF ReceiveData, KnownFrame
  <2>2. x.ev.node # s
    BY <1>2, <2>1 DEF OneWay
  <2>3. x.ev.node \notin Sources
    BY <1>0, <2>2
  <2>4. /\ agenda' = Add(After(x), CcaTime, Ev("endCca", x.ev.node))
        /\ txPacket' = [txPacket EXCEPT ![x.ev.node] = AckOf(f)]
        /\ awaiting_ack' = [awaiting_ack EXCEPT ![x.ev.node] = FALSE]
        /\ csmaca_active' = csmaca_active /\ accepted' = accepted
    BY <1>8, <2>3 DEF ReceiveData, DoSendFrom, csma
  <2>5. PICK n \in Node \ {s} : n = x.ev.node
    BY <1>3, <2>2
  <2>6. /\ Ev("endCca", n).kind = "endCca" /\ Ev("endCca", n).node = n /\ Ev("endCca", n).frame = NoFrame
        /\ Ev("endCca", n) \in Event
    BY DEF Ev, Event, Kind, Reception
  <2>7. ~ IsStep(Ev("endCca", n), s) /\ OneWayEvent(Ev("endCca", n), s) /\ IsToken(x.ev, s)
    BY <1>4, <2>1, <2>2, <2>6 DEF IsStep, OneWayEvent, IsToken
  <2>8. CcaTime + Left(Ev("endCca", n), s) <= Left(x.ev, s)
    <3>1. OnAir(x.ev) = 0
      BY <1>1 DEF OnAir
    <3>2. Left(x.ev, s) = Delay[n][s] + AckAir + (0 + CcaTime)
      BY <1>1, <2>2, <2>5, <3>1 DEF Left
    <3>3. Left(Ev("endCca", n), s) = Delay[n][s] + AckAir + 0
      BY <2>6 DEF Left
    <3>4. Delay[n][s] \in Nat /\ AckAir \in Nat
      BY <1>0 DEF AckAir
    <3> QED BY <3>2, <3>3, <3>4
  <2>9. Chain(agenda', s, awaiting_ack[s], csmaca_active[s]) /\ OneWayEvents(agenda', s)
    BY <1>0, <1>1, <1>5, <2>4, <2>5, <2>6, <2>7, <2>8, Relay
  <2>10. awaiting_ack'[s] = awaiting_ack[s] /\ csmaca_active'[s] = csmaca_active[s]
    BY <1>0, <1>6, <2>2, <2>4
  <2>11. \A m \in Node \ {s} : ~ awaiting_ack'[m] /\ ~ csmaca_active'[m]
    BY <1>2, <1>6, <2>4 DEF OneWay
  <2>12. \A m \in Node \ {s} : txPacket'[m] = NoFrame \/ txPacket'[m].type = "ACK"
    BY <1>2, <1>6, <2>4 DEF OneWay, AckOf
  <2>13. OneWay(s)'
    BY <1>2, <2>4, <2>9, <2>11, <2>12 DEF OneWay, OneWayEvents
  <2> QED BY <2>9, <2>10, <2>13 DEF TimeInv
<1>9. CASE agenda' = After(x) /\ UNCHANGED <<arq, accepted, csma>>
  <2>1. /\ awaiting_ack' = awaiting_ack /\ csmaca_active' = csmaca_active
        /\ txPacket' = txPacket /\ accepted' = accepted
    BY <1>9 DEF arq, csma
  <2>2. OneWay(s)'
    BY <1>2, <1>3, <1>9, <2>1 DEF OneWay, OneWayEvents
  <2> QED BY <1>7, <1>9, <2>1, <2>2 DEF TimeInv
<1>10. CASE ReceiveAck(x.ev.node, f, After(x)) /\ AckMatches(x.ev.node, f)
  <2>1. x.ev.node = s
    BY <1>2, <1>3, <1>10 DEF AckMatches, OneWay
  <2>2. /\ agenda' = CancelTimer(After(x), s) /\ awaiting_ack' = [awaiting_ack EXCEPT ![s] = FALSE]
        /\ csmaca_active' = csmaca_active /\ txPacket' = txPacket /\ accepted' = accepted
    BY <1>10, <2>1 DEF ReceiveAck, csma
  <2>3. IsToken(x.ev, s)
    BY <1>4, <2>1 DEF IsToken
  <2>4. state[s] = "RX" /\ Backed(After(x), [state EXCEPT ![s] = "IDLE"], noise)
    BY <1>1, <1>3, <2>1, PopReception DEF PhyInv, Reception
  <2>5. \A z \in After(x) : IsStep(z.ev, s) => z.ev.kind = "timeout"
    <3> SUFFICES ASSUME NEW z \in After(x), IsStep(z.ev, s)
                 PROVE  z.ev.kind = "timeout"
      OBVIOUS
    <3>1. z.ev.kind \in Watch
      <4>1. PICK w \in After(x) : w.ev.node = s /\ w.ev.kind \in Watch
        BY <1>0, <1>1, <1>2, <1>3, <1>5, <2>3, OtherRuns DEF Watched
      <4> QED BY <1>7, <4>1 DEF Chain, IsStep, StepKind
    <3>2. z.ev.kind # "txEnd"
      <4>1. Count(After(x), {"txEnd"}, s) = 0 /\ IsFiniteSet(After(x))
        BY <1>0, <2>4 DEF Backed, Ranked
      <4>2. {y \in After(x) : y.ev.kind \in {"txEnd"} /\ y.ev.node = s} = {}
        BY <4>1, PartIsFinite, FS_EmptySet DEF Count
      <4> QED BY <4>2 DEF IsStep
    <3> QED BY <3>1, <3>2 DEF Watch
  <2>6. NoStep(agenda', s) /\ NoToken(agenda', s) /\ OneWayEvents(agenda', s)
    BY <1>3, <1>7, <2>2, <2>3, <2>5, TimerCancelled
  <2>7. Chain(agenda', s, awaiting_ack'[s], csmaca_active'[s])
    BY <2>6, QuietChain
  <2>8. OneWay(s)'
    BY <1>2, <1>6, <2>2, <2>6 DEF OneWay, OneWayEvents
  <2> QED BY <2>7, <2>8 DEF TimeInv
<1>11. CASE ReceiveAck(x.ev.node, f, After(x)) /\ ~ AckMatches(x.ev.node, f)
  BY <1>9, <1>11 DEF ReceiveAck, arq
<1>12. CASE Discard(x.ev.node, f, After(x))
  BY <1>9, <1>12 DEF Discard, history
<1>13. CASE agenda' = After(x) /\ UNCHANGED <<csma, arq, history, bounds>>
  BY <1>9, <1>13 DEF history
<1> QED BY <1>8, <1>10, <1>11, <1>12, <1>13 DEF EndRxPayload, DoProcess

---------------------------------------------------------------------------
(* The application of s sends: nothing was pending for an earlier frame.   *)
LEMMA SendTiming ==
  ASSUME IInv, NEW s, OneSender(s), TimeInv(s), NEW n \in Sources, NEW d \in Node, d # n,
         NEW t \in Nat, Send(n, d, t)
  PROVE  TimeInv(s)'
<1> DEFINE A == Elapse(agenda, t)
<1>1. n = s /\ s \in Node
  BY DEF OneSender
<1>2. OneWay(s) /\ Chain(agenda, s, awaiting_ack[s], csmaca_active[s])
  BY DEF TimeInv
<1>3. /\ ~ awaiting_ack[s] /\ agenda' = Add(A, 0, Ev("backoff", s))
      /\ csmaca_active' = [csmaca_active EXCEPT ![s] = TRUE]
      /\ awaiting_ack' = [awaiting_ack EXCEPT ![s] = TRUE]
      /\ txPacket' = [txPacket EXCEPT ![s] = NewData(s, d)]
      /\ accepted' = accepted \cup {NewData(s, d)}
  BY <1>1 DEF Send, DoSendFrom, StartCsmaCa
<1>4. awaiting_ack \in [Node -> BOOLEAN] /\ csmaca_active \in [Node -> BOOLEAN] /\ txPacket \in [Node -> Frame \cup {NoFrame}]
  BY DEF IInv, TypeOK
<1>5. NoStep(agenda, s) /\ NoToken(agenda, s) /\ OneWayEvents(agenda, s)
  BY <1>2, <1>3, NoStepNoToken DEF OneWay
<1>6. Moved(agenda, A, t)
  BY ElapseMoved
<1> HIDE DEF A
<1>7. \A b \in A : \E y \in agenda : b.ev = y.ev
  BY <1>6 DEF Moved
<1>8. NoStep(A, s) /\ NoToken(A, s) /\ OneWayEvents(A, s) /\ OneToken(A, s)
  BY <1>5, <1>7 DEF NoStep, NoToken, OneWayEvents, OneToken
<1>9. IsStep(Ev("backoff", s), s) /\ Ev("backoff", s).frame = NoFrame
  BY EvFacts DEF StepKind, Contention
<1>10. csmaca_active'[s] /\ awaiting_ack'[s] = TRUE
  BY <1>1, <1>3, <1>4
<1>11. Chain(agenda', s, TRUE, csmaca_active'[s])
  BY <1>3, <1>8, <1>9, <1>10, AddStep
<1>12. OneWayEvents(agenda', s)
  BY <1>3, <1>8, <1>9, AddOneWay DEF OneWayEvent
<1>13. \A f \in accepted' : f.src = s /\ f.dst # s
  BY <1>1, <1>2, <1>3 DEF OneWay, NewData
<1>14. \A m \in Node \ {s} : ~ awaiting_ack'[m] /\ ~ csmaca_active'[m]
  BY <1>2, <1>3, <1>4 DEF OneWay
<1>a. \A m \in Node \ {s} : txPacket'[m] = NoFrame \/ txPacket'[m].type = "ACK"
  BY <1>2, <1>3, <1>4 DEF OneWay
<1>15. OneWay(s)'
  BY <1>12, <1>13, <1>14, <1>a DEF OneWay, OneWayEvents
<1> QED BY <1>10, <1>11, <1>15 DEF TimeInv

(* A noise source starts a pulse.                                          *)
LEMMA PulseTiming ==
  ASSUME IInv, NEW s \in Node, TimeInv(s), NEW n \in Node, NEW t \in Nat, PulseStart(n, t)
  PROVE  TimeInv(s)'
<1> DEFINE A == Elapse(agenda, t)
<1>1. OneWay(s) /\ Chain(agenda, s, awaiting_ack[s], csmaca_active[s])
  BY DEF TimeInv
<1>2. agenda' = Add(A, 0, Ev("startRx", n)) /\ UNCHANGED <<csma, arq, history>>
  BY DEF PulseStart
<1>3. Moved(agenda, A, t)
  BY ElapseMoved
<1>4. Dated(agenda)
  BY DEF IInv, TypeOK, Dated
<1> HIDE DEF A
<1>5. Chain(A, s, awaiting_ack[s], csmaca_active[s])
  BY <1>1, <1>3, <1>4, ChainMoved
<1>6. OneWayEvents(A, s)
  BY <1>1, <1>3, MovedOneWay DEF OneWay
<1>7. ~ IsStep(Ev("startRx", n), s) /\ ~ IsToken(Ev("startRx", n), s) /\ OneWayEvent(Ev("startRx", n), s)
  <2>1. /\ Ev("startRx", n).kind = "startRx" /\ Ev("startRx", n).frame = NoFrame
        /\ "startRx" \notin StepKind /\ "startRx" \in Heard
    BY EvFacts DEF StepKind, Contention, Watch, Heard
  <2> QED BY <2>1 DEF IsStep, IsToken, OneWayEvent
<1>8. Chain(agenda', s, awaiting_ack[s], csmaca_active[s])
  BY <1>2, <1>5, <1>7, AddOther
<1>9. OneWayEvents(agenda', s)
  BY <1>2, <1>6, <1>7, AddOneWay
<1>10. awaiting_ack' = awaiting_ack /\ csmaca_active' = csmaca_active /\ UNCHANGED <<arq, history>>
  BY <1>2 DEF arq, csma
<1>11. OneWay(s)'
  BY <1>1, <1>9, <1>10, OneWayKept
<1> QED BY <1>8, <1>10, <1>11 DEF TimeInv

(* The times the environment may choose are numbers.                       *)
LEMMA EnvironmentView ==
  ASSUME IInv, Environment
  PROVE  \E t \in Nat : \/ \E n \in Sources, d \in Node : d # n /\ Send(n, d, t)
                        \/ \E n \in Node : PulseStart(n, t)
<1>1. Elapsed \subseteq Nat
  BY DEF Elapsed, IInv, TypeOK
<1> QED BY <1>1 DEF Environment

LEMMA TimeInit ==
  ASSUME NEW s, OneSender(s), Init
  PROVE  TimeInv(s)
<1>1. Chain({}, s, awaiting_ack[s], csmaca_active[s])
  BY DEF Chain, OneToken
<1>2. OneWay(s)
  BY DEF Init, OneWay, OneWayEvents
<1> QED BY <1>1, <1>2 DEF TimeInv, Init

LEMMA TimeStep ==
  ASSUME NEW s, OneSender(s), Patient(s), IInv, PhyInv, TimeInv(s), [Next]_vars
  PROVE  TimeInv(s)'
<1>0. s \in Node
  BY DEF OneSender
<1>1. CASE ProcessOneEvent
  <2>1. PICK x \in agenda : Process(x)
    BY <1>1 DEF ProcessOneEvent
  <2>2. CASE RestartCsmaCa(x) \/ RandomBackoffDelay(x) \/ RequestCca(x) \/ CsmaCaFailure(x)
    BY <1>0, <2>2, CsmaTiming
  <2>3. CASE EndCca(x) \/ CsmaCaIdle(x) \/ AcknowledgementTimeout(x) \/ FrameSent(x)
    BY <1>0, <2>3, EndCcaTiming, CsmaCaIdleTiming, TimeoutTiming, FrameSentTiming
  <2>4. CASE StartRx(x) \/ PreambleDetectionSuccessful(x) \/ EndRxHeader(x) \/ RemoveNoiseSignal(x)
    BY <1>0, <2>4, ReceptionTiming
  <2>5. CASE EndRxPayload(x)
    BY <2>5, EndRxPayloadTiming
  <2> QED BY <2>1, <2>2, <2>3, <2>4, <2>5 DEF Process
<1>2. CASE Environment
  <2>1. PICK t \in Nat : \/ \E n \in Sources, d \in Node : d # n /\ Send(n, d, t)
                        \/ \E n \in Node : PulseStart(n, t)
    BY <1>2, EnvironmentView
  <2> QED BY <1>0, <2>1, SendTiming, PulseTiming
<1>3. CASE UNCHANGED vars
  BY <1>3 DEF vars, csma, arq, history, TimeInv, OneWay, OneWayEvents
<1> QED BY <1>1, <1>2, <1>3 DEF Next

LEMMA TimeInductive ==
  ASSUME NEW s, OneSender(s), Patient(s)
  PROVE  Spec => []TimeInv(s)
<1>1. Init => TimeInv(s)
  BY TimeInit
<1>2. IInv /\ PhyInv /\ TimeInv(s) /\ [Next]_vars => TimeInv(s)'
  BY TimeStep
<1> QED BY <1>1, <1>2, Inductive, PhyInductive, PTL DEF Spec

(* Once the application knows what became of its frame nothing of it is    *)
(* left: no CSMA/CA procedure will transmit it again, no timer will expire *)
(* and no acknowledgement will be received, for any number of listeners,   *)
(* any loss and any noise, if one node sends and its timer outlasts the    *)
(* answer (OneSender, Patient).                                            *)
THEOREM NothingAfterOutcomeCorrect ==
  ASSUME NEW s, OneSender(s), Patient(s)
  PROVE  Spec => []NothingAfterOutcome
<1>1. IInv /\ TimeInv(s) => NothingAfterOutcome
  <2> SUFFICES ASSUME IInv, TimeInv(s), NEW n \in Sources, ~ awaiting_ack[n],
                      NEW y \in agenda, y.ev.kind \in Kind \ {"removeNoise", "startRx"}, y.ev.node = n
               PROVE  FALSE
    BY DEF NothingAfterOutcome, Pending
  <2>1. n = s
    BY DEF OneSender
  <2>2. NoStep(agenda, s) /\ NoToken(agenda, s) /\ OneWayEvents(agenda, s)
    BY <2>1, NoStepNoToken DEF TimeInv, OneWay
  <2>3. y.ev.kind \in {"preamble", "rxHeader", "rxPayload"}
    BY <2>1, <2>2 DEF NoStep, OneWayEvents, OneWayEvent, Heard
  <2>4. y.ev.frame # NoFrame
    BY <2>3 DEF IInv, TypeOK, Event, Reception
  <2> QED BY <2>1, <2>2, <2>4 DEF NoToken, IsToken
<1> QED BY <1>1, TimeInductive, Inductive, PTL

---------------------------------------------------------------------------
(***************************************************************************)
(* Interference.  A CCA finds the channel occupied when interference is    *)
(* pending at its end.  If a pulse is shorter than an assessment it spoils *)
(* one at most; if there are no more pulses than NB may count, CSMA/CA     *)
(* does not fail, so that s, while it waits, never runs out of steps.      *)
(***************************************************************************)
FewPulses == MaxPulses <= MaxCSMABackoffs /\ PulseTime < CcaTime

IsRemoval(ev, s) == ev.node = s /\ ev.kind = "removeNoise"
IsPulse(ev, s) == ev.node = s /\ ev.kind = "startRx" /\ ev.frame = NoFrame

(* The pulses still to come, and with them the interference at s that will *)
(* not be over in h: what may spoil an assessment that ends then.          *)
Pulses(A, s) == {y \in A : IsPulse(y.ev, s)}
Threats(A, s, h) == {y \in A : IsPulse(y.ev, s) \/ (IsRemoval(y.ev, s) /\ h <= y.due)}

(* When the next assessment ends at the earliest.                          *)
Assessing == {"backoff", "requestCca", "endCca"}
CcaEnd(z) == IF z.ev.kind = "endCca" THEN z.due ELSE z.due + CcaTime

(* Interference lasts no longer than a pulse, or it is the acknowledgement *)
(* that s did not receive, and is over before the timer expires.           *)
Clear(A, s) == \A y \in A : IsRemoval(y.ev, s) => y.due <= PulseTime
Settled(A, s) ==
  \A y \in A : IsRemoval(y.ev, s) => y.due <= PulseTime \/ (NoToken(A, s) /\ Watched(A, s, y.due))

(* The assessments found occupied and the threats to the next one are no   *)
(* more than the pulses there have been.                                   *)
Spent(A, s, nb, p) ==
  \A z \in A : z.ev.node = s /\ z.ev.kind \in Assessing
    => nb + Cardinality(Threats(A, s, CcaEnd(z))) <= p

Noisy(A, s, aw, nb, p) ==
  /\ Settled(A, s) /\ Cardinality(Pulses(A, s)) <= p /\ Spent(A, s, nb, p)
  /\ \A z \in A : IsStep(z.ev, s) => z.ev.kind \notin {"startCsma", "csmaFailure"}
  /\ aw => ~ NoStep(A, s)

(* The inductive invariant of OneStepPending.                              *)
NoiseInv(s) == Noisy(agenda, s, awaiting_ack[s], NB[s], pulses)

---------------------------------------------------------------------------
LEMMA SetsAreFinite ==
  ASSUME NEW A, IsFiniteSet(A), NEW s, NEW h
  PROVE  /\ IsFiniteSet(Threats(A, s, h)) /\ Cardinality(Threats(A, s, h)) \in Nat
         /\ IsFiniteSet(Pulses(A, s)) /\ Cardinality(Pulses(A, s)) \in Nat
<1>1. Threats(A, s, h) \subseteq A /\ Pulses(A, s) \subseteq A
  BY DEF Threats, Pulses
<1> QED BY <1>1, PartIsFinite

LEMMA ImageBound ==
  ASSUME NEW S, IsFiniteSet(S), NEW f, NEW T, T \subseteq {f[y] : y \in S}
  PROVE  /\ IsFiniteSet(T) /\ Cardinality(T) <= Cardinality(S)
         /\ Cardinality(T) \in Nat /\ Cardinality(S) \in Nat
<1> DEFINE R == {f[y] : y \in S}
           g == [y \in S |-> f[y]]
<1>1. g \in Surjection(S, R)
  BY DEF Surjection
<1>2. IsFiniteSet(R) /\ Cardinality(R) <= Cardinality(S)
  BY <1>1, FS_Surjection
<1>3. Cardinality(S) \in Nat /\ Cardinality(R) \in Nat
  BY <1>2, FS_CardinalityType
<1> HIDE DEF R, g
<1>4. T \subseteq R
  BY DEF R
<1>5. IsFiniteSet(T) /\ Cardinality(T) \in Nat /\ Cardinality(T) <= Cardinality(R)
  BY <1>2, <1>4, PartIsFinite
<1> QED BY <1>2, <1>3, <1>5

(* Time passes.                                                            *)
LEMMA MovedFinite ==
  ASSUME NEW A, IsFiniteSet(A), NEW B, NEW t, Moved(A, B, t)
  PROVE  IsFiniteSet(B)
<1>1. PICK f : B = {f[y] : y \in A}
  BY DEF Moved
<1> QED BY <1>1, ImageBound

LEMMA ThreatsMoved ==
  ASSUME NEW A, IsFiniteSet(A), Dated(A), NEW B, NEW t \in Nat, Moved(A, B, t), NEW s, NEW h \in Int
  PROVE  /\ Cardinality(Threats(B, s, h)) <= Cardinality(Threats(A, s, h + t))
         /\ Cardinality(Pulses(B, s)) <= Cardinality(Pulses(A, s))
<1>1. PICK f : B = {f[y] : y \in A} /\ \A y \in A : f[y].ev = y.ev /\ f[y].due = y.due - t
  BY DEF Moved
<1>2. \A b \in B : \E y \in A : b = f[y] /\ b.ev = y.ev /\ b.due = y.due - t /\ y.due \in Nat
  BY <1>1 DEF Dated
<1>3. Threats(B, s, h) \subseteq {f[y] : y \in Threats(A, s, h + t)}
  <2> SUFFICES ASSUME NEW b \in Threats(B, s, h)
               PROVE  \E y \in Threats(A, s, h + t) : b = f[y]
    OBVIOUS
  <2>1. PICK y \in A : b = f[y] /\ b.ev = y.ev /\ b.due = y.due - t /\ y.due \in Nat
    BY <1>2 DEF Threats
  <2>2. h <= b.due => h + t <= y.due
    BY <2>1
  <2>3. y \in Threats(A, s, h + t)
    BY <2>1, <2>2 DEF Threats
  <2> QED BY <2>1, <2>3
<1>4. Pulses(B, s) \subseteq {f[y] : y \in Pulses(A, s)}
  BY <1>2 DEF Pulses
<1>5. IsFiniteSet(Threats(A, s, h + t)) /\ IsFiniteSet(Pulses(A, s))
  BY SetsAreFinite
<1> QED BY <1>3, <1>4, <1>5, ImageBound

(* Less time, more threats.                                                *)
LEMMA ThreatsMonotone ==
  ASSUME NEW A, IsFiniteSet(A), Dated(A), NEW s, NEW g \in Int, NEW h \in Int, g <= h
  PROVE  Cardinality(Threats(A, s, h)) <= Cardinality(Threats(A, s, g))
<1>1. Threats(A, s, h) \subseteq Threats(A, s, g)
  BY DEF Threats, Dated
<1> QED BY <1>1, SetsAreFinite, PartIsFinite

(* Beyond the length of a pulse only pulses to come threaten.              *)
LEMMA ClearThreats ==
  ASSUME NEW A, Dated(A), NEW s, Clear(A, s), NEW h \in Nat, PulseTime < h
  PROVE  Threats(A, s, h) = Pulses(A, s)
BY DEF Threats, Pulses, Clear, Dated

LEMMA NoisyMoved ==
  ASSUME NEW A, IsFiniteSet(A), Dated(A), NEW B, NEW t \in Nat, Moved(A, B, t), NEW s \in Node,
         NEW aw, NEW nb \in Nat, NEW p \in Int, Noisy(A, s, aw, nb, p)
  PROVE  Noisy(B, s, aw, nb, p) /\ (Clear(A, s) => Clear(B, s))
<1>1. PICK f : B = {f[y] : y \in A} /\ \A y \in A : f[y].ev = y.ev /\ f[y].due = y.due - t
  BY DEF Moved
<1>2. \A b \in B : \E y \in A : b.ev = y.ev /\ b.due = y.due - t /\ y.due \in Nat
  BY <1>1 DEF Dated
<1>3. Clear(A, s) => Clear(B, s)
  BY <1>2 DEF Clear
<1>4. Settled(B, s)
  <2> SUFFICES ASSUME NEW b \in B, IsRemoval(b.ev, s), ~ (b.due <= PulseTime)
               PROVE  NoToken(B, s) /\ Watched(B, s, b.due)
    BY DEF Settled
  <2>1. PICK y \in A : b.ev = y.ev /\ b.due = y.due - t /\ y.due \in Nat
    BY <1>2
  <2>2. ~ (y.due <= PulseTime)
    BY <2>1
  <2>3. NoToken(A, s) /\ Watched(A, s, y.due)
    BY <2>1, <2>2 DEF Noisy, Settled
  <2>4. Watched(B, s, y.due - t)
    BY <2>1, <2>3, WatchedMoved
  <2> QED BY <1>2, <2>1, <2>3, <2>4 DEF NoToken
<1>5. Cardinality(Pulses(B, s)) <= p
  <2>1. Cardinality(Pulses(B, s)) <= Cardinality(Pulses(A, s))
    BY ThreatsMoved
  <2>2. IsFiniteSet(B)
    BY MovedFinite
  <2>3. Cardinality(Pulses(B, s)) \in Nat /\ Cardinality(Pulses(A, s)) \in Nat
    BY <2>2, SetsAreFinite
  <2> QED BY <2>1, <2>3 DEF Noisy
<1>6. Spent(B, s, nb, p)
  <2> SUFFICES ASSUME NEW b \in B, b.ev.node = s, b.ev.kind \in Assessing
               PROVE  nb + Cardinality(Threats(B, s, CcaEnd(b))) <= p
    BY DEF Spent
  <2>1. PICK y \in A : b.ev = y.ev /\ b.due = y.due - t /\ y.due \in Nat
    BY <1>2
  <2>2. CcaEnd(b) \in Int /\ CcaEnd(b) + t = CcaEnd(y)
    BY <2>1 DEF CcaEnd
  <2>3. Cardinality(Threats(B, s, CcaEnd(b))) <= Cardinality(Threats(A, s, CcaEnd(y)))
    BY <2>2, ThreatsMoved
  <2>4. nb + Cardinality(Threats(A, s, CcaEnd(y))) <= p
    BY <2>1 DEF Noisy, Spent
  <2>5. IsFiniteSet(B)
    BY MovedFinite
  <2>6. Cardinality(Threats(B, s, CcaEnd(b))) \in Nat /\ Cardinality(Threats(A, s, CcaEnd(y))) \in Nat
    BY <2>5, SetsAreFinite
  <2> QED BY <2>3, <2>4, <2>6
<1>7. \A z \in B : IsStep(z.ev, s) => z.ev.kind \notin {"startCsma", "csmaFailure"}
  BY <1>2 DEF Noisy
<1>8. aw => ~ NoStep(B, s)
  BY <1>1 DEF Noisy, NoStep
<1> QED BY <1>3, <1>4, <1>5, <1>6, <1>7, <1>8 DEF Noisy

(* An event that is no step of s leaves the agenda; a pulse that arrives   *)
(* is one less to come.                                                    *)
LEMMA NoisyDrop ==
  ASSUME NEW A, IsFiniteSet(A), NEW s, NEW aw, NEW nb \in Nat, NEW p \in Int, Noisy(A, s, aw, nb, p),
         NEW x \in A, ~ IsStep(x.ev, s), NEW q \in Int, q = IF IsPulse(x.ev, s) THEN p - 1 ELSE p
  PROVE  /\ Noisy(A \ {x}, s, aw, nb, q)
         /\ IsToken(x.ev, s) => Clear(A \ {x}, s)
<1> DEFINE B == A \ {x}
<1>1. \A t : Watched(A, s, t) => Watched(B, s, t)
  BY DEF Watched, IsStep, StepKind
<1>2. Settled(B, s)
  BY <1>1 DEF Noisy, Settled, NoToken
<1>3. IsFiniteSet(B)
  BY FS_RemoveElement
<1>4. ASSUME NEW h
      PROVE  Cardinality(Threats(B, s, h)) <= IF IsPulse(x.ev, s) THEN Cardinality(Threats(A, s, h)) - 1
                                              ELSE Cardinality(Threats(A, s, h))
  <2>1. IsFiniteSet(Threats(A, s, h)) /\ Cardinality(Threats(A, s, h)) \in Nat
    BY SetsAreFinite
  <2>2. CASE IsPulse(x.ev, s)
    <3>1. x \in Threats(A, s, h) /\ Threats(B, s, h) = Threats(A, s, h) \ {x}
      BY <2>2 DEF Threats
    <3>2. Cardinality(Threats(A, s, h) \ {x}) = Cardinality(Threats(A, s, h)) - 1
      BY <2>1, <3>1, FS_RemoveElement
    <3>3. Cardinality(Threats(B, s, h)) = Cardinality(Threats(A, s, h)) - 1
      BY <3>1, <3>2
    <3> HIDE DEF B
    <3> QED BY <2>1, <2>2, <3>3
  <2>3. CASE ~ IsPulse(x.ev, s)
    <3>1. Threats(B, s, h) \subseteq Threats(A, s, h)
      BY DEF Threats
    <3> QED BY <2>1, <2>3, <3>1, PartIsFinite
  <2> QED BY <2>2, <2>3
<1>5. Cardinality(Pulses(B, s)) <= q
  <2>1. IsFiniteSet(Pulses(A, s)) /\ Cardinality(Pulses(A, s)) \in Nat /\ Cardinality(Pulses(A, s)) <= p
    BY SetsAreFinite DEF Noisy
  <2>2. CASE IsPulse(x.ev, s)
    <3>1. x \in Pulses(A, s) /\ Pulses(B, s) = Pulses(A, s) \ {x}
      BY <2>2 DEF Pulses
    <3>2. Cardinality(Pulses(A, s) \ {x}) = Cardinality(Pulses(A, s)) - 1
      BY <2>1, <3>1, FS_RemoveElement
    <3> QED BY <2>1, <2>2, <3>1, <3>2
  <2>3. CASE ~ IsPulse(x.ev, s)
    <3>1. Pulses(B, s) \subseteq Pulses(A, s)
      BY DEF Pulses
    <3>2. Cardinality(Pulses(B, s)) \in Nat /\ Cardinality(Pulses(B, s)) <= Cardinality(Pulses(A, s))
      BY <2>1, <3>1, PartIsFinite
    <3> QED BY <2>1, <2>3, <3>2
  <2> QED BY <2>2, <2>3
<1>6. Spent(B, s, nb, q)
  <2> SUFFICES ASSUME NEW z \in B, z.ev.node = s, z.ev.kind \in Assessing
               PROVE  nb + Cardinality(Threats(B, s, CcaEnd(z))) <= q
    BY DEF Spent
  <2>1. nb + Cardinality(Threats(A, s, CcaEnd(z))) <= p
    BY DEF Noisy, Spent
  <2>2. Cardinality(Threats(B, s, CcaEnd(z))) \in Nat /\ Cardinality(Threats(A, s, CcaEnd(z))) \in Nat
    BY <1>3, SetsAreFinite
  <2>3. Cardinality(Threats(B, s, CcaEnd(z))) <= IF IsPulse(x.ev, s) THEN Cardinality(Threats(A, s, CcaEnd(z))) - 1
                                                 ELSE Cardinality(Threats(A, s, CcaEnd(z)))
    BY <1>4
  <2> QED BY <2>1, <2>2, <2>3
<1>7. /\ \A z \in B : IsStep(z.ev, s) => z.ev.kind \notin {"startCsma", "csmaFailure"}
      /\ aw => ~ NoStep(B, s)
  BY DEF Noisy, NoStep
<1>8. IsToken(x.ev, s) => Clear(B, s)
  BY DEF Noisy, Settled, NoToken, Clear
<1> QED BY <1>2, <1>5, <1>6, <1>7, <1>8 DEF Noisy

(* Events are scheduled that neither are steps of s nor threaten it.       *)
LEMMA NoisyGrows ==
  ASSUME NEW A, NEW B, NEW s, NEW aw, NEW nb, NEW p, Noisy(A, s, aw, nb, p), A \subseteq B,
         \A y \in B \ A : ~ IsStep(y.ev, s) /\ ~ IsPulse(y.ev, s) /\ ~ IsRemoval(y.ev, s),
         Clear(A, s) \/ \A y \in B \ A : ~ IsToken(y.ev, s)
  PROVE  Noisy(B, s, aw, nb, p) /\ (Clear(A, s) => Clear(B, s))
<1>1. \A t : Watched(A, s, t) => Watched(B, s, t)
  BY DEF Watched
<1>2. Clear(A, s) => Clear(B, s)
  BY DEF Clear
<1>3. Settled(B, s)
  <2>1. CASE Clear(A, s)
    BY <1>2, <2>1 DEF Clear, Settled
  <2>2. CASE \A y \in B \ A : ~ IsToken(y.ev, s)
    <3>1. NoToken(A, s) => NoToken(B, s)
      BY <2>2 DEF NoToken
    <3> QED BY <1>1, <3>1 DEF Noisy, Settled
  <2> QED BY <2>1, <2>2
<1>4. Pulses(B, s) = Pulses(A, s) /\ \A h : Threats(B, s, h) = Threats(A, s, h)
  BY DEF Pulses, Threats
<1>5. \A z \in B : z.ev.node = s /\ z.ev.kind \in Assessing => z \in A
  BY DEF IsStep, Assessing, StepKind, Contention
<1>6. Spent(B, s, nb, p)
  BY <1>4, <1>5 DEF Noisy, Spent
<1>7. /\ \A z \in B : IsStep(z.ev, s) => z.ev.kind \notin {"startCsma", "csmaFailure"}
      /\ aw => ~ NoStep(B, s)
  BY DEF Noisy, NoStep
<1> QED BY <1>2, <1>3, <1>4, <1>6, <1>7 DEF Noisy

(* A pulse is scheduled, or begins to interfere.                           *)
LEMMA NoisyPulse ==
  ASSUME NEW A, IsFiniteSet(A), NEW s, NEW aw, NEW nb \in Nat, NEW p \in Int, Noisy(A, s, aw, nb, p),
         NEW d \in Nat, NEW ev, ~ IsStep(ev, s), ~ IsToken(ev, s), IsRemoval(ev, s) => d <= PulseTime
  PROVE  Noisy(Add(A, d, ev), s, aw, nb, p + 1)
<1>1. PICK e : Add(A, d, ev) = A \cup {e} /\ e.ev = ev /\ e.due = d
  BY AddView
<1> DEFINE B == A \cup {e}
<1>2. \A t : Watched(A, s, t) => Watched(B, s, t)
  BY DEF Watched
<1>3. NoToken(A, s) => NoToken(B, s)
  BY <1>1 DEF NoToken
<1>4. Settled(B, s)
  BY <1>1, <1>2, <1>3 DEF Noisy, Settled
<1>5. ASSUME NEW S, IsFiniteSet(S), NEW T, T \subseteq S \cup {e}
      PROVE  Cardinality(T) <= Cardinality(S) + 1 /\ Cardinality(T) \in Nat /\ Cardinality(S) \in Nat
  <2>1. IsFiniteSet(S \cup {e}) /\ Cardinality(S) \in Nat /\ Cardinality(S \cup {e}) <= Cardinality(S) + 1
    BY <1>5, FS_AddElement, FS_CardinalityType
  <2>2. Cardinality(T) \in Nat /\ Cardinality(T) <= Cardinality(S \cup {e})
    BY <1>5, <2>1, PartIsFinite
  <2>3. Cardinality(S \cup {e}) \in Nat
    BY <2>1, FS_CardinalityType
  <2> QED BY <2>1, <2>2, <2>3
<1>6. Cardinality(Pulses(B, s)) <= p + 1
  <2>1. Pulses(B, s) \subseteq Pulses(A, s) \cup {e} /\ IsFiniteSet(Pulses(A, s))
    BY SetsAreFinite DEF Pulses
  <2>2. /\ Cardinality(Pulses(B, s)) <= Cardinality(Pulses(A, s)) + 1
        /\ Cardinality(Pulses(B, s)) \in Nat /\ Cardinality(Pulses(A, s)) \in Nat
    BY <1>5, <2>1
  <2> QED BY <2>2 DEF Noisy
<1>7. Spent(B, s, nb, p + 1)
  <2> SUFFICES ASSUME NEW z \in B, z.ev.node = s, z.ev.kind \in Assessing
               PROVE  nb + Cardinality(Threats(B, s, CcaEnd(z))) <= p + 1
    BY DEF Spent
  <2>1. z \in A
    BY <1>1 DEF IsStep, Assessing, StepKind, Contention
  <2>2. nb + Cardinality(Threats(A, s, CcaEnd(z))) <= p
    BY <2>1 DEF Noisy, Spent
  <2>h. \A h : Threats(B, s, h) \subseteq Threats(A, s, h) \cup {e}
    BY DEF Threats
  <2>3. Threats(B, s, CcaEnd(z)) \subseteq Threats(A, s, CcaEnd(z)) \cup {e} /\ IsFiniteSet(Threats(A, s, CcaEnd(z)))
    BY <2>h, SetsAreFinite
  <2>4. /\ Cardinality(Threats(B, s, CcaEnd(z))) <= Cardinality(Threats(A, s, CcaEnd(z))) + 1
        /\ Cardinality(Threats(B, s, CcaEnd(z))) \in Nat /\ Cardinality(Threats(A, s, CcaEnd(z))) \in Nat
    BY <1>5, <2>3
  <2> QED BY <2>2, <2>4
<1>8. /\ \A z \in B : IsStep(z.ev, s) => z.ev.kind \notin {"startCsma", "csmaFailure"}
      /\ aw => ~ NoStep(B, s)
  BY <1>1 DEF Noisy, NoStep
<1> QED BY <1>1, <1>4, <1>6, <1>7, <1>8 DEF Noisy

(* An acknowledgement is, or becomes, interference at s while the timer    *)
(* that it was for is not over.                                            *)
LEMMA NoisyAck ==
  ASSUME NEW A, NEW s, NEW aw, NEW act, NEW nb, NEW p, Noisy(A, s, aw, nb, p), Chain(A, s, aw, act),
         NEW d, NEW ev, IsRemoval(ev, s), ev.frame = NoFrame, NoToken(A, s), Watched(A, s, d)
  PROVE  Noisy(Add(A, d, ev), s, aw, nb, p)
<1>1. PICK e : Add(A, d, ev) = A \cup {e} /\ e.ev = ev /\ e.due = d
  BY AddView
<1> DEFINE B == A \cup {e}
<1>2. \A t : Watched(A, s, t) => Watched(B, s, t)
  BY DEF Watched
<1>3. NoToken(B, s) /\ ~ IsStep(ev, s) /\ ~ IsPulse(ev, s)
  BY <1>1 DEF NoToken, IsToken, IsRemoval, IsStep, StepKind, Contention, Watch, IsPulse
<1>4. Settled(B, s)
  BY <1>1, <1>2, <1>3 DEF Noisy, Settled
<1>5. Pulses(B, s) = Pulses(A, s)
  BY <1>1, <1>3 DEF Pulses
<1>6. \A z \in B : ~ (z.ev.node = s /\ z.ev.kind \in Assessing)
  <2>1. PICK w \in A : w.ev.node = s /\ w.ev.kind \in Watch
    BY DEF Watched
  <2>2. IsStep(w.ev, s) /\ w.ev.kind \notin Assessing
    BY <2>1 DEF IsStep, StepKind, Watch, Assessing
  <2>3. \A z \in B : z.ev.node = s /\ z.ev.kind \in Assessing => IsStep(z.ev, s) /\ z \in A
    BY <1>1, <1>3 DEF IsStep, StepKind, Contention, Assessing
  <2> QED BY <2>2, <2>3 DEF Chain
<1>7. Spent(B, s, nb, p)
  BY <1>6 DEF Spent
<1>8. /\ \A z \in B : IsStep(z.ev, s) => z.ev.kind \notin {"startCsma", "csmaFailure"}
      /\ aw => ~ NoStep(B, s)
  BY <1>1, <1>3 DEF Noisy, NoStep
<1> QED BY <1>1, <1>4, <1>5, <1>7, <1>8 DEF Noisy

(* A step of s is scheduled, when there is none.                           *)
LEMMA NoisyStep ==
  ASSUME NEW A, NEW s, NEW p, Cardinality(Pulses(A, s)) <= p, NoStep(A, s),
         NEW d, NEW ev, IsStep(ev, s), ev.kind \notin {"startCsma", "csmaFailure"},
         Settled(Add(A, d, ev), s), NEW aw, NEW nb,
         NEW h, h = (IF ev.kind = "endCca" THEN d ELSE d + CcaTime),
         ev.kind \in Assessing => nb + Cardinality(Threats(A, s, h)) <= p
  PROVE  Noisy(Add(A, d, ev), s, aw, nb, p)
<1>1. PICK e : Add(A, d, ev) = A \cup {e} /\ e.ev = ev /\ e.due = d
  BY AddView
<1> DEFINE B == A \cup {e}
<1>2. ~ IsPulse(ev, s) /\ ~ IsRemoval(ev, s)
  BY DEF IsStep, StepKind, Contention, Watch, IsPulse, IsRemoval
<1>3. Pulses(B, s) = Pulses(A, s) /\ \A g : Threats(B, s, g) = Threats(A, s, g)
  BY <1>1, <1>2 DEF Pulses, Threats
<1>4. \A z \in B : z.ev.node = s /\ z.ev.kind \in Assessing => z = e
  BY DEF NoStep, IsStep, Assessing, StepKind, Contention
<1>5. CcaEnd(e) = h
  BY <1>1 DEF CcaEnd
<1>6. Spent(B, s, nb, p)
  BY <1>1, <1>3, <1>4, <1>5 DEF Spent
<1>7. /\ \A z \in B : IsStep(z.ev, s) => z.ev.kind \notin {"startCsma", "csmaFailure"}
      /\ ~ NoStep(B, s)
  BY <1>1 DEF NoStep
<1> QED BY <1>1, <1>3, <1>6, <1>7 DEF Noisy

LEMMA ClearSettled ==
  ASSUME NEW A, NEW s, Clear(A, s), NEW d, NEW ev, IsStep(ev, s)
  PROVE  Settled(Add(A, d, ev), s)
<1>1. PICK e : Add(A, d, ev) = A \cup {e} /\ e.ev = ev /\ e.due = d
  BY AddView
<1>2. ~ IsRemoval(ev, s)
  BY DEF IsStep, StepKind, Contention, Watch, IsRemoval
<1> QED BY <1>1, <1>2 DEF Clear, Settled

---------------------------------------------------------------------------
(* The invariants so far, the agenda finite.                               *)
LEMMA NoiseView ==
  ASSUME IInv, PhyInv, NEW s \in Node, TimeInv(s), NoiseInv(s)
  PROVE  /\ IsFiniteSet(agenda) /\ Dated(agenda) /\ NB[s] \in Nat /\ pulses \in Nat
         /\ OneWay(s) /\ Chain(agenda, s, awaiting_ack[s], csmaca_active[s])
         /\ Noisy(agenda, s, awaiting_ack[s], NB[s], pulses)
<1>1. IsFiniteSet(agenda)
  BY DEF PhyInv, Backed, Ranked
<1>2. Dated(agenda) /\ NB[s] \in Nat /\ pulses \in Nat
  BY DEF IInv, TypeOK, Dated
<1> QED BY <1>1, <1>2 DEF TimeInv, NoiseInv

(* An event that is no step of s runs.                                     *)
LEMMA NoisyOther ==
  ASSUME IInv, PhyInv, NEW s \in Node, TimeInv(s), NoiseInv(s),
         NEW x, IsHead(agenda, x), ~ IsStep(x.ev, s)
  PROVE  /\ Noisy(After(x), s, awaiting_ack[s], NB[s], IF IsPulse(x.ev, s) THEN pulses - 1 ELSE pulses)
         /\ IsToken(x.ev, s) => Clear(After(x), s)
         /\ IsFiniteSet(After(x))
<1> DEFINE aw == awaiting_ack[s]
           nb == NB[s]
<1>1. /\ IsFiniteSet(agenda) /\ Dated(agenda) /\ nb \in Nat /\ pulses \in Nat
      /\ Noisy(agenda, s, aw, nb, pulses)
  BY NoiseView
<1>2. x \in agenda /\ x.due \in Nat
  BY <1>1 DEF IsHead, Dated
<1>3. PICK q \in Int : q = IF IsPulse(x.ev, s) THEN pulses - 1 ELSE pulses
  BY <1>1
<1> HIDE DEF aw, nb
<1>4. /\ Noisy(agenda \ {x}, s, aw, nb, q)
      /\ IsToken(x.ev, s) => Clear(agenda \ {x}, s)
  BY <1>1, <1>2, <1>3, NoisyDrop
<1>5. IsFiniteSet(agenda \ {x}) /\ Dated(agenda \ {x}) /\ Moved(agenda \ {x}, After(x), x.due)
  BY <1>1, FS_RemoveElement, PopMoved DEF Dated, After
<1>6. Noisy(After(x), s, aw, nb, q) /\ (Clear(agenda \ {x}, s) => Clear(After(x), s))
  BY <1>1, <1>2, <1>4, <1>5, NoisyMoved
<1>7. IsFiniteSet(After(x))
  BY <1>5, MovedFinite
<1> QED BY <1>3, <1>4, <1>6, <1>7 DEF aw, nb

(* A step of s runs: if it is not the end of its transmission, no          *)
(* interference lasts longer than a pulse.                                 *)
LEMMA NoisyStepRuns ==
  ASSUME IInv, PhyInv, NEW s \in Node, TimeInv(s), NoiseInv(s),
         NEW x, IsHead(agenda, x), IsStep(x.ev, s)
  PROVE  /\ x.ev.kind # "txEnd" => Clear(After(x), s)
         /\ NoStep(After(x), s) /\ Cardinality(Pulses(After(x), s)) <= pulses
         /\ \A h \in Nat : Cardinality(Threats(After(x), s, h)) <= Cardinality(Threats(agenda, s, h + x.due))
         /\ IsFiniteSet(After(x))
<1>1. /\ IsFiniteSet(agenda) /\ Dated(agenda) /\ pulses \in Nat
      /\ Chain(agenda, s, awaiting_ack[s], csmaca_active[s])
      /\ Noisy(agenda, s, awaiting_ack[s], NB[s], pulses)
  BY NoiseView
<1>2. x \in agenda /\ x.due \in Nat /\ \A y \in agenda : y.due \in Nat /\ x.due <= y.due
  BY <1>1 DEF IsHead, Dated
<1>3. ASSUME x.ev.kind # "txEnd", NEW y \in agenda, IsRemoval(y.ev, s)
      PROVE  y.due <= PulseTime
  <2> SUFFICES ASSUME Watched(agenda, s, y.due) PROVE FALSE
    BY <1>1, <1>3 DEF Noisy, Settled
  <2>1. PICK z \in agenda : z.ev.node = s /\ z.ev.kind \in Watch /\ y.due < Deadline(z)
    BY DEF Watched
  <2>2. z = x
    BY <1>1, <1>2, <2>1 DEF Chain, IsStep, StepKind
  <2>3. y.due < x.due
    BY <1>3, <2>1, <2>2 DEF Deadline
  <2> QED BY <1>2, <2>3
<1>4. /\ IsFiniteSet(agenda \ {x}) /\ Dated(agenda \ {x}) /\ Moved(agenda \ {x}, After(x), x.due)
      /\ After(x) = Pop(agenda, x)
  BY <1>1, FS_RemoveElement, PopMoved DEF Dated, After
<1>5. \A b \in After(x) : \E y \in agenda : b.ev = y.ev /\ b.due = y.due - x.due
  BY <1>4 DEF Moved
<1>6. x.ev.kind # "txEnd" => Clear(After(x), s)
  BY <1>2, <1>3, <1>5 DEF Clear
<1>7. NoStep(After(x), s)
  BY <1>1, <1>4, StepRuns
<1>8. IsFiniteSet(After(x))
  BY <1>4, MovedFinite
<1>9. ASSUME NEW h \in Nat
      PROVE  /\ Cardinality(Threats(After(x), s, h)) <= Cardinality(Threats(agenda, s, h + x.due))
             /\ Cardinality(Pulses(After(x), s)) <= Cardinality(Pulses(agenda, s))
  <2>1. /\ Cardinality(Threats(After(x), s, h)) <= Cardinality(Threats(agenda \ {x}, s, h + x.due))
        /\ Cardinality(Pulses(After(x), s)) <= Cardinality(Pulses(agenda \ {x}, s))
    BY <1>2, <1>4, ThreatsMoved
  <2>2. \A g : Threats(agenda \ {x}, s, g) \subseteq Threats(agenda, s, g)
    BY DEF Threats
  <2>3. Pulses(agenda \ {x}, s) \subseteq Pulses(agenda, s)
    BY DEF Pulses
  <2>4. /\ Cardinality(Threats(agenda \ {x}, s, h + x.due)) <= Cardinality(Threats(agenda, s, h + x.due))
        /\ Cardinality(Pulses(agenda \ {x}, s)) <= Cardinality(Pulses(agenda, s))
    BY <1>1, <2>2, <2>3, SetsAreFinite, PartIsFinite
  <2>5. /\ Cardinality(Threats(After(x), s, h)) \in Nat /\ Cardinality(Pulses(After(x), s)) \in Nat
        /\ Cardinality(Threats(agenda \ {x}, s, h + x.due)) \in Nat /\ Cardinality(Pulses(agenda \ {x}, s)) \in Nat
        /\ Cardinality(Threats(agenda, s, h + x.due)) \in Nat /\ Cardinality(Pulses(agenda, s)) \in Nat
    BY <1>1, <1>4, <1>8, SetsAreFinite
  <2> QED BY <2>1, <2>4, <2>5
<1>10. Cardinality(Pulses(After(x), s)) <= pulses
  <2>1. Cardinality(Pulses(After(x), s)) <= Cardinality(Pulses(agenda, s)) /\ Cardinality(Pulses(agenda, s)) <= pulses
    BY <1>1, <1>9 DEF Noisy
  <2>2. Cardinality(Pulses(After(x), s)) \in Nat /\ Cardinality(Pulses(agenda, s)) \in Nat
    BY <1>1, <1>8, SetsAreFinite
  <2> QED BY <1>1, <2>1, <2>2
<1> QED BY <1>6, <1>7, <1>8, <1>9, <1>10

(* A step of CSMA/CA is followed by the next, due in d.                    *)
LEMMA NoisyNext ==
  ASSUME IInv, PhyInv, FewPulses, NEW s \in Node, TimeInv(s), NoiseInv(s),
         NEW x, IsHead(agenda, x), IsStep(x.ev, s), x.ev.kind # "txEnd",
         NEW d \in Nat, NEW kind \in {"backoff", "requestCca", "endCca", "csmaIdle"},
         agenda' = Add(After(x), d, Ev(kind, s)), pulses' = pulses,
         kind = "csmaIdle" \/ NB'[s] + Cardinality(Threats(After(x), s, CcaTime)) <= pulses,
         NB'[s] \in Nat, kind = "endCca" => d = CcaTime
  PROVE  NoiseInv(s)'
<1>1. /\ Clear(After(x), s) /\ NoStep(After(x), s) /\ Cardinality(Pulses(After(x), s)) <= pulses
      /\ IsFiniteSet(After(x))
  BY NoisyStepRuns
<1>2. IsStep(Ev(kind, s), s) /\ Ev(kind, s).kind = kind
  BY EvFacts DEF StepKind, Contention
<1>3. Settled(agenda', s)
  BY <1>1, <1>2, ClearSettled
<1>4. PICK h \in Nat : h = (IF kind = "endCca" THEN d ELSE d + CcaTime)
  OBVIOUS
<1>5. Dated(After(x)) /\ pulses \in Nat
  BY HeadView, NoiseView
<1>6. Cardinality(Threats(After(x), s, h)) <= Cardinality(Threats(After(x), s, CcaTime))
  <2>1. CcaTime <= h
    BY <1>4
  <2> QED BY <1>1, <1>5, <2>1, ThreatsMonotone
<1>7. kind \in Assessing => NB'[s] + Cardinality(Threats(After(x), s, h)) <= pulses
  <2>1. Cardinality(Threats(After(x), s, h)) \in Nat /\ Cardinality(Threats(After(x), s, CcaTime)) \in Nat
    BY <1>1, SetsAreFinite
  <2>2. "csmaIdle" \notin Assessing
    BY DEF Assessing
  <2> QED BY <1>5, <1>6, <2>1, <2>2
<1>8. kind \notin {"startCsma", "csmaFailure"}
  OBVIOUS
<1> QED BY <1>1, <1>2, <1>3, <1>4, <1>7, <1>8, NoisyStep DEF NoiseInv

---------------------------------------------------------------------------
(* While s contends its PHY is idle.                                       *)
LEMMA SenderIdle ==
  ASSUME IInv, PhyInv, NEW s \in Node, TimeInv(s), NEW x \in agenda, IsStep(x.ev, s), x.ev.kind \in Contention
  PROVE  state[s] = "IDLE"
<1>1. Chain(agenda, s, awaiting_ack[s], csmaca_active[s])
  BY DEF TimeInv
<1>2. x.ev.kind \notin Watch
  BY DEF Contention, Watch
<1>3. \A y \in agenda : ~ (y.ev.node = s /\ y.ev.kind \in Watch)
  BY <1>1, <1>2 DEF Chain, IsStep, StepKind
<1>4. \A y \in agenda : ~ (y.ev.kind \in {"txEnd"} /\ y.ev.node = s)
  BY <1>3 DEF Watch
<1>5. ASSUME NEW y \in agenda, y.ev.kind \in Reception, y.ev.node = s
      PROVE  FALSE
  <2>1. y.ev.frame # NoFrame
    BY <1>5 DEF IInv, TypeOK, Event
  <2>2. IsToken(y.ev, s)
    BY <1>5, <2>1 DEF IsToken
  <2> QED BY <1>1, <1>3, <2>2 DEF Chain, Watched
<1>6. Count(agenda, {"txEnd"}, s) = 0 /\ Count(agenda, Reception, s) = 0
  <2>1. {y \in agenda : y.ev.kind \in {"txEnd"} /\ y.ev.node = s} = {}
    BY <1>4
  <2>2. {y \in agenda : y.ev.kind \in Reception /\ y.ev.node = s} = {}
    BY <1>5
  <2> QED BY <2>1, <2>2, FS_EmptySet DEF Count
<1> QED BY <1>6 DEF PhyInv, Backed

(* Events that carry CSMA/CA on.                                           *)
LEMMA CsmaNoise ==
  ASSUME IInv, PhyInv, FewPulses, NEW s \in Node, TimeInv(s), NoiseInv(s), NEW x,
         RestartCsmaCa(x) \/ RandomBackoffDelay(x) \/ RequestCca(x) \/ CsmaCaFailure(x)
  PROVE  NoiseInv(s)'
<1>1. IsHead(agenda, x) /\ x.ev.kind \in {"startCsma", "backoff", "requestCca", "csmaFailure"}
  BY DEF RestartCsmaCa, RandomBackoffDelay, RequestCca, CsmaCaFailure, Due
<1>2. /\ OneWay(s) /\ Noisy(agenda, s, awaiting_ack[s], NB[s], pulses) /\ Dated(agenda)
      /\ IsFiniteSet(agenda) /\ NB[s] \in Nat /\ pulses \in Nat
  BY NoiseView
<1>3. x \in agenda /\ OneWayEvent(x.ev, s)
  BY <1>1, <1>2, HeadView
<1>4. IsStep(x.ev, s) /\ x.ev.node = s
  BY <1>1, <1>3, OnlyAtSender
<1>5. x.ev.kind \in {"backoff", "requestCca"} /\ x.ev.kind # "txEnd"
  BY <1>1, <1>2, <1>3, <1>4 DEF Noisy
<1>6. x.due \in Nat /\ CcaEnd(x) = x.due + CcaTime
  BY <1>2, <1>3, <1>5 DEF CcaEnd, Dated
<1>7. NB[s] + Cardinality(Threats(After(x), s, CcaTime)) <= pulses
  <2>1. NB[s] + Cardinality(Threats(agenda, s, CcaEnd(x))) <= pulses
    BY <1>2, <1>3, <1>4, <1>5 DEF Noisy, Spent, Assessing
  <2>2. Cardinality(Threats(After(x), s, CcaTime)) <= Cardinality(Threats(agenda, s, CcaTime + x.due)) /\ IsFiniteSet(After(x))
    BY <1>1, <1>4, NoisyStepRuns
  <2>3. CcaEnd(x) = CcaTime + x.due
    BY <1>6
  <2>4. Cardinality(Threats(After(x), s, CcaTime)) \in Nat /\ Cardinality(Threats(agenda, s, CcaTime + x.due)) \in Nat
    BY <1>2, <2>2, SetsAreFinite
  <2> QED BY <1>2, <2>1, <2>2, <2>3, <2>4
<1>8. CASE RandomBackoffDelay(x)
  <2>1. NB' = NB /\ pulses' = pulses
    BY <1>8 DEF RandomBackoffDelay, csma, bounds
  <2>2. PICK b \in Backoffs(BE[s]) : agenda' = Add(After(x), b * UnitBackoff, Ev("requestCca", s))
    BY <1>4, <1>8 DEF RandomBackoffDelay
  <2>3. BE[s] \in Nat
    BY DEF IInv, TypeOK
  <2>4. b \in Nat
    BY <2>3 DEF Backoffs
  <2>5. b * UnitBackoff \in Nat
    BY <2>4
  <2> QED BY <1>1, <1>2, <1>4, <1>5, <1>7, <2>1, <2>2, <2>5, NoisyNext
<1>9. CASE RequestCca(x)
  <2>1. NB' = NB /\ pulses' = pulses /\ agenda' = Add(After(x), CcaTime, Ev("endCca", s))
    BY <1>4, <1>9 DEF RequestCca, csma, bounds
  <2> QED BY <1>1, <1>2, <1>4, <1>5, <1>7, <2>1, NoisyNext
<1>10. ~ RestartCsmaCa(x) /\ ~ CsmaCaFailure(x)
  BY <1>5 DEF RestartCsmaCa, CsmaCaFailure, Due
<1> QED BY <1>8, <1>9, <1>10

(* The end of an assessment at s: if it finds the channel occupied, there  *)
(* is one threat less.                                                     *)
LEMMA SenderCcaNoise ==
  ASSUME IInv, PhyInv, FewPulses, NEW s \in Node, TimeInv(s), NoiseInv(s), NEW x, EndCca(x), x.ev.node = s
  PROVE  NoiseInv(s)'
<1>1. IsHead(agenda, x) /\ x.ev.kind = "endCca" /\ pulses' = pulses
  BY DEF EndCca, Due, bounds
<1>2. /\ OneWay(s) /\ Noisy(agenda, s, awaiting_ack[s], NB[s], pulses) /\ Dated(agenda)
      /\ Chain(agenda, s, awaiting_ack[s], csmaca_active[s])
      /\ IsFiniteSet(agenda) /\ NB[s] \in Nat /\ pulses \in Nat
  BY NoiseView
<1>3. x \in agenda /\ Dated(After(x))
  BY <1>1, <1>2, HeadView
<1>4. IsStep(x.ev, s) /\ x.ev.kind \in Contention /\ x.ev.kind # "txEnd" /\ x.ev.kind \in Assessing
  BY <1>1 DEF IsStep, StepKind, Contention, Assessing
<1>5. csmaca_active[s] /\ state[s] = "IDLE"
  BY <1>2, <1>3, <1>4, SenderIdle DEF Chain
<1>6. PICK status \in ClearChannelAssessment(s) : CcaConfirm(s, status, After(x))
  BY <1>5 DEF EndCca, NotifyCcaConfirm
<1>7. CASE NB' = NB /\ agenda' = Add(After(x), 0, Ev("csmaIdle", s))
  BY <1>1, <1>2, <1>4, <1>7, NoisyNext
<1>8. CASE /\ status = "OCCUPIED" /\ NB' = [NB EXCEPT ![s] = @ + 1]
           /\ agenda' = Add(After(x), 0, Ev(AfterBusy(NB[s] + 1), s))
  <2>1. noise[s] # 0
    BY <1>5, <1>6, <1>8 DEF ClearChannelAssessment
  <2>2. {y \in agenda : y.ev.kind \in {"removeNoise"} /\ y.ev.node = s} # {}
    BY <2>1, FS_EmptySet DEF PhyInv, Backed, Count
  <2>3. PICK r \in agenda : IsRemoval(r.ev, s)
    BY <2>2 DEF IsRemoval
  <2>4. CcaEnd(x) = x.due /\ x.due \in Nat /\ x.due <= r.due
    BY <1>1, <1>2, <1>3 DEF CcaEnd, IsHead, Dated
  <2> DEFINE T == Threats(agenda, s, x.due)
             P == Pulses(After(x), s)
  <2>5. r \in T /\ Pulses(agenda, s) \subseteq T \ {r}
    BY <2>3, <2>4 DEF Threats, Pulses, IsPulse, IsRemoval
  <2>6. IsFiniteSet(T) /\ Cardinality(T) \in Nat /\ NB[s] + Cardinality(T) <= pulses
    BY <1>1, <1>2, <1>3, <1>4, <2>4, SetsAreFinite DEF Noisy, Spent, IsStep
  <2>7. IsFiniteSet(T \ {r}) /\ Cardinality(T \ {r}) = Cardinality(T) - 1
    BY <2>5, <2>6, FS_RemoveElement
  <2>8. Cardinality(Pulses(agenda, s)) <= Cardinality(T \ {r}) /\ Cardinality(Pulses(agenda, s)) \in Nat
    BY <2>5, <2>7, PartIsFinite
  <2>9. /\ Clear(After(x), s) /\ IsFiniteSet(After(x))
        /\ Cardinality(P) <= Cardinality(Pulses(agenda, s)) /\ Cardinality(P) \in Nat
    <3>1. Clear(After(x), s) /\ IsFiniteSet(After(x))
      BY <1>1, <1>4, NoisyStepRuns
    <3>2. Dated(agenda \ {x}) /\ Moved(agenda \ {x}, After(x), x.due) /\ IsFiniteSet(agenda \ {x})
      BY <1>2, FS_RemoveElement, PopMoved DEF Dated, After
    <3>3. /\ Cardinality(Threats(After(x), s, 0)) <= Cardinality(Threats(agenda \ {x}, s, 0 + x.due))
          /\ Cardinality(P) <= Cardinality(Pulses(agenda \ {x}, s))
      BY <2>4, <3>2, ThreatsMoved
    <3>4. Pulses(agenda \ {x}, s) \subseteq Pulses(agenda, s)
      BY DEF Pulses
    <3>5. Cardinality(Pulses(agenda \ {x}, s)) <= Cardinality(Pulses(agenda, s))
      BY <1>2, <3>4, SetsAreFinite, PartIsFinite
    <3>6. Cardinality(P) \in Nat /\ Cardinality(Pulses(agenda \ {x}, s)) \in Nat
      BY <3>1, <3>2, SetsAreFinite
    <3> QED BY <2>8, <3>1, <3>3, <3>5, <3>6
  <2>10. Threats(After(x), s, CcaTime) = P
    BY <1>3, <2>9, ClearThreats DEF FewPulses
  <2> HIDE DEF T, P
  <2>11. NB[s] + 1 + Cardinality(P) <= pulses
    BY <1>2, <2>6, <2>7, <2>8, <2>9
  <2>12. NB'[s] = NB[s] + 1
    BY <1>8 DEF IInv, TypeOK
  <2>13. pulses <= MaxPulses
    BY DEF IInv, TypeOK
  <2>14. AfterBusy(NB[s] + 1) = "backoff"
    BY <1>2, <2>9, <2>11, <2>13 DEF AfterBusy, FewPulses
  <2>15. NB'[s] + Cardinality(Threats(After(x), s, CcaTime)) <= pulses /\ NB'[s] \in Nat
    BY <1>2, <2>10, <2>11, <2>12
  <2>16. agenda' = Add(After(x), 0, Ev("backoff", s))
    BY <1>8, <2>14
  <2> QED BY <1>1, <1>4, <2>15, <2>16, NoisyNext
<1> QED BY <1>6, <1>7, <1>8 DEF CcaConfirm

---------------------------------------------------------------------------
(* What was scheduled is no step of s and does not threaten it.            *)
Harmless(A, B, s) ==
  A \subseteq B /\ \A y \in B \ A : ~ IsStep(y.ev, s) /\ ~ IsPulse(y.ev, s) /\ ~ IsRemoval(y.ev, s)

(* The signal of a frame, sent to all.                                     *)
Signal(A, n, f) == AddForEach(A, [m \in Node \ {n} |-> RxEv("startRx", m, f)], Delay[n])

LEMMA SignalGrows ==
  ASSUME NEW n \in Node, NEW f, f # NoFrame, NEW A, NEW s
  PROVE  Harmless(A, Signal(A, n, f), s)
<1> DEFINE B == Signal(A, n, f)
           E == [m \in Node \ {n} |-> RxEv("startRx", m, f)]
<1>1. DOMAIN E = Node \ {n} /\ \A m \in Node \ {n} : E[m] = RxEv("startRx", m, f)
  OBVIOUS
<1>2. B = AddForEach(A, E, Delay[n])
  BY DEF Signal
<1> HIDE DEF E, B
<1>3. PICK g : /\ AddForEach(A, E, Delay[n]) = A \cup {g[m] : m \in DOMAIN E}
               /\ \A m \in DOMAIN E : g[m].ev = E[m] /\ g[m].due = Delay[n][m]
  BY AddForEachView
<1>4. \A y \in B \ A : \E m \in Node \ {n} : y.ev = RxEv("startRx", m, f)
  BY <1>1, <1>2, <1>3
<1>5. ASSUME NEW y \in B \ A
      PROVE  ~ IsStep(y.ev, s) /\ ~ IsPulse(y.ev, s) /\ ~ IsRemoval(y.ev, s)
  <2>1. PICK m \in Node \ {n} : y.ev = RxEv("startRx", m, f)
    BY <1>4
  <2>2. y.ev.kind = "startRx" /\ y.ev.frame = f
    BY <2>1 DEF RxEv
  <2> QED BY <2>2 DEF IsStep, StepKind, Contention, Watch, IsPulse, IsRemoval
<1> QED BY <1>2, <1>3, <1>5 DEF Harmless, B

(* The end of an assessment at another node: it transmits the              *)
(* acknowledgement, or forgets it.                                         *)
LEMMA OtherCcaNoise ==
  ASSUME IInv, PhyInv, FewPulses, NEW s \in Node, TimeInv(s), NoiseInv(s), NEW x, EndCca(x), x.ev.node # s
  PROVE  NoiseInv(s)'
<1>1. IsHead(agenda, x) /\ x.ev.kind = "endCca" /\ pulses' = pulses /\ UNCHANGED arq
  BY DEF EndCca, Due, bounds
<1>2. OneWay(s) /\ NB[s] \in Nat /\ pulses \in Nat
  BY NoiseView
<1>3. x.ev.node \in Node
  BY <1>1, <1>2, HeadView
<1>4. PICK n \in Node \ {s} : n = x.ev.node
  BY <1>3
<1>5. ~ IsStep(x.ev, s) /\ IsToken(x.ev, s) /\ ~ IsPulse(x.ev, s) /\ ~ csmaca_active[n]
  BY <1>1, <1>2, <1>4 DEF IsStep, IsToken, IsPulse, OneWay
<1>6. Noisy(After(x), s, awaiting_ack[s], NB[s], pulses) /\ Clear(After(x), s)
  BY <1>1, <1>5, NoisyOther
<1>7. PICK status : NotifyCcaConfirm(n, status, After(x))
  BY <1>4, <1>5 DEF EndCca, CcaConfirm
<1>8. NB' = NB /\ awaiting_ack' = awaiting_ack /\ (StartTx(n, After(x)) \/ agenda' = After(x))
  BY <1>1, <1>7 DEF NotifyCcaConfirm, csma, arq
<1>9. CASE agenda' = After(x)
  BY <1>1, <1>6, <1>8, <1>9 DEF NoiseInv
<1>10. CASE agenda' # After(x)
  <2>1. txPacket[n] # NoFrame /\ SendFrame(n, txPacket[n], "startRx", AirTime(txPacket[n]), After(x))
    BY <1>8, <1>10 DEF StartTx
  <2>2. PICK B : B = Signal(After(x), n, txPacket[n])
    OBVIOUS
  <2>3. agenda' = Add(B, AirTime(txPacket[n]), Ev("txEnd", n))
    BY <2>1, <2>2 DEF SendFrame, Signal
  <2>4. Harmless(After(x), B, s)
    BY <2>1, <2>2, SignalGrows
  <2>5. PICK e : agenda' = B \cup {e} /\ e.ev = Ev("txEnd", n)
    BY <2>3, AddView
  <2>6. ~ IsStep(e.ev, s) /\ ~ IsPulse(e.ev, s) /\ ~ IsRemoval(e.ev, s)
    <3>1. e.ev.kind = "txEnd" /\ e.ev.node # s
      BY <2>5 DEF Ev
    <3> QED BY <3>1 DEF IsStep, IsPulse, IsRemoval
  <2>7. Noisy(agenda', s, awaiting_ack[s], NB[s], pulses)
    BY <1>6, <2>4, <2>5, <2>6, NoisyGrows DEF Harmless
  <2> QED BY <1>1, <1>8, <2>7 DEF NoiseInv
<1> QED BY <1>9, <1>10

(* The channel is granted: s transmits, since its PHY is idle and it has a *)
(* frame.                                                                  *)
LEMMA CsmaCaIdleNoise ==
  ASSUME IInv, PhyInv, FewPulses, NEW s \in Node, TimeInv(s), NoiseInv(s), NEW x, CsmaCaIdle(x)
  PROVE  NoiseInv(s)'
<1>1. IsHead(agenda, x) /\ x.ev.kind = "csmaIdle" /\ pulses' = pulses /\ UNCHANGED <<NB, arq>>
  BY DEF CsmaCaIdle, Due, bounds
<1>2. /\ OneWay(s) /\ NB[s] \in Nat /\ pulses \in Nat
      /\ Chain(agenda, s, awaiting_ack[s], csmaca_active[s])
  BY NoiseView
<1>3. x \in agenda /\ OneWayEvent(x.ev, s)
  BY <1>1, <1>2, HeadView
<1>4. IsStep(x.ev, s) /\ x.ev.node = s /\ x.ev.kind \in Contention /\ x.ev.kind # "txEnd"
  BY <1>1, <1>3, OnlyAtSender DEF Contention
<1>5. state[s] = "IDLE" /\ awaiting_ack[s]
  BY <1>2, <1>3, <1>4, SenderIdle DEF Chain
<1>6. txPacket[s] # NoFrame
  BY <1>5 DEF IInv, OutcomeOnce, TypeOK
<1>7. PICK B : B = Signal(After(x), s, txPacket[s])
  OBVIOUS
<1>8. agenda' = Add(B, AirTime(txPacket[s]), Ev("txEnd", s))
  BY <1>4, <1>5, <1>6, <1>7 DEF CsmaCaIdle, StartTx, SendFrame, Signal
<1>9. /\ Clear(After(x), s) /\ NoStep(After(x), s) /\ Cardinality(Pulses(After(x), s)) <= pulses
  BY <1>1, <1>4, NoisyStepRuns
<1>10. Harmless(After(x), B, s)
  BY <1>6, <1>7, SignalGrows
<1>11. Clear(B, s) /\ NoStep(B, s) /\ Pulses(B, s) = Pulses(After(x), s)
  BY <1>9, <1>10 DEF Clear, NoStep, Pulses, Harmless
<1>12. /\ IsStep(Ev("txEnd", s), s) /\ Ev("txEnd", s).kind = "txEnd" /\ "txEnd" \notin Assessing
  BY EvFacts DEF StepKind, Watch, Assessing
<1>13. Settled(agenda', s)
  BY <1>8, <1>11, <1>12, ClearSettled
<1>14. PICK h : h = (IF Ev("txEnd", s).kind = "endCca" THEN AirTime(txPacket[s]) ELSE AirTime(txPacket[s]) + CcaTime)
  OBVIOUS
<1>15. Ev("txEnd", s).kind \notin {"startCsma", "csmaFailure"} /\ Ev("txEnd", s).kind \notin Assessing
  BY <1>12
<1>16. Cardinality(Pulses(B, s)) <= pulses
  BY <1>9, <1>11
<1>17. \A aw, nb : Noisy(agenda', s, aw, nb, pulses)
  BY <1>8, <1>11, <1>12, <1>13, <1>14, <1>15, <1>16, NoisyStep
<1> QED BY <1>1, <1>17 DEF NoiseInv

(* The timer expires: s gives the frame up, or contends anew.              *)
LEMMA TimeoutNoise ==
  ASSUME IInv, PhyInv, FewPulses, NEW s \in Node, TimeInv(s), NoiseInv(s), NEW x, AcknowledgementTimeout(x)
  PROVE  NoiseInv(s)'
<1>1. IsHead(agenda, x) /\ x.ev.kind \in {"timeout", "oldTimeout"} /\ pulses' = pulses
  BY DEF AcknowledgementTimeout, Due, bounds
<1>2. /\ OneWay(s) /\ NB[s] \in Nat /\ pulses \in Nat
      /\ Chain(agenda, s, awaiting_ack[s], csmaca_active[s])
  BY NoiseView
<1>3. x \in agenda /\ OneWayEvent(x.ev, s) /\ Dated(After(x))
  BY <1>1, <1>2, HeadView
<1>4. IsStep(x.ev, s) /\ x.ev.node = s /\ x.ev.kind # "txEnd"
  BY <1>1, <1>3, OnlyAtSender
<1>5. awaiting_ack[s] /\ awaiting_ack \in [Node -> BOOLEAN] /\ NB \in [Node -> Nat]
  BY <1>2, <1>3, <1>4 DEF Chain, IInv, TypeOK
<1>6. /\ Clear(After(x), s) /\ NoStep(After(x), s) /\ Cardinality(Pulses(After(x), s)) <= pulses
  BY <1>1, <1>4, NoisyStepRuns
<1>7. CASE TransmissionFailed(s, After(x))
  <2>1. agenda' = After(x) /\ awaiting_ack' = [awaiting_ack EXCEPT ![s] = FALSE]
    BY <1>7 DEF TransmissionFailed
  <2>2. ~ awaiting_ack'[s]
    BY <1>5, <2>1
  <2>3. Settled(agenda', s)
    BY <1>6, <2>1 DEF Clear, Settled
  <2>4. \A z \in agenda' : ~ (z.ev.node = s /\ z.ev.kind \in StepKind)
    BY <1>6, <2>1 DEF NoStep, IsStep
  <2>5. Assessing \subseteq StepKind
    BY DEF Assessing, StepKind, Contention
  <2>6. Spent(agenda', s, NB'[s], pulses)
    BY <2>4, <2>5 DEF Spent
  <2>7. Cardinality(Pulses(agenda', s)) <= pulses
    BY <1>6, <2>1
  <2> QED BY <1>1, <2>2, <2>3, <2>4, <2>6, <2>7 DEF NoiseInv, Noisy, IsStep
<1>8. CASE Replay(s, After(x))
  <2>1. agenda' = Add(After(x), 0, Ev("backoff", s)) /\ NB' = [NB EXCEPT ![s] = 0]
    BY <1>8 DEF Replay, StartCsmaCa
  <2>2. NB'[s] = 0
    BY <1>5, <2>1
  <2>3. Threats(After(x), s, CcaTime) = Pulses(After(x), s)
    BY <1>3, <1>6, ClearThreats DEF FewPulses
  <2>4. IsFiniteSet(After(x))
    BY <1>1, <1>4, NoisyStepRuns
  <2>5. Cardinality(Pulses(After(x), s)) \in Nat
    BY <2>4, SetsAreFinite
  <2>6. NB'[s] + Cardinality(Threats(After(x), s, CcaTime)) <= pulses /\ NB'[s] \in Nat
    BY <1>2, <1>6, <2>2, <2>3, <2>5
  <2> QED BY <1>1, <1>4, <2>1, <2>6, NoisyNext
<1> QED BY <1>4, <1>5, <1>7, <1>8 DEF AcknowledgementTimeout, IgnoreTimeout

(* The end of a transmission: the interference of a lost acknowledgement   *)
(* is over before the timer that is wound up expires.                      *)
LEMMA SenderSentNoise ==
  ASSUME IInv, PhyInv, FewPulses, NEW s \in Node, TimeInv(s), NoiseInv(s), NEW x, FrameSent(x), x.ev.node = s
  PROVE  NoiseInv(s)'
<1>1. IsHead(agenda, x) /\ x.ev.kind = "txEnd" /\ pulses' = pulses
  BY DEF FrameSent, Due, bounds
<1>2. /\ OneWay(s) /\ NB[s] \in Nat /\ pulses \in Nat /\ Dated(agenda)
      /\ Chain(agenda, s, awaiting_ack[s], csmaca_active[s])
      /\ Noisy(agenda, s, awaiting_ack[s], NB[s], pulses)
  BY NoiseView
<1>3. x \in agenda /\ x.due \in Nat
  BY <1>1, <1>2 DEF IsHead, Dated
<1>4. IsStep(x.ev, s)
  BY <1>1 DEF IsStep, StepKind, Watch
<1>5. awaiting_ack[s]
  BY <1>2, <1>3, <1>4 DEF Chain
<1>6. NoStep(After(x), s) /\ Cardinality(Pulses(After(x), s)) <= pulses
  BY <1>1, <1>4, NoisyStepRuns
<1>7. Timers(After(x), s) = {}
  BY <1>6 DEF Timers, NoStep, IsStep, StepKind, Watch
<1>8. Superseded(After(x), s) = After(x)
  BY <1>7 DEF Superseded
<1>9. agenda' = Add(After(x), AckTimeout, Ev("timeout", s))
  BY <1>5, <1>8 DEF FrameSent, MustWind
<1>10. PICK e : agenda' = After(x) \cup {e} /\ e.ev = Ev("timeout", s) /\ e.due = AckTimeout
  BY <1>9, AddView
<1>11. /\ Ev("timeout", s).kind = "timeout" /\ Ev("timeout", s).node = s /\ Ev("timeout", s).frame = NoFrame
       /\ IsStep(Ev("timeout", s), s) /\ ~ IsToken(Ev("timeout", s), s)
  BY EvFacts DEF StepKind, Watch
<1>12. \A b \in After(x) : \E y \in agenda : b.ev = y.ev /\ b.due = y.due - x.due
  BY PopMoved DEF Moved, After
<1>13. Settled(agenda', s)
  <2> SUFFICES ASSUME NEW b \in agenda', IsRemoval(b.ev, s), ~ (b.due <= PulseTime)
               PROVE  NoToken(agenda', s) /\ Watched(agenda', s, b.due)
    BY DEF Settled
  <2>1. b \in After(x)
    BY <1>10, <1>11 DEF IsRemoval
  <2>2. PICK y \in agenda : b.ev = y.ev /\ b.due = y.due - x.due
    BY <1>12, <2>1
  <2>3. y.due \in Nat
    BY <1>2 DEF Dated
  <2>4. ~ (y.due <= PulseTime)
    BY <1>3, <2>2, <2>3
  <2>5. NoToken(agenda, s) /\ Watched(agenda, s, y.due)
    BY <1>2, <2>2, <2>4 DEF Noisy, Settled
  <2>6. PICK z \in agenda : z.ev.node = s /\ z.ev.kind \in Watch /\ y.due < Deadline(z)
    BY <2>5 DEF Watched
  <2>7. z = x
    BY <1>2, <1>3, <1>4, <2>6 DEF Chain, IsStep, StepKind
  <2>8. y.due < x.due + AckTimeout
    BY <1>1, <2>6, <2>7 DEF Deadline
  <2>9. b.due < AckTimeout
    BY <1>3, <2>2, <2>3, <2>8
  <2>10. Deadline(e) = AckTimeout /\ e.ev.node = s /\ e.ev.kind \in Watch
    BY <1>10, <1>11 DEF Deadline, Watch
  <2>11. Watched(agenda', s, b.due)
    BY <1>10, <2>9, <2>10 DEF Watched
  <2>12. NoToken(agenda', s)
    BY <1>10, <1>11, <1>12, <2>5 DEF NoToken
  <2> QED BY <2>11, <2>12
<1>14. Ev("timeout", s).kind \notin {"startCsma", "csmaFailure"} /\ Ev("timeout", s).kind \notin Assessing
  BY <1>11 DEF Assessing
<1>15. PICK h : h = (IF Ev("timeout", s).kind = "endCca" THEN AckTimeout ELSE AckTimeout + CcaTime)
  OBVIOUS
<1>16. \A aw, nb : Noisy(agenda', s, aw, nb, pulses)
  BY <1>6, <1>9, <1>11, <1>13, <1>14, <1>15, NoisyStep
<1> QED BY <1>1, <1>16 DEF NoiseInv

---------------------------------------------------------------------------
(* An event that is neither a step of s nor a pulse runs and schedules     *)
(* one, if any, that does not threaten s.                                  *)
LEMMA RelayNoise ==
  ASSUME IInv, PhyInv, NEW s \in Node, TimeInv(s), NoiseInv(s),
         NEW x, IsHead(agenda, x), ~ IsStep(x.ev, s), ~ IsPulse(x.ev, s),
         NEW d, NEW ev, ~ IsStep(ev, s), ~ IsPulse(ev, s), ~ IsRemoval(ev, s),
         IsToken(ev, s) => IsToken(x.ev, s),
         agenda' = After(x) \/ agenda' = Add(After(x), d, ev),
         awaiting_ack'[s] = awaiting_ack[s], NB'[s] = NB[s], pulses' = pulses
  PROVE  NoiseInv(s)'
<1> DEFINE aw == awaiting_ack[s]
           nb == NB[s]
<1>1. Noisy(After(x), s, aw, nb, pulses) /\ (IsToken(x.ev, s) => Clear(After(x), s))
  BY NoisyOther
<1> HIDE DEF aw, nb
<1>2. Noisy(agenda', s, aw, nb, pulses)
  <2>1. CASE agenda' = After(x)
    BY <1>1, <2>1
  <2>2. CASE agenda' = Add(After(x), d, ev)
    <3>1. PICK e : agenda' = After(x) \cup {e} /\ e.ev = ev
      BY <2>2, AddView
    <3>2. /\ After(x) \subseteq agenda'
          /\ \A y \in agenda' \ After(x) : y.ev = ev
      BY <3>1
    <3> QED BY <1>1, <3>2, NoisyGrows
  <2> QED BY <2>1, <2>2
<1> QED BY <1>2 DEF NoiseInv, aw, nb

(* A signal becomes interference: elsewhere, or at s a pulse, or an        *)
(* acknowledgement that s does not receive.                                *)
LEMMA InterferenceNoise ==
  ASSUME IInv, PhyInv, NEW s \in Node, TimeInv(s), NoiseInv(s),
         NEW x, IsHead(agenda, x), ~ IsStep(x.ev, s),
         NEW d \in Nat, agenda' = Add(After(x), d, Ev("removeNoise", x.ev.node)),
         IsPulse(x.ev, s) => d = PulseTime,
         x.ev.node = s /\ ~ IsPulse(x.ev, s) => IsToken(x.ev, s) /\ d = Left(x.ev, s),
         awaiting_ack'[s] = awaiting_ack[s], NB'[s] = NB[s], pulses' = pulses
  PROVE  NoiseInv(s)'
<1>1. /\ OneWay(s) /\ NB[s] \in Nat /\ pulses \in Nat /\ Dated(agenda)
      /\ Chain(agenda, s, awaiting_ack[s], csmaca_active[s])
  BY NoiseView
<1>2. PICK n \in Node : n = x.ev.node
  BY <1>1, HeadView
<1>3. /\ ~ IsStep(Ev("removeNoise", n), s) /\ ~ IsToken(Ev("removeNoise", n), s)
      /\ Ev("removeNoise", n).kind = "removeNoise" /\ Ev("removeNoise", n).node = n
      /\ Ev("removeNoise", n).frame = NoFrame
  BY RemovalEvent, EvFacts
<1> DEFINE aw == awaiting_ack[s]
           nb == NB[s]
           act == csmaca_active[s]
<1>4. /\ Noisy(After(x), s, aw, nb, IF IsPulse(x.ev, s) THEN pulses - 1 ELSE pulses)
      /\ IsFiniteSet(After(x))
  BY NoisyOther
<1>5. CASE IsPulse(x.ev, s)
  <2>1. Noisy(After(x), s, aw, nb, pulses - 1) /\ pulses - 1 \in Int /\ nb \in Nat /\ d <= PulseTime
    BY <1>1, <1>4, <1>5
  <2>2. agenda' = Add(After(x), d, Ev("removeNoise", n))
    BY <1>2
  <2> HIDE DEF aw, nb
  <2>3. Noisy(agenda', s, aw, nb, (pulses - 1) + 1)
    BY <1>3, <1>4, <2>1, <2>2, NoisyPulse
  <2>4. (pulses - 1) + 1 = pulses
    BY <1>1
  <2> QED BY <2>3, <2>4 DEF NoiseInv, aw, nb
<1>6. CASE ~ IsPulse(x.ev, s) /\ n # s
  <2>1. ~ IsPulse(Ev("removeNoise", n), s) /\ ~ IsRemoval(Ev("removeNoise", n), s)
    BY <1>3, <1>6 DEF IsPulse, IsRemoval
  <2> QED BY <1>2, <1>3, <1>6, <2>1, RelayNoise
<1>7. CASE ~ IsPulse(x.ev, s) /\ n = s
  <2>1. IsToken(x.ev, s) /\ d = Left(x.ev, s)
    BY <1>2, <1>7
  <2>2. Chain(After(x), s, aw, act) /\ NoToken(After(x), s) /\ Watched(After(x), s, d)
    BY <1>1, <2>1, OtherRuns DEF After
  <2>3. Noisy(After(x), s, aw, nb, pulses)
    BY <1>4, <1>7
  <2>4. agenda' = Add(After(x), d, Ev("removeNoise", s)) /\ IsRemoval(Ev("removeNoise", s), s)
    BY <1>2, <1>3, <1>7 DEF IsRemoval
  <2>5. Ev("removeNoise", s).frame = NoFrame
    BY <1>3, <1>7
  <2> HIDE DEF aw, nb, act
  <2>6. Noisy(agenda', s, aw, nb, pulses)
    BY <2>2, <2>3, <2>4, <2>5, NoisyAck
  <2> QED BY <2>6 DEF NoiseInv, aw, nb
<1> QED BY <1>5, <1>6, <1>7

(* The steps of a reception before its end, and the end of interference.   *)
LEMMA ReceptionNoise ==
  ASSUME IInv, PhyInv, NEW s \in Node, TimeInv(s), NoiseInv(s), NEW x,
         StartRx(x) \/ PreambleDetectionSuccessful(x) \/ EndRxHeader(x) \/ RemoveNoiseSignal(x)
  PROVE  NoiseInv(s)'
<1>1. /\ IsHead(agenda, x) /\ x.ev.kind \in {"startRx", "preamble", "rxHeader", "removeNoise"}
      /\ UNCHANGED <<arq, csma, bounds>>
  BY DEF StartRx, PreambleDetectionSuccessful, EndRxHeader, RemoveNoiseSignal, Due
<1>2. awaiting_ack'[s] = awaiting_ack[s] /\ NB'[s] = NB[s] /\ pulses' = pulses
  BY <1>1 DEF arq, csma, bounds
<1>3. OneWay(s)
  BY DEF TimeInv
<1>4. x \in agenda /\ x.ev \in Event /\ x.ev.node \in Node
  BY <1>1, <1>3, HeadView
<1>5. ~ IsStep(x.ev, s)
  BY <1>1 DEF IsStep, StepKind, Contention, Watch
<1>6. {"startRx", "preamble", "rxHeader", "rxPayload"} \subseteq Heard /\ "preamble" \in Reception /\ "rxHeader" \in Reception
  BY DEF Heard, Reception
<1>7. ASSUME x.ev.frame # NoFrame, NEW d, NEW kind \in {"preamble", "rxHeader", "rxPayload"},
             agenda' = Add(After(x), d, RxEv(kind, x.ev.node, x.ev.frame)), x.ev.kind # "removeNoise"
      PROVE  NoiseInv(s)'
  <2>1. PICK ev : ev = RxEv(kind, x.ev.node, x.ev.frame)
    OBVIOUS
  <2>2. ev.kind = kind /\ ev.node = x.ev.node /\ ev.frame = x.ev.frame
    BY <2>1 DEF RxEv
  <2>3. ~ IsStep(ev, s) /\ ~ IsPulse(ev, s) /\ ~ IsRemoval(ev, s)
    BY <2>2 DEF IsStep, StepKind, Contention, Watch, IsPulse, IsRemoval
  <2>4. IsToken(ev, s) => IsToken(x.ev, s)
    BY <2>2 DEF IsToken
  <2>5. ~ IsPulse(x.ev, s)
    BY <1>7 DEF IsPulse
  <2>6. agenda' = Add(After(x), d, ev)
    BY <1>7, <2>1
  <2> QED BY <1>1, <1>2, <1>5, <2>3, <2>4, <2>5, <2>6, RelayNoise
<1>8. CASE StartRx(x)
  <2>1. x.ev.kind = "startRx"
    BY <1>8 DEF StartRx, Due
  <2>2. CASE /\ CanLock(x.ev.node, x.ev.frame)
             /\ agenda' = Add(After(x), PreambleTime, RxEv("preamble", x.ev.node, x.ev.frame))
    BY <1>7, <2>1, <2>2 DEF CanLock
  <2>3. CASE Interfere(x.ev.node, IF x.ev.frame = NoFrame THEN PulseTime ELSE AirTime(x.ev.frame), After(x))
    <3>1. PICK d \in Nat : d = IF x.ev.frame = NoFrame THEN PulseTime ELSE AirTime(x.ev.frame)
      BY TimesAreNat
    <3>2. agenda' = Add(After(x), d, Ev("removeNoise", x.ev.node))
      BY <2>3, <3>1 DEF Interfere
    <3>3. IsPulse(x.ev, s) => d = PulseTime
      BY <3>1 DEF IsPulse
    <3>4. x.ev.node = s /\ ~ IsPulse(x.ev, s) => IsToken(x.ev, s) /\ d = Left(x.ev, s)
      BY <2>1, <3>1 DEF IsPulse, IsToken, Left, OnAir
    <3> QED BY <1>1, <1>2, <1>5, <3>2, <3>3, <3>4, InterferenceNoise
  <2> QED BY <1>8, <2>2, <2>3 DEF StartRx
<1>9. CASE PreambleDetectionSuccessful(x)
  <2>1. x.ev.kind = "preamble" /\ x.ev.frame # NoFrame
    BY <1>4, <1>6, <1>9 DEF PreambleDetectionSuccessful, Due, Event
  <2>2. agenda' = Add(After(x), HeaderTime, RxEv("rxHeader", x.ev.node, x.ev.frame))
    BY <1>9 DEF PreambleDetectionSuccessful
  <2> QED BY <1>7, <2>1, <2>2
<1>10. CASE EndRxHeader(x)
  <2>1. x.ev.kind = "rxHeader" /\ x.ev.frame # NoFrame /\ PayloadTime(x.ev.frame) \in Nat
    BY <1>4, <1>6, <1>10, TimesAreNat DEF EndRxHeader, Due, Event
  <2>2. CASE agenda' = Add(After(x), PayloadTime(x.ev.frame), RxEv("rxPayload", x.ev.node, x.ev.frame))
    BY <1>7, <2>1, <2>2
  <2>3. CASE Interfere(x.ev.node, PayloadTime(x.ev.frame), After(x))
    <3>1. PICK d \in Nat : d = PayloadTime(x.ev.frame)
      BY <2>1
    <3>2. agenda' = Add(After(x), d, Ev("removeNoise", x.ev.node))
      BY <2>3, <3>1 DEF Interfere
    <3>3. ~ IsPulse(x.ev, s)
      BY <2>1 DEF IsPulse
    <3>4. x.ev.node = s => IsToken(x.ev, s) /\ d = Left(x.ev, s)
      BY <2>1, <3>1 DEF IsToken, Left, OnAir
    <3> QED BY <1>1, <1>2, <1>5, <3>2, <3>3, <3>4, InterferenceNoise
  <2> QED BY <1>10, <2>2, <2>3 DEF EndRxHeader
<1>11. CASE RemoveNoiseSignal(x)
  <2>1. x.ev.kind = "removeNoise" /\ agenda' = After(x)
    BY <1>11 DEF RemoveNoiseSignal, Due
  <2>2. ~ IsPulse(x.ev, s)
    BY <2>1 DEF IsPulse
  <2>3. Noisy(After(x), s, awaiting_ack[s], NB[s], pulses)
    BY <1>1, <1>5, <2>2, NoisyOther
  <2> QED BY <1>2, <2>1, <2>3 DEF NoiseInv
<1> QED BY <1>8, <1>9, <1>10, <1>11

(* The end of a transmission at another node.                              *)
LEMMA OtherSentNoise ==
  ASSUME IInv, PhyInv, NEW s \in Node, TimeInv(s), NoiseInv(s), NEW x, FrameSent(x), x.ev.node # s
  PROVE  NoiseInv(s)'
<1>1. /\ IsHead(agenda, x) /\ x.ev.kind = "txEnd" /\ UNCHANGED <<csma, arq, bounds>>
  BY DEF FrameSent, Due
<1>2. awaiting_ack'[s] = awaiting_ack[s] /\ NB'[s] = NB[s] /\ pulses' = pulses
  BY <1>1 DEF arq, csma, bounds
<1>3. OneWay(s)
  BY DEF TimeInv
<1>4. x.ev.node \in Node
  BY <1>1, <1>3, HeadView
<1>5. ~ IsStep(x.ev, s) /\ ~ IsPulse(x.ev, s) /\ ~ awaiting_ack[x.ev.node]
  BY <1>3, <1>4 DEF IsStep, IsPulse, OneWay
<1>6. agenda' = After(x)
  BY <1>5 DEF FrameSent, MustWind
<1>7. Noisy(After(x), s, awaiting_ack[s], NB[s], pulses)
  BY <1>1, <1>5, NoisyOther
<1> QED BY <1>2, <1>6, <1>7 DEF NoiseInv

(* Nothing of s is pending, and no interference longer than a pulse.       *)
LEMMA NoisyQuiet ==
  ASSUME NEW A, NEW s, NoStep(A, s), Clear(A, s), NEW p, Cardinality(Pulses(A, s)) <= p,
         NEW aw, ~ aw, NEW nb
  PROVE  Noisy(A, s, aw, nb, p)
<1>1. Settled(A, s)
  BY DEF Clear, Settled
<1>2. \A z \in A : ~ (z.ev.node = s /\ z.ev.kind \in Assessing)
  BY DEF NoStep, IsStep, StepKind, Contention, Assessing
<1>3. Spent(A, s, nb, p)
  BY <1>2 DEF Spent
<1> QED BY <1>1, <1>3 DEF Noisy, NoStep

(* The end of a reception.  That nothing of s is left after the            *)
(* acknowledgement it awaited is known from TimeInv.                       *)
LEMMA EndRxPayloadNoise ==
  ASSUME IInv, PhyInv, NEW s, OneSender(s), TimeInv(s), NoiseInv(s), NEW x, EndRxPayload(x), TimeInv(s)'
  PROVE  NoiseInv(s)'
<1> DEFINE f == x.ev.frame
<1>0. s \in Node /\ Sources = {s}
  BY DEF OneSender
<1>1. IsHead(agenda, x) /\ x.ev.kind = "rxPayload"
  BY DEF EndRxPayload, Due
<1>2. OneWay(s)
  BY DEF TimeInv
<1>3. x \in agenda /\ x.ev \in Event /\ x.ev.node \in Node
  BY <1>0, <1>1, <1>2, HeadView
<1>4. KnownFrame(f, accepted, delivered) /\ f # NoFrame
  BY <1>1, <1>3, HeadFacts DEF Event, Reception
<1>5. ~ IsStep(x.ev, s) /\ ~ IsPulse(x.ev, s)
  BY <1>1 DEF IsStep, StepKind, Contention, Watch, IsPulse
<1>6. awaiting_ack \in [Node -> BOOLEAN]
  BY DEF IInv, TypeOK
<1>7. /\ Noisy(After(x), s, awaiting_ack[s], NB[s], pulses)
      /\ IsToken(x.ev, s) => Clear(After(x), s)
      /\ IsFiniteSet(After(x))
  BY <1>0, <1>1, <1>5, NoisyOther
<1>8. CASE ReceiveData(x.ev.node, f, After(x))
  <2>1. f.type = "DATA" /\ f.dst = x.ev.node /\ f \in accepted
    BY <1>4, <1>8 DEF ReceiveData, KnownFrame
  <2>2. x.ev.node # s
    BY <1>2, <2>1 DEF OneWay
  <2>3. x.ev.node \notin Sources
    BY <1>0, <2>2
  <2>4. /\ agenda' = Add(After(x), CcaTime, Ev("endCca", x.ev.node))
        /\ awaiting_ack' = [awaiting_ack EXCEPT ![x.ev.node] = FALSE]
        /\ NB' = NB /\ pulses' = pulses
    BY <1>8, <2>3 DEF ReceiveData, DoSendFrom, csma, bounds
  <2>5. PICK n \in Node \ {s} : n = x.ev.node
    BY <1>3, <2>2
  <2>6. Ev("endCca", n).kind = "endCca" /\ Ev("endCca", n).node = n
    BY DEF Ev
  <2>7. ~ IsStep(Ev("endCca", n), s) /\ ~ IsPulse(Ev("endCca", n), s) /\ ~ IsRemoval(Ev("endCca", n), s)
    BY <2>6 DEF IsStep, IsPulse, IsRemoval
  <2>8. IsToken(x.ev, s)
    BY <1>4, <2>1, <2>2 DEF IsToken
  <2>9. awaiting_ack'[s] = awaiting_ack[s] /\ NB'[s] = NB[s]
    BY <1>0, <1>6, <2>2, <2>4
  <2>10. agenda' = Add(After(x), CcaTime, Ev("endCca", n))
    BY <2>4, <2>5
  <2> QED BY <1>0, <1>1, <1>5, <2>4, <2>7, <2>8, <2>9, <2>10, RelayNoise
<1>9. CASE agenda' = After(x) /\ UNCHANGED <<arq, csma, bounds>>
  <2>1. awaiting_ack' = awaiting_ack /\ NB' = NB /\ pulses' = pulses
    BY <1>9 DEF arq, csma, bounds
  <2> QED BY <1>7, <1>9, <2>1 DEF NoiseInv
<1>10. CASE ReceiveAck(x.ev.node, f, After(x)) /\ AckMatches(x.ev.node, f)
  <2>1. x.ev.node = s
    BY <1>2, <1>3, <1>10 DEF AckMatches, OneWay
  <2>2. /\ agenda' = CancelTimer(After(x), s) /\ awaiting_ack' = [awaiting_ack EXCEPT ![s] = FALSE]
        /\ pulses' = pulses
    BY <1>10, <2>1 DEF ReceiveAck, bounds
  <2>3. Clear(After(x), s)
    BY <1>4, <1>7, <2>1 DEF IsToken
  <2>4. ~ awaiting_ack'[s]
    BY <1>0, <1>6, <2>2
  <2>5. Chain(agenda', s, awaiting_ack'[s], csmaca_active'[s])
    BY DEF TimeInv
  <2>6. NoStep(agenda', s)
    BY <2>4, <2>5, NoStepNoToken
  <2>7. PICK g : /\ agenda' = {g[y] : y \in After(x) \ Timers(After(x), s)}
                 /\ \A y \in After(x) \ Timers(After(x), s) : g[y].ev = y.ev /\ g[y].due = y.due
    BY <2>2, WithoutMoved DEF CancelTimer
  <2>8. \A b \in agenda' : \E y \in After(x) : b = g[y] /\ b.ev = y.ev /\ b.due = y.due
    BY <2>7
  <2>9. Clear(agenda', s)
    BY <2>3, <2>8 DEF Clear
  <2>10. Pulses(agenda', s) \subseteq {g[y] : y \in Pulses(After(x), s)}
    BY <2>8 DEF Pulses
  <2>11. Cardinality(Pulses(agenda', s)) <= pulses
    <3>1. IsFiniteSet(Pulses(After(x), s))
      BY <1>7, SetsAreFinite
    <3>2. /\ Cardinality(Pulses(agenda', s)) <= Cardinality(Pulses(After(x), s))
          /\ Cardinality(Pulses(agenda', s)) \in Nat /\ Cardinality(Pulses(After(x), s)) \in Nat
      BY <2>10, <3>1, ImageBound
    <3>3. Cardinality(Pulses(After(x), s)) <= pulses /\ pulses \in Nat
      BY <1>0, <1>7, NoiseView DEF Noisy
    <3> QED BY <3>2, <3>3
  <2>12. \A nb : Noisy(agenda', s, awaiting_ack'[s], nb, pulses)
    BY <2>4, <2>6, <2>9, <2>11, NoisyQuiet
  <2> QED BY <2>2, <2>12 DEF NoiseInv
<1>11. CASE ReceiveAck(x.ev.node, f, After(x)) /\ ~ AckMatches(x.ev.node, f)
  BY <1>9, <1>11 DEF ReceiveAck, arq
<1>12. CASE Discard(x.ev.node, f, After(x))
  BY <1>9, <1>12 DEF Discard
<1>13. CASE agenda' = After(x) /\ UNCHANGED <<csma, arq, history, bounds>>
  BY <1>9, <1>13
<1> QED BY <1>8, <1>10, <1>11, <1>12, <1>13 DEF EndRxPayload, DoProcess

---------------------------------------------------------------------------
(* The application of s sends: no assessment was found occupied yet.       *)
LEMMA SendNoise ==
  ASSUME IInv, PhyInv, FewPulses, NEW s, OneSender(s), TimeInv(s), NoiseInv(s),
         NEW n \in Sources, NEW d \in Node, NEW t \in Nat, Send(n, d, t)
  PROVE  NoiseInv(s)'
<1> DEFINE A == Elapse(agenda, t)
<1>1. n = s /\ s \in Node
  BY DEF OneSender
<1>2. /\ IsFiniteSet(agenda) /\ Dated(agenda) /\ NB[s] \in Nat /\ pulses \in Nat
      /\ Chain(agenda, s, awaiting_ack[s], csmaca_active[s])
      /\ Noisy(agenda, s, awaiting_ack[s], NB[s], pulses)
  BY <1>1, NoiseView
<1>3. /\ ~ awaiting_ack[s] /\ agenda' = Add(A, 0, Ev("backoff", s))
      /\ NB' = [NB EXCEPT ![s] = 0] /\ pulses' = pulses
  BY <1>1 DEF Send, DoSendFrom, StartCsmaCa
<1>4. NoStep(agenda, s)
  BY <1>2, <1>3, NoStepNoToken
<1>5. Clear(agenda, s)
  <2>1. \A r : ~ Watched(agenda, s, r)
    BY <1>4 DEF NoStep, Watched, IsStep, StepKind
  <2> QED BY <1>2, <2>1 DEF Noisy, Settled, Clear
<1>6. Moved(agenda, A, t)
  BY ElapseMoved
<1> HIDE DEF A
<1>7. IsFiniteSet(A) /\ Clear(A, s)
  BY <1>1, <1>2, <1>5, <1>6, MovedFinite, NoisyMoved
<1>8. NoStep(A, s)
  BY <1>4, <1>6 DEF NoStep, Moved
<1>9. /\ Cardinality(Threats(A, s, CcaTime)) <= Cardinality(Threats(agenda, s, CcaTime + t))
      /\ Cardinality(Pulses(A, s)) <= Cardinality(Pulses(agenda, s))
  <2>1. PICK h \in Int : h = CcaTime
    OBVIOUS
  <2>2. /\ Cardinality(Threats(A, s, h)) <= Cardinality(Threats(agenda, s, h + t))
        /\ Cardinality(Pulses(A, s)) <= Cardinality(Pulses(agenda, s))
    BY <1>2, <1>6, ThreatsMoved
  <2> QED BY <2>1, <2>2
<1>10. Threats(agenda, s, CcaTime + t) = Pulses(agenda, s)
  <2>1. CcaTime + t \in Nat /\ PulseTime < CcaTime + t
    BY DEF FewPulses
  <2> QED BY <1>2, <1>5, <2>1, ClearThreats
<1>11. /\ Cardinality(Pulses(agenda, s)) <= pulses /\ Cardinality(Pulses(agenda, s)) \in Nat
       /\ Cardinality(Pulses(A, s)) \in Nat /\ Cardinality(Threats(A, s, CcaTime)) \in Nat
  BY <1>2, <1>7, SetsAreFinite DEF Noisy
<1>12. NB'[s] = 0
  BY <1>1, <1>3 DEF IInv, TypeOK
<1>13. Cardinality(Pulses(A, s)) <= pulses
  BY <1>2, <1>9, <1>11
<1>14. NB'[s] + Cardinality(Threats(A, s, CcaTime)) <= pulses
  BY <1>2, <1>9, <1>10, <1>11, <1>12
<1>15. IsStep(Ev("backoff", s), s) /\ Ev("backoff", s).kind = "backoff"
  BY EvFacts DEF StepKind, Contention
<1>16. Settled(agenda', s)
  BY <1>3, <1>7, <1>15, ClearSettled
<1>17. CcaTime = (IF Ev("backoff", s).kind = "endCca" THEN 0 ELSE 0 + CcaTime)
  BY <1>15
<1>18. Ev("backoff", s).kind \notin {"startCsma", "csmaFailure"}
  BY <1>15
<1>19. \A aw : Noisy(agenda', s, aw, NB'[s], pulses)
  BY <1>3, <1>8, <1>13, <1>14, <1>15, <1>16, <1>17, <1>18, NoisyStep
<1> QED BY <1>3, <1>19 DEF NoiseInv

(* A noise source starts a pulse.                                          *)
LEMMA PulseNoise ==
  ASSUME IInv, PhyInv, NEW s \in Node, TimeInv(s), NoiseInv(s), NEW n \in Node, NEW t \in Nat, PulseStart(n, t)
  PROVE  NoiseInv(s)'
<1> DEFINE A == Elapse(agenda, t)
           aw == awaiting_ack[s]
           nb == NB[s]
<1>1. /\ IsFiniteSet(agenda) /\ Dated(agenda) /\ nb \in Nat /\ pulses \in Nat
      /\ Noisy(agenda, s, aw, nb, pulses)
  BY NoiseView
<1>2. agenda' = Add(A, 0, Ev("startRx", n)) /\ UNCHANGED <<csma, arq>> /\ pulses' = pulses + 1
  BY DEF PulseStart
<1>3. awaiting_ack' = awaiting_ack /\ NB' = NB
  BY <1>2 DEF arq, csma
<1>4. Moved(agenda, A, t)
  BY ElapseMoved
<1> HIDE DEF A, aw, nb
<1>5. IsFiniteSet(A) /\ Noisy(A, s, aw, nb, pulses)
  BY <1>1, <1>4, MovedFinite, NoisyMoved
<1>6. /\ Ev("startRx", n).kind = "startRx" /\ Ev("startRx", n).frame = NoFrame
      /\ "startRx" \notin StepKind
  BY EvFacts DEF StepKind, Contention, Watch
<1>7. ~ IsStep(Ev("startRx", n), s) /\ ~ IsToken(Ev("startRx", n), s) /\ ~ IsRemoval(Ev("startRx", n), s)
  BY <1>6 DEF IsStep, IsToken, IsRemoval
<1>8. Noisy(agenda', s, aw, nb, pulses + 1)
  BY <1>1, <1>2, <1>5, <1>7, NoisyPulse
<1> QED BY <1>2, <1>3, <1>8 DEF NoiseInv, aw, nb

LEMMA NoiseInit ==
  ASSUME NEW s \in Node, Init
  PROVE  NoiseInv(s)
<1>1. NoStep({}, s) /\ Clear({}, s) /\ Pulses({}, s) = {}
  BY DEF NoStep, Clear, Pulses
<1>2. agenda = {} /\ ~ awaiting_ack[s] /\ pulses = 0
  BY DEF Init
<1>3. Cardinality(Pulses({}, s)) <= pulses
  BY <1>1, <1>2, FS_EmptySet
<1>4. \A nb : Noisy({}, s, awaiting_ack[s], nb, pulses)
  BY <1>1, <1>2, <1>3, NoisyQuiet
<1> QED BY <1>2, <1>4 DEF NoiseInv

LEMMA NoiseStep ==
  ASSUME NEW s, OneSender(s), FewPulses, IInv, PhyInv, TimeInv(s), TimeInv(s)', NoiseInv(s), [Next]_vars
  PROVE  NoiseInv(s)'
<1>0. s \in Node
  BY DEF OneSender
<1>1. CASE ProcessOneEvent
  <2>1. PICK x \in agenda : Process(x)
    BY <1>1 DEF ProcessOneEvent
  <2>2. CASE RestartCsmaCa(x) \/ RandomBackoffDelay(x) \/ RequestCca(x) \/ CsmaCaFailure(x)
    BY <1>0, <2>2, CsmaNoise
  <2>3. CASE EndCca(x)
    BY <1>0, <2>3, SenderCcaNoise, OtherCcaNoise
  <2>4. CASE CsmaCaIdle(x) \/ AcknowledgementTimeout(x)
    BY <1>0, <2>4, CsmaCaIdleNoise, TimeoutNoise
  <2>5. CASE FrameSent(x)
    BY <1>0, <2>5, SenderSentNoise, OtherSentNoise
  <2>6. CASE StartRx(x) \/ PreambleDetectionSuccessful(x) \/ EndRxHeader(x) \/ RemoveNoiseSignal(x)
    BY <1>0, <2>6, ReceptionNoise
  <2>7. CASE EndRxPayload(x)
    BY <2>7, EndRxPayloadNoise
  <2> QED BY <2>1, <2>2, <2>3, <2>4, <2>5, <2>6, <2>7 DEF Process
<1>2. CASE Environment
  <2>1. PICK t \in Nat : \/ \E n \in Sources, d \in Node : d # n /\ Send(n, d, t)
                        \/ \E n \in Node : PulseStart(n, t)
    BY <1>2, EnvironmentView
  <2> QED BY <1>0, <2>1, SendNoise, PulseNoise
<1>3. CASE UNCHANGED vars
  <2>1. agenda' = agenda /\ awaiting_ack' = awaiting_ack /\ NB' = NB /\ pulses' = pulses
    BY <1>3 DEF vars, csma, arq, bounds
  <2> QED BY <2>1 DEF NoiseInv
<1> QED BY <1>1, <1>2, <1>3 DEF Next

LEMMA NoiseInductive ==
  ASSUME NEW s, OneSender(s), Patient(s), FewPulses
  PROVE  Spec => []NoiseInv(s)
<1>1. Init => NoiseInv(s)
  BY NoiseInit DEF OneSender
<1>2. IInv /\ PhyInv /\ TimeInv(s) /\ TimeInv(s)' /\ NoiseInv(s) /\ [Next]_vars => NoiseInv(s)'
  BY NoiseStep
<1> QED BY <1>1, <1>2, Inductive, PhyInductive, TimeInductive, PTL DEF Spec

(* While the sender waits, exactly one event carries its frame on, from    *)
(* DoSendFrom to the callback that reports the outcome: it never runs two  *)
(* CSMA/CA procedures over one set of variables, and never waits with      *)
(* nothing that would wake it, for any number of listeners, any loss and   *)
(* any retransmissions.  One node sends and its timer outlasts the answer  *)
(* (OneSender, Patient); there are no more noise pulses than CSMA/CA may   *)
(* find the channel occupied, each shorter than a CCA (FewPulses): after   *)
(* one more, NotifyCsmaCaConfirm may drop the frame without a word.        *)
THEOREM OneStepPendingCorrect ==
  ASSUME NEW s, OneSender(s), Patient(s), FewPulses
  PROVE  Spec => []OneStepPending
<1> DEFINE K == {"startCsma", "backoff", "requestCca", "endCca", "csmaIdle",
                 "csmaFailure", "txEnd", "timeout", "oldTimeout"}
<1>1. IInv /\ TimeInv(s) /\ NoiseInv(s) => OneStepPending
  <2> SUFFICES ASSUME IInv, TimeInv(s), NoiseInv(s), NEW n \in Sources, awaiting_ack[n]
               PROVE  Cardinality(Pending(K, n)) = 1
    BY DEF OneStepPending
  <2>1. n = s
    BY DEF OneSender
  <2>2. PICK z \in agenda : IsStep(z.ev, s)
    BY <2>1 DEF NoiseInv, Noisy, NoStep
  <2>3. StepKind \cup {"oldTimeout"} = K
    BY DEF StepKind, Contention, Watch
  <2>4. \A y \in agenda : y.ev.node = s /\ y.ev.kind \in K => IsStep(y.ev, s)
    <3>1. \A y \in agenda : y.ev.kind = "oldTimeout" => FALSE
      BY OnlyAtSender DEF TimeInv, OneWay, OneWayEvents
    <3> HIDE DEF K
    <3> QED BY <2>3, <3>1 DEF IsStep
  <2>5. \A y \in agenda : IsStep(y.ev, s) => y = z
    BY <2>2 DEF TimeInv, Chain
  <2>6. Pending(K, s) = {z}
    <3>1. z \in Pending(K, s)
      BY <2>2, <2>3 DEF Pending, IsStep
    <3> QED BY <2>4, <2>5, <3>1 DEF Pending
  <2> QED BY <2>1, <2>6, FS_Singleton
<1> QED BY <1>1, Inductive, TimeInductive, NoiseInductive, PTL
=============================================================================
