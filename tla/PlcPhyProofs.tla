---------------------------- MODULE PlcPhyProofs ----------------------------
(***************************************************************************)
(* The PHYs' states and the interference they count follow the pending     *)
(* events, for any number of nodes, any timing and any loss.  The lemmas   *)
(* about single steps serve PlcHarqNetworkProofs as well.                  *)
(***************************************************************************)
EXTENDS PlcArqNetworkProofs, PlcAgendaProofs

USE NodeAssumption, SeqAssumption, CsmaAssumption, TimeAssumption, NoFrameAssumption

(* Kinds of events that end neither a state of the PHY nor interference.   *)
Quiet(kind) == kind \notin Reception \cup {"txEnd", "removeNoise"}

LEMMA KindsApart ==
  /\ "txEnd" \notin Reception /\ "removeNoise" \notin Reception
  /\ \A kind \in {"startCsma", "backoff", "requestCca", "endCca", "csmaIdle", "csmaFailure", "startRx",
                   "timeout", "oldTimeout", "startRedundancy", "failureTimeout"} : Quiet(kind)
BY DEF Quiet, Reception

---------------------------------------------------------------------------
(* Scheduling: an event that ends nothing, ...                             *)
LEMMA AddQuiet ==
  ASSUME NEW A, NEW s, NEW z, Backed(A, s, z), NEW d \in Nat, NEW ev, Quiet(ev.kind)
  PROVE  Backed(Add(A, d, ev), s, z)
<1>1. Ranked(A)
  BY DEF Backed
<1>2. \A n : ~ Is(ev, {"txEnd"}, n) /\ ~ Is(ev, Reception, n) /\ ~ Is(ev, {"removeNoise"}, n)
  BY DEF Is, Quiet
<1>3. Ranked(Add(A, d, ev)) /\ \A K, n : ~ Is(ev, K, n) => Count(Add(A, d, ev), K, n) = Count(A, K, n)
  BY <1>1, AddRanked
<1> QED BY <1>2, <1>3 DEF Backed

(* ... the end of a transmission, which has just begun, ...                *)
LEMMA AddTxEnd ==
  ASSUME NEW A, NEW s, NEW z, Backed(A, s, z), NEW d \in Nat,
         NEW n \in Node, s[n] = "IDLE"
  PROVE  Backed(Add(A, d, Ev("txEnd", n)), [s EXCEPT ![n] = "TX"], z)
<1> DEFINE B == Add(A, d, Ev("txEnd", n))
           r == [s EXCEPT ![n] = "TX"]
<1>1. Ranked(A) /\ s \in [Node -> {"IDLE", "TX", "RX"}]
  BY DEF Backed
<1>2. /\ r \in [Node -> {"IDLE", "TX", "RX"}] /\ r[n] = "TX"
      /\ \A m \in Node \ {n} : r[m] = s[m]
  BY <1>1
<1>3. \A m : /\ Is(Ev("txEnd", n), {"txEnd"}, m) <=> m = n
             /\ ~ Is(Ev("txEnd", n), Reception, m) /\ ~ Is(Ev("txEnd", n), {"removeNoise"}, m)
  BY KindsApart DEF Is, Ev
<1>4. /\ Ranked(B)
      /\ \A K, m : /\ ~ Is(Ev("txEnd", n), K, m) => Count(B, K, m) = Count(A, K, m)
                   /\ Is(Ev("txEnd", n), K, m) => Count(B, K, m) = Count(A, K, m) + 1
  BY <1>1, AddRanked
<1> HIDE DEF B, r
<1>5. Count(A, {"txEnd"}, n) = 0 /\ Count(A, Reception, n) = 0
  BY DEF Backed
<1>6. \A m \in Node : Count(B, {"txEnd"}, m) = IF r[m] = "TX" THEN 1 ELSE 0
  BY <1>2, <1>3, <1>4, <1>5 DEF Backed
<1>7. \A m \in Node : /\ Count(B, Reception, m) = IF r[m] = "RX" THEN 1 ELSE 0
                      /\ Count(B, {"removeNoise"}, m) = z[m]
  BY <1>2, <1>3, <1>4, <1>5 DEF Backed
<1>8. z \in [Node -> Int]
  BY DEF Backed
<1> QED BY <1>2, <1>4, <1>6, <1>7, <1>8 DEF Backed, B, r

(* ... the next event of a reception, ...                                  *)
LEMMA AddRxEvent ==
  ASSUME NEW A, NEW s, NEW z, Backed(A, s, z),
         NEW d \in Nat, NEW n \in Node, s[n] = "IDLE", NEW kind \in Reception, NEW f
  PROVE  Backed(Add(A, d, RxEv(kind, n, f)), [s EXCEPT ![n] = "RX"], z)
<1> DEFINE e == RxEv(kind, n, f)
           B == Add(A, d, e)
           r == [s EXCEPT ![n] = "RX"]
<1>1. Ranked(A) /\ s \in [Node -> {"IDLE", "TX", "RX"}]
  BY DEF Backed
<1>2. /\ r \in [Node -> {"IDLE", "TX", "RX"}] /\ r[n] = "RX"
      /\ \A m \in Node \ {n} : r[m] = s[m]
  BY <1>1
<1>3. \A m : /\ Is(e, Reception, m) <=> m = n
             /\ ~ Is(e, {"txEnd"}, m) /\ ~ Is(e, {"removeNoise"}, m)
  BY KindsApart DEF Is, RxEv
<1>4. /\ Ranked(B)
      /\ \A K, m : /\ ~ Is(e, K, m) => Count(B, K, m) = Count(A, K, m)
                   /\ Is(e, K, m) => Count(B, K, m) = Count(A, K, m) + 1
  BY <1>1, AddRanked
<1> HIDE DEF B, r, e
<1>5. Count(A, {"txEnd"}, n) = 0 /\ Count(A, Reception, n) = 0
  BY DEF Backed
<1>6. \A m \in Node : Count(B, Reception, m) = IF r[m] = "RX" THEN 1 ELSE 0
  BY <1>2, <1>3, <1>4, <1>5 DEF Backed
<1>7. \A m \in Node : /\ Count(B, {"txEnd"}, m) = IF r[m] = "TX" THEN 1 ELSE 0
                      /\ Count(B, {"removeNoise"}, m) = z[m]
  BY <1>2, <1>3, <1>4, <1>5 DEF Backed
<1>8. z \in [Node -> Int]
  BY DEF Backed
<1> QED BY <1>2, <1>4, <1>6, <1>7, <1>8 DEF Backed, B, r, e

(* ... and the end of an interference that is counted from now on.         *)
LEMMA AddRemoval ==
  ASSUME NEW A, NEW s, NEW z, Backed(A, s, z), NEW d \in Nat,
         NEW n \in Node
  PROVE  Backed(Add(A, d, Ev("removeNoise", n)), s, [z EXCEPT ![n] = @ + 1])
<1> DEFINE B == Add(A, d, Ev("removeNoise", n))
           r == [z EXCEPT ![n] = @ + 1]
<1>1. Ranked(A) /\ z \in [Node -> Int]
  BY DEF Backed
<1>2. /\ r \in [Node -> Int] /\ r[n] = z[n] + 1
      /\ \A m \in Node \ {n} : r[m] = z[m]
  BY <1>1
<1>3. \A m : /\ Is(Ev("removeNoise", n), {"removeNoise"}, m) <=> m = n
             /\ ~ Is(Ev("removeNoise", n), Reception, m) /\ ~ Is(Ev("removeNoise", n), {"txEnd"}, m)
  BY KindsApart DEF Is, Ev
<1>4. /\ Ranked(B)
      /\ \A K, m : /\ ~ Is(Ev("removeNoise", n), K, m) => Count(B, K, m) = Count(A, K, m)
                   /\ Is(Ev("removeNoise", n), K, m) => Count(B, K, m) = Count(A, K, m) + 1
  BY <1>1, AddRanked
<1> HIDE DEF B, r
<1>5. \A m \in Node : Count(B, {"removeNoise"}, m) = r[m]
  BY <1>2, <1>3, <1>4 DEF Backed
<1>6. \A m \in Node : /\ Count(B, {"txEnd"}, m) = IF s[m] = "TX" THEN 1 ELSE 0
                      /\ Count(B, Reception, m) = IF s[m] = "RX" THEN 1 ELSE 0
  BY <1>3, <1>4 DEF Backed
<1>7. s \in [Node -> {"IDLE", "TX", "RX"}]
  BY DEF Backed
<1> QED BY <1>2, <1>4, <1>5, <1>6, <1>7 DEF Backed, B, r

---------------------------------------------------------------------------
(* The head runs: an event that ends nothing, ...                          *)
LEMMA PopQuiet ==
  ASSUME NEW A, NEW s, NEW z, Backed(A, s, z), NEW x, IsHead(A, x), Quiet(x.ev.kind)
  PROVE  Backed(Pop(A, x), s, z)
<1>1. Ranked(A)
  BY DEF Backed
<1>2. \A n : ~ Is(x.ev, {"txEnd"}, n) /\ ~ Is(x.ev, Reception, n) /\ ~ Is(x.ev, {"removeNoise"}, n)
  BY DEF Is, Quiet
<1>3. Ranked(Pop(A, x)) /\ \A K, n : ~ Is(x.ev, K, n) => Count(Pop(A, x), K, n) = Count(A, K, n)
  <2>1. Ranked(Pop(A, x))
    BY <1>1, PopRanked
  <2>2. \A K, n : ~ Is(x.ev, K, n) => Count(Pop(A, x), K, n) = Count(A, K, n)
    BY <1>1, PopCount
  <2> QED BY <2>1, <2>2
<1> QED BY <1>2, <1>3 DEF Backed

(* ... the end of a transmission or the next event of a reception: the PHY *)
(* is in the state that the event belongs to, and nothing is left that     *)
(* belongs to one, ...                                                     *)
LEMMA PopState ==
  ASSUME NEW A, NEW s, NEW z, Backed(A, s, z),
         NEW x, IsHead(A, x), x.ev.node \in Node, x.ev.kind = "txEnd" \/ x.ev.kind \in Reception,
         NEW r, r = [s EXCEPT ![x.ev.node] = "IDLE"]
  PROVE  /\ x.ev.kind \in Reception => s[x.ev.node] = "RX"
         /\ Backed(Pop(A, x), r, z)
<1> DEFINE B == Pop(A, x)
<1>0. PICK n \in Node : n = x.ev.node
  OBVIOUS
<1>1. Ranked(A) /\ s \in [Node -> {"IDLE", "TX", "RX"}] /\ z \in [Node -> Int]
  BY DEF Backed
<1>2. /\ r \in [Node -> {"IDLE", "TX", "RX"}] /\ r[n] = "IDLE"
      /\ \A m \in Node \ {n} : r[m] = s[m]
  BY <1>0, <1>1
<1>3. /\ \A m : /\ Is(x.ev, {"txEnd"}, m) <=> (x.ev.kind = "txEnd" /\ m = n)
                /\ Is(x.ev, Reception, m) <=> (x.ev.kind # "txEnd" /\ m = n)
                /\ ~ Is(x.ev, {"removeNoise"}, m)
  BY <1>0, KindsApart DEF Is
<1>4. Ranked(B) /\ \A L, m : /\ ~ Is(x.ev, L, m) => Count(B, L, m) = Count(A, L, m)
                             /\ Is(x.ev, L, m) => /\ Count(B, L, m) = Count(A, L, m) - 1
                                                  /\ Count(A, L, m) >= 1
  <2>1. Ranked(B)
    BY <1>1, PopRanked
  <2> QED BY <1>1, <2>1, PopCount
<1> HIDE DEF B
<1>5. \A m \in Node : /\ Count(A, {"txEnd"}, m) = IF s[m] = "TX" THEN 1 ELSE 0
                      /\ Count(A, Reception, m) = IF s[m] = "RX" THEN 1 ELSE 0
                      /\ Count(A, {"removeNoise"}, m) = z[m]
  BY DEF Backed
<1>6. s[n] = IF x.ev.kind = "txEnd" THEN "TX" ELSE "RX"
  <2>1. CASE x.ev.kind = "txEnd"
    <3>1. Count(A, {"txEnd"}, n) >= 1
      BY <1>3, <1>4, <2>1
    <3> QED BY <1>5, <2>1, <3>1
  <2>2. CASE x.ev.kind # "txEnd"
    <3>1. Count(A, Reception, n) >= 1
      BY <1>3, <1>4, <2>2
    <3> QED BY <1>5, <2>2, <3>1
  <2> QED BY <2>1, <2>2
<1>7. Count(B, {"txEnd"}, n) = 0 /\ Count(B, Reception, n) = 0
  <2>1. CASE x.ev.kind = "txEnd"
    <3>1. Count(B, {"txEnd"}, n) = Count(A, {"txEnd"}, n) - 1 /\ Count(B, Reception, n) = Count(A, Reception, n)
      BY <1>3, <1>4, <2>1
    <3> QED BY <1>5, <1>6, <2>1, <3>1
  <2>2. CASE x.ev.kind # "txEnd"
    <3>1. Count(B, {"txEnd"}, n) = Count(A, {"txEnd"}, n) /\ Count(B, Reception, n) = Count(A, Reception, n) - 1
      BY <1>3, <1>4, <2>2
    <3> QED BY <1>5, <1>6, <2>2, <3>1
  <2> QED BY <2>1, <2>2
<1>8. \A m \in Node \ {n} : /\ Count(B, {"txEnd"}, m) = IF r[m] = "TX" THEN 1 ELSE 0
                            /\ Count(B, Reception, m) = IF r[m] = "RX" THEN 1 ELSE 0
  BY <1>2, <1>3, <1>4, <1>5
<1>9. \A m \in Node : Count(B, {"removeNoise"}, m) = z[m]
  BY <1>3, <1>4, <1>5
<1>10. \A m \in Node : /\ Count(B, {"txEnd"}, m) = IF r[m] = "TX" THEN 1 ELSE 0
                       /\ Count(B, Reception, m) = IF r[m] = "RX" THEN 1 ELSE 0
  BY <1>2, <1>7, <1>8
<1> QED BY <1>0, <1>1, <1>2, <1>4, <1>6, <1>9, <1>10, KindsApart DEF Backed, B

(* ... and the end of an interference.                                     *)
LEMMA PopRemoval ==
  ASSUME NEW A, NEW s, NEW z, Backed(A, s, z),
         NEW x, IsHead(A, x), NEW n \in Node, x.ev.node = n, x.ev.kind = "removeNoise"
  PROVE  Backed(Pop(A, x), s, [z EXCEPT ![n] = @ - 1])
<1> DEFINE B == Pop(A, x)
           r == [z EXCEPT ![n] = @ - 1]
<1>1. Ranked(A) /\ s \in [Node -> {"IDLE", "TX", "RX"}] /\ z \in [Node -> Int]
  BY DEF Backed
<1>2. r \in [Node -> Int] /\ r[n] = z[n] - 1 /\ \A m \in Node \ {n} : r[m] = z[m]
  BY <1>1
<1>3. \A m : /\ Is(x.ev, {"removeNoise"}, m) <=> m = n
             /\ ~ Is(x.ev, Reception, m) /\ ~ Is(x.ev, {"txEnd"}, m)
  BY KindsApart DEF Is
<1>4. Ranked(B) /\ \A L, m : /\ ~ Is(x.ev, L, m) => Count(B, L, m) = Count(A, L, m)
                             /\ Is(x.ev, L, m) => Count(B, L, m) = Count(A, L, m) - 1
  <2>1. Ranked(B)
    BY <1>1, PopRanked
  <2> QED BY <1>1, <2>1, PopCount
<1> HIDE DEF B, r
<1>5. \A m \in Node : Count(B, {"removeNoise"}, m) = r[m]
  BY <1>2, <1>3, <1>4 DEF Backed
<1>6. \A m \in Node : /\ Count(B, {"txEnd"}, m) = IF s[m] = "TX" THEN 1 ELSE 0
                      /\ Count(B, Reception, m) = IF s[m] = "RX" THEN 1 ELSE 0
  BY <1>3, <1>4 DEF Backed
<1> QED BY <1>1, <1>2, <1>4, <1>5, <1>6 DEF Backed, B, r

(* Time passes.                                                            *)
LEMMA ElapseBacked ==
  ASSUME NEW A, NEW s, NEW z, Backed(A, s, z), NEW t \in Nat, MayElapse(A, t)
  PROVE  Backed(Elapse(A, t), s, z)
<1>1. Ranked(Elapse(A, t)) /\ \A K, n : Count(Elapse(A, t), K, n) = Count(A, K, n)
  BY ElapseRanked DEF Backed
<1> QED BY <1>1 DEF Backed

(* Events that end nothing are cancelled, ...                              *)
LEMMA CancelBacked ==
  ASSUME NEW A, NEW s, NEW z, Backed(A, s, z), NEW gone, gone \subseteq A,
         \A y \in gone : Quiet(y.ev.kind)
  PROVE  Backed(Without(A, gone), s, z)
<1>1. \A n : \A y \in gone : ~ Is(y.ev, {"txEnd"}, n) /\ ~ Is(y.ev, Reception, n) /\ ~ Is(y.ev, {"removeNoise"}, n)
  BY DEF Is, Quiet
<1>2. Ranked(Without(A, gone)) /\ \A K, n : Count(Without(A, gone), K, n) = Count(A \ gone, K, n)
  BY WithoutRanked DEF Backed
<1>3. ASSUME NEW K \in {{"txEnd"}, Reception, {"removeNoise"}}, NEW n
      PROVE  Count(Without(A, gone), K, n) = Count(A, K, n)
  <2>1. \A y \in gone : ~ Is(y.ev, K, n)
    BY <1>1
  <2>2. {y \in A \ gone : Is(y.ev, K, n)} = {y \in A : Is(y.ev, K, n)}
    BY <2>1
  <2>3. Count(A \ gone, K, n) = Count(A, K, n)
    BY <2>2 DEF Count, Is
  <2> QED BY <1>2, <2>3
<1> QED BY <1>2, <1>3 DEF Backed

(* ... or no longer referred to.                                           *)
LEMMA SupersededRanked ==
  ASSUME NEW A, Ranked(A), NEW n
  PROVE  /\ Ranked(Superseded(A, n))
         /\ \A K, m : "timeout" \notin K /\ "oldTimeout" \notin K
              => Count(Superseded(A, n), K, m) = Count(A, K, m)
<1> DEFINE f == [y \in A |-> IF y \in Timers(A, n) THEN Entry(y.due, y.ord, Ev("oldTimeout", n)) ELSE y]
<1>1. Superseded(A, n) = {f[y] : y \in A}
  BY DEF Superseded
<1>2. \A y \in A : y.due \in Nat /\ y.ord \in Nat /\ y.ord = Cardinality(Ahead(A, y))
  BY DEF Ranked
<1>3. IsFiniteSet(A) /\ \A y, z \in A : y.due = z.due /\ y.ord = z.ord => y = z
  BY DEF Ranked
<1>4. \A y \in A : /\ f[y].due = y.due /\ f[y].ord = y.ord
                   /\ f[y].ev = y.ev \/ (y.ev.kind = "timeout" /\ f[y].ev.kind = "oldTimeout")
  BY DEF Entry, Ev, Timers
<1> HIDE DEF f
<1>5. \A y \in A : y.due \in Nat /\ y.ord \in Nat
  BY <1>2
<1>6. \A y \in A : f[y].due \in Nat /\ f[y].ord = Cardinality(Ahead(A, y))
  BY <1>2, <1>4
<1>7. \A y, z \in A : f[y].due = f[z].due <=> y.due = z.due
  BY <1>4
<1>8. /\ Ranked({f[y] : y \in A})
      /\ \A K, m : (\A y \in A : Is(f[y].ev, K, m) <=> Is(y.ev, K, m))
           => Count({f[y] : y \in A}, K, m) = Count(A, K, m)
  BY <1>3, <1>5, <1>6, <1>7, Rekeyed
<1>9. ASSUME NEW K, "timeout" \notin K, "oldTimeout" \notin K, NEW m
      PROVE  Count({f[y] : y \in A}, K, m) = Count(A, K, m)
  <2>1. \A y \in A : Is(f[y].ev, K, m) <=> Is(y.ev, K, m)
    BY <1>4, <1>9 DEF Is
  <2> QED BY <1>8, <2>1
<1> QED BY <1>1, <1>8, <1>9

LEMMA SupersededBacked ==
  ASSUME NEW A, NEW s, NEW z, Backed(A, s, z), NEW n
  PROVE  Backed(Superseded(A, n), s, z)
<1>1. "timeout" \notin Reception /\ "oldTimeout" \notin Reception
  BY DEF Reception
<1>2. Ranked(A)
  BY DEF Backed
<1>3. /\ Ranked(Superseded(A, n))
      /\ \A K, m : "timeout" \notin K /\ "oldTimeout" \notin K
           => Count(Superseded(A, n), K, m) = Count(A, K, m)
  BY <1>2, SupersededRanked
<1> QED BY <1>1, <1>3 DEF Backed

---------------------------------------------------------------------------
(* SendFrame from an idle PHY.                                             *)
LEMMA SendFrameBacked ==
  ASSUME NEW A, Backed(A, state, noise), NEW n \in Node, state[n] = "IDLE",
         NEW f, NEW kind, Quiet(kind), NEW d \in Nat, SendFrame(n, f, kind, d, A)
  PROVE  Backed(agenda', state', noise)
<1> DEFINE E == [m \in Node \ {n} |-> RxEv(kind, m, f)]
           D == Delay[n]
           B == AddForEach(A, E, D)
<1>1. state' = [state EXCEPT ![n] = "TX"] /\ agenda' = Add(B, d, Ev("txEnd", n))
  BY DEF SendFrame
<1>2. Ranked(A)
  BY DEF Backed
<1>3. /\ DOMAIN E = Node \ {n} /\ DOMAIN E \subseteq Nat /\ IsFiniteSet(DOMAIN E)
      /\ \A m \in DOMAIN E : Delay[n][m] \in Nat /\ E[m].kind = kind
  <2>1. DOMAIN E = Node \ {n} /\ IsFiniteSet(Node \ {n})
    BY FS_RemoveElement
  <2>2. \A m \in Node \ {n} : Delay[n][m] \in Nat /\ E[m].kind = kind
    BY DEF RxEv
  <2> QED BY <2>1, <2>2
<1>4. /\ Ranked(B)
      /\ \A K, m : (\A k \in DOMAIN E : ~ Is(E[k], K, m)) => Count(B, K, m) = Count(A, K, m)
  <2>1. IsFiniteSet(DOMAIN E) /\ DOMAIN E \subseteq Nat /\ \A m \in DOMAIN E : D[m] \in Nat
    BY <1>3
  <2> HIDE DEF D, E
  <2> QED BY <1>2, <2>1, AddForEachRanked
<1> HIDE DEF E, D
<1> HIDE DEF B
<1>5. Backed(B, state, noise)
  <2>1. \A m \in Node : /\ Count(B, {"txEnd"}, m) = Count(A, {"txEnd"}, m)
                        /\ Count(B, Reception, m) = Count(A, Reception, m)
                        /\ Count(B, {"removeNoise"}, m) = Count(A, {"removeNoise"}, m)
    BY <1>3, <1>4 DEF Is, Quiet
  <2> QED BY <1>4, <2>1 DEF Backed
<1> QED BY <1>1, <1>5, AddTxEnd, KindsApart

LEMMA StartTxBacked ==
  ASSUME NEW A, Backed(A, state, noise), NEW n \in Node, StartTx(n, A)
  PROVE  Backed(agenda', state', noise)
<1>1. CASE state[n] = "IDLE" /\ txPacket[n] # NoFrame
  <2>1. SendFrame(n, txPacket[n], "startRx", AirTime(txPacket[n]), A)
    BY <1>1 DEF StartTx
  <2> QED BY <1>1, <2>1, SendFrameBacked, KindsApart, TimesAreNat
<1>2. CASE ~ (state[n] = "IDLE" /\ txPacket[n] # NoFrame)
  BY <1>2 DEF StartTx
<1> QED BY <1>1, <1>2

(* The callbacks of PLC_Mac schedule events that end nothing.              *)
LEMMA CcaConfirmBacked ==
  ASSUME NEW A, Backed(A, state, noise), NEW n \in Node, NEW status,
         CcaConfirm(n, status, A)
  PROVE  Backed(agenda', state', noise')
<1>1. state' = state /\ noise' = noise
  BY DEF CcaConfirm, phy
<1>2. PICK kind \in {"csmaIdle", "csmaFailure", "backoff"} : agenda' = Add(A, 0, Ev(kind, n))
  BY DEF CcaConfirm, AfterBusy
<1>3. Quiet(Ev(kind, n).kind)
  BY KindsApart DEF Ev
<1> QED BY <1>1, <1>2, <1>3, AddQuiet

(* An event runs that ends nothing and schedules at most one like it.      *)
LEMMA QuietBacked ==
  ASSUME Backed(agenda, state, noise), NEW x, IsHead(agenda, x), Quiet(x.ev.kind),
         NEW d \in Nat, NEW ev, Quiet(ev.kind),
         agenda' = After(x) \/ agenda' = Add(After(x), d, ev), UNCHANGED phy
  PROVE  Backed(agenda', state', noise')
<1>1. Backed(After(x), state, noise)
  BY PopQuiet DEF After
<1>2. state' = state /\ noise' = noise
  BY DEF phy
<1> QED BY <1>1, <1>2, AddQuiet

LEMMA CsmaSchedules ==
  ASSUME BE \in [Node -> Nat], NEW x, x.ev.node \in Node,
         RestartCsmaCa(x) \/ RandomBackoffDelay(x) \/ RequestCca(x) \/ CsmaCaFailure(x)
  PROVE  /\ IsHead(agenda, x) /\ UNCHANGED phy
         /\ x.ev.kind \in {"startCsma", "backoff", "requestCca", "csmaFailure"}
         /\ \E d \in Nat, kind \in {"startCsma", "backoff", "requestCca", "endCca"} :
              agenda' = After(x) \/ agenda' = Add(After(x), d, Ev(kind, x.ev.node))
<1>1. /\ IsHead(agenda, x) /\ UNCHANGED phy
      /\ x.ev.kind \in {"startCsma", "backoff", "requestCca", "csmaFailure"}
  BY DEF RestartCsmaCa, RandomBackoffDelay, RequestCca, CsmaCaFailure, Due
<1>2. \A be \in Nat : \A b \in Backoffs(be) : b * UnitBackoff \in Nat
  <2> TAKE be \in Nat
  <2>1. \A b \in Backoffs(be) : b \in Nat
    BY DEF Backoffs
  <2> QED BY <2>1
<1>3. CASE RestartCsmaCa(x)
  BY <1>1, <1>3 DEF RestartCsmaCa
<1>4. CASE RandomBackoffDelay(x)
  BY <1>1, <1>2, <1>4 DEF RandomBackoffDelay
<1>5. CASE RequestCca(x)
  BY <1>1, <1>5 DEF RequestCca
<1>6. CASE CsmaCaFailure(x)
  BY <1>1, <1>6 DEF CsmaCaFailure
<1> QED BY <1>3, <1>4, <1>5, <1>6

LEMMA CsmaBacked ==
  ASSUME Backed(agenda, state, noise), BE \in [Node -> Nat], NEW x, x.ev.node \in Node,
         RestartCsmaCa(x) \/ RandomBackoffDelay(x) \/ RequestCca(x) \/ CsmaCaFailure(x)
  PROVE  Backed(agenda', state', noise')
<1>1. PICK d \in Nat, kind \in {"startCsma", "backoff", "requestCca", "endCca"} :
        agenda' = After(x) \/ agenda' = Add(After(x), d, Ev(kind, x.ev.node))
  BY CsmaSchedules
<1>2. /\ IsHead(agenda, x) /\ UNCHANGED phy
      /\ x.ev.kind \in {"startCsma", "backoff", "requestCca", "csmaFailure"}
  BY CsmaSchedules
<1>3. Quiet(x.ev.kind) /\ Quiet(Ev(kind, x.ev.node).kind)
  BY <1>2, KindsApart DEF Ev
<1> QED BY <1>1, <1>2, <1>3, QuietBacked

(* The end of a transmission.                                              *)
LEMMA FrameSentBacked ==
  ASSUME Backed(agenda, state, noise), NEW x, x.ev.node \in Node, FrameSent(x)
  PROVE  Backed(agenda', state', noise')
<1> DEFINE n == x.ev.node
<1>1. /\ IsHead(agenda, x) /\ x.ev.kind = "txEnd" /\ noise' = noise
      /\ state' = [state EXCEPT ![n] = "IDLE"]
      /\ agenda' = After(x) \/ agenda' = Add(Superseded(After(x), n), AckTimeout, Ev("timeout", n))
  BY DEF FrameSent, Due
<1>2. Backed(After(x), state', noise)
  <2>1. "txEnd" \notin Reception /\ "removeNoise" \notin Reception /\ x.ev.kind = "txEnd"
    BY <1>1, KindsApart
  <2> QED BY <1>1, <2>1, PopState DEF After
<1>3. Backed(Superseded(After(x), n), state', noise)
  BY <1>2, SupersededBacked
<1>4. Quiet(Ev("timeout", n).kind)
  BY KindsApart DEF Ev
<1>5. Backed(Add(Superseded(After(x), n), AckTimeout, Ev("timeout", n)), state', noise)
  BY <1>3, <1>4, AddQuiet
<1> QED BY <1>1, <1>2, <1>5

(* The steps of a reception.                                               *)
LEMMA InterfereBacked ==
  ASSUME NEW A, NEW s, Backed(A, s, noise), NEW n \in Node, NEW d \in Nat,
         Interfere(n, d, A)
  PROVE  Backed(agenda', s, noise')
BY AddRemoval, KindsApart DEF Interfere

LEMMA StartRxBacked ==
  ASSUME Backed(agenda, state, noise), NEW x, x.ev.node \in Node, StartRx(x)
  PROVE  Backed(agenda', state', noise')
<1> DEFINE n == x.ev.node
           f == x.ev.frame
<1>1. IsHead(agenda, x) /\ x.ev.kind = "startRx"
  BY DEF StartRx, Due
<1>2. Backed(After(x), state, noise)
  BY <1>1, PopQuiet, KindsApart DEF After
<1>3. CASE /\ CanLock(n, f) /\ state' = [state EXCEPT ![n] = "RX"] /\ noise' = noise
           /\ agenda' = Add(After(x), PreambleTime, RxEv("preamble", n, f))
  <2>1. state[n] = "IDLE" /\ "preamble" \in Reception
    BY <1>3 DEF CanLock, Reception
  <2> QED BY <1>2, <1>3, <2>1, AddRxEvent, KindsApart
<1>4. CASE Interfere(n, IF f = NoFrame THEN PulseTime ELSE AirTime(f), After(x)) /\ state' = state
  <2>1. (IF f = NoFrame THEN PulseTime ELSE AirTime(f)) \in Nat
    BY TimesAreNat
  <2> QED BY <1>2, <1>4, <2>1, InterfereBacked
<1> QED BY <1>3, <1>4 DEF StartRx

(* An event of a reception runs, ...                                       *)
LEMMA PopReception ==
  ASSUME Backed(agenda, state, noise), NEW x, IsHead(agenda, x),
         x.ev.node \in Node, x.ev.kind \in Reception
  PROVE  state[x.ev.node] = "RX" /\ Backed(After(x), [state EXCEPT ![x.ev.node] = "IDLE"], noise)
<1>1. "txEnd" \notin Reception /\ "removeNoise" \notin Reception
  BY KindsApart
<1>2. PICK r : r = [state EXCEPT ![x.ev.node] = "IDLE"]
  OBVIOUS
<1>3. state[x.ev.node] = "RX"
  BY <1>1, <1>2, PopState
<1>4. Backed(Pop(agenda, x), r, noise)
  BY <1>1, <1>2, PopState
<1> QED BY <1>2, <1>3, <1>4 DEF After

(* ... and the next one is scheduled.                                      *)
LEMMA ReceptionGoesOn ==
  ASSUME NEW A, NEW s, Backed(A, s, noise), NEW n \in Node,
         state \in [Node -> {"IDLE", "TX", "RX"}], state[n] = "RX", s = [state EXCEPT ![n] = "IDLE"],
         NEW d \in Nat, NEW kind \in Reception, NEW f, agenda' = Add(A, d, RxEv(kind, n, f)), UNCHANGED phy
  PROVE  Backed(agenda', state', noise')
<1>1. s[n] = "IDLE"
  OBVIOUS
<1>2. Backed(agenda', [s EXCEPT ![n] = "RX"], noise)
  BY <1>1, AddRxEvent, KindsApart
<1>3. [s EXCEPT ![n] = "RX"] = state
  OBVIOUS
<1> QED BY <1>2, <1>3 DEF phy

LEMMA PreambleBacked ==
  ASSUME Backed(agenda, state, noise), NEW x, x.ev.node \in Node,
         PreambleDetectionSuccessful(x)
  PROVE  Backed(agenda', state', noise')
<1> DEFINE n == x.ev.node
<1>1. /\ IsHead(agenda, x) /\ x.ev.kind = "preamble" /\ UNCHANGED phy
      /\ agenda' = Add(After(x), HeaderTime, RxEv("rxHeader", n, x.ev.frame))
  BY DEF PreambleDetectionSuccessful, Due
<1>2. {"preamble", "rxHeader"} \subseteq Reception /\ state \in [Node -> {"IDLE", "TX", "RX"}]
  BY DEF Reception, Backed
<1>3. state[n] = "RX" /\ Backed(After(x), [state EXCEPT ![n] = "IDLE"], noise)
  BY <1>1, <1>2, PopReception
<1> QED BY <1>1, <1>2, <1>3, ReceptionGoesOn

LEMMA EndRxHeaderBacked ==
  ASSUME Backed(agenda, state, noise), NEW x, x.ev.node \in Node, EndRxHeader(x)
  PROVE  Backed(agenda', state', noise')
<1> DEFINE n == x.ev.node
           f == x.ev.frame
<1>1. IsHead(agenda, x) /\ x.ev.kind = "rxHeader"
  BY DEF EndRxHeader, Due
<1>2. {"rxHeader", "rxPayload"} \subseteq Reception /\ state \in [Node -> {"IDLE", "TX", "RX"}]
  BY DEF Reception, Backed
<1>3. state[n] = "RX" /\ Backed(After(x), [state EXCEPT ![n] = "IDLE"], noise)
  BY <1>1, <1>2, PopReception
<1>4. CASE agenda' = Add(After(x), PayloadTime(f), RxEv("rxPayload", n, f)) /\ UNCHANGED phy
  BY <1>2, <1>3, <1>4, ReceptionGoesOn, TimesAreNat
<1>5. CASE Interfere(n, PayloadTime(f), After(x)) /\ state' = [state EXCEPT ![n] = "IDLE"]
  BY <1>3, <1>5, InterfereBacked, TimesAreNat
<1> QED BY <1>4, <1>5 DEF EndRxHeader

LEMMA RemoveNoiseBacked ==
  ASSUME Backed(agenda, state, noise), NEW x, x.ev.node \in Node,
         RemoveNoiseSignal(x)
  PROVE  Backed(agenda', state', noise')
<1>1. /\ IsHead(agenda, x) /\ x.ev.kind = "removeNoise" /\ state' = state
      /\ noise' = [noise EXCEPT ![x.ev.node] = @ - 1] /\ agenda' = Pop(agenda, x)
  BY DEF RemoveNoiseSignal, Due, After
<1> QED BY <1>1, PopRemoval, KindsApart

(* The MAC's DoProcess schedules and cancels events that end nothing.      *)
LEMMA DoProcessBacked ==
  ASSUME NEW A, NEW s, Backed(A, s, noise), NEW n \in Node, NEW f,
         DoProcess(n, f, A)
  PROVE  Backed(agenda', s, noise)
<1>q. Quiet(Ev("endCca", n).kind) /\ Quiet(Ev("backoff", n).kind)
  BY KindsApart DEF Ev
<1>1. CASE agenda' = A
  BY <1>1
<1>2. CASE agenda' = Add(A, CcaTime, Ev("endCca", n))
  BY <1>q, <1>2, AddQuiet
<1>3. CASE agenda' = Add(Add(A, 0, Ev("backoff", n)), CcaTime, Ev("endCca", n))
  <2>1. Backed(Add(A, 0, Ev("backoff", n)), s, noise)
    BY <1>q, AddQuiet
  <2> QED BY <1>q, <1>3, <2>1, AddQuiet
<1>4. CASE agenda' = CancelTimer(A, n)
  <2>1. Timers(A, n) \subseteq A /\ \A y \in Timers(A, n) : Quiet(y.ev.kind)
    BY KindsApart DEF Timers
  <2> QED BY <1>4, <2>1, CancelBacked DEF CancelTimer
<1> QED BY <1>1, <1>2, <1>3, <1>4 DEF DoProcess, ReceiveData, ReceiveAck, Discard

LEMMA EndRxPayloadBacked ==
  ASSUME Backed(agenda, state, noise), NEW x, x.ev.node \in Node, EndRxPayload(x)
  PROVE  Backed(agenda', state', noise')
<1> DEFINE n == x.ev.node
<1>1. /\ IsHead(agenda, x) /\ x.ev.kind = "rxPayload" /\ noise' = noise
      /\ state' = [state EXCEPT ![n] = "IDLE"]
      /\ DoProcess(n, x.ev.frame, After(x)) \/ agenda' = After(x)
  BY DEF EndRxPayload, Due
<1>2. "rxPayload" \in Reception
  BY DEF Reception
<1>3. Backed(After(x), state', noise)
  BY <1>1, <1>2, PopReception
<1> QED BY <1>1, <1>3, DoProcessBacked

(* What the application and the noise sources do.                          *)
LEMMA EnvironmentSchedules ==
  ASSUME Ranked(agenda), Environment
  PROVE  \E t \in Nat, n \in Node, kind \in {"backoff", "startRx"} :
           /\ MayElapse(agenda, t) /\ agenda' = Add(Elapse(agenda, t), 0, Ev(kind, n))
           /\ UNCHANGED phy
<1>1. PICK t \in Elapsed : \/ \E n \in Sources, d \in Node : d # n /\ Send(n, d, t)
                          \/ \E n \in Node : PulseStart(n, t)
  BY DEF Environment
<1>2. t \in Nat
  <2>1. \A y \in agenda : y.due \in Nat
    BY DEF Ranked
  <2> QED BY <2>1 DEF Elapsed
<1> QED BY <1>1, <1>2 DEF Send, PulseStart

LEMMA EnvironmentBacked ==
  ASSUME Backed(agenda, state, noise), Environment
  PROVE  Backed(agenda', state', noise')
<1>1. Ranked(agenda)
  BY DEF Backed
<1>2. PICK t \in Nat, n \in Node, kind \in {"backoff", "startRx"} :
        /\ MayElapse(agenda, t) /\ agenda' = Add(Elapse(agenda, t), 0, Ev(kind, n))
        /\ UNCHANGED phy
  BY <1>1, EnvironmentSchedules
<1>3. Quiet(Ev(kind, n).kind)
  BY KindsApart DEF Ev
<1>4. Backed(Elapse(agenda, t), state, noise)
  BY <1>2, ElapseBacked
<1> QED BY <1>2, <1>3, <1>4, AddQuiet DEF phy

---------------------------------------------------------------------------
(* The steps of PLC_ArqMac's devices.                                      *)
LEMMA EndCcaBacked ==
  ASSUME Backed(agenda, state, noise), NEW x, x.ev.node \in Node, EndCca(x)
  PROVE  Backed(agenda', state', noise')
<1> DEFINE n == x.ev.node
<1>1. IsHead(agenda, x) /\ x.ev.kind = "endCca"
  BY DEF EndCca, Due
<1>2. Backed(After(x), state, noise)
  BY <1>1, PopQuiet, KindsApart DEF After
<1>3. PICK status : CcaConfirm(n, status, After(x)) \/ NotifyCcaConfirm(n, status, After(x))
  BY DEF EndCca
<1>4. CASE CcaConfirm(n, status, After(x))
  BY <1>2, <1>4, CcaConfirmBacked
<1>5. CASE NotifyCcaConfirm(n, status, After(x))
  <2>1. noise' = noise
    BY <1>5 DEF NotifyCcaConfirm
  <2>2. CASE StartTx(n, After(x))
    BY <1>2, <2>1, <2>2, StartTxBacked
  <2>3. CASE agenda' = After(x) /\ state' = state
    BY <1>2, <2>1, <2>3
  <2> QED BY <1>5, <2>2, <2>3 DEF NotifyCcaConfirm
<1> QED BY <1>3, <1>4, <1>5

LEMMA CsmaCaIdleBacked ==
  ASSUME Backed(agenda, state, noise), NEW x, x.ev.node \in Node, CsmaCaIdle(x)
  PROVE  Backed(agenda', state', noise')
<1>1. /\ IsHead(agenda, x) /\ x.ev.kind = "csmaIdle" /\ noise' = noise
      /\ StartTx(x.ev.node, After(x))
  BY DEF CsmaCaIdle, Due
<1>2. Backed(After(x), state, noise)
  BY <1>1, PopQuiet, KindsApart DEF After
<1> QED BY <1>1, <1>2, StartTxBacked

LEMMA TimeoutBacked ==
  ASSUME Backed(agenda, state, noise), NEW x, x.ev.node \in Node,
         AcknowledgementTimeout(x)
  PROVE  Backed(agenda', state', noise')
<1>1. /\ IsHead(agenda, x) /\ x.ev.kind \in {"timeout", "oldTimeout"} /\ UNCHANGED phy
      /\ agenda' = After(x) \/ agenda' = Add(After(x), 0, Ev("backoff", x.ev.node))
  BY DEF AcknowledgementTimeout, Due, IgnoreTimeout, TransmissionFailed, Replay
<1>2. Quiet(x.ev.kind) /\ Quiet(Ev("backoff", x.ev.node).kind)
  BY <1>1, KindsApart DEF Ev
<1> QED BY <1>1, <1>2, QuietBacked

---------------------------------------------------------------------------
LEMMA PhyInit == Init => PhyInv
<1> SUFFICES ASSUME Init PROVE PhyInv
  OBVIOUS
<1>1. agenda = {} /\ state = [n \in Node |-> "IDLE"] /\ noise = [n \in Node |-> 0]
  BY DEF Init
<1>2. Ranked({}) /\ \A K, n : Count({}, K, n) = 0
  BY FS_EmptySet DEF Ranked, Count
<1> QED BY <1>1, <1>2 DEF PhyInv, Backed

LEMMA PhyStep == IInv /\ PhyInv /\ [Next]_vars => PhyInv'
<1> SUFFICES ASSUME IInv, PhyInv, [Next]_vars PROVE Backed(agenda', state', noise')
  BY DEF PhyInv
<1>1. Backed(agenda, state, noise)
  BY DEF PhyInv
<1>2. CASE ProcessOneEvent
  <2>1. PICK x \in agenda : Process(x)
    BY <1>2 DEF ProcessOneEvent
  <2>2. x.ev.node \in Node /\ BE \in [Node -> Nat]
    BY DEF IInv, TypeOK, Event
  <2>3. CASE RestartCsmaCa(x) \/ RandomBackoffDelay(x) \/ RequestCca(x) \/ CsmaCaFailure(x)
    BY <1>1, <2>2, <2>3, CsmaBacked
  <2>4. CASE EndCca(x) \/ CsmaCaIdle(x) \/ AcknowledgementTimeout(x)
    BY <1>1, <2>2, <2>4, EndCcaBacked, CsmaCaIdleBacked, TimeoutBacked
  <2>5. CASE FrameSent(x) \/ StartRx(x) \/ PreambleDetectionSuccessful(x)
    BY <1>1, <2>2, <2>5, FrameSentBacked, StartRxBacked, PreambleBacked
  <2>6. CASE EndRxHeader(x) \/ EndRxPayload(x) \/ RemoveNoiseSignal(x)
    BY <1>1, <2>2, <2>6, EndRxHeaderBacked, EndRxPayloadBacked, RemoveNoiseBacked
  <2> QED BY <2>1, <2>3, <2>4, <2>5, <2>6 DEF Process
<1>3. CASE Environment
  BY <1>1, <1>3, EnvironmentBacked
<1>4. CASE UNCHANGED vars
  BY <1>1, <1>4 DEF vars, phy
<1> QED BY <1>2, <1>3, <1>4 DEF Next

(* The states of the PHYs and the interference are always backed.          *)
THEOREM PhyInductive == Spec => []PhyInv
BY PhyInit, PhyStep, Inductive, PTL DEF Spec

(* A PHY transmits or receives exactly while one event is pending that     *)
(* will end it, whatever the delays, the losses and the number of nodes:   *)
(* the assertions on GetState() in plc-phy.cc and on the transmitters in   *)
(* plc-channel.cc cannot fail.                                             *)
THEOREM PhyFollowsAgendaCorrect == Spec => []PhyFollowsAgenda
<1>1. PhyInv => PhyFollowsAgenda
  BY DEF PhyInv, Backed, PhyFollowsAgenda, Pending, Count
<1> QED BY <1>1, PhyInductive, PTL

(* Every interference signal that AddNoiseSignal counted is taken back by  *)
(* exactly one RemoveNoiseSignal that is still to come.                    *)
THEOREM NoiseBalancedCorrect == Spec => []NoiseBalanced
<1>1. PhyInv => NoiseBalanced
  BY DEF PhyInv, Backed, NoiseBalanced, Pending, Count
<1> QED BY <1>1, PhyInductive, PTL
=============================================================================
