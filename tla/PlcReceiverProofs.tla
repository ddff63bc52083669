------------------------- MODULE PlcReceiverProofs --------------------------
(***************************************************************************)
(* Proofs about the receiver's sums, for any number of transmitters, any   *)
(* PSDs, any number of signals and both families of PHYs.                  *)
(***************************************************************************)
EXTENDS PlcReceiver, FiniteSetTheorems, TLAPS

---------------------------------------------------------------------------
(***************************************************************************)
(* Sums over finite sets.  SumFunctionOnSet takes the elements in an order *)
(* of its own; the sum does not depend on it.                              *)
(***************************************************************************)
(* Every non-empty collection of subsets of a finite set has a smallest    *)
(* member, which is what an induction over finite sets comes down to.      *)
LEMMA SmallestSubset ==
  ASSUME NEW S, IsFiniteSet(S), NEW B \in SUBSET SUBSET S, B # {}
  PROVE  \E U \in B : \A V \in B : V \subseteq U => V = U
<1>1. IsWellFoundedOn(StrictSubsetOrdering(S), SUBSET S)
  <2>1. FiniteSubsetsOf(S) = SUBSET S
    BY FS_FiniteSubsetsOfFinite
  <2>2. IsWellFoundedOn(StrictSubsetOrdering(S), FiniteSubsetsOf(S))
    BY FS_StrictSubsetOrderingWellFounded
  <2> QED BY <2>1, <2>2
<1>2. PICK U \in B : \A V \in B : ~ (<<V, U>> \in StrictSubsetOrdering(S))
  BY <1>1, WFMin
<1> QED BY <1>2 DEF StrictSubsetOrdering

(* The element SumFunctionOnSet takes next.                                *)
Pick(s) == CHOOSE x \in s : TRUE

(* g holds the sum of f over every subset of S.                            *)
SumsTo(f, S, g) ==
  g = [s \in SUBSET S |-> IF s = {} THEN 0 ELSE f[Pick(s)] + g[s \ {Pick(s)}]]

LEMMA SumsToFacts ==
  ASSUME NEW f, NEW S, NEW g, SumsTo(f, S, g)
  PROVE  /\ g[{}] = 0
         /\ \A s \in SUBSET S : s # {} =>
              /\ Pick(s) \in s /\ s \ {Pick(s)} \in SUBSET S
              /\ g[s] = f[Pick(s)] + g[s \ {Pick(s)}]
<1>1. \A s \in SUBSET S : g[s] = IF s = {} THEN 0 ELSE f[Pick(s)] + g[s \ {Pick(s)}]
  BY DEF SumsTo
<1>2. \A s : s # {} => Pick(s) \in s
  BY DEF Pick
<1> QED BY <1>1, <1>2

LEMMA SumsToTake ==
  ASSUME NEW f, NEW S, NEW g, SumsTo(f, S, g), NEW s \in SUBSET S, s # {}
  PROVE  g[s] = f[Pick(s)] + g[s \ {Pick(s)}]
BY SumsToFacts

(* The sums over the subsets that two sets have in common are the same.    *)
LEMMA SumsAgree ==
  ASSUME NEW S, IsFiniteSet(S), NEW T, S \subseteq T, NEW f, NEW e, NEW g, NEW h,
         SumsTo(f, S, g), SumsTo(e, T, h), \A x \in S : f[x] = e[x]
  PROVE  \A s \in SUBSET S : g[s] = h[s]
<1> DEFINE B == {s \in SUBSET S : g[s] # h[s]}
<1> SUFFICES ASSUME B # {} PROVE FALSE
  OBVIOUS
<1>1. PICK U \in B : \A V \in B : V \subseteq U => V = U
  <2>1. B \in SUBSET SUBSET S
    OBVIOUS
  <2> HIDE DEF B
  <2> QED BY <2>1, SmallestSubset
<1>2. U # {}
  <2>1. g[{}] = 0 /\ h[{}] = 0
    BY SumsToFacts
  <2> QED BY <1>1, <2>1
<1> DEFINE p == Pick(U)
<1>3. p \in U /\ U \ {p} \in SUBSET S /\ g[U] = f[p] + g[U \ {p}] /\ h[U] = e[p] + h[U \ {p}]
  <2>1. U \in SUBSET S /\ U \in SUBSET T
    BY <1>1
  <2>2. p \in U /\ U \ {p} \in SUBSET S /\ g[U] = f[p] + g[U \ {p}]
    BY <1>2, <2>1, SumsToFacts
  <2>3. h[U] = e[p] + h[U \ {p}]
    BY <1>2, <2>1, SumsToTake
  <2> QED BY <2>2, <2>3
<1> HIDE DEF p
<1>4. g[U \ {p}] = h[U \ {p}]
  BY <1>1, <1>3
<1> QED BY <1>1, <1>3, <1>4

LEMMA SumsExist ==
  ASSUME NEW S, IsFiniteSet(S), NEW f \in [S -> Int]
  PROVE  \E g \in [SUBSET S -> Int] : SumsTo(f, S, g)
<1> DEFINE Sums(U) == {g \in [SUBSET U -> Int] : SumsTo(f, U, g)}
           B == {U \in SUBSET S : Sums(U) = {}}
<1> SUFFICES ASSUME B # {} PROVE FALSE
  <2>1. S \notin B
    OBVIOUS
  <2> QED BY <2>1
<1>1. PICK U \in B : \A V \in B : V \subseteq U => V = U
  <2>1. B \in SUBSET SUBSET S
    OBVIOUS
  <2> HIDE DEF B
  <2> QED BY <2>1, SmallestSubset
<1> DEFINE G(W) == CHOOSE g : g \in Sums(W)
           sum(W) == IF W = {} THEN 0 ELSE f[Pick(W)] + G(W \ {Pick(W)})[W \ {Pick(W)}]
           h == [W \in SUBSET U |-> sum(W)]
<1>2. ASSUME NEW W \in SUBSET U, W # U
      PROVE  IsFiniteSet(W) /\ G(W) \in [SUBSET W -> Int] /\ SumsTo(f, W, G(W))
  <2>1. Sums(W) # {}
    BY <1>1, <1>2
  <2>2. G(W) \in Sums(W)
    BY <2>1
  <2> QED BY <1>2, <2>2, FS_Subset
<1>3. ASSUME NEW W \in SUBSET U, W # {}
      PROVE  /\ Pick(W) \in W /\ W \ {Pick(W)} \in SUBSET U /\ W \ {Pick(W)} # U
             /\ f[Pick(W)] \in Int
  BY <1>3 DEF Pick
<1>4. h \in [SUBSET U -> Int]
  <2>1. ASSUME NEW W \in SUBSET U PROVE sum(W) \in Int
    <3>1. CASE W = {}
      BY <3>1
    <3>2. CASE W # {}
      <4> DEFINE V == W \ {Pick(W)}
      <4>1. V \in SUBSET U /\ V # U /\ f[Pick(W)] \in Int
        BY <1>3, <3>2
      <4>2. G(V) \in [SUBSET V -> Int]
        BY <1>2, <4>1
      <4> HIDE DEF V, G
      <4>3. G(V)[V] \in Int
        BY <4>2
      <4> QED BY <3>2, <4>1, <4>3 DEF V
    <3> QED BY <3>1, <3>2
  <2> QED BY <2>1
<1>5. ASSUME NEW W \in SUBSET U, W # U PROVE h[W] = G(W)[W]
  <2>1. CASE W = {}
    BY <1>2, <1>5, <2>1, SumsToFacts
  <2>2. CASE W # {}
    <3> DEFINE V == W \ {Pick(W)}
    <3>1. V \in SUBSET U /\ V # U /\ V \subseteq W
      BY <1>3, <2>2
    <3>2. /\ IsFiniteSet(V) /\ SumsTo(f, V, G(V)) /\ SumsTo(f, W, G(W))
      BY <1>2, <1>5, <3>1
    <3> HIDE DEF G
    <3>3. G(W)[W] = f[Pick(W)] + G(W)[V]
      <4> DEFINE gw == G(W)
      <4>1. SumsTo(f, W, gw) /\ W \in SUBSET W
        BY <3>2
      <4> HIDE DEF gw
      <4>2. \A s \in SUBSET W : s # {} => gw[s] = f[Pick(s)] + gw[s \ {Pick(s)}]
        BY <4>1, SumsToFacts
      <4>3. gw[W] = f[Pick(W)] + gw[W \ {Pick(W)}]
        BY <2>2, <4>2
      <4> QED BY <4>3 DEF gw
    <3>4. G(V)[V] = G(W)[V]
      <4> DEFINE gv == G(V)
                 gw == G(W)
      <4>1. SumsTo(f, V, gv) /\ SumsTo(f, W, gw) /\ IsFiniteSet(V) /\ V \subseteq W
        BY <3>1, <3>2
      <4> HIDE DEF V, gv, gw
      <4>2. \A v \in SUBSET V : gv[v] = gw[v]
        BY <4>1, SumsAgree
      <4>3. gv[V] = gw[V]
        BY <4>2
      <4> QED BY <4>3 DEF gv, gw
    <3> QED BY <2>2, <3>3, <3>4
  <2> QED BY <2>1, <2>2
<1>6. ASSUME NEW W \in SUBSET U
      PROVE  h[W] = IF W = {} THEN 0 ELSE f[Pick(W)] + h[W \ {Pick(W)}]
  <2>1. CASE W = {}
    BY <2>1
  <2>2. CASE W # {}
    <3>1. W \ {Pick(W)} \in SUBSET U /\ W \ {Pick(W)} # U
      BY <1>3, <2>2
    <3>2. h[W \ {Pick(W)}] = G(W \ {Pick(W)})[W \ {Pick(W)}]
      BY <1>5, <3>1
    <3> QED BY <2>2, <3>2
  <2> QED BY <2>1, <2>2
<1>7. DOMAIN h = SUBSET U
  OBVIOUS
<1> HIDE DEF h
<1>8. SumsTo(f, U, h)
  BY <1>4, <1>6 DEF SumsTo
<1>9. h \in Sums(U)
  BY <1>4, <1>8
<1> QED BY <1>1, <1>9

(* What SumFunctionOnSet computes.                                         *)
LEMMA SumIsSum ==
  ASSUME NEW S, IsFiniteSet(S), NEW f, \A x \in S : f[x] \in Int
  PROVE  \E g \in [SUBSET S -> Int] : SumsTo(f, S, g) /\ SumFunctionOnSet(f, S) = g[S]
<1> DEFINE e == [x \in S |-> f[x]]
           c == CHOOSE g : SumsTo(f, S, g)
<1>1. PICK k \in [SUBSET S -> Int] : SumsTo(e, S, k)
  BY SumsExist
<1>2. SumsTo(f, S, k)
  <2>1. \A s \in SUBSET S : s # {} => e[Pick(s)] = f[Pick(s)]
    BY DEF Pick
  <2>2. \A s \in SUBSET S : k[s] = IF s = {} THEN 0 ELSE f[Pick(s)] + k[s \ {Pick(s)}]
    BY <1>1, <2>1 DEF SumsTo
  <2> QED BY <2>2 DEF SumsTo
<1>3. SumsTo(f, S, c)
  BY <1>2
<1>4. SumFunctionOnSet(f, S) = c[S]
  BY DEF SumFunctionOnSet, FoldFunctionOnSet, MapThenFoldSet, SumsTo, Pick
<1> HIDE DEF c
<1>5. \A s \in SUBSET S : c[s] = k[s]
  BY <1>2, <1>3, SumsAgree
<1>6. c \in [SUBSET S -> Int]
  BY <1>3, <1>5 DEF SumsTo
<1> QED BY <1>3, <1>4, <1>6

(* The sum is a number, nothing sums to 0, an element counts once, whenever*)
(* it is taken, and the values elsewhere do not matter.                    *)
LEMMA SumFacts ==
  ASSUME NEW S, IsFiniteSet(S), NEW f, \A x \in S : f[x] \in Int
  PROVE  /\ SumFunctionOnSet(f, S) \in Int
         /\ SumFunctionOnSet(f, {}) = 0
         /\ \A x \in S : SumFunctionOnSet(f, S) = f[x] + SumFunctionOnSet(f, S \ {x})
         /\ \A e : (\A x \in S : e[x] = f[x]) => SumFunctionOnSet(e, S) = SumFunctionOnSet(f, S)
<1>1. PICK g \in [SUBSET S -> Int] : SumsTo(f, S, g) /\ SumFunctionOnSet(f, S) = g[S]
  BY SumIsSum
<1>2. ASSUME NEW T \in SUBSET S PROVE SumFunctionOnSet(f, T) = g[T]
  <2>1. IsFiniteSet(T) /\ \A x \in T : f[x] \in Int
    BY FS_Subset
  <2>2. PICK h \in [SUBSET T -> Int] : SumsTo(f, T, h) /\ SumFunctionOnSet(f, T) = h[T]
    BY <2>1, SumIsSum
  <2>3. \A s \in SUBSET T : h[s] = g[s]
    BY <1>1, <2>1, <2>2, SumsAgree
  <2> QED BY <2>2, <2>3
<1>3. SumFunctionOnSet(f, {}) = 0
  BY <1>1, <1>2, SumsToFacts
<1> DEFINE B == {T \in SUBSET S : \E x \in T : g[T] # f[x] + g[T \ {x}]}
<1>4. B = {}
  <2> SUFFICES ASSUME B # {} PROVE FALSE
    OBVIOUS
  <2>1. PICK U \in B : \A V \in B : V \subseteq U => V = U
    <3>1. B \in SUBSET SUBSET S
      OBVIOUS
    <3> HIDE DEF B
    <3> QED BY <3>1, SmallestSubset
  <2>2. PICK x \in U : g[U] # f[x] + g[U \ {x}]
    BY <2>1
  <2> DEFINE p == Pick(U)
  <2>3. U \in SUBSET S /\ p \in U /\ g[U] = f[p] + g[U \ {p}]
    BY <1>1, <2>1, <2>2, SumsToFacts
  <2> HIDE DEF p
  <2>4. x # p
    BY <2>2, <2>3
  <2>5. U \ {p} \notin B /\ U \ {x} \notin B
    BY <2>1, <2>2, <2>3
  <2>6. /\ g[U \ {p}] = f[x] + g[(U \ {p}) \ {x}]
        /\ g[U \ {x}] = f[p] + g[(U \ {x}) \ {p}]
    BY <2>2, <2>3, <2>4, <2>5
  <2>7. (U \ {p}) \ {x} = (U \ {x}) \ {p}
    OBVIOUS
  <2>8. f[x] \in Int /\ f[p] \in Int /\ g[(U \ {x}) \ {p}] \in Int
    BY <2>2, <2>3
  <2> DEFINE r == g[(U \ {x}) \ {p}]
  <2>9. g[U] = f[p] + (f[x] + r) /\ g[U \ {x}] = f[p] + r
    BY <2>3, <2>6, <2>7
  <2>10. f[p] + (f[x] + r) = f[x] + (f[p] + r)
    BY <2>8
  <2> QED BY <2>2, <2>9, <2>10
<1>5. ASSUME NEW x \in S PROVE SumFunctionOnSet(f, S) = f[x] + SumFunctionOnSet(f, S \ {x})
  <2>1. S \notin B
    BY <1>4
  <2>2. g[S] = f[x] + g[S \ {x}]
    BY <2>1
  <2>3. S \ {x} \in SUBSET S
    OBVIOUS
  <2> HIDE DEF B
  <2>4. SumFunctionOnSet(f, S \ {x}) = g[S \ {x}]
    BY <1>2, <2>3
  <2> QED BY <1>1, <2>2, <2>4
<1>6. ASSUME NEW e, \A x \in S : e[x] = f[x]
      PROVE  SumFunctionOnSet(e, S) = SumFunctionOnSet(f, S)
  <2>1. PICK h \in [SUBSET S -> Int] : SumsTo(e, S, h) /\ SumFunctionOnSet(e, S) = h[S]
    BY <1>6, SumIsSum
  <2>2. \A s \in SUBSET S : h[s] = g[s]
    BY <1>1, <1>6, <2>1, SumsAgree
  <2> QED BY <1>1, <2>1, <2>2
<1> QED BY <1>1, <1>3, <1>5, <1>6

(* How a sum changes when nothing changes, an element comes, goes or is    *)
(* given another value.                                                    *)
LEMMA SumSame ==
  ASSUME NEW S, IsFiniteSet(S), NEW f, NEW e, \A x \in S : f[x] \in Int /\ e[x] = f[x]
  PROVE  SumFunctionOnSet(e, S) = SumFunctionOnSet(f, S) /\ SumFunctionOnSet(f, S) \in Int
BY SumFacts

LEMMA SumTake ==
  ASSUME NEW S, IsFiniteSet(S), NEW f, \A x \in S : f[x] \in Int, NEW t \in S
  PROVE  SumFunctionOnSet(f, S) = f[t] + SumFunctionOnSet(f, S \ {t})
BY SumFacts

LEMMA SumWith ==
  ASSUME NEW S, IsFiniteSet(S), NEW f, NEW e, \A x \in S : f[x] \in Int /\ e[x] = f[x],
         NEW t, t \notin S, e[t] \in Int
  PROVE  SumFunctionOnSet(e, S \cup {t}) = SumFunctionOnSet(f, S) + e[t]
<1> DEFINE T == S \cup {t}
<1>1. IsFiniteSet(T) /\ \A x \in T : e[x] \in Int
  BY FS_AddElement
<1>2. t \in T /\ T \ {t} = S
  OBVIOUS
<1> HIDE DEF T
<1>3. SumFunctionOnSet(e, T) = e[t] + SumFunctionOnSet(e, T \ {t})
  BY <1>1, <1>2, SumTake
<1>4. SumFunctionOnSet(e, S) = SumFunctionOnSet(f, S) /\ SumFunctionOnSet(f, S) \in Int
  BY SumSame
<1>5. SumFunctionOnSet(e, T) = e[t] + SumFunctionOnSet(f, S)
  BY <1>2, <1>3, <1>4
<1>6. e[t] + SumFunctionOnSet(f, S) = SumFunctionOnSet(f, S) + e[t]
  BY <1>4
<1> QED BY <1>5, <1>6 DEF T

LEMMA SumWithout ==
  ASSUME NEW S, IsFiniteSet(S), NEW f, NEW e, \A x \in S : f[x] \in Int,
         NEW t \in S, \A x \in S \ {t} : e[x] = f[x]
  PROVE  /\ SumFunctionOnSet(e, S \ {t}) = SumFunctionOnSet(f, S) - f[t]
         /\ SumFunctionOnSet(f, S) \in Int
<1> DEFINE T == S \ {t}
<1>1. IsFiniteSet(T) /\ \A x \in T : f[x] \in Int /\ e[x] = f[x]
  BY FS_RemoveElement
<1> HIDE DEF T
<1>2. SumFunctionOnSet(e, T) = SumFunctionOnSet(f, T) /\ SumFunctionOnSet(f, T) \in Int
  BY <1>1, SumSame
<1>3. SumFunctionOnSet(f, S) = f[t] + SumFunctionOnSet(f, T)
  BY SumTake DEF T
<1>4. f[t] \in Int
  OBVIOUS
<1> QED BY <1>2, <1>3, <1>4 DEF T

LEMMA SumExchanged ==
  ASSUME NEW S, IsFiniteSet(S), NEW f, NEW e, \A x \in S : f[x] \in Int,
         NEW t \in S, \A x \in S \ {t} : e[x] = f[x], e[t] \in Int
  PROVE  SumFunctionOnSet(e, S) = SumFunctionOnSet(f, S) - f[t] + e[t]
<1>1. \A x \in S : e[x] \in Int
  OBVIOUS
<1>2. SumFunctionOnSet(e, S) = e[t] + SumFunctionOnSet(e, S \ {t})
  BY <1>1, SumTake
<1>3. /\ SumFunctionOnSet(e, S \ {t}) = SumFunctionOnSet(f, S) - f[t]
      /\ SumFunctionOnSet(f, S) \in Int
  BY SumWithout
<1>4. f[t] \in Int
  OBVIOUS
<1> QED BY <1>2, <1>3, <1>4

---------------------------------------------------------------------------
USE TxIdAssumption, PsdAssumption, KindAssumption, NoPsdAssumption, BoundAssumption

(* Signals move from stage to stage one at a time.                         *)
Signal == [stage : Stage, psd : Nat, captured : Nat]
Sums == [all : Int, noise : Int, rx : Int]

LEMMA StageMoves ==
  ASSUME TypeOK, NEW t \in TxId, NEW s \in Stage, At(t, s)
  PROVE  /\ signal' \in [TxId -> Signal] /\ signal'[t].stage = s
         /\ signal'[t].psd = signal[t].psd /\ signal'[t].captured = signal[t].captured
         /\ \A u \in TxId \ {t} : signal'[u] = signal[u]
<1>1. signal \in [TxId -> Signal]
  BY DEF TypeOK, Signal
<1>2. signal' = [signal EXCEPT ![t] = [signal[t] EXCEPT !.stage = s]]
  BY DEF At
<1>3. [signal[t] EXCEPT !.stage = s] \in Signal
  BY <1>1 DEF Signal
<1> QED BY <1>1, <1>2, <1>3 DEF Signal

(* What an interferer adds is a number.                                    *)
LEMMA SharesAreNumbers ==
  ASSUME IInv
  PROVE  /\ IsFiniteSet(Interfering) /\ Interfering \subseteq TxId
         /\ \A t \in TxId : signal[t].captured \in Nat /\ signal[t].psd \in Nat
                            /\ signal[t].stage \in Stage
         /\ \A t \in Interfering : Share(t) \in Nat
<1>1. \A t \in TxId : signal[t] \in Signal
  BY DEF IInv, TypeOK, Signal
<1>2. IsFiniteSet(Interfering) /\ Interfering \subseteq TxId
  <2>1. Interfering \in SUBSET TxId
    BY DEF Interfering
  <2> QED BY <2>1, FS_Subset
<1>3. \A t \in TxId : signal[t].stage = "noise" => rxNoisePsdMap[t] \in Nat
  BY DEF IInv, TypeOK, MapOK, In
<1> QED BY <1>1, <1>2, <1>3 DEF Signal, Share, In

(* Nothing comes to or goes from the interferers, or changes in them.      *)
LEMMA NoiseKept ==
  ASSUME IInv, ~ leaked' => ~ leaked, interference'.noise = interference.noise,
         Interfering' = Interfering, \A u \in Interfering : Share(u)' = Share(u)
  PROVE  ~ aborted => NoiseIsShares'
<1> DEFINE f == [u \in TxId |-> Share(u)]
           e == [u \in TxId |-> Share(u)']
<1>1. IsFiniteSet(Interfering) /\ \A u \in Interfering : f[u] \in Int /\ e[u] = f[u]
  BY SharesAreNumbers
<1>2. f = [u \in TxId |-> Share(u)] /\ e = [u \in TxId |-> Share(u)]'
  OBVIOUS
<1> HIDE DEF f, e
<1>3. SumFunctionOnSet(e, Interfering) = SumFunctionOnSet(f, Interfering)
  BY <1>1, SumSame
<1> QED BY <1>2, <1>3 DEF IInv, Undisturbed, NoiseIsShares

(* One interferer comes, with what it adds.                                *)
LEMMA NoiseAdded ==
  ASSUME IInv, NEW t \in TxId \ Interfering, leaked' = leaked,
         interference'.noise = interference.noise + Share(t)', Share(t)' \in Int,
         Interfering' = Interfering \cup {t}, \A u \in Interfering : Share(u)' = Share(u)
  PROVE  ~ aborted => NoiseIsShares'
<1> DEFINE f == [u \in TxId |-> Share(u)]
           e == [u \in TxId |-> Share(u)']
<1>1. /\ IsFiniteSet(Interfering) /\ \A u \in Interfering : f[u] \in Int /\ e[u] = f[u]
      /\ e[t] = Share(t)' /\ e[t] \in Int
  BY SharesAreNumbers
<1>2. f = [u \in TxId |-> Share(u)] /\ e = [u \in TxId |-> Share(u)]'
  OBVIOUS
<1> HIDE DEF f, e
<1>3. SumFunctionOnSet(e, Interfering \cup {t}) = SumFunctionOnSet(f, Interfering) + e[t]
  BY <1>1, SumWith
<1> QED BY <1>1, <1>2, <1>3 DEF IInv, Undisturbed, NoiseIsShares

(* One interferer goes, with what it had added.                            *)
LEMMA NoiseRemoved ==
  ASSUME IInv, NEW t \in Interfering, ~ leaked' => ~ leaked,
         ~ leaked' => interference'.noise = interference.noise - Share(t),
         Interfering' = Interfering \ {t}, \A u \in Interfering \ {t} : Share(u)' = Share(u)
  PROVE  ~ aborted => NoiseIsShares'
<1> DEFINE f == [u \in TxId |-> Share(u)]
           e == [u \in TxId |-> Share(u)']
<1>1. /\ IsFiniteSet(Interfering) /\ \A u \in Interfering : f[u] \in Int
      /\ \A u \in Interfering \ {t} : e[u] = f[u]
      /\ f[t] = Share(t)
  BY SharesAreNumbers
<1>2. f = [u \in TxId |-> Share(u)] /\ e = [u \in TxId |-> Share(u)]'
  OBVIOUS
<1> HIDE DEF f, e
<1>3. SumFunctionOnSet(e, Interfering \ {t}) = SumFunctionOnSet(f, Interfering) - f[t]
  BY <1>1, SumWithout
<1> QED BY <1>1, <1>2, <1>3 DEF IInv, Undisturbed, NoiseIsShares

(* One interferer is exchanged.                                            *)
LEMMA NoiseExchanged ==
  ASSUME IInv, NEW t \in Interfering, leaked' = leaked,
         interference'.noise = interference.noise - Share(t) + Share(t)', Share(t)' \in Int,
         Interfering' = Interfering, \A u \in Interfering \ {t} : Share(u)' = Share(u)
  PROVE  ~ aborted => NoiseIsShares'
<1> DEFINE f == [u \in TxId |-> Share(u)]
           e == [u \in TxId |-> Share(u)']
<1>1. /\ IsFiniteSet(Interfering) /\ \A u \in Interfering : f[u] \in Int
      /\ \A u \in Interfering \ {t} : e[u] = f[u]
      /\ f[t] = Share(t) /\ e[t] = Share(t)' /\ e[t] \in Int
  BY SharesAreNumbers
<1>2. f = [u \in TxId |-> Share(u)] /\ e = [u \in TxId |-> Share(u)]'
  OBVIOUS
<1> HIDE DEF f, e
<1>3. SumFunctionOnSet(e, Interfering) = SumFunctionOnSet(f, Interfering) - f[t] + e[t]
  BY <1>1, SumExchanged
<1> QED BY <1>1, <1>2, <1>3 DEF IInv, Undisturbed, NoiseIsShares

---------------------------------------------------------------------------
(* The steps, one lemma each.  The parts of the invariant, spelled out.    *)
LEMMA Parts ==
  ASSUME IInv
  PROVE  /\ TypeOK /\ MapOK /\ AbortOK
         /\ ~ aborted => LockOK /\ PsdTaken /\ AllIsNoiseAndSignal /\ NoiseIsShares
         /\ signal \in [TxId -> Signal]
         /\ \A t \in TxId : /\ signal[t].stage \in Stage
                            /\ signal[t].psd \in Nat /\ signal[t].captured \in Nat
         /\ interference \in Sums
         /\ interference.all \in Int /\ interference.noise \in Int /\ interference.rx \in Int
BY SharesAreNumbers DEF IInv, Undisturbed, TypeOK, Signal, Sums

(* What the operations of PLC_Interference do to its sums.                 *)
LEMMA StartRxSums ==
  ASSUME NEW i \in Sums, NEW d \in Int
  PROVE  /\ StartRx(i, d) \in Sums
         /\ StartRx(i, d).all = i.all + d /\ StartRx(i, d).noise = i.noise /\ StartRx(i, d).rx = d
<1>1. /\ i = [all |-> i.all, noise |-> i.noise, rx |-> i.rx]
      /\ i.all \in Int /\ i.noise \in Int /\ i.rx \in Int
  BY DEF Sums
<1>2. StartRx(i, d) = [all |-> i.all + d, noise |-> i.noise, rx |-> d]
  <2>1. StartRx(i, d) = [[i EXCEPT !.rx = d] EXCEPT !.all = i.all + d]
    BY <1>1 DEF StartRx
  <2>2. [i EXCEPT !.rx = d] = [all |-> i.all, noise |-> i.noise, rx |-> d]
    BY <1>1
  <2>3. [[all |-> i.all, noise |-> i.noise, rx |-> d] EXCEPT !.all = i.all + d] = [all |-> i.all + d, noise |-> i.noise, rx |-> d]
    BY <1>1
  <2> QED BY <2>1, <2>2, <2>3
<1>3. [all |-> i.all + d, noise |-> i.noise, rx |-> d] \in Sums
  BY <1>1 DEF Sums
<1> QED BY <1>2, <1>3

LEMMA AlterRxSums ==
  ASSUME NEW i \in Sums, NEW d \in Int
  PROVE  /\ AlterRxSignal(i, d) \in Sums
         /\ AlterRxSignal(i, d).all = i.all + d - i.rx /\ AlterRxSignal(i, d).noise = i.noise /\ AlterRxSignal(i, d).rx = d
<1>1. /\ i = [all |-> i.all, noise |-> i.noise, rx |-> i.rx]
      /\ i.all \in Int /\ i.noise \in Int /\ i.rx \in Int
  BY DEF Sums
<1>2. AlterRxSignal(i, d) = [all |-> i.all + d - i.rx, noise |-> i.noise, rx |-> d]
  <2>1. AlterRxSignal(i, d) = [[i EXCEPT !.rx = d] EXCEPT !.all = i.all + d - i.rx]
    BY <1>1 DEF AlterRxSignal
  <2>2. [i EXCEPT !.rx = d] = [all |-> i.all, noise |-> i.noise, rx |-> d]
    BY <1>1
  <2>3. [[all |-> i.all, noise |-> i.noise, rx |-> d] EXCEPT !.all = i.all + d - i.rx] = [all |-> i.all + d - i.rx, noise |-> i.noise, rx |-> d]
    BY <1>1
  <2> QED BY <2>1, <2>2, <2>3
<1>3. [all |-> i.all + d - i.rx, noise |-> i.noise, rx |-> d] \in Sums
  BY <1>1 DEF Sums
<1> QED BY <1>2, <1>3

LEMMA EndRxSums ==
  ASSUME NEW i \in Sums
  PROVE  /\ EndRx(i) \in Sums
         /\ EndRx(i).all = i.all - i.rx /\ EndRx(i).noise = i.noise /\ EndRx(i).rx = i.rx
<1>1. /\ i = [all |-> i.all, noise |-> i.noise, rx |-> i.rx]
      /\ i.all \in Int /\ i.noise \in Int /\ i.rx \in Int
  BY DEF Sums
<1>2. EndRx(i) = [all |-> i.all - i.rx, noise |-> i.noise, rx |-> i.rx]
  BY <1>1 DEF EndRx
<1>3. [all |-> i.all - i.rx, noise |-> i.noise, rx |-> i.rx] \in Sums
  BY <1>1 DEF Sums
<1> QED BY <1>2, <1>3

LEMMA AddNoiseSums ==
  ASSUME NEW i \in Sums, NEW d \in Int
  PROVE  /\ AddNoiseSignal(i, d) \in Sums
         /\ AddNoiseSignal(i, d).all = i.all + d /\ AddNoiseSignal(i, d).noise = i.noise + d /\ AddNoiseSignal(i, d).rx = i.rx
<1>1. /\ i = [all |-> i.all, noise |-> i.noise, rx |-> i.rx]
      /\ i.all \in Int /\ i.noise \in Int /\ i.rx \in Int
  BY DEF Sums
<1>2. AddNoiseSignal(i, d) = [all |-> i.all + d, noise |-> i.noise + d, rx |-> i.rx]
  <2>1. AddNoiseSignal(i, d) = [[i EXCEPT !.noise = i.noise + d] EXCEPT !.all = i.all + d]
    BY <1>1 DEF AddNoiseSignal
  <2>2. [i EXCEPT !.noise = i.noise + d] = [all |-> i.all, noise |-> i.noise + d, rx |-> i.rx]
    BY <1>1
  <2>3. [[all |-> i.all, noise |-> i.noise + d, rx |-> i.rx] EXCEPT !.all = i.all + d] = [all |-> i.all + d, noise |-> i.noise + d, rx |-> i.rx]
    BY <1>1
  <2> QED BY <2>1, <2>2, <2>3
<1>3. [all |-> i.all + d, noise |-> i.noise + d, rx |-> i.rx] \in Sums
  BY <1>1 DEF Sums
<1> QED BY <1>2, <1>3

LEMMA RemoveNoiseSums ==
  ASSUME NEW i \in Sums, NEW d \in Int
  PROVE  /\ RemoveNoiseSignal(i, d) \in Sums
         /\ RemoveNoiseSignal(i, d).all = i.all - d /\ RemoveNoiseSignal(i, d).noise = i.noise - d /\ RemoveNoiseSignal(i, d).rx = i.rx
<1>1. /\ i = [all |-> i.all, noise |-> i.noise, rx |-> i.rx]
      /\ i.all \in Int /\ i.noise \in Int /\ i.rx \in Int
  BY DEF Sums
<1>2. RemoveNoiseSignal(i, d) = [all |-> i.all - d, noise |-> i.noise - d, rx |-> i.rx]
  <2>1. RemoveNoiseSignal(i, d) = [[i EXCEPT !.noise = i.noise - d] EXCEPT !.all = i.all - d]
    BY <1>1 DEF RemoveNoiseSignal
  <2>2. [i EXCEPT !.noise = i.noise - d] = [all |-> i.all, noise |-> i.noise - d, rx |-> i.rx]
    BY <1>1
  <2>3. [[all |-> i.all, noise |-> i.noise - d, rx |-> i.rx] EXCEPT !.all = i.all - d] = [all |-> i.all - d, noise |-> i.noise - d, rx |-> i.rx]
    BY <1>1
  <2> QED BY <2>1, <2>2, <2>3
<1>3. [all |-> i.all - d, noise |-> i.noise - d, rx |-> i.rx] \in Sums
  BY <1>1 DEF Sums
<1> QED BY <1>2, <1>3

(* A signal is sent; it has not arrived.                                   *)
LEMMA StartStep ==
  ASSUME IInv, NEW t \in TxId, NEW psd \in Psd[t], TransmissionStart(t, psd)
  PROVE  IInv'
<1>1. /\ signal[t].stage = "none" /\ sent < MaxSignals /\ sent' = sent + 1
      /\ signal' = [signal EXCEPT ![t] = [stage |-> "onTheWay", psd |-> psd, captured |-> psd]]
      /\ UNCHANGED <<kind, state, locked_txId, rxNoisePsdMap, interference, missed, leaked, mismatch, altered, aborted>>
  BY DEF TransmissionStart, In, history
<1>2. psd \in Nat
  OBVIOUS
<1>3. [stage |-> "onTheWay", psd |-> psd, captured |-> psd] \in Signal
  BY <1>2 DEF Signal, Stage
<1>4. /\ signal' \in [TxId -> Signal] /\ signal'[t].stage = "onTheWay"
      /\ signal'[t].psd = signal'[t].captured /\ \A u \in TxId \ {t} : signal'[u] = signal[u]
  BY <1>1, <1>3, Parts
<1>5. TypeOK'
  BY <1>1, <1>4, Parts DEF TypeOK, Signal, Sums
<1>6. ~ aborted => LockOK'
  BY <1>1, <1>4, Parts DEF LockOK, In
<1>7. ~ aborted => PsdTaken'
  BY <1>1, <1>4, Parts DEF PsdTaken, Share, In
<1>8. MapOK' /\ AbortOK'
  BY <1>1, <1>4, Parts DEF MapOK, AbortOK, In
<1>9. Received' = Received /\ Interfering' = Interfering
  BY <1>1, <1>4 DEF Received, Interfering, In
<1>10. ~ aborted => AllIsNoiseAndSignal'
  BY <1>1, <1>9, Parts DEF AllIsNoiseAndSignal
<1>11. ~ aborted => NoiseIsShares'
  <2>1. \A u \in Interfering : Share(u)' = Share(u)
    BY <1>1, <1>4 DEF Interfering, Share, In
  <2> QED BY <1>1, <1>9, <2>1, NoiseKept
<1> QED BY <1>1, <1>5, <1>6, <1>7, <1>8, <1>10, <1>11 DEF IInv, Undisturbed

(* A signal arrives: the PHY locks on it, or it interferes.                *)
LEMMA ArriveStep ==
  ASSUME IInv, NEW t \in TxId, NEW detectable, DoStartRx(t, detectable)
  PROVE  IInv'
<1>1. signal[t].stage = "onTheWay" /\ UNCHANGED <<kind, sent, missed, leaked, mismatch, altered, aborted>>
  BY DEF DoStartRx, In, history
<1>2. ASSUME CanLock(detectable) PROVE IInv'
  <2>1. /\ state = "IDLE" /\ state' = "RX" /\ locked_txId' = 0 /\ At(t, "preamble")
        /\ UNCHANGED <<rxNoisePsdMap, interference>>
    BY <1>2 DEF DoStartRx, CanLock
  <2>2. /\ signal' \in [TxId -> Signal] /\ signal'[t].stage = "preamble"
        /\ signal'[t].psd = signal[t].psd /\ signal'[t].captured = signal[t].captured
        /\ \A u \in TxId \ {t} : signal'[u] = signal[u]
    BY <2>1, Parts, StageMoves DEF Stage
  <2>3. TypeOK'
    BY <1>1, <2>1, <2>2, Parts DEF TypeOK, Signal, Sums
  <2>4. ~ aborted => LockOK'
    BY <2>1, <2>2, Parts DEF LockOK, In
  <2>5. ~ aborted => PsdTaken'
    BY <1>1, <2>1, <2>2, Parts DEF PsdTaken, Share, In
  <2>6. MapOK' /\ AbortOK'
    BY <1>1, <2>1, <2>2, Parts DEF MapOK, AbortOK, In
  <2>7. Received' = Received /\ Interfering' = Interfering
    BY <1>1, <2>2 DEF Received, Interfering, In
  <2>8. ~ aborted => AllIsNoiseAndSignal'
    BY <1>1, <2>1, <2>7, Parts DEF AllIsNoiseAndSignal
  <2>9. ~ aborted => NoiseIsShares'
    <3>1. \A u \in Interfering : Share(u)' = Share(u)
      BY <1>1, <2>1, <2>2 DEF Interfering, Share, In
    <3> QED BY <1>1, <2>1, <2>7, <3>1, NoiseKept
  <2> QED BY <1>1, <2>3, <2>4, <2>5, <2>6, <2>8, <2>9 DEF IInv, Undisturbed
<1>3. ASSUME ~ CanLock(detectable) PROVE IInv'
  <2> DEFINE c == signal[t].captured
  <2>1. /\ rxNoisePsdMap' = [rxNoisePsdMap EXCEPT ![t] = c]
        /\ interference' = AddNoiseSignal(interference, c)
        /\ At(t, "noise") /\ UNCHANGED <<state, locked_txId>>
    BY <1>3 DEF DoStartRx
  <2>2. /\ signal' \in [TxId -> Signal] /\ signal'[t].stage = "noise"
        /\ signal'[t].psd = signal[t].psd /\ signal'[t].captured = c
        /\ \A u \in TxId \ {t} : signal'[u] = signal[u]
    BY <2>1, Parts, StageMoves DEF Stage
  <2>3. c \in Nat
    BY Parts
  <2> HIDE DEF c
  <2>4. /\ interference' \in Sums
        /\ interference'.all = interference.all + c /\ interference'.noise = interference.noise + c
        /\ interference'.rx = interference.rx
    <3>1. interference \in Sums
      BY Parts
    <3> QED BY <2>1, <2>3, <3>1, AddNoiseSums
  <2>5. /\ rxNoisePsdMap' \in [TxId -> Nat \cup {NoPsd}] /\ rxNoisePsdMap'[t] = c
        /\ \A u \in TxId \ {t} : rxNoisePsdMap'[u] = rxNoisePsdMap[u]
    BY <2>1, <2>3, Parts DEF TypeOK
  <2>6. TypeOK'
    BY <1>1, <2>1, <2>2, <2>4, <2>5, Parts DEF TypeOK, Signal, Sums
  <2>7. ~ aborted => LockOK'
    BY <1>1, <2>1, <2>2, Parts DEF LockOK, In
  <2>8. ~ aborted => PsdTaken'
    BY <1>1, <2>1, <2>2, <2>4, <2>5, Parts DEF PsdTaken, Share, In, c
  <2>9. MapOK'
    BY <1>1, <2>1, <2>2, <2>3, <2>5, Parts DEF MapOK, In
  <2>a. AbortOK'
    BY <1>1, <2>1, <2>2, Parts DEF AbortOK, TypeOK, In
  <2>10. Received' = Received /\ Interfering' = Interfering \cup {t} /\ t \notin Interfering
    BY <1>1, <2>2 DEF Received, Interfering, In
  <2>11. ~ aborted => AllIsNoiseAndSignal'
    BY <1>1, <2>3, <2>4, <2>10, Parts DEF AllIsNoiseAndSignal
  <2>12. ~ aborted => NoiseIsShares'
    <3>1. Share(t)' = c /\ \A u \in Interfering : Share(u)' = Share(u)
      BY <1>1, <2>2, <2>5 DEF Interfering, Share, In
    <3>2. interference'.noise = interference.noise + c /\ c \in Int
      BY <2>3, <2>4
    <3> QED BY <1>1, <2>10, <3>1, <3>2, NoiseAdded
  <2> QED BY <1>1, <2>6, <2>7, <2>8, <2>9, <2>a, <2>11, <2>12 DEF IInv, Undisturbed
<1> QED BY <1>2, <1>3

(* The preamble is over: the reception starts.                             *)
LEMMA PreambleStep ==
  ASSUME IInv, NEW t \in TxId, PreambleDetectionSuccessful(t)
  PROVE  IInv'
<1> DEFINE c == signal[t].captured
           next == IF kind = "errorRate" THEN "payload" ELSE "header"
<1>1. /\ signal[t].stage = "preamble" /\ locked_txId' = t /\ At(t, next)
      /\ interference' = StartRx(interference, c)
      /\ UNCHANGED <<kind, state, rxNoisePsdMap, sent, missed, leaked, mismatch, altered, aborted>>
  BY DEF PreambleDetectionSuccessful, In, history
<1>2. /\ signal' \in [TxId -> Signal] /\ signal'[t].stage = next
      /\ signal'[t].psd = signal[t].psd /\ signal'[t].captured = c
      /\ \A u \in TxId \ {t} : signal'[u] = signal[u]
  BY <1>1, Parts, StageMoves DEF Stage
<1>3. c \in Nat
  BY Parts
<1>n. next \in {"header", "payload"} /\ (kind = "errorRate" => next = "payload")
  OBVIOUS
<1> HIDE DEF c, next
<1>4. /\ interference' \in Sums
      /\ interference'.all = interference.all + c /\ interference'.noise = interference.noise
      /\ interference'.rx = c
  <2>1. interference \in Sums
    BY Parts
  <2> QED BY <1>1, <1>3, <2>1, StartRxSums
<1>5. TypeOK'
  BY <1>1, <1>2, <1>4, Parts DEF TypeOK, Signal, Sums
<1>6. ~ aborted => LockOK'
  BY <1>1, <1>2, <1>n, Parts DEF LockOK, In
<1>7. ~ aborted => PsdTaken'
  BY <1>1, <1>2, <1>4, <1>n, Parts DEF PsdTaken, LockOK, Share, In, c
<1>8. MapOK' /\ AbortOK'
  BY <1>1, <1>2, <1>n, Parts DEF MapOK, AbortOK, In
<1>9. (~ aborted => Received = {}) /\ t \in Received' /\ Interfering' = Interfering
  <2>1. ~ aborted => \A u \in TxId \ {t} : ~ In(u, {"header", "payload"})
    BY <1>1, Parts DEF LockOK, In
  <2> QED BY <1>1, <1>2, <1>n, <2>1 DEF Received, Interfering, In
<1>10. ~ aborted => AllIsNoiseAndSignal'
  BY <1>1, <1>3, <1>4, <1>9, Parts DEF AllIsNoiseAndSignal
<1>11. ~ aborted => NoiseIsShares'
  <2>1. \A u \in Interfering : Share(u)' = Share(u)
    BY <1>1, <1>2 DEF Interfering, Share, In
  <2> QED BY <1>1, <1>4, <1>9, <2>1, NoiseKept
<1> QED BY <1>1, <1>5, <1>6, <1>7, <1>8, <1>10, <1>11 DEF IInv, Undisturbed

(* What Missing leaves out.                                                *)
LEMMA MissingFacts ==
  ASSUME IInv, NEW t \in TxId, NEW psd
  PROVE  /\ Missing(t, psd) \subseteq TxId
         /\ \A u \in TxId \ {t} : u \in Missing(t, psd) <=> u \in missed
         /\ t \notin Missing(t, psd) <=> Share(t) = psd
BY Parts DEF Missing, TypeOK

LEMMA HeaderStep ==
  ASSUME IInv, NEW t \in TxId, HeaderReceived(t)
  PROVE  IInv'
<1> DEFINE c == signal[t].captured
           m == Missing(t, signal[t].psd)
<1>1. /\ signal[t].stage = "header" /\ At(t, "payload") /\ missed' = m
      /\ interference' = StartRx(EndRx(interference), c)
      /\ UNCHANGED <<kind, state, locked_txId, rxNoisePsdMap, sent, leaked, mismatch, altered, aborted>>
  BY DEF HeaderReceived, In
<1>2. /\ signal' \in [TxId -> Signal] /\ signal'[t].stage = "payload"
      /\ signal'[t].psd = signal[t].psd /\ signal'[t].captured = c
      /\ \A u \in TxId \ {t} : signal'[u] = signal[u]
  BY <1>1, Parts, StageMoves DEF Stage
<1>3. c \in Nat
  BY Parts
<1>m. /\ m \subseteq TxId /\ \A u \in TxId \ {t} : u \in m <=> u \in missed
      /\ t \notin m <=> c = signal[t].psd
  BY <1>1, MissingFacts DEF Share, In
<1> HIDE DEF c, m
<1>4. /\ interference' \in Sums
      /\ interference'.all = interference.all - interference.rx + c
      /\ interference'.noise = interference.noise /\ interference'.rx = c
  <2>1. interference \in Sums /\ EndRx(interference) \in Sums
    BY Parts, EndRxSums
  <2> QED BY <1>1, <1>3, <2>1, EndRxSums, StartRxSums
<1>5. TypeOK'
  BY <1>1, <1>2, <1>4, <1>m, Parts DEF TypeOK, Signal, Sums
<1>6. ~ aborted => LockOK'
  BY <1>1, <1>2, Parts DEF LockOK, In
<1>7. ~ aborted => PsdTaken'
  BY <1>1, <1>2, <1>4, <1>m, Parts DEF PsdTaken, LockOK, Share, In
<1>8. MapOK' /\ AbortOK'
  BY <1>1, <1>2, Parts DEF MapOK, AbortOK, In
<1>9. t \in Received /\ t \in Received' /\ Interfering' = Interfering
  BY <1>1, <1>2 DEF Received, Interfering, In
<1>10. ~ aborted => AllIsNoiseAndSignal'
  BY <1>1, <1>3, <1>4, <1>9, Parts DEF AllIsNoiseAndSignal
<1>11. ~ aborted => NoiseIsShares'
  <2>1. \A u \in Interfering : Share(u)' = Share(u)
    BY <1>1, <1>2 DEF Interfering, Share, In
  <2> QED BY <1>1, <1>4, <1>9, <2>1, NoiseKept
<1> QED BY <1>1, <1>5, <1>6, <1>7, <1>8, <1>10, <1>11 DEF IInv, Undisturbed

(* The rest of a signal without its header is interference.                *)
LEMMA HeaderFailedStep ==
  ASSUME IInv, NEW t \in TxId, NEW other \in BOOLEAN, HeaderFailed(t, other)
  PROVE  IInv'
<1> DEFINE c == signal[t].captured
           m == Missing(t, signal[t].psd)
           left == IF other THEN interference.all ELSE interference.all - interference.rx
<1>1. /\ signal[t].stage = "header" /\ At(t, "failed") /\ missed' = m /\ state' = "IDLE"
      /\ interference' = AddNoiseSignal(WithoutHeader(other), c)
      /\ mismatch' = (mismatch \/ other)
      /\ UNCHANGED <<kind, locked_txId, rxNoisePsdMap, sent, leaked, altered, aborted>>
  BY DEF HeaderFailed, In
<1>2. /\ signal' \in [TxId -> Signal] /\ signal'[t].stage = "failed"
      /\ signal'[t].psd = signal[t].psd /\ signal'[t].captured = c
      /\ \A u \in TxId \ {t} : signal'[u] = signal[u]
  BY <1>1, Parts, StageMoves DEF Stage
<1>3. c \in Nat
  BY Parts
<1>m. /\ m \subseteq TxId /\ \A u \in TxId \ {t} : u \in m <=> u \in missed
      /\ t \notin m <=> c = signal[t].psd
  BY <1>1, MissingFacts DEF Share, In
<1> HIDE DEF c, m
<1>4. /\ interference' \in Sums
      /\ interference'.all = left + c
      /\ interference'.noise = interference.noise + c
      /\ interference'.rx = interference.rx
  <2>1. interference \in Sums /\ EndRx(interference) \in Sums
    BY Parts, EndRxSums
  <2>2. WithoutHeader(other) = IF other THEN interference ELSE EndRx(interference)
    BY DEF WithoutHeader
  <2>3. /\ WithoutHeader(other) \in Sums
        /\ WithoutHeader(other).all = left
        /\ WithoutHeader(other).noise = interference.noise /\ WithoutHeader(other).rx = interference.rx
    BY <2>1, <2>2, EndRxSums
  <2> HIDE DEF left
  <2> QED BY <1>1, <1>3, <2>3, AddNoiseSums
<1>5. TypeOK'
  BY <1>1, <1>2, <1>4, <1>m, Parts DEF TypeOK, Signal, Sums
<1>6. ~ aborted => LockOK'
  BY <1>1, <1>2, Parts DEF LockOK, In
<1>7. ~ aborted => PsdTaken'
  BY <1>1, <1>2, <1>4, <1>m, Parts DEF PsdTaken, LockOK, Share, In
<1>8. MapOK' /\ AbortOK'
  BY <1>1, <1>2, Parts DEF MapOK, AbortOK, In
<1>9. /\ t \in Received /\ (~ aborted => Received' = {})
      /\ Interfering' = Interfering \cup {t} /\ t \notin Interfering
  <2>1. ~ aborted => \A u \in TxId \ {t} : ~ In(u, {"header", "payload"})
    BY <1>1, Parts DEF LockOK, In
  <2> QED BY <1>1, <1>2, <2>1 DEF Received, Interfering, In
<1>10. ~ aborted => AllIsNoiseAndSignal'
  <2> SUFFICES ASSUME ~ aborted, ~ mismatch', ~ altered PROVE interference'.all = interference'.noise
    BY <1>1, <1>4, <1>9, Parts DEF AllIsNoiseAndSignal, Sums
  <2>1. ~ mismatch /\ ~ other
    BY <1>1
  <2>2. interference.all = interference.noise + interference.rx
    BY <1>9, <2>1, Parts DEF AllIsNoiseAndSignal
  <2>3. interference'.all = interference.all - interference.rx + c
    BY <1>4, <2>1
  <2>4. interference.all \in Int /\ interference.noise \in Int /\ interference.rx \in Int
    BY Parts
  <2>5. interference'.noise = interference.noise + c
    BY <1>4
  <2> QED BY <1>3, <2>2, <2>3, <2>4, <2>5
<1>11. ~ aborted => NoiseIsShares'
  <2>1. Share(t)' = c /\ \A u \in Interfering : Share(u)' = Share(u)
    BY <1>1, <1>2 DEF Interfering, Share, In
  <2> QED BY <1>1, <1>3, <1>4, <1>9, <2>1, NoiseAdded
<1> QED BY <1>1, <1>5, <1>6, <1>7, <1>8, <1>10, <1>11 DEF IInv, Undisturbed

(* A reception ends, in either family of PHYs.                             *)
LEMMA ReceptionEnds ==
  ASSUME IInv, ~ aborted, NEW t \in TxId, In(t, {"payload"}), At(t, "none"), missed' = missed \ {t},
         interference' = EndRx(interference), state' = "IDLE", locked_txId' \in TxId \cup {0},
         UNCHANGED <<kind, rxNoisePsdMap, sent, leaked, mismatch, altered, aborted>>
  PROVE  TypeOK' /\ MapOK' /\ Undisturbed'
<1>1. signal[t].stage = "payload"
  BY DEF In
<1>2. /\ signal' \in [TxId -> Signal] /\ signal'[t].stage = "none"
      /\ \A u \in TxId \ {t} : signal'[u] = signal[u]
  BY Parts, StageMoves DEF Stage
<1>3. /\ interference' \in Sums
      /\ interference'.all = interference.all - interference.rx
      /\ interference'.noise = interference.noise /\ interference'.rx = interference.rx
  BY Parts, EndRxSums
<1>4. TypeOK'
  BY <1>2, <1>3, Parts DEF TypeOK, Signal, Sums
<1>o. \A u \in TxId \ {t} : ~ In(u, {"preamble", "header", "payload"})
  BY <1>1, Parts DEF LockOK, In
<1>5. LockOK'
  BY <1>2, <1>o, Parts DEF LockOK, In
<1>6. PsdTaken'
  BY <1>2, <1>3, <1>o, Parts DEF PsdTaken, Share, In
<1>7. MapOK'
  BY <1>1, <1>2, Parts DEF MapOK, In
<1>8. t \in Received /\ Received' = {} /\ Interfering' = Interfering
  BY <1>1, <1>2, <1>o DEF Received, Interfering, In
<1>9. AllIsNoiseAndSignal'
  BY <1>3, <1>8, Parts DEF AllIsNoiseAndSignal
<1>10. NoiseIsShares'
  <2>1. \A u \in Interfering : Share(u)' = Share(u)
    BY <1>1, <1>2 DEF Interfering, Share, In
  <2> QED BY <1>3, <1>8, <2>1, NoiseKept
<1> QED BY <1>4, <1>5, <1>6, <1>7, <1>9, <1>10 DEF Undisturbed

(* An interferer ends: PLC_ErrorRatePhy removes its entry of the map,      *)
(* PLC_InformationRatePhy the PSD the signal arrived with.                 *)
LEMMA InterferenceEnds ==
  ASSUME IInv, ~ aborted, NEW t \in Interfering, At(t, "none"), missed' = missed \ {t},
         NEW d \in Nat, interference' = RemoveNoiseSignal(interference, d),
         leaked' \in BOOLEAN, leaked => leaked', ~ leaked' => d = Share(t),
         kind = "errorRate" => ~ leaked',
         rxNoisePsdMap' = MapErased(t) \/ (kind # "errorRate" /\ UNCHANGED rxNoisePsdMap),
         UNCHANGED <<kind, state, locked_txId, sent, mismatch, altered, aborted>>
  PROVE  TypeOK' /\ MapOK' /\ Undisturbed'
<1>1. t \in TxId /\ signal[t].stage \in {"noise", "failed"}
  BY DEF Interfering, In
<1>2. /\ signal' \in [TxId -> Signal] /\ signal'[t].stage = "none"
      /\ \A u \in TxId \ {t} : signal'[u] = signal[u]
  BY <1>1, Parts, StageMoves DEF Stage
<1>3. /\ interference' \in Sums
      /\ interference'.all = interference.all - d /\ interference'.noise = interference.noise - d
      /\ interference'.rx = interference.rx
  <2>1. interference \in Sums
    BY Parts
  <2> QED BY <2>1, RemoveNoiseSums
<1>4. /\ rxNoisePsdMap' \in [TxId -> Nat \cup {NoPsd}]
      /\ \A u \in TxId \ {t} : rxNoisePsdMap'[u] = rxNoisePsdMap[u]
      /\ kind = "errorRate" => rxNoisePsdMap'[t] = NoPsd
  BY <1>1, Parts DEF MapErased, TypeOK
<1>5. TypeOK'
  BY <1>2, <1>3, <1>4, Parts DEF TypeOK, Signal, Sums
<1>6. LockOK'
  BY <1>1, <1>2, Parts DEF LockOK, In
<1>7. PsdTaken'
  BY <1>2, <1>3, <1>4, Parts DEF PsdTaken, Share, In
<1>8. MapOK'
  BY <1>1, <1>2, <1>4, Parts DEF MapOK, In
<1>9. Received' = Received /\ Interfering' = Interfering \ {t}
  BY <1>1, <1>2 DEF Received, Interfering, In
<1>10. AllIsNoiseAndSignal'
  BY <1>3, <1>9, Parts DEF AllIsNoiseAndSignal
<1>11. NoiseIsShares'
  <2>1. \A u \in Interfering \ {t} : Share(u)' = Share(u)
    BY <1>2, <1>4 DEF Interfering, Share, In
  <2> QED BY <1>3, <1>9, <2>1, NoiseRemoved
<1> QED BY <1>5, <1>6, <1>7, <1>8, <1>10, <1>11 DEF Undisturbed

(* The end of a signal at PLC_ErrorRatePhy, whatever it is taken for.      *)
LEMMA ErrorRateEndTypes ==
  ASSUME IInv, NEW t \in TxId, ErrorRateEndRx(t)
  PROVE  TypeOK' /\ MapOK' /\ AbortOK'
<1>1. /\ kind = "errorRate" /\ signal[t].stage \in {"payload", "noise"} /\ At(t, "none")
      /\ missed' = missed \ {t} /\ UNCHANGED <<kind, sent, leaked, mismatch, altered>>
      /\ aborted' = (aborted \/ (state = "RX" /\ locked_txId = t /\ In(t, {"noise"})))
  BY DEF ErrorRateEndRx, In
<1>2. /\ signal' \in [TxId -> Signal] /\ signal'[t].stage = "none"
      /\ \A u \in TxId \ {t} : signal'[u] = signal[u]
  BY <1>1, Parts, StageMoves DEF Stage
<1>3. aborted' \in BOOLEAN /\ (aborted => aborted')
  BY <1>1, Parts DEF TypeOK
<1>4. CASE state = "RX" /\ locked_txId = t
  <2>1. /\ state' = "IDLE" /\ locked_txId' = 0 /\ interference' = EndRx(interference)
        /\ UNCHANGED rxNoisePsdMap
    BY <1>4 DEF ErrorRateEndRx
  <2>2. interference' \in Sums
    BY <2>1, Parts, EndRxSums
  <2>3. signal[t].stage = "noise" => t = 0 /\ aborted'
    BY <1>1, <1>4, Parts DEF AbortOK, In
  <2>4. TypeOK'
    BY <1>1, <1>2, <1>3, <2>1, <2>2, Parts DEF TypeOK, Signal, Sums
  <2>5. MapOK'
    BY <1>1, <1>2, <1>3, <2>1, <2>3, Parts DEF MapOK, In
  <2>6. AbortOK'
    <3>1. aborted' => 0 \in TxId
      BY <1>1, <2>3, Parts DEF AbortOK, In
    <3> QED BY <1>1, <2>1, <3>1, Parts DEF AbortOK
  <2> QED BY <2>4, <2>5, <2>6
<1>5. CASE ~ (state = "RX" /\ locked_txId = t)
  <2>1. /\ interference' = (IF rxNoisePsdMap[t] = NoPsd THEN interference
                            ELSE RemoveNoiseSignal(interference, rxNoisePsdMap[t]))
        /\ rxNoisePsdMap' = MapErased(t) /\ UNCHANGED <<state, locked_txId>> /\ aborted' = aborted
    BY <1>1, <1>5, Parts DEF ErrorRateEndRx, TypeOK
  <2>2. rxNoisePsdMap[t] \in Nat \cup {NoPsd}
    BY Parts DEF TypeOK
  <2>3. interference' \in Sums
    <3>1. interference \in Sums
      BY Parts
    <3> QED BY <2>1, <2>2, <3>1, RemoveNoiseSums
  <2>4. /\ rxNoisePsdMap' \in [TxId -> Nat \cup {NoPsd}] /\ rxNoisePsdMap'[t] = NoPsd
        /\ \A u \in TxId \ {t} : rxNoisePsdMap'[u] = rxNoisePsdMap[u]
    BY <2>1, Parts DEF MapErased, TypeOK
  <2>5. TypeOK'
    BY <1>1, <1>2, <1>3, <2>1, <2>3, <2>4, Parts DEF TypeOK, Signal, Sums
  <2>6. MapOK'
    BY <1>1, <1>2, <2>1, <2>4, Parts DEF MapOK, In
  <2>7. AbortOK'
    BY <1>1, <1>2, <1>5, <2>1, Parts DEF AbortOK, TypeOK, In
  <2> QED BY <2>5, <2>6, <2>7
<1> QED BY <1>4, <1>5

LEMMA EndSteps ==
  ASSUME IInv, NEW t \in TxId, ErrorRateEndRx(t) \/ EndRxPayload(t) \/ ScheduledRemoval(t)
  PROVE  IInv'
<1>1. CASE ErrorRateEndRx(t)
  <2> SUFFICES ASSUME ~ aborted' PROVE Undisturbed'
    BY <1>1, ErrorRateEndTypes DEF IInv
  <2>1. /\ kind = "errorRate" /\ signal[t].stage \in {"payload", "noise"} /\ At(t, "none")
        /\ missed' = missed \ {t} /\ UNCHANGED <<kind, sent, leaked, mismatch, altered>>
        /\ aborted' = (aborted \/ (state = "RX" /\ locked_txId = t /\ In(t, {"noise"})))
    BY <1>1 DEF ErrorRateEndRx, In
  <2>2. ~ aborted /\ UNCHANGED aborted
    BY <2>1, Parts DEF TypeOK
  <2>3. (state = "RX" /\ locked_txId = t) <=> signal[t].stage = "payload"
    BY <2>1, <2>2, Parts DEF LockOK, In
  <2>4. CASE signal[t].stage = "payload"
    <3>1. /\ state' = "IDLE" /\ locked_txId' = 0 /\ interference' = EndRx(interference)
          /\ UNCHANGED rxNoisePsdMap
      BY <1>1, <2>3, <2>4 DEF ErrorRateEndRx
    <3>2. In(t, {"payload"}) /\ locked_txId' \in TxId \cup {0}
      BY <2>4, <3>1 DEF In
    <3> QED BY <2>1, <2>2, <3>1, <3>2, ReceptionEnds
  <2>5. CASE signal[t].stage = "noise"
    <3> DEFINE d == rxNoisePsdMap[t]
    <3>1. d \in Nat /\ d = Share(t) /\ t \in Interfering
      BY <2>5, Parts DEF TypeOK, MapOK, Share, Interfering, In
    <3>2. /\ interference' = RemoveNoiseSignal(interference, d) /\ rxNoisePsdMap' = MapErased(t)
          /\ UNCHANGED <<state, locked_txId>>
      BY <1>1, <2>3, <2>5, <3>1 DEF ErrorRateEndRx
    <3>3. leaked' \in BOOLEAN /\ (leaked => leaked') /\ (kind = "errorRate" => ~ leaked')
      BY <2>1, <2>2, Parts DEF TypeOK, MapOK
    <3> HIDE DEF d
    <3> QED BY <2>1, <2>2, <3>1, <3>2, <3>3, InterferenceEnds
  <2> QED BY <2>1, <2>4, <2>5
<1>2. CASE EndRxPayload(t)
  <2>1. /\ kind = "informationRate" /\ UNCHANGED <<kind, altered, aborted>>
        /\ locked_txId' \in TxId \cup {0}
    BY <1>2, Parts DEF EndRxPayload, TypeOK
  <2>2. ~ aborted /\ AbortOK'
    BY <2>1, Parts DEF AbortOK
  <2>3. TypeOK' /\ MapOK' /\ Undisturbed'
    BY <1>2, <2>1, <2>2, ReceptionEnds DEF EndRxPayload
  <2> QED BY <2>2, <2>3 DEF IInv
<1>3. CASE ScheduledRemoval(t)
  <2> DEFINE d == signal[t].captured
  <2>1. /\ kind = "informationRate" /\ signal[t].stage \in {"noise", "failed"} /\ At(t, "none")
        /\ missed' = missed \ {t} /\ interference' = RemoveNoiseSignal(interference, d)
        /\ leaked' = (leaked \/ (In(t, {"noise"}) /\ rxNoisePsdMap[t] # d))
        /\ UNCHANGED <<kind, state, locked_txId, rxNoisePsdMap, sent, mismatch, altered, aborted>>
    BY <1>3 DEF ScheduledRemoval, In
  <2>2. t \in Interfering /\ d \in Nat
    BY <2>1, Parts DEF Interfering, In
  <2>3. leaked' \in BOOLEAN /\ (leaked => leaked') /\ (~ leaked' => d = Share(t))
    BY <2>1, Parts DEF TypeOK, Share, In
  <2>4. kind # "errorRate" /\ ~ aborted /\ AbortOK'
    BY <2>1, Parts DEF AbortOK
  <2> HIDE DEF d
  <2>5. TypeOK' /\ MapOK' /\ Undisturbed'
    BY <2>1, <2>2, <2>3, <2>4, InterferenceEnds
  <2> QED BY <2>4, <2>5 DEF IInv
<1> QED BY <1>1, <1>2, <1>3

(* A PSD changes: of the signal being received, of one in the map, or of   *)
(* one the PHY does not look at.                                           *)
LEMMA UpdateStep ==
  ASSUME IInv, NEW t \in TxId, NEW psd \in Psd[t], DoUpdateRxPsd(t, psd)
  PROVE  IInv'
<1>1. /\ signal[t].stage # "none" /\ signal' = [signal EXCEPT ![t].psd = psd]
      /\ UNCHANGED <<kind, state, locked_txId, sent, mismatch, aborted>>
  BY DEF DoUpdateRxPsd, In
<1>2. psd \in Nat
  OBVIOUS
<1>3. /\ signal' \in [TxId -> Signal] /\ signal'[t].stage = signal[t].stage
      /\ signal'[t].psd = psd /\ signal'[t].captured = signal[t].captured
      /\ \A u \in TxId \ {t} : signal'[u] = signal[u]
  BY <1>1, <1>2, Parts DEF Signal
<1>4. \A u \in TxId : signal'[u].stage = signal[u].stage /\ signal'[u].captured = signal[u].captured
  BY <1>3
<1>5. (~ aborted => LockOK') /\ Received' = Received /\ Interfering' = Interfering
  BY <1>1, <1>4, Parts DEF LockOK, Received, Interfering, In
<1>e. AbortOK' /\ (altered => altered') /\ altered' \in BOOLEAN
  <2>1. altered' = (altered \/ (IsLockedOn(t) /\ t \notin Received))
    BY DEF DoUpdateRxPsd
  <2>2. IsLockedOn(t) /\ t \notin Received => t = 0
    <3>1. CASE kind = "errorRate"
      BY <3>1, Parts DEF AbortOK, IsLockedOn, Received, In
    <3>2. CASE kind # "errorRate"
      BY <3>2, Parts DEF AbortOK, LockOK, IsLockedOn, Received, In
    <3> QED BY <3>1, <3>2
  <2>3. altered' => 0 \in TxId
    BY <2>1, <2>2, Parts DEF AbortOK
  <2>4. AbortOK'
    BY <1>1, <1>4, <2>3, Parts DEF AbortOK, TypeOK, In
  <2> QED BY <2>1, <2>4, Parts DEF TypeOK
<1>6. CASE IsLockedOn(t)
  <2> DEFINE m == Missing(t, psd)
  <2>1. /\ interference' = AlterRxSignal(interference, psd)
        /\ missed' = IF t \in Received THEN missed \ {t} ELSE m
        /\ altered' = (altered \/ t \notin Received)
        /\ UNCHANGED <<rxNoisePsdMap, leaked>>
    BY <1>6 DEF DoUpdateRxPsd
  <2>m. /\ m \subseteq TxId /\ \A u \in TxId \ {t} : u \in m <=> u \in missed
        /\ t \notin m <=> Share(t) = psd
    BY MissingFacts
  <2> HIDE DEF m
  <2>n. /\ missed' \subseteq TxId /\ \A u \in TxId \ {t} : u \in missed' <=> u \in missed
        /\ t \notin Received /\ t \notin missed' => Share(t) = psd
    BY <2>1, <2>m, Parts DEF TypeOK
  <2>2. /\ interference' \in Sums
        /\ interference'.all = interference.all + psd - interference.rx
        /\ interference'.noise = interference.noise /\ interference'.rx = psd
    <3>1. interference \in Sums
      BY Parts
    <3>2. interference' = AlterRxSignal(interference, psd) /\ psd \in Int
      BY <1>2, <2>1
    <3> QED BY <3>1, <3>2, AlterRxSums
  <2>3. ~ aborted => \A u \in TxId \ {t} : u \notin Received
    BY <1>6, Parts DEF IsLockedOn, LockOK, Received, In
  <2>4. TypeOK'
    BY <1>1, <1>3, <1>e, <2>1, <2>2, <2>n, Parts DEF TypeOK, Signal, Sums
  <2>s. \A u \in TxId : Share(u)' = Share(u)
    BY <1>4, <2>1 DEF Share, In
  <2>5. ~ aborted => PsdTaken'
    <3> SUFFICES ASSUME ~ aborted, NEW u \in TxId, u \notin missed'
                 PROVE  /\ In(u, {"onTheWay", "preamble"})' => signal'[u].captured = signal'[u].psd
                        /\ In(u, {"header", "payload"})' => interference'.rx = signal'[u].psd
                        /\ In(u, {"noise", "failed"})' => Share(u)' = signal'[u].psd
      BY DEF PsdTaken
    <3>1. CASE u # t
      BY <1>3, <2>3, <2>n, <2>s, <3>1, Parts DEF PsdTaken, Received, In
    <3>2. CASE u = t /\ t \in Received
      BY <1>3, <2>2, <3>2 DEF Received, In
    <3>3. CASE u = t /\ t \notin Received
      <4>1. Share(t) = psd /\ ~ In(t, {"header", "payload"})
        BY <2>n, <3>3 DEF Received
      <4> QED BY <1>3, <2>s, <3>3, <4>1 DEF Share, In
    <3> QED BY <3>1, <3>2, <3>3
  <2>6. MapOK'
    BY <1>1, <1>4, <2>1, Parts DEF MapOK, In
  <2>7. ~ aborted => AllIsNoiseAndSignal'
    <3> SUFFICES ASSUME ~ aborted, ~ mismatch, ~ altered'
                 PROVE  interference'.all = interference'.noise + interference'.rx /\ Received' # {}
      BY <1>1, <1>e DEF AllIsNoiseAndSignal, AbortOK
    <3>1. ~ altered /\ t \in Received
      BY <2>1
    <3>2. interference.all = interference.noise + interference.rx
      BY <3>1, Parts DEF AllIsNoiseAndSignal
    <3>3. interference.noise \in Int /\ interference.rx \in Int
      BY Parts
    <3> QED BY <1>2, <1>5, <2>2, <3>1, <3>2, <3>3
  <2>8. ~ aborted => NoiseIsShares'
    <3>1. \A u \in Interfering : Share(u)' = Share(u)
      BY <2>s DEF Interfering
    <3> QED BY <1>5, <2>1, <2>2, <3>1, NoiseKept
  <2> QED BY <1>1, <1>5, <1>e, <2>4, <2>5, <2>6, <2>7, <2>8 DEF IInv, Undisturbed
<1>7. CASE ~ IsLockedOn(t) /\ rxNoisePsdMap[t] # NoPsd
  <2> DEFINE d == rxNoisePsdMap[t]
             m == Missing(t, psd)
  <2>1. /\ interference' = AddNoiseSignal(RemoveNoiseSignal(interference, d), psd)
        /\ rxNoisePsdMap' = [rxNoisePsdMap EXCEPT ![t] = psd]
        /\ leaked' = (leaked \/ (~ In(t, {"noise"}) /\ d # psd))
        /\ missed' = IF In(t, {"noise"}) THEN missed \ {t} ELSE m
        /\ altered' = altered
    BY <1>7, Parts DEF DoUpdateRxPsd, MapUpdated, TypeOK
  <2>2. d \in Nat
    BY <1>7, Parts DEF TypeOK
  <2>3. /\ m \subseteq TxId /\ \A u \in TxId \ {t} : u \in m <=> u \in missed
        /\ ~ In(t, {"noise"}) => (t \notin m <=> signal[t].captured = psd)
    BY MissingFacts DEF Share
  <2>4. /\ rxNoisePsdMap' \in [TxId -> Nat \cup {NoPsd}] /\ rxNoisePsdMap'[t] = psd
        /\ \A u \in TxId \ {t} : rxNoisePsdMap'[u] = rxNoisePsdMap[u]
    BY <1>2, <2>1, Parts DEF TypeOK
  <2>5. kind = "errorRate" => In(t, {"noise"}) \/ (t = 0 /\ aborted)
    BY <1>7, Parts DEF MapOK
  <2>6. ~ aborted => t \notin Received
    BY <1>7, Parts DEF IsLockedOn, LockOK, Received, In
  <2>7. leaked' \in BOOLEAN /\ (leaked => leaked') /\ (In(t, {"noise"}) => leaked' = leaked)
    BY <2>1, Parts DEF TypeOK
  <2>a. ~ In(t, {"noise"}) /\ ~ leaked' => d = psd
    BY <2>1
  <2>b. /\ missed' \subseteq TxId /\ \A u \in TxId \ {t} : u \in missed' <=> u \in missed
        /\ ~ In(t, {"noise"}) => (t \notin missed' <=> signal[t].captured = psd)
    BY <2>1, <2>3, Parts DEF TypeOK
  <2> HIDE DEF d, m
  <2>8. /\ interference' \in Sums
        /\ interference'.all = interference.all - d + psd
        /\ interference'.noise = interference.noise - d + psd
        /\ interference'.rx = interference.rx
    <3> DEFINE i == RemoveNoiseSignal(interference, d)
    <3>1. interference \in Sums
      BY Parts
    <3>2. /\ i \in Sums /\ i.all = interference.all - d /\ i.noise = interference.noise - d
          /\ i.rx = interference.rx
      BY <2>2, <3>1, RemoveNoiseSums
    <3>3. interference' = AddNoiseSignal(i, psd)
      BY <2>1
    <3> HIDE DEF i
    <3> QED BY <1>2, <3>2, <3>3, AddNoiseSums
  <2>9. TypeOK'
    BY <1>1, <1>3, <1>e, <2>4, <2>7, <2>8, <2>b, Parts DEF TypeOK, Signal, Sums
  <2>10. ~ aborted => PsdTaken'
    BY <1>1, <1>3, <1>4, <2>4, <2>6, <2>8, <2>b, Parts DEF PsdTaken, Share, Received, In
  <2>11. MapOK'
    BY <1>1, <1>2, <1>4, <2>4, <2>5, <2>7, Parts DEF MapOK, In
  <2>12. ~ aborted => AllIsNoiseAndSignal'
    <3> DEFINE x == IF Received = {} THEN 0 ELSE interference.rx
    <3>1. ~ aborted /\ ~ mismatch /\ ~ altered => interference.all = interference.noise + x
      BY Parts DEF AllIsNoiseAndSignal
    <3>2. interference.noise \in Int /\ interference.rx \in Int
      BY Parts
    <3>3. ~ aborted /\ ~ mismatch /\ ~ altered => interference'.all = interference'.noise + x
      BY <1>2, <2>2, <2>8, <3>1, <3>2
    <3> QED BY <1>1, <1>5, <1>e, <2>1, <2>8, <3>3 DEF AllIsNoiseAndSignal, AbortOK
  <2>13. ~ aborted => NoiseIsShares'
    <3>1. \A u \in Interfering \ {t} : Share(u)' = Share(u)
      BY <1>4, <2>4 DEF Interfering, Share, In
    <3>2. CASE In(t, {"noise"})
      <4>1. t \in Interfering /\ Share(t) = d /\ Share(t)' = psd
        BY <1>4, <2>4, <3>2 DEF Interfering, Share, In, d
      <4>2. leaked' = leaked
        BY <2>7, <3>2
      <4> QED BY <1>2, <1>5, <2>2, <2>8, <3>1, <4>1, <4>2, NoiseExchanged
    <3>3. CASE ~ In(t, {"noise"}) /\ ~ leaked'
      <4>1. \A u \in Interfering : Share(u)' = Share(u)
        BY <1>4, <3>1, <3>3 DEF Interfering, Share, In
      <4>2. interference'.noise = interference.noise
        BY <1>2, <2>8, <2>a, <3>3, Parts
      <4>3. ~ leaked' => ~ leaked
        BY <2>7
      <4> QED BY <1>5, <4>1, <4>2, <4>3, NoiseKept
    <3>4. CASE leaked'
      BY <3>4 DEF NoiseIsShares
    <3> QED BY <3>2, <3>3, <3>4
  <2> QED BY <1>1, <1>5, <1>e, <2>9, <2>10, <2>11, <2>12, <2>13 DEF IInv, Undisturbed
<1>8. CASE ~ IsLockedOn(t) /\ rxNoisePsdMap[t] = NoPsd
  <2> DEFINE m == Missing(t, psd)
  <2>1. missed' = m /\ UNCHANGED <<interference, rxNoisePsdMap, leaked, altered>>
    BY <1>8, Parts DEF DoUpdateRxPsd, TypeOK
  <2>2. /\ m \subseteq TxId /\ \A u \in TxId \ {t} : u \in m <=> u \in missed
        /\ t \notin m <=> Share(t) = psd
    BY MissingFacts
  <2>3. (~ aborted => t \notin Received) /\ ~ In(t, {"noise"}) /\ Share(t) = signal[t].captured
    BY <1>8, Parts DEF IsLockedOn, LockOK, MapOK, Received, Share, In
  <2> HIDE DEF m
  <2>4. TypeOK'
    BY <1>1, <1>3, <1>e, <2>1, <2>2, Parts DEF TypeOK, Signal, Sums
  <2>5. ~ aborted => PsdTaken'
    BY <1>1, <1>3, <1>4, <2>1, <2>2, <2>3, Parts DEF PsdTaken, Share, Received, In
  <2>6. MapOK'
    BY <1>1, <1>4, <2>1, Parts DEF MapOK, In
  <2>7. ~ aborted => AllIsNoiseAndSignal'
    BY <1>1, <1>5, <2>1, Parts DEF AllIsNoiseAndSignal
  <2>8. ~ aborted => NoiseIsShares'
    <3>1. \A u \in Interfering : Share(u)' = Share(u)
      BY <1>4, <2>1 DEF Interfering, Share, In
    <3> QED BY <1>5, <2>1, <3>1, NoiseKept
  <2> QED BY <1>1, <1>5, <1>e, <2>4, <2>5, <2>6, <2>7, <2>8 DEF IInv, Undisturbed
<1> QED BY <1>6, <1>7, <1>8

(* The device sends, or nothing happens.                                   *)
LEMMA OwnSteps ==
  ASSUME IInv, StartTx \/ EndTx \/ UNCHANGED vars
  PROVE  IInv'
<1>1. /\ state' \in {"IDLE", "RX", "TX"} /\ (state' = "RX" <=> state = "RX")
      /\ UNCHANGED <<kind, locked_txId, rxNoisePsdMap, interference, signal, sent, missed, leaked, mismatch, altered, aborted>>
  BY Parts DEF StartTx, EndTx, vars, history, TypeOK
<1>2. TypeOK'
  BY <1>1, Parts DEF TypeOK
<1>3. ~ aborted => LockOK'
  BY <1>1, Parts DEF LockOK, In
<1>4. (~ aborted => PsdTaken') /\ MapOK' /\ AbortOK'
  BY <1>1, Parts DEF PsdTaken, MapOK, AbortOK, Share, In
<1>5. Received' = Received /\ Interfering' = Interfering
  BY <1>1 DEF Received, Interfering, In
<1>6. ~ aborted => AllIsNoiseAndSignal'
  BY <1>1, <1>5, Parts DEF AllIsNoiseAndSignal
<1>7. ~ aborted => NoiseIsShares'
  <2>1. \A u \in Interfering : Share(u)' = Share(u)
    BY <1>1 DEF Share, In
  <2> QED BY <1>1, <1>5, <2>1, NoiseKept
<1> QED BY <1>1, <1>2, <1>3, <1>4, <1>6, <1>7 DEF IInv, Undisturbed

LEMMA InitInv == Init => IInv
<1> SUFFICES ASSUME Init PROVE IInv
  OBVIOUS
<1>1. \A t \in TxId : signal[t].stage = "none" /\ rxNoisePsdMap[t] = NoPsd
  BY DEF Init
<1>2. TypeOK
  <2>1. [stage |-> "none", psd |-> 0, captured |-> 0] \in [stage : Stage, psd : Nat, captured : Nat]
    BY DEF Stage
  <2>2. [all |-> 0, noise |-> 0, rx |-> 0] \in [all : Int, noise : Int, rx : Int]
    OBVIOUS
  <2>3. signal \in [TxId -> [stage : Stage, psd : Nat, captured : Nat]]
    BY <2>1 DEF Init
  <2>4. /\ state \in {"IDLE", "RX", "TX"} /\ locked_txId \in TxId \cup {0}
        /\ rxNoisePsdMap \in [TxId -> Nat \cup {NoPsd}] /\ sent \in 0 .. MaxSignals
    BY DEF Init
  <2>5. /\ kind \in Kinds /\ missed \subseteq TxId /\ leaked \in BOOLEAN /\ mismatch \in BOOLEAN
        /\ altered \in BOOLEAN /\ aborted \in BOOLEAN
    BY DEF Init
  <2>6. interference \in [all : Int, noise : Int, rx : Int]
    BY <2>2 DEF Init
  <2> QED BY <2>3, <2>4, <2>5, <2>6 DEF TypeOK
<1>3. LockOK
  BY <1>1 DEF Init, LockOK, In
<1>4. PsdTaken /\ MapOK /\ AbortOK
  BY <1>1 DEF Init, PsdTaken, MapOK, AbortOK, In
<1>5. Received = {} /\ Interfering = {}
  BY <1>1 DEF Received, Interfering, In
<1>6. AllIsNoiseAndSignal
  BY <1>5 DEF Init, AllIsNoiseAndSignal
<1>7. NoiseIsShares
  <2>1. SumFunctionOnSet([t \in TxId |-> Share(t)], {}) = 0
    BY FS_EmptySet, SumFacts
  <2> QED BY <1>5, <2>1 DEF Init, NoiseIsShares
<1> QED BY <1>2, <1>3, <1>4, <1>6, <1>7 DEF IInv, Undisturbed

LEMMA InvStep == IInv /\ [Next]_vars => IInv'
<1> SUFFICES ASSUME IInv, [Next]_vars PROVE IInv'
  OBVIOUS
<1>1. CASE StartTx \/ EndTx \/ UNCHANGED vars
  BY <1>1, OwnSteps
<1>2. ASSUME NEW t \in TxId, SignalStep(t) PROVE IInv'
  <2>1. CASE \E psd \in Psd[t] : TransmissionStart(t, psd)
    BY <2>1, StartStep
  <2>2. CASE \E psd \in Psd[t] : DoUpdateRxPsd(t, psd)
    BY <2>2, UpdateStep
  <2>3. CASE \E detectable \in BOOLEAN : DoStartRx(t, detectable)
    BY <2>3, ArriveStep
  <2>4. CASE PreambleDetectionSuccessful(t)
    BY <2>4, PreambleStep
  <2>5. CASE HeaderReceived(t)
    BY <2>5, HeaderStep
  <2>6. CASE \E other \in BOOLEAN : HeaderFailed(t, other)
    BY <2>6, HeaderFailedStep
  <2>7. CASE ErrorRateEndRx(t) \/ EndRxPayload(t) \/ ScheduledRemoval(t)
    BY <2>7, EndSteps
  <2> QED BY <1>2, <2>1, <2>2, <2>3, <2>4, <2>5, <2>6, <2>7 DEF SignalStep
<1> QED BY <1>1, <1>2 DEF Next

LEMMA InvHolds == Spec => []IInv
BY InitInv, InvStep, PTL DEF Spec

---------------------------------------------------------------------------
(***************************************************************************)
(* For any number of transmitters, m_noiseSignals is the sum of the        *)
(* present PSDs of the interfering signals, as long as the PHY took every  *)
(* change over and removed what it had added, which PLC_ErrorRatePhy does  *)
(* until it takes the end of interferer 0 for that of a frame.             *)
(***************************************************************************)
THEOREM NoiseIsSumCorrect == Spec => []NoiseIsSum
<1>1. IInv => NoiseIsSum
  <2> SUFFICES ASSUME IInv PROVE NoiseIsSum
    OBVIOUS
  <2>1. kind = "errorRate" /\ leaked => aborted
    BY Parts DEF MapOK
  <2>2. ASSUME missed \cap Interfering = {}, ~ leaked, ~ aborted
        PROVE  interference.noise = SumFunctionOnSet([t \in TxId |-> signal[t].psd], Interfering)
    <3> DEFINE f == [t \in TxId |-> Share(t)]
               e == [t \in TxId |-> signal[t].psd]
    <3>1. \A t \in Interfering : t \in TxId /\ f[t] = e[t] /\ e[t] \in Int
      <4>1. \A t \in Interfering : t \in TxId /\ Share(t) = signal[t].psd
        BY <2>2, Parts DEF PsdTaken, Interfering
      <4>2. \A t \in TxId : signal[t].psd \in Int
        BY Parts
      <4> QED BY <4>1, <4>2
    <3>2. IsFiniteSet(Interfering)
      BY FS_Subset DEF Interfering
    <3>3. SumFunctionOnSet(f, Interfering) = SumFunctionOnSet(e, Interfering)
      <4> HIDE DEF f, e
      <4> QED BY <3>1, <3>2, SumSame
    <3> QED BY <2>2, <3>3, Parts DEF NoiseIsShares
  <2> QED BY <2>1, <2>2 DEF NoiseIsSum
<1> QED BY <1>1, InvHolds, PTL

(***************************************************************************)
(* m_allSignals, which the clear channel assessment reads, is the noise    *)
(* and the signal being received: ending a reception takes out exactly     *)
(* what starting and altering it put in.  Excepted are a payload in        *)
(* another scheme, and a change or the end of a foreign interface 0 during *)
(* a preamble; where interface 0 is the receiver's own, only the former.   *)
(***************************************************************************)
THEOREM AllIsNoiseAndSignalCorrect == Spec => []AllIsNoiseAndSignal
<1>1. IInv => AllIsNoiseAndSignal
  BY DEF IInv, Undisturbed, AllIsNoiseAndSignal, AbortOK
<1> QED BY <1>1, InvHolds, PTL

(***************************************************************************)
(* The PHY receives at most one signal, is in RX exactly then, is locked   *)
(* on that one and decodes it with its present PSD unless it was missed,   *)
(* until PLC_ErrorRatePhy takes the end of a foreign interface 0 for that  *)
(* of the frame whose preamble it receives.                                *)
(***************************************************************************)
THEOREM LockedOnReceivedCorrect == Spec => []LockedOnReceived
<1>1. IInv => LockedOnReceived
  <2> SUFFICES ASSUME IInv PROVE LockedOnReceived
    OBVIOUS
  <2> DEFINE here == {t \in TxId : In(t, {"preamble"})} \cup Received
  <2>1. CASE aborted
    BY <2>1, Parts DEF AbortOK, LockedOnReceived
  <2>2. CASE ~ aborted
    <3>1. here = {t \in TxId : In(t, {"preamble", "header", "payload"})}
      BY DEF Received, In
    <3>2. state = "RX" <=> here # {}
      BY <2>2, <3>1, Parts DEF LockOK
    <3>3. Cardinality(here) <= 1
      <4>1. CASE here = {}
        BY <4>1, FS_EmptySet
      <4>2. CASE here # {}
        <5>1. PICK t \in here : TRUE
          BY <4>2
        <5>2. here = {t}
          BY <2>2, <3>1, Parts DEF LockOK
        <5> QED BY <5>2, FS_Singleton
      <4> QED BY <4>1, <4>2
    <3>4. \A t \in Received : locked_txId = t /\ (t \notin missed => interference.rx = signal[t].psd)
      BY <2>2, Parts DEF LockOK, PsdTaken, Received
    <3> QED BY <2>2, <3>2, <3>3, <3>4 DEF LockedOnReceived
  <2> QED BY <2>1, <2>2
<1> QED BY <1>1, InvHolds, PTL

(***************************************************************************)
(* The map of PLC_ErrorRatePhy holds every interfering signal and no       *)
(* other, which DoStartRx asserts: the one entry that can outlive its      *)
(* signal is that of a foreign interface 0, whose end passed for that of a *)
(* frame.                                                                  *)
(***************************************************************************)
THEOREM MapIsInterferersCorrect == Spec => []MapIsInterferers
<1>1. IInv => MapIsInterferers
  BY Parts DEF MapOK, MapIsInterferers, Interfering, In
<1> QED BY <1>1, InvHolds, PTL

=============================================================================
