-------------------------- MODULE PlcAgendaProofs ---------------------------
(***************************************************************************)
(* The agenda's operations keep its entries apart and in order, and change *)
(* the number of entries of a kind by what they add and take off: what the *)
(* proofs about the networks need to count pending events.                 *)
(***************************************************************************)
EXTENDS PlcAgenda, FiniteSetTheorems, TLAPS

(* A part of an agenda has a number of entries.                            *)
LEMMA PartIsFinite ==
  ASSUME NEW A, IsFiniteSet(A), NEW B, B \subseteq A
  PROVE  IsFiniteSet(B) /\ Cardinality(B) \in Nat /\ Cardinality(B) <= Cardinality(A)
BY FS_Subset, FS_CardinalityType

(* A function that is one to one on a finite set keeps its cardinality.    *)
LEMMA OneToOne ==
  ASSUME NEW S, IsFiniteSet(S), NEW f, \A y, z \in S : f[y] = f[z] => y = z
  PROVE  /\ IsFiniteSet({f[y] : y \in S})
         /\ Cardinality({f[y] : y \in S}) = Cardinality(S)
<1> DEFINE g == [y \in S |-> f[y]]
           T == {f[y] : y \in S}
<1>1. g \in Injection(S, T) /\ g \in Surjection(S, T)
  BY DEF Injection, Surjection, IsInjective
<1>2. ExistsBijection(S, T)
  BY <1>1 DEF ExistsBijection, Bijection
<1> QED BY <1>2, FS_Bijection

(* The events of one of the kinds in K at node n.                          *)
Is(ev, K, n) == ev.kind \in K /\ ev.node = n

(* Entries that are given new keys, of which the second is their rank.     *)
LEMMA Rekeyed ==
  ASSUME NEW S, IsFiniteSet(S), NEW f,
         \A y \in S : y.due \in Nat /\ y.ord \in Nat,
         \A y, z \in S : y.due = z.due /\ y.ord = z.ord => y = z,
         \A y \in S : f[y].due \in Nat /\ f[y].ord = Cardinality(Ahead(S, y)),
         \A y, z \in S : f[y].due = f[z].due <=> y.due = z.due
  PROVE  /\ Ranked({f[y] : y \in S})
         /\ \A K, n : (\A y \in S : Is(f[y].ev, K, n) <=> Is(y.ev, K, n))
              => Count({f[y] : y \in S}, K, n) = Count(S, K, n)
<1> DEFINE T == {f[y] : y \in S}
<1>1. \A y \in S : IsFiniteSet(Ahead(S, y)) /\ f[y].ord \in Nat
  BY PartIsFinite DEF Ahead
<1>2. ASSUME NEW y \in S, NEW z \in S, y.due = z.due, y.ord < z.ord
      PROVE  f[y].ord < f[z].ord
  <2> DEFINE B == Ahead(S, y) \cup {y}
  <2>1. B \subseteq Ahead(S, z) /\ y \notin Ahead(S, y)
    BY <1>2 DEF Ahead
  <2>2. Cardinality(B) = Cardinality(Ahead(S, y)) + 1
    BY <1>1, <2>1, FS_AddElement
  <2>3. Cardinality(B) <= Cardinality(Ahead(S, z))
    BY <1>1, <2>1, PartIsFinite
  <2>4. f[y].ord + 1 <= f[z].ord
    BY <2>2, <2>3
  <2> QED BY <1>1, <2>4
<1>3. ASSUME NEW y \in S, NEW z \in S, f[y].due = f[z].due, f[y].ord = f[z].ord
      PROVE  y = z
  <2>1. y.due = z.due /\ y.ord \in Nat /\ z.ord \in Nat
    BY <1>3
  <2>2. ~ (y.ord < z.ord) /\ ~ (z.ord < y.ord)
    BY <1>1, <1>2, <1>3, <2>1
  <2>3. y.ord = z.ord
    BY <2>1, <2>2
  <2> QED BY <2>1, <2>3
<1>4. ASSUME NEW R \in SUBSET S
      PROVE  IsFiniteSet({f[y] : y \in R}) /\ Cardinality({f[y] : y \in R}) = Cardinality(R)
  <2>1. IsFiniteSet(R)
    BY PartIsFinite
  <2>2. \A y, z \in R : f[y] = f[z] => y = z
    BY <1>3
  <2> QED BY <2>1, <2>2, OneToOne
<1>5. IsFiniteSet(T)
  BY <1>4
<1>6. \A y, z \in T : y.due = z.due /\ y.ord = z.ord => y = z
  BY <1>3
<1>7. ASSUME NEW y \in S
      PROVE  f[y].ord = Cardinality(Ahead(T, f[y]))
  <2>1. ASSUME NEW z \in S
        PROVE  (f[z].due = f[y].due /\ f[z].ord < f[y].ord) <=> (z.due = y.due /\ z.ord < y.ord)
    <3>1. y.ord \in Nat /\ z.ord \in Nat /\ f[y].ord \in Nat /\ f[z].ord \in Nat
      BY <1>1
    <3>2. z.due = y.due /\ z.ord < y.ord => f[z].ord < f[y].ord
      BY <1>2
    <3>3. z.due = y.due /\ y.ord < z.ord => f[y].ord < f[z].ord
      BY <1>2
    <3>4. z.due = y.due /\ y.ord = z.ord => f[y].ord = f[z].ord
      OBVIOUS
    <3> QED BY <3>1, <3>2, <3>3, <3>4
  <2>2. Ahead(T, f[y]) = {f[z] : z \in Ahead(S, y)}
    BY <2>1 DEF Ahead
  <2>3. Ahead(S, y) \in SUBSET S
    BY DEF Ahead
  <2>4. Cardinality({f[z] : z \in Ahead(S, y)}) = Cardinality(Ahead(S, y))
    BY <1>4, <2>3
  <2> QED BY <2>2, <2>4
<1>8. \A y \in T : y.due \in Nat /\ y.ord \in Nat /\ y.ord = Cardinality(Ahead(T, y))
  <2> TAKE y \in T
  <2>1. PICK x \in S : y = f[x]
    OBVIOUS
  <2> HIDE DEF T
  <2> QED BY <1>1, <1>7, <2>1
<1>9. ASSUME NEW K, NEW n, \A y \in S : Is(f[y].ev, K, n) <=> Is(y.ev, K, n)
      PROVE  Count(T, K, n) = Count(S, K, n)
  <2> DEFINE R == {y \in S : Is(y.ev, K, n)}
  <2>1. {y \in T : Is(y.ev, K, n)} = {f[y] : y \in R}
    BY <1>9
  <2>2. R \in SUBSET S
    OBVIOUS
  <2> HIDE DEF R, T
  <2>3. Cardinality({f[y] : y \in R}) = Cardinality(R)
    BY <1>4, <2>2
  <2> QED BY <2>1, <2>3 DEF Count, Is, R
<1> QED BY <1>5, <1>6, <1>8, <1>9 DEF Ranked

(* Time passes.                                                            *)
LEMMA ElapseRanked ==
  ASSUME NEW A, Ranked(A), NEW t \in Nat, MayElapse(A, t)
  PROVE  Ranked(Elapse(A, t)) /\ \A K, n : Count(Elapse(A, t), K, n) = Count(A, K, n)
<1> DEFINE f == [y \in A |-> Entry(y.due - t, y.ord, y.ev)]
<1>1. Elapse(A, t) = {f[y] : y \in A}
  BY DEF Elapse
<1>2. \A y \in A : /\ y.due \in Nat /\ y.ord \in Nat /\ y.ord = Cardinality(Ahead(A, y))
                   /\ f[y].due = y.due - t /\ f[y].ord = y.ord /\ f[y].ev = y.ev /\ t <= y.due
  BY DEF Ranked, MayElapse, Entry
<1>3. IsFiniteSet(A) /\ \A y, z \in A : y.due = z.due /\ y.ord = z.ord => y = z
  BY DEF Ranked
<1> HIDE DEF f
<1>4. /\ \A y \in A : f[y].due \in Nat /\ f[y].ord = Cardinality(Ahead(A, y))
      /\ \A y, z \in A : f[y].due = f[z].due <=> y.due = z.due
  BY <1>2
<1>5. /\ Ranked({f[y] : y \in A})
      /\ \A K, n : (\A y \in A : Is(f[y].ev, K, n) <=> Is(y.ev, K, n))
           => Count({f[y] : y \in A}, K, n) = Count(A, K, n)
  BY <1>2, <1>3, <1>4, Rekeyed
<1> QED BY <1>1, <1>2, <1>5

(* Entries leave: what is left keeps its order, and its numbers.           *)
LEMMA WithoutRanked ==
  ASSUME NEW A, Ranked(A), NEW gone, gone \subseteq A
  PROVE  /\ Ranked(Without(A, gone))
         /\ \A K, n : Count(Without(A, gone), K, n) = Count(A \ gone, K, n)
<1> DEFINE S == A \ gone
           ahead(y) == {x \in gone : x.due = y.due /\ x.ord < y.ord}
           f == [y \in S |-> Entry(y.due, y.ord - Cardinality(ahead(y)), y.ev)]
<1>1. Without(A, gone) = {f[y] : y \in S}
  BY DEF Without
<1>2. IsFiniteSet(S)
  BY PartIsFinite DEF Ranked
<1>3. ASSUME NEW y \in S
      PROVE  y.ord - Cardinality(ahead(y)) = Cardinality(Ahead(S, y))
  <2>1. Ahead(S, y) = Ahead(A, y) \ gone /\ ahead(y) = Ahead(A, y) \cap gone
    BY DEF Ahead
  <2>2. IsFiniteSet(Ahead(A, y)) /\ Cardinality(Ahead(A, y)) = y.ord /\ y.ord \in Nat
    BY PartIsFinite DEF Ranked, Ahead
  <2>3. Cardinality(Ahead(A, y) \ gone) = Cardinality(Ahead(A, y)) - Cardinality(Ahead(A, y) \cap gone)
    BY <2>2, FS_Difference
  <2> QED BY <2>1, <2>2, <2>3
<1>4. \A y \in S : /\ f[y].due = y.due /\ f[y].ord = y.ord - Cardinality(ahead(y)) /\ f[y].ev = y.ev
  BY DEF Entry
<1>5. /\ \A y \in S : y.due \in Nat /\ y.ord \in Nat
      /\ \A y, z \in S : y.due = z.due /\ y.ord = z.ord => y = z
  BY DEF Ranked
<1> HIDE DEF f, S, ahead
<1>6. /\ \A y \in S : f[y].due \in Nat /\ f[y].ord = Cardinality(Ahead(S, y))
      /\ \A y, z \in S : f[y].due = f[z].due <=> y.due = z.due
  BY <1>3, <1>4, <1>5
<1>7. /\ Ranked({f[y] : y \in S})
      /\ \A K, n : (\A y \in S : Is(f[y].ev, K, n) <=> Is(y.ev, K, n))
           => Count({f[y] : y \in S}, K, n) = Count(S, K, n)
  BY <1>2, <1>5, <1>6, Rekeyed
<1> QED BY <1>1, <1>4, <1>7 DEF S

(* The head leaves, and the clock jumps to it.                             *)
LEMMA PopRanked ==
  ASSUME NEW A, Ranked(A), NEW x, IsHead(A, x)
  PROVE  Ranked(Pop(A, x)) /\ \A K, n : Count(Pop(A, x), K, n) = Count(A \ {x}, K, n)
<1>1. {x} \subseteq A /\ x.due \in Nat /\ \A y \in A : x.due <= y.due
  BY DEF IsHead, Ranked
<1>2. Ranked(Without(A, {x})) /\ \A K, n : Count(Without(A, {x}), K, n) = Count(A \ {x}, K, n)
  BY <1>1, WithoutRanked
<1>3. MayElapse(Without(A, {x}), x.due)
  <2>1. \A y \in Without(A, {x}) : \E z \in A : y.due = z.due
    <3> TAKE y \in Without(A, {x})
    <3>1. PICK z \in A \ {x} :
            y = Entry(z.due, z.ord - Cardinality({w \in {x} : w.due = z.due /\ w.ord < z.ord}), z.ev)
      BY DEF Without
    <3> QED BY <3>1 DEF Entry
  <2> QED BY <1>1, <2>1 DEF MayElapse
<1> QED BY <1>1, <1>2, <1>3, ElapseRanked DEF Pop

(* What is due at a time is numbered below the next number.                *)
LEMMA BelowNext ==
  ASSUME NEW A, Ranked(A), NEW d
  PROVE  /\ DueIn(A, d) \in Nat /\ IsFiniteSet({y \in A : y.due = d})
         /\ \A y \in A : y.due = d => y.ord < DueIn(A, d)
<1> DEFINE S == {y \in A : y.due = d}
<1>1. IsFiniteSet(S) /\ Cardinality(S) \in Nat
  BY PartIsFinite DEF Ranked
<1>2. ASSUME NEW y \in A, y.due = d PROVE y.ord < Cardinality(S)
  <2> DEFINE B == Ahead(A, y) \cup {y}
  <2>0. y.ord \in Nat
    BY DEF Ranked
  <2>1. B \subseteq S /\ y \notin Ahead(A, y)
    BY <1>2, <2>0 DEF Ahead
  <2>2. IsFiniteSet(Ahead(A, y)) /\ Cardinality(Ahead(A, y)) = y.ord /\ y.ord \in Nat
    BY PartIsFinite DEF Ranked, Ahead
  <2>3. Cardinality(B) = y.ord + 1
    BY <2>1, <2>2, FS_AddElement
  <2>4. Cardinality(B) <= Cardinality(S)
    BY <1>1, <2>1, PartIsFinite
  <2> QED BY <1>1, <2>2, <2>3, <2>4
<1> QED BY <1>1, <1>2 DEF DueIn

(* An event is scheduled: one entry more.                                  *)
LEMMA AddRanked ==
  ASSUME NEW A, Ranked(A), NEW d \in Nat, NEW ev
  PROVE  /\ Ranked(Add(A, d, ev))
         /\ \A K, n : /\ ~ Is(ev, K, n) => Count(Add(A, d, ev), K, n) = Count(A, K, n)
                      /\ Is(ev, K, n) => Count(Add(A, d, ev), K, n) = Count(A, K, n) + 1
                      /\ Count(A, K, n) \in Nat
<1> DEFINE k == DueIn(A, d)
           e == Entry(d, k, ev)
           B == A \cup {e}
<1>1. k \in Nat /\ \A y \in A : y.due = d => y.ord < k
  BY BelowNext
<1>2. /\ e.due = d /\ e.ord = k /\ e.ev = ev /\ Add(A, d, ev) = B
      /\ k = Cardinality({y \in A : y.due = d})
  BY DEF Entry, Add, DueIn
<1>3. \A y \in A : y.due \in Nat /\ y.ord \in Nat /\ y.ord = Cardinality(Ahead(A, y))
  BY DEF Ranked
<1> HIDE DEF k, e
<1>4. e \notin A
  BY <1>1, <1>2
<1>5. IsFiniteSet(A) /\ IsFiniteSet(B)
  BY FS_AddElement DEF Ranked
<1>6. \A y \in A : Ahead(B, y) = Ahead(A, y)
  <2>1. \A y \in A : ~ (e.due = y.due /\ e.ord < y.ord)
    BY <1>1, <1>2, <1>3
  <2> QED BY <2>1 DEF Ahead
<1>7. Ahead(B, e) = {y \in A : y.due = d}
  BY <1>1, <1>2, <1>3 DEF Ahead
<1>8. \A y \in B : y.due \in Nat /\ y.ord \in Nat /\ y.ord = Cardinality(Ahead(B, y))
  BY <1>1, <1>2, <1>3, <1>6, <1>7
<1>9. \A y, z \in B : y.due = z.due /\ y.ord = z.ord => y = z
  <2>1. \A y, z \in A : y.due = z.due /\ y.ord = z.ord => y = z
    BY DEF Ranked
  <2> QED BY <1>1, <1>2, <1>3, <2>1
<1>10. ASSUME NEW K, NEW n
       PROVE  /\ ~ Is(ev, K, n) => Count(B, K, n) = Count(A, K, n)
              /\ Is(ev, K, n) => Count(B, K, n) = Count(A, K, n) + 1
              /\ Count(A, K, n) \in Nat
  <2> DEFINE R == {y \in A : Is(y.ev, K, n)}
             Q == {y \in B : Is(y.ev, K, n)}
  <2>1. IsFiniteSet(R) /\ Cardinality(R) \in Nat /\ e \notin R
    BY <1>4, <1>5, PartIsFinite
  <2>2. /\ ~ Is(ev, K, n) => Q = R
        /\ Is(ev, K, n) => Q = R \cup {e}
    BY <1>2
  <2> HIDE DEF R, Q
  <2>3. Cardinality(R \cup {e}) = Cardinality(R) + 1
    BY <2>1, FS_AddElement
  <2> QED BY <2>1, <2>2, <2>3 DEF Count, Is, R, Q
<1> QED BY <1>2, <1>5, <1>8, <1>9, <1>10 DEF Ranked

(* One entry taken off.                                                    *)
LEMMA CountWithout ==
  ASSUME NEW A, IsFiniteSet(A), NEW x \in A, NEW K, NEW n
  PROVE  /\ ~ Is(x.ev, K, n) => Count(A \ {x}, K, n) = Count(A, K, n)
         /\ Is(x.ev, K, n) => Count(A \ {x}, K, n) = Count(A, K, n) - 1
         /\ Count(A, K, n) \in Nat
<1> DEFINE R == {y \in A : Is(y.ev, K, n)}
           Q == {y \in A \ {x} : Is(y.ev, K, n)}
<1>1. IsFiniteSet(R) /\ Cardinality(R) \in Nat /\ (x \in R <=> Is(x.ev, K, n))
  BY PartIsFinite
<1>2. /\ ~ Is(x.ev, K, n) => Q = R
      /\ Is(x.ev, K, n) => Q = R \ {x}
  OBVIOUS
<1> HIDE DEF R, Q
<1>3. x \in R => Cardinality(R \ {x}) = Cardinality(R) - 1
  BY <1>1, FS_RemoveElement
<1> QED BY <1>1, <1>2, <1>3 DEF Count, Is, R, Q

(* One event for each m of a finite set of numbers.                        *)
LEMMA AddForEachRanked ==
  ASSUME NEW A, Ranked(A), NEW E, NEW D, IsFiniteSet(DOMAIN E), DOMAIN E \subseteq Nat,
         \A m \in DOMAIN E : D[m] \in Nat
  PROVE  /\ Ranked(AddForEach(A, E, D))
         /\ \A K, n : (\A m \in DOMAIN E : ~ Is(E[m], K, n))
              => Count(AddForEach(A, E, D), K, n) = Count(A, K, n)
<1> DEFINE M == DOMAIN E
           before(m) == {k \in M : k < m /\ D[k] = D[m]}
           g == [m \in M |-> Entry(D[m], DueIn(A, D[m]) + Cardinality(before(m)), E[m])]
           G == {g[m] : m \in M}
           B == A \cup G
<1>1. AddForEach(A, E, D) = B
  BY DEF AddForEach
<1>2. \A m \in M : IsFiniteSet(before(m)) /\ Cardinality(before(m)) \in Nat
  BY PartIsFinite
<1>3. \A m \in M : /\ g[m].due = D[m] /\ g[m].ev = E[m]
                    /\ g[m].ord = DueIn(A, D[m]) + Cardinality(before(m))
  BY DEF Entry
<1>4. ASSUME NEW k \in M, NEW m \in M, D[k] = D[m], k < m
      PROVE  Cardinality(before(k)) < Cardinality(before(m))
  <2> DEFINE C == before(k) \cup {k}
  <2>1. C \subseteq before(m) /\ k \notin before(k)
    BY <1>4
  <2>2. Cardinality(C) = Cardinality(before(k)) + 1
    BY <1>2, <2>1, FS_AddElement
  <2>3. Cardinality(C) <= Cardinality(before(m))
    BY <1>2, <2>1, PartIsFinite
  <2> QED BY <1>2, <2>2, <2>3
<1>5. \A d : DueIn(A, d) \in Nat /\ \A y \in A : y.due = d => y.ord < DueIn(A, d)
  BY BelowNext
<1>6. \A y \in A : y.due \in Nat /\ y.ord \in Nat /\ y.ord = Cardinality(Ahead(A, y))
  BY DEF Ranked
<1>7. \A m \in M : g[m].due \in Nat /\ g[m].ord \in Nat /\ DueIn(A, g[m].due) <= g[m].ord
  <2> TAKE m \in M
  <2> DEFINE a == Cardinality(before(m))
             c == DueIn(A, D[m])
  <2>1. a \in Nat /\ c \in Nat /\ D[m] \in Nat
    BY <1>2, <1>5
  <2>2. g[m].due = D[m] /\ g[m].ord = c + a
    BY <1>3
  <2>3. DueIn(A, g[m].due) = c
    BY <2>2
  <2> HIDE DEF a, c, g
  <2> QED BY <2>1, <2>2, <2>3
<1>8. \A k, m \in M : g[k].due = g[m].due => (g[k].ord < g[m].ord <=> k < m)
  <2> SUFFICES ASSUME NEW k \in M, NEW m \in M, D[k] = D[m]
               PROVE  g[k].ord < g[m].ord <=> k < m
    BY <1>3
  <2> DEFINE a == Cardinality(before(k))
             b == Cardinality(before(m))
             c == DueIn(A, D[m])
  <2>1. a \in Nat /\ b \in Nat /\ c \in Nat /\ k \in Nat /\ m \in Nat
    BY <1>2, <1>5
  <2>2. (k < m => a < b) /\ (m < k => b < a) /\ (k = m => a = b)
    BY <1>4
  <2>3. g[k].ord = c + a /\ g[m].ord = c + b
    BY <1>3
  <2> HIDE DEF a, b, c
  <2> QED BY <2>1, <2>2, <2>3
<1> HIDE DEF g
<1>9. \A k, m \in M : g[k].due = g[m].due /\ g[k].ord = g[m].ord => k = m
  BY <1>7, <1>8
<1>10. IsFiniteSet(G) /\ IsFiniteSet(B)
  <2>1. \A k, m \in M : g[k] = g[m] => k = m
    BY <1>9
  <2>2. IsFiniteSet(G)
    BY <2>1, OneToOne
  <2> QED BY <2>2, FS_Union DEF Ranked
<1>11. \A y \in A, m \in M : y.due = g[m].due => y.ord < g[m].ord
  BY <1>5, <1>6, <1>7
<1>12. \A y, z \in B : y.due = z.due /\ y.ord = z.ord => y = z
  <2>1. \A y, z \in A : y.due = z.due /\ y.ord = z.ord => y = z
    BY DEF Ranked
  <2>2. \A y \in A, m \in M : y.due = g[m].due => y.ord # g[m].ord
    BY <1>6, <1>7, <1>11
  <2>3. \A k, m \in M : g[k].due = g[m].due /\ g[k].ord = g[m].ord => g[k] = g[m]
    BY <1>9
  <2> QED BY <2>1, <2>2, <2>3
<1>13. \A y \in A : Ahead(B, y) = Ahead(A, y)
  <2>1. \A y \in A, m \in M : y.due = g[m].due => ~ (g[m].ord < y.ord)
    BY <1>6, <1>7, <1>11
  <2> QED BY <2>1 DEF Ahead
<1>14. ASSUME NEW m \in M PROVE g[m].ord = Cardinality(Ahead(B, g[m]))
  <2> DEFINE old == {y \in A : y.due = D[m]}
             new == {g[k] : k \in before(m)}
  <2>1. Ahead(B, g[m]) = old \cup new
    <3>1. \A y \in A : y.due = g[m].due => y.ord < g[m].ord
      BY <1>11
    <3>2. \A k \in M : (g[k].due = g[m].due /\ g[k].ord < g[m].ord) <=> k \in before(m)
      BY <1>3, <1>8
    <3> HIDE DEF before
    <3>3. before(m) \subseteq M
      BY DEF before
    <3> QED BY <1>3, <3>1, <3>2, <3>3 DEF Ahead
  <2>2. old \cap new = {}
    BY <1>5, <1>7, <1>3
  <2>3. IsFiniteSet(old) /\ Cardinality(old) = DueIn(A, D[m])
    BY BelowNext DEF DueIn
  <2>4. IsFiniteSet(new) /\ Cardinality(new) = Cardinality(before(m))
    <3>1. \A k, l \in before(m) : g[k] = g[l] => k = l
      BY <1>9
    <3> HIDE DEF before
    <3> QED BY <1>2, <3>1, OneToOne
  <2> HIDE DEF old, new
  <2>5. Cardinality(old \cup new) = Cardinality(old) + Cardinality(new) - Cardinality({})
    BY <2>2, <2>3, <2>4, FS_Union
  <2>6. Cardinality({}) = 0
    BY FS_EmptySet
  <2>7. DueIn(A, D[m]) \in Nat /\ Cardinality(before(m)) \in Nat
    BY <1>2, <1>5
  <2>8. g[m].ord = DueIn(A, D[m]) + Cardinality(before(m))
    BY <1>3
  <2> DEFINE a == Cardinality(before(m))
             c == DueIn(A, D[m])
  <2>9. Cardinality(Ahead(B, g[m])) = c + a - 0
    BY <2>1, <2>3, <2>4, <2>5, <2>6
  <2> HIDE DEF a, c
  <2> QED BY <2>7, <2>8, <2>9 DEF a, c
<1>15. \A y \in B : y.due \in Nat /\ y.ord \in Nat /\ y.ord = Cardinality(Ahead(B, y))
  <2> TAKE y \in B
  <2>1. CASE y \in A
    BY <1>6, <1>13, <2>1
  <2>2. CASE y \in G
    <3>1. PICK m \in M : y = g[m]
      BY <2>2
    <3> HIDE DEF B
    <3> QED BY <1>7, <1>14, <3>1
  <2> QED BY <2>1, <2>2
<1>16. ASSUME NEW K, NEW n, \A m \in M : ~ Is(E[m], K, n)
       PROVE  Count(B, K, n) = Count(A, K, n)
  <2>1. {y \in B : Is(y.ev, K, n)} = {y \in A : Is(y.ev, K, n)}
    BY <1>3, <1>16
  <2> QED BY <2>1 DEF Count, Is
<1> QED BY <1>1, <1>10, <1>12, <1>15, <1>16 DEF Ranked

(* What becomes of the numbers when the head is taken off.                 *)
LEMMA PopCount ==
  ASSUME NEW A, Ranked(A), NEW x, IsHead(A, x), NEW K, NEW n
  PROVE  /\ ~ Is(x.ev, K, n) => Count(Pop(A, x), K, n) = Count(A, K, n)
         /\ Is(x.ev, K, n) => Count(Pop(A, x), K, n) = Count(A, K, n) - 1 /\ Count(A, K, n) >= 1
<1> DEFINE c == Count(A, K, n)
           r == Count(A \ {x}, K, n)
<1>1. x \in A /\ IsFiniteSet(A)
  BY DEF IsHead, Ranked
<1>2. /\ ~ Is(x.ev, K, n) => r = c
      /\ Is(x.ev, K, n) => r = c - 1
      /\ c \in Nat
  BY <1>1, CountWithout
<1>3. IsFiniteSet(A \ {x})
  BY <1>1, FS_RemoveElement
<1>4. r \in Nat
  BY <1>3, PartIsFinite DEF Count
<1>5. Count(Pop(A, x), K, n) = r
  BY PopRanked
<1> HIDE DEF c, r
<1> QED BY <1>2, <1>4, <1>5 DEF c, r
=============================================================================
