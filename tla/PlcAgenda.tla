----------------------------- MODULE PlcAgenda -----------------------------
(***************************************************************************)
(* The pending events of PLC_SimulatorImpl as its users see them: what is  *)
(* due when, and in which order what is due together runs.  PlcSimulator   *)
(* models the engine itself; here a key (m_ts, m_uid) is kept relative:    *)
(*                                                                         *)
(*   due  how long from now, m_ts - m_currentTs                            *)
(*   ord  the rank of m_uid among the events with the same due             *)
(*   ev   what runs: its kind, the node where it runs, its arguments       *)
(*                                                                         *)
(* Two engine states with the same agenda have the same future, since no   *)
(* handler reads the clock or a uid.                                       *)
(***************************************************************************)
EXTENDS Integers, FiniteSets

Entry(due, ord, ev) == [due |-> due, ord |-> ord, ev |-> ev]

(* The entry RemoveNext returns.                                           *)
IsHead(A, x) ==
  /\ x \in A
  /\ \A y \in A : x.due < y.due \/ (x.due = y.due /\ x.ord <= y.ord)

(* How many entries are due in d.                                          *)
DueIn(A, d) == Cardinality({y \in A : y.due = d})

(* Schedule and ScheduleNow: behind what is due at the same time.          *)
Add(A, due, ev) == A \cup {Entry(due, DueIn(A, due), ev)}

(* One Schedule for each m \in DOMAIN E, the smallest first: of E[m],      *)
(* after a delay D[m].                                                     *)
AddForEach(A, E, D) ==
  LET before(m) == {k \in DOMAIN E : k < m /\ D[k] = D[m]}
  IN  A \cup {Entry(D[m], DueIn(A, D[m]) + Cardinality(before(m)), E[m]) : m \in DOMAIN E}

(* Events leave the agenda because they run or because they are cancelled: *)
(* a cancelled event stays in the list, but Invoke does nothing for it.    *)
Without(A, gone) ==
  LET ahead(y) == {x \in gone : x.due = y.due /\ x.ord < y.ord}
  IN  {Entry(y.due, y.ord - Cardinality(ahead(y)), y.ev) : y \in A \ gone}

(* Time passes, up to the earliest entry.                                  *)
Elapse(A, t) == {Entry(y.due - t, y.ord, y.ev) : y \in A}

MayElapse(A, t) == \A y \in A : t <= y.due

(* ProcessOneEvent: the clock jumps to the head, which leaves the list.    *)
Pop(A, x) == Elapse(Without(A, {x}), x.due)

---------------------------------------------------------------------------
(* The entries that run before y of those due with it.                     *)
Ahead(A, y) == {z \in A : z.due = y.due /\ z.ord < y.ord}

(* Ranks count: the entries due together are numbered without gap and      *)
(* without repetition, so that none is ever scheduled into another's place.*)
Ranked(A) ==
  /\ IsFiniteSet(A)
  /\ \A y \in A : y.due \in Nat /\ y.ord \in Nat /\ y.ord = Cardinality(Ahead(A, y))
  /\ \A y, z \in A : y.due = z.due /\ y.ord = z.ord => y = z

(* How many entries run an event of one of the kinds in K at node n.       *)
Count(A, K, n) == Cardinality({y \in A : y.ev.kind \in K /\ y.ev.node = n})
=============================================================================
