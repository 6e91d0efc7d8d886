---------------------------- MODULE FuncsatProofs ----------------------------
(***************************************************************************)
(* Why the search of funcsat is sound for every formula: the invariant of  *)
(* the engine and its proof.                                               *)
(***************************************************************************)
EXTENDS Funcsat, WellFoundedInduction, SequenceTheorems, FiniteSetTheorems, TLAPS

Working == Analyzing \cup {"undo"}

\* Literal l is false before position k of the trail.
FalseBefore(k, l) == \E j \in 1..(k - 1) : trail[j].lit = -l

\* Position k of the trail may be looked at: what is above level 0 between calls
\* is popped first.
Live(k) == pc # "idle" \/ trail[k].level = 0

IsFact(id) == id \in Range(facts) \/ \E v \in Var : id \in Range(unit_facts[v])
Rest(id) == {data[id][n] : n \in 2..Len(data[id])}
IsReason(id, lv) == \E j \in DOMAIN trail : trail[j].reason = id /\ trail[j].level = lv
IsWatched(l, id) == \E n \in DOMAIN wlist[l] : wlist[l][n].cls = id

-----------------------------------------------------------------------------
(* Clauses and where they are.                                              *)

\* Every variable in use is allocated.
Allocated ==
  /\ \A id \in DOMAIN data : VarsOf(data[id]) \subseteq 1..numVars
  /\ VarsOf(uipClause) \subseteq 1..numVars
  /\ \A k \in DOMAIN trail : VarOf(trail[k].lit) \in 1..numVars

DistinctVars(d) == \A j, k \in DOMAIN d : VarOf(d[j]) = VarOf(d[k]) => j = k
ClausesDistinct == \A id \in DOMAIN data : DistinctVars(data[id])

\* A learned clause waits in one place, and is not watched meanwhile.
Placed ==
  /\ \A j, k \in DOMAIN facts : facts[j] = facts[k] => j = k
  /\ \A u, v \in Var : \A j \in DOMAIN unit_facts[u], k \in DOMAIN unit_facts[v] :
       unit_facts[u][j] = unit_facts[v][k] => u = v /\ j = k
  /\ \A v \in Var : \A j \in DOMAIN facts, k \in DOMAIN unit_facts[v] :
       facts[j] # unit_facts[v][k]
  /\ \A l \in Lit, id \in DOMAIN data : IsWatched(l, id) => ~IsFact(id)

\* The clauses that wait imply different literals.
FactsDiffer ==
  /\ \A id \in DOMAIN data : IsFact(id) => data[id] # <<>>
  /\ \A f, g \in DOMAIN data :
       IsFact(f) /\ IsFact(g) /\ data[f][1] = data[g][1] => f = g

\* A watched clause has two literals and is in the lists of its first two.
Watched ==
  /\ WatchesMatch
  /\ \A l \in Lit, id \in DOMAIN data : IsWatched(l, id) => Len(data[id]) >= 2

-----------------------------------------------------------------------------
(* The trail.                                                               *)

Reasons ==
  \A k \in DOMAIN trail :
    /\ trail[k].decision => trail[k].reason = NULL
    /\ trail[k].level > 0 /\ trail[k].reason = NULL => trail[k].decision

\* What bcp has not seen is at the current level.
UnseenCurrent == \A k \in (propq + 1)..Len(trail) : trail[k].level = decisionLevel

\* The second literal of a clause that waits is its last one assigned.
SecondLast(d) == \A n \in 3..Len(d) : LevelOf(VarOf(d[n])) <= LevelOf(VarOf(d[2]))

\* A clause that waits on a variable follows from what is below the variable,
\* and is the reason of a literal of its level, or was just learned.
WaitsAt(id, k) ==
  /\ \A n \in 2..Len(data[id]) : FalseBefore(k, data[id][n])
  /\ SecondLast(data[id])
  /\ trail[k].level = 0 => Len(data[id]) = 1 /\ trail[k].reason = id
  /\ \/ IsReason(id, trail[k].level)
     \/ /\ pc \in Working /\ trail[k].level = decisionLevel /\ decisionLevel > 0
        /\ IsUnknown(trail, data[id][1])
     \/ /\ pc \in {"resolve", "undo"} /\ k = Len(trail) /\ HasLitPos(TopVar)
        /\ data[id][1] = -Top.lit
UnitFactsWait ==
  \A v \in Var : \A id \in Range(unit_facts[v]) :
    \E k \in DOMAIN trail : VarOf(trail[k].lit) = v /\ (Live(k) => WaitsAt(id, k))

-----------------------------------------------------------------------------
(* Analysis of a conflict.                                                  *)

\* The clause that is resolved is in conflict.
UipFalse ==
  pc \in Working =>
    /\ DistinctVars(uipClause)
    /\ \A l \in Range(uipClause) : IsFalse(trail, l)

\* It counts its literals at the current level.
Counted ==
  /\ pc = "resolve" => count >= 1
  /\ pc = "learn" => count = 1
  /\ pc \in {"resolve", "learn"} \/ (pc = "recount" /\ count # 0) =>
       decisionLevel >= 1 /\ count = AtCurrentLevel(uipClause)
  /\ pc = "undo" => /\ trail # <<>> /\ Top.decision /\ HasLitPos(TopVar)
                    /\ \E id \in Range(unit_facts[TopVar]) : data[id][1] = -Top.lit
  /\ pc = "refuted" => uipClause = <<>> \/ decisionLevel = 0

\* The clauses collected: what they imply is popped, or will be with the level,
\* and the last literal they still have assigned is the second.
Collecting ==
  pc \in Working =>
    /\ uipLit = 0
    /\ \A id \in Range(facts) :
         LET d == data[id] IN
         /\ IsUnknown(trail, d[1]) \/ (decisionLevel > 0 /\ IsReason(id, decisionLevel))
         /\ \A n \in 2..Len(d) : ~IsTrue(trail, d[n])
         /\ \A n \in 3..Len(d) :
              LevelOf(VarOf(d[2])) \in 0..(decisionLevel - 1) =>
                LevelOf(VarOf(d[n])) \in 0..LevelOf(VarOf(d[2]))

\* Two that imply opposite literals will not both be implied.
Undone(f, g) == \E l \in Rest(f) \cup Rest(g) : IsUnknown(trail, l)
Resolved(f, g) == Range(uipClause) = Rest(f) \cup Rest(g)
Resolving(f, g) ==
  /\ pc = "resolve" /\ trail # <<>> /\ Top.reason = f /\ data[g][1] = -Top.lit
  /\ Range(uipClause) = {-Top.lit} \cup Rest(g)
OppositesResolved ==
  pc \in Working =>
    \A f, g \in DOMAIN data :
      IsFact(f) /\ IsFact(g) /\ data[f][1] = -data[g][1] =>
        Undone(f, g) \/ Resolved(f, g) \/ Resolving(f, g) \/ Resolving(g, f)

-----------------------------------------------------------------------------
(* propagateFacts.                                                          *)

Ready(d) ==
  /\ IsUnknown(Seen, d[1])
  /\ \A n \in 2..Len(d) : ~IsTrue(Seen, d[n])
  /\ Len(d) >= 2 /\ IsFalse(Seen, d[2]) =>
       \A n \in 3..Len(d) : LevelOf(VarOf(d[n])) <= LevelOf(VarOf(d[2])) /\ IsFalse(Seen, d[n])
ImpliedFact(id) ==
  /\ \E k \in (propq + 1)..Len(trail) : trail[k].reason = id
  /\ \A n \in 2..Len(data[id]) : IsFalse(Seen, data[id][n])
  /\ SecondLast(data[id])
Propagating ==
  pc = "facts" =>
    /\ \A n \in 1..Len(facts) : IF n < i THEN ImpliedFact(facts[n]) ELSE Ready(data[facts[n]])
    /\ \A k \in (propq + 1)..Len(trail) : \E n \in 1..Len(facts) : n < i /\ trail[k].reason = facts[n]
    /\ \A f, g \in Range(facts) : data[f][1] = -data[g][1] =>
         \E l \in Rest(f) \cup Rest(g) : IsUnknown(Seen, l)
    /\ \/ \E k \in (propq + 1)..Len(trail) : trail[k].lit = uipLit
       \/ \E n \in 1..Len(facts) : /\ n >= i /\ data[facts[n]][1] = uipLit
                                   /\ \A m \in 2..Len(data[facts[n]]) : IsFalse(Seen, data[facts[n]][m])

-----------------------------------------------------------------------------
(* Control.                                                                 *)

Control ==
  /\ pc \in {"idle", "bcp", "conflict", "facts"} \cup Working
  /\ pc \in {"idle", "bcp", "conflict"} => facts = <<>>
  /\ pc # "idle" => asked = Range(held)
  /\ pc = "conflict" =>
       /\ conflictClause # NULL
       /\ \A l \in Range(data[conflictClause]) : IsFalse(trail, l)
       /\ \E l \in Range(data[conflictClause]) : LevelOf(VarOf(l)) = decisionLevel
  /\ conflictClause # NULL /\ data[conflictClause] = <<>> => {} \in Range(formula)
  /\ formula \in Seq(SUBSET Lit)

\* What is at level 0 holds in every model of the formula in which the
\* assumptions pushed before it hold.
RootSound ==
  \A k \in DOMAIN trail : trail[k].level = 0 =>
    \A a \in ModelsOf(Range(formula)) :
      (\A j \in 1..k : trail[j].reason = NULL => Holds(a, trail[j].lit)) =>
        Holds(a, trail[k].lit)

\* Literals without a reason at level 0 are the assumptions that are not
\* recorded as 0, in their order.
At(k, l) == trail[k].lit = l /\ trail[k].level = 0
AssumptionsInOrder ==
  /\ Len(assumptions) = Len(held) /\ held \in Seq(Lit)
  /\ \A n \in DOMAIN held : assumptions[n] \in {0, held[n]} /\ \E k \in DOMAIN trail : At(k, held[n])
  /\ \A k \in DOMAIN trail : trail[k].level = 0 /\ trail[k].reason = NULL =>
       \E n \in DOMAIN assumptions : assumptions[n] = trail[k].lit
  /\ \A n \in DOMAIN assumptions : assumptions[n] # 0 =>
       \E k \in DOMAIN trail :
         /\ At(k, assumptions[n]) /\ trail[k].reason = NULL
         /\ \A m \in 1..(n - 1) : \E j \in 1..(k - 1) : At(j, held[m])

Inv ==
  /\ TypeOK /\ Allocated /\ ClausesDistinct /\ Placed /\ FactsDiffer /\ Watched
  /\ HeapCovers /\ LevelsMatch /\ TrailJustified /\ Reasons /\ UnseenCurrent
  /\ UnitFactsWait /\ UipFalse /\ Counted /\ Collecting /\ OppositesResolved
  /\ Propagating /\ Control /\ LearnedSound /\ RootSound /\ AssumptionsInOrder
  /\ UnsatRight

-----------------------------------------------------------------------------
(* Induction over natural numbers, in the form the other proofs cite: a    *)
(* property is the set of the numbers that have it.                        *)

\* A nonempty set of natural numbers has a least element.
LEMMA LeastElement ==
  ASSUME NEW S \in SUBSET Nat, S # {}
  PROVE  \E n \in S : \A m \in S : n <= m
<1>1. IsWellFoundedOn(OpToRel(<, Nat), Nat)
  BY NatLessThanWellFounded
<1>2. PICK n \in S : \A m \in S : ~(<<m, n>> \in OpToRel(<, Nat))
  BY <1>1, WFMin
<1>3. ASSUME NEW m \in S PROVE n <= m
  <2>1. m < n => <<m, n>> \in OpToRel(<, Nat)
    BY DEF OpToRel
  <2>2. ~(m < n)
    BY <1>2, <2>1
  <2> QED BY <2>2
<1> QED BY <1>3

\* A set that holds 0, and with each number the next one, holds them all.
LEMMA SetInduction ==
  ASSUME NEW S, 0 \in S, \A n \in Nat : n \in S => n + 1 \in S
  PROVE  Nat \subseteq S
<1> SUFFICES ASSUME NEW x \in Nat, x \notin S PROVE FALSE
  OBVIOUS
<1>1. PICK n \in Nat \ S : \A m \in Nat \ S : n <= m
  <2>1. Nat \ S \in SUBSET Nat /\ Nat \ S # {}
    OBVIOUS
  <2> QED BY <2>1, LeastElement
<1>2. n # 0
  OBVIOUS
<1>3. n - 1 \in Nat /\ n - 1 \in S
  BY <1>1, <1>2
<1> QED BY <1>1, <1>3

\* A nonempty set of numbers below a bound has a greatest element.
LEMMA GreatestElement ==
  ASSUME NEW N \in Nat, NEW S \in SUBSET (0..N), S # {}
  PROVE  \E n \in S : \A m \in S : m <= n
<1> DEFINE T == {N - m : m \in S}
<1>1. T \in SUBSET Nat /\ T # {}
  <2>1. \A m \in S : N - m \in Nat
    OBVIOUS
  <2> QED BY <2>1
<1>2. PICK t \in T : \A m \in T : t <= m
  BY <1>1, LeastElement
<1>3. PICK n \in S : t = N - n
  OBVIOUS
<1>4. ASSUME NEW m \in S PROVE m <= n
  <2>1. t <= N - m
    BY <1>2
  <2> QED BY <1>3, <2>1
<1> QED BY <1>4

\* f is defined by its first value and a step.
Folds(f, N, base, G) == f[0] = base /\ \A k \in 1..N : f[k] = G[k][f[k - 1]]

\* A function on 0..N that is defined by its first value and a step exists.
LEMMA RecursiveFunction ==
  ASSUME NEW V, NEW N \in Nat, NEW base \in V, NEW G \in [1..N -> [V -> V]]
  PROVE  \E f \in [0..N -> V] : Folds(f, N, base, G)
<1> DEFINE Upto(n, f) == f[0] = base /\ \A k \in 1..n : f[k] = G[k][f[k - 1]]
           S == {n \in Nat : n <= N => \E f \in [0..n -> V] : Upto(n, f)}
<1>1. 0 \in S
  <2>1. [k \in 0..0 |-> base] \in [0..0 -> V] /\ Upto(0, [k \in 0..0 |-> base])
    OBVIOUS
  <2>2. \E f \in [0..0 -> V] : Upto(0, f)
    BY <2>1
  <2> QED BY <2>2
<1>2. ASSUME NEW n \in Nat, n \in S PROVE n + 1 \in S
  <2> SUFFICES ASSUME n + 1 <= N PROVE \E f \in [0..(n + 1) -> V] : Upto(n + 1, f)
    OBVIOUS
  <2>1. PICK f \in [0..n -> V] : Upto(n, f)
    BY <1>2
  <2> DEFINE g == [k \in 0..(n + 1) |-> IF k = n + 1 THEN G[n + 1][f[n]] ELSE f[k]]
  <2>2. g \in [0..(n + 1) -> V]
    <3>1. G[n + 1][f[n]] \in V
      OBVIOUS
    <3>2. \A k \in 0..(n + 1) : k # n + 1 => f[k] \in V
      OBVIOUS
    <3> QED BY <3>1, <3>2
  <2>3. g[0] = base
    BY <2>1
  <2>4. \A k \in 1..(n + 1) : g[k] = G[k][g[k - 1]]
    BY <2>1
  <2> QED BY <2>2, <2>3, <2>4
<1> HIDE DEF S
<1>3. N \in S
  BY <1>1, <1>2, SetInduction
<1> QED BY <1>3 DEF S, Folds

\* What holds at the start of a fold, and is kept by its steps, holds throughout.
LEMMA FoldInvariant ==
  ASSUME NEW N \in Nat, NEW f, NEW P, f[0] \in P[0],
         \A k \in 1..N : f[k - 1] \in P[k - 1] => f[k] \in P[k]
  PROVE  \A k \in 0..N : f[k] \in P[k]
<1> DEFINE S == {k \in Nat : k <= N => f[k] \in P[k]}
<1>1. 0 \in S
  OBVIOUS
<1>2. ASSUME NEW k \in Nat, k \in S PROVE k + 1 \in S
  <2>1. k + 1 <= N => (k + 1) \in 1..N /\ (k + 1) - 1 = k
    OBVIOUS
  <2> QED BY <1>2, <2>1
<1> HIDE DEF S
<1>3. Nat \subseteq S
  BY <1>1, <1>2, SetInduction
<1> QED BY <1>3 DEF S

-----------------------------------------------------------------------------
(* Literals and lists.                                                      *)

\* A literal is a nonzero integer whose variable is in range, and a variable has two.
LEMMA LitFacts ==
  /\ MaxVar \in Nat \ {0}
  /\ \A l \in Lit : l \in Int /\ -l \in Lit /\ l # 0 /\ -(-l) = l /\ -l # l
  /\ \A l \in Lit : VarOf(l) \in Var /\ VarOf(-l) = VarOf(l)
  /\ \A l, m \in Lit : VarOf(l) = VarOf(m) <=> (l = m \/ l = -m)
  /\ \A v \in Var : v \in Lit /\ -v \in Lit /\ VarOf(v) = v /\ VarOf(-v) = v
BY MaxVarAssumption DEF Lit, Var, VarOf

\* Swapping two places of a clause changes nothing else.
LEMMA SwapFacts ==
  ASSUME NEW d \in Seq(Lit), NEW j \in 1..Len(d), NEW k \in 1..Len(d)
  PROVE  /\ Swap(d, j, k) \in Seq(Lit) /\ Len(Swap(d, j, k)) = Len(d)
         /\ \A n \in 1..Len(d) : Swap(d, j, k)[n] =
              IF n = k THEN d[j] ELSE IF n = j THEN d[k] ELSE d[n]
BY DEF Swap

\* Two orders of the same literals.
Permuted(d, e) ==
  /\ Len(d) = Len(e) /\ Range(d) = Range(e)
  /\ DistinctVars(d) => DistinctVars(e)

\* The range of a sequence, written with its indices.
LEMMA RangeFacts ==
  ASSUME NEW S, NEW d \in Seq(S)
  PROVE  Range(d) = {d[n] : n \in 1..Len(d)} /\ Range(d) \subseteq S /\ DOMAIN d = 1..Len(d) /\ Len(d) \in Nat
BY DEF Range

\* A swap permutes a clause.
LEMMA SwapPermutes ==
  ASSUME NEW d \in Seq(Lit), NEW j \in 1..Len(d), NEW k \in 1..Len(d)
  PROVE  Permuted(d, Swap(d, j, k))
<1>1. PICK s \in Seq(Lit) : s = Swap(d, j, k)
  BY SwapFacts
<1>2. /\ Len(s) = Len(d)
      /\ \A n \in 1..Len(d) : s[n] = IF n = k THEN d[j] ELSE IF n = j THEN d[k] ELSE d[n]
  BY <1>1 DEF Swap
<1>3. Range(s) = Range(d)
  <2>1. Range(s) = {s[n] : n \in 1..Len(d)} /\ Range(d) = {d[n] : n \in 1..Len(d)}
    BY <1>2, RangeFacts
  <2>2. ASSUME NEW n \in 1..Len(d) PROVE d[n] \in Range(s)
    <3>1. d[n] = s[IF n = k THEN j ELSE IF n = j THEN k ELSE n]
      BY <1>2
    <3> QED BY <2>1, <3>1
  <2>3. ASSUME NEW n \in 1..Len(d) PROVE s[n] \in Range(d)
    BY <1>2, <2>1
  <2> QED BY <2>1, <2>2, <2>3
<1>4. DistinctVars(d) => DistinctVars(s)
  BY <1>2 DEF DistinctVars
<1> QED BY <1>1, <1>2, <1>3, <1>4 DEF Permuted

\* Least picks the least element.
LEMMA LeastFacts ==
  ASSUME NEW S \in SUBSET Nat, S # {}
  PROVE  Least(S) \in S /\ \A n \in S : Least(S) <= n
BY LeastElement DEF Least

\* Greatest picks the greatest element of a bounded set.
LEMMA GreatestFacts ==
  ASSUME NEW N \in Nat, NEW S \in SUBSET (0..N), S # {}
  PROVE  Greatest(S) \in S /\ \A n \in S : n <= Greatest(S)
BY GreatestElement DEF Greatest

\* makeWatchable permutes the clause it is given.
LEMMA MakeWatchableFacts ==
  ASSUME NEW t, NEW d \in Seq(Lit), Len(d) >= 2
  PROVE  MakeWatchable(t, d) \in Seq(Lit) /\ Permuted(d, MakeWatchable(t, d))
<1> DEFINE K == {k \in 2..Len(d) : ~IsFalse(t, d[k])}
           K2 == K \ {Least(K)}
           first == Swap(d, 1, Least(K))
<1>1. CASE K = {}
  BY <1>1 DEF MakeWatchable, Permuted
<1>2. CASE K # {}
  <2>1. Least(K) \in K
    <3>1. K \in SUBSET Nat
      OBVIOUS
    <3> HIDE DEF K
    <3> QED BY <1>2, <3>1, LeastFacts
  <2>2. first \in Seq(Lit) /\ Len(first) = Len(d) /\ Permuted(d, first)
    <3>1. 1 \in 1..Len(d) /\ Least(K) \in 1..Len(d)
      BY <2>1
    <3> HIDE DEF K
    <3> QED BY <3>1, SwapFacts, SwapPermutes
  <2>3. CASE K2 = {}
    BY <1>2, <2>2, <2>3, Zenon DEF MakeWatchable
  <2>4. CASE K2 # {}
    <3>1. Least(K2) \in K2
      <4>1. K2 \in SUBSET Nat
        OBVIOUS
      <4> HIDE DEF K2
      <4> QED BY <2>4, <4>1, LeastFacts
    <3> DEFINE second == Swap(first, 2, Least(K2))
    <3>2. second \in Seq(Lit) /\ Len(second) = Len(d) /\ Permuted(first, second)
      <4>1. 2 \in 1..Len(d) /\ Least(K2) \in 1..Len(d)
        BY <3>1
      <4>2. 2 \in 1..Len(first) /\ Least(K2) \in 1..Len(first)
        BY ONLY <2>2, <4>1, Zenon
      <4> HIDE DEF K2, first
      <4> QED BY <2>2, <4>2, SwapFacts, SwapPermutes
    <3>3. MakeWatchable(t, d) = second
      BY <1>2, <2>4 DEF MakeWatchable
    <3> HIDE DEF second, first
    <3> QED BY <2>2, <3>2, <3>3 DEF Permuted
  <2> QED BY <2>3, <2>4
<1> QED BY <1>1, <1>2

\* A prefix of a sequence, place by place.
LEMMA PrefixFacts ==
  ASSUME NEW S, NEW s \in Seq(S), NEW n \in 0..Len(s)
  PROVE  /\ SubSeq(s, 1, n) \in Seq(S) /\ Len(SubSeq(s, 1, n)) = n
         /\ \A k \in 1..n : SubSeq(s, 1, n)[k] = s[k]
OBVIOUS

\* A slice of a sequence, place by place.
LEMMA SubSeqFacts ==
  ASSUME NEW S, NEW s \in Seq(S), NEW m \in Int, NEW n \in Int, 1 <= m, n <= Len(s)
  PROVE  /\ SubSeq(s, m, n) \in Seq(S)
         /\ Len(SubSeq(s, m, n)) = IF m <= n THEN n - m + 1 ELSE 0
         /\ \A k \in 1..(n - m + 1) : SubSeq(s, m, n)[k] = s[m + k - 1]
<1>1. \A k \in m..n : s[k] \in S
  OBVIOUS
<1> QED BY <1>1, SubSeqProperties

\* What follows the removed place moves down by one.
LEMMA RemoveAtFacts ==
  ASSUME NEW S, NEW s \in Seq(S), NEW m \in 1..Len(s)
  PROVE  /\ RemoveAt(s, m) \in Seq(S) /\ Len(RemoveAt(s, m)) = Len(s) - 1
         /\ \A n \in 1..(Len(s) - 1) : RemoveAt(s, m)[n] = IF n < m THEN s[n] ELSE s[n + 1]
<1>1. Len(s) \in Nat /\ m \in Nat /\ m - 1 \in 0..Len(s) /\ m + 1 \in Int
  OBVIOUS
<1>2. PICK t : t = SubSeq(s, 1, m - 1)
  OBVIOUS
<1>3. t \in Seq(S) /\ Len(t) = m - 1 /\ \A n \in 1..(m - 1) : t[n] = s[n]
  BY <1>1, <1>2, PrefixFacts
<1>4. PICK u : u = SubSeq(s, m + 1, Len(s))
  OBVIOUS
<1>5. u \in Seq(S) /\ Len(u) = Len(s) - m /\ \A n \in 1..(Len(s) - m) : u[n] = s[(m + 1) + n - 1]
  BY <1>1, <1>4, SubSeqFacts
<1>6. \A n \in m..(Len(s) - 1) : u[n - (m - 1)] = s[n + 1]
  BY <1>1, <1>5
<1>7. RemoveAt(s, m) = t \o u
  BY <1>2, <1>4 DEF RemoveAt
<1>8. (t \o u) \in Seq(S) /\ Len(t \o u) = Len(s) - 1
  <2>1. (t \o u) \in Seq(S) /\ Len(t \o u) = Len(t) + Len(u)
    BY <1>3, <1>5, ConcatProperties
  <2> QED BY <1>1, <1>3, <1>5, <2>1
<1>9. \A n \in 1..(Len(s) - 1) : (t \o u)[n] = IF n <= m - 1 THEN t[n] ELSE u[n - (m - 1)]
  BY <1>1, <1>3, <1>5
<1>10. \A n \in 1..(Len(s) - 1) : (t \o u)[n] = IF n < m THEN s[n] ELSE s[n + 1]
  <2> SUFFICES ASSUME NEW n \in 1..(Len(s) - 1)
               PROVE  (t \o u)[n] = IF n < m THEN s[n] ELSE s[n + 1]
    OBVIOUS
  <2>1. CASE n < m
    BY <1>1, <1>3, <1>9, <2>1
  <2>2. CASE ~(n < m)
    <3>1. n \in m..(Len(s) - 1) /\ ~(n <= m - 1)
      BY <1>1, <2>2
    <3> QED BY <1>6, <1>9, <2>2, <3>1
  <2> QED BY <2>1, <2>2
<1> QED BY <1>7, <1>8, <1>10

\* All but the last element of a sequence, place by place.
LEMMA FrontFacts ==
  ASSUME NEW S, NEW s \in Seq(S), s # <<>>
  PROVE  /\ Front(s) \in Seq(S) /\ Len(Front(s)) = Len(s) - 1 /\ Len(s) \in Nat \ {0}
         /\ \A n \in 1..(Len(s) - 1) : Front(s)[n] = s[n]
<1>1. Len(s) \in Nat \ {0} /\ Len(s) - 1 \in 0..Len(s)
  OBVIOUS
<1> QED BY <1>1, PrefixFacts DEF Front

\* A list like the trail, and the decisions up to position k of one.
TrailEntry == [lit : Lit, level : Nat, reason : Nat, decision : BOOLEAN]
Trails == Seq(TrailEntry)
\* The fields of the entries of a trail.
LEMMA TrailTypes ==
  ASSUME NEW t \in Trails
  PROVE  /\ Len(t) \in Nat /\ DOMAIN t = 1..Len(t)
         /\ \A k \in 1..Len(t) : /\ t[k] \in TrailEntry
              /\ t[k].lit \in Lit /\ t[k].level \in Nat /\ t[k].reason \in Nat /\ t[k].decision \in BOOLEAN
<1>1. Len(t) \in Nat /\ DOMAIN t = 1..Len(t) /\ \A k \in 1..Len(t) : t[k] \in TrailEntry
  BY DEF Trails
<1>2. \A e \in TrailEntry : e.lit \in Lit /\ e.level \in Nat /\ e.reason \in Nat /\ e.decision \in BOOLEAN
  BY DEF TrailEntry
<1> QED BY <1>1, <1>2

DecisionsTo(t, k) == {j \in 1..k : t[j].decision}
Leveled(t, dl) ==
  /\ dl = Cardinality(DecisionsTo(t, Len(t)))
  /\ \A k \in 1..Len(t) : t[k].level = Cardinality(DecisionsTo(t, k))

\* LevelsMatch is what Leveled says of the trail of a state.
LEMMA LeveledTrail ==
  ASSUME TypeOK
  PROVE  trail \in Trails /\ DOMAIN trail = 1..Len(trail) /\ Len(trail) \in Nat
         /\ (LevelsMatch <=> Leveled(trail, decisionLevel))
<1>0. DOMAIN data \cup {NULL} \subseteq Nat
  BY DEF TypeOK, NULL
<1>1. trail \in Trails
  <2>1. trail \in Seq([lit : Lit, level : Nat, reason : DOMAIN data \cup {NULL}, decision : BOOLEAN])
    BY DEF TypeOK
  <2>2. [lit : Lit, level : Nat, reason : DOMAIN data \cup {NULL}, decision : BOOLEAN] \subseteq TrailEntry
    BY <1>0 DEF TrailEntry
  <2> QED BY <2>1, <2>2, SeqMonotonic DEF Trails
<1>2. DOMAIN trail = 1..Len(trail) /\ Len(trail) \in Nat
  BY DEF TypeOK
<1> QED BY <1>1, <1>2 DEF LevelsMatch, Leveled, DecisionsTo

\* Decisions up to a position are finitely many.
LEMMA DecisionsFinite ==
  ASSUME NEW t, NEW k \in Nat
  PROVE  IsFiniteSet(DecisionsTo(t, k)) /\ Cardinality(DecisionsTo(t, k)) \in Nat
<1>1. IsFiniteSet(1..k)
  BY FS_Interval
<1>2. DecisionsTo(t, k) \in SUBSET (1..k)
  BY DEF DecisionsTo
<1>3. IsFiniteSet(DecisionsTo(t, k))
  BY <1>1, <1>2, FS_Subset
<1> QED BY <1>3, FS_CardinalityType

\* There is no decision before the first position.
LEMMA DecisionsNone ==
  ASSUME NEW t
  PROVE  Cardinality(DecisionsTo(t, 0)) = 0
<1>1. DecisionsTo(t, 0) = {}
  BY DEF DecisionsTo
<1> QED BY <1>1, FS_EmptySet

\* A position adds one to the decisions before it when it is one.
LEMMA DecisionsStep ==
  ASSUME NEW t, NEW k \in Nat \ {0}
  PROVE  Cardinality(DecisionsTo(t, k)) =
           Cardinality(DecisionsTo(t, k - 1)) + (IF t[k].decision THEN 1 ELSE 0)
<1>0. k - 1 \in Nat
  OBVIOUS
<1>1. CASE t[k].decision
  <2>1. DecisionsTo(t, k) = DecisionsTo(t, k - 1) \cup {k} /\ k \notin DecisionsTo(t, k - 1)
    BY <1>1 DEF DecisionsTo
  <2> QED BY <1>0, <1>1, <2>1, DecisionsFinite, FS_AddElement
<1>2. CASE ~t[k].decision
  <2>1. DecisionsTo(t, k) = DecisionsTo(t, k - 1)
    BY <1>2 DEF DecisionsTo
  <2> QED BY <1>0, <1>2, <2>1, DecisionsFinite
<1> QED BY <1>1, <1>2

\* Decisions up to a position are no more than those up to a later one.
LEMMA DecisionsGrow ==
  ASSUME NEW t, NEW j \in Nat, NEW k \in Nat, j <= k
  PROVE  Cardinality(DecisionsTo(t, j)) <= Cardinality(DecisionsTo(t, k))
<1>1. DecisionsTo(t, j) \in SUBSET DecisionsTo(t, k)
  BY DEF DecisionsTo
<1> QED BY <1>1, DecisionsFinite, FS_Subset

\* Trails that agree up to a position have the same decisions there.
LEMMA DecisionsEqual ==
  ASSUME NEW t, NEW u, NEW k, \A j \in 1..k : t[j].decision = u[j].decision
  PROVE  DecisionsTo(t, k) = DecisionsTo(u, k)
BY DEF DecisionsTo

\* Levels along a list: they only grow, and by one at each decision.
LEMMA LevelFacts ==
  ASSUME NEW t \in Trails, NEW dl, Leveled(t, dl)
  PROVE  /\ dl \in Nat
         /\ \A k \in 1..Len(t) : t[k].level \in Nat /\ t[k].level <= dl
         /\ \A j, k \in 1..Len(t) : j <= k => t[j].level <= t[k].level
         /\ \A k \in 1..Len(t) : t[k].decision => t[k].level >= 1
         /\ \A j, k \in 1..Len(t) : j < k /\ t[k].decision => t[j].level < t[k].level
         /\ t # <<>> => dl = t[Len(t)].level
         /\ t = <<>> => dl = 0
<1>0. Len(t) \in Nat /\ \A k \in 1..Len(t) : t[k].level \in Nat /\ t[k].decision \in BOOLEAN
  BY TrailTypes
<1>1. \A k \in 1..Len(t) : t[k].level = Cardinality(DecisionsTo(t, k))
  BY DEF Leveled
<1>2. dl = Cardinality(DecisionsTo(t, Len(t)))
  BY DEF Leveled
<1>3. \A j, k \in 1..Len(t) : j <= k => t[j].level <= t[k].level
  BY <1>0, <1>1, DecisionsGrow
<1>4. \A k \in 1..Len(t) : t[k].level <= dl
  BY <1>0, <1>1, <1>2, DecisionsGrow
<1>5. ASSUME NEW j \in 0..Len(t), NEW k \in 1..Len(t), j < k, t[k].decision
      PROVE  Cardinality(DecisionsTo(t, j)) < t[k].level
  <2>1. k - 1 \in Nat /\ j <= k - 1 /\ j \in Nat /\ k \in Nat \ {0}
    BY <1>0, <1>5
  <2>2. t[k].level = Cardinality(DecisionsTo(t, k - 1)) + 1
    BY <1>1, <1>5, <2>1, DecisionsStep
  <2>3. Cardinality(DecisionsTo(t, j)) <= Cardinality(DecisionsTo(t, k - 1))
    BY <2>1, DecisionsGrow
  <2>4. Cardinality(DecisionsTo(t, j)) \in Nat /\ Cardinality(DecisionsTo(t, k - 1)) \in Nat
    BY <2>1, DecisionsFinite
  <2> QED BY <2>2, <2>3, <2>4
<1>6. \A j, k \in 1..Len(t) : j < k /\ t[k].decision => t[j].level < t[k].level
  BY <1>0, <1>1, <1>5
<1>7. ASSUME NEW k \in 1..Len(t), t[k].decision PROVE t[k].level >= 1
  <2>1. Cardinality(DecisionsTo(t, 0)) < t[k].level /\ 0 \in 0..Len(t) /\ 0 < k
    BY <1>0, <1>5, <1>7
  <2> QED BY <1>0, <2>1, DecisionsNone
<1>8. dl \in Nat
  BY <1>0, <1>2, DecisionsFinite
<1>9. t = <<>> => dl = 0
  BY <1>2, DecisionsNone
<1>10. t # <<>> => dl = t[Len(t)].level
  BY <1>0, <1>1, <1>2
<1> QED BY <1>0, <1>3, <1>4, <1>6, <1>7, <1>8, <1>9, <1>10

\* A prefix of a leveled trail is leveled, at the level of its last entry.
LEMMA LeveledPrefix ==
  ASSUME NEW t \in Trails, NEW dl, Leveled(t, dl), NEW n \in 0..Len(t), NEW u \in Trails,
         Len(u) = n, \A k \in 1..n : u[k] = t[k]
  PROVE  Leveled(u, IF n = 0 THEN 0 ELSE t[n].level)
<1>0. Len(t) \in Nat /\ n \in Nat
  BY DEF Trails
<1>1. \A k \in 1..n : DecisionsTo(u, k) = DecisionsTo(t, k)
  BY <1>0, DecisionsEqual
<1>2. \A k \in 1..n : u[k].level = Cardinality(DecisionsTo(u, k))
  BY <1>0, <1>1 DEF Leveled
<1>3. (IF n = 0 THEN 0 ELSE t[n].level) = Cardinality(DecisionsTo(u, n))
  BY <1>0, <1>1, DecisionsNone DEF Leveled
<1> QED BY <1>2, <1>3 DEF Leveled

\* An entry of the right level keeps a trail leveled.
LEMMA LeveledAppend ==
  ASSUME NEW t \in Trails, NEW dl, Leveled(t, dl),
         NEW e \in TrailEntry,
         e.level = dl + (IF e.decision THEN 1 ELSE 0)
  PROVE  Append(t, e) \in Trails /\ Leveled(Append(t, e), e.level)
<1>0. Len(t) \in Nat /\ Append(t, e) \in Trails /\ Len(Append(t, e)) = Len(t) + 1
  BY DEF Trails
<1>1. PICK u \in Trails : u = Append(t, e)
  BY <1>0
<1>2. u[Len(t) + 1] = e /\ \A k \in 1..Len(t) : u[k] = t[k]
  BY <1>0, <1>1 DEF Trails
<1>3. \A k \in 0..Len(t) : DecisionsTo(u, k) = DecisionsTo(t, k)
  BY <1>0, <1>2, DecisionsEqual
<1>4. Cardinality(DecisionsTo(u, Len(t) + 1)) = e.level
  <2>1. Cardinality(DecisionsTo(u, Len(t) + 1)) =
          Cardinality(DecisionsTo(u, (Len(t) + 1) - 1)) + (IF u[Len(t) + 1].decision THEN 1 ELSE 0)
    BY <1>0, DecisionsStep
  <2>2. (Len(t) + 1) - 1 = Len(t) /\ Cardinality(DecisionsTo(u, Len(t))) = dl
    BY <1>0, <1>3 DEF Leveled
  <2> QED BY <1>2, <2>1, <2>2
<1>5. \A k \in 1..Len(t) : u[k].level = Cardinality(DecisionsTo(u, k))
  BY <1>0, <1>2, <1>3 DEF Leveled
<1>6. Leveled(u, e.level)
  <2>1. \A k \in 1..(Len(t) + 1) : k \in 1..Len(t) \/ k = Len(t) + 1
    BY <1>0
  <2> QED BY <1>0, <1>1, <1>2, <1>4, <1>5, <2>1 DEF Leveled
<1> QED BY <1>0, <1>1, <1>6

\* Level 0 is a prefix.
BottomOf(t) == Cardinality({k \in DOMAIN t : t[k].level = 0})
\* Level 0 is the bottom of the trail, and all of it at level 0.
LEMMA BottomFacts ==
  ASSUME NEW t \in Trails, NEW dl, Leveled(t, dl)
  PROVE  /\ BottomOf(t) \in 0..Len(t)
         /\ \A k \in 1..Len(t) : t[k].level = 0 <=> k <= BottomOf(t)
         /\ dl = 0 <=> BottomOf(t) = Len(t)
<1> DEFINE Z == {k \in 1..Len(t) : t[k].level = 0}
<1>0. Len(t) \in Nat /\ DOMAIN t = 1..Len(t) /\ \A k \in 1..Len(t) : t[k].level \in Nat
  BY TrailTypes
<1>1. BottomOf(t) = Cardinality(Z)
  BY <1>0 DEF BottomOf
<1>2. \E b \in 0..Len(t) : Z = 1..b
  <2>1. CASE Z = {}
    <3>1. Z = 1..0
      BY <2>1
    <3> QED BY <1>0, <3>1
  <2>2. CASE Z # {}
    <3>1. Z \in SUBSET (0..Len(t))
      BY <1>0
    <3>2. PICK b \in Z : \A m \in Z : m <= b
      <4> HIDE DEF Z
      <4> QED BY <1>0, <2>2, <3>1, GreatestElement
    <3>3. \A k \in 1..b : k \in Z
      <4>1. \A j, k \in 1..Len(t) : j <= k => t[j].level <= t[k].level
        BY LevelFacts
      <4> QED BY <1>0, <3>2, <4>1
    <3>4. Z = 1..b /\ b \in 0..Len(t)
      BY <1>0, <3>2, <3>3
    <3> QED BY <3>4
  <2> QED BY <2>1, <2>2
<1>3. PICK b \in 0..Len(t) : Z = 1..b
  BY <1>2
<1>4. BottomOf(t) = b
  <2>1. Cardinality(1..b) = b
    BY <1>0, FS_Interval
  <2> QED BY <1>1, <1>3, <2>1
<1>5. \A k \in 1..Len(t) : t[k].level = 0 <=> k <= b
  BY <1>0, <1>3
<1>6. dl = 0 <=> b = Len(t)
  <2>1. \A k \in 1..Len(t) : t[k].level <= dl
    BY LevelFacts
  <2>2. dl \in Nat /\ (t # <<>> => dl = t[Len(t)].level) /\ (t = <<>> => dl = 0)
    BY LevelFacts
  <2>3. CASE t = <<>>
    <3>1. Len(t) = 0
      BY <2>3
    <3> QED BY <1>0, <2>2, <2>3, <3>1
  <2>4. CASE t # <<>>
    <3>1. Len(t) \in 1..Len(t)
      BY <1>0, <2>4 DEF Trails
    <3>2. dl = t[Len(t)].level
      BY <2>2, <2>4
    <3>3. dl = 0 <=> Len(t) <= b
      BY <1>5, <3>1, <3>2
    <3>4. b = Len(t) <=> Len(t) <= b
      <4>1. b \in 0..Len(t) /\ Len(t) \in Nat
        BY <1>0, <1>3
      <4> QED BY ONLY <4>1
    <3> QED BY ONLY <3>3, <3>4
  <2> QED BY <2>3, <2>4
<1> QED BY <1>4, <1>5, <1>6

-----------------------------------------------------------------------------
(* What restore_facts does.                                                 *)

\* u is t with literals that clauses of one literal imply at level 0.
ImpliedAtRoot(e) ==
  /\ e.level = 0 /\ ~e.decision
  /\ e.reason \in DOMAIN data /\ data[e.reason] = <<e.lit>>
RootGrown(t, u, ids) ==
  /\ u \in Trails /\ Len(t) <= Len(u) /\ \A k \in 1..Len(t) : u[k] = t[k]
  /\ \A k \in (Len(t) + 1)..Len(u) :
       /\ ImpliedAtRoot(u[k]) /\ u[k].reason \in ids
       /\ \A j \in 1..(k - 1) : VarOf(u[j].lit) # VarOf(u[k].lit)

\* A literal is unknown exactly when no entry has its variable.
LEMMA TrailsUnknown ==
  ASSUME NEW t \in Trails, NEW l \in Lit
  PROVE  IsUnknown(t, l) <=> \A j \in 1..Len(t) : VarOf(t[j].lit) # VarOf(l)
<1>1. DOMAIN t = 1..Len(t) /\ \A j \in 1..Len(t) : t[j].lit \in Lit
  BY TrailTypes
<1>2. \A j \in 1..Len(t) : VarOf(t[j].lit) = VarOf(l) <=> (t[j].lit = l \/ t[j].lit = -l)
  BY <1>1, LitFacts
<1> QED BY <1>1, <1>2 DEF IsUnknown, IsFalse, IsTrue

\* The clauses of a state, by identifier.
LEMMA DataTypes ==
  ASSUME TypeOK
  PROVE  /\ DOMAIN data = 1..Len(data) /\ Len(data) \in Nat
         /\ \A id \in DOMAIN data : /\ id \in Nat \ {0} /\ data[id] \in Seq(Lit)
              /\ DOMAIN data[id] = 1..Len(data[id]) /\ Len(data[id]) \in Nat
              /\ \A n \in 1..Len(data[id]) : data[id][n] \in Lit
<1>1. data \in Seq(Seq(Lit))
  BY DEF TypeOK
<1>2. DOMAIN data = 1..Len(data) /\ Len(data) \in Nat /\ \A id \in DOMAIN data : id \in Nat \ {0} /\ data[id] \in Seq(Lit)
  BY <1>1
<1>3. \A d \in Seq(Lit) : DOMAIN d = 1..Len(d) /\ Len(d) \in Nat /\ \A n \in 1..Len(d) : d[n] \in Lit
  OBVIOUS
<1> QED BY <1>2, <1>3

\* Implying a unit again adds at most its literal to level 0.
LEMMA ReimplyFacts ==
  ASSUME TypeOK, NEW t \in Trails, NEW id \in DOMAIN data
  PROVE  /\ RootGrown(t, Reimply(t, id), {id})
         /\ Len(data[id]) = 1 => ~IsUnknown(Reimply(t, id), data[id][1])
<1>1. CASE ~(Len(data[id]) = 1 /\ IsUnknown(t, data[id][1]))
  <2>1. Reimply(t, id) = t
    BY <1>1 DEF Reimply
  <2>2. Len(t) \in Nat
    BY TrailTypes
  <2> QED BY <1>1, <2>1, <2>2 DEF RootGrown
<1>2. CASE Len(data[id]) = 1 /\ IsUnknown(t, data[id][1])
  <2>1. data[id] \in Seq(Lit) /\ id \in Nat
    BY DataTypes
  <2>2. PICK l \in Lit : l = data[id][1] /\ data[id] = <<l>>
    BY <1>2, <2>1
  <2> DEFINE e == [lit |-> l, level |-> 0, reason |-> id, decision |-> FALSE]
  <2>3. e \in TrailEntry /\ e.lit = l /\ ImpliedAtRoot(e)
    BY <2>1, <2>2 DEF TrailEntry, ImpliedAtRoot
  <2>4. PICK u : u = Append(t, e)
    OBVIOUS
  <2>5. Reimply(t, id) = u
    BY <1>2, <2>2, <2>4 DEF Reimply
  <2>6. /\ u \in Trails /\ Len(u) = Len(t) + 1 /\ Len(t) \in Nat
        /\ u[Len(t) + 1] = e /\ \A k \in 1..Len(t) : u[k] = t[k]
    <3> HIDE DEF e
    <3> QED BY <2>3, <2>4 DEF Trails
  <2>7. \A j \in 1..Len(t) : VarOf(u[j].lit) # VarOf(l)
    BY <1>2, <2>2, <2>6, TrailsUnknown
  <2>8. \A k \in (Len(t) + 1)..Len(u) : k = Len(t) + 1 /\ k - 1 = Len(t)
    BY <2>6
  <2>9. ~IsUnknown(u, data[id][1])
    <3>1. Len(t) + 1 \in DOMAIN u
      BY <2>6 DEF Trails
    <3> QED BY <2>2, <2>3, <2>6, <3>1 DEF IsUnknown, IsTrue
  <2> QED BY <2>3, <2>5, <2>6, <2>7, <2>8, <2>9 DEF RootGrown
<1> QED BY <1>1, <1>2

\* A literal that is known stays so when the trail grows.
LEMMA GrownKnown ==
  ASSUME NEW t \in Trails, NEW u, NEW ids, RootGrown(t, u, ids), NEW l, ~IsUnknown(t, l)
  PROVE  ~IsUnknown(u, l)
<1>1. /\ DOMAIN t = 1..Len(t) /\ DOMAIN u = 1..Len(u) /\ Len(t) \in Nat /\ Len(u) \in Nat
      /\ Len(t) <= Len(u) /\ \A k \in 1..Len(t) : u[k] = t[k]
  BY DEF RootGrown, Trails
<1>2. \A k \in 1..Len(t) : k \in 1..Len(u)
  BY <1>1
<1>3. \A m : IsTrue(t, m) => IsTrue(u, m)
  BY <1>1, <1>2 DEF IsTrue
<1> QED BY <1>3 DEF IsUnknown, IsFalse

\* Two lots of literals implied at level 0 are one.
LEMMA RootGrownTwice ==
  ASSUME NEW t \in Trails, NEW u, NEW w, NEW X, NEW Y, RootGrown(t, u, X), RootGrown(u, w, Y)
  PROVE  RootGrown(t, w, X \cup Y)
<1>1. Len(t) \in Nat /\ Len(u) \in Nat /\ Len(w) \in Nat
  BY TrailTypes DEF RootGrown
<1>2. \A k \in 1..Len(u) : w[k] = u[k]
  BY DEF RootGrown
<1>3. Len(t) <= Len(w) /\ \A k \in 1..Len(t) : w[k] = t[k]
  BY <1>1, <1>2 DEF RootGrown
<1>4. ASSUME NEW k \in (Len(t) + 1)..Len(w)
      PROVE  /\ ImpliedAtRoot(w[k]) /\ w[k].reason \in X \cup Y
             /\ \A j \in 1..(k - 1) : VarOf(w[j].lit) # VarOf(w[k].lit)
  <2>1. CASE k <= Len(u)
    <3>1. k \in (Len(t) + 1)..Len(u) /\ k \in 1..Len(u) /\ w[k] = u[k]
      BY <1>1, <1>2, <2>1
    <3>2. \A j \in 1..(k - 1) : w[j] = u[j]
      BY <1>1, <1>2, <2>1
    <3>3. /\ ImpliedAtRoot(u[k]) /\ u[k].reason \in X
          /\ \A j \in 1..(k - 1) : VarOf(u[j].lit) # VarOf(u[k].lit)
      BY <3>1 DEF RootGrown
    <3> QED BY <3>1, <3>2, <3>3
  <2>2. CASE ~(k <= Len(u))
    BY <1>1, <2>2 DEF RootGrown
  <2> QED BY <2>1, <2>2
<1> QED BY <1>3, <1>4 DEF RootGrown

\* Implying a list of units again adds only their literals to level 0.
LEMMA ReimpliedFacts ==
  ASSUME TypeOK, NEW t \in Trails, NEW fs \in Seq(DOMAIN data)
  PROVE  /\ RootGrown(t, Reimplied(t, fs), Range(fs))
         /\ \A id \in Range(fs) : Len(data[id]) = 1 => ~IsUnknown(Reimplied(t, fs), data[id][1])
<1> DEFINE N == Len(fs)
           G == [k \in 1..N |-> [v \in Trails |-> Reimply(v, fs[k])]]
           after == CHOOSE f : f = [k \in 0..N |-> IF k = 0 THEN t ELSE Reimply(f[k - 1], fs[k])]
           Known(v, k) == \A j \in 1..k : Len(data[fs[j]]) = 1 => ~IsUnknown(v, data[fs[j]][1])
           P == [k \in 0..N |-> {v \in Trails : RootGrown(t, v, Range(fs)) /\ Known(v, k)}]
<1>0. N \in Nat /\ \A k \in 1..N : fs[k] \in DOMAIN data /\ fs[k] \in Range(fs) /\ k - 1 \in 0..N
  BY DEF Range
<1>1. \A k \in 1..N, v \in Trails : G[k][v] = Reimply(v, fs[k]) /\ G[k][v] \in Trails
  BY <1>0, ReimplyFacts DEF RootGrown
<1>2. \E f \in [0..N -> Trails] : Folds(f, N, t, G)
  <2>1. N \in Nat /\ G \in [1..N -> [Trails -> Trails]]
    BY <1>0, <1>1
  <2> HIDE DEF G, N
  <2> QED BY <2>1, RecursiveFunction
<1>3. PICK f \in [0..N -> Trails] : f[0] = t /\ \A k \in 1..N : f[k] = Reimply(f[k - 1], fs[k])
  <2>1. PICK f \in [0..N -> Trails] : Folds(f, N, t, G)
    BY <1>2
  <2> HIDE DEF G
  <2> QED BY <1>0, <1>1, <2>1 DEF Folds
<1>4. f = [k \in 0..N |-> IF k = 0 THEN t ELSE Reimply(f[k - 1], fs[k])]
  <2>1. \A k \in 0..N : k # 0 => k \in 1..N
    BY <1>0
  <2> QED BY <1>3, <2>1
<1>5. after = [k \in 0..N |-> IF k = 0 THEN t ELSE Reimply(after[k - 1], fs[k])]
  BY <1>4
<1> HIDE DEF after
<1>6. after[0] = t /\ \A k \in 1..N : after[k] = Reimply(after[k - 1], fs[k])
  <2>1. \A k \in 1..N : k \in 0..N /\ k # 0
    BY <1>0
  <2> QED BY <1>0, <1>5, <2>1
<1>7. after[0] \in P[0]
  <2>1. RootGrown(t, t, Range(fs)) /\ Known(t, 0)
    BY TrailTypes DEF RootGrown
  <2> QED BY <1>0, <1>6, <2>1
<1>8. ASSUME NEW k \in 1..N, after[k - 1] \in P[k - 1] PROVE after[k] \in P[k]
  <2>1. after[k - 1] \in Trails /\ RootGrown(t, after[k - 1], Range(fs)) /\ Known(after[k - 1], k - 1)
    BY <1>0, <1>8
  <2>2. /\ RootGrown(after[k - 1], after[k], {fs[k]})
        /\ Len(data[fs[k]]) = 1 => ~IsUnknown(after[k], data[fs[k]][1])
    BY <1>0, <1>6, <2>1, ReimplyFacts
  <2>3. Range(fs) \cup {fs[k]} = Range(fs)
    BY <1>0
  <2>4. RootGrown(t, after[k], Range(fs))
    BY <2>1, <2>2, <2>3, RootGrownTwice
  <2>5. k \in 0..N /\ \A j \in 1..k : j \in 1..(k - 1) \/ j = k
    BY <1>0
  <2>6. ASSUME NEW j \in 1..k, Len(data[fs[j]]) = 1 PROVE ~IsUnknown(after[k], data[fs[j]][1])
    <3>1. CASE j = k
      BY <2>2, <2>6, <3>1
    <3>2. CASE j \in 1..(k - 1)
      BY <2>1, <2>2, <2>6, <3>2, GrownKnown
    <3> QED BY <2>5, <3>1, <3>2
  <2> QED BY <2>4, <2>5, <2>6 DEF RootGrown
<1>9. \A k \in 0..N : after[k] \in P[k]
  <2> HIDE DEF P, N
  <2> QED BY <1>0, <1>7, <1>8, FoldInvariant
<1>10. Reimplied(t, fs) = after[N]
  BY DEF Reimplied, after
<1>11. N \in 0..N
  BY <1>0
<1>12. RootGrown(t, after[N], Range(fs)) /\ Known(after[N], N)
  BY <1>9, <1>11
<1>13. \A id \in Range(fs) : \E j \in 1..N : id = fs[j]
  BY DEF Range
<1> QED BY <1>10, <1>12, <1>13

\* The range of a concatenation.
LEMMA RangeConcat ==
  ASSUME NEW S, NEW s \in Seq(S), NEW u \in Seq(S)
  PROVE  s \o u \in Seq(S) /\ Len(s \o u) = Len(s) + Len(u) /\ Range(s \o u) = Range(s) \cup Range(u)
<1>1. PICK c : c = s \o u
  OBVIOUS
<1>2. /\ c \in Seq(S) /\ Len(c) = Len(s) + Len(u)
      /\ \A n \in 1..(Len(s) + Len(u)) : c[n] = IF n <= Len(s) THEN s[n] ELSE u[n - Len(s)]
  BY <1>1, ConcatProperties
<1>3. Len(s) \in Nat /\ Len(u) \in Nat /\ DOMAIN s = 1..Len(s) /\ DOMAIN u = 1..Len(u) /\ DOMAIN c = 1..(Len(s) + Len(u))
  BY <1>2
<1>4. \A n \in 1..Len(s) : n \in 1..(Len(s) + Len(u)) /\ c[n] = s[n]
  BY <1>2, <1>3
<1>5. \A n \in 1..Len(u) : n + Len(s) \in 1..(Len(s) + Len(u)) /\ c[n + Len(s)] = u[n]
  BY <1>2, <1>3
<1>6. \A n \in 1..(Len(s) + Len(u)) : (n \in 1..Len(s) /\ c[n] = s[n]) \/ (n - Len(s) \in 1..Len(u) /\ c[n] = u[n - Len(s)])
  BY <1>2, <1>3
<1>7. Range(c) = Range(s) \cup Range(u)
  <2>1. /\ Range(c) = {c[n] : n \in 1..(Len(s) + Len(u))}
        /\ Range(s) = {s[n] : n \in 1..Len(s)} /\ Range(u) = {u[n] : n \in 1..Len(u)}
    BY <1>3 DEF Range
  <2>2. \A x \in Range(c) : x \in Range(s) \cup Range(u)
    BY <1>6, <2>1
  <2>3. \A n \in 1..Len(s) : s[n] \in Range(c)
    BY <1>4, <2>1
  <2>4. \A n \in 1..Len(u) : u[n] \in Range(c)
    BY <1>5, <2>1
  <2> QED BY <2>1, <2>2, <2>3, <2>4
<1> QED BY <1>1, <1>2, <1>7

\* Units collected from popped variables are units of those variables.
LEMMA CollectedFacts ==
  ASSUME TypeOK, NEW n \in 0..Bottom, Bottom \in 0..Len(trail)
  PROVE  /\ Collected(n) \in Seq(DOMAIN data)
         /\ \A id \in Range(Collected(n)) :
              \E k \in (n + 1)..Bottom : id \in Range(unit_facts[VarOf(trail[k].lit)])
         /\ \A k \in (n + 1)..Bottom : Range(unit_facts[VarOf(trail[k].lit)]) \subseteq Range(Collected(n))
<1> DEFINE N == Bottom - n
           uf(k) == unit_facts[VarOf(trail[Bottom + 1 - k].lit)]
           V == Seq(DOMAIN data)
           G == [k \in 1..N |-> [v \in V |-> v \o uf(k)]]
           upTo == CHOOSE f : f = [k \in 0..N |-> IF k = 0 THEN <<>> ELSE f[k - 1] \o uf(k)]
           Good(s) == \A id \in Range(s) : \E k \in (n + 1)..Bottom : id \in Range(unit_facts[VarOf(trail[k].lit)])
           Has(s, k) == \A j \in 1..k : Range(uf(j)) \subseteq Range(s)
           P == [k \in 0..N |-> {s \in V : Good(s) /\ Has(s, k)}]
<1>0. N \in Nat /\ n \in Nat /\ Bottom \in Nat
  BY LeveledTrail
<1>1. \A k \in 1..N : Bottom + 1 - k \in (n + 1)..Bottom /\ Bottom + 1 - k \in 1..Len(trail) /\ k - 1 \in 0..N /\ k \in 0..N /\ k # 0
  BY <1>0, LeveledTrail
<1>2. \A k \in 1..N : uf(k) \in V
  <2>1. \A k \in 1..Len(trail) : trail[k].lit \in Lit
    BY LeveledTrail, TrailTypes
  <2>2. \A k \in 1..Len(trail) : unit_facts[VarOf(trail[k].lit)] \in V
    BY <2>1, LitFacts DEF TypeOK
  <2> QED BY <1>1, <2>2
<1>3. G \in [1..N -> [V -> V]]
  <2>1. \A v, w \in V : v \o w \in V
    BY ConcatProperties
  <2> HIDE DEF V, N
  <2> QED BY <1>2, <2>1
<1>4. \A k \in 1..N, v \in V : G[k][v] = v \o uf(k)
  OBVIOUS
<1>5. <<>> \in V
  OBVIOUS
<1>6. \E f \in [0..N -> V] : Folds(f, N, <<>>, G)
  <2> HIDE DEF G, V, N
  <2> QED BY <1>0, <1>3, <1>5, RecursiveFunction
<1>7. PICK f \in [0..N -> V] : f[0] = <<>> /\ \A k \in 1..N : f[k] = f[k - 1] \o uf(k)
  <2>1. PICK f \in [0..N -> V] : Folds(f, N, <<>>, G)
    BY <1>6
  <2>2. \A k \in 1..N : f[k - 1] \in V
    BY <1>1
  <2>3. f[0] = <<>> /\ \A k \in 1..N : f[k] = G[k][f[k - 1]]
    BY <2>1 DEF Folds
  <2> HIDE DEF G, V, uf
  <2> QED BY <1>4, <2>2, <2>3, ZenonT(40)
<1> HIDE DEF uf, V
<1>8. f = [k \in 0..N |-> IF k = 0 THEN <<>> ELSE f[k - 1] \o uf(k)]
  <2>1. \A k \in 0..N : k # 0 => k \in 1..N
    BY <1>0
  <2> QED BY <1>7, <2>1
<1>9. upTo = [k \in 0..N |-> IF k = 0 THEN <<>> ELSE upTo[k - 1] \o uf(k)]
  BY <1>8, Zenon
<1> HIDE DEF upTo
<1>10. upTo[0] = <<>> /\ \A k \in 1..N : upTo[k] = upTo[k - 1] \o uf(k)
  <2>1. upTo[0] = <<>>
    BY <1>0, <1>9
  <2>2. ASSUME NEW k \in 1..N PROVE upTo[k] = upTo[k - 1] \o uf(k)
    <3>1. k \in 0..N /\ k # 0
      BY <1>1
    <3> HIDE DEF N
    <3> QED BY <1>9, <3>1
  <2> QED BY <2>1, <2>2
<1>11. upTo[0] \in P[0]
  <2>1. Range(<<>>) = {}
    BY DEF Range
  <2> QED BY <1>0, <1>5, <1>10, <2>1
<1>12. ASSUME NEW k \in 1..N, upTo[k - 1] \in P[k - 1] PROVE upTo[k] \in P[k]
  <2>1. upTo[k - 1] \in V /\ Good(upTo[k - 1]) /\ Has(upTo[k - 1], k - 1)
    BY <1>1, <1>12
  <2>2. uf(k) \in V
    BY <1>2
  <2>3. upTo[k] \in V /\ Range(upTo[k]) = Range(upTo[k - 1]) \cup Range(uf(k))
    <3>1. PICK s \in V, u \in V : s = upTo[k - 1] /\ u = uf(k)
      BY <2>1, <2>2
    <3>2. s \o u \in V /\ Range(s \o u) = Range(s) \cup Range(u)
      BY RangeConcat DEF V
    <3> QED BY <1>10, <3>1, <3>2
  <2>4. Good(upTo[k])
    <3>1. \A id \in Range(uf(k)) : \E j \in (n + 1)..Bottom : id \in Range(unit_facts[VarOf(trail[j].lit)])
      BY <1>1 DEF uf
    <3> QED BY <2>1, <2>3, <3>1
  <2>5. Has(upTo[k], k)
    <3>1. \A j \in 1..k : j \in 1..(k - 1) \/ j = k
      BY <1>0
    <3> QED BY <2>1, <2>3, <3>1
  <2> QED BY <1>1, <2>3, <2>4, <2>5
<1>13. \A k \in 0..N : upTo[k] \in P[k]
  <2> HIDE DEF P, N
  <2> QED BY <1>0, <1>11, <1>12, FoldInvariant
<1>14. Collected(n) = upTo[N]
  BY DEF Collected, upTo, uf
<1>15. N \in 0..N
  BY <1>0
<1>16. upTo[N] \in V /\ Good(upTo[N]) /\ Has(upTo[N], N)
  BY <1>13, <1>15
<1>17. \A k \in (n + 1)..Bottom : Range(unit_facts[VarOf(trail[k].lit)]) \subseteq Range(upTo[N])
  <2>1. \A k \in (n + 1)..Bottom : Bottom + 1 - k \in 1..N /\ Bottom + 1 - (Bottom + 1 - k) = k
    BY <1>0
  <2> QED BY <1>16, <2>1 DEF uf
<1> QED BY <1>14, <1>16, <1>17 DEF V

\* A unit has nothing to watch: the lists stay as they are.
LEMMA RewatchedFacts ==
  ASSUME TypeOK, NEW fs \in Seq(DOMAIN data), \A id \in Range(fs) : Len(data[id]) = 1
  PROVE  Rewatched(fs) = wlist
<1> DEFINE N == Len(fs)
           after == CHOOSE f : f = [k \in 0..N |-> IF k = 0 THEN wlist ELSE Rewatch(f[k - 1], fs[k])]
           P == [k \in 0..N |-> {wlist}]
<1>0. N \in Nat /\ \A k \in 1..N : k \in 0..N /\ k # 0 /\ k - 1 \in 0..N
  OBVIOUS
<1>1. \A k \in 1..N : Rewatch(wlist, fs[k]) = wlist
  BY DEF Rewatch, Range
<1>2. PICK f : f = [k \in 0..N |-> wlist]
  OBVIOUS
<1>3. f = [k \in 0..N |-> IF k = 0 THEN wlist ELSE Rewatch(f[k - 1], fs[k])]
  <2>1. \A k \in 0..N : k # 0 => k \in 1..N
    BY <1>0
  <2> QED BY <1>0, <1>1, <1>2, <2>1
<1>4. after = [k \in 0..N |-> IF k = 0 THEN wlist ELSE Rewatch(after[k - 1], fs[k])]
  BY <1>3
<1> HIDE DEF after
<1>5. after[0] = wlist /\ \A k \in 1..N : after[k] = Rewatch(after[k - 1], fs[k])
  BY <1>0, <1>4
<1>6. after[0] \in P[0]
  BY <1>0, <1>5
<1>7. ASSUME NEW k \in 1..N, after[k - 1] \in P[k - 1] PROVE after[k] \in P[k]
  BY <1>0, <1>1, <1>5, <1>7
<1>8. \A k \in 0..N : after[k] \in P[k]
  <2> HIDE DEF P, N
  <2> QED BY <1>0, <1>6, <1>7, FoldInvariant
<1>9. N \in 0..N
  BY <1>0
<1>10. Rewatched(fs) = after[N]
  BY DEF Rewatched, after
<1> QED BY <1>8, <1>9, <1>10

-----------------------------------------------------------------------------
(* What resolution does.                                                    *)

\* The fresh literals of a reason are those whose variable is not in the clause yet.
LEMMA FreshFacts ==
  ASSUME NEW d \in Seq(Lit)
  PROVE  /\ Fresh(d) \in Seq(Lit)
         /\ Range(Fresh(d)) = {d[n] : n \in {m \in 1..Len(d) : ~HasLitPos(VarOf(d[m]))}}
         /\ DistinctVars(d) => DistinctVars(Fresh(d))
<1> DEFINE N == Len(d)
           V == Seq(Lit)
           Step(s, k) == IF HasLitPos(VarOf(d[k])) THEN s ELSE Append(s, d[k])
           G == [k \in 1..N |-> [v \in V |-> Step(v, k)]]
           upTo == CHOOSE f : f = [n \in 0..N |-> IF n = 0 THEN <<>>
                     ELSE IF HasLitPos(VarOf(d[n])) THEN f[n - 1] ELSE Append(f[n - 1], d[n])]
           Taken(k) == {d[n] : n \in {m \in 1..k : ~HasLitPos(VarOf(d[m]))}}
           Good(s, k) == Range(s) = Taken(k) /\ (DistinctVars(d) => DistinctVars(s))
           P == [k \in 0..N |-> {s \in V : Good(s, k)}]
<1>0. N \in Nat /\ \A k \in 1..N : k \in 0..N /\ k # 0 /\ k - 1 \in 0..N /\ d[k] \in Lit
  OBVIOUS
<1>1. \A k \in 1..N, s \in V : Step(s, k) \in V
  BY <1>0
<1>2. G \in [1..N -> [V -> V]] /\ \A k \in 1..N, s \in V : G[k][s] = Step(s, k)
  <2> HIDE DEF V, N, Step
  <2> QED BY <1>1
<1>3. \E f \in [0..N -> V] : Folds(f, N, <<>>, G)
  <2>1. <<>> \in V
    OBVIOUS
  <2> HIDE DEF G, V, N
  <2> QED BY <1>0, <1>2, <2>1, RecursiveFunction
<1>4. PICK f \in [0..N -> V] : f[0] = <<>> /\ \A k \in 1..N : f[k] = Step(f[k - 1], k)
  <2>1. PICK f \in [0..N -> V] : Folds(f, N, <<>>, G)
    BY <1>3
  <2>2. \A k \in 1..N : f[k - 1] \in V
    BY <1>0
  <2>3. f[0] = <<>> /\ \A k \in 1..N : f[k] = G[k][f[k - 1]]
    BY <2>1 DEF Folds
  <2> HIDE DEF G, V, Step
  <2> QED BY <1>2, <2>2, <2>3
<1> HIDE DEF V
<1>5. f = [n \in 0..N |-> IF n = 0 THEN <<>>
             ELSE IF HasLitPos(VarOf(d[n])) THEN f[n - 1] ELSE Append(f[n - 1], d[n])]
  <2>1. \A k \in 0..N : k # 0 => k \in 1..N
    BY <1>0
  <2>2. \A k \in 0..N : f[k] = IF k = 0 THEN <<>> ELSE Step(f[k - 1], k)
    <3> HIDE DEF Step
    <3> QED BY <1>4, <2>1
  <2> HIDE DEF N
  <2> QED BY <2>2
<1>6. upTo = [n \in 0..N |-> IF n = 0 THEN <<>>
                ELSE IF HasLitPos(VarOf(d[n])) THEN upTo[n - 1] ELSE Append(upTo[n - 1], d[n])]
  BY <1>5, Zenon
<1> HIDE DEF upTo
<1>7. upTo[0] = <<>> /\ \A k \in 1..N : upTo[k] = Step(upTo[k - 1], k)
  <2>1. upTo[0] = <<>>
    BY <1>0, <1>6
  <2>2. ASSUME NEW k \in 1..N PROVE upTo[k] = Step(upTo[k - 1], k)
    <3>1. k \in 0..N /\ k # 0
      BY <1>0
    <3> HIDE DEF N
    <3> QED BY <1>6, <3>1
  <2> QED BY <2>1, <2>2
<1>8. upTo[0] \in P[0]
  <2>1. Range(<<>>) = {} /\ <<>> \in V /\ DistinctVars(<<>>)
    BY DEF Range, DistinctVars, V
  <2> QED BY <1>0, <1>7, <2>1
<1>9. ASSUME NEW k \in 1..N, upTo[k - 1] \in P[k - 1] PROVE upTo[k] \in P[k]
  <2>1. PICK s \in V : s = upTo[k - 1] /\ Range(s) = Taken(k - 1) /\ (DistinctVars(d) => DistinctVars(s))
    BY <1>0, <1>9
  <2>2. upTo[k] = Step(s, k)
    BY <1>7, <2>1
  <2>3. CASE HasLitPos(VarOf(d[k]))
    <3>1. Taken(k) = Taken(k - 1)
      BY <1>0, <2>3
    <3>2. upTo[k] = s
      BY <2>2, <2>3
    <3> QED BY <1>0, <2>1, <3>1, <3>2
  <2>4. CASE ~HasLitPos(VarOf(d[k]))
    <3>1. Taken(k) = Taken(k - 1) \cup {d[k]}
      <4>1. \A m \in 1..k : m \in 1..(k - 1) \/ m = k
        BY <1>0
      <4>2. \A m \in 1..(k - 1) : m \in 1..k
        BY <1>0
      <4>3. k \in 1..k
        BY <1>0
      <4> QED BY <2>4, <4>1, <4>2, <4>3
    <3>2. PICK u : u = Append(s, d[k])
      OBVIOUS
    <3>3. /\ u \in V /\ Len(u) = Len(s) + 1 /\ u[Len(s) + 1] = d[k] /\ Len(s) \in Nat
          /\ (\A n \in 1..Len(s) : u[n] = s[n]) /\ DOMAIN u = 1..(Len(s) + 1) /\ DOMAIN s = 1..Len(s)
      BY <1>0, <2>1, <3>2 DEF V
    <3>4. Range(u) = Range(s) \cup {d[k]}
      <4>1. \A n \in 1..(Len(s) + 1) : n \in 1..Len(s) \/ n = Len(s) + 1
        BY <3>3
      <4>2. \A n \in 1..Len(s) : n \in 1..(Len(s) + 1)
        BY <3>3
      <4> QED BY <3>3, <4>1, <4>2 DEF Range
    <3>5. DistinctVars(d) => DistinctVars(u)
      <4> SUFFICES ASSUME DistinctVars(d) PROVE DistinctVars(u)
        OBVIOUS
      <4>1. \A n \in 1..Len(s) : VarOf(u[n]) # VarOf(d[k])
        <5>1. \A n \in 1..Len(s) : s[n] \in Taken(k - 1)
          BY <2>1, <3>3 DEF Range
        <5>2. \A m \in 1..(k - 1) : VarOf(d[m]) # VarOf(d[k])
          BY <1>0 DEF DistinctVars
        <5> QED BY <3>3, <5>1, <5>2
      <4>2. \A n, m \in 1..Len(s) : VarOf(u[n]) = VarOf(u[m]) => n = m
        BY <2>1, <3>3 DEF DistinctVars
      <4>3. \A n \in 1..(Len(s) + 1) : n \in 1..Len(s) \/ n = Len(s) + 1
        BY <3>3
      <4> QED BY <3>3, <4>1, <4>2, <4>3 DEF DistinctVars
    <3>6. upTo[k] = u
      BY <2>2, <2>4, <3>2
    <3> QED BY <1>0, <2>1, <3>1, <3>3, <3>4, <3>5, <3>6
  <2> QED BY <2>3, <2>4
<1>10. \A k \in 0..N : upTo[k] \in P[k]
  <2> HIDE DEF P, N
  <2> QED BY <1>0, <1>8, <1>9, FoldInvariant
<1>11. Fresh(d) = upTo[N]
  BY DEF Fresh, upTo
<1>12. N \in 0..N
  BY <1>0
<1> QED BY <1>10, <1>11, <1>12 DEF V

\* The places before the last are all but the last.
LEMMA Below ==
  ASSUME NEW N \in Nat
  PROVE  /\ \A n \in 1..(N - 1) : n \in 1..N /\ n # N
         /\ \A n \in 1..N : n # N => n \in 1..(N - 1)
OBVIOUS

\* The last literal takes the place of the one that is dropped.
LEMMA DropFacts ==
  ASSUME NEW u \in Seq(Lit), NEW k \in 1..Len(u)
  PROVE  LET r == Front(Swap(u, k, Len(u))) IN
         /\ r \in Seq(Lit) /\ Len(r) = Len(u) - 1
         /\ Range(r) = {u[n] : n \in (1..Len(u)) \ {k}}
         /\ DistinctVars(u) => DistinctVars(r)
<1>0. Len(u) \in Nat \ {0} /\ Len(u) \in 1..Len(u) /\ DOMAIN u = 1..Len(u)
  OBVIOUS
<1>b. /\ \A n \in 1..(Len(u) - 1) : n \in 1..Len(u) /\ n # Len(u)
      /\ \A n \in 1..Len(u) : n # Len(u) => n \in 1..(Len(u) - 1)
  BY <1>0, Below, Zenon
<1>1. PICK s \in Seq(Lit) : s = Swap(u, k, Len(u))
  BY <1>0, SwapFacts
<1>2. Len(s) = Len(u) /\ s # <<>> /\ \A n \in 1..Len(u) :
        s[n] = IF n = Len(u) THEN u[k] ELSE IF n = k THEN u[Len(u)] ELSE u[n]
  <2>1. Len(s) = Len(u) /\ \A n \in 1..Len(u) :
          s[n] = IF n = Len(u) THEN u[k] ELSE IF n = k THEN u[Len(u)] ELSE u[n]
    BY <1>0, <1>1 DEF Swap
  <2>2. s # <<>>
    BY <1>0, <2>1
  <2> QED BY <2>1, <2>2
<1>3. PICK r \in Seq(Lit) : r = Front(s)
  BY <1>2, FrontFacts
<1>4. Len(r) = Len(u) - 1 /\ \A n \in 1..(Len(u) - 1) : r[n] = IF n = k THEN u[Len(u)] ELSE u[n]
  <2>1. Len(r) = Len(s) - 1 /\ \A n \in 1..(Len(s) - 1) : r[n] = s[n]
    BY <1>2, <1>3, FrontFacts
  <2> QED BY <1>2, <1>b, <2>1
<1>5. DOMAIN r = 1..(Len(u) - 1)
  BY <1>4
<1>6. Range(r) = {u[n] : n \in (1..Len(u)) \ {k}}
  <2>1. ASSUME NEW n \in 1..(Len(u) - 1) PROVE \E m \in (1..Len(u)) \ {k} : r[n] = u[m]
    <3>1. n \in 1..Len(u) /\ n # Len(u)
      BY <1>b
    <3>2. CASE n = k
      BY <1>0, <1>4, <3>1, <3>2, Zenon
    <3>3. CASE n # k
      BY <1>4, <3>1, <3>3
    <3> QED BY <3>2, <3>3
  <2>2. ASSUME NEW m \in (1..Len(u)) \ {k} PROVE \E n \in 1..(Len(u) - 1) : r[n] = u[m]
    <3>1. CASE m = Len(u)
      <4>1. k \in 1..(Len(u) - 1)
        BY <1>b, <3>1
      <4> QED BY <1>4, <3>1, <4>1
    <3>2. CASE m # Len(u)
      <4>1. m \in 1..(Len(u) - 1)
        BY <1>b, <3>2
      <4> QED BY <1>4, <4>1
    <3> QED BY <3>1, <3>2
  <2>3. Range(r) = {r[n] : n \in 1..(Len(u) - 1)}
    BY <1>5 DEF Range
  <2>4. \A x \in Range(r) : \E m \in (1..Len(u)) \ {k} : x = u[m]
    BY <2>1, <2>3
  <2>5. \A m \in (1..Len(u)) \ {k} : u[m] \in Range(r)
    BY <2>2, <2>3
  <2> QED BY <2>4, <2>5
<1>7. DistinctVars(u) => DistinctVars(r)
  <2> QED BY <1>0, <1>4, <1>5, <1>b, Zenon DEF DistinctVars
<1> QED BY <1>1, <1>3, <1>4, <1>6, <1>7

\* A resolvent holds the literals of both clauses except those of the variable.
LEMMA ResolventFacts ==
  ASSUME uipClause \in Seq(Lit), NEW d \in Seq(Lit), NEW v, HasLitPos(v),
         DistinctVars(uipClause), DistinctVars(d)
  PROVE  LET r == Resolvent(v, d) IN
         /\ r \in Seq(Lit) /\ DistinctVars(r)
         /\ Range(r) = {l \in Range(uipClause) \cup Range(Fresh(d)) : VarOf(l) # v}
<1> DEFINE w == Fresh(d)
<1>1. w \in Seq(Lit) /\ DistinctVars(w) /\ \A l \in Range(w) : ~HasLitPos(VarOf(l))
  BY FreshFacts
<1> HIDE DEF w
<1>2. PICK u : u = uipClause \o w
  OBVIOUS
<1>3. /\ u \in Seq(Lit) /\ Len(u) = Len(uipClause) + Len(w) /\ Range(u) = Range(uipClause) \cup Range(w)
      /\ \A n \in 1..(Len(uipClause) + Len(w)) :
           u[n] = IF n <= Len(uipClause) THEN uipClause[n] ELSE w[n - Len(uipClause)]
  BY <1>1, <1>2, RangeConcat, ConcatProperties
<1>4. /\ Len(uipClause) \in Nat /\ Len(w) \in Nat /\ DOMAIN u = 1..Len(u)
      /\ DOMAIN uipClause = 1..Len(uipClause) /\ DOMAIN w = 1..Len(w)
  BY <1>1, <1>3
<1>5. \A n \in 1..Len(uipClause) : HasLitPos(VarOf(uipClause[n]))
  BY <1>4 DEF HasLitPos, VarsOf
<1>6. \A n \in 1..Len(w) : ~HasLitPos(VarOf(w[n]))
  BY <1>1, <1>4 DEF Range
<1>7. DistinctVars(u)
  <2> SUFFICES ASSUME NEW m \in 1..Len(u), NEW n \in 1..Len(u), VarOf(u[m]) = VarOf(u[n])
               PROVE  m = n
    BY <1>4 DEF DistinctVars
  <2>1. \A p \in 1..Len(u) : (p \in 1..Len(uipClause) /\ u[p] = uipClause[p])
          \/ (p - Len(uipClause) \in 1..Len(w) /\ u[p] = w[p - Len(uipClause)])
    BY <1>3, <1>4
  <2>2. CASE HasLitPos(VarOf(u[m]))
    <3>1. m \in 1..Len(uipClause) /\ u[m] = uipClause[m] /\ n \in 1..Len(uipClause) /\ u[n] = uipClause[n]
      BY <1>6, <2>1, <2>2
    <3> QED BY <1>4, <3>1 DEF DistinctVars
  <2>3. CASE ~HasLitPos(VarOf(u[m]))
    <3> DEFINE p == m - Len(uipClause)
               q == n - Len(uipClause)
    <3>1. p \in 1..Len(w) /\ u[m] = w[p] /\ q \in 1..Len(w) /\ u[n] = w[q]
      BY <1>5, <2>1, <2>3
    <3>2. p = q
      BY <1>1, <1>4, <3>1 DEF DistinctVars
    <3> QED BY <1>3, <1>4, <3>2
  <2> QED BY <2>2, <2>3
<1> DEFINE k == CHOOSE j \in DOMAIN u : VarOf(u[j]) = v
<1>8. k \in 1..Len(u) /\ VarOf(u[k]) = v
  <2>1. \E n \in 1..Len(uipClause) : VarOf(uipClause[n]) = v
    BY <1>4 DEF HasLitPos, VarsOf
  <2>2. \A n \in 1..Len(uipClause) : n \in 1..Len(u) /\ u[n] = uipClause[n]
    BY <1>3, <1>4
  <2>3. \E n \in DOMAIN u : VarOf(u[n]) = v
    BY <1>4, <2>1, <2>2
  <2> QED BY <1>4, <2>3
<1>9. Resolvent(v, d) = Front(Swap(u, k, Len(u)))
  BY <1>2 DEF Resolvent, w
<1> HIDE DEF k
<1>10. PICK r : r = Front(Swap(u, k, Len(u)))
  OBVIOUS
<1>11. r \in Seq(Lit) /\ DistinctVars(r) /\ Range(r) = {u[n] : n \in (1..Len(u)) \ {k}}
  BY <1>3, <1>7, <1>8, <1>10, DropFacts
<1>12. \A n \in 1..Len(u) : VarOf(u[n]) # v <=> n # k
  BY <1>4, <1>7, <1>8 DEF DistinctVars
<1>13. Range(u) = {u[n] : n \in 1..Len(u)}
  BY <1>4 DEF Range
<1>14. Range(r) = {l \in Range(u) : VarOf(l) # v}
  BY <1>11, <1>12, <1>13
<1> QED BY <1>3, <1>9, <1>10, <1>11, <1>14 DEF w

\* Counting the places of a clause counts its literals when no variable repeats.
LEMMA CountLits ==
  ASSUME NEW d \in Seq(Lit), DistinctVars(d), NEW L
  PROVE  /\ IsFiniteSet(Range(d) \cap L) /\ Cardinality(Range(d) \cap L) \in Nat
         /\ Cardinality({n \in DOMAIN d : d[n] \in L}) = Cardinality(Range(d) \cap L)
<1> DEFINE S == {n \in 1..Len(d) : d[n] \in L}
           f == [n \in S |-> d[n]]
<1>0. Len(d) \in Nat /\ DOMAIN d = 1..Len(d)
  OBVIOUS
<1>1. IsFiniteSet(S)
  <2>1. S \in SUBSET (1..Len(d)) /\ IsFiniteSet(1..Len(d))
    BY <1>0, FS_Interval
  <2> HIDE DEF S
  <2> QED BY <2>1, FS_Subset
<1>2. f \in Bijection(S, Range(d) \cap L)
  <2>1. \A n \in S : d[n] \in Range(d) \cap L
    BY <1>0 DEF Range
  <2>2. \A x \in Range(d) \cap L : \E n \in S : d[n] = x
    BY <1>0 DEF Range
  <2>3. \A m, n \in S : d[m] = d[n] => m = n
    BY <1>0 DEF DistinctVars
  <2> DEFINE T == Range(d) \cap L
  <2>4. f \in [S -> T] /\ \A n \in S : f[n] = d[n]
    BY <2>1
  <2> HIDE DEF f, S, T
  <2>5. f \in Injection(S, T)
    BY <2>3, <2>4 DEF Injection, IsInjective
  <2>6. f \in Surjection(S, T)
    BY <2>2, <2>4 DEF Surjection, T
  <2> QED BY <2>5, <2>6 DEF Bijection, T
<1>3. ExistsBijection(S, Range(d) \cap L)
  BY <1>2 DEF ExistsBijection
<1>4. IsFiniteSet(Range(d) \cap L) /\ Cardinality(Range(d) \cap L) = Cardinality(S)
  <2> HIDE DEF S
  <2> QED BY <1>1, <1>3, FS_Bijection
<1>5. Cardinality(Range(d) \cap L) \in Nat
  BY <1>4, FS_CardinalityType
<1> QED BY <1>0, <1>4, <1>5

\* The literals at the current level.
Current == {l \in Lit : LevelOf(VarOf(l)) = decisionLevel}
\* AtCurrentLevel counts the literals of the current level.
LEMMA AtCurrentLits ==
  ASSUME NEW d \in Seq(Lit), DistinctVars(d)
  PROVE  /\ IsFiniteSet(Range(d) \cap Current)
         /\ AtCurrentLevel(d) = Cardinality(Range(d) \cap Current) /\ AtCurrentLevel(d) \in Nat
<1>1. {k \in DOMAIN d : LevelOf(VarOf(d[k])) = decisionLevel} = {n \in DOMAIN d : d[n] \in Current}
  <2>1. \A n \in DOMAIN d : d[n] \in Lit
    OBVIOUS
  <2> QED BY <2>1 DEF Current
<1> QED BY <1>1, CountLits DEF AtCurrentLevel

\* Without the assumption that variables differ it is still a number.
LEMMA AtCurrentNat ==
  ASSUME NEW d \in Seq(Lit)
  PROVE  AtCurrentLevel(d) \in Nat
<1>1. {k \in DOMAIN d : LevelOf(VarOf(d[k])) = decisionLevel} \in SUBSET (1..Len(d)) /\ Len(d) \in Nat
  OBVIOUS
<1>2. IsFiniteSet(1..Len(d))
  BY <1>1, FS_Interval
<1> QED BY <1>1, <1>2, FS_Subset, FS_CardinalityType DEF AtCurrentLevel

\* One entry of the trail per variable.
OncePerVariable(t) ==
  \A k \in DOMAIN t : \A j \in 1..(k - 1) : VarOf(t[j].lit) # VarOf(t[k].lit)
\* With one entry per variable no literal is both true and false.
LEMMA OnceFacts ==
  ASSUME NEW t \in Trails, OncePerVariable(t)
  PROVE  /\ \A j, k \in 1..Len(t) : VarOf(t[j].lit) = VarOf(t[k].lit) => j = k
         /\ \A l \in Lit : ~(IsTrue(t, l) /\ IsFalse(t, l))
<1>1. Len(t) \in Nat /\ DOMAIN t = 1..Len(t) /\ \A k \in 1..Len(t) : t[k].lit \in Lit
  BY TrailTypes
<1>2. ASSUME NEW j \in 1..Len(t), NEW k \in 1..Len(t), VarOf(t[j].lit) = VarOf(t[k].lit) PROVE j = k
  <2>1. ~(j < k) /\ ~(k < j)
    <3>1. j < k => j \in 1..(k - 1)
      OBVIOUS
    <3>2. k < j => k \in 1..(j - 1)
      OBVIOUS
    <3> QED BY <1>1, <1>2, <3>1, <3>2 DEF OncePerVariable
  <2> QED BY <1>1, <2>1
<1>3. ASSUME NEW l \in Lit, IsTrue(t, l), IsFalse(t, l) PROVE FALSE
  <2>1. PICK j \in 1..Len(t), k \in 1..Len(t) : t[j].lit = l /\ t[k].lit = -l
    BY <1>1, <1>3 DEF IsTrue, IsFalse
  <2>2. j = k
    BY <1>2, <2>1, LitFacts
  <2> QED BY <2>1, <2>2, LitFacts
<1> QED BY <1>2, <1>3

\* The level of a variable is that of its entry, and -1 without one.
LEMMA LevelOfFacts ==
  ASSUME trail \in Trails, OncePerVariable(trail)
  PROVE  /\ \A k \in 1..Len(trail) : LevelOf(VarOf(trail[k].lit)) = trail[k].level
         /\ \A v : LevelOf(v) \in Nat \cup {-1}
         /\ \A v : LevelOf(v) = -1 <=> \A k \in 1..Len(trail) : VarOf(trail[k].lit) # v
         /\ \A v : LevelOf(v) # -1 => \E k \in 1..Len(trail) :
              VarOf(trail[k].lit) = v /\ trail[k].level = LevelOf(v)
<1>1. /\ DOMAIN trail = 1..Len(trail)
      /\ \A k \in 1..Len(trail) : trail[k].lit \in Lit /\ trail[k].level \in Nat
      /\ \A j, k \in 1..Len(trail) : VarOf(trail[j].lit) = VarOf(trail[k].lit) => j = k
  BY TrailTypes, OnceFacts
<1>2. \A v : (\E k \in 1..Len(trail) : VarOf(trail[k].lit) = v) =>
        \E k \in 1..Len(trail) : VarOf(trail[k].lit) = v /\ LevelOf(v) = trail[k].level
  <2> TAKE v
  <2> DEFINE c == CHOOSE k \in DOMAIN trail : VarOf(trail[k].lit) = v
  <2> SUFFICES ASSUME \E k \in 1..Len(trail) : VarOf(trail[k].lit) = v
               PROVE  \E k \in 1..Len(trail) : VarOf(trail[k].lit) = v /\ LevelOf(v) = trail[k].level
    OBVIOUS
  <2>1. c \in 1..Len(trail) /\ VarOf(trail[c].lit) = v
    BY <1>1
  <2>2. LevelOf(v) = trail[c].level
    BY <1>1 DEF LevelOf
  <2> QED BY <2>1, <2>2
<1>3. \A v : (\A k \in 1..Len(trail) : VarOf(trail[k].lit) # v) => LevelOf(v) = -1
  BY <1>1 DEF LevelOf
<1>4. \A k \in 1..Len(trail) : LevelOf(VarOf(trail[k].lit)) = trail[k].level
  BY <1>1, <1>2
<1>5. -1 \notin Nat
  OBVIOUS
<1> QED BY <1>1, <1>2, <1>3, <1>4, <1>5

\* A learned clause has the negated stop literal first and one of the highest level second.
LEMMA LearnedClauseFacts ==
  ASSUME uipClause \in Seq(Lit), DistinctVars(uipClause), NEW p \in Lit, -p \in Range(uipClause),
         NEW B \in Nat, \A v : LevelOf(v) \in -1..B
  PROVE  LET c == LearnedClause(p) IN
         /\ c \in Seq(Lit) /\ Len(c) = Len(uipClause) /\ Len(c) >= 1 /\ c[1] = -p
         /\ Range(c) = Range(uipClause) /\ DistinctVars(c)
         /\ \A n \in 3..Len(c) : LevelOf(VarOf(c[n])) <= LevelOf(VarOf(c[2]))
<1> DEFINE u == uipClause
           k == CHOOSE j \in DOMAIN u : VarOf(u[j]) = VarOf(p)
           R == 2..Len(u)
<1>0. Len(u) \in Nat /\ DOMAIN u = 1..Len(u) /\ -p \in Lit /\ VarOf(-p) = VarOf(p)
  BY LitFacts
<1>1. PICK m \in 1..Len(u) : u[m] = -p
  BY <1>0 DEF Range
<1>2. k \in 1..Len(u) /\ u[k] = -p /\ 1 \in 1..Len(u)
  <2>1. k \in 1..Len(u) /\ VarOf(u[k]) = VarOf(p)
    BY <1>0, <1>1
  <2>2. k = m
    BY <1>0, <1>1, <2>1 DEF DistinctVars
  <2>3. 1 \in 1..Len(u)
    BY <1>0, <1>1
  <2> HIDE DEF k
  <2> QED BY <1>1, <2>1, <2>2, <2>3
<1> DEFINE first == [Swap(u, 1, k) EXCEPT ![1] = -p]
<1>3. /\ first \in Seq(Lit) /\ Len(first) = Len(u) /\ first[1] = -p
      /\ Range(first) = Range(u) /\ DistinctVars(first)
  <2> HIDE DEF k
  <2>1. PICK s \in Seq(Lit) : s = Swap(u, 1, k)
    BY <1>2, SwapFacts
  <2>2. Len(s) = Len(u) /\ s[1] = -p
    <3>1. u \in Seq(Lit) /\ Len(s) = Len(u)
      BY <1>2, <2>1 DEF Swap
    <3>2. s[1] = u[k]
      BY <1>2, <2>1, <3>1 DEF Swap
    <3> QED BY <1>2, <3>1, <3>2
  <2>3. Range(s) = Range(u) /\ DistinctVars(s)
    BY <1>2, <2>1, SwapPermutes DEF Permuted
  <2>4. first = s
    BY <1>2, <2>1, <2>2
  <2> QED BY <2>2, <2>3, <2>4
<1> HIDE DEF first
<1> DEFINE lev(n) == LevelOf(VarOf(first[n]))
           best(j) == \A n \in R : lev(j) > lev(n) \/ (lev(j) = lev(n) /\ j <= n)
           highest == CHOOSE j \in R : best(j)
<1>4. LearnedClause(p) = IF R = {} THEN first ELSE Swap(first, 2, highest)
  BY DEF LearnedClause, first
<1>5. CASE R = {}
  <2>1. \A n \in 3..Len(u) : n \in R
    BY <1>0
  <2> QED BY <1>0, <1>2, <1>3, <1>4, <1>5, <2>1
<1>6. CASE R # {}
  <2>0. R \in SUBSET Nat /\ \A n \in R : n \in 1..Len(u) /\ lev(n) \in -1..B
    BY <1>0
  <2>1. PICK top \in {lev(n) + 1 : n \in R} : \A x \in {lev(n) + 1 : n \in R} : x <= top
    <3>1. {lev(n) + 1 : n \in R} \in SUBSET (0..(B + 1)) /\ {lev(n) + 1 : n \in R} # {}
      BY <1>6, <2>0
    <3>2. B + 1 \in Nat
      OBVIOUS
    <3> HIDE DEF R, lev
    <3> QED BY <3>1, <3>2, GreatestElement
  <2>2. PICK j \in {n \in R : lev(n) + 1 = top} : \A n \in {m1 \in R : lev(m1) + 1 = top} : j <= n
    <3>1. {n \in R : lev(n) + 1 = top} \in SUBSET Nat /\ {n \in R : lev(n) + 1 = top} # {}
      BY <2>0, <2>1
    <3> HIDE DEF R, lev
    <3> QED BY <3>1, LeastElement
  <2>3. j \in R /\ best(j)
    <3> SUFFICES ASSUME NEW n \in R PROVE lev(j) > lev(n) \/ (lev(j) = lev(n) /\ j <= n)
      BY <2>2
    <3>1. lev(n) + 1 <= top /\ lev(j) + 1 = top /\ lev(n) \in Int /\ lev(j) \in Int
      BY <2>0, <2>1, <2>2
    <3>2. lev(n) + 1 = top => j <= n
      BY <2>2
    <3> HIDE DEF lev
    <3> QED BY <3>1, <3>2
  <2>4. highest \in R /\ best(highest)
    <3> HIDE DEF best
    <3> QED BY <2>3
  <2>5. \A n \in R : lev(n) <= lev(highest)
    <3> SUFFICES ASSUME NEW n \in R PROVE lev(n) <= lev(highest)
      OBVIOUS
    <3>1. lev(n) \in Int /\ lev(highest) \in Int
      BY <2>0, <2>4
    <3>2. lev(highest) > lev(n) \/ lev(highest) = lev(n)
      BY <2>4
    <3> HIDE DEF lev, highest
    <3> QED BY <3>1, <3>2
  <2> HIDE DEF highest
  <2>6. highest \in 1..Len(first) /\ 2 \in 1..Len(first) /\ highest # 1
    BY <1>0, <1>3, <1>6, <2>4
  <2>7. PICK c \in Seq(Lit) : c = Swap(first, 2, highest)
    BY <1>3, <2>6, SwapFacts
  <2>8. Len(c) = Len(first) /\ \A n \in 1..Len(first) :
          c[n] = IF n = highest THEN first[2] ELSE IF n = 2 THEN first[highest] ELSE first[n]
    BY <1>3, <2>6, <2>7, SMTT(20) DEF Swap
  <2>9. Range(c) = Range(u) /\ DistinctVars(c)
    BY <1>3, <2>6, <2>7, SwapPermutes DEF Permuted
  <2>10. c[1] = -p
    BY <1>3, <2>6, <2>8, SMTT(20)
  <2>11. ASSUME NEW n \in 3..Len(c) PROVE LevelOf(VarOf(c[n])) <= LevelOf(VarOf(c[2]))
    <3>1. n \in 1..Len(first) /\ n # 2 /\ n \in R /\ 2 \in R
      BY <1>0, <1>3, <2>8
    <3>2. c[2] = first[highest]
      BY <2>6, <2>8
    <3>3. c[n] = first[2] \/ c[n] = first[n]
      BY <2>8, <3>1
    <3> QED BY <2>5, <3>1, <3>2, <3>3
  <2>12. LearnedClause(p) = c
    BY <1>4, <1>6, <2>7
  <2>13. Len(c) = Len(u) /\ Len(c) >= 1
    BY <1>0, <1>2, <1>3, <2>8
  <2> QED BY <2>7, <2>9, <2>10, <2>11, <2>12, <2>13
<1> QED BY <1>5, <1>6

\* A normal form keeps the literals, and repeats no variable unless it is a tautology.
LEMMA NormalFormFacts ==
  ASSUME NEW c \in Seq(Lit), NEW d \in NormalForms(c)
  PROVE  /\ d \in Seq(Lit) /\ Range(d) = Range(c) /\ VarsOf(d) = VarsOf(c)
         /\ ~Tautology(d) => DistinctVars(d)
<1>0. Len(c) \in Nat /\ DOMAIN c = 1..Len(c) /\ Range(c) \subseteq Lit
  BY DEF Range
<1>1. Cardinality(Range(c)) \in Nat
  <2>1. c \in Surjection(1..Len(c), Range(c))
    <3>1. c \in [1..Len(c) -> Range(c)]
      BY DEF Range
    <3> QED BY <1>0, <3>1 DEF Range, Surjection
  <2> QED BY <1>0, <2>1, FS_Interval, FS_Surjection, FS_CardinalityType
<1>2. d \in [1..Cardinality(Range(c)) -> Range(c)] /\ IsNormalForm(d, c)
  BY DEF NormalForms
<1>3. d \in Seq(Lit) /\ DOMAIN d = 1..Cardinality(Range(c))
  BY <1>0, <1>1, <1>2
<1>4. Range(d) = Range(c) /\ \A j, k \in DOMAIN d : j < k => LitLess(d[j], d[k])
  BY <1>2 DEF IsNormalForm
<1>5. VarsOf(d) = {VarOf(l) : l \in Range(d)} /\ VarsOf(c) = {VarOf(l) : l \in Range(c)}
  BY DEF VarsOf, Range
<1>6. ASSUME ~Tautology(d), NEW j \in DOMAIN d, NEW k \in DOMAIN d, VarOf(d[j]) = VarOf(d[k]) PROVE j = k
  <2>1. d[j] = d[k]
    <3>1. d[j] \in Lit /\ d[k] \in Lit
      BY <1>0, <1>2, <1>3
    <3>2. d[j] # -d[k]
      BY <1>6 DEF Tautology
    <3> QED BY <1>6, <3>1, <3>2, LitFacts
  <2>2. d[j] \in Int /\ VarOf(d[j]) \in Int
    <3>1. d[j] \in Lit
      BY <1>0, <1>2, <1>3
    <3> QED BY <3>1, LitFacts DEF VarOf
  <2>3. ~LitLess(d[j], d[k]) /\ ~LitLess(d[k], d[j])
    BY <2>1, <2>2 DEF LitLess
  <2>4. ~(j < k) /\ ~(k < j)
    BY <1>4, <2>3
  <2>5. j \in Int /\ k \in Int
    BY <1>1, <1>3
  <2> QED BY <2>4, <2>5
<1>7. ~Tautology(d) => DistinctVars(d)
  BY <1>6 DEF DistinctVars
<1> QED BY <1>3, <1>4, <1>5, <1>7

\* Resizing allocates every variable that is named.
LEMMA ResizeFacts ==
  ASSUME numVars \in 0..MaxVar, NEW vs \in SUBSET Var
  PROVE  LET g == Greatest(vs \cup {numVars}) IN
         g \in 0..MaxVar /\ numVars <= g /\ vs \subseteq 1..g
<1>1. MaxVar \in Nat /\ vs \cup {numVars} \in SUBSET (0..MaxVar) /\ vs \cup {numVars} # {}
  BY LitFacts DEF Var
<1>2. PICK g : g = Greatest(vs \cup {numVars})
  OBVIOUS
<1>3. g \in vs \cup {numVars} /\ \A n \in vs \cup {numVars} : n <= g
  BY <1>1, <1>2, GreatestFacts
<1>4. \A v \in vs : v \in 1..g
  BY <1>1, <1>3 DEF Var
<1> QED BY <1>1, <1>2, <1>3, <1>4

\* Variables of clauses.
LEMMA VarsOfFacts ==
  ASSUME NEW d \in Seq(Lit)
  PROVE  VarsOf(d) = {VarOf(l) : l \in Range(d)} /\ VarsOf(d) \subseteq Var
<1>1. \A n \in DOMAIN d : d[n] \in Lit /\ VarOf(d[n]) \in Var
  BY LitFacts
<1> QED BY <1>1 DEF VarsOf, Range

-----------------------------------------------------------------------------
(* The lists of watched clauses.                                            *)

Watchers == [cls : Nat, lit : Lit]
Classes(s) == {s[n].cls : n \in DOMAIN s}
Unique(s) == \A m, n \in DOMAIN s : s[m].cls = s[n].cls => m = n
LitsIn(s, D) == \A n \in DOMAIN s : s[n].lit \in Range(D[s[n].cls])
Watches(w, D) ==
  \A l \in Lit :
    /\ Unique(w[l]) /\ LitsIn(w[l], D)
    /\ \A id \in Classes(w[l]) :
         /\ Len(D[id]) >= 2 /\ -l \in {D[id][1], D[id][2]}
         /\ id \in Classes(w[-D[id][1]]) /\ id \in Classes(w[-D[id][2]])

\* The watchers of a literal.
LEMMA WatchTypes ==
  ASSUME TypeOK, NEW l \in Lit
  PROVE  /\ wlist[l] \in Seq(Watchers) /\ DOMAIN wlist[l] = 1..Len(wlist[l]) /\ Len(wlist[l]) \in Nat
         /\ \A n \in DOMAIN wlist[l] : wlist[l][n].cls \in DOMAIN data /\ wlist[l][n].lit \in Lit
         /\ Classes(wlist[l]) \subseteq DOMAIN data
<1>1. wlist[l] \in Seq([cls : DOMAIN data, lit : Lit])
  BY DEF TypeOK
<1>2. [cls : DOMAIN data, lit : Lit] \subseteq Watchers
  BY DataTypes DEF Watchers
<1>3. wlist[l] \in Seq(Watchers)
  BY <1>1, <1>2, SeqMonotonic
<1>5. DOMAIN wlist[l] = 1..Len(wlist[l]) /\ Len(wlist[l]) \in Nat
  BY <1>1
<1>4. \A n \in DOMAIN wlist[l] : wlist[l][n] \in [cls : DOMAIN data, lit : Lit]
  BY <1>1, <1>5, ElementOfSeq
<1> QED BY <1>3, <1>4, <1>5 DEF Classes

\* Watched is what Watches says of the lists and clauses of a state.
LEMMA WatchedWatches ==
  ASSUME TypeOK
  PROVE  Watched <=> Watches(wlist, data)
<1>1. ASSUME Watched PROVE Watches(wlist, data)
  <2> SUFFICES ASSUME NEW l \in Lit
               PROVE /\ Unique(wlist[l]) /\ LitsIn(wlist[l], data)
                     /\ \A id \in Classes(wlist[l]) :
                          /\ Len(data[id]) >= 2 /\ -l \in {data[id][1], data[id][2]}
                          /\ id \in Classes(wlist[-data[id][1]]) /\ id \in Classes(wlist[-data[id][2]])
    BY DEF Watches
  <2>1. Unique(wlist[l]) /\ LitsIn(wlist[l], data)
    BY <1>1 DEF Unique, LitsIn, Watched, WatchesMatch
  <2>2. ASSUME NEW n \in DOMAIN wlist[l], NEW id, id = wlist[l][n].cls
        PROVE  /\ Len(data[id]) >= 2 /\ -l \in {data[id][1], data[id][2]}
               /\ id \in Classes(wlist[-data[id][1]]) /\ id \in Classes(wlist[-data[id][2]])
    <3>1. Len(data[id]) >= 2
      BY <1>1, <2>2, WatchTypes DEF Watched, IsWatched
    <3>2. /\ -l \in {data[id][1], data[id][2]}
          /\ \E m \in DOMAIN wlist[-data[id][1]] : wlist[-data[id][1]][m].cls = id
          /\ \E m \in DOMAIN wlist[-data[id][2]] : wlist[-data[id][2]][m].cls = id
      <4>1. WatchesMatch
        BY <1>1 DEF Watched
      <4>2. /\ -l \in {data[wlist[l][n].cls][1], data[wlist[l][n].cls][2]}
            /\ \E m \in DOMAIN wlist[-data[wlist[l][n].cls][1]] : wlist[-data[wlist[l][n].cls][1]][m].cls = wlist[l][n].cls
            /\ \E m \in DOMAIN wlist[-data[wlist[l][n].cls][2]] : wlist[-data[wlist[l][n].cls][2]][m].cls = wlist[l][n].cls
        BY <4>1, Zenon DEF WatchesMatch
      <4> QED BY <2>2, <4>2, Zenon
    <3> QED BY <3>1, <3>2 DEF Classes
  <2>3. \A id \in Classes(wlist[l]) : \E n \in DOMAIN wlist[l] : id = wlist[l][n].cls
    BY DEF Classes
  <2> QED BY <2>1, <2>2, <2>3
<1>2. ASSUME Watches(wlist, data) PROVE Watched
  <2>1. WatchesMatch
    <3> DEFINE W(l, n, id) ==
          /\ -l \in {data[id][1], data[id][2]} /\ wlist[l][n].lit \in Range(data[id])
          /\ \A m \in DOMAIN wlist[l] : m # n => wlist[l][m].cls # id
          /\ \E m \in DOMAIN wlist[-data[id][1]] : wlist[-data[id][1]][m].cls = id
          /\ \E m \in DOMAIN wlist[-data[id][2]] : wlist[-data[id][2]][m].cls = id
    <3>0. ASSUME NEW l \in Lit, NEW n \in DOMAIN wlist[l], NEW id, id = wlist[l][n].cls
          PROVE  W(l, n, id)
      <4>0. id \in Classes(wlist[l])
        BY <3>0 DEF Classes
      <4>1. /\ -l \in {data[id][1], data[id][2]}
            /\ id \in Classes(wlist[-data[id][1]]) /\ id \in Classes(wlist[-data[id][2]])
        BY <1>2, <4>0 DEF Watches
      <4>2. /\ wlist[l][n].lit \in Range(data[id])
            /\ \A m \in DOMAIN wlist[l] : m # n => wlist[l][m].cls # id
        BY <1>2, <3>0 DEF Watches, LitsIn, Unique
      <4> QED BY <4>1, <4>2 DEF Classes
    <3>1. \A l \in Lit : \A n \in DOMAIN wlist[l] : W(l, n, wlist[l][n].cls)
      <4> HIDE DEF W
      <4> QED BY <3>0, Zenon
    <3> QED BY <3>1, Zenon DEF WatchesMatch
  <2>2. \A l \in Lit, id \in DOMAIN data : IsWatched(l, id) => Len(data[id]) >= 2
    BY <1>2 DEF Watches, IsWatched, Classes
  <2> QED BY <2>1, <2>2 DEF Watched
<1> QED BY <1>1, <1>2

\* A watcher appended to a list adds its clause.
LEMMA AppendClasses ==
  ASSUME NEW s \in Seq(Watchers), NEW e \in Watchers, NEW u, u = Append(s, e)
  PROVE  /\ u \in Seq(Watchers) /\ Classes(u) = Classes(s) \cup {e.cls}
         /\ Unique(s) /\ e.cls \notin Classes(s) => Unique(u)
         /\ \A D : LitsIn(s, D) /\ e.lit \in Range(D[e.cls]) => LitsIn(u, D)
<1>2. /\ u \in Seq(Watchers) /\ Len(s) \in Nat /\ DOMAIN s = 1..Len(s) /\ DOMAIN u = 1..(Len(s) + 1)
      /\ u[Len(s) + 1] = e /\ \A n \in 1..Len(s) : u[n] = s[n]
  OBVIOUS
<1>3. \A n \in DOMAIN u : (n \in DOMAIN s /\ u[n] = s[n]) \/ (n = Len(s) + 1 /\ u[n] = e)
  BY <1>2
<1>4. \A n \in DOMAIN s : n \in DOMAIN u /\ u[n] = s[n]
  BY <1>2
<1>5. Len(s) + 1 \in DOMAIN u
  BY <1>2
<1>6. Classes(u) = Classes(s) \cup {e.cls}
  BY <1>2, <1>3, <1>4, <1>5 DEF Classes
<1>7. Unique(s) /\ e.cls \notin Classes(s) => Unique(u)
  BY <1>2, <1>3 DEF Classes, Unique
<1>8. \A D : LitsIn(s, D) /\ e.lit \in Range(D[e.cls]) => LitsIn(u, D)
  BY <1>3 DEF LitsIn
<1> QED BY <1>2, <1>6, <1>7, <1>8

\* A watcher removed from a list takes its clause with it.
LEMMA RemoveClasses ==
  ASSUME NEW s \in Seq(Watchers), NEW m \in 1..Len(s), Unique(s), NEW u, u = RemoveAt(s, m)
  PROVE  /\ u \in Seq(Watchers) /\ Classes(u) = Classes(s) \ {s[m].cls} /\ Unique(u)
         /\ \A n \in DOMAIN u : \E j \in DOMAIN s : u[n] = s[j] /\ s[j].cls # s[m].cls
<1>2. /\ u \in Seq(Watchers) /\ Len(s) \in Nat /\ DOMAIN s = 1..Len(s) /\ DOMAIN u = 1..(Len(s) - 1)
      /\ \A n \in 1..(Len(s) - 1) : u[n] = IF n < m THEN s[n] ELSE s[n + 1]
  <2>1. /\ u \in Seq(Watchers) /\ Len(u) = Len(s) - 1
        /\ \A n \in 1..(Len(s) - 1) : u[n] = IF n < m THEN s[n] ELSE s[n + 1]
    BY RemoveAtFacts
  <2>2. Len(s) \in Nat /\ DOMAIN s = 1..Len(s) /\ DOMAIN u = 1..Len(u)
    BY <2>1
  <2> QED BY <2>1, <2>2
<1> DEFINE from(n) == IF n < m THEN n ELSE n + 1
<1>3. \A n \in DOMAIN u : from(n) \in DOMAIN s /\ from(n) # m /\ u[n] = s[from(n)]
  BY <1>2
<1>4. \A j \in DOMAIN s : j # m => \E n \in DOMAIN u : j = from(n)
  <2> SUFFICES ASSUME NEW j \in DOMAIN s, j # m PROVE \E n \in DOMAIN u : j = from(n)
    OBVIOUS
  <2>1. CASE j < m
    <3>1. j \in DOMAIN u /\ j = from(j)
      BY <1>2, <2>1
    <3> QED BY <3>1
  <2>2. CASE ~(j < m)
    <3>1. (j - 1) \in DOMAIN u /\ j = from(j - 1)
      BY <1>2, <2>2
    <3> QED BY <3>1
  <2> QED BY <2>1, <2>2
<1>5. \A p, n \in DOMAIN u : from(p) = from(n) => p = n
  BY <1>2
<1> HIDE DEF from
<1>6. \A n \in DOMAIN u : s[from(n)].cls # s[m].cls
  BY <1>2, <1>3 DEF Unique
<1>7. Classes(u) = Classes(s) \ {s[m].cls}
  <2>1. \A n \in DOMAIN u : u[n].cls \in Classes(s) \ {s[m].cls}
    BY <1>3, <1>6 DEF Classes
  <2>2. \A j \in DOMAIN s : s[j].cls # s[m].cls => s[j].cls \in Classes(u)
    BY <1>3, <1>4 DEF Classes
  <2> QED BY <2>1, <2>2 DEF Classes
<1>8. Unique(u)
  BY <1>3, <1>5 DEF Unique
<1>9. \A n \in DOMAIN u : \E j \in DOMAIN s : u[n] = s[j] /\ s[j].cls # s[m].cls
  BY <1>3, <1>6
<1> QED BY <1>2, <1>7, <1>8, <1>9

\* Changing only blockers leaves the clauses of a list.
LEMMA RelabelClasses ==
  ASSUME NEW s, NEW u, DOMAIN u = DOMAIN s, \A n \in DOMAIN s : u[n].cls = s[n].cls
  PROVE  Classes(u) = Classes(s) /\ (Unique(s) => Unique(u))
BY DEF Classes, Unique

\* Watching a new clause keeps every clause watched at its first two literals.
LEMMA WatchNew ==
  ASSUME NEW w \in [Lit -> Seq(Watchers)], NEW D, NEW E, Watches(w, D),
         \A l \in Lit : \A x \in Classes(w[l]) : E[x] = D[x] /\ D[x] \in Seq(Lit),
         NEW id \in Nat, NEW d \in Seq(Lit), E[id] = d, Len(d) >= 2, DistinctVars(d),
         \A l \in Lit : id \notin Classes(w[l])
  PROVE  /\ Watch(w, d, id) \in [Lit -> Seq(Watchers)] /\ Watches(Watch(w, d, id), E)
         /\ \A l \in Lit : Classes(Watch(w, d, id)[l]) \subseteq Classes(w[l]) \cup {id}
<1>1. PICK a \in Lit, b \in Lit : a = -d[1] /\ b = -d[2]
  <2>1. d[1] \in Lit /\ d[2] \in Lit
    OBVIOUS
  <2> QED BY <2>1, LitFacts
<1>2. a # b /\ -a = d[1] /\ -b = d[2] /\ d[1] \in Lit /\ d[2] \in Lit
  <2>1. d[1] \in Lit /\ d[2] \in Lit /\ 1 \in DOMAIN d /\ 2 \in DOMAIN d
    OBVIOUS
  <2>2. VarOf(d[1]) # VarOf(d[2])
    BY <2>1 DEF DistinctVars
  <2> QED BY <1>1, <2>1, <2>2, LitFacts, ZenonT(40)
<1>3. PICK e \in Watchers : e = Watcher(d, id) /\ e.cls = id /\ e.lit \in Range(d)
  <2>1. d[1] \in Lit \cap Range(d) /\ d[2] \in Lit \cap Range(d)
    BY DEF Range
  <2>2. Watcher(d, id) \in Watchers
    BY <2>1 DEF Watcher, Watchers
  <2>3. Watcher(d, id).cls = id /\ Watcher(d, id).lit \in Range(d)
    BY <2>1 DEF Watcher
  <2> QED BY <2>2, <2>3
<1>4. PICK u : u = Watch(w, d, id)
  OBVIOUS
<1>5. /\ DOMAIN u = Lit /\ u[a] = Append(w[a], e) /\ u[b] = Append(w[b], e)
      /\ \A l \in Lit : l # a /\ l # b => u[l] = w[l]
  BY <1>1, <1>2, <1>3, <1>4 DEF Watch
<1>6. \A l \in Lit : /\ u[l] \in Seq(Watchers)
        /\ Classes(u[l]) = Classes(w[l]) \cup (IF l \in {a, b} THEN {id} ELSE {})
  <2> SUFFICES ASSUME NEW l \in Lit
               PROVE  /\ u[l] \in Seq(Watchers)
                      /\ Classes(u[l]) = Classes(w[l]) \cup (IF l \in {a, b} THEN {id} ELSE {})
    OBVIOUS
  <2>1. w[l] \in Seq(Watchers)
    OBVIOUS
  <2>2. PICK s : s = Append(w[l], e)
    OBVIOUS
  <2>3. s \in Seq(Watchers) /\ Classes(s) = Classes(w[l]) \cup {id}
    BY <1>3, <2>1, <2>2, AppendClasses
  <2>4. u[l] = IF l \in {a, b} THEN s ELSE w[l]
    BY <1>5, <2>2
  <2> QED BY <2>1, <2>3, <2>4
<1>7. \A l \in Lit : Unique(u[l])
  <2>1. \A l \in Lit : Unique(w[l])
    BY DEF Watches
  <2>2. /\ w[a] \in Seq(Watchers) /\ e.cls \notin Classes(w[a]) /\ Unique(w[a])
        /\ w[b] \in Seq(Watchers) /\ e.cls \notin Classes(w[b]) /\ Unique(w[b])
    BY <1>3, <2>1
  <2>3. Unique(Append(w[a], e))
    BY <2>2, AppendClasses
  <2>4. Unique(Append(w[b], e))
    BY <2>2, AppendClasses
  <2> QED BY <1>5, <2>1, <2>3, <2>4
<1>8. \A l \in Lit : LitsIn(u[l], E)
  <2>1. ASSUME NEW l \in Lit PROVE LitsIn(w[l], E)
    <3>1. LitsIn(w[l], D) /\ \A n \in DOMAIN w[l] : w[l][n].cls \in Classes(w[l])
      BY DEF Watches, Classes
    <3> QED BY <3>1 DEF LitsIn
  <2>2. e.lit \in Range(E[e.cls])
    BY <1>3
  <2>3. LitsIn(Append(w[a], e), E) /\ LitsIn(Append(w[b], e), E)
    BY <2>1, <2>2, AppendClasses
  <2> QED BY <1>5, <2>1, <2>3
<1>9. ASSUME NEW l \in Lit, NEW x \in Classes(u[l])
      PROVE  /\ Len(E[x]) >= 2 /\ -l \in {E[x][1], E[x][2]}
             /\ x \in Classes(u[-E[x][1]]) /\ x \in Classes(u[-E[x][2]])
  <2>1. CASE x = id
    <3>1. l = a \/ l = b
      BY <1>6, <1>9, <2>1
    <3> QED BY <1>1, <1>2, <1>6, <2>1, <3>1
  <2>2. CASE x # id
    <3>1. x \in Classes(w[l]) /\ E[x] = D[x]
      BY <1>6, <1>9, <2>2
    <3>2. /\ Len(D[x]) >= 2 /\ -l \in {D[x][1], D[x][2]}
          /\ x \in Classes(w[-D[x][1]]) /\ x \in Classes(w[-D[x][2]])
      BY <3>1 DEF Watches
    <3>5. -D[x][1] \in Lit /\ -D[x][2] \in Lit
      <4>1. D[x] \in Seq(Lit) /\ 1 \in 1..Len(D[x]) /\ 2 \in 1..Len(D[x])
        BY <3>1, <3>2
      <4>2. D[x][1] \in Lit /\ D[x][2] \in Lit
        BY <4>1, ElementOfSeq
      <4> QED BY <4>2, LitFacts
    <3>3. -D[x][1] \in Lit => x \in Classes(u[-D[x][1]])
      BY <1>6, <3>2
    <3>4. -D[x][2] \in Lit => x \in Classes(u[-D[x][2]])
      BY <1>6, <3>2
    <3> QED BY <3>1, <3>2, <3>3, <3>4, <3>5
  <2> QED BY <2>1, <2>2
<1>10. Watches(u, E)
  BY <1>7, <1>8, <1>9 DEF Watches
<1>11. u \in [Lit -> Seq(Watchers)]
  BY <1>4, <1>5, <1>6 DEF Watch
<1> QED BY <1>1, <1>4, <1>6, <1>10, <1>11

\* Lists stay right when the clauses they name stay the same.
LEMMA WatchSame ==
  ASSUME NEW w, NEW D, NEW E, Watches(w, D), \A l \in Lit : \A x \in Classes(w[l]) : E[x] = D[x]
  PROVE  Watches(w, E)
<1> SUFFICES ASSUME NEW l \in Lit
             PROVE /\ Unique(w[l]) /\ LitsIn(w[l], E)
                   /\ \A id \in Classes(w[l]) :
                        /\ Len(E[id]) >= 2 /\ -l \in {E[id][1], E[id][2]}
                        /\ id \in Classes(w[-E[id][1]]) /\ id \in Classes(w[-E[id][2]])
  BY DEF Watches
<1>1. /\ Unique(w[l]) /\ LitsIn(w[l], D)
      /\ \A id \in Classes(w[l]) :
           /\ Len(D[id]) >= 2 /\ -l \in {D[id][1], D[id][2]}
           /\ id \in Classes(w[-D[id][1]]) /\ id \in Classes(w[-D[id][2]])
  BY DEF Watches
<1>2. LitsIn(w[l], E)
  <2>1. \A n \in DOMAIN w[l] : w[l][n].cls \in Classes(w[l])
    BY DEF Classes
  <2> QED BY <1>1, <2>1 DEF LitsIn
<1> QED BY <1>1, <1>2

\* A watcher that stays, with another label and the watched literals swapped.
KeepsWatch(w, D, E, p, m, id, x) ==
  /\ w \in [Lit -> Seq(Watchers)] /\ Watches(w, D)
  /\ \A l \in Lit : \A y \in Classes(w[l]) : D[y] \in Seq(Lit)
  /\ p \in Lit /\ m \in 1..Len(w[p]) /\ id = w[p][m].cls
  /\ \A y : y # id => E[y] = D[y]
  /\ Range(E[id]) = Range(D[id]) /\ Len(E[id]) = Len(D[id])
  /\ (E[id][1] = D[id][1] /\ E[id][2] = D[id][2]) \/ (E[id][1] = D[id][2] /\ E[id][2] = D[id][1])
  /\ x \in Lit /\ x \in Range(D[id])
\* A blocker may be replaced by another literal of its clause.
LEMMA WatchKept ==
  ASSUME NEW w, NEW D, NEW E, NEW p, NEW m, NEW id, NEW x, KeepsWatch(w, D, E, p, m, id, x)
  PROVE  LET u == [w EXCEPT ![p][m].lit = x] IN
         /\ u \in [Lit -> Seq(Watchers)] /\ Watches(u, E)
         /\ \A l \in Lit : Classes(u[l]) = Classes(w[l])
<1> SUFFICES ASSUME w \in [Lit -> Seq(Watchers)], Watches(w, D),
                    \A l \in Lit : \A y \in Classes(w[l]) : D[y] \in Seq(Lit),
                    p \in Lit, m \in 1..Len(w[p]), id = w[p][m].cls,
                    \A y : y # id => E[y] = D[y],
                    Range(E[id]) = Range(D[id]), Len(E[id]) = Len(D[id]),
                    (E[id][1] = D[id][1] /\ E[id][2] = D[id][2]) \/ (E[id][1] = D[id][2] /\ E[id][2] = D[id][1]),
                    x \in Lit, x \in Range(D[id])
             PROVE  LET u == [w EXCEPT ![p][m].lit = x] IN
                    /\ u \in [Lit -> Seq(Watchers)] /\ Watches(u, E)
                    /\ \A l \in Lit : Classes(u[l]) = Classes(w[l])
  BY DEF KeepsWatch
<1>1. PICK s : s = [w[p] EXCEPT ![m].lit = x]
  OBVIOUS
<1>2. PICK u : u = [w EXCEPT ![p][m].lit = x]
  OBVIOUS
<1>3. u[p] = s /\ DOMAIN u = Lit /\ \A l \in Lit : l # p => u[l] = w[l]
  BY <1>1, <1>2
<1>4. /\ s \in Seq(Watchers) /\ DOMAIN s = DOMAIN w[p] /\ Classes(s) = Classes(w[p])
      /\ Unique(w[p]) => Unique(s)
      /\ \A n \in DOMAIN w[p] : s[n].cls = w[p][n].cls /\ s[n].lit = IF n = m THEN x ELSE w[p][n].lit
  <2>1. w[p] \in Seq(Watchers) /\ m \in 1..Len(w[p]) /\ x \in Lit
    OBVIOUS
  <2>0. PICK v \in Seq(Watchers) : v = w[p]
    BY <2>1
  <2>5. m \in 1..Len(v) /\ x \in Lit /\ s = [v EXCEPT ![m].lit = x]
    BY <1>1, <2>0, <2>1
  <2>2. DOMAIN v = 1..Len(v) /\ \A n \in DOMAIN v : v[n] \in Watchers
    BY <2>0
  <2>6. \A n \in DOMAIN v : s[n] = IF n = m THEN [v[m] EXCEPT !.lit = x] ELSE v[n]
    BY <2>5, <2>2
  <2>7. \A e \in Watchers : [e EXCEPT !.lit = x] \in Watchers /\ [e EXCEPT !.lit = x].cls = e.cls
          /\ [e EXCEPT !.lit = x].lit = x
    BY DEF Watchers
  <2>3. DOMAIN s = DOMAIN v /\ s \in Seq(Watchers)
    BY <2>0, <2>2, <2>5, <2>6, <2>7
  <2>4. \A n \in DOMAIN v : s[n].cls = v[n].cls /\ s[n].lit = IF n = m THEN x ELSE v[n].lit
    BY <2>2, <2>5, <2>6, <2>7
  <2>8. Classes(s) = Classes(v) /\ (Unique(v) => Unique(s))
    BY <2>3, <2>4, RelabelClasses
  <2> QED BY <2>0, <2>3, <2>4, <2>8
<1>5. u \in [Lit -> Seq(Watchers)]
  BY <1>2, <1>3, <1>4
<1>6. \A l \in Lit : Classes(u[l]) = Classes(w[l])
  BY <1>3, <1>4
<1>7. \A l \in Lit : Unique(u[l])
  BY <1>3, <1>4 DEF Watches
<1>8. ASSUME NEW l \in Lit PROVE LitsIn(u[l], E)
  <2>1. LitsIn(w[l], D)
    BY DEF Watches
  <2>2. \A y : Range(E[y]) = Range(D[y])
    OBVIOUS
  <2>3. LitsIn(w[l], E)
    BY <2>1, <2>2 DEF LitsIn
  <2>4. l = p => LitsIn(s, E)
    <3> SUFFICES ASSUME l = p, NEW n \in DOMAIN s PROVE s[n].lit \in Range(E[s[n].cls])
      BY DEF LitsIn
    <3>1. CASE n = m
      BY <1>4, <2>2, <3>1
    <3>2. CASE n # m
      BY <1>4, <2>3, <3>2 DEF LitsIn
    <3> QED BY <3>1, <3>2
  <2> QED BY <1>3, <2>3, <2>4
<1>9. ASSUME NEW l \in Lit, NEW y \in Classes(u[l])
      PROVE  /\ Len(E[y]) >= 2 /\ -l \in {E[y][1], E[y][2]}
             /\ y \in Classes(u[-E[y][1]]) /\ y \in Classes(u[-E[y][2]])
  <2>1. /\ Len(D[y]) >= 2 /\ -l \in {D[y][1], D[y][2]}
        /\ y \in Classes(w[-D[y][1]]) /\ y \in Classes(w[-D[y][2]])
    BY <1>6, <1>9 DEF Watches
  <2>2. /\ Len(E[y]) >= 2 /\ -l \in {E[y][1], E[y][2]}
        /\ y \in Classes(w[-E[y][1]]) /\ y \in Classes(w[-E[y][2]])
    BY <2>1
  <2>3. -E[y][1] \in Lit => y \in Classes(u[-E[y][1]])
    BY <1>6, <2>2
  <2>4. -E[y][2] \in Lit => y \in Classes(u[-E[y][2]])
    BY <1>6, <2>2
  <2>5. -E[y][1] \in Lit /\ -E[y][2] \in Lit
    <3>1. D[y] \in Seq(Lit)
      BY <1>6, <1>9
    <3>2. D[y][1] \in Lit /\ D[y][2] \in Lit
      BY <2>1, <3>1
    <3>3. E[y][1] \in Lit /\ E[y][2] \in Lit
      BY <3>2
    <3> QED BY <3>3, LitFacts
  <2> QED BY <2>2, <2>3, <2>4, <2>5
<1>10. Watches(u, E)
  BY <1>7, <1>8, <1>9 DEF Watches
<1> QED BY <1>2, <1>5, <1>6, <1>10

\* A watcher that moves to the list of another literal.
MovesWatch(w, D, E, p, m, id) ==
  /\ w \in [Lit -> Seq(Watchers)] /\ Watches(w, D)
  /\ \A l \in Lit : \A y \in Classes(w[l]) : D[y] \in Seq(Lit)
  /\ p \in Lit /\ m \in 1..Len(w[p]) /\ id \in Nat /\ id = w[p][m].cls
  /\ \A y : y # id => E[y] = D[y]
  /\ E[id] \in Seq(Lit) /\ Range(E[id]) = Range(D[id]) /\ Len(E[id]) = Len(D[id])
  /\ E[id][1] \in {D[id][1], D[id][2]} /\ E[id][2] \notin {D[id][1], D[id][2]}
  /\ E[id][1] # -p
\* Moving a watch from one literal of a clause to another keeps the lists right.
LEMMA WatchMoved ==
  ASSUME NEW w, NEW D, NEW E, NEW p, NEW m, NEW id, MovesWatch(w, D, E, p, m, id)
  PROVE  LET u == [w EXCEPT ![p] = RemoveAt(@, m),
                            ![-E[id][2]] = Append(@, Watcher(E[id], id))] IN
         /\ u \in [Lit -> Seq(Watchers)] /\ Watches(u, E)
         /\ \A l \in Lit : Classes(u[l]) \subseteq Classes(w[l]) \cup {id}
<1> SUFFICES ASSUME w \in [Lit -> Seq(Watchers)], Watches(w, D),
                    \A l \in Lit : \A y \in Classes(w[l]) : D[y] \in Seq(Lit),
                    p \in Lit, m \in 1..Len(w[p]), id \in Nat, id = w[p][m].cls,
                    \A y : y # id => E[y] = D[y],
                    E[id] \in Seq(Lit), Range(E[id]) = Range(D[id]), Len(E[id]) = Len(D[id]),
                    E[id][1] \in {D[id][1], D[id][2]}, E[id][2] \notin {D[id][1], D[id][2]},
                    E[id][1] # -p
             PROVE  LET u == [w EXCEPT ![p] = RemoveAt(@, m),
                                       ![-E[id][2]] = Append(@, Watcher(E[id], id))] IN
                    /\ u \in [Lit -> Seq(Watchers)] /\ Watches(u, E)
                    /\ \A l \in Lit : Classes(u[l]) \subseteq Classes(w[l]) \cup {id}
  BY ZenonT(40) DEF MovesWatch
<1> DEFINE d == D[id]
           e == E[id]
           q == -e[2]
<1>0. id \in Classes(w[p]) /\ w[p] \in Seq(Watchers)
  BY DEF Classes
<1>1. /\ Len(d) >= 2 /\ -p \in {d[1], d[2]}
      /\ id \in Classes(w[-d[1]]) /\ id \in Classes(w[-d[2]])
  BY <1>0, ZenonT(40) DEF Watches
<1>2. e[1] \in Lit /\ e[2] \in Lit /\ q \in Lit /\ -q = e[2] /\ -e[1] \in Lit
  <2>1. e[1] \in Lit /\ e[2] \in Lit
    <3>1. e \in Seq(Lit) /\ 1 \in 1..Len(e) /\ 2 \in 1..Len(e)
      BY <1>1, SMTT(20)
    <3> HIDE DEF e
    <3> QED BY <3>1, ElementOfSeq
  <2> HIDE DEF e
  <2> QED BY <2>1, LitFacts
<1>3. q # p /\ q # -e[1] /\ -e[1] # p
  <2>1. e[1] # e[2] /\ e[2] # -p /\ e[1] # -p
    BY <1>1
  <2> HIDE DEF e
  <2> QED BY <1>2, <2>1, LitFacts
<1>4. id \notin Classes(w[q])
  <2>1. id \in Classes(w[q]) => -q \in {d[1], d[2]}
    BY <1>2 DEF Watches
  <2> QED BY <1>2, <2>1
<1>5. PICK x \in Watchers : x = Watcher(e, id) /\ x.cls = id /\ x.lit \in Range(e)
  <2>1. e[1] \in Lit \cap Range(e) /\ e[2] \in Lit \cap Range(e)
    <3>1. e \in Seq(Lit) /\ Len(e) >= 2
      BY <1>1
    <3>2. 1 \in DOMAIN e /\ 2 \in DOMAIN e
      <4> HIDE DEF e
      <4> QED BY <3>1
    <3> HIDE DEF e
    <3> QED BY <1>2, <3>2 DEF Range
  <2>2. Watcher(e, id) \in Watchers
    BY <2>1 DEF Watcher, Watchers
  <2>3. Watcher(e, id).cls = id /\ Watcher(e, id).lit \in Range(e)
    BY <2>1 DEF Watcher
  <2> QED BY <2>2, <2>3
<1>6. PICK u : u = [w EXCEPT ![p] = RemoveAt(@, m), ![q] = Append(@, Watcher(e, id))]
  BY ZenonT(40)
<1>7. PICK r, s : r = RemoveAt(w[p], m) /\ s = Append(w[q], x)
  BY ZenonT(40)
<1>8. DOMAIN u = Lit /\ u[p] = r /\ u[q] = s /\ \A l \in Lit : l # p /\ l # q => u[l] = w[l]
  <2> HIDE DEF e, q
  <2> QED BY <1>2, <1>3, <1>5, <1>6, <1>7
<1>9. \A l \in Lit : Unique(w[l]) /\ LitsIn(w[l], D) /\ w[l] \in Seq(Watchers)
  BY DEF Watches
<1>10. /\ r \in Seq(Watchers) /\ Classes(r) = Classes(w[p]) \ {id} /\ Unique(r)
       /\ \A n \in DOMAIN r : \E j \in DOMAIN w[p] : r[n] = w[p][j]
  <2>1. w[p] \in Seq(Watchers) /\ Unique(w[p]) /\ m \in 1..Len(w[p]) /\ id = w[p][m].cls
    BY <1>9
  <2>0. PICK v \in Seq(Watchers) : v = w[p]
    BY <2>1
  <2>2. Unique(v) /\ m \in 1..Len(v) /\ id = v[m].cls /\ r = RemoveAt(v, m)
    BY <1>7, <2>0, <2>1, Zenon
  <2>3. Classes(r) = Classes(v) \ {v[m].cls} /\ Unique(r) /\ r \in Seq(Watchers)
    BY ONLY <2>0, <2>2, RemoveClasses
  <2>4. \A n \in DOMAIN r : \E j \in DOMAIN v : r[n] = v[j] /\ v[j].cls # v[m].cls
    BY ONLY <2>0, <2>2, RemoveClasses
  <2> QED BY <2>0, <2>2, <2>3, <2>4
<1>11. /\ s \in Seq(Watchers) /\ Classes(s) = Classes(w[q]) \cup {id} /\ Unique(s)
       /\ LitsIn(w[q], E) => LitsIn(s, E)
  <2>1. w[q] \in Seq(Watchers) /\ Unique(w[q])
    BY <1>2, <1>9
  <2> HIDE DEF q, e
  <2>2. s \in Seq(Watchers) /\ Classes(s) = Classes(w[q]) \cup {x.cls}
    BY <1>7, <2>1, AppendClasses
  <2>3. Unique(s)
    BY <1>4, <1>5, <1>7, <2>1, AppendClasses
  <2>4. LitsIn(w[q], E) => LitsIn(s, E)
    <3>1. x.lit \in Range(E[x.cls])
      BY <1>5 DEF e
    <3> QED BY <1>7, <2>1, <3>1, AppendClasses
  <2> QED BY <1>5, <2>2, <2>3, <2>4
<1>12. \A l \in Lit : u[l] \in Seq(Watchers) /\ Unique(u[l])
  BY <1>8, <1>9, <1>10, <1>11, Zenon
<1>13. \A l \in Lit : Classes(u[l]) =
         IF l = p THEN Classes(w[p]) \ {id} ELSE IF l = q THEN Classes(w[q]) \cup {id} ELSE Classes(w[l])
  BY <1>8, <1>10, <1>11, ZenonT(40)
<1>14. ASSUME NEW l \in Lit PROVE LitsIn(u[l], E)
  <2>1. \A y : Range(E[y]) = Range(D[y])
    OBVIOUS
  <2>2. \A k \in Lit : LitsIn(w[k], E)
    BY <1>9, <2>1 DEF LitsIn
  <2>3. LitsIn(r, E)
    BY <1>10, <2>2 DEF LitsIn
  <2> QED BY <1>2, <1>8, <1>11, <2>2, <2>3, ZenonT(40)
<1>15. ASSUME NEW l \in Lit, NEW y \in Classes(u[l])
       PROVE  /\ Len(E[y]) >= 2 /\ -l \in {E[y][1], E[y][2]}
              /\ y \in Classes(u[-E[y][1]]) /\ y \in Classes(u[-E[y][2]])
  <2>1. CASE y = id
    <3>1. l = q \/ (l # p /\ id \in Classes(w[l]))
      BY <1>13, <1>15, <2>1, ZenonT(40)
    <3>2. l = q \/ l = -e[1]
      <4>1. CASE l = q
        BY <4>1
      <4>2. CASE l # p /\ id \in Classes(w[l])
        <5>1. -l \in {d[1], d[2]}
          BY <4>2 DEF Watches
        <5>2. -l # -p
          BY <4>2, LitFacts
        <5>3. -l = e[1]
          BY <1>1, <5>1, <5>2
        <5> QED BY <5>3, LitFacts
      <4> QED BY <3>1, <4>1, <4>2
    <3>3. id \in Classes(w[-e[1]])
      BY <1>1, Zenon
    <3>4. id \in Classes(u[-e[1]]) /\ id \in Classes(u[q])
      BY <1>2, <1>3, <1>13, <3>3, ZenonT(40)
    <3>5. -l \in {e[1], e[2]}
      BY <1>2, <3>2, LitFacts
    <3> QED BY <1>1, <2>1, <3>4, <3>5
  <2>2. CASE y # id
    <3>1. y \in Classes(w[l]) /\ E[y] = D[y]
      BY <1>13, <1>15, <2>2, ZenonT(40)
    <3>2. /\ Len(D[y]) >= 2 /\ -l \in {D[y][1], D[y][2]}
          /\ y \in Classes(w[-D[y][1]]) /\ y \in Classes(w[-D[y][2]])
      BY <3>1 DEF Watches
    <3>3. -D[y][1] \in Lit /\ -D[y][2] \in Lit
      <4>1. D[y] \in Seq(Lit) /\ 1 \in 1..Len(D[y]) /\ 2 \in 1..Len(D[y])
        BY <3>1, <3>2
      <4>2. D[y][1] \in Lit /\ D[y][2] \in Lit
        BY <4>1, ElementOfSeq, ZenonT(40)
      <4> QED BY <4>2, LitFacts
    <3>4. y \in Classes(u[-D[y][1]]) /\ y \in Classes(u[-D[y][2]])
      BY <1>13, <2>2, <3>2, <3>3
    <3> QED BY <3>1, <3>2, <3>4
  <2> QED BY <2>1, <2>2
<1>16. Watches(u, E)
  BY <1>12, <1>14, <1>15 DEF Watches
<1>17. u \in [Lit -> Seq(Watchers)]
  BY <1>6, <1>8, <1>12, Zenon
<1> QED BY <1>6, <1>13, <1>16, <1>17, ZenonT(40)

-----------------------------------------------------------------------------
(* The trail in a state of the invariant.                                   *)

\* The trail of a state that satisfies the invariant.
LEMMA InvTrail ==
  ASSUME Inv
  PROVE  /\ trail \in Trails /\ DOMAIN trail = 1..Len(trail) /\ Len(trail) \in Nat
         /\ \A k \in 1..Len(trail) :
              /\ trail[k] \in TrailEntry /\ trail[k].lit \in Lit /\ trail[k].level \in Nat
              /\ trail[k].reason \in Nat /\ trail[k].decision \in BOOLEAN
              /\ trail[k].reason # NULL => trail[k].reason \in DOMAIN data
         /\ OncePerVariable(trail) /\ Leveled(trail, decisionLevel)
         /\ \A j, k \in 1..Len(trail) : VarOf(trail[j].lit) = VarOf(trail[k].lit) => j = k
         /\ \A l \in Lit : ~(IsTrue(trail, l) /\ IsFalse(trail, l))
<1>1. TypeOK /\ LevelsMatch /\ TrailJustified
  BY DEF Inv
<1>2. trail \in Trails /\ DOMAIN trail = 1..Len(trail) /\ Len(trail) \in Nat /\ Leveled(trail, decisionLevel)
  BY <1>1, LeveledTrail
<1>3. OncePerVariable(trail)
  BY <1>1 DEF TrailJustified, OncePerVariable
<1>4. \A k \in 1..Len(trail) : trail[k].reason # NULL => trail[k].reason \in DOMAIN data
  <2>1. \A k \in 1..Len(trail) : trail[k] \in [lit : Lit, level : Nat, reason : DOMAIN data \cup {NULL}, decision : BOOLEAN]
    BY <1>1, <1>2, ElementOfSeq DEF TypeOK
  <2> QED BY <2>1
<1>5. /\ \A j, k \in 1..Len(trail) : VarOf(trail[j].lit) = VarOf(trail[k].lit) => j = k
      /\ \A l \in Lit : ~(IsTrue(trail, l) /\ IsFalse(trail, l))
  BY <1>2, <1>3, OnceFacts
<1>6. \A k \in 1..Len(trail) :
        /\ trail[k] \in TrailEntry /\ trail[k].lit \in Lit /\ trail[k].level \in Nat
        /\ trail[k].reason \in Nat /\ trail[k].decision \in BOOLEAN
  BY <1>2, TrailTypes
<1> QED BY <1>2, <1>3, <1>4, <1>5, <1>6

\* The levels of a state that satisfies the invariant.
LEMMA InvLevels ==
  ASSUME Inv
  PROVE  /\ decisionLevel \in Nat
         /\ \A k \in 1..Len(trail) : trail[k].level \in Nat /\ trail[k].level <= decisionLevel
         /\ \A j, k \in 1..Len(trail) : j <= k => trail[j].level <= trail[k].level
         /\ \A k \in 1..Len(trail) : trail[k].decision => trail[k].level >= 1
         /\ \A j, k \in 1..Len(trail) : j < k /\ trail[k].decision => trail[j].level < trail[k].level
         /\ trail # <<>> => decisionLevel = trail[Len(trail)].level
         /\ trail = <<>> => decisionLevel = 0
         /\ \A k \in 1..Len(trail) : LevelOf(VarOf(trail[k].lit)) = trail[k].level
         /\ \A v : LevelOf(v) \in Nat \cup {-1} /\ LevelOf(v) <= decisionLevel
         /\ \A v : LevelOf(v) = -1 <=> \A k \in 1..Len(trail) : VarOf(trail[k].lit) # v
         /\ \A v : LevelOf(v) # -1 => \E k \in 1..Len(trail) :
              VarOf(trail[k].lit) = v /\ trail[k].level = LevelOf(v)
<1>1. trail \in Trails /\ OncePerVariable(trail) /\ Leveled(trail, decisionLevel)
  BY InvTrail
<1>2. /\ decisionLevel \in Nat
      /\ \A k \in 1..Len(trail) : trail[k].level \in Nat /\ trail[k].level <= decisionLevel
      /\ \A j, k \in 1..Len(trail) : j <= k => trail[j].level <= trail[k].level
      /\ \A k \in 1..Len(trail) : trail[k].decision => trail[k].level >= 1
      /\ \A j, k \in 1..Len(trail) : j < k /\ trail[k].decision => trail[j].level < trail[k].level
      /\ trail # <<>> => decisionLevel = trail[Len(trail)].level
      /\ trail = <<>> => decisionLevel = 0
  BY <1>1, LevelFacts
<1>3. /\ \A k \in 1..Len(trail) : LevelOf(VarOf(trail[k].lit)) = trail[k].level
      /\ \A v : LevelOf(v) \in Nat \cup {-1}
      /\ \A v : LevelOf(v) = -1 <=> \A k \in 1..Len(trail) : VarOf(trail[k].lit) # v
      /\ \A v : LevelOf(v) # -1 => \E k \in 1..Len(trail) :
           VarOf(trail[k].lit) = v /\ trail[k].level = LevelOf(v)
  BY <1>1, LevelOfFacts
<1>4. \A v : LevelOf(v) <= decisionLevel
  <2> TAKE v
  <2>1. CASE LevelOf(v) = -1
    BY <1>2, <2>1
  <2>2. CASE LevelOf(v) # -1
    BY <1>2, <1>3, <2>2
  <2> QED BY <2>1, <2>2
<1> QED BY <1>2, <1>3, <1>4

\* The level-0 part of a state that satisfies the invariant.
LEMMA InvBottom ==
  ASSUME Inv
  PROVE  /\ Bottom \in 0..Len(trail) /\ Bottom = BottomOf(trail)
         /\ \A k \in 1..Len(trail) : trail[k].level = 0 <=> k <= Bottom
         /\ decisionLevel = 0 <=> Bottom = Len(trail)
         /\ LevelZero \in Trails /\ Len(LevelZero) = Bottom
         /\ \A k \in 1..Bottom : LevelZero[k] = trail[k]
<1>1. trail \in Trails /\ Leveled(trail, decisionLevel)
  BY InvTrail
<1>2. Bottom = BottomOf(trail)
  BY DEF Bottom, BottomOf
<1>3. /\ Bottom \in 0..Len(trail)
      /\ \A k \in 1..Len(trail) : trail[k].level = 0 <=> k <= Bottom
      /\ decisionLevel = 0 <=> Bottom = Len(trail)
  BY <1>1, <1>2, BottomFacts
<1>4. LevelZero \in Trails /\ Len(LevelZero) = Bottom /\ \A k \in 1..Bottom : LevelZero[k] = trail[k]
  <2>1. trail \in Seq(TrailEntry)
    BY <1>1 DEF Trails
  <2> QED BY <1>3, <2>1, PrefixFacts DEF LevelZero, Trails
<1> QED BY <1>2, <1>3, <1>4

\* What the calls and a restart leave of the trail: a prefix of level 0, and
\* literals at level 0 after it that are new.
RootCut(n) ==
  /\ n \in 0..Bottom /\ trail' \in Trails /\ n <= Len(trail')
  /\ \A k \in 1..n : trail'[k] = trail[k]
  /\ \A k \in (n + 1)..Len(trail') :
       /\ trail'[k].level = 0 /\ ~trail'[k].decision
       /\ VarOf(trail'[k].lit) \in 1..numVars'
       /\ trail'[k].reason = NULL \/
            (trail'[k].reason \in DOMAIN data' /\ data'[trail'[k].reason] = <<trail'[k].lit>>)
       /\ \A j \in 1..(k - 1) : VarOf(trail'[j].lit) # VarOf(trail'[k].lit)
AtRoot == decisionLevel' = 0 /\ propq' = 0 /\ \E n \in 0..Bottom : RootCut(n)

\* Backtracking to level 0 keeps all of level 0.
LEMMA RootStays ==
  ASSUME Inv, trail' = LevelZero
  PROVE  RootCut(Bottom)
<1>1. Bottom \in Nat /\ Len(trail') = Bottom /\ trail' \in Trails /\ \A k \in 1..Bottom : trail'[k] = trail[k]
  BY InvBottom
<1> QED BY <1>1 DEF RootCut

\* A new fact or assumption goes on top of level 0.
LEMMA RootAppend ==
  ASSUME Inv, NEW l \in Lit, IsUnknown(LevelZero, l), NEW r \in Nat,
         trail' = Append(LevelZero, [lit |-> l, level |-> 0, reason |-> r, decision |-> FALSE]),
         VarOf(l) \in 1..numVars', r = NULL \/ (r \in DOMAIN data' /\ data'[r] = <<l>>)
  PROVE  RootCut(Bottom)
<1> DEFINE e == [lit |-> l, level |-> 0, reason |-> r, decision |-> FALSE]
<1>1. Bottom \in Nat /\ LevelZero \in Trails /\ Len(LevelZero) = Bottom /\ \A k \in 1..Bottom : LevelZero[k] = trail[k]
  BY InvBottom
<1>2. e \in TrailEntry /\ e.lit = l /\ e.level = 0 /\ e.reason = r /\ ~e.decision
  BY DEF TrailEntry
<1> HIDE DEF e
<1>3. /\ trail' \in Trails /\ Len(trail') = Bottom + 1 /\ trail'[Bottom + 1] = e
      /\ \A k \in 1..Bottom : trail'[k] = LevelZero[k]
  <2>1. trail' = Append(LevelZero, e)
    BY DEF e
  <2> QED BY <1>1, <1>2, <2>1 DEF Trails
<1>4. \A j \in 1..Bottom : VarOf(LevelZero[j].lit) # VarOf(l)
  BY <1>1, TrailsUnknown
<1>5. \A k \in (Bottom + 1)..Len(trail') : k = Bottom + 1 /\ k - 1 = Bottom
  BY <1>1, <1>3
<1>6. \A k \in (Bottom + 1)..Len(trail') :
       /\ trail'[k].level = 0 /\ ~trail'[k].decision
       /\ VarOf(trail'[k].lit) \in 1..numVars'
       /\ trail'[k].reason = NULL \/
            (trail'[k].reason \in DOMAIN data' /\ data'[trail'[k].reason] = <<trail'[k].lit>>)
       /\ \A j \in 1..(k - 1) : VarOf(trail'[j].lit) # VarOf(trail'[k].lit)
  BY <1>2, <1>3, <1>4, <1>5
<1>7. Bottom \in 0..Bottom /\ Bottom <= Len(trail')
  BY <1>1, <1>3
<1> QED BY <1>1, <1>3, <1>6, <1>7 DEF RootCut

-----------------------------------------------------------------------------
(* What the calls do.                                                       *)

Cleared == [v \in Var |-> IF v \in Above THEN <<>> ELSE unit_facts[v]]
Added(c, w) ==
  /\ w \in Seq(Lit) /\ DistinctVars(w) /\ Range(w) = Range(c) /\ data' = Append(data, w)
  /\ \/ /\ Len(w) >= 2 /\ trail' = LevelZero /\ wlist' = Watch(wlist, w, Len(data) + 1)
        /\ conflictClause' = NULL /\ unit_facts' = Cleared
     \/ /\ w = <<>> /\ trail' = LevelZero /\ wlist' = wlist
        /\ conflictClause' = Len(data) + 1 /\ unit_facts' = Cleared
     \/ Len(w) = 1 /\ AddUnit(w[1], Len(data) + 1)

\* funcsatAddClause either stores the clause or drops a tautology.
LEMMA AddClauseCases ==
  ASSUME Inv, NEW c \in Inputs, AddClause(c)
  PROVE  /\ c \in Seq(Lit) /\ Range(c) \subseteq Lit /\ VarsOf(c) \subseteq 1..numVars'
         /\ numVars' \in 0..MaxVar /\ numVars <= numVars'
         /\ decisionLevel' = 0 /\ propq' = 0 /\ heap' = heap \cup Above \cup NewVars
         /\ \/ /\ UNCHANGED <<data, wlist>> /\ conflictClause' = NULL
               /\ trail' = LevelZero /\ unit_facts' = Cleared
            \/ \E w : Added(c, w)
<1>1. c \in Seq(Lit) /\ Range(c) \subseteq Lit
  BY ClientAssumption DEF Range
<1>2. VarsOf(c) \in SUBSET Var
  BY <1>1, VarsOfFacts
<1>3. numVars \in 0..MaxVar
  BY DEF Inv, TypeOK
<1>4. numVars' = Greatest(VarsOf(c) \cup {numVars})
  BY DEF AddClause, Resize
<1>5. /\ numVars' \in 0..MaxVar /\ numVars <= numVars' /\ VarsOf(c) \subseteq 1..numVars'
  BY <1>2, <1>3, <1>4, ResizeFacts
<1>6. PICK d \in NormalForms(c) :
        IF Tautology(d)
        THEN /\ BacktrackTo(LevelZero, NewVars)
             /\ conflictClause' = NULL
             /\ UNCHANGED <<data, wlist>>
        ELSE AddNormal(d)
  BY DEF AddClause
<1>7. d \in Seq(Lit) /\ Range(d) = Range(c) /\ (~Tautology(d) => DistinctVars(d))
  BY <1>1, NormalFormFacts
<1>8. CASE Tautology(d)
  BY <1>1, <1>5, <1>6, <1>8 DEF BacktrackTo, Cleared
<1>9. CASE ~Tautology(d)
  <2>1. AddNormal(d)
    BY <1>6, <1>9
  <2>2. Len(d) \in Nat
    BY <1>7
  <2> DEFINE w == IF Len(d) > 1 THEN MakeWatchable(LevelZero, d) ELSE d
             id == Len(data) + 1
  <2>3. /\ data' = Append(data, w)
        /\ IF Len(d) = 1 THEN AddUnit(d[1], id)
           ELSE /\ BacktrackTo(LevelZero, NewVars)
                /\ wlist' = IF Len(d) > 1 THEN Watch(wlist, w, id) ELSE wlist
                /\ conflictClause' = IF Len(d) = 0 THEN id ELSE NULL
    BY <2>1 DEF AddNormal
  <2>4. w \in Seq(Lit) /\ DistinctVars(w) /\ Range(w) = Range(c) /\ Len(w) = Len(d)
    <3>1. CASE Len(d) > 1
      <4>1. Len(d) >= 2
        BY <2>2, <3>1
      <4>2. MakeWatchable(LevelZero, d) \in Seq(Lit) /\ Permuted(d, MakeWatchable(LevelZero, d))
        BY <1>7, <4>1, MakeWatchableFacts
      <4> QED BY <1>7, <1>9, <3>1, <4>2 DEF Permuted
    <3>2. CASE ~(Len(d) > 1)
      BY <1>7, <1>9, <3>2
    <3> QED BY <3>1, <3>2
  <2>5. /\ decisionLevel' = 0 /\ propq' = 0 /\ heap' = heap \cup Above \cup NewVars
    BY <2>3 DEF AddUnit, BacktrackTo
  <2>6. PICK x : x = w
    OBVIOUS
  <2> HIDE DEF w
  <2>7. Added(c, x)
    <3>1. x \in Seq(Lit) /\ DistinctVars(x) /\ Range(x) = Range(c) /\ Len(x) = Len(d) /\ data' = Append(data, x)
      BY <2>3, <2>4, <2>6
    <3>2. CASE Len(d) = 1
      <4>1. x = d
        BY <2>6, <3>2 DEF w
      <4>2. Len(x) = 1 /\ AddUnit(x[1], Len(data) + 1)
        BY <2>3, <3>2, <4>1
      <4> QED BY <3>1, <4>2 DEF Added
    <3>3. CASE Len(d) = 0
      <4>1. x = <<>>
        BY <3>1, <3>3
      <4>2. BacktrackTo(LevelZero, NewVars) /\ wlist' = wlist /\ conflictClause' = id
        BY <2>3, <3>3
      <4>3. trail' = LevelZero /\ unit_facts' = Cleared
        BY <4>2 DEF BacktrackTo, Cleared
      <4>4. conflictClause' = Len(data) + 1 /\ wlist' = wlist
        BY <4>2
      <4> HIDE DEF id
      <4> QED BY <3>1, <4>1, <4>3, <4>4, Zenon DEF Added
    <3>4. CASE Len(d) > 1
      <4>0. Len(d) # 1 /\ Len(d) # 0
        <5>1. \A n \in Nat : n > 1 => n # 1 /\ n # 0
          OBVIOUS
        <5> QED BY <2>2, <3>4, <5>1, Zenon
      <4>1. BacktrackTo(LevelZero, NewVars) /\ wlist' = Watch(wlist, x, id) /\ conflictClause' = NULL
        BY <2>3, <2>6, <3>4, <4>0
      <4>2. Len(x) >= 2
        BY <2>2, <3>1, <3>4
      <4>3. trail' = LevelZero /\ unit_facts' = Cleared
        BY <4>1 DEF BacktrackTo, Cleared
      <4>4. wlist' = Watch(wlist, x, Len(data) + 1)
        BY <4>1
      <4> HIDE DEF id
      <4> QED BY <3>1, <4>1, <4>2, <4>3, <4>4, Zenon DEF Added
    <3>5. \A n \in Nat : n = 1 \/ n = 0 \/ n > 1
      OBVIOUS
    <3> QED BY <2>2, <3>2, <3>3, <3>4, <3>5, Zenon
  <2> QED BY <1>1, <1>5, <2>5, <2>7
<1> QED BY <1>8, <1>9

\* After funcsatAddClause the trail is at level 0.
LEMMA AddClauseRoot ==
  ASSUME Inv, NEW c \in Inputs, AddClause(c)
  PROVE  AtRoot
<1>1. decisionLevel' = 0 /\ propq' = 0 /\ Bottom \in 0..Bottom
  BY AddClauseCases, InvBottom
<1>2. CASE trail' = LevelZero
  BY <1>1, <1>2, RootStays DEF AtRoot
<1>3. CASE trail' # LevelZero
  <2>1. PICK w : Added(c, w) /\ Len(w) = 1 /\ AddUnit(w[1], Len(data) + 1)
    BY <1>3, AddClauseCases DEF Added
  <2>2. PICK l \in Lit : l = w[1] /\ w = <<l>>
    BY <2>1 DEF Added
  <2>3. /\ IsUnknown(LevelZero, l)
        /\ trail' = Append(LevelZero, [lit |-> l, level |-> 0, reason |-> Len(data) + 1, decision |-> FALSE])
    BY <1>3, <2>1, <2>2 DEF AddUnit
  <2>4. data' = Append(data, <<l>>)
    BY <2>1, <2>2 DEF Added
  <2>5. Len(data) + 1 \in Nat /\ Len(data) + 1 \in DOMAIN data' /\ data'[Len(data) + 1] = <<l>>
    <3>1. data \in Seq(Seq(Lit))
      BY DEF Inv, TypeOK
    <3> QED BY <2>4, <3>1
  <2>6. VarOf(l) \in 1..numVars'
    <3>1. Range(w) = Range(c) /\ VarsOf(w) = {VarOf(x) : x \in Range(w)} /\ VarsOf(c) = {VarOf(x) : x \in Range(c)}
      BY <2>1, AddClauseCases, VarsOfFacts DEF Added
    <3>2. l \in Range(w)
      BY <2>2 DEF Range
    <3> QED BY <3>1, <3>2, AddClauseCases
  <2>7. RootCut(Bottom)
    BY <2>3, <2>5, <2>6, RootAppend
  <2> QED BY <1>1, <2>7 DEF AtRoot
<1> QED BY <1>2, <1>3

\* funcsatPushAssumption keeps level 0 and allocates the variable.
LEMMA PushAssumptionFacts ==
  ASSUME Inv, NEW p \in Queries, PushAssumption(p)
  PROVE  /\ p \in Lit /\ VarOf(p) \in 1..numVars'
         /\ numVars' \in 0..MaxVar /\ numVars <= numVars'
         /\ AtRoot /\ RootCut(Bottom)
<1>1. p \in Lit /\ {VarOf(p)} \in SUBSET Var
  BY ClientAssumption, LitFacts
<1>2. numVars \in 0..MaxVar
  BY DEF Inv, TypeOK
<1>3. numVars' = Greatest({VarOf(p)} \cup {numVars})
  BY DEF PushAssumption, Resize
<1>4. numVars' \in 0..MaxVar /\ numVars <= numVars' /\ VarOf(p) \in 1..numVars'
  BY <1>1, <1>2, <1>3, ResizeFacts
<1>5. decisionLevel' = 0 /\ propq' = 0 /\ Bottom \in 0..Bottom
  BY InvBottom DEF PushAssumption, BacktrackTo
<1>6. RootCut(Bottom)
  <2>1. CASE IsUnknown(LevelZero, p)
    <3>1. trail' = Append(LevelZero, [lit |-> p, level |-> 0, reason |-> NULL, decision |-> FALSE])
      BY <2>1 DEF PushAssumption, BacktrackTo
    <3>2. NULL \in Nat
      BY DEF NULL
    <3> QED BY <1>1, <1>4, <2>1, <3>1, <3>2, RootAppend
  <2>2. CASE ~IsUnknown(LevelZero, p)
    <3>1. trail' = LevelZero
      BY <2>2 DEF PushAssumption, BacktrackTo
    <3> QED BY <3>1, RootStays
  <2> QED BY <2>1, <2>2
<1> QED BY <1>1, <1>4, <1>5, <1>6 DEF AtRoot

\* Backtracking to level 0 keeps all of level 0 and refills the heap.
LEMMA BacktrackRoot ==
  ASSUME Inv, BacktrackTo(LevelZero, {})
  PROVE  AtRoot /\ RootCut(Bottom) /\ heap' = heap \cup Above /\ unit_facts' = Cleared
<1>1. decisionLevel' = 0 /\ propq' = 0 /\ Bottom \in 0..Bottom /\ trail' = LevelZero
  BY InvBottom DEF BacktrackTo
<1>2. heap' = heap \cup Above /\ unit_facts' = Cleared
  BY DEF BacktrackTo, Cleared
<1> QED BY <1>1, <1>2, RootStays DEF AtRoot

\* Popping level 0 down to position n.
Popped(n) == {VarOf(trail[k].lit) : k \in (n + 1)..Bottom}
PoppedTo(n) ==
  /\ heap' = heap \cup Above \cup Popped(n)
  /\ unit_facts' = [v \in Var |-> IF v \in Above \cup Popped(n) THEN <<>> ELSE unit_facts[v]]
  /\ \A k \in (n + 1)..Len(trail') : trail'[k].reason # NULL

\* The assumption that is the next one above position n, if one is popped.
PoppedFrom(n, size) ==
  \/ n = Bottom /\ size = Len(assumptions) - 1 /\ assumptions[size + 1] = 0
  \/ /\ n + 1 \in 1..Bottom /\ trail[n + 1].lit = assumptions[size + 1]
     /\ assumptions[size + 1] # 0

\* A unit recorded under an assigned variable is its reason.
LEMMA RootFacts ==
  ASSUME Inv, pc = "idle", NEW v \in Var, NEW id \in Range(unit_facts[v]),
         NEW m \in 1..Bottom, VarOf(trail[m].lit) = v
  PROVE  Len(data[id]) = 1 /\ trail[m].reason = id
<1>1. PICK k \in DOMAIN trail : VarOf(trail[k].lit) = v /\ (Live(k) => WaitsAt(id, k))
  BY DEF Inv, UnitFactsWait
<1>2. m \in 1..Len(trail) /\ trail[m].level = 0
  BY InvBottom
<1>3. k \in 1..Len(trail)
  BY InvTrail
<1>4. k = m
  BY <1>1, <1>2, <1>3, InvTrail
<1> QED BY <1>1, <1>2, <1>4 DEF Live, WaitsAt

\* What is collected when assumptions are taken back are units: no list changes.
LEMMA RestoredFacts ==
  ASSUME Inv, pc = "idle", NEW n \in 0..Bottom
  PROVE  /\ Collected(n) \in Seq(DOMAIN data) /\ Rewatched(Collected(n)) = wlist
<1>0. \A j \in 1..Len(trail) : trail[j].lit \in Lit
  BY InvTrail
<1>1. TypeOK
  BY DEF Inv
<1>2. /\ Collected(n) \in Seq(DOMAIN data)
      /\ \A id \in Range(Collected(n)) : \E k \in (n + 1)..Bottom : id \in Range(unit_facts[VarOf(trail[k].lit)])
  BY <1>1, InvBottom, CollectedFacts
<1>3. ASSUME NEW id \in Range(Collected(n)) PROVE Len(data[id]) = 1
  <2>1. PICK k \in (n + 1)..Bottom : id \in Range(unit_facts[VarOf(trail[k].lit)])
    BY <1>2
  <2>2. k \in 1..Bottom /\ k \in 1..Len(trail)
    BY InvBottom
  <2>3. VarOf(trail[k].lit) \in Var
    <3>1. trail[k].lit \in Lit
      BY <1>0, <2>2
    <3> QED BY <3>1, LitFacts
  <2> QED BY <2>1, <2>2, <2>3, RootFacts
<1> QED BY <1>1, <1>2, <1>3, RewatchedFacts

\* A cut of level 0 keeps what is below it.
LEMMA PrefixRoot ==
  ASSUME Inv, NEW n \in 0..Bottom, trail' = SubSeq(trail, 1, n)
  PROVE  RootCut(n) /\ Len(trail') = n
<1>1. n \in 0..Len(trail) /\ n \in Nat
  BY InvBottom
<1>2. trail' \in Trails /\ Len(trail') = n /\ \A k \in 1..n : trail'[k] = trail[k]
  BY <1>1, InvTrail, PrefixFacts DEF Trails
<1>3. \A k \in (n + 1)..Len(trail') : FALSE
  BY <1>1, <1>2
<1> QED BY <1>1, <1>2, <1>3 DEF RootCut

\* What is implied again after a cut has a reason.
LEMMA RestoredRoot ==
  ASSUME Inv, pc = "idle", NEW n \in 0..Bottom, UNCHANGED <<data, numVars>>,
         trail' = Reimplied(SubSeq(trail, 1, n), Collected(n))
  PROVE  /\ RootCut(n) /\ n <= Len(trail') /\ \A k \in (n + 1)..Len(trail') : trail'[k].reason # NULL
<1>1. TypeOK
  BY DEF Inv
<1>2. PICK t \in Trails : t = SubSeq(trail, 1, n) /\ Len(t) = n /\ \A k \in 1..n : t[k] = trail[k]
  <2>1. n \in 0..Len(trail) /\ trail \in Seq(TrailEntry)
    BY InvBottom, InvTrail DEF Trails
  <2>2. SubSeq(trail, 1, n) \in Seq(TrailEntry) /\ Len(SubSeq(trail, 1, n)) = n /\ \A k \in 1..n : SubSeq(trail, 1, n)[k] = trail[k]
    BY <2>1, PrefixFacts
  <2> QED BY <2>2 DEF Trails
<1>3. RootGrown(t, trail', Range(Collected(n)))
  BY <1>1, <1>2, RestoredFacts, ReimpliedFacts
<1>4. /\ trail' \in Trails /\ n <= Len(trail') /\ \A k \in 1..n : trail'[k] = trail[k]
      /\ \A k \in (n + 1)..Len(trail') :
           /\ ImpliedAtRoot(trail'[k])
           /\ \A j \in 1..(k - 1) : VarOf(trail'[j].lit) # VarOf(trail'[k].lit)
  BY <1>2, <1>3 DEF RootGrown
<1>5. ASSUME NEW k \in (n + 1)..Len(trail')
      PROVE  /\ trail'[k].level = 0 /\ ~trail'[k].decision /\ trail'[k].reason # NULL
             /\ VarOf(trail'[k].lit) \in 1..numVars'
             /\ trail'[k].reason \in DOMAIN data' /\ data'[trail'[k].reason] = <<trail'[k].lit>>
  <2>1. ImpliedAtRoot(trail'[k])
    BY <1>4
  <2>2. /\ trail'[k].level = 0 /\ ~trail'[k].decision /\ trail'[k].reason \in DOMAIN data
        /\ data[trail'[k].reason] = <<trail'[k].lit>>
    BY <2>1 DEF ImpliedAtRoot
  <2>3. trail'[k].reason # NULL
    BY <1>1, <2>2, DataTypes DEF NULL
  <2>4. VarOf(trail'[k].lit) \in 1..numVars
    <3>1. VarsOf(data[trail'[k].reason]) \subseteq 1..numVars
      BY <2>2 DEF Inv, Allocated
    <3> QED BY <2>2, <3>1 DEF VarsOf
  <2> QED BY <2>2, <2>3, <2>4
<1> QED BY <1>4, <1>5 DEF RootCut

\* What is implied again after that.
Restores(n, size) ==
  \/ assumptions[size + 1] = 0 /\ trail' = LevelZero
  \/ assumptions[size + 1] # 0 /\ trail' = Reimplied(SubSeq(trail, 1, n), Collected(n))

\* funcsatPopAssumptions cuts level 0 at the first assumption taken back.
LEMMA PopAssumptionsFacts ==
  ASSUME Inv, NEW num \in 1..MaxAssumptions, PopAssumptions(num)
  PROVE  \E n \in 0..Bottom :
           /\ RootCut(n) /\ PoppedTo(n) /\ PoppedFrom(n, Len(assumptions) - num)
           /\ Restores(n, Len(assumptions) - num)
           /\ num = 1 \/ \A k \in (Len(assumptions) - num + 1)..Len(assumptions) : assumptions[k] # 0
           /\ UNCHANGED <<wlist, data, numVars>> /\ decisionLevel' = 0 /\ propq' = 0
           /\ num \in 1..Len(assumptions) /\ assumptions' = SubSeq(assumptions, 1, Len(assumptions) - num)
           /\ held' = SubSeq(held, 1, Len(assumptions) - num)
<1> DEFINE size == Len(assumptions)
           zeros == {k \in (size - num + 1)..size : assumptions[k] = 0}
           stop == IF zeros = {} THEN size - num ELSE Greatest(zeros)
           n == IF stop = size THEN Bottom
                ELSE (CHOOSE k \in 1..Bottom : trail[k].lit = assumptions[stop + 1]) - 1
           returns == zeros # {}
<1>1. /\ pc = "idle" /\ num \in 1..size /\ (num = 1 \/ ~returns)
      /\ assumptions' = SubSeq(assumptions, 1, IF returns THEN stop - 1 ELSE stop)
      /\ trail' = IF returns THEN SubSeq(trail, 1, n)
                  ELSE Reimplied(SubSeq(trail, 1, n), Collected(n))
      /\ wlist' = IF returns THEN wlist ELSE Rewatched(Collected(n))
      /\ heap' = heap \cup Above \cup Popped(n)
      /\ unit_facts' = [v \in Var |-> IF v \in Above \cup Popped(n) THEN <<>> ELSE unit_facts[v]]
  BY DEF PopAssumptions, Popped
<1>2. /\ decisionLevel' = 0 /\ propq' = 0 /\ UNCHANGED <<data, numVars>>
      /\ held' = SubSeq(held, 1, Len(held) - num)
  BY DEF PopAssumptions
<1>3. size \in Nat /\ Len(held) = size /\ Bottom \in Nat /\ AssumptionsInOrder /\ DOMAIN assumptions = 1..size
  <2>1. AssumptionsInOrder /\ assumptions \in Seq(Lit \cup {0})
    BY DEF Inv, TypeOK
  <2> QED BY <2>1, InvBottom DEF AssumptionsInOrder
<1>4. ~returns => \A k \in (size - num + 1)..size : assumptions[k] # 0
  OBVIOUS
<1>5. CASE returns
  <2>1. num = 1
    BY <1>1, <1>5
  <2>2. zeros = {size} /\ assumptions[size] = 0
    <3>1. (size - num + 1)..size = {size}
      BY <1>3, <2>1
    <3> QED BY <1>5, <3>1
  <2>3. stop = size
    BY <2>2 DEF Greatest
  <2>4. n = Bottom /\ n \in 0..Bottom
    BY <1>3, <2>3
  <2> HIDE DEF zeros, stop, n
  <2>5. RootCut(Bottom) /\ Len(trail') = Bottom
    BY <1>1, <1>3, <1>5, <2>4, PrefixRoot
  <2>6. PoppedTo(Bottom)
    BY <1>1, <1>3, <2>4, <2>5 DEF PoppedTo
  <2>7. assumptions' = SubSeq(assumptions, 1, size - 1) /\ wlist' = wlist
    BY <1>1, <1>5, <2>3
  <2>8. PoppedFrom(Bottom, size - 1)
    BY <1>3, <2>2 DEF PoppedFrom
  <2>9. Restores(Bottom, size - 1)
    <3>1. size - 1 + 1 = size
      BY <1>3
    <3> QED BY <1>1, <1>5, <2>2, <2>4, <3>1 DEF Restores, LevelZero
  <2> QED BY <1>1, <1>2, <1>3, <2>1, <2>4, <2>5, <2>6, <2>7, <2>8, <2>9
<1>6. CASE ~returns
  <2>1. stop = size - num /\ stop + 1 \in 1..size /\ stop # size /\ assumptions[stop + 1] # 0
    <3>1. stop = size - num
      BY <1>6
    <3> HIDE DEF stop
    <3>2. stop + 1 \in 1..size /\ stop # size /\ stop + 1 \in (size - num + 1)..size
      BY <1>1, <1>3, <3>1
    <3>3. assumptions[stop + 1] # 0
      BY <1>6, <3>2
    <3> QED BY <3>1, <3>2, <3>3
  <2> HIDE DEF zeros, stop
  <2>2. \E k \in 1..Bottom : trail[k].lit = assumptions[stop + 1]
    <3>0. \A q \in DOMAIN assumptions : assumptions[q] # 0 => \E k \in DOMAIN trail : At(k, assumptions[q])
      BY <1>3 DEF AssumptionsInOrder
    <3>1. PICK k \in DOMAIN trail : At(k, assumptions[stop + 1])
      BY <1>3, <2>1, <3>0
    <3>2. k \in 1..Len(trail) /\ trail[k].level = 0
      BY <3>1, InvTrail DEF At
    <3> QED BY <3>1, <3>2, InvBottom DEF At
  <2>3. PICK k \in 1..Bottom : k = (CHOOSE j \in 1..Bottom : trail[j].lit = assumptions[stop + 1]) /\ trail[k].lit = assumptions[stop + 1]
    BY <2>2
  <2>4. n = k - 1 /\ n \in 0..Bottom /\ n + 1 \in 1..Bottom /\ n + 1 = k
    <3>1. n = k - 1
      BY <2>1, <2>3
    <3> HIDE DEF n
    <3> QED BY <1>3, <3>1
  <2>5. PICK m \in 0..Bottom : m = n
    BY <2>4
  <2> HIDE DEF n
  <2>6. RootCut(m) /\ \A j \in (m + 1)..Len(trail') : trail'[j].reason # NULL
    BY <1>1, <1>2, <1>6, <2>5, RestoredRoot
  <2>7. wlist' = wlist
    BY <1>1, <1>6, <2>5, RestoredFacts
  <2>8. PoppedTo(m)
    BY <1>1, <2>5, <2>6 DEF PoppedTo
  <2>9. PoppedFrom(m, size - num)
    BY <2>1, <2>3, <2>4, <2>5 DEF PoppedFrom
  <2>10. assumptions' = SubSeq(assumptions, 1, size - num)
    BY <1>1, <1>6, <2>1
  <2>11. Restores(m, size - num)
    BY <1>1, <1>6, <2>1, <2>5 DEF Restores
  <2> QED BY <1>1, <1>2, <1>3, <1>4, <2>6, <2>7, <2>8, <2>9, <2>10, <2>11
<1> QED BY <1>5, <1>6

-----------------------------------------------------------------------------
(***************************************************************************)
(* Every step of the engine keeps the invariant: what each step does, and  *)
(* one lemma per part of the invariant.                                    *)
(***************************************************************************)

-----------------------------------------------------------------------------
(* bcp visits a clause.                                                     *)

\* Clause id is visited for p; d is the clause with -p second.
Visits(p, id, d) ==
  /\ propq + 1 \in 1..Len(trail) /\ p = trail[propq + 1].lit /\ p \in Lit /\ id \in DOMAIN data
  /\ id \in Classes(wlist[p]) /\ d \in Seq(Lit) /\ Permuted(data[id], d) /\ Len(d) >= 2 /\ DistinctVars(d)
  /\ d[2] = -p /\ d[1] # -p
  /\ d = data[id] \/ (d[1] = data[id][2] /\ d[2] = data[id][1])
Rewatches(id, d) ==
  /\ data' = [data EXCEPT ![id] = d]
  /\ wlist' \in [Lit -> Seq(Watchers)] /\ Watches(wlist', data')
  /\ \A l \in Lit : Classes(wlist'[l]) \subseteq Classes(wlist[l]) \cup {id}
VisitSatisfied ==
  /\ \E l \in Lit : IsTrue(trail, l)
  /\ i' = i + 1 /\ UNCHANGED <<data, wlist, assignment, conflictClause, pc>>
VisitMoves(id, d) ==
  /\ \E k \in 3..Len(d) : ~IsFalse(trail, d[k]) /\ Rewatches(id, Swap(d, 2, k))
  /\ UNCHANGED <<i, assignment, conflictClause, pc>>
VisitKeeps(id, d) ==
  /\ \A k \in 3..Len(d) : IsFalse(trail, d[k])
  /\ Rewatches(id, d)
  /\ \/ /\ IsFalse(trail, d[1]) /\ conflictClause' = id /\ pc' = "conflict" /\ i' = 1
        /\ UNCHANGED assignment
     \/ /\ IsTrue(trail, d[1]) /\ i' = i + 1 /\ UNCHANGED <<conflictClause, pc, assignment>>
     \/ /\ IsUnknown(trail, d[1]) /\ i' = i + 1 /\ UNCHANGED <<conflictClause, pc>>
        /\ TrailPush(d[1], id)

\* What VisitClause does with the clause old, the one of watcher n of p, when d
\* is old with -p second.
VisitsAs(p, l, id, old, d) ==
  LET kept == [wlist EXCEPT ![p][i].lit = IF old[1] = -p THEN d[1] ELSE @]
      K == {k \in 3..Len(d) : ~IsFalse(trail, d[k])}
      moved == Swap(d, 2, Least(K))
  IN IF IsTrue(trail, l)
     THEN i' = i + 1 /\ UNCHANGED <<data, wlist, assignment, conflictClause, pc>>
     ELSE IF K # {}
     THEN /\ data' = [data EXCEPT ![id] = moved]
          /\ wlist' = [wlist EXCEPT ![p] = RemoveAt(@, i),
                                    ![-moved[2]] = Append(@, Watcher(moved, id))]
          /\ UNCHANGED <<i, assignment, conflictClause, pc>>
     ELSE /\ data' = [data EXCEPT ![id] = d]
          /\ wlist' = kept
          /\ IF IsFalse(trail, d[1])
             THEN /\ conflictClause' = id /\ pc' = "conflict" /\ i' = 1
                  /\ UNCHANGED assignment
             ELSE /\ i' = i + 1 /\ UNCHANGED <<conflictClause, pc>>
                  /\ IF IsTrue(trail, d[1]) THEN UNCHANGED assignment
                     ELSE TrailPush(d[1], id)
VisitsOld(p, l, id, old) == VisitsAs(p, l, id, old, IF old[1] = -p THEN Swap(old, 1, 2) ELSE old)
VisitsFor(p) == VisitsOld(p, wlist[p][i].lit, wlist[p][i].cls, data[wlist[p][i].cls])

\* The clause that bcp visits, with what the cursor says of it.
LEMMA VisitShape ==
  ASSUME Inv, VisitClause
  PROVE  \E p, id, d :
           /\ p \in Lit
           /\ Visits(p, id, d) /\ pc = "bcp"
           /\ i \in 1..Len(wlist[p]) /\ i \in DOMAIN wlist[p] /\ wlist[p][i].cls = id
           /\ VisitsAs(p, wlist[p][i].lit, id, data[id], d)
<1>1. TypeOK /\ ClausesDistinct /\ Watches(wlist, data)
  BY WatchedWatches DEF Inv
<1>2. PICK p \in Lit : p = trail[propq + 1].lit /\ propq + 1 \in 1..Len(trail)
  <2>1. propq \in 0..Len(trail) /\ propq < Len(trail) /\ Len(trail) \in Nat
    BY <1>1, InvTrail, Zenon DEF TypeOK, VisitClause
  <2>2. propq + 1 \in 1..Len(trail)
    BY <2>1
  <2> QED BY <2>2, InvTrail
<1>3. i \in 1..Len(wlist[p]) /\ i \in DOMAIN wlist[p]
  <2>1. i \in Nat \ {0}
    BY <1>1 DEF TypeOK
  <2>2. i <= Len(wlist[p])
    BY <1>2, Zenon DEF VisitClause
  <2>3. DOMAIN wlist[p] = 1..Len(wlist[p]) /\ Len(wlist[p]) \in Nat
    BY <1>1, WatchTypes
  <2> QED BY <2>1, <2>2, <2>3
<1>4. PICK id : id = wlist[p][i].cls
  OBVIOUS
<1>5. id \in DOMAIN data /\ id \in Classes(wlist[p]) /\ wlist[p][i].lit \in Lit /\ id \in Nat
  <2>1. id \in DOMAIN data /\ wlist[p][i].lit \in Lit
    BY <1>1, <1>3, <1>4, WatchTypes
  <2> QED BY <1>1, <1>3, <1>4, <2>1, DataTypes DEF Classes
<1>6. PICK old \in Seq(Lit) : old = data[id] /\ DistinctVars(old) /\ Len(old) >= 2 /\ -p \in {old[1], old[2]}
  BY <1>1, <1>5, DataTypes DEF ClausesDistinct, Watches
<1>7. Len(old) \in Nat /\ 1 \in 1..Len(old) /\ 2 \in 1..Len(old) /\ old[1] \in Lit /\ old[2] \in Lit /\ old[1] # old[2]
  BY <1>6 DEF DistinctVars
<1>8. PICK d : d = IF old[1] = -p THEN Swap(old, 1, 2) ELSE old
  OBVIOUS
<1>9. /\ d \in Seq(Lit) /\ Permuted(old, d) /\ Len(d) = Len(old) /\ d[2] = -p /\ d[1] # -p /\ d[1] \in Lit
      /\ d = old \/ (d[1] = old[2] /\ d[2] = old[1])
  <2>1. CASE old[1] = -p
    <3>1. d \in Seq(Lit) /\ Permuted(old, d)
      BY <1>6, <1>7, <1>8, <2>1, SwapFacts, SwapPermutes
    <3>2. Len(d) = Len(old) /\ d[2] = old[1] /\ d[1] = old[2]
      BY <1>6, <1>7, <1>8, <2>1 DEF Swap
    <3> QED BY <1>7, <2>1, <3>1, <3>2
  <2>2. CASE old[1] # -p
    BY <1>6, <1>7, <1>8, <2>2 DEF Permuted
  <2> QED BY <2>1, <2>2
<1>10. DistinctVars(d) /\ Range(d) = Range(old) /\ Len(d) >= 2 /\ Len(d) \in Nat
  BY <1>6, <1>7, <1>9 DEF Permuted
<1>11. Visits(p, id, d)
  BY <1>2, <1>5, <1>6, <1>9, <1>10 DEF Visits
<1>12. VisitsAs(p, wlist[p][i].lit, id, old, d)
  <2>1. VisitsFor(trail[propq + 1].lit)
    BY Zenon DEF VisitsFor, VisitsOld, VisitsAs, VisitClause
  <2>2. VisitsFor(p)
    BY <1>2, <2>1
  <2>3. VisitsOld(p, wlist[p][i].lit, id, old)
    BY <1>4, <1>6, <2>2 DEF VisitsFor
  <2> QED BY <1>8, <2>3 DEF VisitsOld
<1> QED BY <1>3, <1>4, <1>6, <1>11, <1>12, Zenon DEF VisitClause

\* Visiting a watcher skips it, moves its watch or keeps it.
LEMMA VisitFacts ==
  ASSUME Inv, VisitClause
  PROVE  VisitSatisfied \/ \E p, id, d : Visits(p, id, d) /\ (VisitMoves(id, d) \/ VisitKeeps(id, d))
<1>s. PICK p, id, d :
           /\ p \in Lit
           /\ Visits(p, id, d) /\ pc = "bcp"
           /\ i \in 1..Len(wlist[p]) /\ i \in DOMAIN wlist[p] /\ wlist[p][i].cls = id
           /\ VisitsAs(p, wlist[p][i].lit, id, data[id], d)
  BY VisitShape
<1> p \in Lit
  BY <1>s
<1>1. TypeOK /\ ClausesDistinct /\ Watches(wlist, data)
  BY WatchedWatches DEF Inv
<1>2. p = trail[propq + 1].lit /\ propq + 1 \in 1..Len(trail)
  BY <1>s DEF Visits
<1>3. i \in 1..Len(wlist[p]) /\ i \in DOMAIN wlist[p]
  BY <1>s
<1>4. id = wlist[p][i].cls
  BY <1>s
<1>5. id \in DOMAIN data /\ id \in Classes(wlist[p]) /\ wlist[p][i].lit \in Lit /\ id \in Nat
  <2>1. id \in DOMAIN data /\ wlist[p][i].lit \in Lit
    BY <1>1, <1>3, <1>4, WatchTypes
  <2> QED BY <1>1, <1>3, <1>4, <2>1, DataTypes DEF Classes
<1>6. PICK old \in Seq(Lit) : old = data[id] /\ DistinctVars(old) /\ Len(old) >= 2 /\ -p \in {old[1], old[2]}
  BY <1>1, <1>5, DataTypes DEF ClausesDistinct, Watches
<1>7. Len(old) \in Nat /\ 1 \in 1..Len(old) /\ 2 \in 1..Len(old) /\ old[1] \in Lit /\ old[2] \in Lit /\ old[1] # old[2]
  BY <1>6 DEF DistinctVars
<1>9. /\ d \in Seq(Lit) /\ Permuted(old, d) /\ Len(d) = Len(old) /\ d[2] = -p /\ d[1] # -p /\ d[1] \in Lit
      /\ d = old \/ (d[1] = old[2] /\ d[2] = old[1])
  BY <1>6, <1>s DEF Visits, Permuted
<1>10. DistinctVars(d) /\ Range(d) = Range(old) /\ Len(d) >= 2 /\ Len(d) \in Nat
  BY <1>6, <1>7, <1>9 DEF Permuted
<1>11. Visits(p, id, d)
  BY <1>s
<1>12. PICK kept : kept = [wlist EXCEPT ![p][i].lit = IF old[1] = -p THEN d[1] ELSE @]
  OBVIOUS
<1> DEFINE K == {k \in 3..Len(d) : ~IsFalse(trail, d[k])}
           moved == Swap(d, 2, Least(K))
<1>13. IF IsTrue(trail, wlist[p][i].lit)
       THEN i' = i + 1 /\ UNCHANGED <<data, wlist, assignment, conflictClause, pc>>
       ELSE IF K # {}
       THEN /\ data' = [data EXCEPT ![id] = moved]
            /\ wlist' = [wlist EXCEPT ![p] = RemoveAt(@, i),
                                      ![-moved[2]] = Append(@, Watcher(moved, id))]
            /\ UNCHANGED <<i, assignment, conflictClause, pc>>
       ELSE /\ data' = [data EXCEPT ![id] = d]
            /\ wlist' = kept
            /\ IF IsFalse(trail, d[1])
               THEN /\ conflictClause' = id /\ pc' = "conflict" /\ i' = 1
                    /\ UNCHANGED assignment
               ELSE /\ i' = i + 1 /\ UNCHANGED <<conflictClause, pc>>
                    /\ IF IsTrue(trail, d[1]) THEN UNCHANGED assignment
                       ELSE TrailPush(d[1], id)
  BY <1>6, <1>12, <1>s DEF VisitsAs
<1>14. wlist \in [Lit -> Seq(Watchers)] /\ \A l \in Lit : \A y \in Classes(wlist[l]) : data[y] \in Seq(Lit)
  <2>1. \A l \in Lit : wlist[l] \in Seq(Watchers) /\ Classes(wlist[l]) \subseteq DOMAIN data
    BY <1>1, WatchTypes
  <2>2. wlist = [l \in Lit |-> wlist[l]]
    BY <1>1 DEF TypeOK
  <2>3. \A y \in DOMAIN data : data[y] \in Seq(Lit)
    BY <1>1, DataTypes
  <2> QED BY <2>1, <2>2, <2>3
<1>15. CASE IsTrue(trail, wlist[p][i].lit)
  BY <1>5, <1>13, <1>15 DEF VisitSatisfied
<1>16. CASE ~IsTrue(trail, wlist[p][i].lit) /\ K # {}
  <2>1. Least(K) \in K
    <3>1. K \in SUBSET Nat
      OBVIOUS
    <3> HIDE DEF K
    <3> QED BY <1>16, <3>1, LeastFacts
  <2>2. PICK k \in 3..Len(d) : k = Least(K) /\ ~IsFalse(trail, d[k])
    BY <2>1
  <2>3. PICK e : e = Swap(d, 2, k)
    OBVIOUS
  <2>4. k \in 1..Len(d) /\ 2 \in 1..Len(d) /\ k # 2 /\ k # 1
    BY <1>10
  <2>5. /\ e \in Seq(Lit) /\ Len(e) = Len(d) /\ Permuted(d, e)
        /\ e[1] = d[1] /\ e[2] = d[k]
    <3>1. e \in Seq(Lit) /\ Permuted(d, e)
      BY <1>9, <2>3, <2>4, SwapFacts, SwapPermutes
    <3>2. Len(e) = Len(d) /\ e[1] = d[1] /\ e[2] = d[k]
      BY <1>9, <1>10, <2>3, <2>4 DEF Swap
    <3> QED BY <3>1, <3>2
  <2>6. /\ data' = [data EXCEPT ![id] = e] /\ UNCHANGED <<i, assignment, conflictClause, pc>>
        /\ wlist' = [wlist EXCEPT ![p] = RemoveAt(@, i), ![-e[2]] = Append(@, Watcher(e, id))]
    BY <1>13, <1>16, <2>2, <2>3
  <2>7. data'[id] = e /\ \A y : y # id => data'[y] = data[y]
    BY <1>5, <2>6
  <2>8. e[1] \in {old[1], old[2]} /\ e[2] \notin {old[1], old[2]} /\ Range(e) = Range(old) /\ Len(e) = Len(old) /\ e[1] # -p
    <3>1. Range(e) = Range(old)
      BY <1>10, <2>5 DEF Permuted
    <3>2. d[k] # d[1] /\ d[k] # d[2] /\ {d[1], d[2]} = {old[1], old[2]}
      <4>1. VarOf(d[k]) # VarOf(d[1]) /\ VarOf(d[k]) # VarOf(d[2])
        BY <1>9, <1>10, <2>4 DEF DistinctVars
      <4> QED BY <1>9, <4>1
    <3> QED BY <1>9, <2>5, <3>1, <3>2
  <2>9. /\ wlist' \in [Lit -> Seq(Watchers)] /\ Watches(wlist', data')
        /\ \A l \in Lit : Classes(wlist'[l]) \subseteq Classes(wlist[l]) \cup {id}
    <3>1. PICK D : D = data
      OBVIOUS
    <3>2. PICK E : E = data'
      OBVIOUS
    <3>3. PICK u : u = wlist
      OBVIOUS
    <3>4. /\ D[id] = old /\ E[id] = e /\ \A y : y # id => E[y] = D[y]
      BY <1>6, <2>7, <3>1, <3>2
    <3>5. PICK m : m = i
      OBVIOUS
    <3>6. PICK r : r = [u EXCEPT ![p] = RemoveAt(@, m), ![-E[id][2]] = Append(@, Watcher(E[id], id))]
      OBVIOUS
    <3>7. /\ u \in [Lit -> Seq(Watchers)] /\ Watches(u, D) /\ m \in 1..Len(u[p]) /\ id = u[p][m].cls
          /\ \A l \in Lit : \A y \in Classes(u[l]) : D[y] \in Seq(Lit)
      BY <1>1, <1>3, <1>4, <1>14, <3>1, <3>3, <3>5
    <3>8. /\ E[id] \in Seq(Lit) /\ Range(E[id]) = Range(D[id]) /\ Len(E[id]) = Len(D[id])
          /\ E[id][1] \in {D[id][1], D[id][2]} /\ E[id][2] \notin {D[id][1], D[id][2]} /\ E[id][1] # -p
      BY <2>5, <2>8, <3>4
    <3>9. p \in Lit /\ id \in Nat /\ \A y : y # id => E[y] = D[y]
      BY <1>2, <1>5, <3>4
    <3>10. /\ r \in [Lit -> Seq(Watchers)] /\ Watches(r, E)
           /\ \A l \in Lit : Classes(r[l]) \subseteq Classes(u[l]) \cup {id}
      <4>1. MovesWatch(u, D, E, p, m, id)
        BY ONLY <3>7, <3>8, <3>9 DEF MovesWatch
      <4> QED BY ONLY <3>6, <4>1, WatchMoved
    <3> QED BY <2>6, <3>2, <3>3, <3>4, <3>5, <3>6, <3>10
  <2>10. VisitMoves(id, d)
    BY <2>2, <2>3, <2>6, <2>9 DEF VisitMoves, Rewatches
  <2> QED BY <1>11, <2>10
<1>17. CASE ~IsTrue(trail, wlist[p][i].lit) /\ K = {}
  <2>1. \A k \in 3..Len(d) : IsFalse(trail, d[k])
    BY <1>17
  <2>2. data' = [data EXCEPT ![id] = d] /\ wlist' = kept
    BY <1>13, <1>17
  <2>3. data'[id] = d /\ \A y : y # id => data'[y] = data[y]
    BY <1>5, <2>2
  <2>4. /\ wlist' \in [Lit -> Seq(Watchers)] /\ Watches(wlist', data')
        /\ \A l \in Lit : Classes(wlist'[l]) = Classes(wlist[l])
    <3>1. PICK D : D = data
      OBVIOUS
    <3>2. PICK E : E = data'
      OBVIOUS
    <3>3. PICK u : u = wlist
      OBVIOUS
    <3>4. PICK m : m = i
      OBVIOUS
    <3>5. PICK x \in Lit : x = (IF old[1] = -p THEN d[1] ELSE wlist[p][i].lit) /\ x \in Range(old)
      <4>1. d[1] \in Range(old)
        BY <1>7, <1>9 DEF Range
      <4>2. wlist[p][i].lit \in Range(old)
        BY <1>1, <1>3, <1>4, <1>6 DEF Watches, LitsIn
      <4> QED BY <1>5, <1>9, <4>1, <4>2
    <3>6. kept = [u EXCEPT ![p][m].lit = x]
      BY <1>12, <3>3, <3>4, <3>5
    <3>7. /\ D[id] = old /\ E[id] = d /\ \A y : y # id => E[y] = D[y]
      BY <1>6, <2>3, <3>1, <3>2
    <3>8. /\ u \in [Lit -> Seq(Watchers)] /\ Watches(u, D) /\ m \in 1..Len(u[p]) /\ id = u[p][m].cls
          /\ \A l \in Lit : \A y \in Classes(u[l]) : D[y] \in Seq(Lit)
      BY <1>1, <1>3, <1>4, <1>14, <3>1, <3>3, <3>4
    <3>9. /\ Range(E[id]) = Range(D[id]) /\ Len(E[id]) = Len(D[id]) /\ x \in Range(D[id])
          /\ (E[id][1] = D[id][1] /\ E[id][2] = D[id][2]) \/ (E[id][1] = D[id][2] /\ E[id][2] = D[id][1])
      BY <1>9, <1>10, <3>5, <3>7
    <3>10. PICK r : r = [u EXCEPT ![p][m].lit = x]
      OBVIOUS
    <3>11. p \in Lit /\ x \in Lit /\ \A y : y # id => E[y] = D[y]
      BY <1>2, <3>5, <3>7
    <3>12. /\ r \in [Lit -> Seq(Watchers)] /\ Watches(r, E)
           /\ \A l \in Lit : Classes(r[l]) = Classes(u[l])
      <4>1. KeepsWatch(u, D, E, p, m, id, x)
        BY ONLY <3>8, <3>9, <3>11 DEF KeepsWatch
      <4>2. LET v == [u EXCEPT ![p][m].lit = x] IN
            /\ v \in [Lit -> Seq(Watchers)] /\ Watches(v, E)
            /\ \A l \in Lit : Classes(v[l]) = Classes(u[l])
        BY ONLY <4>1, WatchKept, Zenon
      <4> QED BY ONLY <3>10, <4>2, Zenon
    <3> QED BY <2>2, <3>2, <3>3, <3>6, <3>10, <3>12
  <2>5. Rewatches(id, d)
    BY <2>2, <2>4 DEF Rewatches
  <2>6. VisitKeeps(id, d)
    BY <1>13, <1>17, <2>1, <2>5 DEF VisitKeeps, IsUnknown
  <2> QED BY <1>11, <2>6
<1> QED BY <1>15, <1>16, <1>17

\* The propagated part of the trail is a part of the trail.
LEMMA SeenFacts ==
  ASSUME Inv
  PROVE  /\ propq \in 0..Len(trail) /\ propq \in Nat
         /\ \A l : IsTrue(Seen, l) <=> \E k \in 1..propq : trail[k].lit = l
         /\ \A l : IsTrue(trail, l) <=> \E k \in 1..Len(trail) : trail[k].lit = l
         /\ \A l : IsTrue(Seen, l) => IsTrue(trail, l)
<1>1. propq \in 0..Len(trail) /\ trail \in Seq(TrailEntry) /\ DOMAIN trail = 1..Len(trail) /\ Len(trail) \in Nat
  BY InvTrail DEF Inv, TypeOK, Trails
<1>2. PICK s : s = Seen
  OBVIOUS
<1>3. s \in Seq(TrailEntry) /\ Len(s) = propq /\ \A k \in 1..propq : s[k] = trail[k]
  BY <1>1, <1>2, PrefixFacts DEF Seen
<1>4. DOMAIN s = 1..propq
  BY <1>1, <1>3
<1>5. \A l : IsTrue(Seen, l) <=> \E k \in 1..propq : trail[k].lit = l
  BY <1>2, <1>3, <1>4 DEF IsTrue
<1>6. \A l : IsTrue(trail, l) <=> \E k \in 1..Len(trail) : trail[k].lit = l
  BY <1>1 DEF IsTrue
<1>7. \A l : IsTrue(Seen, l) => IsTrue(trail, l)
  BY <1>1, <1>5, <1>6
<1> QED BY <1>1, <1>5, <1>6, <1>7

-----------------------------------------------------------------------------
(* propagateFacts takes a fact.                                             *)

\* The facts that are waiting are clauses of one literal or more.
LEMMA FactFacts ==
  ASSUME Inv, NEW n \in 1..Len(facts)
  PROVE  /\ facts[n] \in DOMAIN data /\ facts[n] # NULL /\ facts[n] \in Range(facts) /\ IsFact(facts[n])
         /\ data[facts[n]] \in Seq(Lit) /\ Len(data[facts[n]]) \in Nat /\ Len(data[facts[n]]) >= 1
         /\ DistinctVars(data[facts[n]])
         /\ \A m \in 1..Len(data[facts[n]]) : data[facts[n]][m] \in Lit
<1>1. TypeOK /\ facts \in Seq(DOMAIN data) /\ ClausesDistinct
  BY DEF Inv, TypeOK
<1>2. facts[n] \in DOMAIN data /\ n \in DOMAIN facts
  BY <1>1
<1>3. facts[n] \in Range(facts) /\ IsFact(facts[n])
  BY <1>2 DEF Range, IsFact
<1>4. PICK d \in Seq(Lit) : d = data[facts[n]]
  BY <1>1, <1>2, DataTypes
<1>5. d # <<>> /\ DistinctVars(d)
  BY <1>1, <1>2, <1>3, <1>4 DEF Inv, FactsDiffer, ClausesDistinct
<1>6. Len(d) \in Nat /\ Len(d) >= 1 /\ \A m \in 1..Len(d) : d[m] \in Lit
  BY <1>5
<1>7. facts[n] # NULL
  BY <1>1, <1>2, DataTypes DEF NULL
<1> QED BY <1>2, <1>3, <1>4, <1>5, <1>6, <1>7

\* A fact whose other literals bcp has seen false has a first literal that is
\* unassigned: the facts imply different literals, and never opposite ones.
LEMMA FirstUnassigned ==
  ASSUME Inv, pc = "facts", NEW n \in 1..Len(facts), n >= i,
         \A m \in 2..Len(data[facts[n]]) : IsFalse(Seen, data[facts[n]][m])
  PROVE  IsUnknown(trail, data[facts[n]][1])
<1>1. PICK g \in DOMAIN data : g = facts[n] /\ g \in Range(facts) /\ IsFact(g) /\ data[g][1] \in Lit /\ Len(data[g]) \in Nat
  BY FactFacts
<1>2. i \in Nat /\ Propagating /\ FactsDiffer /\ Placed /\ TrailJustified
  BY DEF Inv, TypeOK
<1>3. IsUnknown(Seen, data[g][1]) /\ ~(n < i)
  <2>1. ~(n < i)
    BY <1>2
  <2> QED BY <1>1, <1>2, <2>1 DEF Propagating, Ready
<1>4. SUFFICES ASSUME ~IsUnknown(trail, data[g][1]) PROVE FALSE
  BY <1>1
<1>5. PICK k \in (propq + 1)..Len(trail) : trail[k].lit = data[g][1] \/ trail[k].lit = -data[g][1]
  <2>1. PICK k \in 1..Len(trail) : trail[k].lit = data[g][1] \/ trail[k].lit = -data[g][1]
    BY <1>4, SeenFacts DEF IsUnknown, IsFalse
  <2>2. ~(k <= propq)
    BY <1>3, <2>1, SeenFacts DEF IsUnknown, IsFalse
  <2>3. k \in (propq + 1)..Len(trail)
    BY <2>2, SeenFacts
  <2> QED BY <2>1, <2>3
<1>6. PICK m \in 1..Len(facts) : m < i /\ trail[k].reason = facts[m]
  BY <1>2 DEF Propagating
<1>7. PICK f \in DOMAIN data : f = facts[m] /\ f \in Range(facts) /\ IsFact(f) /\ f # NULL /\ Len(data[f]) \in Nat
  BY FactFacts
<1>8. data[f][1] = trail[k].lit
  <2>1. k \in DOMAIN trail
    BY SeenFacts, InvTrail
  <2> QED BY <1>2, <1>6, <1>7, <2>1 DEF TrailJustified
<1>9. CASE trail[k].lit = data[g][1]
  <2>1. f = g
    BY <1>1, <1>2, <1>7, <1>8, <1>9 DEF FactsDiffer
  <2>2. m \in DOMAIN facts /\ n \in DOMAIN facts
    <3>1. facts \in Seq(DOMAIN data)
      BY DEF Inv, TypeOK
    <3> QED BY <3>1
  <2>3. m = n
    BY <1>1, <1>2, <1>7, <2>1, <2>2 DEF Placed
  <2> QED BY <1>3, <1>6, <2>3
<1>10. CASE trail[k].lit = -data[g][1]
  <2>1. data[f][1] = -data[g][1]
    BY <1>8, <1>10
  <2>2. PICK l \in Rest(f) \cup Rest(g) : IsUnknown(Seen, l)
    BY <1>1, <1>2, <1>7, <2>1 DEF Propagating
  <2>3. ImpliedFact(f)
    BY <1>2, <1>6, <1>7 DEF Propagating
  <2>4. IsFalse(Seen, l)
    BY <1>1, <2>2, <2>3 DEF ImpliedFact, Rest
  <2> QED BY <2>2, <2>4 DEF IsUnknown
<1> QED BY <1>5, <1>9, <1>10

FactIsWatched(id, d) ==
  /\ Len(d) >= 2 /\ IsUnknown(Seen, d[1]) /\ IsUnknown(Seen, d[2])
  /\ wlist' = Watch(wlist, d, id) /\ facts' = RemoveAt(facts, i)
  /\ UNCHANGED <<data, assignment, i, conflictClause, pc>>
FactIsImplied(id, d) ==
  /\ IsUnknown(trail, d[1]) /\ SecondLast(d)
  /\ \A n \in 2..Len(d) : IsFalse(Seen, d[n])
  /\ TrailPush(d[1], id) /\ i' = i + 1
  /\ UNCHANGED <<data, wlist, facts, conflictClause, pc>>

\* A fact of two or more literals is watched, and every fact that can be is implied.
LEMMA PropagateFactCases ==
  ASSUME Inv, PropagateFact
  PROVE  /\ pc = "facts" /\ i \in 1..Len(facts)
         /\ FactIsWatched(facts[i], data[facts[i]]) \/ FactIsImplied(facts[i], data[facts[i]])
<1>1. pc = "facts" /\ i \in 1..Len(facts)
  <2>1. i \in Nat \ {0} /\ facts \in Seq(DOMAIN data)
    BY DEF Inv, TypeOK
  <2> QED BY <2>1 DEF PropagateFact
<1>2. PICK d \in Seq(Lit) : d = data[facts[i]] /\ Len(d) \in Nat /\ Len(d) >= 1 /\ \A m \in 1..Len(d) : d[m] \in Lit
  BY <1>1, FactFacts
<1>3. Propagating /\ i \in Nat /\ data \in Seq(Seq(Lit))
  BY DEF Inv, TypeOK
<1>4. /\ IsUnknown(Seen, d[1])
      /\ \A n \in 2..Len(d) : ~IsTrue(Seen, d[n])
      /\ Len(d) >= 2 /\ IsFalse(Seen, d[2]) =>
           \A n \in 3..Len(d) : LevelOf(VarOf(d[n])) <= LevelOf(VarOf(d[2])) /\ IsFalse(Seen, d[n])
  <2>1. ~(i < i)
    BY <1>3
  <2> QED BY <1>1, <1>2, <1>3, <2>1 DEF Propagating, Ready
<1>5. (\A n \in 2..Len(d) : IsFalse(Seen, d[n])) => IsUnknown(trail, d[1])
  BY <1>1, <1>2, <1>3, FirstUnassigned
<1>6. [data EXCEPT ![facts[i]] = d] = data
  BY <1>2, <1>3
<1>7. d # <<>>
  BY <1>2
<1>8. CASE Len(d) = 1
  <2>1. \A n \in 2..Len(d) : FALSE
    BY <1>8
  <2>2. IsUnknown(trail, d[1]) /\ SecondLast(d) /\ \A n \in 2..Len(d) : IsFalse(Seen, d[n])
    <3>1. \A n \in 3..Len(d) : FALSE
      BY <1>8
    <3> QED BY <1>5, <2>1, <3>1 DEF SecondLast
  <2>3. ShortFact(d)
    BY <1>2, <1>8 DEF PropagateFact
  <2>4. ~IsFalse(trail, d[1]) /\ ~IsTrue(trail, d[1])
    BY <2>2 DEF IsUnknown
  <2>5. FactImplies(d)
    <3> HIDE DEF FactImplies
    <3> QED BY <1>7, <2>2, <2>3, <2>4 DEF ShortFact
  <2> QED BY <1>1, <1>2, <1>6, <2>2, <2>5 DEF FactIsImplied, FactImplies
<1>9. CASE Len(d) >= 2
  <2>1. LongFact(d)
    BY <1>2, <1>9 DEF PropagateFact
  <2>2. d[1] \in Lit /\ d[2] \in Lit /\ ~IsTrue(Seen, d[1]) /\ ~IsFalse(Seen, d[1]) /\ ~IsTrue(Seen, d[2])
    BY <1>2, <1>4, <1>9 DEF IsUnknown
  <2>3. CASE IsFalse(Seen, d[2])
    <3>1. SecondLast(d) /\ \A n \in 2..Len(d) : IsFalse(Seen, d[n])
      <4>1. \A n \in 2..Len(d) : n = 2 \/ n \in 3..Len(d)
        BY <1>2
      <4> QED BY <1>4, <1>9, <2>3, <4>1 DEF SecondLast
    <3>2. IsUnknown(trail, d[1]) /\ ~IsFalse(trail, d[1])
      BY <1>5, <3>1 DEF IsUnknown
    <3>3. FactImplies(d)
      <4>1. IsUnknown(Seen, d[1]) /\ ~IsUnknown(Seen, d[2])
        BY <2>2, <2>3 DEF IsUnknown
      <4> QED BY <2>1, <2>2, <2>3, <3>2, <4>1 DEF LongFact, FactWatched, FactKept, FactImplies, FactConflict, IsTrue, IsUnknown, IsFalse
    <3>4. FactIsImplied(facts[i], d)
      BY <1>6, <3>1, <3>2, <3>3 DEF FactIsImplied, FactImplies
    <3> QED BY <1>1, <1>2, <3>4
  <2>4. CASE ~IsFalse(Seen, d[2])
    <3>1. IsUnknown(Seen, d[1]) /\ IsUnknown(Seen, d[2])
      BY <2>2, <2>4 DEF IsUnknown
    <3>2. FactWatched(d)
      BY <2>1, <2>2, <2>4, <3>1 DEF LongFact, FactWatched, FactKept, FactImplies, FactConflict, IsTrue, IsUnknown, IsFalse
    <3>3. FactIsWatched(facts[i], d)
      BY <1>9, <3>1, <3>2 DEF FactIsWatched, FactWatched
    <3> QED BY <1>1, <1>2, <3>3
  <2> QED BY <2>3, <2>4
<1>10. \A n \in Nat : n >= 1 => n = 1 \/ n >= 2
  OBVIOUS
<1> QED BY <1>2, <1>8, <1>9, <1>10, Zenon

-----------------------------------------------------------------------------
(* The steps by what they do to the trail.                                  *)

Stays ==
  /\ UNCHANGED <<trail, decisionLevel, numVars>>
  /\ propq' = propq \/ (propq' = propq + 1 /\ propq + 1 <= Len(trail))
  /\ heap' = heap \/ (heap' = {} /\ Free = {})
NewLit(l) == l \in Lit /\ IsUnknown(trail, l) /\ VarOf(l) \in 1..numVars
Implies(l, id) ==
  /\ id \in DOMAIN data /\ data'[id] \in Seq(Lit) /\ data'[id][1] = l /\ Len(data'[id]) >= 1
  /\ \A n \in 2..Len(data'[id]) : IsFalse(trail, data'[id][n])
PushesImplied ==
  \E l, id : /\ NewLit(l) /\ Implies(l, id)
             /\ TrailPush(l, id) /\ numVars' = numVars
PushesDecision ==
  \E v \in Free : /\ NewLit(-v) /\ propq = Len(trail) /\ UNCHANGED <<propq, numVars, unit_facts, data>>
                  /\ trail' = Append(trail, [lit |-> -v, level |-> decisionLevel + 1, reason |-> NULL, decision |-> TRUE])
                  /\ decisionLevel' = decisionLevel + 1
                  /\ \E D \in SUBSET (heap \ Free) : heap' = heap \ (D \cup {v})
Pops == trail # <<>> /\ TrailPop /\ numVars' = numVars

\* Visiting a watcher implies at most one literal.
LEMMA VisitPushes ==
  ASSUME Inv, VisitClause
  PROVE  Stays \/ PushesImplied
<1>1. numVars' = numVars
  BY Zenon DEF VisitClause
<1>2. CASE UNCHANGED assignment
  BY <1>1, <1>2 DEF Stays, assignment
<1>3. CASE ~UNCHANGED assignment
  <2>1. PICK p, id, d : Visits(p, id, d) /\ VisitKeeps(id, d) /\ IsUnknown(trail, d[1]) /\ TrailPush(d[1], id)
    BY <1>3, VisitFacts DEF VisitSatisfied, VisitMoves, VisitKeeps
  <2>2. TypeOK /\ Allocated
    BY DEF Inv
  <2>3. /\ id \in DOMAIN data /\ d \in Seq(Lit) /\ Permuted(data[id], d) /\ Len(d) >= 2 /\ d[2] = -p
        /\ propq + 1 \in 1..Len(trail) /\ p = trail[propq + 1].lit /\ p \in Lit
    BY <2>1 DEF Visits
  <2>4. data'[id] = d
    <3>1. data' = [data EXCEPT ![id] = d]
      BY <2>1 DEF VisitKeeps, Rewatches
    <3> QED BY <2>2, <2>3, <3>1 DEF TypeOK
  <2>5. Len(d) \in Nat /\ d[1] \in Lit /\ 1 \in 1..Len(d) /\ Len(d) >= 1
    BY <2>3
  <2>6. VarOf(d[1]) \in 1..numVars
    <3>1. VarsOf(data[id]) \subseteq 1..numVars
      BY <2>2, <2>3 DEF Allocated
    <3>2. d[1] \in Range(data[id])
      <4>1. d[1] \in Range(d) /\ Range(data[id]) = Range(d)
        BY <2>3, <2>5, RangeFacts DEF Permuted
      <4> QED BY <4>1
    <3>3. VarsOf(data[id]) = {VarOf(l) : l \in Range(data[id])}
      BY <2>2, <2>3, DataTypes, VarsOfFacts
    <3> QED BY <3>1, <3>2, <3>3
  <2>7. \A n \in 2..Len(d) : IsFalse(trail, d[n])
    <3>1. IsFalse(trail, d[2])
      <4>1. -(-p) = p /\ propq + 1 \in DOMAIN trail
        BY <2>3, LitFacts, InvTrail
      <4> QED BY <2>3, <4>1 DEF IsFalse, IsTrue
    <3>2. \A n \in 2..Len(d) : n = 2 \/ n \in 3..Len(d)
      BY <2>5
    <3> QED BY <2>1, <3>1, <3>2 DEF VisitKeeps
  <2>8. NewLit(d[1]) /\ Implies(d[1], id)
    BY <2>1, <2>3, <2>4, <2>5, <2>6, <2>7 DEF NewLit, Implies
  <2> QED BY <1>1, <2>1, <2>8 DEF PushesImplied
<1> QED BY <1>2, <1>3

\* Propagating a fact implies at most one literal.
LEMMA PropagatePushes ==
  ASSUME Inv, PropagateFact
  PROVE  Stays \/ PushesImplied
<1>1. numVars' = numVars
  BY DEF PropagateFact
<1>2. i \in 1..Len(facts)
  BY PropagateFactCases
<1>3. CASE FactIsWatched(facts[i], data[facts[i]])
  BY <1>1, <1>3 DEF FactIsWatched, Stays, assignment
<1>4. CASE FactIsImplied(facts[i], data[facts[i]])
  <2>1. PICK id \in DOMAIN data : id = facts[i]
    BY <1>2, FactFacts
  <2>2. PICK d \in Seq(Lit) : d = data[id] /\ Len(d) \in Nat /\ Len(d) >= 1 /\ 1 \in 1..Len(d) /\ d[1] \in Lit
    <3>1. data[id] \in Seq(Lit) /\ Len(data[id]) \in Nat /\ Len(data[id]) >= 1
      BY <1>2, <2>1, FactFacts
    <3> QED BY <3>1
  <2>3. /\ IsUnknown(trail, d[1]) /\ TrailPush(d[1], id) /\ data' = data
        /\ \A n \in 2..Len(d) : IsFalse(Seen, d[n])
    BY <1>4, <2>1, <2>2 DEF FactIsImplied
  <2>4. \A n \in 2..Len(d) : IsFalse(trail, d[n])
    BY <2>3, SeenFacts DEF IsFalse
  <2>5. VarOf(d[1]) \in 1..numVars
    BY <2>1, <2>2 DEF Inv, Allocated, VarsOf
  <2>6. NewLit(d[1]) /\ Implies(d[1], id)
    BY <2>1, <2>2, <2>3, <2>4, <2>5 DEF NewLit, Implies
  <2> QED BY <1>1, <2>3, <2>6 DEF PushesImplied
<1> QED BY <1>3, <1>4, PropagateFactCases

\* A decision opens a level.
LEMMA DecidePushes ==
  ASSUME Inv, Decide
  PROVE  PushesDecision
<1>1. PICK v \in Free, D \in SUBSET (heap \ Free) :
        /\ heap' = heap \ (D \cup {v})
        /\ trail' = Append(trail, [lit |-> -v, level |-> decisionLevel + 1, reason |-> NULL, decision |-> TRUE])
  BY DEF Decide
<1>2. propq = Len(trail) /\ decisionLevel' = decisionLevel + 1 /\ UNCHANGED <<propq, numVars, unit_facts, data>>
  BY DEF Decide, clauses
<1>3. v \in 1..numVars /\ v \in Var /\ IsUnknown(trail, v)
  <2>1. heap \subseteq 1..numVars /\ numVars \in 0..MaxVar
    BY DEF Inv, TypeOK
  <2> QED BY <2>1, MaxVarAssumption DEF Free, Var
<1>4. NewLit(-v)
  <2>1. v \in Lit /\ -v \in Lit /\ VarOf(-v) = v /\ -(-v) = v
    BY <1>3, LitFacts
  <2> QED BY <1>3, <2>1 DEF NewLit, IsUnknown, IsFalse
<1> QED BY <1>1, <1>2, <1>4 DEF PushesDecision

\* A step leaves the trail, grows it by one, pops one, or goes back to level 0.
LEMMA TrailStep ==
  ASSUME Inv, Next
  PROVE  Stays \/ PushesImplied \/ PushesDecision \/ Pops \/ (AtRoot /\ pc \in {"idle", "bcp"} /\ pc' \in {"idle", "bcp"})
<1>1. CASE Calls
  <2>1. ASSUME NEW c \in Inputs, AddClause(c) PROVE AtRoot /\ pc = "idle" /\ pc' = "idle"
    BY <2>1, AddClauseRoot DEF AddClause
  <2>2. ASSUME NEW p \in Queries, PushAssumption(p) PROVE AtRoot /\ pc = "idle" /\ pc' = "idle"
    BY <2>2, PushAssumptionFacts DEF PushAssumption
  <2>3. ASSUME NEW num \in 1..MaxAssumptions, PopAssumptions(num) PROVE AtRoot /\ pc = "idle" /\ pc' = "idle"
    BY <2>3, PopAssumptionsFacts DEF PopAssumptions, AtRoot
  <2>4. ASSUME Solve PROVE Stays \/ (AtRoot /\ pc = "idle" /\ pc' = "bcp")
    <3>1. CASE conflictClause # NULL /\ data[conflictClause] = <<>>
      BY <2>4, <3>1 DEF Solve, Stays, assignment, clauses
    <3>2. CASE ~(conflictClause # NULL /\ data[conflictClause] = <<>>)
      BY <2>4, <3>2, BacktrackRoot DEF Solve
    <3> QED BY <3>1, <3>2
  <2> QED BY <1>1, <2>1, <2>2, <2>3, <2>4 DEF Calls
<1>2. CASE VisitClause
  BY <1>2, VisitPushes
<1>3. CASE NextLiteral
  <2>1. propq + 1 <= Len(trail)
    <3>1. propq \in Nat /\ Len(trail) \in Nat
      BY SeenFacts, InvTrail
    <3> QED BY <1>3, <3>1 DEF NextLiteral
  <2> QED BY <1>3, <2>1 DEF NextLiteral, Stays, clauses
<1>4. CASE Restart
  BY <1>4, BacktrackRoot DEF Restart
<1>5. CASE Decide
  BY <1>5, DecidePushes
<1>6. CASE Satisfied
  BY <1>6 DEF Satisfied, Stays, clauses
<1>7. CASE Conflict
  BY <1>7 DEF Conflict, Stays, assignment, clauses
<1>8. CASE SkipLiteral
  BY <1>8 DEF SkipLiteral, Pops, clauses
<1>9. CASE ResolveReason
  BY <1>9 DEF ResolveReason, Pops, clauses
<1>10. CASE Recount
  BY <1>10 DEF Recount, Stays, assignment, clauses
<1>11. CASE Learn
  BY <1>11 DEF Learn, Stays
<1>12. CASE Undo
  BY <1>12 DEF Undo, Pops, clauses
<1>13. CASE Refuted
  BY <1>13 DEF Refuted, Stays, assignment
<1>14. CASE FactsDone
  BY <1>14 DEF FactsDone, Stays, clauses
<1>15. CASE PropagateFact
  BY <1>15, PropagatePushes
<1> QED BY <1>1, <1>2, <1>3, <1>4, <1>5, <1>6, <1>7, <1>8, <1>9, <1>10, <1>11, <1>12, <1>13, <1>14, <1>15
     DEF Next, Engine

\* What every step leaves of the trail.
TrailGood ==
  /\ trail' \in Trails /\ Leveled(trail', decisionLevel') /\ OncePerVariable(trail')
  /\ propq' \in 0..Len(trail') /\ decisionLevel' \in Nat
  /\ \A k \in 1..Len(trail') : VarOf(trail'[k].lit) \in 1..numVars'
  /\ \A k \in 1..Len(trail') : trail'[k].level > 0 => (trail'[k].decision <=> trail'[k].reason = NULL)
  /\ \A k \in 1..Len(trail') : trail'[k].decision => trail'[k].level > 0 /\ trail'[k].reason = NULL
  /\ \A k \in (propq' + 1)..Len(trail') : trail'[k].level = decisionLevel'

\* Reasons and levels of the entries of a state that satisfies the invariant.
LEMMA TrailNow ==
  ASSUME Inv
  PROVE  /\ \A k \in 1..Len(trail) : VarOf(trail[k].lit) \in 1..numVars
         /\ \A k \in 1..Len(trail) : trail[k].level > 0 => (trail[k].decision <=> trail[k].reason = NULL)
         /\ \A k \in 1..Len(trail) : trail[k].decision => trail[k].level > 0 /\ trail[k].reason = NULL
         /\ \A k \in (propq + 1)..Len(trail) : trail[k].level = decisionLevel
<1>1. Allocated /\ Reasons /\ UnseenCurrent /\ DOMAIN trail = 1..Len(trail)
  BY InvTrail DEF Inv
<1>2. \A k \in 1..Len(trail) : trail[k].decision => trail[k].level > 0
  <2>1. \A k \in 1..Len(trail) : trail[k].level \in Nat /\ (trail[k].decision => trail[k].level >= 1)
    BY InvLevels
  <2> QED BY <2>1
<1> QED BY <1>1, <1>2 DEF Allocated, Reasons, UnseenCurrent

\* An unchanged trail stays good.
LEMMA StaysGood ==
  ASSUME Inv, Stays
  PROVE  TrailGood
<1>1. UNCHANGED <<trail, decisionLevel, numVars>> /\ (propq' = propq \/ (propq' = propq + 1 /\ propq + 1 <= Len(trail)))
  BY DEF Stays
<1>2. propq \in 0..Len(trail) /\ Len(trail) \in Nat /\ propq' \in 0..Len(trail) /\ propq <= propq'
  BY <1>1, InvTrail, SeenFacts
<1>3. trail \in Trails /\ Leveled(trail, decisionLevel) /\ OncePerVariable(trail) /\ decisionLevel \in Nat
  BY InvTrail, InvLevels
<1>4. \A k \in (propq' + 1)..Len(trail) : trail[k].level = decisionLevel
  <2>1. \A k \in (propq' + 1)..Len(trail) : k \in (propq + 1)..Len(trail)
    <3>1. propq \in Nat /\ propq' \in Nat /\ propq <= propq' /\ Len(trail) \in Nat
      BY <1>2
    <3>2. \A a, b, c \in Nat : a <= b => \A k \in (b + 1)..c : k \in (a + 1)..c
      OBVIOUS
    <3> QED BY <3>1, <3>2
  <2> QED BY <2>1, TrailNow
<1> QED BY <1>1, <1>2, <1>3, <1>4, TrailNow DEF TrailGood

\* One more literal.
PushedGood(e) ==
  /\ e \in TrailEntry /\ NewLit(e.lit) /\ e.level = decisionLevel + (IF e.decision THEN 1 ELSE 0)
  /\ e.decision <=> e.reason = NULL
  /\ e.decision => propq = Len(trail)
  /\ trail' = Append(trail, e) /\ decisionLevel' = e.level /\ propq' = propq /\ numVars' = numVars

\* An entry that is good keeps the trail good.
LEMMA PushGood ==
  ASSUME Inv, NEW e, PushedGood(e)
  PROVE  TrailGood
<1>1. /\ e \in TrailEntry /\ NewLit(e.lit) /\ e.level = decisionLevel + (IF e.decision THEN 1 ELSE 0)
      /\ trail' = Append(trail, e) /\ decisionLevel' = e.level /\ propq' = propq /\ numVars' = numVars
      /\ (e.decision <=> e.reason = NULL) /\ (e.decision => propq = Len(trail))
  BY DEF PushedGood
<1>2. /\ trail \in Trails /\ Leveled(trail, decisionLevel) /\ OncePerVariable(trail) /\ Len(trail) \in Nat
      /\ propq \in 0..Len(trail) /\ propq \in Nat /\ decisionLevel \in Nat
  BY InvTrail, InvLevels, SeenFacts
<1>3. PICK n \in Nat : n = Len(trail)
  BY <1>2
<1>4. /\ trail' \in Trails /\ Leveled(trail', e.level)
  BY <1>1, <1>2, LeveledAppend
<1>5. /\ Len(trail') = n + 1 /\ trail'[n + 1] = e /\ \A k \in 1..n : trail'[k] = trail[k]
  BY <1>1, <1>2, <1>3 DEF Trails
<1>6. \A k \in 1..(n + 1) : k \in 1..n \/ k = n + 1
  BY <1>3
<1>7. DOMAIN trail' = 1..(n + 1) /\ DOMAIN trail = 1..n
  BY <1>2, <1>3, <1>4, <1>5, TrailTypes
<1>8. e.lit \in Lit /\ VarOf(e.lit) \in 1..numVars /\ \A j \in 1..n : VarOf(trail[j].lit) # VarOf(e.lit)
  BY <1>1, <1>2, <1>3, TrailsUnknown DEF NewLit
<1>9. OncePerVariable(trail')
  <2> SUFFICES ASSUME NEW k \in 1..(n + 1), NEW j \in 1..(k - 1)
               PROVE  VarOf(trail'[j].lit) # VarOf(trail'[k].lit)
    BY <1>7 DEF OncePerVariable
  <2>1. j \in 1..n
    BY <1>3
  <2>2. CASE k \in 1..n
    BY <1>2, <1>5, <1>7, <2>1, <2>2 DEF OncePerVariable
  <2>3. CASE k = n + 1
    BY <1>5, <1>8, <2>1, <2>3
  <2> QED BY <1>6, <2>2, <2>3
<1>10. e.level \in Nat /\ (e.decision => e.level > 0)
  BY <1>1, <1>2
<1>11. \A k \in (propq + 1)..(n + 1) : trail'[k].level = e.level
  <2> SUFFICES ASSUME NEW k \in (propq + 1)..(n + 1) PROVE trail'[k].level = e.level
    OBVIOUS
  <2>1. CASE k = n + 1
    BY <1>5, <2>1
  <2>2. CASE k # n + 1
    <3>1. k \in (propq + 1)..Len(trail) /\ k \in 1..n /\ ~e.decision
      BY <1>1, <1>2, <1>3, <2>2
    <3> QED BY <1>1, <1>2, <1>5, <3>1, TrailNow
  <2> QED BY <2>1, <2>2
<1>12. /\ \A k \in 1..(n + 1) : VarOf(trail'[k].lit) \in 1..numVars
       /\ \A k \in 1..(n + 1) : trail'[k].level > 0 => (trail'[k].decision <=> trail'[k].reason = NULL)
       /\ \A k \in 1..(n + 1) : trail'[k].decision => trail'[k].level > 0 /\ trail'[k].reason = NULL
  <2>1. \A k \in 1..n : VarOf(trail'[k].lit) \in 1..numVars
    BY <1>3, <1>5, TrailNow
  <2>2. \A k \in 1..n : trail'[k].level > 0 => (trail'[k].decision <=> trail'[k].reason = NULL)
    BY <1>3, <1>5, TrailNow
  <2>3. \A k \in 1..n : trail'[k].decision => trail'[k].level > 0 /\ trail'[k].reason = NULL
    BY <1>3, <1>5, TrailNow
  <2> QED BY <1>1, <1>5, <1>6, <1>8, <1>10, <2>1, <2>2, <2>3
<1>13. propq \in 0..(n + 1)
  BY <1>2, <1>3
<1> QED BY <1>1, <1>4, <1>5, <1>9, <1>10, <1>11, <1>12, <1>13 DEF TrailGood

\* What a pop takes is the top entry, which is at the current level.
LEMMA PopFacts ==
  ASSUME Inv, Pops
  PROVE  /\ trail' \in Trails /\ Len(trail') = Len(trail) - 1 /\ Len(trail) \in Nat \ {0}
         /\ \A k \in 1..(Len(trail) - 1) : trail'[k] = trail[k] /\ k \in 1..Len(trail)
         /\ Top = trail[Len(trail)] /\ Len(trail) \in 1..Len(trail)
         /\ Top \in TrailEntry /\ Top.lit \in Lit /\ Top.level = decisionLevel /\ TopVar \in Var /\ TopVar \in 1..numVars
         /\ Top.level > 0 => (Top.decision <=> Top.reason = NULL)
         /\ Top.decision => Top.level > 0
         /\ \A k \in 1..(Len(trail) - 1) : VarOf(trail[k].lit) # TopVar
<1>1. trail \in Trails /\ trail # <<>> /\ trail' = Front(trail) /\ Len(trail) \in Nat
  BY InvTrail DEF Pops, TrailPop
<1>2. trail' \in Trails /\ Len(trail') = Len(trail) - 1 /\ Len(trail) \in Nat \ {0} /\ \A k \in 1..(Len(trail) - 1) : trail'[k] = trail[k]
  BY <1>1, FrontFacts DEF Trails
<1>3. \A k \in 1..(Len(trail) - 1) : k \in 1..Len(trail) /\ k # Len(trail)
  BY <1>2
<1>4. Len(trail) \in 1..Len(trail)
  BY <1>2
<1>5. Top \in TrailEntry /\ Top.lit \in Lit /\ Top.level = decisionLevel /\ VarOf(Top.lit) \in 1..numVars
  BY <1>1, <1>4, InvTrail, InvLevels, TrailNow DEF Top
<1>6. TopVar \in Var /\ TopVar \in 1..numVars
  BY <1>5, LitFacts DEF TopVar
<1>7. (Top.level > 0 => (Top.decision <=> Top.reason = NULL)) /\ (Top.decision => Top.level > 0)
  BY <1>4, TrailNow DEF Top
<1>8. \A k \in 1..(Len(trail) - 1) : VarOf(trail[k].lit) # TopVar
  BY <1>3, <1>4, InvTrail DEF Top, TopVar
<1> QED BY <1>2, <1>3, <1>4, <1>5, <1>6, <1>7, <1>8 DEF Top

\* A pop keeps the trail good.
LEMMA PopsGood ==
  ASSUME Inv, Pops
  PROVE  TrailGood
<1>1. PICK n \in Nat : n + 1 = Len(trail) /\ n = Len(trail) - 1
  <2>1. Len(trail) - 1 \in Nat /\ (Len(trail) - 1) + 1 = Len(trail)
    BY PopFacts
  <2> QED BY <2>1, Zenon
<1>2. /\ trail' \in Trails /\ Len(trail') = n /\ n + 1 \in 1..(n + 1)
      /\ \A k \in 1..n : trail'[k] = trail[k] /\ k \in 1..(n + 1)
      /\ Top = trail[n + 1] /\ Top \in TrailEntry /\ Top.level = decisionLevel
  BY <1>1, PopFacts, Zenon
<1>3. /\ trail \in Trails /\ Leveled(trail, decisionLevel) /\ OncePerVariable(trail)
      /\ propq \in 0..(n + 1) /\ decisionLevel \in Nat
  BY <1>1, InvTrail, InvLevels, SeenFacts
<1>4. /\ decisionLevel' = decisionLevel - (IF Top.decision THEN 1 ELSE 0) /\ numVars' = numVars
      /\ propq' = IF propq >= n + 1 THEN n ELSE propq
  BY <1>1 DEF Pops, TrailPop
<1>5. propq' \in 0..n /\ (propq' = propq \/ propq' = n)
  BY <1>3, <1>4
<1>6. Leveled(trail', decisionLevel') /\ decisionLevel' \in Nat
  <2>1. Leveled(trail', IF n = 0 THEN 0 ELSE trail[n].level)
    <3>1. n \in 0..Len(trail) /\ n \in 0..(n + 1)
      BY <1>1
    <3>2. PICK u \in Trails : u = trail'
      BY <1>2
    <3>3. Len(u) = n /\ \A k \in 1..n : u[k] = trail[k]
      BY <1>2, <3>2
    <3>4. Leveled(u, IF n = 0 THEN 0 ELSE trail[n].level)
      BY <1>3, <3>1, <3>3, LeveledPrefix
    <3> QED BY <3>2, <3>4
  <2>2. decisionLevel' = IF n = 0 THEN 0 ELSE trail[n].level
    <3>1. Top.level = Cardinality(DecisionsTo(trail, n + 1))
      BY <1>1, <1>2, <1>3 DEF Leveled
    <3>2. Cardinality(DecisionsTo(trail, n + 1)) = Cardinality(DecisionsTo(trail, n)) + (IF Top.decision THEN 1 ELSE 0)
      <4>1. Cardinality(DecisionsTo(trail, n + 1)) = Cardinality(DecisionsTo(trail, (n + 1) - 1)) + (IF trail[n + 1].decision THEN 1 ELSE 0)
        BY DecisionsStep
      <4>2. (n + 1) - 1 = n
        OBVIOUS
      <4> QED BY <1>2, <4>1, <4>2
    <3>3. Cardinality(DecisionsTo(trail, n)) = IF n = 0 THEN 0 ELSE trail[n].level
      <4>1. n # 0 => n \in 1..Len(trail)
        BY <1>1
      <4> QED BY <1>3, <4>1, DecisionsNone DEF Leveled
    <3>4. Cardinality(DecisionsTo(trail, n)) \in Nat
      BY DecisionsFinite
    <3>5. decisionLevel' = Cardinality(DecisionsTo(trail, n))
      BY <1>2, <1>3, <1>4, <3>1, <3>2, <3>4
    <3> QED BY <3>3, <3>5
  <2>3. decisionLevel' \in Nat
    <3>1. Top.decision => Top.level > 0
      BY PopFacts
    <3> QED BY <1>2, <1>3, <1>4, <3>1
  <2> QED BY <2>1, <2>2, <2>3
<1>7. OncePerVariable(trail')
  <2>1. DOMAIN trail' = 1..n /\ DOMAIN trail = 1..(n + 1)
    BY <1>1, <1>2, <1>3, TrailTypes
  <2>2. \A k \in 1..n : \A j \in 1..(k - 1) : j \in 1..n
    OBVIOUS
  <2> QED BY <1>2, <1>3, <2>1, <2>2 DEF OncePerVariable
<1>8. \A k \in (propq' + 1)..n : trail'[k].level = decisionLevel'
  <2> SUFFICES ASSUME NEW k \in (propq' + 1)..n PROVE trail'[k].level = decisionLevel'
    OBVIOUS
  <2>1. k \in (propq + 1)..Len(trail) /\ k \in 1..n /\ k < n + 1 /\ n + 1 \in 1..Len(trail) /\ k \in 1..Len(trail)
    <3>1. propq \in Nat /\ propq' \in Nat /\ (propq' = propq \/ propq' = n)
      BY <1>3, <1>5
    <3>2. \A a \in Nat : k \in (a + 1)..n => k \in 1..n /\ k < n + 1 /\ k \in 1..(n + 1) /\ a # n /\ k \in (a + 1)..(n + 1)
      OBVIOUS
    <3>3. propq' = propq /\ k \in (propq + 1)..n
      BY <3>1, <3>2
    <3>4. n + 1 \in 1..(n + 1)
      OBVIOUS
    <3> QED BY <1>1, <3>1, <3>2, <3>3, <3>4, Zenon
  <2>2. trail'[k].level = decisionLevel
    BY <1>2, <2>1, TrailNow
  <2>3. ~Top.decision
    <3>1. Top.decision => trail[k].level < trail[n + 1].level
      BY <1>2, <2>1, InvLevels
    <3> QED BY <1>2, <1>3, <2>1, <2>2, <3>1
  <2> QED BY <1>3, <1>4, <2>2, <2>3
<1>9. /\ \A k \in 1..n : VarOf(trail'[k].lit) \in 1..numVars'
      /\ \A k \in 1..n : trail'[k].level > 0 => (trail'[k].decision <=> trail'[k].reason = NULL)
      /\ \A k \in 1..n : trail'[k].decision => trail'[k].level > 0 /\ trail'[k].reason = NULL
  <2>1. \A k \in 1..n : VarOf(trail'[k].lit) \in 1..numVars'
    BY <1>1, <1>2, <1>4, TrailNow
  <2>2. \A k \in 1..n : trail'[k].level > 0 => (trail'[k].decision <=> trail'[k].reason = NULL)
    BY <1>1, <1>2, TrailNow
  <2>3. \A k \in 1..n : trail'[k].decision => trail'[k].level > 0 /\ trail'[k].reason = NULL
    BY <1>1, <1>2, TrailNow
  <2> QED BY <2>1, <2>2, <2>3
<1> QED BY <1>2, <1>5, <1>6, <1>7, <1>8, <1>9 DEF TrailGood

\* Variables are never given back.
LEMMA NumVarsGrow ==
  ASSUME Inv, Next
  PROVE  numVars' \in 0..MaxVar /\ numVars <= numVars' /\ numVars \in 0..MaxVar
<1>1. numVars \in 0..MaxVar /\ numVars <= numVars
  <2>1. numVars \in 0..MaxVar
    BY DEF Inv, TypeOK
  <2> QED BY <2>1, MaxVarAssumption
<1>2. CASE Calls
  <2>1. ASSUME NEW c \in Inputs, AddClause(c) PROVE numVars' \in 0..MaxVar /\ numVars <= numVars'
    BY <2>1, AddClauseCases
  <2>2. ASSUME NEW p \in Queries, PushAssumption(p) PROVE numVars' \in 0..MaxVar /\ numVars <= numVars'
    BY <2>2, PushAssumptionFacts
  <2>3. ASSUME NEW num \in 1..MaxAssumptions, PopAssumptions(num) PROVE numVars' = numVars
    BY <2>3 DEF PopAssumptions
  <2>4. ASSUME Solve PROVE numVars' = numVars
    BY <2>4 DEF Solve, clauses
  <2> QED BY <1>1, <1>2, <2>1, <2>2, <2>3, <2>4 DEF Calls
<1>3. CASE Engine
  <2>1. numVars' = numVars
    BY <1>3, Zenon DEF Engine, VisitClause, NextLiteral, Restart, Decide, Satisfied, Conflict, SkipLiteral, ResolveReason,
                Recount, Learn, Undo, Refuted, FactsDone, PropagateFact, clauses
  <2> QED BY <1>1, <2>1
<1> QED BY <1>1, <1>2, <1>3 DEF Next

\* A trail that was cut in level 0 is at level 0.
LEMMA RootCutFacts ==
  ASSUME Inv, Next, NEW n, RootCut(n)
  PROVE  /\ n \in Nat /\ Len(trail') \in Nat /\ n <= Len(trail') /\ trail' \in Trails /\ DOMAIN trail' = 1..Len(trail')
         /\ \A k \in 1..n : /\ k \in 1..Len(trail) /\ k \in 1..Len(trail') /\ k <= Bottom
                            /\ trail'[k] = trail[k] /\ trail[k].level = 0
         /\ \A k \in 1..Len(trail') : k \in 1..n \/ k \in (n + 1)..Len(trail')
         /\ \A k \in 1..Len(trail') : trail'[k].level = 0 /\ ~trail'[k].decision /\ VarOf(trail'[k].lit) \in 1..numVars'
         /\ OncePerVariable(trail')
<1>1. /\ n \in 0..Bottom /\ trail' \in Trails /\ n <= Len(trail') /\ \A k \in 1..n : trail'[k] = trail[k]
      /\ \A k \in (n + 1)..Len(trail') :
           /\ trail'[k].level = 0 /\ ~trail'[k].decision
           /\ VarOf(trail'[k].lit) \in 1..numVars'
           /\ \A j \in 1..(k - 1) : VarOf(trail'[j].lit) # VarOf(trail'[k].lit)
  BY DEF RootCut
<1>2. /\ n \in Nat /\ Len(trail') \in Nat /\ DOMAIN trail' = 1..Len(trail') /\ Bottom \in Nat /\ n <= Bottom
      /\ Len(trail) \in Nat /\ Bottom <= Len(trail)
  <2>1. Bottom \in 0..Len(trail) /\ Len(trail) \in Nat
    BY InvBottom, InvTrail
  <2>2. Len(trail') \in Nat /\ DOMAIN trail' = 1..Len(trail')
    BY <1>1, TrailTypes
  <2> QED BY <1>1, <2>1, <2>2
<1>3. \A k \in 1..n : k \in 1..Len(trail) /\ k \in 1..Len(trail') /\ k <= Bottom
  BY <1>1, <1>2
<1>4. \A k \in 1..n : trail[k].level = 0
  BY <1>3, InvBottom
<1>5. \A k \in 1..Len(trail') : k \in 1..n \/ k \in (n + 1)..Len(trail')
  BY <1>2
<1>6. \A k \in 1..n : ~trail[k].decision /\ VarOf(trail[k].lit) \in 1..numVars'
  <2>1. numVars <= numVars' /\ numVars \in Nat /\ numVars' \in Nat
    BY NumVarsGrow, MaxVarAssumption
  <2>2. \A k \in 1..n : VarOf(trail[k].lit) \in 1..numVars /\ trail[k].level = 0 /\ (trail[k].decision => trail[k].level > 0)
    BY <1>3, <1>4, TrailNow
  <2> QED BY <2>1, <2>2
<1>7. \A k \in 1..Len(trail') : trail'[k].level = 0 /\ ~trail'[k].decision /\ VarOf(trail'[k].lit) \in 1..numVars'
  BY <1>1, <1>4, <1>5, <1>6
<1>8. OncePerVariable(trail')
  <2> SUFFICES ASSUME NEW k \in 1..Len(trail'), NEW j \in 1..(k - 1)
               PROVE  VarOf(trail'[j].lit) # VarOf(trail'[k].lit)
    BY <1>2 DEF OncePerVariable
  <2>1. CASE k \in 1..n
    <3>1. j \in 1..n /\ k \in 1..Len(trail) /\ j \in 1..Len(trail) /\ j # k
      BY <1>2, <2>1
    <3> QED BY <1>1, <2>1, <3>1, InvTrail
  <2>2. CASE k \in (n + 1)..Len(trail')
    BY <1>1, <2>2
  <2> QED BY <1>5, <2>1, <2>2
<1> QED BY <1>1, <1>2, <1>3, <1>4, <1>5, <1>7, <1>8

\* A trail that was cut in level 0 is good.
LEMMA RootGood ==
  ASSUME Inv, Next, AtRoot
  PROVE  TrailGood
<1>1. PICK n : RootCut(n) /\ decisionLevel' = 0 /\ propq' = 0
  BY DEF AtRoot
<1>2. /\ Len(trail') \in Nat /\ trail' \in Trails /\ OncePerVariable(trail')
      /\ \A k \in 1..Len(trail') : trail'[k].level = 0 /\ ~trail'[k].decision /\ VarOf(trail'[k].lit) \in 1..numVars'
  BY <1>1, RootCutFacts
<1>3. Leveled(trail', 0)
  <2>1. \A k \in 0..Len(trail') : DecisionsTo(trail', k) = {}
    BY <1>2 DEF DecisionsTo
  <2>2. \A k \in 0..Len(trail') : Cardinality(DecisionsTo(trail', k)) = 0
    BY <2>1, FS_EmptySet
  <2>3. Len(trail') \in 0..Len(trail') /\ \A k \in 1..Len(trail') : k \in 0..Len(trail')
    BY <1>2
  <2> QED BY <1>2, <2>2, <2>3 DEF Leveled
<1>4. propq' \in 0..Len(trail') /\ decisionLevel' \in Nat
  BY <1>1, <1>2
<1>5. \A k \in (propq' + 1)..Len(trail') : k \in 1..Len(trail')
  BY <1>1, <1>2
<1>6. \A k \in (propq' + 1)..Len(trail') : trail'[k].level = decisionLevel'
  BY <1>1, <1>2, <1>5
<1> QED BY <1>1, <1>2, <1>3, <1>4, <1>6 DEF TrailGood

\* Every step keeps the trail good.
LEMMA TrailNext ==
  ASSUME Inv, Next
  PROVE  TrailGood
<1>1. CASE PushesImplied
  <2>1. PICK l, id : NewLit(l) /\ Implies(l, id) /\ TrailPush(l, id) /\ numVars' = numVars
    BY <1>1 DEF PushesImplied
  <2>2. PICK e : e = Entry(l, id)
    OBVIOUS
  <2>3. id \in Nat \ {0} /\ l \in Lit /\ decisionLevel \in Nat
    <3>1. TypeOK
      BY DEF Inv
    <3> QED BY <2>1, <3>1, DataTypes, InvLevels DEF Implies, NewLit
  <2>4. e \in TrailEntry /\ e.lit = l /\ e.level = decisionLevel /\ e.reason = id /\ e.decision = FALSE
    BY <2>2, <2>3 DEF Entry, TrailEntry
  <2>5. PushedGood(e)
    BY <2>1, <2>2, <2>3, <2>4 DEF PushedGood, TrailPush, NULL
  <2> QED BY <2>5, PushGood
<1>2. CASE PushesDecision
  <2>1. PICK v \in Free :
          /\ NewLit(-v) /\ propq = Len(trail) /\ UNCHANGED <<propq, numVars>>
          /\ trail' = Append(trail, [lit |-> -v, level |-> decisionLevel + 1, reason |-> NULL, decision |-> TRUE])
          /\ decisionLevel' = decisionLevel + 1
    BY <1>2 DEF PushesDecision
  <2>2. PICK e : e = [lit |-> -v, level |-> decisionLevel + 1, reason |-> NULL, decision |-> TRUE]
    OBVIOUS
  <2>3. -v \in Lit /\ decisionLevel + 1 \in Nat
    BY <2>1, InvLevels DEF NewLit
  <2>4. e \in TrailEntry /\ e.lit = -v /\ e.level = decisionLevel + 1 /\ e.reason = NULL /\ e.decision = TRUE
    BY <2>2, <2>3 DEF TrailEntry, NULL
  <2>5. PushedGood(e)
    BY <2>1, <2>2, <2>4 DEF PushedGood
  <2> QED BY <2>5, PushGood
<1>3. CASE Stays
  BY <1>3, StaysGood
<1>4. CASE Pops
  BY <1>4, PopsGood
<1>5. CASE AtRoot
  BY <1>5, RootGood
<1> QED BY <1>1, <1>2, <1>3, <1>4, <1>5, TrailStep

-----------------------------------------------------------------------------
(* The steps by what they do to the clauses.                                *)

\* The clause under analysis is false and repeats no variable.
LEMMA UipFacts ==
  ASSUME Inv, pc \in Working
  PROVE  /\ uipClause \in Seq(Lit) /\ DistinctVars(uipClause) /\ Range(uipClause) \subseteq Lit
         /\ VarsOf(uipClause) = {VarOf(l) : l \in Range(uipClause)} /\ VarsOf(uipClause) \subseteq 1..numVars
         /\ \A l \in Range(uipClause) : IsFalse(trail, l)
<1>1. uipClause \in Seq(Lit) /\ UipFalse /\ Allocated
  BY DEF Inv, TypeOK
<1>2. VarsOf(uipClause) = {VarOf(l) : l \in Range(uipClause)} /\ Range(uipClause) \subseteq Lit
  BY <1>1, VarsOfFacts, RangeFacts
<1> QED BY <1>1, <1>2 DEF UipFalse, Allocated

\* The literal of the resolved clause on the variable of the last literal.
LEMMA TopResolves ==
  ASSUME Inv, pc \in Working, trail # <<>>
  PROVE  /\ Top = trail[Len(trail)] /\ Len(trail) \in 1..Len(trail) /\ Len(trail) \in Nat \ {0}
         /\ Top.lit \in Lit /\ -Top.lit \in Lit /\ TopVar = VarOf(Top.lit) /\ TopVar \in Var
         /\ HasLitPos(TopVar) <=> -Top.lit \in Range(uipClause)
         /\ \A l \in Range(uipClause) : VarOf(l) = TopVar => l = -Top.lit
<1>1. Top = trail[Len(trail)] /\ Len(trail) \in 1..Len(trail) /\ Len(trail) \in Nat \ {0}
  <2>1. trail \in Seq(TrailEntry)
    BY InvTrail DEF Trails
  <2> QED BY <2>1 DEF Top
<1>2. Top.lit \in Lit
  BY <1>1, InvTrail
<1>3. -Top.lit \in Lit /\ TopVar = VarOf(Top.lit) /\ TopVar \in Var /\ VarOf(-Top.lit) = TopVar
  BY <1>2, LitFacts DEF TopVar
<1>4. ASSUME NEW l \in Range(uipClause), VarOf(l) = TopVar PROVE l = -Top.lit
  <2>1. l \in Lit /\ IsFalse(trail, l)
    BY <1>4, UipFacts
  <2>2. PICK k \in 1..Len(trail) : trail[k].lit = -l
    BY <2>1, SeenFacts DEF IsFalse
  <2>3. VarOf(trail[k].lit) = VarOf(trail[Len(trail)].lit)
    BY <1>1, <1>3, <1>4, <2>1, <2>2, LitFacts
  <2>4. k = Len(trail)
    BY <1>1, <2>3, InvTrail, Zenon
  <2>5. -(-l) = l
    BY <2>1, LitFacts
  <2> QED BY <1>1, <2>2, <2>4, <2>5
<1>5. HasLitPos(TopVar) <=> \E l \in Range(uipClause) : VarOf(l) = TopVar
  BY UipFacts DEF HasLitPos
<1> QED BY <1>1, <1>2, <1>3, <1>4, <1>5

\* What a step that learns stores, and where.
LEMMA LearnFacts ==
  ASSUME Inv, Learn
  PROVE  LET c == LearnedClause(Top.lit) IN
         /\ c \in Seq(Lit) /\ Len(c) = Len(uipClause) /\ Len(c) >= 1 /\ c[1] = -Top.lit
         /\ Range(c) = Range(uipClause) /\ DistinctVars(c) /\ SecondLast(c)
         /\ data' = Append(data, c) /\ VarsOf(c) \subseteq 1..numVars
         /\ unit_facts' = [unit_facts EXCEPT ![TopVar] = <<Len(data) + 1>> \o @]
         /\ pc = "learn" /\ pc \in Working /\ trail # <<>> /\ HasLitPos(TopVar)
<1>1. /\ pc = "learn" /\ pc \in Working /\ trail # <<>> /\ HasLitPos(TopVar)
      /\ data' = Append(data, LearnedClause(Top.lit))
      /\ unit_facts' = [unit_facts EXCEPT ![TopVar] = <<Len(data) + 1>> \o @]
  BY DEF Learn, Working, Analyzing
<1>2. /\ uipClause \in Seq(Lit) /\ DistinctVars(uipClause) /\ Top.lit \in Lit /\ -Top.lit \in Range(uipClause)
      /\ VarsOf(uipClause) = {VarOf(l) : l \in Range(uipClause)} /\ VarsOf(uipClause) \subseteq 1..numVars
  BY <1>1, UipFacts, TopResolves
<1>3. decisionLevel \in Nat /\ \A v : LevelOf(v) \in -1..decisionLevel
  <2>1. decisionLevel \in Nat /\ \A v : LevelOf(v) \in Nat \cup {-1} /\ LevelOf(v) <= decisionLevel
    BY InvLevels
  <2> QED BY <2>1
<1>4. PICK c : c = LearnedClause(Top.lit)
  OBVIOUS
<1>5. PICK p \in Lit : p = Top.lit
  BY <1>2
<1>6. /\ c \in Seq(Lit) /\ Len(c) = Len(uipClause) /\ Len(c) >= 1 /\ c[1] = -p
      /\ Range(c) = Range(uipClause) /\ DistinctVars(c)
      /\ \A n \in 3..Len(c) : LevelOf(VarOf(c[n])) <= LevelOf(VarOf(c[2]))
  BY <1>2, <1>3, <1>4, <1>5, LearnedClauseFacts
<1>7. VarsOf(c) \subseteq 1..numVars
  BY <1>2, <1>6, VarsOfFacts
<1> QED BY <1>1, <1>4, <1>5, <1>6, <1>7 DEF SecondLast

\* Clause d takes the place of clause id.
Permutes(id, d) ==
  /\ id \in DOMAIN data /\ d \in Seq(Lit) /\ Permuted(data[id], d) /\ data' = [data EXCEPT ![id] = d]
  /\ ~IsFact(id) /\ \A k \in 1..Len(trail) : trail[k].reason = id => d = data[id]

\* A clause that is a reason keeps its order: all its literals but the one in
\* front are false, so that bcp finds nothing to watch instead of them.
LEMMA VisitPermutes ==
  ASSUME Inv, VisitClause
  PROVE  data' = data \/ \E id, d : Permutes(id, d)
<1>1. CASE VisitSatisfied
  BY <1>1 DEF VisitSatisfied
<1>2. ASSUME NEW p, NEW id, NEW d, Visits(p, id, d), VisitMoves(id, d) \/ VisitKeeps(id, d)
      PROVE  \E e : Permutes(id, e)
  <2>1. /\ propq + 1 \in 1..Len(trail) /\ p = trail[propq + 1].lit /\ p \in Lit /\ id \in DOMAIN data
        /\ id \in Classes(wlist[p]) /\ d \in Seq(Lit) /\ Permuted(data[id], d) /\ Len(d) >= 2 /\ DistinctVars(d)
        /\ d[2] = -p /\ d[1] # -p
        /\ d = data[id] \/ (d[1] = data[id][2] /\ d[2] = data[id][1])
    BY <1>2 DEF Visits
  <2>2. ~IsFact(id)
    <3>1. IsWatched(p, id)
      BY <2>1 DEF Classes, IsWatched
    <3> QED BY <2>1, <3>1 DEF Inv, Placed
  <2>3. ASSUME NEW k \in 1..Len(trail), trail[k].reason = id
        PROVE  d = data[id] /\ \A n \in 2..Len(d) : IsFalse(trail, d[n])
    <3>1. /\ pc # "idle" /\ TrailJustified /\ k \in DOMAIN trail /\ TypeOK
      BY InvTrail, Zenon DEF Inv, VisitClause
    <3>2. trail[k].reason # NULL
      BY <2>1, <2>3, <3>1, DataTypes DEF NULL
    <3>3. data[id][1] = trail[k].lit /\ \A n \in 2..Len(data[id]) : IsFalse(SubSeq(trail, 1, k - 1), data[id][n])
      BY <2>3, <3>1, <3>2 DEF TrailJustified
    <3>4. data[id][1] # -p
      <4>1. trail[k].lit # -p
        <5>1. IsTrue(trail, p) /\ ~(IsTrue(trail, p) /\ IsFalse(trail, p))
          BY <2>1, InvTrail DEF IsTrue
        <5> QED BY <3>1, <5>1 DEF IsFalse, IsTrue
      <4> QED BY <3>3, <4>1
    <3>5. d = data[id]
      BY <2>1, <3>4
    <3>6. \A l : IsFalse(SubSeq(trail, 1, k - 1), l) => IsFalse(trail, l)
      <4>1. trail \in Seq(TrailEntry) /\ k - 1 \in 0..Len(trail)
        BY InvTrail DEF Trails
      <4>2. PICK s : s = SubSeq(trail, 1, k - 1)
        OBVIOUS
      <4>3. s \in Seq(TrailEntry) /\ Len(s) = k - 1 /\ \A j \in 1..(k - 1) : s[j] = trail[j]
        BY <4>1, <4>2, PrefixFacts
      <4>4. \A j \in DOMAIN s : j \in DOMAIN trail /\ s[j] = trail[j]
        BY <4>1, <4>3
      <4> QED BY <4>2, <4>4 DEF IsFalse, IsTrue
    <3> QED BY <3>3, <3>5, <3>6
  <2>4. CASE VisitKeeps(id, d)
    BY <2>1, <2>2, <2>3, <2>4 DEF VisitKeeps, Rewatches, Permutes
  <2>5. CASE VisitMoves(id, d)
    <3>1. PICK k \in 3..Len(d) : ~IsFalse(trail, d[k]) /\ data' = [data EXCEPT ![id] = Swap(d, 2, k)]
      BY <2>5 DEF VisitMoves, Rewatches
    <3>2. 2 \in 1..Len(d) /\ k \in 1..Len(d) /\ k \in 2..Len(d)
      BY <2>1
    <3>3. PICK e : e = Swap(d, 2, k)
      OBVIOUS
    <3>4. e \in Seq(Lit) /\ Permuted(d, e)
      BY <2>1, <3>2, <3>3, SwapFacts, SwapPermutes
    <3>5. Permuted(data[id], e)
      BY <2>1, <3>4 DEF Permuted
    <3>6. \A j \in 1..Len(trail) : trail[j].reason # id
      BY <2>3, <3>1, <3>2
    <3> QED BY <2>1, <2>2, <3>1, <3>3, <3>4, <3>5, <3>6 DEF Permutes
  <2> QED BY <1>2, <2>4, <2>5
<1> QED BY <1>1, <1>2, VisitFacts

NewClause(c) ==
  /\ c \in Seq(Lit) /\ DistinctVars(c) /\ VarsOf(c) \subseteq 1..numVars' /\ data' = Append(data, c)
Empties ==
  /\ Refuted
  /\ data' = [id \in DOMAIN data |-> IF id \in Range(facts) THEN <<>> ELSE data[id]]

\* A step leaves the clauses, adds one, permutes one, or empties some.
LEMMA DataStep ==
  ASSUME Inv, Next
  PROVE  data' = data \/ (\E c : NewClause(c)) \/ (\E id, d : Permutes(id, d)) \/ Empties
<1>1. CASE Calls
  <2>1. ASSUME NEW c \in Inputs, AddClause(c) PROVE data' = data \/ \E w : NewClause(w)
    <3>1. CASE \E w : Added(c, w)
      <4>1. PICK w : Added(c, w)
        BY <3>1
      <4>2. w \in Seq(Lit) /\ DistinctVars(w) /\ Range(w) = Range(c) /\ data' = Append(data, w)
        BY <4>1 DEF Added
      <4>3. VarsOf(w) \subseteq 1..numVars'
        <5>1. VarsOf(c) \subseteq 1..numVars' /\ c \in Seq(Lit)
          BY <2>1, AddClauseCases
        <5>2. VarsOf(w) = {VarOf(l) : l \in Range(w)} /\ VarsOf(c) = {VarOf(l) : l \in Range(c)}
          BY <4>2, <5>1, VarsOfFacts
        <5> QED BY <4>2, <5>1, <5>2
      <4> QED BY <4>2, <4>3 DEF NewClause
    <3>2. CASE ~ \E w : Added(c, w)
      BY <2>1, <3>2, AddClauseCases
    <3> QED BY <3>1, <3>2
  <2>2. ASSUME NEW p \in Queries, PushAssumption(p) PROVE data' = data
    BY <2>2 DEF PushAssumption
  <2>3. ASSUME NEW num \in 1..MaxAssumptions, PopAssumptions(num) PROVE data' = data
    BY <2>3 DEF PopAssumptions
  <2>4. ASSUME Solve PROVE data' = data
    BY <2>4 DEF Solve, clauses
  <2> QED BY <1>1, <2>1, <2>2, <2>3, <2>4 DEF Calls
<1>2. CASE VisitClause
  BY <1>2, VisitPermutes
<1>3. CASE Learn
  <2>1. numVars' = numVars
    BY <1>3 DEF Learn
  <2> QED BY <1>3, <2>1, LearnFacts DEF NewClause
<1>4. CASE Refuted
  BY <1>4 DEF Refuted, Empties
<1>5. CASE PropagateFact
  BY <1>5, PropagateFactCases DEF FactIsWatched, FactIsImplied
<1>6. CASE NextLiteral \/ Restart \/ Decide \/ Satisfied \/ Conflict \/ SkipLiteral \/ ResolveReason \/ Recount \/ Undo \/ FactsDone
  BY <1>6 DEF NextLiteral, Restart, Decide, Satisfied, Conflict, SkipLiteral, ResolveReason, Recount, Undo, FactsDone, clauses
<1> QED BY <1>1, <1>2, <1>3, <1>4, <1>5, <1>6 DEF Next, Engine

Emptied(x) == Empties /\ x \in Range(facts) /\ data'[x] = <<>>
DataGood ==
  /\ data' \in Seq(Seq(Lit)) /\ Len(data') \in Nat /\ DOMAIN data' = 1..Len(data') /\ DOMAIN data \subseteq DOMAIN data'
  /\ \A x \in DOMAIN data' : data'[x] \in Seq(Lit) /\ DistinctVars(data'[x]) /\ VarsOf(data'[x]) \subseteq 1..numVars'
  /\ \A x \in DOMAIN data :
       \/ Emptied(x)
       \/ /\ Permuted(data[x], data'[x])
          /\ IsFact(x) \/ (\E k \in 1..Len(trail) : trail[k].reason = x) => data'[x] = data[x]

\* A clause is a permutation of itself.
LEMMA PermutedSame ==
  ASSUME NEW d
  PROVE  Permuted(d, d)
BY DEF Permuted

\* A permutation keeps the literals and their number.
LEMMA PermutedVars ==
  ASSUME NEW d \in Seq(Lit), NEW e \in Seq(Lit), Permuted(d, e)
  PROVE  VarsOf(e) = VarsOf(d) /\ Range(e) = Range(d) /\ Len(e) = Len(d) /\ (DistinctVars(d) => DistinctVars(e))
<1>1. VarsOf(d) = {VarOf(l) : l \in Range(d)} /\ VarsOf(e) = {VarOf(l) : l \in Range(e)}
  BY VarsOfFacts
<1> QED BY <1>1 DEF Permuted

\* Every step keeps the clauses in range and without repeated variables.
LEMMA DataNext ==
  ASSUME Inv, Next
  PROVE  DataGood
<1>1. /\ DOMAIN data = 1..Len(data) /\ Len(data) \in Nat /\ data \in Seq(Seq(Lit))
      /\ \A x \in DOMAIN data : data[x] \in Seq(Lit) /\ DistinctVars(data[x]) /\ VarsOf(data[x]) \subseteq 1..numVars
  <2>1. TypeOK /\ ClausesDistinct /\ Allocated /\ data \in Seq(Seq(Lit))
    BY DEF Inv, TypeOK
  <2> QED BY <2>1, DataTypes DEF ClausesDistinct, Allocated
<1>2. \A x \in DOMAIN data : VarsOf(data[x]) \subseteq 1..numVars'
  <2>1. 1..numVars \subseteq 1..numVars'
    <3>1. numVars <= numVars' /\ numVars \in Nat /\ numVars' \in Nat
      BY NumVarsGrow, MaxVarAssumption
    <3> QED BY <3>1
  <2> QED BY <1>1, <2>1
<1>3. CASE data' = data
  <2>1. \A x \in DOMAIN data : Permuted(data[x], data'[x])
    BY <1>3, PermutedSame
  <2> QED BY <1>1, <1>2, <1>3, <2>1 DEF DataGood
<1>4. CASE \E c : NewClause(c)
  <2>1. PICK c : c \in Seq(Lit) /\ DistinctVars(c) /\ VarsOf(c) \subseteq 1..numVars' /\ data' = Append(data, c)
    BY <1>4 DEF NewClause
  <2>2. /\ data' \in Seq(Seq(Lit)) /\ Len(data') = Len(data) + 1 /\ data'[Len(data) + 1] = c
        /\ \A x \in 1..Len(data) : data'[x] = data[x]
    BY <1>1, <2>1
  <2>3. DOMAIN data' = 1..(Len(data) + 1) /\ Len(data') \in Nat /\ DOMAIN data \subseteq DOMAIN data'
    BY <1>1, <2>2
  <2>4. \A x \in DOMAIN data' : x = Len(data) + 1 \/ x \in DOMAIN data
    BY <1>1, <2>3
  <2>5. \A x \in DOMAIN data' : data'[x] \in Seq(Lit) /\ DistinctVars(data'[x]) /\ VarsOf(data'[x]) \subseteq 1..numVars'
    <3> SUFFICES ASSUME NEW x \in DOMAIN data'
                 PROVE  data'[x] \in Seq(Lit) /\ DistinctVars(data'[x]) /\ VarsOf(data'[x]) \subseteq 1..numVars'
      OBVIOUS
    <3>1. CASE x = Len(data) + 1
      BY <2>1, <2>2, <3>1
    <3>2. CASE x \in DOMAIN data
      <4>1. data'[x] = data[x]
        BY <1>1, <2>2, <3>2
      <4> QED BY <1>1, <1>2, <3>2, <4>1
    <3> QED BY <2>4, <3>1, <3>2
  <2>6. \A x \in DOMAIN data : data'[x] = data[x] /\ Permuted(data[x], data'[x])
    <3>1. \A x \in DOMAIN data : data'[x] = data[x]
      BY <1>1, <2>2
    <3> QED BY <3>1, PermutedSame
  <2> QED BY <2>2, <2>3, <2>5, <2>6 DEF DataGood
<1>5. CASE \E id, d : Permutes(id, d)
  <2>1. PICK id, d : Permutes(id, d)
    BY <1>5
  <2>2. /\ id \in DOMAIN data /\ d \in Seq(Lit) /\ Permuted(data[id], d) /\ data' = [data EXCEPT ![id] = d]
        /\ ~IsFact(id) /\ \A k \in 1..Len(trail) : trail[k].reason = id => d = data[id]
    BY <2>1 DEF Permutes
  <2>3. data' \in Seq(Seq(Lit)) /\ DOMAIN data' = DOMAIN data /\ data'[id] = d /\ \A x \in DOMAIN data : x # id => data'[x] = data[x]
    BY <1>1, <2>2
  <2>4. /\ DistinctVars(d) /\ VarsOf(d) \subseteq 1..numVars'
    BY <1>1, <1>2, <2>2, PermutedVars
  <2>5. DOMAIN data' = 1..Len(data') /\ Len(data') \in Nat /\ DOMAIN data \subseteq DOMAIN data'
    BY <2>3
  <2>6. \A x \in DOMAIN data' : data'[x] \in Seq(Lit) /\ DistinctVars(data'[x]) /\ VarsOf(data'[x]) \subseteq 1..numVars'
    <3> SUFFICES ASSUME NEW x \in DOMAIN data
                 PROVE  data'[x] \in Seq(Lit) /\ DistinctVars(data'[x]) /\ VarsOf(data'[x]) \subseteq 1..numVars'
      BY <2>3
    <3>1. CASE x = id
      BY <2>2, <2>3, <2>4, <3>1
    <3>2. CASE x # id
      <4>1. data'[x] = data[x]
        BY <2>3, <3>2
      <4> QED BY <1>1, <1>2, <4>1
    <3> QED BY <3>1, <3>2
  <2>7. ASSUME NEW x \in DOMAIN data
        PROVE  /\ Permuted(data[x], data'[x])
               /\ IsFact(x) \/ (\E k \in 1..Len(trail) : trail[k].reason = x) => data'[x] = data[x]
    <3>1. CASE x = id
      BY <2>2, <2>3, <3>1
    <3>2. CASE x # id
      BY <2>3, <3>2, PermutedSame
    <3> QED BY <3>1, <3>2
  <2> QED BY <2>3, <2>5, <2>6, <2>7 DEF DataGood
<1>6. CASE Empties
  <2>1. data' = [id \in DOMAIN data |-> IF id \in Range(facts) THEN <<>> ELSE data[id]]
    BY <1>6 DEF Empties
  <2>2. \A x \in DOMAIN data : data'[x] = IF x \in Range(facts) THEN <<>> ELSE data[x]
    BY <2>1
  <2>3. DOMAIN data' = DOMAIN data
    BY <2>1
  <2>4. \A x \in DOMAIN data : data'[x] \in Seq(Lit)
    <3>1. <<>> \in Seq(Lit)
      OBVIOUS
    <3>2. \A x \in DOMAIN data : data[x] \in Seq(Lit)
      BY <1>1
    <3> HIDE <1>1
    <3> QED BY <2>2, <3>1, <3>2, Zenon
  <2>5. data' \in Seq(Seq(Lit)) /\ Len(data') = Len(data)
    BY <1>1, <2>1, <2>3, <2>4
  <2>6. \A x \in DOMAIN data : DistinctVars(data'[x]) /\ VarsOf(data'[x]) \subseteq 1..numVars'
    <3> SUFFICES ASSUME NEW x \in DOMAIN data
                 PROVE  DistinctVars(data'[x]) /\ VarsOf(data'[x]) \subseteq 1..numVars'
      OBVIOUS
    <3>1. CASE x \in Range(facts)
      <4>1. data'[x] = <<>>
        BY <2>2, <3>1
      <4> QED BY <4>1 DEF DistinctVars, VarsOf
    <3>2. CASE x \notin Range(facts)
      <4>1. data'[x] = data[x]
        BY <2>2, <3>2
      <4> QED BY <1>1, <1>2, <4>1
    <3> QED BY <3>1, <3>2
  <2>7. \A x \in DOMAIN data : Emptied(x) \/ (data'[x] = data[x] /\ Permuted(data[x], data'[x]))
    <3>1. \A x \in DOMAIN data : Emptied(x) \/ data'[x] = data[x]
      BY <1>6, <2>2 DEF Emptied
    <3> QED BY <3>1, PermutedSame
  <2> QED BY <1>1, <2>3, <2>4, <2>5, <2>6, <2>7 DEF DataGood
<1> QED BY <1>3, <1>4, <1>5, <1>6, DataStep

-----------------------------------------------------------------------------
(* The parts of the invariant about the trail and the clauses alone.        *)

\* An implied literal is the first of its reason.
LEMMA ReasonFacts ==
  ASSUME Inv, NEW k \in 1..Len(trail), trail[k].reason # NULL, Live(k)
  PROVE  /\ trail[k].reason \in DOMAIN data /\ data[trail[k].reason] \in Seq(Lit)
         /\ Len(data[trail[k].reason]) \in Nat /\ Len(data[trail[k].reason]) >= 1
         /\ data[trail[k].reason][1] = trail[k].lit
         /\ \A n \in 2..Len(data[trail[k].reason]) : FalseBefore(k, data[trail[k].reason][n])
         /\ \A n \in 2..Len(data[trail[k].reason]) : IsFalse(trail, data[trail[k].reason][n])
<1>1. TypeOK /\ TrailJustified /\ k \in DOMAIN trail
  BY InvTrail DEF Inv
<1>2. PICK id \in DOMAIN data : id = trail[k].reason
  BY InvTrail
<1>3. PICK d \in Seq(Lit) : d = data[id]
  BY <1>1, DataTypes
<1>4. d # <<>> /\ d[1] = trail[k].lit /\ \A n \in 2..Len(d) : IsFalse(SubSeq(trail, 1, k - 1), d[n])
  BY <1>1, <1>2, <1>3 DEF TrailJustified, Live
<1>5. \A l : IsFalse(SubSeq(trail, 1, k - 1), l) => FalseBefore(k, l) /\ IsFalse(trail, l)
  <2>1. trail \in Seq(TrailEntry) /\ k - 1 \in 0..Len(trail) /\ DOMAIN trail = 1..Len(trail) /\ Len(trail) \in Nat
    BY InvTrail DEF Trails
  <2>2. PICK s : s = SubSeq(trail, 1, k - 1)
    OBVIOUS
  <2>3. s \in Seq(TrailEntry) /\ Len(s) = k - 1 /\ \A j \in 1..(k - 1) : s[j] = trail[j]
    BY <2>1, <2>2, PrefixFacts
  <2>4. \A j \in DOMAIN s : j \in 1..(k - 1) /\ j \in DOMAIN trail /\ s[j] = trail[j]
    BY <2>1, <2>3
  <2> QED BY <2>2, <2>4 DEF IsFalse, IsTrue, FalseBefore
<1>6. Len(d) \in Nat /\ Len(d) >= 1
  BY <1>4
<1> QED BY <1>2, <1>3, <1>4, <1>5, <1>6

\* A resolution step replaces the top literal by the rest of its reason.
LEMMA ResolveFacts ==
  ASSUME Inv, ResolveReason
  PROVE  /\ pc = "resolve" /\ pc \in Working /\ trail # <<>> /\ HasLitPos(TopVar) /\ Top.reason # NULL /\ Pops
         /\ Top.reason \in DOMAIN data /\ data[Top.reason] \in Seq(Lit) /\ DistinctVars(data[Top.reason])
         /\ data[Top.reason][1] = Top.lit /\ Len(data[Top.reason]) >= 1
         /\ \A l \in Rest(Top.reason) : l \in Lit /\ FalseBefore(Len(trail), l) /\ VarOf(l) # TopVar
         /\ uipClause' \in Seq(Lit) /\ DistinctVars(uipClause')
         /\ Range(uipClause') = {l \in Range(uipClause) \cup Rest(Top.reason) : l # -Top.lit}
         /\ count' = count - 1 + AtCurrentLevel(Fresh(data[Top.reason]))
<1>1. /\ pc = "resolve" /\ pc \in Working /\ trail # <<>> /\ HasLitPos(TopVar) /\ Top.reason # NULL /\ Pops
      /\ uipClause' = Resolvent(TopVar, data[Top.reason])
      /\ count' = count - 1 + AtCurrentLevel(Fresh(data[Top.reason]))
  BY DEF ResolveReason, Working, Analyzing, Pops, clauses
<1>2. /\ Top = trail[Len(trail)] /\ Len(trail) \in 1..Len(trail) /\ Len(trail) \in Nat \ {0} /\ Top.lit \in Lit
      /\ TopVar = VarOf(Top.lit) /\ -Top.lit \in Range(uipClause)
      /\ \A l \in Range(uipClause) : VarOf(l) = TopVar => l = -Top.lit
  BY <1>1, TopResolves
<1>3. PICK id : id = Top.reason
  OBVIOUS
<1>4. PICK d : d = data[id]
  OBVIOUS
<1>5. /\ id \in DOMAIN data /\ d \in Seq(Lit) /\ Len(d) \in Nat /\ Len(d) >= 1 /\ d[1] = Top.lit
      /\ \A n \in 2..Len(d) : FalseBefore(Len(trail), d[n]) /\ IsFalse(trail, d[n])
  <2>1. Live(Len(trail)) /\ trail[Len(trail)].reason = id /\ id # NULL
    BY <1>1, <1>2, <1>3 DEF Live
  <2> QED BY <1>2, <1>3, <1>4, <2>1, ReasonFacts
<1>6. DistinctVars(d)
  BY <1>4, <1>5 DEF Inv, ClausesDistinct
<1>7. Rest(id) = {d[n] : n \in 2..Len(d)} /\ DOMAIN d = 1..Len(d)
  BY <1>4, <1>5 DEF Rest
<1>8. \A n \in 2..Len(d) : n \in 1..Len(d) /\ n # 1 /\ d[n] \in Lit /\ VarOf(d[n]) # TopVar
  <2> SUFFICES ASSUME NEW n \in 2..Len(d) PROVE n \in 1..Len(d) /\ n # 1 /\ d[n] \in Lit /\ VarOf(d[n]) # TopVar
    OBVIOUS
  <2>1. n \in 1..Len(d) /\ n # 1 /\ 1 \in 1..Len(d)
    BY <1>5
  <2>2. d[n] \in Lit
    BY <1>5, <2>1
  <2>3. VarOf(d[n]) # VarOf(d[1])
    BY <1>6, <1>7, <2>1 DEF DistinctVars
  <2> QED BY <1>2, <1>5, <2>1, <2>2, <2>3
<1>9. /\ uipClause \in Seq(Lit) /\ DistinctVars(uipClause) /\ Range(uipClause) \subseteq Lit
      /\ VarsOf(uipClause) = {VarOf(l) : l \in Range(uipClause)} /\ \A l \in Range(uipClause) : IsFalse(trail, l)
  BY <1>1, UipFacts
<1>10. PICK r : r = uipClause'
  OBVIOUS
<1>11. /\ r \in Seq(Lit) /\ DistinctVars(r)
       /\ Range(r) = {l \in Range(uipClause) \cup Range(Fresh(d)) : VarOf(l) # TopVar}
  <2>1. PICK v : v = TopVar
    OBVIOUS
  <2>2. HasLitPos(v) /\ r = Resolvent(v, d)
    BY <1>1, <1>3, <1>4, <1>10, <2>1
  <2>3. /\ r \in Seq(Lit) /\ DistinctVars(r) /\ Range(r) = {l \in Range(uipClause) \cup Range(Fresh(d)) : VarOf(l) # v}
    BY <1>5, <1>6, <1>9, <2>2, ResolventFacts
  <2> QED BY <2>1, <2>3
<1>12. Range(Fresh(d)) = {d[n] : n \in {m \in 1..Len(d) : ~HasLitPos(VarOf(d[m]))}}
  BY <1>5, FreshFacts
<1>13. Range(r) = {l \in Range(uipClause) \cup Rest(id) : l # -Top.lit}
  <2>1. ASSUME NEW l \in Range(r) PROVE l \in Range(uipClause) \cup Rest(id) /\ l # -Top.lit
    <3>1. l \in Range(uipClause) \cup Range(Fresh(d)) /\ VarOf(l) # TopVar
      BY <1>11, <2>1
    <3>2. l # -Top.lit
      BY <1>2, <3>1, LitFacts
    <3>3. l \in Range(Fresh(d)) => l \in Rest(id)
      <4>1. SUFFICES ASSUME NEW n \in 1..Len(d), l = d[n] PROVE l \in Rest(id)
        BY <1>12
      <4>2. n # 1
        BY <1>2, <1>5, <3>1, <4>1
      <4>3. n \in 2..Len(d)
        BY <1>5, <4>2
      <4> QED BY <1>7, <4>1, <4>3
    <3> QED BY <3>1, <3>2, <3>3
  <2>2. ASSUME NEW l \in Range(uipClause), l # -Top.lit PROVE l \in Range(r)
    BY <1>2, <1>11, <2>2
  <2>3. ASSUME NEW n \in 2..Len(d) PROVE d[n] \in Range(r)
    <3>1. n \in 1..Len(d) /\ d[n] \in Lit /\ VarOf(d[n]) # TopVar /\ IsFalse(trail, d[n])
      BY <1>5, <1>8
    <3>2. CASE ~HasLitPos(VarOf(d[n]))
      BY <1>11, <1>12, <3>1, <3>2
    <3>3. CASE HasLitPos(VarOf(d[n]))
      <4>1. PICK l \in Range(uipClause) : VarOf(l) = VarOf(d[n])
        BY <1>9, <3>3 DEF HasLitPos
      <4>2. l \in Lit /\ IsFalse(trail, l)
        BY <1>9
      <4>3. l = d[n] \/ l = -d[n]
        BY <3>1, <4>1, <4>2, LitFacts
      <4>4. l # -d[n]
        <5>1. ~(IsTrue(trail, d[n]) /\ IsFalse(trail, d[n])) /\ -(-d[n]) = d[n]
          BY <3>1, InvTrail, LitFacts
        <5> QED BY <3>1, <4>2, <5>1 DEF IsFalse
      <4> QED BY <1>11, <3>1, <4>1, <4>3, <4>4
    <3> QED BY <3>2, <3>3
  <2> QED BY <1>7, <2>1, <2>2, <2>3
<1>14. \A l \in Rest(id) : l \in Lit /\ FalseBefore(Len(trail), l) /\ VarOf(l) # TopVar
  BY <1>5, <1>7, <1>8
<1> QED BY <1>1, <1>3, <1>4, <1>5, <1>6, <1>10, <1>11, <1>13, <1>14

\* A conflict refutes at level 0 and is analysed above it.
LEMMA ConflictFacts ==
  ASSUME Inv, Conflict
  PROVE  /\ pc = "conflict" /\ conflictClause \in DOMAIN data
         /\ \/ decisionLevel = 0 /\ Finish("UNSAT") /\ UNCHANGED learning
            \/ decisionLevel > 0 /\ StartAnalysis(conflictClause) /\ UNCHANGED <<lastResult, client>>
<1>1. pc = "conflict" /\ conflictClause \in DOMAIN data
  <2>1. Control /\ conflictClause \in DOMAIN data \cup {NULL} /\ pc \in {"conflict", "analyze"}
    BY DEF Inv, TypeOK, Conflict
  <2> QED BY <2>1 DEF Control, Working, Analyzing
<1>2. decisionLevel \in Nat
  BY InvLevels
<1>3. decisionLevel = 0 \/ decisionLevel > 0
  BY <1>2
<1> QED BY <1>1, <1>3 DEF Conflict, EndsSearch

\* Only a conflict and its analysis change the resolved clause.
LEMMA UipStep ==
  ASSUME Inv, Next
  PROVE  \/ uipClause' = uipClause \/ ResolveReason
         \/ Conflict /\ decisionLevel > 0 /\ conflictClause \in DOMAIN data /\ uipClause' = data[conflictClause]
<1>1. CASE Calls
  BY <1>1, ZenonT(40) DEF Calls, AddClause, PushAssumption, PopAssumptions, Solve, learning
<1>2. CASE Conflict
  BY <1>2, ConflictFacts DEF StartAnalysis, learning
<1>3. CASE Engine /\ ~Conflict
  BY <1>3, Zenon DEF Engine, VisitClause, NextLiteral, Restart, Decide, Satisfied, SkipLiteral, Recount, Learn, Undo,
     Refuted, FactsDone, PropagateFact, learning
<1> QED BY <1>1, <1>2, <1>3 DEF Next

\* Every step keeps levels, reasons and what is not yet propagated in order.
LEMMA LevelsNext ==
  ASSUME Inv, Next
  PROVE  LevelsMatch' /\ UnseenCurrent' /\ Reasons'
<1>1. TrailGood
  BY TrailNext
<1>2. DOMAIN trail' = 1..Len(trail') /\ Len(trail') \in Nat
  BY <1>1, TrailTypes DEF TrailGood
<1>3. LevelsMatch'
  BY <1>1, <1>2 DEF TrailGood, LevelsMatch, Leveled, DecisionsTo
<1>4. UnseenCurrent'
  BY <1>1 DEF TrailGood, UnseenCurrent
<1>5. Reasons'
  BY <1>1, <1>2 DEF TrailGood, Reasons
<1> QED BY <1>3, <1>4, <1>5

\* Every step keeps every variable in use allocated, and clauses without repeats.
LEMMA AllocatedNext ==
  ASSUME Inv, Next
  PROVE  Allocated' /\ ClausesDistinct'
<1>1. TrailGood /\ DataGood
  BY TrailNext, DataNext
<1>2. DOMAIN trail' = 1..Len(trail')
  BY <1>1, TrailTypes DEF TrailGood
<1>3. numVars \in 0..MaxVar /\ numVars' \in 0..MaxVar /\ numVars <= numVars'
  BY NumVarsGrow
<1>4. 1..numVars \subseteq 1..numVars'
  BY <1>3, LitFacts
<1>5. VarsOf(uipClause') \subseteq 1..numVars'
  <2>1. VarsOf(uipClause) \subseteq 1..numVars /\ \A id \in DOMAIN data : VarsOf(data[id]) \subseteq 1..numVars
    BY DEF Inv, Allocated
  <2>2. CASE uipClause' = uipClause
    BY <1>4, <2>1, <2>2
  <2>3. CASE ResolveReason
    <3>1. uipClause \in Seq(Lit) /\ VarsOf(uipClause) \subseteq 1..numVars
      BY <2>1 DEF Inv, TypeOK
    <3>2. /\ Top.reason \in DOMAIN data /\ data[Top.reason] \in Seq(Lit) /\ uipClause' \in Seq(Lit)
          /\ Range(uipClause') = {l \in Range(uipClause) \cup Rest(Top.reason) : l # -Top.lit}
      BY <2>3, ResolveFacts
    <3>3. Rest(Top.reason) \subseteq Range(data[Top.reason])
      BY <3>2, RangeFacts DEF Rest
    <3>4. VarsOf(uipClause') = {VarOf(l) : l \in Range(uipClause')} /\ VarsOf(uipClause) = {VarOf(l) : l \in Range(uipClause)}
          /\ VarsOf(data[Top.reason]) = {VarOf(l) : l \in Range(data[Top.reason])}
      BY <3>1, <3>2, VarsOfFacts
    <3> QED BY <1>4, <2>1, <3>2, <3>3, <3>4
  <2>4. CASE conflictClause \in DOMAIN data /\ uipClause' = data[conflictClause]
    BY <1>4, <2>1, <2>4
  <2> QED BY <2>2, <2>3, <2>4, UipStep
<1>6. Allocated'
  BY <1>1, <1>2, <1>5 DEF Allocated, TrailGood, DataGood, VarsOf
<1>7. ClausesDistinct'
  BY <1>1 DEF ClausesDistinct, DataGood, DistinctVars
<1> QED BY <1>6, <1>7

\* Where an entry of the next trail comes from.
OldEntry(k) == k \in 1..Len(trail) /\ \A j \in 1..k : j \in 1..Len(trail) /\ trail'[j] = trail[j]
ImpliedEntry(k) ==
  /\ k = Len(trail) + 1 /\ \A j \in 1..Len(trail) : trail'[j] = trail[j]
  /\ \E l, id : NewLit(l) /\ Implies(l, id) /\ trail'[k] = Entry(l, id)
DecisionEntry(k) ==
  /\ k = Len(trail) + 1 /\ \A j \in 1..Len(trail) : trail'[j] = trail[j]
  /\ trail'[k].decision /\ trail'[k].reason = NULL /\ propq = Len(trail)
RootEntry(k) ==
  /\ trail'[k].level = 0
  /\ trail'[k].reason = NULL \/
       (trail'[k].reason \in DOMAIN data' /\ data'[trail'[k].reason] = <<trail'[k].lit>>)

\* Every entry of the next trail is old, implied, decided, or of level 0.
LEMMA EntryCases ==
  ASSUME Inv, Next, NEW k \in 1..Len(trail')
  PROVE  OldEntry(k) \/ ImpliedEntry(k) \/ DecisionEntry(k) \/ RootEntry(k)
<1>0. trail \in Seq(TrailEntry) /\ Len(trail) \in Nat /\ trail' \in Trails /\ Len(trail') \in Nat
  <2>1. trail' \in Trails
    BY TrailNext DEF TrailGood
  <2> QED BY <2>1, InvTrail DEF Trails
<1>1. CASE Stays
  BY <1>0, <1>1 DEF Stays, OldEntry
<1>2. CASE PushesImplied
  <2>1. PICK l, id : NewLit(l) /\ Implies(l, id) /\ TrailPush(l, id)
    BY <1>2 DEF PushesImplied
  <2>2. trail' = Append(trail, Entry(l, id)) /\ Entry(l, id) \in TrailEntry
    <3>1. decisionLevel \in Nat /\ id \in Nat /\ l \in Lit
      <4>1. TypeOK /\ id \in DOMAIN data
        BY <2>1 DEF Inv, Implies
      <4> QED BY <2>1, <4>1, InvLevels, DataTypes DEF NewLit
    <3> QED BY <2>1, <3>1 DEF TrailPush, Entry, TrailEntry
  <2>3. PICK e \in TrailEntry : e = Entry(l, id)
    BY <2>2
  <2>4. trail' = Append(trail, e)
    BY <2>2, <2>3
  <2>5. /\ Len(trail') = Len(trail) + 1 /\ trail'[Len(trail) + 1] = e
        /\ \A j \in 1..Len(trail) : trail'[j] = trail[j]
    BY <1>0, <2>4
  <2>6. CASE k = Len(trail) + 1
    BY <2>1, <2>3, <2>5, <2>6 DEF ImpliedEntry
  <2>7. CASE k # Len(trail) + 1
    <3>1. k \in 1..Len(trail) /\ \A j \in 1..k : j \in 1..Len(trail)
      BY <1>0, <2>5, <2>7
    <3> QED BY <2>5, <3>1 DEF OldEntry
  <2> QED BY <2>6, <2>7
<1>3. CASE PushesDecision
  <2>1. PICK v \in Free : /\ NewLit(-v) /\ propq = Len(trail)
           /\ trail' = Append(trail, [lit |-> -v, level |-> decisionLevel + 1, reason |-> NULL, decision |-> TRUE])
    BY <1>3 DEF PushesDecision
  <2>2. PICK e \in TrailEntry : e = [lit |-> -v, level |-> decisionLevel + 1, reason |-> NULL, decision |-> TRUE]
    <3>1. decisionLevel \in Nat /\ -v \in Lit
      BY <2>1, InvLevels DEF NewLit
    <3>2. PICK l \in Lit : l = -v
      BY <3>1
    <3>3. PICK dl \in Nat : dl = decisionLevel + 1
      BY <3>1
    <3>4. [lit |-> l, level |-> dl, reason |-> 0, decision |-> TRUE] \in TrailEntry
      BY DEF TrailEntry
    <3> QED BY <3>2, <3>3, <3>4 DEF NULL
  <2>4. trail' = Append(trail, e) /\ e.decision /\ e.reason = NULL
    BY <2>1, <2>2
  <2>5. /\ Len(trail') = Len(trail) + 1 /\ trail'[Len(trail) + 1] = e
        /\ \A j \in 1..Len(trail) : trail'[j] = trail[j]
    BY <1>0, <2>4
  <2>6. CASE k = Len(trail) + 1
    <3>1. trail'[k] = e
      BY <2>5, <2>6
    <3> QED BY <2>1, <2>4, <2>5, <2>6, <3>1 DEF DecisionEntry
  <2>7. CASE k # Len(trail) + 1
    <3>1. k \in 1..Len(trail) /\ \A j \in 1..k : j \in 1..Len(trail)
      BY <1>0, <2>5, <2>7
    <3> QED BY <2>5, <3>1 DEF OldEntry
  <2> QED BY <2>6, <2>7
<1>4. CASE Pops
  <2>1. Len(trail') = Len(trail) - 1 /\ \A j \in 1..(Len(trail) - 1) : trail'[j] = trail[j]
    BY <1>4, PopFacts
  <2>2. k \in 1..Len(trail) /\ \A j \in 1..k : j \in 1..Len(trail) /\ j \in 1..(Len(trail) - 1)
    BY <1>0, <2>1
  <2> QED BY <2>1, <2>2 DEF OldEntry
<1>5. CASE AtRoot
  <2>1. PICK n \in 0..Bottom : RootCut(n)
    BY <1>5 DEF AtRoot
  <2>2. CASE k \in 1..n
    <3>1. \A j \in 1..n : trail'[j] = trail[j] /\ j \in 1..Len(trail)
      BY <2>1, RootCutFacts
    <3>2. \A j \in 1..k : j \in 1..n
      <4>1. n \in Nat
        BY <2>1, RootCutFacts
      <4> QED BY ONLY <2>2, <4>1
    <3> QED BY <2>2, <3>1, <3>2 DEF OldEntry
  <2>3. CASE k \in (n + 1)..Len(trail')
    BY <2>1, <2>3 DEF RootCut, RootEntry
  <2> QED BY <2>1, <2>2, <2>3, RootCutFacts
<1> QED BY <1>1, <1>2, <1>3, <1>4, <1>5, TrailStep

\* Between calls a step goes to level 0 or asks for an answer.
LEMMA IdleCalls ==
  ASSUME Inv, Next, pc = "idle"
  PROVE  AtRoot \/ (pc' = "idle" /\ Solve /\ UNCHANGED <<assignment, data>>)
<1>1. CASE Calls
  <2>1. ASSUME NEW c \in Inputs, AddClause(c) PROVE AtRoot
    BY <2>1, AddClauseRoot
  <2>2. ASSUME NEW p \in Queries, PushAssumption(p) PROVE AtRoot
    BY <2>2, PushAssumptionFacts
  <2>3. ASSUME NEW num \in 1..MaxAssumptions, PopAssumptions(num) PROVE AtRoot
    BY <2>3, PopAssumptionsFacts DEF AtRoot
  <2>4. ASSUME Solve PROVE AtRoot \/ (pc' = "idle" /\ UNCHANGED <<assignment, data>>)
    <3>1. CASE conflictClause # NULL /\ data[conflictClause] = <<>>
      BY <2>4, <3>1 DEF Solve, clauses
    <3>2. CASE ~(conflictClause # NULL /\ data[conflictClause] = <<>>)
      BY <2>4, <3>2, BacktrackRoot DEF Solve
    <3> QED BY <3>1, <3>2
  <2> QED BY <1>1, <2>1, <2>2, <2>3, <2>4 DEF Calls
<1>2. ~Engine
  BY DEF Engine, VisitClause, NextLiteral, Restart, Decide, Satisfied, Conflict, SkipLiteral, CanSkip, Skips, 
     ResolveReason, Recount, Learn, Undo, Refuted, FactsDone, PropagateFact
<1> QED BY <1>1, <1>2 DEF Next

\* An entry that may be looked at was one before.
LEMMA OldLive ==
  ASSUME Inv, Next, NEW k \in 1..Len(trail'), OldEntry(k), pc' # "idle" \/ trail'[k].level = 0
  PROVE  Live(k)
<1>0. trail'[k] = trail[k]
  <2>1. k \in 1..k
    BY DEF OldEntry
  <2> QED BY <2>1 DEF OldEntry
<1>1. CASE pc # "idle" \/ pc' = "idle"
  BY <1>0, <1>1 DEF Live
<1>2. CASE pc = "idle" /\ pc' # "idle"
  <2>1. AtRoot
    BY <1>2, IdleCalls
  <2>2. trail'[k].level = 0
    BY <2>1, RootCutFacts DEF AtRoot
  <2> QED BY <1>0, <2>2 DEF Live
<1> QED BY <1>1, <1>2

\* Its reason stays as it was: a clause that a refutation destroys was collected,
\* and what a collected clause implies is above level 0.
LEMMA OldReason ==
  ASSUME Inv, Next, NEW k \in 1..Len(trail'), OldEntry(k), pc' # "idle" \/ trail'[k].level = 0,
         trail[k].reason # NULL
  PROVE  trail[k].reason \in DOMAIN data /\ data'[trail[k].reason] = data[trail[k].reason] /\ trail'[k] = trail[k]
<1>0. k \in 1..Len(trail) /\ trail'[k] = trail[k] /\ Live(k)
  <2>1. k \in 1..k
    BY DEF OldEntry
  <2> QED BY <2>1, OldLive DEF OldEntry
<1>1. PICK id \in DOMAIN data : id = trail[k].reason
  BY <1>0, InvTrail
<1>2. DataGood
  BY DataNext
<1>3. ~Emptied(id)
  <2> SUFFICES ASSUME Emptied(id) PROVE FALSE
    OBVIOUS
  <2>1. pc = "refuted" /\ pc' = "idle" /\ id \in Range(facts)
    BY DEF Emptied, Empties, Refuted, Finish
  <2>2. trail[k].level = 0 /\ data[id][1] = trail[k].lit
    BY <1>0, <1>1, <2>1, ReasonFacts
  <2>3. CASE IsUnknown(trail, data[id][1])
    BY <1>0, <2>2, <2>3, InvTrail DEF IsUnknown, IsTrue
  <2>4. CASE decisionLevel > 0 /\ IsReason(id, decisionLevel)
    <3>1. PICK j \in 1..Len(trail) : trail[j].reason = id /\ trail[j].level = decisionLevel
      BY <2>4, InvTrail DEF IsReason
    <3>2. Live(j) /\ id # NULL
      BY <1>0, <1>1, <2>1, DataTypes DEF Live, Inv, NULL
    <3>3. data[id][1] = trail[j].lit
      BY <3>1, <3>2, ReasonFacts
    <3>4. j = k
      BY <1>0, <2>2, <3>1, <3>3, InvTrail
    <3> QED BY <2>2, <2>4, <3>1, <3>4
  <2> QED BY <2>1, <2>3, <2>4 DEF Inv, Collecting, Working, Analyzing
<1> QED BY <1>0, <1>1, <1>2, <1>3 DEF DataGood

\* A literal is false in a prefix when its negation is there.
LEMMA FalseBelow ==
  ASSUME NEW t \in Trails, NEW k \in 1..(Len(t) + 1)
  PROVE  \A l : IsFalse(SubSeq(t, 1, k - 1), l) <=> \E j \in 1..(k - 1) : t[j].lit = -l
<1>1. t \in Seq(TrailEntry) /\ k - 1 \in 0..Len(t) /\ DOMAIN t = 1..Len(t) /\ Len(t) \in Nat
  BY TrailTypes DEF Trails
<1>2. PICK s : s = SubSeq(t, 1, k - 1)
  OBVIOUS
<1>3. s \in Seq(TrailEntry) /\ Len(s) = k - 1 /\ \A j \in 1..(k - 1) : s[j] = t[j]
  BY <1>1, <1>2, PrefixFacts
<1>4. DOMAIN s = 1..(k - 1) /\ \A j \in 1..(k - 1) : s[j] = t[j]
  BY <1>1, <1>3
<1> QED BY <1>2, <1>4 DEF IsFalse, IsTrue

\* Every step keeps the trail justified.
LEMMA JustifiedNext ==
  ASSUME Inv, Next
  PROVE  TrailJustified'
<1>0. trail' \in Trails /\ DOMAIN trail' = 1..Len(trail') /\ Len(trail') \in Nat /\ OncePerVariable(trail')
  <2>1. trail' \in Trails /\ OncePerVariable(trail')
    BY TrailNext DEF TrailGood
  <2> QED BY <2>1, TrailTypes
<1>1. ASSUME NEW k \in 1..Len(trail'), trail'[k].reason # NULL, pc' # "idle" \/ trail'[k].level = 0
      PROVE  LET d == data'[trail'[k].reason]
             IN d # <<>> /\ d[1] = trail'[k].lit /\ \A n \in 2..Len(d) : IsFalse(SubSeq(trail', 1, k - 1), d[n])
  <2>1. k \in 1..(Len(trail') + 1)
    BY <1>0
  <2>2. \A l : IsFalse(SubSeq(trail', 1, k - 1), l) <=> \E j \in 1..(k - 1) : trail'[j].lit = -l
    BY <1>0, <2>1, FalseBelow
  <2>3. CASE OldEntry(k)
    <3>1. k \in 1..Len(trail) /\ Live(k) /\ k \in 1..k /\ \A j \in 1..(k - 1) : j \in 1..k /\ trail'[j] = trail[j]
      BY <1>1, <2>3, OldLive DEF OldEntry
    <3>2. trail'[k] = trail[k]
      BY <2>3, <3>1 DEF OldEntry
    <3>3. trail[k].reason \in DOMAIN data /\ data'[trail[k].reason] = data[trail[k].reason]
      BY <1>1, <2>3, <3>2, OldReason
    <3>4. PICK d \in Seq(Lit) : d = data[trail[k].reason]
      BY <1>1, <3>1, <3>2, ReasonFacts
    <3>5. Len(d) \in Nat /\ Len(d) >= 1 /\ d[1] = trail[k].lit /\ \A n \in 2..Len(d) : FalseBefore(k, d[n])
      BY <1>1, <3>1, <3>2, <3>4, ReasonFacts
    <3>6. d # <<>>
      BY <3>5
    <3>7. \A n \in 2..Len(d) : IsFalse(SubSeq(trail', 1, k - 1), d[n])
      BY <2>2, <3>1, <3>5 DEF FalseBefore
    <3> QED BY <3>2, <3>3, <3>4, <3>5, <3>6, <3>7
  <2>4. CASE ImpliedEntry(k)
    <3>1. PICK l, id : NewLit(l) /\ Implies(l, id) /\ trail'[k] = Entry(l, id)
      BY <2>4 DEF ImpliedEntry
    <3>2. trail'[k].reason = id /\ trail'[k].lit = l
      BY <3>1 DEF Entry
    <3>3. Len(trail) \in Nat /\ k = Len(trail) + 1 /\ \A j \in 1..Len(trail) : j \in 1..(k - 1) /\ trail'[j] = trail[j]
      BY <2>4, InvTrail DEF ImpliedEntry
    <3>4. data'[id] # <<>> /\ data'[id][1] = l
      BY <3>1 DEF Implies
    <3>5. ASSUME NEW n \in 2..Len(data'[id]) PROVE IsFalse(SubSeq(trail', 1, k - 1), data'[id][n])
      <4>1. PICK j \in 1..Len(trail) : trail[j].lit = -data'[id][n]
        BY <3>1, <3>5, InvTrail DEF Implies, IsFalse, IsTrue
      <4> QED BY <2>2, <3>3, <4>1
    <3> QED BY <3>2, <3>4, <3>5
  <2>5. CASE DecisionEntry(k)
    BY <1>1, <2>5 DEF DecisionEntry
  <2>6. CASE RootEntry(k)
    <3>1. PICK l : l = trail'[k].lit
      OBVIOUS
    <3>2. data'[trail'[k].reason] = <<l>>
      BY <1>1, <2>6, <3>1 DEF RootEntry
    <3> QED BY <3>1, <3>2
  <2> QED BY <2>3, <2>4, <2>5, <2>6, EntryCases
<1> QED BY <1>0, <1>1 DEF TrailJustified, OncePerVariable

-----------------------------------------------------------------------------
(* The steps that go back to level 0.                                       *)

Keeps(n) == unit_facts' = [v \in Var |-> IF v \in Above \cup Popped(n) THEN <<>> ELSE unit_facts[v]]
Adds(l) ==
  /\ l \in Lit /\ IsUnknown(LevelZero, l) /\ data' = Append(data, <<l>>)
  /\ trail' = Append(LevelZero, [lit |-> l, level |-> 0, reason |-> Len(data) + 1, decision |-> FALSE])
  /\ unit_facts' = [v \in Var |-> IF v = VarOf(l) THEN <<Len(data) + 1>>
                                  ELSE IF v \in Above THEN <<>> ELSE unit_facts[v]]
RootStep(n) ==
  /\ n \in 0..Bottom /\ RootCut(n) /\ decisionLevel' = 0 /\ propq' = 0 /\ facts' = facts
  /\ heap' = heap \cup Above \cup Popped(n) \cup NewVars
  /\ Keeps(n) \/ (n = Bottom /\ \E l : Adds(l))
  /\ pc \in {"idle", "bcp"} /\ pc' \in {"idle", "bcp"}

\* Backtracking to level 0 is a step at the root.
LEMMA ClearedKeeps ==
  ASSUME Inv, UNCHANGED <<facts, numVars>>, BacktrackTo(LevelZero, {}), pc \in {"idle", "bcp"}, pc' \in {"idle", "bcp"}
  PROVE  RootStep(Bottom)
<1>1. Popped(Bottom) = {} /\ NewVars = {} /\ Bottom \in 0..Bottom
  <2>1. Bottom \in Nat /\ numVars \in Nat
    <3>1. numVars \in 0..MaxVar
      BY DEF Inv, TypeOK
    <3>2. Bottom \in 0..Len(trail) /\ Len(trail) \in Nat
      BY InvBottom, InvTrail
    <3> QED BY <3>1, <3>2
  <2> QED BY <2>1 DEF Popped, NewVars
<1>2. RootCut(Bottom) /\ heap' = heap \cup Above /\ unit_facts' = Cleared
  BY BacktrackRoot
<1>3. Keeps(Bottom)
  BY <1>1, <1>2 DEF Keeps, Cleared
<1> QED BY <1>1, <1>2, <1>3 DEF RootStep, BacktrackTo

\* A unit that is added is implied at level 0.
LEMMA AddUnitAdds ==
  ASSUME Inv, NEW l \in Lit, IsUnknown(LevelZero, l), AddUnit(l, Len(data) + 1), data' = Append(data, <<l>>)
  PROVE  Adds(l)
<1>1. IF VarOf(l) \in Above THEN TRUE ELSE unit_facts[VarOf(l)] = <<>>
  <2> SUFFICES ASSUME VarOf(l) \notin Above, unit_facts[VarOf(l)] # <<>> PROVE FALSE
    OBVIOUS
  <2>1. VarOf(l) \in Var /\ unit_facts[VarOf(l)] \in Seq(DOMAIN data)
    BY LitFacts DEF Inv, TypeOK
  <2>2. PICK id : id \in Range(unit_facts[VarOf(l)])
    <3>1. 1 \in DOMAIN unit_facts[VarOf(l)]
      BY <2>1
    <3> QED BY <3>1 DEF Range
  <2>3. PICK k \in 1..Len(trail) : VarOf(trail[k].lit) = VarOf(l)
    BY <2>1, <2>2, InvTrail DEF Inv, UnitFactsWait
  <2>4. k \in 1..Bottom \/ k \in (Bottom + 1)..Len(trail)
    BY <2>3, InvBottom
  <2>5. k \in 1..Bottom
    BY <2>3, <2>4 DEF Above
  <2>6. \A j \in 1..Len(LevelZero) : VarOf(LevelZero[j].lit) # VarOf(l)
    BY InvBottom, TrailsUnknown
  <2> QED BY <2>3, <2>5, <2>6, InvBottom
<1>2. unit_facts' = [v \in Var |->
               (IF v = VarOf(l) THEN <<Len(data) + 1>> ELSE <<>>)
                 \o (IF v \in Above THEN <<>> ELSE unit_facts[v])]
      /\ trail' = Append(LevelZero, [lit |-> l, level |-> 0, reason |-> Len(data) + 1, decision |-> FALSE])
  BY DEF AddUnit
<1>3. ASSUME NEW v \in Var
      PROVE  (IF v = VarOf(l) THEN <<Len(data) + 1>> ELSE <<>>) \o (IF v \in Above THEN <<>> ELSE unit_facts[v])
             = IF v = VarOf(l) THEN <<Len(data) + 1>> ELSE IF v \in Above THEN <<>> ELSE unit_facts[v]
  <2>1. PICK s \in Seq(DOMAIN data) : s = IF v \in Above THEN <<>> ELSE unit_facts[v]
    <3>1. unit_facts[v] \in Seq(DOMAIN data) /\ <<>> \in Seq(DOMAIN data)
      BY DEF Inv, TypeOK
    <3> QED BY <3>1
  <2>2. <<>> \o s = s
    BY <2>1
  <2>3. v = VarOf(l) => s = <<>>
    BY <1>1, <2>1
  <2>4. <<Len(data) + 1>> \o <<>> = <<Len(data) + 1>>
    OBVIOUS
  <2> QED BY <2>1, <2>2, <2>3, <2>4, Zenon
<1> QED BY <1>2, <1>3 DEF Adds

\* funcsatAddClause is a step at the root.
LEMMA AddClauseStep ==
  ASSUME Inv, NEW c \in Inputs, AddClause(c)
  PROVE  RootStep(Bottom)
<1>1. pc = "idle" /\ pc' = "idle" /\ facts' = facts
  BY DEF AddClause, learning
<1>2. Popped(Bottom) = {} /\ Bottom \in 0..Bottom
  <2>1. Bottom \in Nat
    BY InvBottom
  <2> QED BY <2>1 DEF Popped
<1>3. decisionLevel' = 0 /\ propq' = 0 /\ heap' = heap \cup Above \cup NewVars
  BY AddClauseCases
<1>4. ASSUME trail' = LevelZero, unit_facts' = Cleared PROVE RootStep(Bottom)
  <2>1. RootCut(Bottom)
    BY <1>4, RootStays
  <2>2. Keeps(Bottom)
    BY <1>2, <1>4 DEF Keeps, Cleared
  <2> QED BY <1>1, <1>2, <1>3, <2>1, <2>2 DEF RootStep
<1>5. ASSUME NEW w, Added(c, w), Len(w) = 1, AddUnit(w[1], Len(data) + 1) PROVE RootStep(Bottom)
  <2>1. PICK l \in Lit : l = w[1]
    <3>1. w \in Seq(Lit) /\ 1 \in 1..Len(w)
      BY <1>5 DEF Added
    <3>2. w[1] \in Lit
      BY <3>1, ElementOfSeq
    <3> QED BY <3>2, Zenon
  <2>2. w = <<l>> /\ data' = Append(data, <<l>>)
    BY <1>5, <2>1 DEF Added
  <2>3. CASE IsUnknown(LevelZero, l)
    <3>1. Adds(l)
      BY <1>5, <2>1, <2>2, <2>3, AddUnitAdds
    <3>2. RootCut(Bottom)
      <4>1. VarOf(l) \in 1..numVars'
        <5>1. c \in Seq(Lit) /\ VarsOf(c) \subseteq 1..numVars'
          BY AddClauseCases
        <5>2. l \in Range(c)
          <6>1. Range(w) = Range(c) /\ 1 \in DOMAIN w
            BY <1>5, <2>2 DEF Added
          <6> QED BY <2>1, <6>1 DEF Range
        <5> QED BY <5>1, <5>2, VarsOfFacts
      <4>2. data \in Seq(Seq(Lit)) /\ Len(data) \in Nat /\ Len(data) + 1 \in Nat
        BY DEF Inv, TypeOK
      <4>3. Len(data) + 1 \in DOMAIN data' /\ data'[Len(data) + 1] = <<l>>
        BY <2>2, <4>2
      <4>4. PICK r \in Nat : r = Len(data) + 1
        BY <4>2
      <4> QED BY <2>3, <3>1, <4>1, <4>3, <4>4, RootAppend DEF Adds
    <3> QED BY <1>1, <1>2, <1>3, <3>1, <3>2 DEF RootStep
  <2>4. CASE ~IsUnknown(LevelZero, l)
    <3>1. trail' = LevelZero /\ unit_facts' = Cleared
      BY <1>5, <2>1, <2>4 DEF AddUnit, Cleared
    <3> QED BY <1>4, <3>1
  <2> QED BY <2>3, <2>4
<1>6. (trail' = LevelZero /\ unit_facts' = Cleared) \/ \E w : Added(c, w)
  BY AddClauseCases
<1>7. ASSUME NEW w, Added(c, w) PROVE (trail' = LevelZero /\ unit_facts' = Cleared) \/ (Len(w) = 1 /\ AddUnit(w[1], Len(data) + 1))
  BY <1>7 DEF Added
<1> QED BY <1>4, <1>5, <1>6, <1>7

\* A call goes back to level 0, but one that finds an empty clause.
AnswersAtOnce == Solve /\ pc' = "idle" /\ UNCHANGED <<assignment, clauses, learning, conflictClause, i>>
\* A call answers at once or is a step at the root.
LEMMA CallSteps ==
  ASSUME Inv, Calls
  PROVE  AnswersAtOnce \/ \E n : RootStep(n)
<1>1. ASSUME NEW c \in Inputs, AddClause(c) PROVE \E n : RootStep(n)
  BY <1>1, AddClauseStep
<1>2. ASSUME NEW p \in Queries, PushAssumption(p) PROVE \E n : RootStep(n)
  <2>1. RootCut(Bottom) /\ Bottom \in 0..Bottom /\ Bottom \in Nat
    BY <1>2, PushAssumptionFacts, InvBottom
  <2>2. Popped(Bottom) = {}
    BY <2>1 DEF Popped
  <2>3. /\ decisionLevel' = 0 /\ propq' = 0 /\ heap' = heap \cup Above \cup NewVars /\ unit_facts' = Cleared
        /\ facts' = facts /\ pc = "idle" /\ pc' = "idle"
    BY <1>2 DEF PushAssumption, BacktrackTo, Cleared, learning
  <2>4. Keeps(Bottom)
    BY <2>2, <2>3 DEF Keeps, Cleared
  <2> QED BY <2>1, <2>2, <2>3, <2>4 DEF RootStep
<1>3. ASSUME NEW num \in 1..MaxAssumptions, PopAssumptions(num) PROVE \E n : RootStep(n)
  <2>1. PICK n \in 0..Bottom : RootCut(n) /\ PoppedTo(n) /\ decisionLevel' = 0 /\ propq' = 0 /\ numVars' = numVars
    BY <1>3, PopAssumptionsFacts
  <2>2. facts' = facts /\ pc = "idle" /\ pc' = "idle"
    BY <1>3 DEF PopAssumptions, learning
  <2>3. NewVars = {}
    <3>1. numVars \in Nat
      BY DEF Inv, TypeOK
    <3> QED BY <2>1, <3>1 DEF NewVars
  <2> QED BY <2>1, <2>2, <2>3 DEF RootStep, PoppedTo, Keeps
<1>4. ASSUME Solve PROVE AnswersAtOnce \/ \E n : RootStep(n)
  <2>1. CASE conflictClause # NULL /\ data[conflictClause] = <<>>
    BY <1>4, <2>1 DEF Solve, AnswersAtOnce
  <2>2. CASE ~(conflictClause # NULL /\ data[conflictClause] = <<>>)
    BY <1>4, <2>2, ClearedKeeps DEF Solve, clauses, learning
  <2> QED BY <2>1, <2>2
<1> QED BY <1>1, <1>2, <1>3, <1>4 DEF Calls

\* Every step in terms of what it does to the trail.
LEMMA TrailCases ==
  ASSUME Inv, Next
  PROVE  Stays \/ PushesImplied \/ PushesDecision \/ Pops \/ \E n : RootStep(n)
<1>1. CASE Calls
  BY <1>1, CallSteps DEF AnswersAtOnce, Stays, assignment, clauses
<1>2. CASE Restart
  <2>1. BacktrackTo(LevelZero, {}) /\ UNCHANGED <<facts, numVars>> /\ pc = "bcp" /\ pc' = "bcp"
    BY <1>2 DEF Restart, clauses, learning
  <2> QED BY <2>1, ClearedKeeps
<1>3. CASE Engine /\ ~Restart
  <2>1. CASE AtRoot /\ ~Stays /\ ~PushesImplied /\ ~PushesDecision /\ ~Pops
    <3>1. CASE NextLiteral
      <4>1. propq \in Nat
        BY SeenFacts
      <4> QED BY <2>1, <3>1, <4>1 DEF NextLiteral, AtRoot
    <3> QED BY <1>3, <2>1, <3>1, VisitPushes, PropagatePushes, DecidePushes
         DEF Engine, Satisfied, Conflict, SkipLiteral, ResolveReason, Recount, Learn, Undo, Refuted, FactsDone,
             Stays, Pops, assignment, clauses
  <2> QED BY <2>1, TrailStep
<1> QED BY <1>1, <1>2, <1>3 DEF Next

-----------------------------------------------------------------------------
(* The heap.                                                                *)

\* An unassigned variable is in the heap.
LEMMA HeapCovered ==
  ASSUME Inv, NEW v \in 1..numVars, \A k \in 1..Len(trail) : VarOf(trail[k].lit) # v
  PROVE  v \in heap
<1>1. v \in heap \/ ~IsUnknown(trail, v)
  BY DEF Inv, HeapCovers
<1>2. v \in Var
  BY LitFacts DEF Inv, TypeOK, Var
<1>3. v \in Lit /\ VarOf(v) = v
  BY <1>2, LitFacts
<1> QED BY <1>1, <1>3, InvTrail, TrailsUnknown

\* The heap covers the variables if every variable without an entry is there.
LEMMA HeapEnough ==
  ASSUME Inv, Next, \A v \in 1..numVars' : v \in heap' \/ \E k \in 1..Len(trail') : VarOf(trail'[k].lit) = v
  PROVE  HeapCovers'
<1>1. trail' \in Trails /\ numVars' \in 0..MaxVar
  BY TrailNext, NumVarsGrow DEF TrailGood
<1>2. ASSUME NEW v \in 1..numVars', NEW k \in 1..Len(trail'), VarOf(trail'[k].lit) = v PROVE ~IsUnknown(trail', v)
  <2>1. v \in Var
    BY <1>1, LitFacts DEF Var
  <2>2. v \in Lit /\ VarOf(v) = v
    BY <2>1, LitFacts
  <2> QED BY <1>1, <1>2, <2>2, TrailsUnknown
<1> QED BY <1>2 DEF HeapCovers

\* Every step keeps unassigned variables in the heap.
LEMMA HeapNext ==
  ASSUME Inv, Next
  PROVE  HeapCovers' /\ heap' \subseteq 1..numVars'
<1>0. numVars \in 0..MaxVar /\ numVars' \in 0..MaxVar /\ numVars <= numVars' /\ heap \subseteq 1..numVars
      /\ Len(trail) \in Nat /\ trail \in Seq(TrailEntry)
  BY NumVarsGrow, InvTrail DEF Inv, TypeOK, Trails
<1>1. CASE Stays
  <2>1. CASE heap' = heap
    BY <1>0, <1>1, <2>1 DEF Stays, HeapCovers, Inv
  <2>2. CASE heap' = {} /\ Free = {}
    <3>1. ASSUME NEW v \in 1..numVars PROVE ~IsUnknown(trail, v)
      BY <2>2 DEF Free, Inv, HeapCovers
    <3> QED BY <1>1, <2>2, <3>1 DEF Stays, HeapCovers
  <2> QED BY <1>1, <2>1, <2>2 DEF Stays
<1>2. CASE PushesImplied
  <2>1. PICK l, id : NewLit(l) /\ trail' = Append(trail, Entry(l, id)) /\ heap' = heap /\ numVars' = numVars
    BY <1>2 DEF PushesImplied, TrailPush
  <2>2. Len(trail') = Len(trail) + 1 /\ \A k \in 1..Len(trail) : trail'[k] = trail[k] /\ k \in 1..Len(trail')
    <3>1. trail' \in Trails
      BY TrailNext DEF TrailGood
    <3> QED BY <1>0, <2>1
  <2> QED BY <1>0, <2>1, <2>2, HeapEnough, HeapCovered
<1>3. CASE PushesDecision
  <2>1. PICK v \in Free, D \in SUBSET (heap \ Free) : 
           /\ NewLit(-v) /\ heap' = heap \ (D \cup {v}) /\ numVars' = numVars
           /\ trail' = Append(trail, [lit |-> -v, level |-> decisionLevel + 1, reason |-> NULL, decision |-> TRUE])
    BY <1>3 DEF PushesDecision
  <2>2. Len(trail') = Len(trail) + 1 /\ trail'[Len(trail) + 1].lit = -v
        /\ Len(trail) + 1 \in 1..Len(trail') /\ \A k \in 1..Len(trail) : trail'[k] = trail[k] /\ k \in 1..Len(trail')
    <3>1. trail' \in Trails
      BY TrailNext DEF TrailGood
    <3> QED BY <1>0, <2>1
  <2>3. ASSUME NEW u \in 1..numVars PROVE u \in heap' \/ \E k \in 1..Len(trail') : VarOf(trail'[k].lit) = u
    <3>0. u \in Var /\ v \in Var
      BY <1>0, <2>1, LitFacts DEF Var, Free
    <3>1. CASE u = v
      BY <2>2, <3>0, <3>1, LitFacts
    <3>2. CASE u \in D
      <4>1. ~IsUnknown(trail, u)
        BY <2>1, <3>2 DEF Free
      <4>2. u \in Lit /\ VarOf(u) = u
        BY <3>0, LitFacts
      <4> QED BY <2>2, <4>1, <4>2, InvTrail, TrailsUnknown
    <3>3. CASE u # v /\ u \notin D
      <4>1. u \in heap \/ \E k \in 1..Len(trail) : VarOf(trail[k].lit) = u
        BY HeapCovered
      <4> QED BY <2>1, <2>2, <3>3, <4>1
    <3> QED BY <3>1, <3>2, <3>3
  <2> QED BY <1>0, <2>1, <2>3, HeapEnough
<1>4. CASE Pops
  <2>1. heap' = heap \cup {TopVar} /\ numVars' = numVars
    BY <1>4 DEF Pops, TrailPop
  <2>2. /\ Len(trail') = Len(trail) - 1 /\ Top = trail[Len(trail)] /\ TopVar \in 1..numVars
        /\ \A k \in 1..(Len(trail) - 1) : trail'[k] = trail[k]
    BY <1>4, PopFacts
  <2>3. ASSUME NEW u \in 1..numVars PROVE u \in heap' \/ \E k \in 1..Len(trail') : VarOf(trail'[k].lit) = u
    <3>1. u \in heap \/ \E k \in 1..Len(trail) : VarOf(trail[k].lit) = u
      BY HeapCovered
    <3>2. \A k \in 1..Len(trail) : k = Len(trail) \/ k \in 1..(Len(trail) - 1)
      BY <1>0
    <3> QED BY <2>1, <2>2, <3>1, <3>2 DEF TopVar
  <2> QED BY <1>0, <2>1, <2>2, <2>3, HeapEnough
<1>5. ASSUME NEW n, RootStep(n) PROVE HeapCovers' /\ heap' \subseteq 1..numVars'
  <2>0. n \in 0..Bottom /\ RootCut(n) /\ heap' = heap \cup Above \cup Popped(n) \cup NewVars /\ Bottom \in 0..Len(trail) /\ n \in Nat
    BY <1>5, InvBottom, RootCutFacts DEF RootStep
  <2>1. ASSUME NEW u \in 1..numVars' PROVE u \in heap' \/ \E k \in 1..Len(trail') : VarOf(trail'[k].lit) = u
    <3>1. u \in 1..numVars \/ u \in NewVars
      BY <1>0 DEF NewVars
    <3>2. CASE u \in 1..numVars
      <4>1. u \in heap \/ \E k \in 1..Len(trail) : VarOf(trail[k].lit) = u
        BY <3>2, HeapCovered
      <4>2. ASSUME NEW k \in 1..Len(trail), VarOf(trail[k].lit) = u
            PROVE  u \in heap' \/ \E j \in 1..Len(trail') : VarOf(trail'[j].lit) = u
        <5>1. k \in 1..n \/ k \in (n + 1)..Bottom \/ k \in (Bottom + 1)..Len(trail)
          BY <1>0, <2>0
        <5>2. k \in 1..n => trail'[k] = trail[k] /\ k \in 1..Len(trail')
          BY <2>0, RootCutFacts
        <5> QED BY <2>0, <4>2, <5>1, <5>2 DEF Popped, Above
      <4> QED BY <2>0, <4>1, <4>2
    <3> QED BY <2>0, <3>1, <3>2
  <2>2. heap' \subseteq 1..numVars'
    <3>1. \A k \in 1..Len(trail) : VarOf(trail[k].lit) \in 1..numVars
      BY TrailNow
    <3>2. Above \subseteq 1..numVars /\ Popped(n) \subseteq 1..numVars
      <4>1. \A k \in (Bottom + 1)..Len(trail) : k \in 1..Len(trail)
        BY <1>0, <2>0
      <4>2. \A k \in (n + 1)..Bottom : k \in 1..Len(trail)
        BY <1>0, <2>0
      <4> QED BY <3>1, <4>1, <4>2 DEF Popped, Above
    <3>3. NewVars \subseteq 1..numVars' /\ 1..numVars \subseteq 1..numVars'
      BY <1>0 DEF NewVars
    <3> QED BY <1>0, <2>0, <3>2, <3>3
  <2> QED BY <2>1, <2>2, HeapEnough
<1> QED BY <1>1, <1>2, <1>3, <1>4, <1>5, TrailCases

-----------------------------------------------------------------------------
(* The lists of watched clauses.                                            *)

SameClauses == \A l \in Lit : \A x \in Classes(wlist[l]) : data'[x] = data[x]
WatchesNew(id, d) ==
  /\ wlist' = Watch(wlist, d, id) /\ d \in Seq(Lit) /\ Len(d) >= 2 /\ DistinctVars(d)
  /\ id \in DOMAIN data' /\ data'[id] = d /\ \A l \in Lit : id \notin Classes(wlist[l])
  /\ SameClauses

\* The watch lists of a state that satisfies the invariant.
LEMMA ListTypes ==
  ASSUME Inv
  PROVE  /\ wlist \in [Lit -> Seq(Watchers)] /\ Watches(wlist, data)
         /\ \A l \in Lit : Classes(wlist[l]) \subseteq DOMAIN data
         /\ \A l \in Lit : \A x \in Classes(wlist[l]) : x \in DOMAIN data /\ ~IsFact(x) /\ data[x] \in Seq(Lit)
<1>1. TypeOK /\ Watched /\ Placed
  BY DEF Inv
<1>2. \A l \in Lit : wlist[l] \in Seq(Watchers) /\ Classes(wlist[l]) \subseteq DOMAIN data
  BY <1>1, WatchTypes
<1>3. \A l \in Lit, x \in DOMAIN data : x \in Classes(wlist[l]) => ~IsFact(x)
  BY <1>1 DEF Placed, IsWatched, Classes
<1>4. wlist \in [Lit -> Seq(Watchers)]
  BY <1>1, <1>2 DEF TypeOK
<1> QED BY <1>1, <1>2, <1>3, <1>4, WatchedWatches, DataTypes

\* A new clause leaves the others.
LEMMA AppendedSame ==
  ASSUME Inv, NEW w, data' = Append(data, w)
  PROVE  SameClauses /\ Len(data) \in Nat /\ Len(data) + 1 \in DOMAIN data' /\ data'[Len(data) + 1] = w
         /\ Len(data) + 1 \notin DOMAIN data /\ DOMAIN data' = 1..(Len(data) + 1)
         /\ \A x \in DOMAIN data : data'[x] = data[x] /\ x \in DOMAIN data'
<1>1. data \in Seq(Seq(Lit)) /\ DOMAIN data = 1..Len(data) /\ Len(data) \in Nat
  BY DataTypes DEF Inv, TypeOK
<1>2. DOMAIN data' = 1..(Len(data) + 1) /\ data'[Len(data) + 1] = w /\ \A x \in DOMAIN data : data'[x] = data[x]
  BY <1>1
<1>3. Len(data) + 1 \in 1..(Len(data) + 1) /\ Len(data) + 1 \notin 1..Len(data) /\ \A x \in 1..Len(data) : x \in 1..(Len(data) + 1)
  BY <1>1
<1> QED BY <1>1, <1>2, <1>3, ListTypes DEF SameClauses

\* A step leaves the lists, visits a watcher, or watches one more clause.
LEMMA WatchStep ==
  ASSUME Inv, Next
  PROVE  \/ wlist' = wlist /\ SameClauses
         \/ VisitClause /\ \E id, d : id \in DOMAIN data /\ Rewatches(id, d)
         \/ \E id, d : WatchesNew(id, d)
<1>1. CASE UNCHANGED <<wlist, data>>
  BY <1>1 DEF SameClauses
<1>2. ASSUME NEW c \in Inputs, AddClause(c)
      PROVE  (wlist' = wlist /\ SameClauses) \/ \E id, d : WatchesNew(id, d)
  <2>1. CASE UNCHANGED <<wlist, data>>
    BY <2>1 DEF SameClauses
  <2>2. ASSUME NEW w, Added(c, w) PROVE (wlist' = wlist /\ SameClauses) \/ WatchesNew(Len(data) + 1, w)
    <3>1. data' = Append(data, w)
      BY <2>2 DEF Added
    <3>2. CASE wlist' = wlist
      BY <3>1, <3>2, AppendedSame
    <3>3. CASE Len(w) >= 2 /\ wlist' = Watch(wlist, w, Len(data) + 1)
      BY <2>2, <3>1, <3>3, AppendedSame, ListTypes DEF WatchesNew, Added
    <3> QED BY <2>2, <3>2, <3>3 DEF Added, AddUnit
  <2> QED BY <1>2, <2>1, <2>2, AddClauseCases
<1>3. CASE VisitClause
  <2>1. CASE VisitSatisfied
    BY <1>1, <2>1 DEF VisitSatisfied
  <2>2. ASSUME NEW p, NEW id, NEW d, Visits(p, id, d), VisitMoves(id, d) \/ VisitKeeps(id, d)
        PROVE  \E x, e : x \in DOMAIN data /\ Rewatches(x, e)
    BY <2>2 DEF Visits, VisitMoves, VisitKeeps
  <2> QED BY <1>3, <2>1, <2>2, VisitFacts
<1>4. CASE Learn
  BY <1>4, LearnFacts, AppendedSame DEF Learn
<1>5. CASE Refuted
  <2>1. ASSUME NEW l \in Lit, NEW x \in Classes(wlist[l]) PROVE data'[x] = data[x]
    BY <1>5, ListTypes DEF Refuted, IsFact
  <2> QED BY <1>5, <2>1 DEF Refuted, SameClauses
<1>6. CASE PropagateFact
  <2>1. CASE FactIsWatched(facts[i], data[facts[i]])
    <3>1. i \in 1..Len(facts)
      BY <1>6, PropagateFactCases
    <3>2. /\ facts[i] \in DOMAIN data /\ IsFact(facts[i]) /\ data[facts[i]] \in Seq(Lit) /\ DistinctVars(data[facts[i]])
      BY <3>1, FactFacts
    <3> QED BY <2>1, <3>2, ListTypes DEF FactIsWatched, WatchesNew, SameClauses
  <2>2. CASE FactIsImplied(facts[i], data[facts[i]])
    BY <1>1, <2>2 DEF FactIsImplied
  <2> QED BY <1>6, <2>1, <2>2, PropagateFactCases
<1>7. ASSUME NEW num \in 1..MaxAssumptions, PopAssumptions(num) PROVE UNCHANGED <<wlist, data>>
  BY <1>7, PopAssumptionsFacts
<1> QED BY <1>1, <1>2, <1>3, <1>4, <1>5, <1>6, <1>7
     DEF Next, Calls, Engine, PushAssumption, Solve, NextLiteral, Restart, Decide, Satisfied, Conflict, SkipLiteral,
         ResolveReason, Recount, Undo, FactsDone, clauses

\* Every step keeps the lists right.
LEMMA ListsNext ==
  ASSUME Inv, Next
  PROVE  /\ wlist' \in [Lit -> Seq(Watchers)] /\ Watches(wlist', data')
         /\ \A l \in Lit : Classes(wlist'[l]) \subseteq DOMAIN data'
<1>1. DOMAIN data \subseteq DOMAIN data' /\ DOMAIN data' \subseteq Nat
  BY DataNext DEF DataGood
<1>2. wlist \in [Lit -> Seq(Watchers)] /\ Watches(wlist, data) /\ \A l \in Lit : Classes(wlist[l]) \subseteq DOMAIN data
  BY ListTypes
<1>3. CASE wlist' = wlist /\ SameClauses
  BY <1>1, <1>2, <1>3, WatchSame DEF SameClauses
<1>4. ASSUME NEW id \in DOMAIN data, NEW d, Rewatches(id, d)
      PROVE  /\ wlist' \in [Lit -> Seq(Watchers)] /\ Watches(wlist', data')
             /\ \A l \in Lit : Classes(wlist'[l]) \subseteq DOMAIN data'
  BY <1>1, <1>2, <1>4 DEF Rewatches
<1>5. ASSUME NEW id, NEW d, WatchesNew(id, d)
      PROVE  /\ wlist' \in [Lit -> Seq(Watchers)] /\ Watches(wlist', data')
             /\ \A l \in Lit : Classes(wlist'[l]) \subseteq DOMAIN data'
  <2>1. PICK w, D, E : w = wlist /\ D = data /\ E = data'
    OBVIOUS
  <2>2. w \in [Lit -> Seq(Watchers)] /\ Watches(w, D)
    BY <1>2, <2>1
  <2>5. \A l \in Lit : \A x \in Classes(w[l]) : E[x] = D[x] /\ D[x] \in Seq(Lit)
    BY <1>5, <2>1, ListTypes DEF WatchesNew, SameClauses
  <2>6. id \in Nat /\ d \in Seq(Lit) /\ E[id] = d /\ Len(d) >= 2 /\ DistinctVars(d)
    BY <1>1, <1>5, <2>1 DEF WatchesNew
  <2>7. \A l \in Lit : id \notin Classes(w[l])
    BY <1>5, <2>1 DEF WatchesNew
  <2>3. Watch(w, d, id) \in [Lit -> Seq(Watchers)] /\ Watches(Watch(w, d, id), E)
    BY ONLY <2>2, <2>5, <2>6, <2>7, WatchNew
  <2>8. \A l \in Lit : Classes(Watch(w, d, id)[l]) \subseteq Classes(w[l]) \cup {id}
    BY ONLY <2>2, <2>5, <2>6, <2>7, WatchNew
  <2>4. wlist' = Watch(w, d, id) /\ id \in DOMAIN data'
    BY <1>5, <2>1 DEF WatchesNew
  <2> QED BY <1>1, <1>2, <2>1, <2>3, <2>4, <2>8
<1> QED BY <1>3, <1>4, <1>5, WatchStep

-----------------------------------------------------------------------------
(* The steps by what they do to the clauses that wait.                      *)

\* Every step in terms of what it does to the facts.
LEMMA FactCases ==
  ASSUME Inv, Next
  PROVE  \/ UNCHANGED <<facts, unit_facts>>
         \/ Pops \/ (\E n : RootStep(n)) \/ Learn \/ Refuted \/ FactsDone
         \/ PropagateFact /\ FactIsWatched(facts[i], data[facts[i]])
<1>1. CASE Calls
  BY <1>1, CallSteps DEF AnswersAtOnce, assignment, learning
<1>2. CASE VisitClause
  <2>1. VisitSatisfied \/ \E id, d : VisitMoves(id, d) \/ VisitKeeps(id, d)
    BY <1>2, VisitFacts
  <2>2. unit_facts' = unit_facts
    BY <2>1 DEF VisitSatisfied, VisitMoves, VisitKeeps, TrailPush, assignment
  <2> QED BY <1>2, <2>2, Zenon DEF VisitClause, learning
<1>3. CASE Conflict
  <2>1. facts' = facts
    BY <1>3, ConflictFacts DEF Inv, Control, StartAnalysis, learning
  <2> QED BY <1>3, <2>1 DEF Conflict, assignment
<1>4. CASE PropagateFact
  BY <1>4, PropagateFactCases DEF FactIsImplied, TrailPush
<1>5. CASE SkipLiteral \/ ResolveReason \/ Undo
  BY <1>5 DEF Pops, SkipLiteral, ResolveReason, Undo, clauses
<1>6. CASE Restart
  BY <1>6, ClearedKeeps DEF Restart, clauses, learning
<1> QED BY <1>1, <1>2, <1>3, <1>4, <1>5, <1>6
     DEF Next, Engine, NextLiteral, Decide, Satisfied, Recount, assignment, learning

\* The literal that the clause learned first implies, when all facts are tried.
LEMMA FactsDoneFacts ==
  ASSUME Inv, FactsDone
  PROVE  /\ uipLit \in Lit /\ VarOf(uipLit) \in Var
         /\ \E k \in 1..Len(trail) : trail[k].lit = uipLit /\ trail[k].level = decisionLevel
         /\ LevelOf(VarOf(uipLit)) = decisionLevel /\ facts' = <<>>
         /\ \/ decisionLevel = 0 /\ unit_facts' = unit_facts
            \/ /\ decisionLevel > 0
               /\ unit_facts' = [unit_facts EXCEPT ![VarOf(uipLit)] = @ \o facts]
         /\ \A n \in 1..Len(facts) : ImpliedFact(facts[n])
<1>0. pc = "facts" /\ i > Len(facts) /\ AttachTo(VarOf(uipLit)) /\ i \in Nat /\ Len(facts) \in Nat
  BY DEF FactsDone, Inv, TypeOK
<1>1. PICK k \in (propq + 1)..Len(trail) : trail[k].lit = uipLit
  <2>1. \/ \E k \in (propq + 1)..Len(trail) : trail[k].lit = uipLit
        \/ \E n \in 1..Len(facts) : n >= i
    BY <1>0 DEF Inv, Propagating
  <2> QED BY <1>0, <2>1
<1>2. k \in 1..Len(trail) /\ trail[k].level = decisionLevel
  <2>1. propq \in Nat
    BY SeenFacts
  <2> QED BY <1>1, <2>1 DEF Inv, UnseenCurrent
<1>3. uipLit \in Lit /\ VarOf(uipLit) \in Var /\ VarOf(uipLit) # 0
  BY <1>1, <1>2, InvTrail, LitFacts DEF Var
<1>4. LevelOf(VarOf(uipLit)) = decisionLevel /\ decisionLevel \in Nat
  BY <1>1, <1>2, InvLevels
<1>5. \A n \in 1..Len(facts) : n < i
  BY <1>0
<1>6. \A n \in 1..Len(facts) : ImpliedFact(facts[n])
  BY <1>0, <1>5 DEF Inv, Propagating
<1>7. /\ unit_facts' = IF decisionLevel # 0
                       THEN [unit_facts EXCEPT ![VarOf(uipLit)] = @ \o facts] ELSE unit_facts
      /\ facts' = <<>>
  BY <1>0, <1>3, <1>4 DEF AttachTo
<1>8. decisionLevel = 0 \/ (decisionLevel > 0 /\ decisionLevel # 0)
  BY <1>4
<1> QED BY <1>1, <1>2, <1>3, <1>4, <1>6, <1>7, <1>8

\* Every step keeps the facts clauses.
LEMMA FactTypes ==
  ASSUME Inv, Next
  PROVE  facts' \in Seq(DOMAIN data') /\ unit_facts' \in [Var -> Seq(DOMAIN data')]
<1>0. /\ facts \in Seq(DOMAIN data) /\ unit_facts \in [Var -> Seq(DOMAIN data)]
      /\ DOMAIN data \subseteq DOMAIN data'
  BY DataNext DEF Inv, TypeOK, DataGood
<1>1. /\ facts \in Seq(DOMAIN data') /\ unit_facts \in [Var -> Seq(DOMAIN data')]
  <2>1. Seq(DOMAIN data) \subseteq Seq(DOMAIN data')
    BY <1>0, SeqMonotonic
  <2> QED BY <1>0, <2>1
<1>2. PICK S : S = DOMAIN data'
  OBVIOUS
<1>3. /\ facts \in Seq(S) /\ unit_facts \in [Var -> Seq(S)]
  BY <1>1, <1>2
<1>4. CASE UNCHANGED <<facts, unit_facts>>
  BY <1>1, <1>4
<1>5. CASE Pops
  <2>1. facts' = facts \o unit_facts[TopVar] /\ unit_facts' = [unit_facts EXCEPT ![TopVar] = <<>>] /\ TopVar \in Var
    BY <1>5, PopFacts DEF Pops, TrailPop
  <2>2. facts' \in Seq(S)
    BY <1>3, <2>1, RangeConcat
  <2>3. <<>> \in Seq(S)
    OBVIOUS
  <2> QED BY <1>2, <1>3, <2>1, <2>2, <2>3
<1>6. ASSUME NEW n, RootStep(n) PROVE facts' \in Seq(S) /\ unit_facts' \in [Var -> Seq(S)]
  <2>1. facts' = facts
    BY <1>6 DEF RootStep
  <2>2. CASE Keeps(n)
    <3>1. \A v \in Var : unit_facts'[v] = <<>> \/ unit_facts'[v] = unit_facts[v]
      BY <2>2 DEF Keeps
    <3>2. <<>> \in Seq(S)
      OBVIOUS
    <3> QED BY <1>3, <2>1, <2>2, <3>1, <3>2 DEF Keeps
  <2>3. ASSUME NEW l, Adds(l) PROVE unit_facts' \in [Var -> Seq(S)]
    <3>1. Len(data) + 1 \in S
      BY <1>2, <2>3, AppendedSame DEF Adds
    <3>2. PICK x \in S : x = Len(data) + 1
      BY <3>1
    <3>3. <<x>> \in Seq(S) /\ <<>> \in Seq(S)
      BY <3>2
    <3>4. \A v \in Var : unit_facts'[v] = <<x>> \/ unit_facts'[v] = <<>> \/ unit_facts'[v] = unit_facts[v]
      BY <2>3, <3>2 DEF Adds
    <3> QED BY <1>3, <2>3, <3>3, <3>4 DEF Adds
  <2> QED BY <1>3, <1>6, <2>1, <2>2, <2>3 DEF RootStep
<1>7. CASE Learn
  <2>1. /\ unit_facts' = [unit_facts EXCEPT ![TopVar] = <<Len(data) + 1>> \o @] /\ TopVar \in Var
        /\ \E c : data' = Append(data, c)
    BY <1>7, LearnFacts, TopResolves DEF Working, Analyzing
  <2>2. facts' = facts
    BY <1>7 DEF Learn, learning
  <2>3. PICK x \in S : x = Len(data) + 1
    BY <1>2, <2>1, AppendedSame
  <2>4. <<x>> \in Seq(S)
    BY <2>3
  <2>5. <<x>> \o unit_facts[TopVar] \in Seq(S)
    BY <1>3, <2>1, <2>4, RangeConcat
  <2> QED BY <1>2, <1>3, <2>1, <2>2, <2>3, <2>5
<1>8. CASE Refuted
  BY <1>1, <1>8 DEF Refuted, assignment
<1>9. CASE FactsDone
  <2>1. facts' = <<>> /\ VarOf(uipLit) \in Var
        /\ (unit_facts' = unit_facts \/ unit_facts' = [unit_facts EXCEPT ![VarOf(uipLit)] = @ \o facts])
    BY <1>9, FactsDoneFacts
  <2>2. unit_facts[VarOf(uipLit)] \o facts \in Seq(S)
    BY <1>3, <2>1, RangeConcat
  <2>3. <<>> \in Seq(S)
    OBVIOUS
  <2> QED BY <1>2, <1>3, <2>1, <2>2, <2>3
<1>10. CASE PropagateFact /\ FactIsWatched(facts[i], data[facts[i]])
  <2>1. i \in 1..Len(facts) /\ facts' = RemoveAt(facts, i) /\ unit_facts' = unit_facts
    BY <1>10, PropagateFactCases DEF FactIsWatched, assignment
  <2> QED BY <1>2, <1>3, <2>1, RemoveAtFacts
<1> QED BY <1>2, <1>4, <1>5, <1>6, <1>7, <1>8, <1>9, <1>10, FactCases

-----------------------------------------------------------------------------
(* Types.                                                                   *)

\* A sequence whose elements are in a set is a sequence over it.
LEMMA SeqNarrow ==
  ASSUME NEW S, NEW T, NEW s \in Seq(S), \A n \in 1..Len(s) : s[n] \in T
  PROVE  s \in Seq(T)
OBVIOUS

\* Every step keeps the counter of the analysis a natural number.
LEMMA CountType ==
  ASSUME Inv, Next
  PROVE  count' \in Nat
<1>0. count \in Nat
  BY DEF Inv, TypeOK
<1>1. CASE Conflict
  BY <1>0, <1>1, ConflictFacts, AtCurrentNat, DataTypes DEF Inv, StartAnalysis, learning
<1>2. CASE ResolveReason
  <2>1. count >= 1
    BY <1>2, ResolveFacts DEF Inv, Counted
  <2>2. Fresh(data[Top.reason]) \in Seq(Lit) /\ count' = count - 1 + AtCurrentLevel(Fresh(data[Top.reason]))
    BY <1>2, ResolveFacts, FreshFacts
  <2>3. AtCurrentLevel(Fresh(data[Top.reason])) \in Nat
    BY <2>2, AtCurrentNat
  <2> QED BY <1>0, <2>1, <2>2, <2>3
<1>3. CASE Recount
  <2>1. uipClause \in Seq(Lit)
    BY DEF Inv, TypeOK
  <2> QED BY <1>0, <1>3, <2>1, AtCurrentNat DEF Recount
<1> QED BY <1>0, <1>1, <1>2, <1>3, ZenonT(40)
    DEF Next, Engine, Calls, AddClause, PushAssumption, PopAssumptions, Solve, VisitClause, NextLiteral, Restart, Decide,
         Satisfied, SkipLiteral, Learn, Undo, Refuted, FactsDone, PropagateFact, learning

\* Every step keeps the cursor and the results in range.
LEMMA CursorType ==
  ASSUME Inv, Next
  PROVE  i' \in Nat \ {0} /\ uipLit' \in Lit \cup {0} /\ lastResult' \in {"UNKNOWN", "SAT", "UNSAT"}
<1>0. i \in Nat \ {0} /\ uipLit \in Lit \cup {0} /\ lastResult \in {"UNKNOWN", "SAT", "UNSAT"}
      /\ i + 1 \in Nat \ {0}
  BY DEF Inv, TypeOK
<1>1. i' = i \/ i' = 1 \/ i' = i + 1
  <2>1. CASE VisitClause
    BY <2>1, VisitFacts DEF VisitSatisfied, VisitMoves, VisitKeeps
  <2>2. CASE PropagateFact
    BY <2>2, PropagateFactCases DEF FactIsWatched, FactIsImplied
  <2> QED BY <2>1, <2>2
       DEF Next, Engine, Calls, AddClause, PushAssumption, PopAssumptions, Solve, NextLiteral, Restart, Decide,
         Satisfied, Conflict, SkipLiteral, ResolveReason, Recount, Learn, Undo, Refuted, FactsDone
<1>2. uipLit' \in Lit \cup {0}
  <2>1. CASE Undo
    <3>1. Top.lit \in Lit
      BY <2>1, PopFacts DEF Undo, Pops, clauses
    <3> QED BY <1>0, <2>1, <3>1, LitFacts DEF Undo
  <2> QED BY <1>0, <2>1, ZenonT(40) DEF Next, Engine, Calls, AddClause, PushAssumption, PopAssumptions, Solve, VisitClause, NextLiteral,
        Restart, Decide, Satisfied, Conflict, StartAnalysis, SkipLiteral, ResolveReason, Recount, Learn, Refuted, FactsDone,
        PropagateFact, learning
<1>3. lastResult' \in {"UNKNOWN", "SAT", "UNSAT"}
  BY <1>0, ZenonT(40) DEF Next, Engine, Calls, AddClause, PushAssumption, PopAssumptions, Solve, VisitClause, NextLiteral,
        Restart, Decide, Satisfied, Conflict, Finish, SkipLiteral, ResolveReason, Recount, Learn, Undo, Refuted, FactsDone,
        PropagateFact, results
<1> QED BY <1>0, <1>1, <1>2, <1>3

\* Every step keeps the conflict a clause or none.
LEMMA ConflictType ==
  ASSUME Inv, Next
  PROVE  conflictClause' \in DOMAIN data' \cup {NULL}
<1>0. conflictClause \in DOMAIN data' \cup {NULL} /\ DOMAIN data \subseteq DOMAIN data'
  BY DataNext DEF Inv, TypeOK, DataGood
<1>1. ASSUME NEW c \in Inputs, AddClause(c) PROVE conflictClause' \in DOMAIN data' \cup {NULL}
  <2>1. CASE conflictClause' = NULL
    BY <2>1
  <2>2. ASSUME NEW w, Added(c, w) PROVE conflictClause' \in DOMAIN data' \cup {NULL}
    <3>1. data' = Append(data, w) /\ conflictClause' \in {NULL, Len(data) + 1}
      BY <2>2 DEF Added, AddUnit
    <3> QED BY <3>1, AppendedSame
  <2> QED BY <1>1, <2>1, <2>2, AddClauseCases
<1>2. CASE VisitClause
  <2>1. CASE VisitSatisfied
    BY <1>0, <2>1 DEF VisitSatisfied
  <2>2. ASSUME NEW p, NEW id, NEW d, Visits(p, id, d), VisitMoves(id, d) \/ VisitKeeps(id, d)
        PROVE  conflictClause' \in DOMAIN data' \cup {NULL}
    BY <1>0, <2>2 DEF Visits, VisitMoves, VisitKeeps
  <2> QED BY <1>2, <2>1, <2>2, VisitFacts
<1>3. CASE PropagateFact
  BY <1>0, <1>3, PropagateFactCases DEF FactIsWatched, FactIsImplied
<1> QED BY <1>0, <1>1, <1>2, <1>3
     DEF Next, Engine, Calls, PushAssumption, PopAssumptions, Solve, NextLiteral, Restart, Decide,
         Satisfied, Conflict, SkipLiteral, ResolveReason, Recount, Learn, Undo, Refuted, FactsDone, results

\* Every step keeps the record of assumptions literals or 0.
LEMMA AssumptionsType ==
  ASSUME Inv, Next
  PROVE  assumptions' \in Seq(Lit \cup {0})
<1>0. assumptions \in Seq(Lit \cup {0})
  BY DEF Inv, TypeOK
<1>1. ASSUME NEW p \in Queries, PushAssumption(p) PROVE assumptions' \in Seq(Lit \cup {0})
  <2>1. p \in Lit \cup {0} /\ 0 \in Lit \cup {0}
    BY ClientAssumption
  <2>2. assumptions' = assumptions \/ assumptions' = Append(assumptions, Recorded(p))
    BY <1>1 DEF PushAssumption
  <2>3. Recorded(p) \in Lit \cup {0}
    BY <2>1 DEF Recorded
  <2> QED BY <1>0, <2>2, <2>3
<1>2. ASSUME NEW num \in 1..MaxAssumptions, PopAssumptions(num) PROVE assumptions' \in Seq(Lit \cup {0})
  <2>1. num \in 1..Len(assumptions) /\ assumptions' = SubSeq(assumptions, 1, Len(assumptions) - num)
    BY <1>2, PopAssumptionsFacts
  <2>2. Len(assumptions) - num \in 0..Len(assumptions)
    BY <1>0, <2>1
  <2> QED BY <1>0, <2>1, <2>2, PrefixFacts
<1> QED BY <1>0, <1>1, <1>2, Zenon
    DEF Next, Engine, Calls, AddClause, Solve, VisitClause, NextLiteral, Restart, Decide,
         Satisfied, Conflict, SkipLiteral, ResolveReason, Recount, Learn, Undo, Refuted, FactsDone, PropagateFact

\* Every step keeps the types.
LEMMA TypeNext ==
  ASSUME Inv, Next
  PROVE  TypeOK'
<1>1. numVars' \in 0..MaxVar /\ heap' \subseteq 1..numVars'
  BY NumVarsGrow, HeapNext
<1>2. data' \in Seq(Seq(Lit))
  BY DataNext DEF DataGood
<1>3. wlist' \in [Lit -> Seq([cls : DOMAIN data', lit : Lit])]
  <2>1. ASSUME NEW l \in Lit PROVE wlist'[l] \in Seq([cls : DOMAIN data', lit : Lit])
    <3>1. PICK s \in Seq(Watchers) : s = wlist'[l]
      BY ListsNext
    <3>2. \A n \in 1..Len(s) : s[n] \in Watchers /\ s[n].cls \in DOMAIN data'
      BY <3>1, ListsNext DEF Classes
    <3>3. \A n \in 1..Len(s) : s[n] \in [cls : DOMAIN data', lit : Lit]
      BY <3>2 DEF Watchers
    <3>4. PICK T : T = [cls : DOMAIN data', lit : Lit]
      OBVIOUS
    <3>5. s \in Seq(T)
      BY <3>3, <3>4, SeqNarrow
    <3> QED BY <3>1, <3>4, <3>5
  <2> QED BY <2>1, ListsNext
<1>4. facts' \in Seq(DOMAIN data') /\ unit_facts' \in [Var -> Seq(DOMAIN data')]
  BY FactTypes
<1>5. trail' \in Seq([lit : Lit, level : Nat, reason : DOMAIN data' \cup {NULL}, decision : BOOLEAN])
      /\ decisionLevel' \in Nat /\ propq' \in 0..Len(trail')
  <2>1. trail' \in Trails /\ decisionLevel' \in Nat /\ propq' \in 0..Len(trail')
    BY TrailNext DEF TrailGood
  <2>2. ASSUME NEW k \in 1..Len(trail') PROVE trail'[k].reason \in DOMAIN data' \cup {NULL}
    <3>1. CASE OldEntry(k)
      <4>1. k \in 1..k /\ k \in 1..Len(trail)
        BY <3>1 DEF OldEntry
      <4>2. trail'[k] = trail[k]
        BY <3>1, <4>1 DEF OldEntry
      <4> QED BY <4>1, <4>2, InvTrail, DataNext DEF DataGood
    <3>2. CASE ImpliedEntry(k)
      <4>1. PICK l, id : Implies(l, id) /\ trail'[k] = Entry(l, id)
        BY <3>2 DEF ImpliedEntry
      <4> QED BY <4>1, DataNext DEF DataGood, Implies, Entry
    <3> QED BY <3>1, <3>2, EntryCases DEF DecisionEntry, RootEntry
  <2>3. ASSUME NEW k \in 1..Len(trail') PROVE trail'[k] \in [lit : Lit, level : Nat, reason : DOMAIN data' \cup {NULL}, decision : BOOLEAN]
    BY <2>1, <2>2, TrailTypes DEF TrailEntry
  <2>4. PICK T : T = [lit : Lit, level : Nat, reason : DOMAIN data' \cup {NULL}, decision : BOOLEAN]
    OBVIOUS
  <2>5. trail' \in Seq(T)
    BY <2>1, <2>3, <2>4, SeqNarrow DEF Trails
  <2> QED BY <2>1, <2>4, <2>5
<1>6. uipClause' \in Seq(Lit)
  <2>1. uipClause \in Seq(Lit)
    BY DEF Inv, TypeOK
  <2>2. ASSUME conflictClause \in DOMAIN data PROVE data[conflictClause] \in Seq(Lit)
    BY <2>2, DataTypes DEF Inv
  <2> QED BY <2>1, <2>2, UipStep, ResolveFacts
<1> QED BY <1>1, <1>2, <1>3, <1>4, <1>5, <1>6, CountType, CursorType, ConflictType, AssumptionsType DEF TypeOK

\* Watched is what Watches says, in this state and the next.
LEMMA WatchedBoth == TypeOK => (Watched <=> Watches(wlist, data))
BY WatchedWatches

\* Every step keeps each clause watched at its first two literals.
LEMMA WatchedNext ==
  ASSUME Inv, Next
  PROVE  Watched'
<1>1. (TypeOK => (Watched <=> Watches(wlist, data)))'
  BY WatchedBoth, PTL
<1>2. TypeOK' /\ Watches(wlist, data)'
  BY TypeNext, ListsNext
<1> QED BY <1>1, <1>2

-----------------------------------------------------------------------------
(* A clause waits in one place.                                             *)

Apart(fs, uf) ==
  /\ \A j, k \in DOMAIN fs : fs[j] = fs[k] => j = k
  /\ \A u, v \in Var : \A j \in DOMAIN uf[u], k \in DOMAIN uf[v] :
       uf[u][j] = uf[v][k] => u = v /\ j = k
  /\ \A v \in Var : \A j \in DOMAIN fs, k \in DOMAIN uf[v] : fs[j] # uf[v][k]
Waits(x, fs, uf) == x \in Range(fs) \/ \E v \in Var : x \in Range(uf[v])

\* A concatenation, place by place.
LEMMA ConcatFacts ==
  ASSUME NEW s \in Seq(Nat), NEW t \in Seq(Nat)
  PROVE  /\ s \o t \in Seq(Nat) /\ Len(s \o t) = Len(s) + Len(t) /\ DOMAIN (s \o t) = 1..(Len(s) + Len(t))
         /\ Len(s) \in Nat /\ Len(t) \in Nat /\ DOMAIN s = 1..Len(s) /\ DOMAIN t = 1..Len(t)
         /\ \A n \in 1..Len(s) : (s \o t)[n] = s[n]
         /\ \A n \in (Len(s) + 1)..(Len(s) + Len(t)) : n - Len(s) \in 1..Len(t) /\ (s \o t)[n] = t[n - Len(s)]
         /\ \A n \in 1..(Len(s) + Len(t)) : n \in 1..Len(s) \/ n \in (Len(s) + 1)..(Len(s) + Len(t))
OBVIOUS

\* The entries of a concatenation are those of its parts, each at its own place.
LEMMA ConcatApart ==
  ASSUME NEW s \in Seq(Nat), NEW t \in Seq(Nat),
         \A j, k \in DOMAIN s : s[j] = s[k] => j = k,
         \A j, k \in DOMAIN t : t[j] = t[k] => j = k,
         \A j \in DOMAIN s, k \in DOMAIN t : s[j] # t[k]
  PROVE  \A j, k \in DOMAIN (s \o t) : (s \o t)[j] = (s \o t)[k] => j = k
<1>1. PICK u : u = s \o t
  OBVIOUS
<1>2. /\ DOMAIN u = 1..(Len(s) + Len(t)) /\ Len(s) \in Nat /\ Len(t) \in Nat
      /\ DOMAIN s = 1..Len(s) /\ DOMAIN t = 1..Len(t)
      /\ \A n \in 1..Len(s) : u[n] = s[n]
      /\ \A n \in (Len(s) + 1)..(Len(s) + Len(t)) : n - Len(s) \in 1..Len(t) /\ u[n] = t[n - Len(s)]
      /\ \A n \in 1..(Len(s) + Len(t)) : n \in 1..Len(s) \/ n \in (Len(s) + 1)..(Len(s) + Len(t))
  BY <1>1, ConcatFacts
<1>3. ASSUME NEW j \in DOMAIN u, NEW k \in DOMAIN u, u[j] = u[k] PROVE j = k
  <2>1. CASE j \in 1..Len(s) /\ k \in 1..Len(s)
    BY <1>2, <1>3, <2>1
  <2>2. CASE j \in (Len(s) + 1)..(Len(s) + Len(t)) /\ k \in (Len(s) + 1)..(Len(s) + Len(t))
    <3>0. /\ j - Len(s) \in DOMAIN t /\ k - Len(s) \in DOMAIN t
          /\ t[j - Len(s)] = u[j] /\ t[k - Len(s)] = u[k]
      BY <1>2, <2>2
    <3>1. j - Len(s) = k - Len(s)
      BY <1>3, <3>0
    <3> QED BY <1>2, <2>2, <3>1
  <2>3. CASE j \in 1..Len(s) /\ k \in (Len(s) + 1)..(Len(s) + Len(t))
    <3>0. k - Len(s) \in DOMAIN t /\ t[k - Len(s)] = u[k] /\ j \in DOMAIN s /\ s[j] = u[j]
      BY <1>2, <2>3
    <3> QED BY <1>3, <3>0
  <2>4. CASE k \in 1..Len(s) /\ j \in (Len(s) + 1)..(Len(s) + Len(t))
    <3>0. j - Len(s) \in DOMAIN t /\ t[j - Len(s)] = u[j] /\ k \in DOMAIN s /\ s[k] = u[k]
      BY <1>2, <2>4
    <3> QED BY <1>3, <3>0
  <2> QED BY <1>2, <2>1, <2>2, <2>3, <2>4
<1> QED BY <1>1, <1>3

\* What is in a concatenation is in one of its parts.
LEMMA ConcatIn ==
  ASSUME NEW s \in Seq(Nat), NEW t \in Seq(Nat)
  PROVE  \A j \in DOMAIN (s \o t) : (\E n \in DOMAIN s : (s \o t)[j] = s[n]) \/ (\E n \in DOMAIN t : (s \o t)[j] = t[n])
<1>1. PICK u : u = s \o t
  OBVIOUS
<1>2. /\ DOMAIN u = 1..(Len(s) + Len(t))
      /\ DOMAIN s = 1..Len(s) /\ DOMAIN t = 1..Len(t)
      /\ \A n \in 1..Len(s) : u[n] = s[n]
      /\ \A n \in (Len(s) + 1)..(Len(s) + Len(t)) : n - Len(s) \in 1..Len(t) /\ u[n] = t[n - Len(s)]
      /\ \A n \in 1..(Len(s) + Len(t)) : n \in 1..Len(s) \/ n \in (Len(s) + 1)..(Len(s) + Len(t))
  BY <1>1, ConcatFacts
<1> QED BY <1>1, <1>2

\* Collecting the units of a variable keeps every fact in one place.
LEMMA ApartPop ==
  ASSUME NEW fs \in Seq(Nat), NEW uf \in [Var -> Seq(Nat)], NEW v \in Var, Apart(fs, uf)
  PROVE  /\ Apart(fs \o uf[v], [uf EXCEPT ![v] = <<>>])
         /\ \A x : Waits(x, fs \o uf[v], [uf EXCEPT ![v] = <<>>]) => Waits(x, fs, uf)
<1>0. PICK t \in Seq(Nat) : t = uf[v]
  OBVIOUS
<1>1. PICK gs, ug : gs = fs \o t /\ ug = [uf EXCEPT ![v] = <<>>]
  OBVIOUS
<1>2. \A u \in Var : ug[u] = IF u = v THEN <<>> ELSE uf[u]
  BY <1>1
<1>3. \A j \in DOMAIN gs : (\E n \in DOMAIN fs : gs[j] = fs[n]) \/ (\E n \in DOMAIN t : gs[j] = t[n])
  BY <1>1, ConcatIn
<1>4. \A j, k \in DOMAIN gs : gs[j] = gs[k] => j = k
  <2>1. \A j, k \in DOMAIN t : t[j] = t[k] => j = k
    BY <1>0 DEF Apart
  <2>2. \A j, k \in DOMAIN fs : fs[j] = fs[k] => j = k
    BY DEF Apart
  <2>3. \A j \in DOMAIN fs, k \in DOMAIN t : fs[j] # t[k]
    BY <1>0 DEF Apart
  <2> QED BY <1>1, <2>1, <2>2, <2>3, ConcatApart
<1>5. \A u \in Var : u # v => \A j \in DOMAIN gs, k \in DOMAIN uf[u] : gs[j] # uf[u][k]
  <2> SUFFICES ASSUME NEW u \in Var, u # v, NEW j \in DOMAIN gs, NEW k \in DOMAIN uf[u] PROVE gs[j] # uf[u][k]
    OBVIOUS
  <2>1. \A n \in DOMAIN fs : fs[n] # uf[u][k]
    BY DEF Apart
  <2>2. \A n \in DOMAIN t : t[n] # uf[u][k]
    BY <1>0 DEF Apart
  <2> QED BY <1>3, <2>1, <2>2
<1>6. Apart(gs, ug)
  <2>1. \A u, w \in Var : \A j \in DOMAIN ug[u], k \in DOMAIN ug[w] : ug[u][j] = ug[w][k] => u = w /\ j = k
    <3>1. \A u \in Var : u # v => ug[u] = uf[u]
      BY <1>2
    <3>2. \A j : j \notin DOMAIN ug[v]
      BY <1>2
    <3>3. ASSUME NEW u \in Var, NEW w \in Var, NEW j \in DOMAIN ug[u], NEW k \in DOMAIN ug[w], ug[u][j] = ug[w][k]
          PROVE  u = w /\ j = k
      <4>1. ug[u] = uf[u] /\ ug[w] = uf[w]
        BY <3>1, <3>2, <3>3
      <4> QED BY <3>3, <4>1 DEF Apart
    <3> QED BY <3>3
  <2>2. \A u \in Var : \A j \in DOMAIN gs, k \in DOMAIN ug[u] : gs[j] # ug[u][k]
    <3>1. \A u \in Var : u # v => ug[u] = uf[u]
      BY <1>2
    <3>2. \A j : j \notin DOMAIN ug[v]
      BY <1>2
    <3> QED BY <1>5, <3>1, <3>2
  <2> QED BY <1>4, <2>1, <2>2 DEF Apart
<1>7. ASSUME NEW x, Waits(x, gs, ug) PROVE Waits(x, fs, uf)
  <2>1. CASE x \in Range(gs)
    BY <1>0, <1>3, <2>1 DEF Waits, Range
  <2>2. CASE x \notin Range(gs)
    <3>1. PICK u \in Var : x \in Range(ug[u])
      BY <1>7, <2>2 DEF Waits
    <3>2. ug[u] = uf[u]
      BY <1>2, <3>1 DEF Range
    <3> QED BY <3>1, <3>2 DEF Waits
  <2> QED BY <2>1, <2>2
<1> QED BY <1>0, <1>1, <1>6, <1>7

\* Dropping the units of some variables keeps every fact in one place.
LEMMA ApartClear ==
  ASSUME NEW fs, NEW uf, NEW ug, Apart(fs, uf), \A v \in Var : ug[v] = <<>> \/ ug[v] = uf[v]
  PROVE  Apart(fs, ug) /\ \A x : Waits(x, fs, ug) => Waits(x, fs, uf)
<1>1. \A v \in Var : \A k \in DOMAIN ug[v] : ug[v] = uf[v]
  OBVIOUS
<1>2. \A x : \A v \in Var : x \in Range(ug[v]) => ug[v] = uf[v]
  BY <1>1 DEF Range
<1> QED BY <1>1, <1>2 DEF Apart, Waits

\* A new unit is in one place.
LEMMA ApartNew ==
  ASSUME NEW fs, NEW uf \in [Var -> Seq(Nat)], NEW v \in Var, NEW x \in Nat, Apart(fs, uf), ~Waits(x, fs, uf)
  PROVE  LET ug == [uf EXCEPT ![v] = <<x>> \o @] IN
         Apart(fs, ug) /\ \A y : Waits(y, fs, ug) => y = x \/ Waits(y, fs, uf)
<1>1. PICK ug : ug = [uf EXCEPT ![v] = <<x>> \o @]
  OBVIOUS
<1>2. PICK s : s = <<x>> \o uf[v]
  OBVIOUS
<1>3. \A u \in Var : ug[u] = IF u = v THEN s ELSE uf[u]
  BY <1>1, <1>2
<1>4. \A u \in Var : \A n \in DOMAIN uf[u] : uf[u][n] # x
  BY DEF Waits, Range
<1>5. \A n \in DOMAIN fs : fs[n] # x
  BY DEF Waits, Range
<1>6. <<x>> \in Seq(Nat) /\ DOMAIN <<x>> = {1} /\ <<x>>[1] = x
  OBVIOUS
<1>7. \A j \in DOMAIN s : s[j] = x \/ \E n \in DOMAIN uf[v] : s[j] = uf[v][n]
  BY <1>2, <1>6, ConcatIn
<1>8. \A j, k \in DOMAIN s : s[j] = s[k] => j = k
  <2>1. \A j, k \in DOMAIN uf[v] : uf[v][j] = uf[v][k] => j = k
    BY DEF Apart
  <2>2. PICK t \in Seq(Nat) : t = <<x>> /\ DOMAIN t = {1} /\ t[1] = x
    BY <1>6
  <2>3. \A j, k \in DOMAIN t : t[j] = t[k] => j = k
    BY <2>2
  <2>4. \A j \in DOMAIN t, k \in DOMAIN uf[v] : t[j] # uf[v][k]
    BY <1>4, <2>2
  <2>5. uf[v] \in Seq(Nat)
    OBVIOUS
  <2> QED BY <1>2, <2>1, <2>2, <2>3, <2>4, <2>5, ConcatApart
<1>9. \A u, w \in Var : \A j \in DOMAIN ug[u], k \in DOMAIN ug[w] : ug[u][j] = ug[w][k] => u = w /\ j = k
  <2> SUFFICES ASSUME NEW u \in Var, NEW w \in Var, NEW j \in DOMAIN ug[u], NEW k \in DOMAIN ug[w], ug[u][j] = ug[w][k]
               PROVE  u = w /\ j = k
    OBVIOUS
  <2>1. CASE u = v /\ w = v
    BY <1>3, <1>8, <2>1
  <2>2. CASE u # v /\ w # v
    BY <1>3, <2>2 DEF Apart
  <2>3. CASE u = v /\ w # v
    BY <1>3, <1>4, <1>7, <2>3 DEF Apart
  <2>4. CASE u # v /\ w = v
    BY <1>3, <1>4, <1>7, <2>4 DEF Apart
  <2> QED BY <2>1, <2>2, <2>3, <2>4
<1>10. \A u \in Var : \A j \in DOMAIN fs, k \in DOMAIN ug[u] : fs[j] # ug[u][k]
  BY <1>3, <1>5, <1>7 DEF Apart
<1>11. Apart(fs, ug)
  BY <1>9, <1>10 DEF Apart
<1>12. ASSUME NEW y, Waits(y, fs, ug) PROVE y = x \/ Waits(y, fs, uf)
  BY <1>3, <1>7, <1>12 DEF Waits, Range
<1> QED BY <1>1, <1>11, <1>12

\* Moving the waiting facts to a variable keeps every fact in one place.
LEMMA ApartMove ==
  ASSUME NEW fs \in Seq(Nat), NEW uf \in [Var -> Seq(Nat)], NEW v \in Var, Apart(fs, uf)
  PROVE  LET ug == [uf EXCEPT ![v] = @ \o fs] IN
         Apart(<<>>, ug) /\ \A y : Waits(y, <<>>, ug) => Waits(y, fs, uf)
<1>1. PICK ug : ug = [uf EXCEPT ![v] = @ \o fs]
  OBVIOUS
<1>0. PICK t \in Seq(Nat) : t = uf[v]
  OBVIOUS
<1>2. PICK s : s = t \o fs
  OBVIOUS
<1>3. \A u \in Var : ug[u] = IF u = v THEN s ELSE uf[u]
  BY <1>0, <1>1, <1>2
<1>4. \A j \in DOMAIN s : (\E n \in DOMAIN t : s[j] = t[n]) \/ (\E n \in DOMAIN fs : s[j] = fs[n])
  BY <1>2, ConcatIn
<1>5. \A j, k \in DOMAIN s : s[j] = s[k] => j = k
  <2>1. \A j, k \in DOMAIN t : t[j] = t[k] => j = k
    BY <1>0 DEF Apart
  <2>2. \A j, k \in DOMAIN fs : fs[j] = fs[k] => j = k
    BY DEF Apart
  <2>3. \A j \in DOMAIN t, k \in DOMAIN fs : t[j] # fs[k]
    BY <1>0 DEF Apart
  <2> QED BY <1>2, <2>1, <2>2, <2>3, ConcatApart
<1>6. \A u, w \in Var : \A j \in DOMAIN ug[u], k \in DOMAIN ug[w] : ug[u][j] = ug[w][k] => u = w /\ j = k
  <2> SUFFICES ASSUME NEW u \in Var, NEW w \in Var, NEW j \in DOMAIN ug[u], NEW k \in DOMAIN ug[w], ug[u][j] = ug[w][k]
               PROVE  u = w /\ j = k
    OBVIOUS
  <2>1. CASE u = v /\ w = v
    BY <1>3, <1>5, <2>1
  <2>2. CASE u # v /\ w # v
    BY <1>3, <2>2 DEF Apart
  <2>3. ASSUME NEW x \in Var, x # v, NEW n \in DOMAIN s, NEW m \in DOMAIN uf[x] PROVE s[n] # uf[x][m]
    <3>1. \A q \in DOMAIN t : t[q] # uf[x][m]
      BY <1>0, <2>3 DEF Apart
    <3>2. \A q \in DOMAIN fs : fs[q] # uf[x][m]
      BY <2>3 DEF Apart
    <3> QED BY <1>4, <3>1, <3>2
  <2>4. CASE (u = v /\ w # v) \/ (u # v /\ w = v)
    BY <1>3, <2>3, <2>4
  <2> QED BY <2>1, <2>2, <2>4
<1>7. Apart(<<>>, ug)
  BY <1>6 DEF Apart
<1>8. ASSUME NEW y, Waits(y, <<>>, ug) PROVE Waits(y, fs, uf)
  <2>1. ~(y \in Range(<<>>))
    BY DEF Range
  <2>2. PICK u \in Var : y \in Range(ug[u])
    BY <1>8, <2>1 DEF Waits
  <2>3. CASE u = v
    <3>1. y \in Range(s)
      BY <1>3, <2>2, <2>3
    <3> QED BY <1>0, <1>4, <3>1 DEF Waits, Range
  <2>4. CASE u # v
    BY <1>3, <2>2, <2>4 DEF Waits
  <2> QED BY <2>3, <2>4
<1> QED BY <1>1, <1>7, <1>8

\* A fact taken from those waiting is nowhere.
LEMMA ApartRemove ==
  ASSUME NEW fs \in Seq(Nat), NEW uf, NEW m \in 1..Len(fs), Apart(fs, uf)
  PROVE  /\ Apart(RemoveAt(fs, m), uf) /\ ~Waits(fs[m], RemoveAt(fs, m), uf)
         /\ \A y : Waits(y, RemoveAt(fs, m), uf) => Waits(y, fs, uf)
<1>1. PICK gs : gs = RemoveAt(fs, m)
  OBVIOUS
<1>2. gs \in Seq(Nat) /\ Len(gs) = Len(fs) - 1
  BY <1>1, RemoveAtFacts
<1>9. \A n \in 1..(Len(fs) - 1) : gs[n] = IF n < m THEN fs[n] ELSE fs[n + 1]
  BY <1>1, RemoveAtFacts
<1>3. DOMAIN gs = 1..(Len(fs) - 1) /\ DOMAIN fs = 1..Len(fs) /\ m \in Nat /\ Len(fs) \in Nat /\ m <= Len(fs)
  BY <1>2
<1>10. \A n \in 1..(Len(fs) - 1) :
         (IF n < m THEN n ELSE n + 1) \in 1..Len(fs) /\ (IF n < m THEN n ELSE n + 1) # m
  BY <1>3
<1>4. \A n \in DOMAIN gs : \E j \in DOMAIN fs : gs[n] = fs[j] /\ j # m
  <2>1. \A n \in DOMAIN gs : gs[n] = fs[IF n < m THEN n ELSE n + 1]
    BY <1>3, <1>9
  <2> QED BY <1>3, <1>10, <2>1
<1>5. \A j, k \in DOMAIN gs : gs[j] = gs[k] => j = k
  <2> SUFFICES ASSUME NEW j \in DOMAIN gs, NEW k \in DOMAIN gs, gs[j] = gs[k] PROVE j = k
    OBVIOUS
  <2>1. (IF j < m THEN j ELSE j + 1) = (IF k < m THEN k ELSE k + 1)
    <3>1. (IF j < m THEN j ELSE j + 1) \in DOMAIN fs /\ (IF k < m THEN k ELSE k + 1) \in DOMAIN fs
      BY <1>3, <1>10
    <3>2. fs[IF j < m THEN j ELSE j + 1] = fs[IF k < m THEN k ELSE k + 1]
      BY <1>3, <1>9
    <3> QED BY <3>1, <3>2 DEF Apart
  <2> QED BY <1>3, <2>1
<1>6. Apart(gs, uf)
  BY <1>4, <1>5 DEF Apart
<1>7. ~Waits(fs[m], gs, uf)
  BY <1>3, <1>4 DEF Waits, Range, Apart
<1>8. \A y : Waits(y, gs, uf) => Waits(y, fs, uf)
  BY <1>4 DEF Waits, Range
<1> QED BY <1>1, <1>6, <1>7, <1>8

\* Facts of a state that satisfies the invariant are in one place each.
LEMMA FactsNow ==
  ASSUME Inv
  PROVE  /\ facts \in Seq(Nat) /\ unit_facts \in [Var -> Seq(Nat)] /\ Apart(facts, unit_facts)
         /\ \A x : IsFact(x) <=> Waits(x, facts, unit_facts)
         /\ \A x : IsFact(x) => x \in DOMAIN data /\ x # NULL
<1>1. DOMAIN data \subseteq Nat /\ NULL \notin DOMAIN data
  BY DataTypes DEF Inv, NULL
<1>2. facts \in Seq(DOMAIN data) /\ unit_facts \in [Var -> Seq(DOMAIN data)]
  BY DEF Inv, TypeOK
<1>3. facts \in Seq(Nat) /\ unit_facts \in [Var -> Seq(Nat)]
  <2>1. Seq(DOMAIN data) \subseteq Seq(Nat)
    BY <1>1, SeqMonotonic
  <2> QED BY <1>2, <2>1
<1>4. Apart(facts, unit_facts)
  BY DEF Inv, Placed, Apart
<1>5. \A x : IsFact(x) <=> Waits(x, facts, unit_facts)
  BY DEF IsFact, Waits
<1>6. ASSUME NEW x, IsFact(x) PROVE x \in DOMAIN data
  <2>1. Range(facts) \subseteq DOMAIN data
    BY <1>2, RangeFacts
  <2>2. \A v \in Var : Range(unit_facts[v]) \subseteq DOMAIN data
    BY <1>2, RangeFacts
  <2> QED BY <1>6, <2>1, <2>2 DEF IsFact
<1> QED BY <1>1, <1>3, <1>4, <1>5, <1>6

NewFact(x) == x = Len(data) + 1 /\ (Learn \/ \E l : Adds(l))

\* Every step keeps every fact in one place, and adds at most one.
LEMMA FactsNext ==
  ASSUME Inv, Next
  PROVE  /\ Apart(facts', unit_facts')
         /\ \A x : Waits(x, facts', unit_facts') => IsFact(x) \/ NewFact(x)
<1>0. PICK fs \in Seq(Nat), uf \in [Var -> Seq(Nat)] : fs = facts /\ uf = unit_facts
  BY FactsNow
<1>1. Apart(fs, uf) /\ \A x : IsFact(x) <=> Waits(x, fs, uf)
  BY <1>0, FactsNow
<1>2. ASSUME NEW n, RootStep(n)
      PROVE  /\ Apart(facts', unit_facts') /\ \A x : Waits(x, facts', unit_facts') => IsFact(x) \/ NewFact(x)
  <2>1. facts' = fs
    BY <1>0, <1>2 DEF RootStep
  <2>2. CASE Keeps(n)
    <3>1. PICK ug : ug = unit_facts'
      OBVIOUS
    <3>2. \A v \in Var : ug[v] = <<>> \/ ug[v] = uf[v]
      BY <1>0, <2>2, <3>1 DEF Keeps
    <3> QED BY <1>1, <2>1, <3>1, <3>2, ApartClear
  <2>3. ASSUME NEW l, Adds(l)
        PROVE  /\ Apart(facts', unit_facts') /\ \A x : Waits(x, facts', unit_facts') => IsFact(x) \/ NewFact(x)
    <3>1. PICK y \in Nat : y = Len(data) + 1
      BY <2>3, AppendedSame DEF Adds
    <3>2. ~IsFact(y) /\ NewFact(y)
      BY <2>3, <3>1, AppendedSame, FactsNow DEF Adds, NewFact
    <3>3. PICK v \in Var : v = VarOf(l)
      BY <2>3, LitFacts DEF Adds
    <3>4. PICK ug \in [Var -> Seq(Nat)] : ug = [u \in Var |-> IF u = v \/ u \in Above THEN <<>> ELSE uf[u]]
      <4>1. <<>> \in Seq(Nat)
        OBVIOUS
      <4> QED BY <4>1
    <3>5. \A u \in Var : ug[u] = <<>> \/ ug[u] = uf[u]
      BY <3>4
    <3>6. Apart(fs, ug) /\ \A x : Waits(x, fs, ug) => Waits(x, fs, uf)
      BY <1>1, <3>5, ApartClear
    <3>7. PICK uh : uh = [ug EXCEPT ![v] = <<y>> \o @]
      OBVIOUS
    <3>8. Apart(fs, uh) /\ \A x : Waits(x, fs, uh) => x = y \/ Waits(x, fs, ug)
      <4>1. ~Waits(y, fs, ug)
        BY <1>1, <3>2, <3>6
      <4> QED BY <3>6, <3>7, <4>1, ApartNew
    <3>9. unit_facts' = uh
      <4>1. ug[v] = <<>> /\ <<y>> \o <<>> = <<y>>
        BY <3>4
      <4>2. \A u \in Var : uh[u] = IF u = v THEN <<y>> ELSE IF u \in Above THEN <<>> ELSE uf[u]
        BY <3>4, <3>7, <4>1
      <4>3. unit_facts' = [u \in Var |-> IF u = v THEN <<y>> ELSE IF u \in Above THEN <<>> ELSE uf[u]]
        BY <1>0, <2>3, <3>1, <3>3 DEF Adds
      <4>4. uh = [u \in Var |-> uh[u]]
        BY <3>7
      <4> QED BY <4>2, <4>3, <4>4
    <3> QED BY <1>1, <2>1, <3>2, <3>6, <3>8, <3>9
  <2> QED BY <1>2, <2>2, <2>3 DEF RootStep
<1>3. CASE UNCHANGED <<facts, unit_facts>>
  BY <1>0, <1>1, <1>3
<1>4. CASE Pops
  <2>1. facts' = fs \o uf[TopVar] /\ unit_facts' = [uf EXCEPT ![TopVar] = <<>>]
    BY <1>0, <1>4 DEF Pops, TrailPop
  <2>2. PICK v \in Var : v = TopVar
    BY <1>4, PopFacts
  <2> QED BY <1>1, <2>1, <2>2, ApartPop
<1>5. CASE Learn
  <2>1. \E c : data' = Append(data, c)
    BY <1>5, LearnFacts
  <2>2. PICK y \in Nat : y = Len(data) + 1
    BY <2>1, AppendedSame
  <2>3. ~IsFact(y) /\ NewFact(y)
    BY <1>5, <2>1, <2>2, AppendedSame, FactsNow DEF NewFact
  <2>4. PICK v \in Var : v = TopVar
    BY <1>5, LearnFacts, TopResolves
  <2>5. facts' = fs /\ unit_facts' = [uf EXCEPT ![v] = <<y>> \o @]
    BY <1>0, <1>5, <2>2, <2>4, LearnFacts DEF Learn, learning
  <2>6. ~Waits(y, fs, uf)
    BY <1>1, <2>3
  <2>7. PICK ug : ug = [uf EXCEPT ![v] = <<y>> \o @]
    OBVIOUS
  <2>8. Apart(fs, ug) /\ \A x : Waits(x, fs, ug) => x = y \/ Waits(x, fs, uf)
    BY <1>1, <2>6, <2>7, ApartNew
  <2> QED BY <1>1, <2>3, <2>5, <2>7, <2>8
<1>6. CASE Refuted
  <2>1. facts' = <<>> /\ unit_facts' = uf
    BY <1>0, <1>6 DEF Refuted, assignment
  <2>2. \A x : x \notin Range(<<>>)
    BY DEF Range
  <2> QED BY <1>1, <2>1, <2>2 DEF Apart, Waits
<1>7. CASE FactsDone
  <2>1. PICK v \in Var : v = VarOf(uipLit)
    BY <1>7, FactsDoneFacts
  <2>2. facts' = <<>> /\ (unit_facts' = uf \/ unit_facts' = [uf EXCEPT ![v] = @ \o fs])
    BY <1>0, <1>7, <2>1, FactsDoneFacts
  <2>3. CASE unit_facts' = uf
    <3>1. \A x : x \notin Range(<<>>)
      BY DEF Range
    <3> QED BY <1>1, <2>2, <2>3, <3>1 DEF Apart, Waits
  <2>4. CASE unit_facts' = [uf EXCEPT ![v] = @ \o fs]
    <3>1. PICK ug : ug = [uf EXCEPT ![v] = @ \o fs]
      OBVIOUS
    <3>2. Apart(<<>>, ug) /\ \A y : Waits(y, <<>>, ug) => Waits(y, fs, uf)
      BY <1>1, <3>1, ApartMove
    <3> QED BY <1>1, <2>2, <2>4, <3>1, <3>2
  <2> QED BY <2>2, <2>3, <2>4
<1>8. CASE PropagateFact /\ FactIsWatched(facts[i], data[facts[i]])
  <2>1. i \in 1..Len(fs) /\ facts' = RemoveAt(fs, i) /\ unit_facts' = uf
    BY <1>0, <1>8, PropagateFactCases DEF FactIsWatched, assignment
  <2>2. PICK m \in 1..Len(fs) : m = i
    BY <2>1
  <2> QED BY <1>1, <2>1, <2>2, ApartRemove
<1> QED BY <1>2, <1>3, <1>4, <1>5, <1>6, <1>7, <1>8, FactCases

\* A clause that is watched next was watched, is new, or was the fact tried.
LEMMA WatchedBefore ==
  ASSUME Inv, Next, NEW l \in Lit, NEW x \in Classes(wlist'[l])
  PROVE  \/ \E m \in Lit : x \in Classes(wlist[m])
         \/ x \notin DOMAIN data /\ ~Learn /\ ~\E q : Adds(q)
         \/ PropagateFact /\ FactIsWatched(facts[i], data[facts[i]]) /\ x = facts[i]
<1>1. CASE wlist' = wlist
  BY <1>1
<1>2. CASE VisitClause
  <2>1. CASE VisitSatisfied
    BY <1>1, <2>1 DEF VisitSatisfied
  <2>2. ASSUME NEW p, NEW id, NEW d, Visits(p, id, d), VisitMoves(id, d) \/ VisitKeeps(id, d)
        PROVE  \E m \in Lit : x \in Classes(wlist[m])
    BY <2>2 DEF Visits, VisitMoves, VisitKeeps, Rewatches
  <2> QED BY <1>2, <2>1, <2>2, VisitFacts
<1>3. ASSUME NEW c \in Inputs, AddClause(c)
      PROVE  (\E m \in Lit : x \in Classes(wlist[m])) \/ (x \notin DOMAIN data /\ ~Learn /\ ~\E q : Adds(q))
  <2>1. ASSUME NEW w, Added(c, w), wlist' # wlist
        PROVE  (\E m \in Lit : x \in Classes(wlist[m])) \/ (x \notin DOMAIN data /\ ~Learn /\ ~\E q : Adds(q))
    <3>1. data' = Append(data, w) /\ Len(w) >= 2 /\ wlist' = Watch(wlist, w, Len(data) + 1) /\ w \in Seq(Lit) /\ DistinctVars(w)
      BY <2>1 DEF Added, AddUnit
    <3>2. ~Learn
      BY <1>3 DEF AddClause, Learn
    <3>3. ~\E q : Adds(q)
      <4> SUFFICES ASSUME NEW q, Adds(q) PROVE FALSE
        OBVIOUS
      <4>1. w = <<q>>
        <5>1. data' = Append(data, <<q>>)
          BY DEF Adds
        <5>2. data'[Len(data) + 1] = <<q>>
          BY <5>1, AppendedSame
        <5>3. data'[Len(data) + 1] = w
          BY <3>1, AppendedSame
        <5> QED BY <5>2, <5>3
      <4> QED BY <3>1, <4>1
    <3>4. PICK y \in Nat : y = Len(data) + 1 /\ y \notin DOMAIN data
      BY <3>1, AppendedSame
    <3>5. PICK v, D, E : v = wlist /\ D = data /\ E = data'
      OBVIOUS
    <3>6. v \in [Lit -> Seq(Watchers)] /\ Watches(v, D)
      BY <3>5, ListTypes
    <3>7. \A k \in Lit : \A z \in Classes(v[k]) : E[z] = D[z] /\ D[z] \in Seq(Lit)
      BY <3>1, <3>5, AppendedSame, ListTypes DEF SameClauses
    <3>8. E[y] = w
      BY <3>1, <3>4, <3>5, AppendedSame
    <3>9. \A k \in Lit : y \notin Classes(v[k])
      BY <3>4, <3>5, ListTypes
    <3>10. \A k \in Lit : Classes(Watch(v, w, y)[k]) \subseteq Classes(v[k]) \cup {y}
      BY <3>1, <3>6, <3>7, <3>8, <3>9, WatchNew
    <3> QED BY <3>1, <3>2, <3>3, <3>4, <3>5, <3>10
  <2> QED BY <1>1, <1>3, <2>1, AddClauseCases
<1>4. CASE PropagateFact /\ FactIsWatched(facts[i], data[facts[i]])
  <2>1. i \in 1..Len(facts) /\ wlist' = Watch(wlist, data[facts[i]], facts[i]) /\ Len(data[facts[i]]) >= 2
    BY <1>4, PropagateFactCases DEF FactIsWatched
  <2>2. PICK y \in Nat, w \in Seq(Lit) : y = facts[i] /\ w = data[y] /\ DistinctVars(w) /\ IsFact(y)
    <3>1. facts[i] \in Nat
      BY <2>1, FactsNow
    <3> QED BY <2>1, <3>1, FactFacts
  <2>5. PICK v, D, E : v = wlist /\ D = data /\ E = D
    OBVIOUS
  <2>6. v \in [Lit -> Seq(Watchers)] /\ Watches(v, D)
    BY <2>5, ListTypes
  <2>7. \A k \in Lit : \A z \in Classes(v[k]) : E[z] = D[z] /\ D[z] \in Seq(Lit)
    BY <2>5, ListTypes
  <2>8. E[y] = w
    BY <2>2, <2>5
  <2>9. \A k \in Lit : y \notin Classes(v[k])
    BY <2>2, <2>5, ListTypes
  <2>11. Len(w) >= 2
    BY <2>1, <2>2
  <2>10. \A k \in Lit : Classes(Watch(v, w, y)[k]) \subseteq Classes(v[k]) \cup {y}
    <3>1. y \in Nat /\ w \in Seq(Lit) /\ DistinctVars(w)
      BY <2>2
    <3> QED BY ONLY <3>1, <2>6, <2>7, <2>8, <2>9, <2>11, WatchNew
  <2> QED BY <1>4, <2>1, <2>2, <2>5, <2>10
<1>5. CASE PropagateFact /\ FactIsImplied(facts[i], data[facts[i]])
  BY <1>1, <1>5 DEF FactIsImplied
<1>6. ASSUME NEW num \in 1..MaxAssumptions, PopAssumptions(num) PROVE wlist' = wlist
  BY <1>6, PopAssumptionsFacts
<1> QED BY <1>1, <1>2, <1>3, <1>4, <1>5, <1>6, PropagateFactCases
     DEF Next, Calls, Engine, PushAssumption, Solve, NextLiteral, Restart, Decide, Satisfied, Conflict, SkipLiteral,
         ResolveReason, Recount, Learn, Undo, Refuted, FactsDone, clauses

\* Every step keeps each clause a fact or watched.
LEMMA PlacedNext ==
  ASSUME Inv, Next
  PROVE  Placed'
<1>1. Apart(facts', unit_facts') /\ \A x : Waits(x, facts', unit_facts') => IsFact(x) \/ NewFact(x)
  BY FactsNext
<1>2. ASSUME NEW l \in Lit, NEW x \in Classes(wlist'[l]), Waits(x, facts', unit_facts') PROVE FALSE
  <2>1. CASE \E m \in Lit : x \in Classes(wlist[m])
    <3>1. x \in DOMAIN data /\ ~IsFact(x)
      BY <2>1, ListTypes
    <3>2. NewFact(x)
      BY <1>1, <1>2, <3>1
    <3>3. \E c : data' = Append(data, c)
      BY <3>2, LearnFacts DEF NewFact, Adds
    <3> QED BY <3>1, <3>2, <3>3, AppendedSame DEF NewFact
  <2>2. CASE x \notin DOMAIN data /\ ~Learn /\ ~\E q : Adds(q)
    <3>1. ~IsFact(x)
      BY <2>2, FactsNow
    <3> QED BY <1>1, <1>2, <2>2, <3>1 DEF NewFact
  <2>3. CASE PropagateFact /\ FactIsWatched(facts[i], data[facts[i]]) /\ x = facts[i]
    <3>1. i \in 1..Len(facts) /\ facts' = RemoveAt(facts, i) /\ unit_facts' = unit_facts
      BY <2>3, PropagateFactCases DEF FactIsWatched, assignment
    <3>2. PICK fs \in Seq(Nat) : fs = facts
      BY FactsNow
    <3>4. PICK uf, m : uf = unit_facts /\ m = i
      OBVIOUS
    <3>5. Apart(fs, uf) /\ m \in 1..Len(fs)
      BY <3>1, <3>2, <3>4, FactsNow
    <3>3. ~Waits(fs[m], RemoveAt(fs, m), uf)
      BY <3>5, ApartRemove
    <3> QED BY <1>2, <2>3, <3>1, <3>2, <3>3, <3>4
  <2> QED BY <1>2, <2>1, <2>2, <2>3, WatchedBefore
<1>3. \A l \in Lit, id \in DOMAIN data' : IsWatched(l, id)' => ~IsFact(id)'
  BY <1>2 DEF IsWatched, IsFact, Waits, Classes
<1> QED BY <1>1, <1>3 DEF Placed, Apart

=============================================================================
