------------------------------ MODULE HoldsProofs ------------------------------
(***************************************************************************)
(* What every function of bitvec.c does to the vectors there are, for      *)
(* every number of vectors, of holds and of stages of a shift, and whichever *)
(* operands are the same vector; and from it that no freed vector is used   *)
(* and that every call keeps the promise of Ownership.                     *)
(***************************************************************************)
EXTENDS Holds, FiniteSetTheorems, WellFoundedInduction, NaturalsInduction, TLAPS

-----------------------------------------------------------------------------
(***************************************************************************)
(* Heaps.                                                                  *)
(***************************************************************************)
\* Vectors with their counts, the new ones above the old, and none misused.
IsHeap(h) ==
  /\ h \in [count : {h.count}, next : Nat, bad : {FALSE}]
  /\ Live(h) \subseteq 0..(h.next - 1)
  /\ h.count \in [Live(h) -> Nat]

\* k more holds of one vector do not wrap its count.
Room(h, k) == \A v \in Live(h) : h.count[v] + k < HoldModulus

\* From heap h those of S that nobody holds are freed, and those of V are new.
Gives(h, S, g, V) ==
  /\ IsHeap(g) /\ h.next <= g.next /\ V \subseteq h.next..(g.next - 1)
  /\ Live(g) = {w \in Live(h) : w \notin S \/ h.count[w] > 0} \cup V
  /\ \A w \in V : g.count[w] = 0
  /\ \A w \in Live(g) \ V : g.count[w] = h.count[w]

\* A heap by its parts.
LEMMA HeapOf ==
  ASSUME NEW D, NEW c \in [D -> Nat], NEW n \in Nat, D \subseteq 0..(n - 1),
         NEW h, h = [count |-> c, next |-> n, bad |-> FALSE]
  PROVE  IsHeap(h) /\ Live(h) = D
<1>1. h.count = c /\ h.next = n /\ h.bad = FALSE
  OBVIOUS
<1>2. Live(h) = D
  BY <1>1 DEF Live
<1>3. h \in [count : {h.count}, next : Nat, bad : {FALSE}]
  BY <1>1
<1>4. h.count \in [Live(h) -> Nat] /\ Live(h) \subseteq 0..(h.next - 1)
  BY <1>1, <1>2
<1>5. QED BY <1>2, <1>3, <1>4 DEF IsHeap

\* Reading a vector changes nothing.
LEMMA ReadsLive ==
  ASSUME NEW h, IsHeap(h), NEW v \in Live(h)
  PROVE  Reads(h, v) = h
BY DEF IsHeap, Reads

\* A remainder is the number itself while the number is small.
LEMMA ModSmall ==
  ASSUME NEW a \in Nat, NEW b \in Nat, a < b
  PROVE  a % b = a
OBVIOUS

\* A hold adds one to the count of its vector.
LEMMA HoldLive ==
  ASSUME NEW h, IsHeap(h), NEW v \in Live(h), NEW k \in Nat, Room(h, k + 1)
  PROVE  /\ IsHeap(Hold(h, v)) /\ Live(Hold(h, v)) = Live(h) /\ Hold(h, v).next = h.next
         /\ \A w \in Live(h) :
              Hold(h, v).count[w] = IF w = v THEN h.count[w] + 1 ELSE h.count[w]
         /\ Room(Hold(h, v), k)
<1>1. h.count[v] \in Nat /\ h.count[v] + 1 \in Nat /\ h.count[v] + 1 < HoldModulus
  BY HoldsAssumption DEF IsHeap, Room
<1>2. (h.count[v] + 1) % HoldModulus = h.count[v] + 1
  BY <1>1, HoldsAssumption, ModSmall
<1>3. Hold(h, v) = [h EXCEPT !.count = [h.count EXCEPT ![v] = h.count[v] + 1]]
  BY <1>2 DEF Hold
<1>4. PICK c : c = [h.count EXCEPT ![v] = h.count[v] + 1]
  OBVIOUS
<1>5. c \in [Live(h) -> Nat] /\ \A w \in Live(h) : c[w] = IF w = v THEN h.count[w] + 1 ELSE h.count[w]
  BY <1>1, <1>4 DEF IsHeap
<1>6. Hold(h, v) = [count |-> c, next |-> h.next, bad |-> FALSE]
  BY <1>3, <1>4 DEF IsHeap
<1>7. Live(Hold(h, v)) = Live(h)
  BY <1>5, <1>6 DEF Live
<1>8. IsHeap(Hold(h, v))
  <2>1. h.next \in Nat /\ Live(h) \subseteq 0..(h.next - 1)
    BY DEF IsHeap
  <2>2. QED BY <1>5, <1>6, <2>1, HeapOf
<1>9. \A w \in Live(h) : c[w] + k < HoldModulus
  <2>1. TAKE w \in Live(h)
  <2>2. h.count[w] \in Nat /\ h.count[w] + (k + 1) < HoldModulus /\ HoldModulus \in Nat
    BY HoldsAssumption DEF Room, IsHeap
  <2>3. QED BY <1>5, <2>2
<1>10. Room(Hold(h, v), k)
  BY <1>6, <1>7, <1>9 DEF Room
<1>11. QED BY <1>5, <1>6, <1>7, <1>8, <1>10

\* A release takes one away.
LEMMA ReleaseLive ==
  ASSUME NEW h, IsHeap(h), NEW v \in Live(h), h.count[v] > 0
  PROVE  /\ IsHeap(Release(h, v)) /\ Live(Release(h, v)) = Live(h)
         /\ Release(h, v).next = h.next
         /\ \A w \in Live(h) :
              Release(h, v).count[w] = IF w = v THEN h.count[w] - 1 ELSE h.count[w]
<1>1. h.count[v] \in Nat /\ h.count[v] - 1 \in Nat /\ h.count[v] # 0
  BY DEF IsHeap
<1>2. Release(h, v) = [h EXCEPT !.count = [h.count EXCEPT ![v] = h.count[v] - 1]]
  BY <1>1 DEF Release
<1>3. PICK c : c = [h.count EXCEPT ![v] = h.count[v] - 1]
  OBVIOUS
<1>4. c \in [Live(h) -> Nat] /\ \A w \in Live(h) : c[w] = IF w = v THEN h.count[w] - 1 ELSE h.count[w]
  BY <1>1, <1>3 DEF IsHeap
<1>5. Release(h, v) = [count |-> c, next |-> h.next, bad |-> FALSE]
  BY <1>2, <1>3 DEF IsHeap
<1>6. Live(Release(h, v)) = Live(h)
  BY <1>4, <1>5 DEF Live
<1>7. IsHeap(Release(h, v))
  <2>1. h.next \in Nat /\ Live(h) \subseteq 0..(h.next - 1)
    BY DEF IsHeap
  <2>2. QED BY <1>4, <1>5, <2>1, HeapOf
<1>8. QED BY <1>4, <1>5, <1>6, <1>7

\* A vector is freed if nobody holds it.
LEMMA ConsumeGives ==
  ASSUME NEW h, IsHeap(h), NEW v \in Live(h)
  PROVE  Gives(h, {v}, Consume(h, v), {})
<1>0. h.count[v] \in Nat
  BY DEF IsHeap
<1>1. CASE h.count[v] = 0
  <2>1. PICK D : D = Live(h) \ {v}
    OBVIOUS
  <2>2. PICK c : c = Restrict(h.count, D)
    OBVIOUS
  <2>3. Consume(h, v) = [h EXCEPT !.count = c]
    BY <1>1, <2>1, <2>2 DEF Consume, Live
  <2>4. c \in [D -> Nat] /\ \A w \in D : c[w] = h.count[w]
    BY <2>1, <2>2 DEF Restrict, IsHeap
  <2>5. Consume(h, v) = [count |-> c, next |-> h.next, bad |-> FALSE]
    BY <2>3 DEF IsHeap
  <2>6. Live(Consume(h, v)) = D
    BY <2>4, <2>5 DEF Live
  <2>7. IsHeap(Consume(h, v))
    <3>1. h.next \in Nat /\ D \subseteq 0..(h.next - 1)
      BY <2>1 DEF IsHeap
    <3>2. QED BY <2>4, <2>5, <3>1, HeapOf
  <2>8. D = {w \in Live(h) : w \notin {v} \/ h.count[w] > 0}
    BY <1>1, <2>1
  <2>9. h.next <= Consume(h, v).next
    BY <2>5 DEF IsHeap
  <2>10. \A w \in D : Consume(h, v).count[w] = h.count[w]
    BY <2>4, <2>5
  <2>11. QED BY <2>6, <2>7, <2>8, <2>9, <2>10 DEF Gives
<1>2. CASE h.count[v] # 0
  <2>1. Consume(h, v) = h
    BY <1>2, ReadsLive DEF Consume
  <2>2. Live(h) = {w \in Live(h) : w \notin {v} \/ h.count[w] > 0}
    BY <1>0, <1>2
  <2>3. h.next <= h.next
    BY DEF IsHeap
  <2>4. QED BY <2>1, <2>2, <2>3 DEF Gives
<1>3. QED BY <1>1, <1>2

\* A new vector is above those there are, and nobody holds it.
LEMMA NewGives ==
  ASSUME NEW h, IsHeap(h)
  PROVE  Gives(h, {}, New(h).h, {New(h).v})
<1>1. PICK c : c = With(h.count, h.next, 0)
  OBVIOUS
<1>2. PICK D : D = Live(h) \cup {h.next}
  OBVIOUS
<1>3. h.next \in Nat /\ h.next \notin Live(h)
  BY DEF IsHeap
<1>4. c \in [D -> Nat] /\ c[h.next] = 0 /\ \A w \in Live(h) : c[w] = h.count[w]
  BY <1>1, <1>2, <1>3 DEF With, Live, IsHeap
<1>5. PICK g : g = New(h).h
  OBVIOUS
<1>6. g = [count |-> c, next |-> h.next + 1, bad |-> FALSE] /\ New(h).v = h.next
  BY <1>1, <1>5 DEF New, IsHeap
<1>7. Live(g) = D
  BY <1>4, <1>6 DEF Live
<1>8. IsHeap(g)
  <2>1. h.next + 1 \in Nat /\ D \subseteq 0..((h.next + 1) - 1)
    BY <1>2, <1>3 DEF IsHeap
  <2>2. QED BY <1>4, <1>6, <2>1, HeapOf
<1>9. D = {w \in Live(h) : w \notin {} \/ h.count[w] > 0} \cup {h.next}
  BY <1>2
<1>10. h.next <= g.next /\ {h.next} \subseteq h.next..(g.next - 1)
  BY <1>3, <1>6
<1>11. \A w \in D \ {h.next} : g.count[w] = h.count[w]
  BY <1>2, <1>4, <1>6
<1>12. Gives(h, {}, g, {h.next})
  BY <1>4, <1>6, <1>7, <1>8, <1>9, <1>10, <1>11 DEF Gives
<1>13. QED BY <1>5, <1>6, <1>12

\* One after the other.
LEMMA GivesThen ==
  ASSUME NEW h, IsHeap(h), NEW S, NEW g, NEW V, Gives(h, S, g, V),
         NEW T, NEW k, NEW W, Gives(g, T, k, W),
         NEW U, U = (V \ T) \cup W,
         NEW R, \A w \in Live(h) : h.count[w] = 0 => (w \in R <=> w \in S \cup T)
  PROVE  Gives(h, R, k, U)
<1>1. /\ h.next \in Nat /\ g.next \in Nat /\ k.next \in Nat
      /\ h.next <= g.next /\ g.next <= k.next /\ IsHeap(k)
      /\ V \subseteq h.next..(g.next - 1) /\ W \subseteq g.next..(k.next - 1)
      /\ Live(h) \subseteq 0..(h.next - 1) /\ Live(g) \subseteq 0..(g.next - 1)
      /\ \A w \in Live(h) : h.count[w] \in Nat
  BY DEF Gives, IsHeap
<1>2. U \subseteq h.next..(k.next - 1) /\ h.next <= k.next
  <2>1. h.next..(g.next - 1) \subseteq h.next..(k.next - 1) /\ g.next..(k.next - 1) \subseteq h.next..(k.next - 1)
    BY <1>1
  <2>2. h.next <= k.next
    BY <1>1
  <2>3. QED BY <1>1, <2>1, <2>2
<1>3. V \cap Live(h) = {} /\ W \cap Live(g) = {}
  BY <1>1
<1>4. ASSUME NEW w
      PROVE  w \in Live(k) <=> (w \in Live(h) /\ (w \notin R \/ h.count[w] > 0)) \/ w \in U
  <2>1. w \in Live(k) <=> (w \in Live(g) /\ (w \notin T \/ g.count[w] > 0)) \/ w \in W
    BY DEF Gives
  <2>2. w \in Live(g) <=> (w \in Live(h) /\ (w \notin S \/ h.count[w] > 0)) \/ w \in V
    BY DEF Gives
  <2>3. w \in V => g.count[w] = 0
    BY DEF Gives
  <2>4. w \in Live(g) \ V => g.count[w] = h.count[w]
    BY DEF Gives
  <2>5. w \in Live(h) => h.count[w] \in Nat /\ w \notin V
    BY <1>1, <1>3
  <2>6. CASE w \in V
    BY <1>3, <2>1, <2>2, <2>3, <2>6
  <2>7. CASE w \notin V
    BY <2>1, <2>2, <2>4, <2>5, <2>7
  <2>8. QED BY <2>6, <2>7
<1>5. Live(k) = {w \in Live(h) : w \notin R \/ h.count[w] > 0} \cup U
  BY <1>4
<1>6. \A w \in U : k.count[w] = 0
  <2>1. TAKE w \in U
  <2>2. CASE w \in W
    BY <2>2 DEF Gives
  <2>3. CASE w \in V \ T /\ w \notin W
    <3>1. w \in Live(g) /\ g.count[w] = 0 /\ w \in Live(k)
      BY <2>3 DEF Gives
    <3>2. QED BY <2>3, <3>1 DEF Gives
  <2>4. QED BY <2>2, <2>3
<1>7. \A w \in Live(k) \ U : k.count[w] = h.count[w]
  <2>1. TAKE w \in Live(k) \ U
  <2>2. w \in Live(g) /\ w \notin W /\ (w \notin T \/ g.count[w] > 0)
    BY DEF Gives
  <2>3. w \notin V
    <3>1. w \in V => g.count[w] = 0
      BY DEF Gives
    <3>2. QED BY <2>2, <3>1
  <2>4. QED BY <2>2, <2>3 DEF Gives
<1>8. QED BY <1>1, <1>2, <1>5, <1>6, <1>7 DEF Gives

\* What is said of held vectors does not matter.
LEMMA GivesAlike ==
  ASSUME NEW h, IsHeap(h), NEW S, NEW g, NEW V, Gives(h, S, g, V),
         NEW R, \A w \in Live(h) : h.count[w] = 0 => (w \in R <=> w \in S)
  PROVE  Gives(h, R, g, V)
<1>1. \A w \in Live(h) : h.count[w] \in Nat
  BY DEF IsHeap
<1>2. {w \in Live(h) : w \notin S \/ h.count[w] > 0} = {w \in Live(h) : w \notin R \/ h.count[w] > 0}
  BY <1>1
<1>3. /\ IsHeap(g) /\ h.next <= g.next /\ V \subseteq h.next..(g.next - 1)
      /\ Live(g) = {w \in Live(h) : w \notin S \/ h.count[w] > 0} \cup V
      /\ \A w \in V : g.count[w] = 0
      /\ \A w \in Live(g) \ V : g.count[w] = h.count[w]
  BY DEF Gives
<1>4. Live(g) = {w \in Live(h) : w \notin R \/ h.count[w] > 0} \cup V
  BY <1>2, <1>3
<1>5. QED BY <1>3, <1>4 DEF Gives

\* What is left of a heap is one, with as much room.
LEMMA GivesHeap ==
  ASSUME NEW h, IsHeap(h), NEW S, NEW g, NEW V, Gives(h, S, g, V),
         NEW k \in Nat, k < HoldModulus, Room(h, k)
  PROVE  IsHeap(g) /\ Room(g, k)
<1>1. \A w \in Live(g) : w \in V \/ w \in Live(h)
  BY DEF Gives
<1>2. ASSUME NEW w \in Live(g)
      PROVE  g.count[w] + k < HoldModulus
  <2>1. CASE w \in V
    <3>1. g.count[w] = 0
      BY <2>1 DEF Gives
    <3>2. QED BY <3>1
  <2>2. CASE w \notin V
    <3>1. w \in Live(h) /\ w \in Live(g) \ V
      BY <1>1, <2>2
    <3>2. g.count[w] = h.count[w]
      BY <3>1 DEF Gives
    <3>3. h.count[w] + k < HoldModulus
      BY <3>1 DEF Room
    <3>4. QED BY <3>2, <3>3
  <2>3. QED BY <2>1, <2>2
<1>3. IsHeap(g)
  BY DEF Gives
<1>4. QED BY <1>2, <1>3 DEF Room

\* What is there afterwards.
LEMMA GivesLive ==
  ASSUME NEW h, IsHeap(h), NEW S, NEW g, NEW V, Gives(h, S, g, V)
  PROVE  /\ IsHeap(g) /\ V \subseteq Live(g) /\ V \cap Live(h) = {}
         /\ \A w \in Live(h) : w \notin S \/ h.count[w] > 0 => w \in Live(g)
         /\ \A w \in V : g.count[w] = 0
         /\ \A w \in Live(h) \cap Live(g) : g.count[w] = h.count[w]
<1>1. V \cap Live(h) = {}
  BY DEF Gives, IsHeap
<1>2. QED BY <1>1 DEF Gives

-----------------------------------------------------------------------------
(***************************************************************************)
(* Holds.                                                                  *)
(***************************************************************************)
\* Heaps with the same vectors and counts are the same.
LEMMA SameHeap ==
  ASSUME NEW g, IsHeap(g), NEW k, IsHeap(k), Live(g) = Live(k), g.next = k.next,
         \A w \in Live(g) : g.count[w] = k.count[w]
  PROVE  g = k
<1>1. g.count = k.count
  <2>1. g.count \in [Live(g) -> Nat] /\ k.count \in [Live(g) -> Nat]
    BY DEF IsHeap
  <2>2. QED BY <2>1
<1>2. /\ g = [count |-> g.count, next |-> g.next, bad |-> FALSE]
      /\ k = [count |-> k.count, next |-> k.next, bad |-> FALSE]
  <2>1. /\ g \in [count : {g.count}, next : Nat, bad : {FALSE}]
        /\ k \in [count : {k.count}, next : Nat, bad : {FALSE}]
    BY DEF IsHeap
  <2>2. QED BY ONLY <2>1
<1>3. QED BY <1>1, <1>2

\* The order of two holds does not matter.
LEMMA HoldSwap ==
  ASSUME NEW h, IsHeap(h), NEW x \in Live(h), NEW y \in Live(h), Room(h, 2)
  PROVE  Hold(Hold(h, x), y) = Hold(Hold(h, y), x)
<1>0. 0 + 1 = 1 /\ 1 + 1 = 2
  OBVIOUS
<1>1. ASSUME NEW a \in Live(h), NEW b \in Live(h)
      PROVE  /\ IsHeap(Hold(Hold(h, a), b)) /\ Live(Hold(Hold(h, a), b)) = Live(h)
             /\ Hold(Hold(h, a), b).next = h.next
             /\ \A w \in Live(h) : Hold(Hold(h, a), b).count[w] =
                  (IF w = a THEN h.count[w] + 1 ELSE h.count[w]) + (IF w = b THEN 1 ELSE 0)
  <2>1. PICK g : g = Hold(h, a)
    OBVIOUS
  <2>2. /\ IsHeap(g) /\ Live(g) = Live(h) /\ g.next = h.next /\ Room(g, 1)
        /\ \A w \in Live(h) : g.count[w] = IF w = a THEN h.count[w] + 1 ELSE h.count[w]
    BY <1>0, <2>1, HoldLive
  <2>3. /\ IsHeap(Hold(g, b)) /\ Live(Hold(g, b)) = Live(g) /\ Hold(g, b).next = g.next
        /\ \A w \in Live(g) : Hold(g, b).count[w] = IF w = b THEN g.count[w] + 1 ELSE g.count[w]
    <3>1. Room(g, 0 + 1) /\ b \in Live(g)
      BY <1>0, <2>2
    <3>2. QED BY <2>2, <3>1, HoldLive
  <2>4. \A w \in Live(h) : g.count[w] \in Nat
    BY <2>2 DEF IsHeap
  <2>5. \A w \in Live(h) : Hold(g, b).count[w] = g.count[w] + (IF w = b THEN 1 ELSE 0)
    BY <2>2, <2>3, <2>4
  <2>6. QED BY <2>1, <2>2, <2>3, <2>5
<1>2. \A w \in Live(h) : h.count[w] \in Nat
  BY DEF IsHeap
<1>3. \A w \in Live(h) : Hold(Hold(h, x), y).count[w] = Hold(Hold(h, y), x).count[w]
  BY <1>1, <1>2
<1>4. QED BY <1>1, <1>3, SameHeap

\* What holds a vector and releases it keeps it.
LEMMA ReleaseGives ==
  ASSUME NEW h, IsHeap(h), NEW x \in Live(h), Room(h, 1),
         NEW S, NEW g, NEW V, Gives(Hold(h, x), S, g, V)
  PROVE  Gives(h, S \ {x}, Release(g, x), V)
<1> DEFINE p == Hold(h, x)
           r == Release(g, x)
<1>1. /\ IsHeap(p) /\ Live(p) = Live(h) /\ p.next = h.next
      /\ \A w \in Live(h) : p.count[w] = IF w = x THEN h.count[w] + 1 ELSE h.count[w]
  <2>1. 0 + 1 = 1
    OBVIOUS
  <2>2. QED BY <2>1, HoldLive
<1>2. \A w \in Live(h) : h.count[w] \in Nat
  BY DEF IsHeap
<1>3. /\ IsHeap(g) /\ p.next <= g.next /\ V \subseteq p.next..(g.next - 1)
      /\ Live(g) = {w \in Live(p) : w \notin S \/ p.count[w] > 0} \cup V
      /\ \A w \in V : g.count[w] = 0
      /\ \A w \in Live(g) \ V : g.count[w] = p.count[w]
  BY DEF Gives
<1>4. x \notin V /\ x \in Live(g) /\ g.count[x] = h.count[x] + 1
  <2>1. x \notin V
    BY <1>1, <1>3 DEF IsHeap
  <2>2. x \in Live(g)
    BY <1>1, <1>2, <1>3
  <2>3. QED BY <1>1, <1>3, <2>1, <2>2
<1>5. /\ IsHeap(r) /\ Live(r) = Live(g) /\ r.next = g.next
      /\ \A w \in Live(g) : r.count[w] = IF w = x THEN g.count[w] - 1 ELSE g.count[w]
  <2>1. g.count[x] > 0
    BY <1>2, <1>4
  <2>2. QED BY <1>3, <1>4, <2>1, ReleaseLive
<1> HIDE DEF p, r
<1>6. \A w : w \in Live(r) <=> (w \in Live(h) /\ (w \notin S \ {x} \/ h.count[w] > 0)) \/ w \in V
  BY <1>1, <1>2, <1>3, <1>5
<1>7. Live(r) = {w \in Live(h) : w \notin S \ {x} \/ h.count[w] > 0} \cup V
  BY <1>6
<1>8. \A w \in V : r.count[w] = 0
  BY <1>3, <1>4, <1>5
<1>9. \A w \in Live(r) \ V : r.count[w] = h.count[w]
  <2>1. TAKE w \in Live(r) \ V
  <2>2. w \in Live(h) /\ g.count[w] = p.count[w]
    BY <1>3, <1>5, <1>6
  <2>3. QED BY <1>1, <1>2, <1>4, <1>5, <2>2
<1>10. Gives(h, S \ {x}, r, V)
  BY <1>1, <1>3, <1>5, <1>7, <1>8, <1>9 DEF Gives
<1>11. QED BY <1>10 DEF r

\* What holds a vector, releases and consumes it frees it if nobody else holds it.
LEMMA ReleaseConsumeGives ==
  ASSUME NEW h, IsHeap(h), NEW x \in Live(h), Room(h, 1),
         NEW S, NEW g, NEW V, Gives(Hold(h, x), S, g, V)
  PROVE  Gives(h, S \cup {x}, ReleaseConsume(g, x), V)
<1>1. PICK r : r = Release(g, x) /\ Gives(h, S \ {x}, r, V)
  BY ReleaseGives
<1>2. IsHeap(r) /\ x \in Live(r) /\ x \notin V
  BY <1>1, GivesLive
<1>3. Gives(r, {x}, Consume(r, x), {})
  BY <1>2, ConsumeGives
<1>4. V = (V \ {x}) \cup {}
  BY <1>2
<1>5. \A w \in Live(h) : h.count[w] = 0 => (w \in S \cup {x} <=> w \in (S \ {x}) \cup {x})
  OBVIOUS
<1>6. Gives(h, S \cup {x}, Consume(r, x), V)
  BY <1>1, <1>3, <1>4, <1>5, GivesThen
<1>7. QED BY <1>1, <1>6 DEF ReleaseConsume

\* Two holds.
LEMMA HoldBothLive ==
  ASSUME NEW h, IsHeap(h), NEW x \in Live(h), NEW y \in Live(h), NEW k \in Nat, Room(h, k + 2)
  PROVE  /\ IsHeap(HoldBoth(h, x, y)) /\ Live(HoldBoth(h, x, y)) = Live(h)
         /\ HoldBoth(h, x, y).next = h.next /\ Room(HoldBoth(h, x, y), k)
         /\ HoldBoth(h, x, y).count[x] > 0 /\ HoldBoth(h, x, y).count[y] > 0
         /\ \A w \in Live(h) : /\ h.count[w] > 0 => HoldBoth(h, x, y).count[w] > 0
                               /\ w \notin {x, y} => HoldBoth(h, x, y).count[w] = h.count[w]
<1>1. k + 1 \in Nat /\ (k + 1) + 1 = k + 2
  OBVIOUS
<1>2. PICK g : g = Hold(h, x)
  OBVIOUS
<1>3. /\ IsHeap(g) /\ Live(g) = Live(h) /\ g.next = h.next /\ Room(g, k + 1)
      /\ \A w \in Live(h) : g.count[w] = IF w = x THEN h.count[w] + 1 ELSE h.count[w]
  BY <1>1, <1>2, HoldLive
<1>4. /\ IsHeap(Hold(g, y)) /\ Live(Hold(g, y)) = Live(h) /\ Hold(g, y).next = h.next
      /\ Room(Hold(g, y), k)
      /\ \A w \in Live(h) : Hold(g, y).count[w] = IF w = y THEN g.count[w] + 1 ELSE g.count[w]
  BY <1>3, HoldLive
<1>5. \A w \in Live(h) : h.count[w] \in Nat /\ g.count[w] \in Nat
  BY <1>3 DEF IsHeap
<1>6. \A w \in Live(h) : /\ h.count[w] > 0 => g.count[w] > 0
                         /\ g.count[w] > 0 => Hold(g, y).count[w] > 0
  BY <1>3, <1>4, <1>5
<1>7. g.count[x] > 0 /\ Hold(g, y).count[y] > 0
  BY <1>3, <1>4, <1>5
<1>8. HoldBoth(h, x, y) = Hold(g, y)
  BY <1>2 DEF HoldBoth
<1>9. \A w \in Live(h) : w \notin {x, y} => Hold(g, y).count[w] = h.count[w]
  BY <1>3, <1>4
<1>10. QED BY <1>4, <1>6, <1>7, <1>8, <1>9

\* What holds two vectors, releases and consumes them.
LEMMA ReleaseBothGives ==
  ASSUME NEW h, IsHeap(h), NEW x \in Live(h), NEW y \in Live(h), Room(h, 2),
         NEW S, NEW g, NEW V, Gives(HoldBoth(h, x, y), S, g, V)
  PROVE  Gives(h, S \cup {x, y}, ReleaseBoth(g, x, y), V)
<1>1. PICK p : p = Hold(h, y)
  OBVIOUS
<1>2. IsHeap(p) /\ Live(p) = Live(h) /\ Room(p, 1) /\ Room(h, 1)
  <2>1. 1 + 1 = 2
    OBVIOUS
  <2>2. IsHeap(p) /\ Live(p) = Live(h) /\ Room(p, 1)
    BY <1>1, <2>1, HoldLive
  <2>3. Room(h, 1)
    BY HoldsAssumption DEF Room, IsHeap
  <2>4. QED BY <2>2, <2>3
<1>3. HoldBoth(h, x, y) = Hold(p, x)
  BY <1>1, HoldSwap DEF HoldBoth
<1>4. PICK r : r = ReleaseConsume(g, x) /\ Gives(p, S \cup {x}, r, V)
  BY <1>2, <1>3, ReleaseConsumeGives
<1>5. Gives(h, (S \cup {x}) \cup {y}, ReleaseConsume(r, y), V)
  BY <1>1, <1>2, <1>4, ReleaseConsumeGives
<1>6. (S \cup {x}) \cup {y} = S \cup {x, y}
  OBVIOUS
<1>7. QED BY <1>4, <1>5, <1>6 DEF ReleaseBoth

-----------------------------------------------------------------------------
(***************************************************************************)
(* The functions: each frees the vectors it is passed that nobody holds,   *)
(* and makes what it returns.                                              *)
(***************************************************************************)
\* Nothing happens to vectors that are held.
LEMMA GivesSelf ==
  ASSUME NEW h, IsHeap(h), NEW S, \A w \in Live(h) : w \in S => h.count[w] > 0
  PROVE  Gives(h, S, h, {})
<1>1. h.next <= h.next
  BY DEF IsHeap
<1>2. Live(h) = {w \in Live(h) : w \notin S \/ h.count[w] > 0} \cup {}
  OBVIOUS
<1>3. QED BY <1>1, <1>2 DEF Gives

\* Another new vector.
LEMMA NewAfter ==
  ASSUME NEW h, IsHeap(h), NEW S, NEW g, NEW V, Gives(h, S, g, V)
  PROVE  Gives(h, S, New(g).h, V \cup {New(g).v})
<1>1. IsHeap(g)
  BY GivesLive
<1>2. PICK k, n : k = New(g).h /\ n = New(g).v /\ Gives(g, {}, k, {n})
  BY <1>1, NewGives
<1>3. V \cup {n} = (V \ {}) \cup {n}
  OBVIOUS
<1>4. \A w \in Live(h) : h.count[w] = 0 => (w \in S <=> w \in S \cup {})
  OBVIOUS
<1>5. Gives(h, S, k, V \cup {n})
  BY <1>2, <1>3, <1>4, GivesThen
<1>6. QED BY <1>2, <1>5

\* A vector that was there, or is new, is freed.
LEMMA ConsumeAfter ==
  ASSUME NEW h, IsHeap(h), NEW S, NEW g, NEW V, Gives(h, S, g, V), NEW v \in Live(g),
         NEW R, \A w \in Live(h) : h.count[w] = 0 => (w \in R <=> w \in S \cup {v})
  PROVE  Gives(h, R, Consume(g, v), V \ {v})
<1>1. IsHeap(g)
  BY GivesLive
<1>2. Gives(g, {v}, Consume(g, v), {})
  BY <1>1, ConsumeGives
<1>3. V \ {v} = (V \ {v}) \cup {}
  OBVIOUS
<1>4. QED BY <1>2, <1>3, GivesThen

\* One operand.
LEMMA SpendGives ==
  ASSUME NEW h, IsHeap(h), NEW x \in Live(h)
  PROVE  Gives(h, {x}, Consume(Reads(h, x), x), {})
BY ReadsLive, ConsumeGives

\* A new vector for one operand.
LEMMA InvertGives ==
  ASSUME NEW h, IsHeap(h), NEW x \in Live(h)
  PROVE  Gives(h, {x}, bfvInvert(h, x).h, {bfvInvert(h, x).v})
<1>1. PICK g : g = Consume(Reads(h, x), x) /\ Gives(h, {x}, g, {})
  BY SpendGives
<1>2. Gives(h, {x}, New(g).h, {} \cup {New(g).v})
  BY <1>1, NewAfter
<1>3. {} \cup {New(g).v} = {New(g).v}
  OBVIOUS
<1>4. bfvInvert(h, x) = New(g)
  BY <1>1 DEF bfvInvert
<1>5. QED BY <1>2, <1>3, <1>4

\* Two operands, freed once if they are the same vector.
LEMMA ConsumeBothGives ==
  ASSUME NEW h, IsHeap(h), NEW x \in Live(h), NEW y \in Live(h)
  PROVE  Gives(h, {x, y}, ConsumeBoth(h, x, y), {})
<1>1. Reads(Reads(h, x), y) = h
  BY ReadsLive
<1>2. CASE x = y
  <2>1. ConsumeBoth(h, x, y) = Consume(h, x)
    BY <1>1, <1>2 DEF ConsumeBoth
  <2>2. {x} = {x, y}
    BY <1>2
  <2>3. Gives(h, {x}, Consume(h, x), {})
    BY ConsumeGives
  <2>4. QED BY <2>1, <2>2, <2>3
<1>3. CASE x # y
  <2>1. PICK g : g = Consume(h, x) /\ Gives(h, {x}, g, {})
    BY ConsumeGives
  <2>2. y \in Live(g)
    BY <1>3, <2>1, GivesLive
  <2>3. \A w \in Live(h) : h.count[w] = 0 => (w \in {x, y} <=> w \in {x} \cup {y})
    OBVIOUS
  <2>4. Gives(h, {x, y}, Consume(g, y), {} \ {y})
    BY <2>1, <2>2, <2>3, ConsumeAfter
  <2>5. ConsumeBoth(h, x, y) = Consume(g, y) /\ {} \ {y} = {}
    BY <1>1, <1>3, <2>1 DEF ConsumeBoth
  <2>6. QED BY <2>4, <2>5
<1>4. QED BY <1>2, <1>3

\* bfvAnd and its like.
LEMMA AndGives ==
  ASSUME NEW h, IsHeap(h), NEW x \in Live(h), NEW y \in Live(h)
  PROVE  Gives(h, {x, y}, bfvAnd(h, x, y).h, {bfvAnd(h, x, y).v})
<1>1. PICK g : g = ConsumeBoth(h, x, y) /\ Gives(h, {x, y}, g, {})
  BY ConsumeBothGives
<1>2. Gives(h, {x, y}, New(g).h, {} \cup {New(g).v})
  BY <1>1, NewAfter
<1>3. {} \cup {New(g).v} = {New(g).v}
  OBVIOUS
<1>4. QED BY <1>1, <1>2, <1>3 DEF bfvAnd

\* bfvSelect frees both without asking: they must not be one vector, unless it
\* is held.
LEMMA SelectGives ==
  ASSUME NEW h, IsHeap(h), NEW x \in Live(h), NEW y \in Live(h), x # y \/ h.count[x] > 0
  PROVE  Gives(h, {x, y}, bfvSelect(h, x, y).h, {bfvSelect(h, x, y).v})
<1>1. Reads(Reads(h, x), y) = h
  BY ReadsLive
<1>2. PICK g : g = Consume(h, x) /\ Gives(h, {x}, g, {})
  BY ConsumeGives
<1>3. y \in Live(g)
  <2>1. y \notin {x} \/ h.count[y] > 0
    OBVIOUS
  <2>2. QED BY <1>2, <2>1, GivesLive
<1>4. \A w \in Live(h) : h.count[w] = 0 => (w \in {x, y} <=> w \in {x} \cup {y})
  OBVIOUS
<1>5. PICK k : k = Consume(g, y) /\ Gives(h, {x, y}, k, {} \ {y})
  BY <1>2, <1>3, <1>4, ConsumeAfter
<1>6. Gives(h, {x, y}, New(k).h, ({} \ {y}) \cup {New(k).v})
  BY <1>5, NewAfter
<1>7. ({} \ {y}) \cup {New(k).v} = {New(k).v}
  OBVIOUS
<1>8. bfvSelect(h, x, y) = New(k)
  BY <1>1, <1>2, <1>5 DEF bfvSelect
<1>9. QED BY <1>6, <1>7, <1>8

\* bfvEqual, and what bfvConcat does before it makes its vector.
LEMMA EqualGives ==
  ASSUME NEW h, IsHeap(h), NEW x \in Live(h), NEW y \in Live(h), Room(h, 2)
  PROVE  Gives(h, {x, y}, bfvEqual(h, x, y), {})
<1>1. PICK g : g = HoldBoth(h, x, y)
  OBVIOUS
<1>2. IsHeap(g)
  <2>1. Room(h, 0 + 2) /\ 0 \in Nat
    OBVIOUS
  <2>2. QED BY <1>1, <2>1, HoldBothLive
<1>3. Gives(g, {}, g, {})
  BY <1>2, GivesSelf
<1>4. Gives(h, {} \cup {x, y}, ReleaseBoth(g, x, y), {})
  BY <1>1, <1>3, ReleaseBothGives
<1>5. {} \cup {x, y} = {x, y}
  OBVIOUS
<1>6. QED BY <1>1, <1>4, <1>5 DEF bfvEqual

\* bfvConcat and bfvMul.
LEMMA ConcatGives ==
  ASSUME NEW h, IsHeap(h), NEW x \in Live(h), NEW y \in Live(h), Room(h, 2)
  PROVE  Gives(h, {x, y}, bfvConcat(h, x, y).h, {bfvConcat(h, x, y).v})
<1>1. PICK g : g = bfvEqual(h, x, y) /\ Gives(h, {x, y}, g, {})
  BY EqualGives
<1>2. Gives(h, {x, y}, New(g).h, {} \cup {New(g).v})
  BY <1>1, NewAfter
<1>3. {} \cup {New(g).v} = {New(g).v}
  OBVIOUS
<1>4. bfvConcat(h, x, y) = New(g)
  BY <1>1 DEF bfvConcat, bfvEqual
<1>5. QED BY <1>2, <1>3, <1>4

\* bfvUlt.
LEMMA UltGives ==
  ASSUME NEW h, IsHeap(h), NEW x \in Live(h), NEW y \in Live(h)
  PROVE  Gives(h, {x, y}, bfvUlt(h, x, y), {})
BY ConsumeBothGives DEF bfvUlt

\* bfvUlte holds its operands for the two comparisons it makes of them.
LEMMA UlteGives ==
  ASSUME NEW h, IsHeap(h), NEW x \in Live(h), NEW y \in Live(h), Room(h, 4)
  PROVE  Gives(h, {x, y}, bfvUlte(h, x, y), {})
<1>1. PICK p : p = HoldBoth(h, x, y)
  OBVIOUS
<1>2. IsHeap(p) /\ Live(p) = Live(h) /\ Room(p, 2) /\ p.count[x] > 0 /\ p.count[y] > 0
  <2>1. Room(h, 2 + 2) /\ 2 \in Nat
    OBVIOUS
  <2>2. QED BY <1>1, <2>1, HoldBothLive
<1>3. PICK g : g = bfvUlt(p, x, y) /\ Gives(p, {x, y}, g, {})
  BY <1>2, UltGives
<1>4. IsHeap(g) /\ x \in Live(g) /\ y \in Live(g) /\ Room(g, 2)
  <2>1. 2 < HoldModulus
    BY HoldsAssumption
  <2>2. IsHeap(g) /\ Room(g, 2)
    BY <1>2, <1>3, <2>1, GivesHeap
  <2>3. x \in Live(g) /\ y \in Live(g)
    BY <1>2, <1>3, GivesLive
  <2>4. QED BY <2>2, <2>3
<1>5. PICK k : k = bfvEqual(g, x, y) /\ Gives(g, {x, y}, k, {})
  BY <1>4, EqualGives
<1>6. Gives(p, {x, y}, k, {})
  <2>1. {} = ({} \ {x, y}) \cup {}
    OBVIOUS
  <2>2. \A w \in Live(p) : p.count[w] = 0 => (w \in {x, y} <=> w \in {x, y} \cup {x, y})
    OBVIOUS
  <2>3. QED BY <1>2, <1>3, <1>5, <2>1, <2>2, GivesThen
<1>7. Room(h, 2)
  BY HoldsAssumption DEF Room, IsHeap
<1>8. Gives(h, {x, y} \cup {x, y}, ReleaseBoth(k, x, y), {})
  BY <1>1, <1>6, <1>7, ReleaseBothGives
<1>9. {x, y} \cup {x, y} = {x, y}
  OBVIOUS
<1>10. QED BY <1>1, <1>3, <1>5, <1>8, <1>9 DEF bfvUlte

\* bfvSubtract frees the second operand before it reads the first.
LEMMA SubtractGives ==
  ASSUME NEW h, IsHeap(h), NEW x \in Live(h), NEW y \in Live(h), x # y \/ h.count[x] > 0
  PROVE  Gives(h, {x, y}, bfvSubtract(h, x, y).h, {bfvSubtract(h, x, y).v})
<1>1. PICK n : n = bfvInvert(h, y)
  OBVIOUS
<1>2. Gives(h, {y}, n.h, {n.v})
  BY <1>1, InvertGives
<1>3. IsHeap(n.h) /\ n.v \in Live(n.h) /\ x \in Live(n.h) /\ n.v \notin Live(h)
  <2>1. x \notin {y} \/ h.count[x] > 0
    OBVIOUS
  <2>2. QED BY <1>2, <2>1, GivesLive
<1>4. PICK r : r = bfvAnd(n.h, x, n.v) /\ Gives(n.h, {x, n.v}, r.h, {r.v})
  BY <1>3, AndGives
<1>5. {r.v} = ({n.v} \ {x, n.v}) \cup {r.v}
  OBVIOUS
<1>6. \A w \in Live(h) : h.count[w] = 0 => (w \in {x, y} <=> w \in {y} \cup {x, n.v})
  BY <1>3
<1>7. Gives(h, {x, y}, r.h, {r.v})
  BY <1>2, <1>4, <1>5, <1>6, GivesThen
<1>8. bfvSubtract(h, x, y) = r
  BY <1>1, <1>4 DEF bfvSubtract, After
<1>9. QED BY <1>7, <1>8

\* Less room is room.
LEMMA LessRoom ==
  ASSUME NEW h, IsHeap(h), NEW k \in Nat, NEW j \in 0..k, Room(h, k)
  PROVE  Room(h, j)
<1>1. SUFFICES ASSUME NEW v \in Live(h) PROVE h.count[v] + j < HoldModulus
  BY DEF Room
<1>2. h.count[v] \in Nat /\ h.count[v] + k < HoldModulus
  BY DEF Room, IsHeap
<1>3. QED BY <1>2, HoldsAssumption

\* One hold, of a vector that has room for it.
LEMMA HoldOne ==
  ASSUME NEW h, IsHeap(h), NEW x \in Live(h), NEW k \in Nat, Room(h, k + 1)
  PROVE  /\ IsHeap(Hold(h, x)) /\ Live(Hold(h, x)) = Live(h) /\ Hold(h, x).next = h.next
         /\ Hold(h, x).count[x] > 0 /\ Room(Hold(h, x), k) /\ Room(h, 1)
         /\ \A w \in Live(h) : h.count[w] > 0 => Hold(h, x).count[w] > 0
<1>1. /\ IsHeap(Hold(h, x)) /\ Live(Hold(h, x)) = Live(h) /\ Hold(h, x).next = h.next
      /\ \A w \in Live(h) :
           Hold(h, x).count[w] = IF w = x THEN h.count[w] + 1 ELSE h.count[w]
      /\ Room(Hold(h, x), k)
  BY HoldLive
<1>2. \A w \in Live(h) : h.count[w] \in Nat
  BY DEF IsHeap
<1>3. Room(h, 1)
  <2>1. k + 1 \in Nat /\ 1 \in 0..(k + 1)
    OBVIOUS
  <2>2. QED BY <2>1, LessRoom
<1>4. QED BY <1>1, <1>2, <1>3

\* bfvAbsoluteValue inverts its operand, and holds it to choose between the two.
LEMMA AbsoluteGives ==
  ASSUME NEW h, IsHeap(h), NEW x \in Live(h), Room(h, 1)
  PROVE  Gives(h, {x}, bfvAbsoluteValue(h, x).h, {bfvAbsoluteValue(h, x).v})
<1>1. PICK p : p = Hold(h, x)
  OBVIOUS
<1>2. IsHeap(p) /\ Live(p) = Live(h) /\ p.count[x] > 0
  <2>1. Room(h, 0 + 1) /\ 0 \in Nat
    OBVIOUS
  <2>2. QED BY <1>1, <2>1, HoldOne
<1>3. PICK inv : inv = bfvInvert(p, x) /\ Gives(p, {x}, inv.h, {inv.v})
  BY <1>2, InvertGives
<1>4. /\ IsHeap(inv.h) /\ inv.v \in Live(inv.h) /\ inv.v \notin Live(p)
      /\ x \in Live(inv.h) /\ inv.v # x
  BY <1>2, <1>3, GivesLive
<1>5. PICK ret : ret = bfvSelect(inv.h, inv.v, x) /\ Gives(inv.h, {inv.v, x}, ret.h, {ret.v})
  BY <1>4, SelectGives
<1>6. Gives(p, {x}, ret.h, {ret.v})
  <2>1. {ret.v} = ({inv.v} \ {inv.v, x}) \cup {ret.v}
    OBVIOUS
  <2>2. \A w \in Live(p) : p.count[w] = 0 => (w \in {x} <=> w \in {x} \cup {inv.v, x})
    BY <1>4
  <2>3. QED BY <1>2, <1>3, <1>5, <2>1, <2>2, GivesThen
<1>7. Gives(h, {x} \cup {x}, ReleaseConsume(ret.h, x), {ret.v})
  BY <1>1, <1>6, ReleaseConsumeGives
<1>8. {x} \cup {x} = {x}
  OBVIOUS
<1>9. bfvAbsoluteValue(h, x) = [h |-> ReleaseConsume(ret.h, x), v |-> ret.v]
  BY <1>1, <1>3, <1>5 DEF bfvAbsoluteValue, After
<1>10. QED BY <1>7, <1>8, <1>9

\* bfvSgtZero subtracts its operand from something made of it.
LEMMA SgtZeroGives ==
  ASSUME NEW h, IsHeap(h), NEW x \in Live(h), Room(h, 1)
  PROVE  Gives(h, {x}, bfvSgtZero(h, x), {})
<1>1. PICK p : p = Hold(h, x)
  OBVIOUS
<1>2. IsHeap(p) /\ Live(p) = Live(h) /\ p.count[x] > 0
  <2>1. Room(h, 0 + 1) /\ 0 \in Nat
    OBVIOUS
  <2>2. QED BY <1>1, <2>1, HoldOne
<1>3. PICK half : half = bfvInvert(p, x) /\ Gives(p, {x}, half.h, {half.v})
  BY <1>2, InvertGives
<1>4. /\ IsHeap(half.h) /\ half.v \in Live(half.h) /\ half.v \notin Live(p)
      /\ x \in Live(half.h) /\ half.v # x
  BY <1>2, <1>3, GivesLive
<1>5. PICK sub : sub = bfvSubtract(half.h, half.v, x) /\ Gives(half.h, {half.v, x}, sub.h, {sub.v})
  BY <1>4, SubtractGives
<1>6. Gives(p, {x}, sub.h, {sub.v})
  <2>1. {sub.v} = ({half.v} \ {half.v, x}) \cup {sub.v}
    OBVIOUS
  <2>2. \A w \in Live(p) : p.count[w] = 0 => (w \in {x} <=> w \in {x} \cup {half.v, x})
    BY <1>4
  <2>3. QED BY <1>2, <1>3, <1>5, <2>1, <2>2, GivesThen
<1>7. PICK g : g = ReleaseConsume(sub.h, x) /\ Gives(h, {x} \cup {x}, g, {sub.v})
  BY <1>1, <1>6, ReleaseConsumeGives
<1>8. sub.v \in Live(g) /\ sub.v \notin Live(h)
  BY <1>7, GivesLive
<1>9. \A w \in Live(h) : h.count[w] = 0 => (w \in {x} <=> w \in ({x} \cup {x}) \cup {sub.v})
  BY <1>8
<1>10. Gives(h, {x}, Consume(g, sub.v), {sub.v} \ {sub.v})
  BY <1>7, <1>8, <1>9, ConsumeAfter
<1>11. {sub.v} \ {sub.v} = {}
  OBVIOUS
<1>12. bfvSgtZero(h, x) = Consume(g, sub.v)
  BY <1>1, <1>3, <1>5, <1>7 DEF bfvSgtZero, After
<1>13. QED BY <1>10, <1>11, <1>12

\* bfvQuotRem makes its two results and a vector it frees itself.
LEMMA QuotRemGives ==
  ASSUME NEW h, IsHeap(h), NEW x \in Live(h), NEW y \in Live(h)
  PROVE  /\ Gives(h, {x, y}, bfvQuotRem(h, x, y).h,
                  {bfvQuotRem(h, x, y).quot, bfvQuotRem(h, x, y).rem})
         /\ bfvQuotRem(h, x, y).quot # bfvQuotRem(h, x, y).rem
<1>1. PICK rem : rem = New(h) /\ Gives(h, {}, rem.h, {rem.v})
  BY NewGives
<1>2. PICK quot : quot = New(rem.h) /\ Gives(h, {}, quot.h, {rem.v} \cup {quot.v})
  BY <1>1, NewAfter
<1>3. quot.v # rem.v
  <2>1. rem.v \in Live(rem.h) /\ IsHeap(rem.h)
    BY <1>1, GivesLive
  <2>2. Gives(rem.h, {}, quot.h, {quot.v})
    BY <1>2, <2>1, NewGives
  <2>3. {quot.v} \cap Live(rem.h) = {}
    BY <2>1, <2>2, GivesLive
  <2>4. QED BY <2>1, <2>3
<1>4. PICK tmp : tmp = New(quot.h) /\ Gives(h, {}, tmp.h, ({rem.v} \cup {quot.v}) \cup {tmp.v})
  BY <1>2, NewAfter
<1>5. tmp.v \notin {rem.v, quot.v}
  <2>1. rem.v \in Live(quot.h) /\ quot.v \in Live(quot.h) /\ IsHeap(quot.h)
    BY <1>2, GivesLive
  <2>2. Gives(quot.h, {}, tmp.h, {tmp.v})
    BY <1>4, <2>1, NewGives
  <2>3. {tmp.v} \cap Live(quot.h) = {}
    BY <2>1, <2>2, GivesLive
  <2>4. QED BY <2>1, <2>3
<1>6. PICK g : g = Consume(tmp.h, tmp.v) /\ Gives(h, {}, g, {quot.v, rem.v})
  <2>1. tmp.v \in Live(tmp.h) /\ tmp.v \notin Live(h)
    BY <1>4, GivesLive
  <2>2. \A w \in Live(h) : h.count[w] = 0 => (w \in {} <=> w \in {} \cup {tmp.v})
    BY <2>1
  <2>3. Gives(h, {}, Consume(tmp.h, tmp.v), (({rem.v} \cup {quot.v}) \cup {tmp.v}) \ {tmp.v})
    BY <1>4, <2>1, <2>2, ConsumeAfter
  <2>4. (({rem.v} \cup {quot.v}) \cup {tmp.v}) \ {tmp.v} = {quot.v, rem.v}
    BY <1>5
  <2>5. QED BY <2>3, <2>4
<1>7. IsHeap(g) /\ x \in Live(g) /\ y \in Live(g) /\ quot.v \notin Live(h) /\ rem.v \notin Live(h)
  BY <1>6, GivesLive
<1>8. PICK k : k = ConsumeBoth(g, x, y) /\ Gives(g, {x, y}, k, {})
  BY <1>7, ConsumeBothGives
<1>9. Gives(h, {x, y}, k, {quot.v, rem.v})
  <2>1. {quot.v, rem.v} = ({quot.v, rem.v} \ {x, y}) \cup {}
    BY <1>7
  <2>2. \A w \in Live(h) : h.count[w] = 0 => (w \in {x, y} <=> w \in {} \cup {x, y})
    OBVIOUS
  <2>3. QED BY <1>6, <1>8, <2>1, <2>2, GivesThen
<1>10. bfvQuotRem(h, x, y) = [h |-> k, quot |-> quot.v, rem |-> rem.v]
  BY <1>1, <1>2, <1>4, <1>6, <1>8 DEF bfvQuotRem, After
<1>11. QED BY <1>3, <1>9, <1>10

\* bfvQuot and bfvRem free the other result.
LEMMA QuotGives ==
  ASSUME NEW h, IsHeap(h), NEW x \in Live(h), NEW y \in Live(h)
  PROVE  /\ Gives(h, {x, y}, bfvQuot(h, x, y).h, {bfvQuot(h, x, y).v})
         /\ Gives(h, {x, y}, bfvRem(h, x, y).h, {bfvRem(h, x, y).v})
<1>0. PICK d : d = bfvQuotRem(h, x, y)
  OBVIOUS
<1>1. d = bfvQuotRem(h, x, y) /\ Gives(h, {x, y}, d.h, {d.quot, d.rem}) /\ d.quot # d.rem
  BY <1>0, QuotRemGives
<1>2. {d.quot, d.rem} \subseteq Live(d.h) /\ {d.quot, d.rem} \cap Live(h) = {}
  BY <1>1, GivesLive
<1>3. ASSUME NEW v \in {d.quot, d.rem}
      PROVE  Gives(h, {x, y}, Consume(d.h, v), {d.quot, d.rem} \ {v})
  <2>1. v \in Live(d.h) /\ \A w \in Live(h) : h.count[w] = 0 => (w \in {x, y} <=> w \in {x, y} \cup {v})
    BY <1>2
  <2>2. QED BY <1>1, <2>1, ConsumeAfter
<1>4. {d.quot, d.rem} \ {d.rem} = {d.quot} /\ {d.quot, d.rem} \ {d.quot} = {d.rem}
  BY <1>1
<1>5. /\ bfvQuot(h, x, y) = [h |-> Consume(d.h, d.rem), v |-> d.quot]
      /\ bfvRem(h, x, y) = [h |-> Consume(d.h, d.quot), v |-> d.rem]
  BY <1>1 DEF bfvQuot, bfvRem, After
<1>6. Gives(h, {x, y}, Consume(d.h, d.rem), {d.quot}) /\ Gives(h, {x, y}, Consume(d.h, d.quot), {d.rem})
  BY <1>3, <1>4
<1>7. QED BY <1>5, <1>6

\* The vector or its negation.
LEMMA SignedGives ==
  ASSUME NEW h, IsHeap(h), NEW x \in Live(h), Room(h, 1)
  PROVE  Gives(h, {x}, Signed(h, x).h, {Signed(h, x).v})
<1>1. PICK p : p = Hold(h, x)
  OBVIOUS
<1>2. IsHeap(p) /\ Live(p) = Live(h)
  <2>1. Room(h, 0 + 1) /\ 0 \in Nat
    OBVIOUS
  <2>2. QED BY <1>1, <2>1, HoldOne
<1>3. PICK neg : neg = bfvInvert(p, x) /\ Gives(p, {x}, neg.h, {neg.v})
  BY <1>2, InvertGives
<1>4. PICK g : g = Release(neg.h, x) /\ Gives(h, {x} \ {x}, g, {neg.v})
  BY <1>1, <1>3, ReleaseGives
<1>5. IsHeap(g) /\ neg.v \in Live(g) /\ x \in Live(g) /\ neg.v \notin Live(h) /\ neg.v # x
  BY <1>4, GivesLive
<1>6. PICK r : r = bfvSelect(g, neg.v, x) /\ Gives(g, {neg.v, x}, r.h, {r.v})
  BY <1>5, SelectGives
<1>7. Gives(h, {x}, r.h, {r.v})
  <2>1. {r.v} = ({neg.v} \ {neg.v, x}) \cup {r.v}
    OBVIOUS
  <2>2. \A w \in Live(h) : h.count[w] = 0 => (w \in {x} <=> w \in ({x} \ {x}) \cup {neg.v, x})
    BY <1>5
  <2>3. QED BY <1>4, <1>6, <2>1, <2>2, GivesThen
<1>8. Signed(h, x) = r
  BY <1>1, <1>3, <1>4, <1>6 DEF Signed, After
<1>9. QED BY <1>7, <1>8

\* A hold of a vector that nobody holds leaves as much room for the others.
LEMMA HoldNew ==
  ASSUME NEW h, IsHeap(h), NEW x \in Live(h), h.count[x] = 0,
         NEW k \in Nat, k > 0, k + 1 < HoldModulus, Room(h, k)
  PROVE  Room(Hold(h, x), k)
<1>1. PICK j \in Nat : j + 1 = k
  <2>1. k - 1 \in Nat /\ (k - 1) + 1 = k
    OBVIOUS
  <2>2. QED BY <2>1
<1>2. /\ IsHeap(Hold(h, x)) /\ Live(Hold(h, x)) = Live(h)
      /\ \A w \in Live(h) :
           Hold(h, x).count[w] = IF w = x THEN h.count[w] + 1 ELSE h.count[w]
  BY <1>1, HoldLive
<1>3. ASSUME NEW w \in Live(h)
      PROVE  Hold(h, x).count[w] + k < HoldModulus
  <2>1. h.count[w] + k < HoldModulus /\ h.count[w] \in Nat /\ HoldModulus \in Nat
    BY HoldsAssumption DEF Room, IsHeap
  <2>2. CASE w = x
    BY <1>2, <2>1, <2>2
  <2>3. CASE w # x
    BY <1>2, <2>1, <2>3
  <2>4. QED BY <2>2, <2>3
<1>4. QED BY <1>2, <1>3 DEF Room

\* The vectors bfvSdiv holds while it computes: a new one and the operands.
LEMMA SdivHolds ==
  ASSUME NEW h, IsHeap(h), NEW x \in Live(h), NEW y \in Live(h), NEW z \in Live(h),
         Room(h, 4), h.count[z] = 0, z \notin {x, y}
  PROVE  /\ HoldBoth(Hold(h, z), y, x) = Hold(HoldBoth(h, x, y), z)
         /\ IsHeap(HoldBoth(h, x, y)) /\ Live(HoldBoth(h, x, y)) = Live(h)
         /\ Room(HoldBoth(h, x, y), 2) /\ HoldBoth(h, x, y).count[z] = 0
         /\ IsHeap(Hold(HoldBoth(h, x, y), z)) /\ Live(Hold(HoldBoth(h, x, y), z)) = Live(h)
         /\ Room(Hold(HoldBoth(h, x, y), z), 2)
         /\ \A w \in {x, y, z} : Hold(HoldBoth(h, x, y), z).count[w] > 0
<1>1. /\ 2 + 2 = 4 /\ 3 + 1 = 4 /\ 1 + 1 = 2 /\ {1, 2, 3} \subseteq Nat
      /\ 2 \in 0..3 /\ 2 \in 0..4 /\ 2 + 1 < HoldModulus /\ 2 > 0
  BY HoldsAssumption
<1>2. PICK A : A = Hold(h, z)
  OBVIOUS
<1>3. PICK B : B = Hold(h, x)
  OBVIOUS
<1>4. /\ IsHeap(A) /\ Live(A) = Live(h) /\ Room(A, 2)
      /\ IsHeap(B) /\ Live(B) = Live(h) /\ Room(B, 2) /\ Room(h, 2)
  <2>1. Room(h, 3 + 1)
    BY <1>1
  <2>2. IsHeap(A) /\ Live(A) = Live(h) /\ Room(A, 3)
    BY <1>1, <1>2, <2>1, HoldOne
  <2>3. IsHeap(B) /\ Live(B) = Live(h) /\ Room(B, 3)
    BY <1>1, <1>3, <2>1, HoldOne
  <2>4. Room(A, 2) /\ Room(B, 2)
    BY <1>1, <2>2, <2>3, LessRoom
  <2>5. Room(h, 2) /\ 4 \in Nat
    BY <1>1, LessRoom
  <2>6. QED BY <2>2, <2>3, <2>4, <2>5
<1>5. Hold(Hold(A, y), x) = Hold(Hold(A, x), y)
  BY <1>4, HoldSwap
<1>6. Hold(A, x) = Hold(B, z)
  BY <1>2, <1>3, <1>4, HoldSwap
<1>7. Hold(Hold(B, z), y) = Hold(Hold(B, y), z)
  BY <1>4, HoldSwap
<1>8. PICK Q : Q = HoldBoth(h, x, y)
  OBVIOUS
<1>9. HoldBoth(Hold(h, z), y, x) = Hold(Q, z)
  BY <1>2, <1>3, <1>5, <1>6, <1>7, <1>8 DEF HoldBoth
<1>10. /\ IsHeap(Q) /\ Live(Q) = Live(h) /\ Room(Q, 2) /\ Q.count[x] > 0 /\ Q.count[y] > 0
       /\ Q.count[z] = 0
  <2>1. Room(h, 2 + 2)
    BY <1>1
  <2>2. QED BY <1>1, <1>8, <2>1, HoldBothLive
<1>11. Room(Hold(Q, z), 2)
  BY <1>1, <1>10, HoldNew
<1>12. /\ IsHeap(Hold(Q, z)) /\ Live(Hold(Q, z)) = Live(h) /\ Hold(Q, z).count[z] > 0
       /\ Hold(Q, z).count[x] > 0 /\ Hold(Q, z).count[y] > 0
  <2>1. Room(Q, 1 + 1) /\ 1 \in Nat /\ z \in Live(Q) /\ x \in Live(Q) /\ y \in Live(Q)
    BY <1>1, <1>10
  <2>2. QED BY <1>10, <2>1, HoldOne
<1>13. \A w \in {x, y, z} : Hold(Q, z).count[w] > 0
  BY <1>12
<1>14. QED BY <1>8, <1>9, <1>10, <1>11, <1>12, <1>13

\* The test of the divisor, which frees nothing.
LEMMA SdivTested ==
  ASSUME NEW h, IsHeap(h), NEW x \in Live(h), NEW y \in Live(h), Room(h, 4),
         NEW z, NEW g, g = New(h).h, z = New(h).v
  PROVE  /\ Gives(h, {}, g, {z}) /\ IsHeap(g) /\ Room(g, 4)
         /\ x \in Live(g) /\ y \in Live(g) /\ z \in Live(g) /\ z \notin Live(h) /\ g.count[z] = 0
         /\ Gives(Hold(HoldBoth(g, x, y), z), {},
                  bfvEqual(HoldBoth(Hold(g, z), y, x), y, z), {})
<1>1. Gives(h, {}, g, {z})
  BY NewGives
<1>2. /\ IsHeap(g) /\ x \in Live(g) /\ y \in Live(g) /\ z \in Live(g) /\ z \notin Live(h)
      /\ g.count[z] = 0
  BY <1>1, GivesLive
<1>3. Room(g, 4)
  <2>1. 4 \in Nat /\ 4 < HoldModulus
    BY HoldsAssumption
  <2>2. QED BY <1>1, <2>1, GivesHeap
<1>4. z \notin {x, y}
  BY <1>2
<1>5. PICK p : p = Hold(HoldBoth(g, x, y), z)
  OBVIOUS
<1>6. /\ p = HoldBoth(Hold(g, z), y, x) /\ IsHeap(p) /\ Live(p) = Live(g) /\ Room(p, 2)
      /\ \A w \in {x, y, z} : p.count[w] > 0
  BY <1>2, <1>3, <1>4, <1>5, SdivHolds
<1>7. PICK e : e = bfvEqual(p, y, z) /\ Gives(p, {y, z}, e, {})
  BY <1>2, <1>6, EqualGives
<1>8. Gives(p, {}, e, {})
  <2>1. \A w \in Live(p) : p.count[w] = 0 => (w \in {} <=> w \in {y, z})
    BY <1>6
  <2>2. QED BY <1>6, <1>7, <2>1, GivesAlike
<1>9. QED BY <1>1, <1>2, <1>3, <1>5, <1>6, <1>7, <1>8

\* A divisor that is certain to be zero: the dividend stays held.
LEMMA SdivZeroGives ==
  ASSUME NEW h, IsHeap(h), NEW x \in Live(h), NEW y \in Live(h), Room(h, 4)
  PROVE  Gives(Hold(h, x), {y}, bfvSdiv(h, x, y, TRUE).h, {bfvSdiv(h, x, y, TRUE).v})
<1>1. PICK g, z : g = New(h).h /\ z = New(h).v
  OBVIOUS
<1>2. PICK e : e = bfvEqual(HoldBoth(Hold(g, z), y, x), y, z)
  OBVIOUS
<1>3. /\ Gives(h, {}, g, {z}) /\ IsHeap(g) /\ Room(g, 4)
      /\ x \in Live(g) /\ y \in Live(g) /\ z \in Live(g) /\ z \notin Live(h) /\ g.count[z] = 0
      /\ Gives(Hold(HoldBoth(g, x, y), z), {}, e, {})
  BY <1>1, <1>2, SdivTested
<1>4. PICK b : b = Hold(g, x)
  OBVIOUS
<1>5. IsHeap(b) /\ Live(b) = Live(g) /\ Room(b, 3) /\ Room(b, 1)
  <2>1. Room(g, 3 + 1) /\ 3 \in Nat /\ 1 \in 0..3
    BY <1>3
  <2>2. IsHeap(b) /\ Live(b) = Live(g) /\ Room(b, 3)
    BY <1>3, <1>4, <2>1, HoldOne
  <2>3. QED BY <2>1, <2>2, LessRoom
<1>6. PICK c : c = Hold(b, y) /\ HoldBoth(g, x, y) = c
  BY <1>4 DEF HoldBoth
<1>7. IsHeap(c) /\ Live(c) = Live(g) /\ Room(c, 1)
  <2>1. Room(b, 2 + 1) /\ 2 \in Nat /\ 1 \in 0..2 /\ y \in Live(b)
    BY <1>3, <1>5
  <2>2. IsHeap(c) /\ Live(c) = Live(g) /\ Room(c, 2)
    BY <1>5, <1>6, <2>1, HoldOne
  <2>3. QED BY <2>1, <2>2, LessRoom
<1>8. PICK r : r = Release(e, z) /\ Gives(c, {} \ {z}, r, {})
  BY <1>3, <1>6, <1>7, ReleaseGives
<1>9. PICK k : k = ReleaseConsume(r, y) /\ Gives(b, ({} \ {z}) \cup {y}, k, {})
  BY <1>3, <1>5, <1>6, <1>8, ReleaseConsumeGives
<1>10. bfvSdiv(h, x, y, TRUE) = [h |-> k, v |-> z]
  BY <1>1, <1>2, <1>8, <1>9 DEF bfvSdiv, After
<1>11. PICK p : p = Hold(h, x)
  OBVIOUS
<1>12. Gives(p, {}, b, {z})
  <2>1. /\ IsHeap(p) /\ Live(p) = Live(h) /\ p.next = h.next
        /\ \A w \in Live(h) : p.count[w] = IF w = x THEN h.count[w] + 1 ELSE h.count[w]
    <3>1. Room(h, 3 + 1) /\ 3 \in Nat
      OBVIOUS
    <3>2. QED BY <1>11, <3>1, HoldLive
  <2>2. /\ b.next = g.next
        /\ \A w \in Live(g) : b.count[w] = IF w = x THEN g.count[w] + 1 ELSE g.count[w]
    <3>1. Room(g, 3 + 1) /\ 3 \in Nat
      BY <1>3
    <3>2. QED BY <1>3, <1>4, <3>1, HoldLive
  <2>3. /\ h.next <= g.next /\ {z} \subseteq h.next..(g.next - 1)
        /\ Live(g) = Live(h) \cup {z} /\ \A w \in Live(h) : g.count[w] = h.count[w]
    BY <1>3 DEF Gives
  <2>4. b.count[z] = 0 /\ \A w \in Live(h) : b.count[w] = p.count[w]
    BY <1>3, <2>1, <2>2, <2>3
  <2>5. Live(b) = {w \in Live(p) : w \notin {} \/ p.count[w] > 0} \cup {z}
    BY <1>5, <2>1, <2>3
  <2>6. \A w \in Live(b) \ {z} : b.count[w] = p.count[w]
    BY <1>5, <2>3, <2>4
  <2>7. p.next <= b.next /\ {z} \subseteq p.next..(b.next - 1)
    BY <2>1, <2>2, <2>3
  <2>8. QED BY <1>5, <2>4, <2>5, <2>6, <2>7 DEF Gives
<1>13. IsHeap(p) /\ Live(p) = Live(h)
  <2>1. Room(h, 3 + 1) /\ 3 \in Nat
    OBVIOUS
  <2>2. QED BY <1>11, <2>1, HoldOne
<1>14. Gives(p, {y}, k, {z})
  <2>1. {z} = ({z} \ (({} \ {z}) \cup {y})) \cup {}
    BY <1>3
  <2>2. \A w \in Live(p) : p.count[w] = 0 => (w \in {y} <=> w \in {} \cup (({} \ {z}) \cup {y}))
    OBVIOUS
  <2>3. QED BY <1>9, <1>12, <1>13, <2>1, <2>2, GivesThen
<1>15. PICK r0 : r0 = [h |-> k, v |-> z]
  OBVIOUS
<1>16. r0 = bfvSdiv(h, x, y, TRUE) /\ r0.h = k /\ r0.v = z
  BY <1>10, <1>15
<1>17. QED BY <1>11, <1>14, <1>16

\* bfvSdiv divides what has no sign, then sets the sign, and has zero for a
\* divisor that is zero.
LEMMA SdivGives ==
  ASSUME NEW h, IsHeap(h), NEW x \in Live(h), NEW y \in Live(h), Room(h, 4)
  PROVE  Gives(h, {x, y}, bfvSdiv(h, x, y, FALSE).h, {bfvSdiv(h, x, y, FALSE).v})
<1>1. PICK g, z : g = New(h).h /\ z = New(h).v
  OBVIOUS
<1>2. PICK e : e = bfvEqual(HoldBoth(Hold(g, z), y, x), y, z)
  OBVIOUS
<1>3. PICK q : q = HoldBoth(g, x, y)
  OBVIOUS
<1>4. PICK p : p = Hold(q, z)
  OBVIOUS
<1>5. /\ Gives(h, {}, g, {z}) /\ IsHeap(g) /\ Room(g, 4)
      /\ x \in Live(g) /\ y \in Live(g) /\ z \in Live(g) /\ z \notin Live(h) /\ g.count[z] = 0
      /\ Gives(p, {}, e, {})
  BY <1>1, <1>2, <1>3, <1>4, SdivTested
<1>6. z \notin {x, y}
  BY <1>5
<1>7. /\ IsHeap(q) /\ Live(q) = Live(g) /\ Room(q, 2) /\ q.count[z] = 0
      /\ IsHeap(p) /\ Live(p) = Live(g) /\ Room(p, 2)
      /\ \A w \in {x, y, z} : p.count[w] > 0
  BY <1>3, <1>4, <1>5, <1>6, SdivHolds
<1>8. 1 \in Nat /\ 1 < HoldModulus /\ 2 \in Nat /\ 2 < HoldModulus /\ 1 \in 0..2
  BY HoldsAssumption
<1>9. Room(p, 1) /\ Room(q, 1) /\ Room(g, 2)
  <2>1. Room(p, 1) /\ Room(q, 1)
    BY <1>7, <1>8, LessRoom
  <2>2. 4 \in Nat /\ 2 \in 0..4
    OBVIOUS
  <2>3. QED BY <1>5, <2>1, <2>2, LessRoom
\* What is held stays.
<1>10. ASSUME NEW k, NEW V, Gives(p, {}, k, V)
       PROVE  IsHeap(k) /\ Room(k, 1) /\ {x, y, z} \subseteq Live(k) /\ V \subseteq Live(k) /\ V \cap Live(p) = {}
  <2>1. IsHeap(k) /\ Room(k, 1)
    BY <1>7, <1>8, <1>9, <1>10, GivesHeap
  <2>2. /\ V \subseteq Live(k) /\ V \cap Live(p) = {}
        /\ \A w \in Live(p) : w \notin {} \/ p.count[w] > 0 => w \in Live(k)
    BY <1>7, <1>10, GivesLive
  <2>3. {x, y, z} \subseteq Live(p)
    BY <1>5, <1>7
  <2>4. QED BY <2>1, <2>2, <2>3
<1>11. PICK xa : xa = bfvAbsoluteValue(e, x) /\ Gives(e, {x}, xa.h, {xa.v})
  <2>1. IsHeap(e) /\ Room(e, 1) /\ x \in Live(e)
    BY <1>5, <1>10
  <2>2. QED BY <2>1, AbsoluteGives
<1>12. Gives(p, {}, xa.h, {xa.v})
  <2>1. {xa.v} = ({} \ {x}) \cup {xa.v}
    OBVIOUS
  <2>2. \A w \in Live(p) : p.count[w] = 0 => (w \in {} <=> w \in {} \cup {x})
    BY <1>7
  <2>3. QED BY <1>5, <1>7, <1>11, <2>1, <2>2, GivesThen
<1>13. PICK ya : ya = bfvAbsoluteValue(xa.h, y) /\ Gives(xa.h, {y}, ya.h, {ya.v})
  <2>1. IsHeap(xa.h) /\ Room(xa.h, 1) /\ y \in Live(xa.h)
    BY <1>10, <1>12
  <2>2. QED BY <2>1, AbsoluteGives
<1>14. xa.v \notin {x, y, z}
  <2>1. {xa.v} \cap Live(p) = {} /\ {x, y, z} \subseteq Live(p)
    BY <1>5, <1>7, <1>10, <1>12
  <2>2. QED BY <2>1
<1>15. Gives(p, {}, ya.h, {xa.v, ya.v})
  <2>1. {xa.v, ya.v} = ({xa.v} \ {y}) \cup {ya.v}
    BY <1>14
  <2>2. \A w \in Live(p) : p.count[w] = 0 => (w \in {} <=> w \in {} \cup {y})
    BY <1>7
  <2>3. QED BY <1>7, <1>12, <1>13, <2>1, <2>2, GivesThen
<1>16. PICK d : d = bfvQuot(ya.h, xa.v, ya.v) /\ Gives(ya.h, {xa.v, ya.v}, d.h, {d.v})
  <2>1. IsHeap(ya.h) /\ xa.v \in Live(ya.h) /\ ya.v \in Live(ya.h)
    BY <1>10, <1>15
  <2>2. QED BY <2>1, QuotGives
<1>17. Gives(p, {}, d.h, {d.v})
  <2>1. {d.v} = ({xa.v, ya.v} \ {xa.v, ya.v}) \cup {d.v}
    OBVIOUS
  <2>2. {xa.v, ya.v} \cap Live(p) = {}
    BY <1>10, <1>15
  <2>3. \A w \in Live(p) : p.count[w] = 0 => (w \in {} <=> w \in {} \cup {xa.v, ya.v})
    BY <2>2
  <2>4. QED BY <1>7, <1>15, <1>16, <2>1, <2>3, GivesThen
<1>18. PICK i : i = Signed(d.h, d.v) /\ Gives(d.h, {d.v}, i.h, {i.v})
  <2>1. IsHeap(d.h) /\ Room(d.h, 1) /\ d.v \in Live(d.h)
    BY <1>10, <1>17
  <2>2. QED BY <2>1, SignedGives
<1>19. Gives(p, {}, i.h, {i.v})
  <2>1. {i.v} = ({d.v} \ {d.v}) \cup {i.v}
    OBVIOUS
  <2>2. {d.v} \cap Live(p) = {}
    BY <1>10, <1>17
  <2>3. \A w \in Live(p) : p.count[w] = 0 => (w \in {} <=> w \in {} \cup {d.v})
    BY <2>2
  <2>4. QED BY <1>7, <1>17, <1>18, <2>1, <2>3, GivesThen
\* The zero vector is released, and freed with the other.
<1>20. PICK r : r = Release(i.h, z) /\ Gives(q, {} \ {z}, r, {i.v})
  BY <1>4, <1>5, <1>7, <1>9, <1>19, ReleaseGives
<1>21. IsHeap(r) /\ z \in Live(r) /\ i.v \in Live(r) /\ i.v # z /\ i.v \notin Live(q)
  BY <1>5, <1>7, <1>20, GivesLive
<1>22. PICK out : out = bfvSelect(r, z, i.v) /\ Gives(r, {z, i.v}, out.h, {out.v})
  BY <1>21, SelectGives
<1>23. Gives(q, {z}, out.h, {out.v})
  <2>1. {out.v} = ({i.v} \ {z, i.v}) \cup {out.v}
    OBVIOUS
  <2>2. \A w \in Live(q) : q.count[w] = 0 => (w \in {z} <=> w \in ({} \ {z}) \cup {z, i.v})
    BY <1>21
  <2>3. QED BY <1>7, <1>20, <1>22, <2>1, <2>2, GivesThen
<1>24. PICK k : k = ReleaseBoth(out.h, x, y) /\ Gives(g, {z} \cup {x, y}, k, {out.v})
  BY <1>3, <1>5, <1>9, <1>23, ReleaseBothGives
<1>25. Gives(h, {x, y}, k, {out.v})
  <2>1. {out.v} = ({z} \ ({z} \cup {x, y})) \cup {out.v}
    OBVIOUS
  <2>2. \A w \in Live(h) : h.count[w] = 0 => (w \in {x, y} <=> w \in {} \cup ({z} \cup {x, y}))
    BY <1>5
  <2>3. QED BY <1>5, <1>24, <2>1, <2>2, GivesThen
<1>26. bfvSdiv(h, x, y, FALSE) = [h |-> k, v |-> out.v]
  BY <1>1, <1>2, <1>11, <1>13, <1>16, <1>18, <1>20, <1>22, <1>24, ZenonT(40) DEF bfvSdiv, After
<1>27. PICK r0 : r0 = [h |-> k, v |-> out.v]
  OBVIOUS
<1>28. r0 = bfvSdiv(h, x, y, FALSE) /\ r0.h = k /\ r0.v = out.v
  BY <1>26, <1>27
<1>29. QED BY <1>25, <1>28

\* bfvSrem frees its operands one after the other, and leaves the quotient.
LEMMA SremGives ==
  ASSUME NEW h, IsHeap(h), NEW x \in Live(h), NEW y \in Live(h), Room(h, 1),
         x # y \/ h.count[x] > 0
  PROVE  \E s : s = bfvSrem(h, x, y) /\ Gives(h, {x, y}, s.h, {s.v, s.quot}) /\ s.v # s.quot
<1>0. 1 \in Nat /\ 1 < HoldModulus
  BY HoldsAssumption
<1>1. PICK xa : xa = bfvAbsoluteValue(h, x) /\ Gives(h, {x}, xa.h, {xa.v})
  BY AbsoluteGives
<1>2. /\ IsHeap(xa.h) /\ Room(xa.h, 1) /\ xa.v \in Live(xa.h) /\ y \in Live(xa.h)
      /\ xa.v \notin Live(h) /\ xa.v # y
  <2>1. IsHeap(xa.h) /\ Room(xa.h, 1)
    BY <1>0, <1>1, GivesHeap
  <2>2. y \notin {x} \/ h.count[y] > 0
    OBVIOUS
  <2>3. xa.v \in Live(xa.h) /\ y \in Live(xa.h) /\ xa.v \notin Live(h)
    BY <1>1, <2>2, GivesLive
  <2>4. QED BY <2>1, <2>3
<1>3. PICK ya : ya = bfvAbsoluteValue(xa.h, y) /\ Gives(xa.h, {y}, ya.h, {ya.v})
  BY <1>2, AbsoluteGives
<1>4. Gives(h, {x, y}, ya.h, {xa.v, ya.v})
  <2>1. {xa.v, ya.v} = ({xa.v} \ {y}) \cup {ya.v}
    BY <1>2
  <2>2. \A w \in Live(h) : h.count[w] = 0 => (w \in {x, y} <=> w \in {x} \cup {y})
    OBVIOUS
  <2>3. QED BY <1>1, <1>3, <2>1, <2>2, GivesThen
<1>5. /\ IsHeap(ya.h) /\ xa.v \in Live(ya.h) /\ ya.v \in Live(ya.h)
      /\ xa.v \notin Live(h) /\ ya.v \notin Live(h)
  BY <1>4, GivesLive
<1>6. PICK d : /\ d = bfvQuotRem(ya.h, xa.v, ya.v) /\ d.quot # d.rem
               /\ Gives(ya.h, {xa.v, ya.v}, d.h, {d.quot, d.rem})
  BY <1>5, QuotRemGives
<1>7. Gives(h, {x, y}, d.h, {d.quot, d.rem})
  <2>1. {d.quot, d.rem} = ({xa.v, ya.v} \ {xa.v, ya.v}) \cup {d.quot, d.rem}
    OBVIOUS
  <2>2. \A w \in Live(h) : h.count[w] = 0 => (w \in {x, y} <=> w \in {x, y} \cup {xa.v, ya.v})
    BY <1>5
  <2>3. QED BY <1>4, <1>6, <2>1, <2>2, GivesThen
<1>8. /\ IsHeap(d.h) /\ Room(d.h, 1) /\ d.rem \in Live(d.h) /\ d.quot \in Live(d.h)
      /\ d.rem \notin Live(h)
  <2>1. IsHeap(d.h) /\ Room(d.h, 1)
    BY <1>0, <1>7, GivesHeap
  <2>2. QED BY <1>7, <2>1, GivesLive
<1>9. PICK r : r = Signed(d.h, d.rem) /\ Gives(d.h, {d.rem}, r.h, {r.v})
  BY <1>8, SignedGives
<1>10. r.v # d.quot
  <2>1. r.v \notin Live(d.h)
    BY <1>8, <1>9, GivesLive
  <2>2. QED BY <1>8, <2>1
<1>11. Gives(h, {x, y}, r.h, {r.v, d.quot})
  <2>1. {r.v, d.quot} = ({d.quot, d.rem} \ {d.rem}) \cup {r.v}
    BY <1>6
  <2>2. \A w \in Live(h) : h.count[w] = 0 => (w \in {x, y} <=> w \in {x, y} \cup {d.rem})
    BY <1>8
  <2>3. QED BY <1>7, <1>9, <2>1, <2>2, GivesThen
<1>12. PICK s : s = [h |-> r.h, v |-> r.v, quot |-> d.quot]
  OBVIOUS
<1>13. s.h = r.h /\ s.v = r.v /\ s.quot = d.quot
  BY <1>12
<1>14. bfvSrem(h, x, y) = s
  BY <1>1, <1>3, <1>6, <1>9, <1>12, Zenon DEF bfvSrem, After
<1>15. QED BY <1>10, <1>11, <1>13, <1>14

-----------------------------------------------------------------------------
(***************************************************************************)
(* The shifts.                                                             *)
(***************************************************************************)
\* A set of numbers that is not empty has a least element.
LEMMA LeastNat ==
  ASSUME NEW S, S \subseteq Nat, S # {}
  PROVE  \E n \in S : \A k \in S : n <= k
<1> DEFINE R == OpToRel(<, Nat)
<1>1. IsWellFoundedOn(R, Nat)
  BY NatLessThanWellFounded
<1> HIDE DEF R
<1>2. PICK n \in S : \A k \in S : ~(<<k, n>> \in R)
  BY <1>1, WFMin
<1>3. \A k \in S : ~(k < n)
  BY <1>2 DEF R, OpToRel
<1>4. QED BY <1>3

\* A set of numbers that holds 0, and the next of each up to N, holds them all.
LEMMA StepsReach ==
  ASSUME NEW N \in Nat, NEW G, 0 \in G, \A n \in 1..N : n - 1 \in G => n \in G
  PROVE  0..N \subseteq G
<1> DEFINE S == {n \in 0..N : n \notin G}
<1>1. SUFFICES ASSUME S # {} PROVE FALSE
  OBVIOUS
<1>2. PICK n \in S : \A k \in S : n <= k
  <2>1. S \subseteq Nat
    OBVIOUS
  <2> HIDE DEF S
  <2>2. QED BY <1>1, <2>1, LeastNat
<1>3. n \in 0..N /\ n \notin G /\ n # 0
  BY <1>2
<1>4. n \in 1..N /\ n - 1 \in 0..N /\ ~(n <= n - 1)
  BY <1>3
<1>5. n - 1 \notin S
  BY <1>2, <1>4
<1>6. n - 1 \in G
  BY <1>4, <1>5
<1>7. QED BY <1>3, <1>4, <1>6

\* A stage of a shift on its way down, and on its way back.
Turn(way, g, val, dist) ==
  IF way = "back" THEN ReleaseBoth(Reads(Reads(g, val), dist), val, dist) ELSE HoldBoth(g, val, dist)

\* The heaps there are at its stages.
Turns(way, g, val, dist, N, f) ==
  f = [s \in 0..N |-> Turn(way, IF s = 0 THEN g ELSE f[s - 1], val, dist)]

\* There are such, for every number of stages.
LEMMA TurnsExist ==
  ASSUME NEW way, NEW g, NEW val, NEW dist, NEW N \in Nat
  PROVE  \E f : Turns(way, g, val, dist, N, f)
<1> DEFINE G == {n \in 0..N : \E f : Turns(way, g, val, dist, n, f)}
<1>1. 0 \in G
  <2>1. PICK f : f = [s \in 0..0 |-> Turn(way, g, val, dist)]
    OBVIOUS
  <2>2. Turns(way, g, val, dist, 0, f)
    BY <2>1 DEF Turns
  <2>3. QED BY <2>2
<1>2. ASSUME NEW n \in 1..N, n - 1 \in G
      PROVE  n \in G
  <2>1. PICK f : Turns(way, g, val, dist, n - 1, f)
    BY <1>2
  <2>2. f = [s \in 0..(n - 1) |-> Turn(way, IF s = 0 THEN g ELSE f[s - 1], val, dist)]
    BY <2>1 DEF Turns
  <2>3. PICK t : t = [s \in 0..n |-> IF s = n THEN Turn(way, f[n - 1], val, dist) ELSE f[s]]
    OBVIOUS
  <2>4. ASSUME NEW s \in 0..n
        PROVE  t[s] = Turn(way, IF s = 0 THEN g ELSE t[s - 1], val, dist)
    <3>1. CASE s = n
      <4>1. s # 0 /\ s - 1 \in 0..n /\ s - 1 # n /\ s - 1 = n - 1
        BY <3>1
      <4>2. t[s] = Turn(way, f[n - 1], val, dist) /\ t[s - 1] = f[n - 1]
        BY <2>3, <3>1, <4>1
      <4>3. QED BY <4>1, <4>2
    <3>2. CASE s # n
      <4>1. s \in 0..(n - 1)
        BY <3>2
      <4>2. t[s] = Turn(way, IF s = 0 THEN g ELSE f[s - 1], val, dist)
        BY <2>2, <2>3, <3>2, <4>1
      <4>3. s # 0 => t[s - 1] = f[s - 1]
        <5>1. s # 0 => s - 1 \in 0..n /\ s - 1 # n
          BY <4>1
        <5>2. QED BY <2>3, <5>1
      <4>4. QED BY <4>2, <4>3
    <3>3. QED BY <3>1, <3>2
  <2>5. t = [s \in 0..n |-> Turn(way, IF s = 0 THEN g ELSE t[s - 1], val, dist)]
    <3>1. PICK u : u = [s \in 0..n |-> Turn(way, IF s = 0 THEN g ELSE t[s - 1], val, dist)]
      OBVIOUS
    <3>2. \A s \in 0..n : t[s] = u[s]
      BY <2>4, <3>1
    <3>3. QED BY <2>3, <3>1, <3>2
  <2>6. Turns(way, g, val, dist, n, t)
    BY <2>5 DEF Turns
  <2>7. QED BY <2>6
<1>3. 0..N \subseteq G
  <2> HIDE DEF G
  <2>1. QED BY <1>1, <1>2, StepsReach
<1>4. N \in 0..N
  OBVIOUS
<1>5. N \in G
  BY <1>3, <1>4
<1>6. QED BY <1>5

\* A barrel shift by the heaps on its way down and on its way back.
LEMMA BarrelShiftIs ==
  ASSUME NEW h, NEW val, NEW dist
  PROVE  \E d, u : /\ Turns("down", h, val, dist, Stages, d)
                   /\ Turns("back", d[Stages], val, dist, Stages, u)
                   /\ BarrelShift(h, val, dist) = New(u[Stages])
<1> DEFINE Down(f) == f = [s \in 0..Stages |-> HoldBoth(IF s = 0 THEN h ELSE f[s - 1], val, dist)]
           d == CHOOSE f : Down(f)
           Up(f) == f = [s \in 0..Stages |->
                           ReleaseBoth(Reads(Reads(IF s = 0 THEN d[Stages] ELSE f[s - 1], val), dist),
                                       val, dist)]
           u == CHOOSE f : Up(f)
<1>1. BarrelShift(h, val, dist) = New(u[Stages])
  BY DEF BarrelShift
<1>2. Stages \in Nat
  BY HoldsAssumption
<1> HIDE DEF d, u
<1>3. \A f : Turns("down", h, val, dist, Stages, f) <=> Down(f)
  BY DEF Turns, Turn
<1>4. \A f : Turns("back", d[Stages], val, dist, Stages, f) <=> Up(f)
  BY DEF Turns, Turn
<1> HIDE DEF Down, Up
<1>5. \E f : Down(f)
  BY <1>2, <1>3, TurnsExist
<1>6. Down(d)
  BY <1>5 DEF d
<1>7. \E f : Up(f)
  BY <1>2, <1>4, TurnsExist
<1>8. Up(u)
  BY <1>7 DEF u
<1>9. QED BY <1>1, <1>3, <1>4, <1>6, <1>8

\* The heap above a stage of the way down, and above one of the way back.
Above(h, d, s) == IF s = 0 THEN h ELSE d[s - 1]

\* On the way down every stage holds both vectors once more.
LEMMA DownHolds ==
  ASSUME NEW h, IsHeap(h), NEW val \in Live(h), NEW dist \in Live(h),
         NEW N \in Nat, NEW K, K = 2 * (N + 1), Room(h, K),
         NEW d, Turns("down", h, val, dist, N, d), NEW s \in 0..N
  PROVE  /\ d[s] = HoldBoth(Above(h, d, s), val, dist)
         /\ IsHeap(Above(h, d, s)) /\ Live(Above(h, d, s)) = Live(h) /\ Room(Above(h, d, s), 2)
         /\ IsHeap(d[s]) /\ Live(d[s]) = Live(h) /\ d[s].count[val] > 0 /\ d[s].count[dist] > 0
<1> DEFINE Good(n) == /\ IsHeap(Above(h, d, n)) /\ Live(Above(h, d, n)) = Live(h)
                      /\ Room(Above(h, d, n), 2 * (N + 1 - n))
           G == {n \in 0..N : Good(n)}
<1>1. \A n \in 0..N : d[n] = HoldBoth(Above(h, d, n), val, dist)
  BY DEF Turns, Turn, Above
<1>2. ASSUME NEW n \in 0..N, Good(n)
      PROVE  /\ IsHeap(d[n]) /\ Live(d[n]) = Live(h) /\ Room(d[n], 2 * (N - n))
             /\ d[n].count[val] > 0 /\ d[n].count[dist] > 0
  <2>1. PICK a : a = Above(h, d, n)
    OBVIOUS
  <2>2. IsHeap(a) /\ Live(a) = Live(h) /\ d[n] = HoldBoth(a, val, dist)
    BY <1>1, <1>2, <2>1
  <2>3. 2 * (N - n) \in Nat /\ 2 * (N - n) + 2 = 2 * (N + 1 - n)
    OBVIOUS
  <2>4. Room(a, 2 * (N - n) + 2)
    BY <1>2, <2>1, <2>3
  <2>5. QED BY <2>2, <2>3, <2>4, HoldBothLive
<1>3. 0 \in G
  <2>1. Above(h, d, 0) = h /\ N + 1 - 0 = N + 1 /\ 0 \in 0..N
    BY DEF Above
  <2>2. QED BY <2>1
<1>4. ASSUME NEW n \in 1..N, n - 1 \in G
      PROVE  n \in G
  <2>1. /\ n \in 0..N /\ n - 1 \in 0..N /\ Above(h, d, n) = d[n - 1]
        /\ N - (n - 1) = N + 1 - n
    BY DEF Above
  <2>2. Good(n - 1)
    BY <1>4
  <2> HIDE DEF Good
  <2>3. IsHeap(d[n - 1]) /\ Live(d[n - 1]) = Live(h) /\ Room(d[n - 1], 2 * (N - (n - 1)))
    BY <1>2, <2>1, <2>2
  <2>4. Good(n)
    BY <2>1, <2>3 DEF Good
  <2>5. QED BY <2>1, <2>4
<1>5. 0..N \subseteq G
  <2> HIDE DEF G
  <2>1. QED BY <1>3, <1>4, StepsReach
<1>6. Good(s)
  BY <1>5
<1>7. Room(Above(h, d, s), 2)
  <2>1. 2 * (N + 1 - s) \in Nat /\ 2 \in 0..(2 * (N + 1 - s))
    OBVIOUS
  <2>2. QED BY <1>6, <2>1, LessRoom
<1>8. QED BY <1>1, <1>2, <1>6, <1>7

\* On the way back every stage undoes that.
LEMMA UpReleases ==
  ASSUME NEW h, IsHeap(h), NEW val \in Live(h), NEW dist \in Live(h),
         NEW N \in Nat, NEW K, K = 2 * (N + 1), Room(h, K),
         NEW d, Turns("down", h, val, dist, N, d), NEW u, Turns("back", d[N], val, dist, N, u)
  PROVE  Gives(h, {val, dist}, u[N], {})
<1>0. ASSUME NEW s \in 0..N
      PROVE  /\ d[s] = HoldBoth(Above(h, d, s), val, dist) /\ IsHeap(Above(h, d, s))
             /\ Live(Above(h, d, s)) = Live(h) /\ Room(Above(h, d, s), 2)
             /\ IsHeap(d[s]) /\ Live(d[s]) = Live(h) /\ d[s].count[val] > 0 /\ d[s].count[dist] > 0
  BY DownHolds
<1> DEFINE Good(n) == Gives(Above(h, d, N - n), {val, dist}, u[n], {})
           G == {n \in 0..N : Good(n)}
<1>1. \A n \in 0..N : u[n] =
        ReleaseBoth(Reads(Reads(IF n = 0 THEN d[N] ELSE u[n - 1], val), dist), val, dist)
  BY DEF Turns, Turn
<1>2. ASSUME NEW n \in 0..N, NEW g, NEW a, NEW S, g = IF n = 0 THEN d[N] ELSE u[n - 1],
             a = Above(h, d, N - n), S \subseteq {val, dist}, Gives(d[N - n], S, g, {})
      PROVE  Good(n)
  <2>1. N - n \in 0..N
    OBVIOUS
  <2>2. /\ d[N - n] = HoldBoth(a, val, dist) /\ IsHeap(a) /\ Live(a) = Live(h) /\ Room(a, 2)
        /\ IsHeap(d[N - n]) /\ Live(d[N - n]) = Live(h)
        /\ d[N - n].count[val] > 0 /\ d[N - n].count[dist] > 0
    <3>1. PICK s \in 0..N : s = N - n
      BY <2>1
    <3>2. /\ d[s] = HoldBoth(Above(h, d, s), val, dist) /\ IsHeap(Above(h, d, s))
          /\ Live(Above(h, d, s)) = Live(h) /\ Room(Above(h, d, s), 2)
          /\ IsHeap(d[s]) /\ Live(d[s]) = Live(h) /\ d[s].count[val] > 0 /\ d[s].count[dist] > 0
      BY <1>0
    <3>3. QED BY <1>2, <3>1, <3>2
  <2>3. IsHeap(g) /\ val \in Live(g) /\ dist \in Live(g)
    BY <1>2, <2>2, GivesLive
  <2>4. u[n] = ReleaseBoth(g, val, dist)
    BY <1>1, <1>2, <2>3, ReadsLive
  <2>5. Gives(a, S \cup {val, dist}, u[n], {})
    BY <1>2, <2>2, <2>4, ReleaseBothGives
  <2>6. S \cup {val, dist} = {val, dist}
    BY <1>2
  <2>7. QED BY <1>2, <2>5, <2>6
<1>3. 0 \in G
  <2>1. N \in 0..N /\ 0 \in 0..N /\ N - 0 = N
    OBVIOUS
  <2>2. IsHeap(d[N])
    BY <2>1, DownHolds
  <2>3. Gives(d[N], {}, d[N], {})
    BY <2>2, GivesSelf
  <2>4. PICK g, a, S : g = d[N] /\ a = Above(h, d, N - 0) /\ S = {}
    OBVIOUS
  <2>5. S \subseteq {val, dist} /\ Gives(d[N - 0], S, g, {}) /\ g = IF 0 = 0 THEN d[N] ELSE u[0 - 1]
    BY <2>1, <2>3, <2>4
  <2> HIDE DEF Good
  <2>6. Good(0)
    BY <1>2, <2>1, <2>4, <2>5
  <2>7. QED BY <2>1, <2>6
<1>4. ASSUME NEW n \in 1..N, n - 1 \in G
      PROVE  n \in G
  <2>1. /\ n \in 0..N /\ n # 0 /\ N - (n - 1) # 0 /\ (N - (n - 1)) - 1 = N - n
    OBVIOUS
  <2>2. Above(h, d, N - (n - 1)) = d[N - n]
    BY <2>1 DEF Above
  <2>3. Gives(d[N - n], {val, dist}, u[n - 1], {})
    BY <1>4, <2>2
  <2> HIDE DEF Good
  <2>4. Good(n)
    BY <1>2, <2>1, <2>3
  <2>5. QED BY <2>1, <2>4
<1>5. 0..N \subseteq G
  <2> HIDE DEF G
  <2>1. QED BY <1>3, <1>4, StepsReach
<1>6. N \in 0..N /\ Above(h, d, N - N) = h
  BY DEF Above
<1>7. Good(N)
  BY <1>5, <1>6
<1>8. QED BY <1>6, <1>7

\* A shift frees its operands, unless it returns at once.
LEMMA ShiftGives ==
  ASSUME NEW h, IsHeap(h), NEW val \in Live(h), NEW dist \in Live(h),
         Room(h, 2 * (Stages + 1)), NEW overflow \in BOOLEAN,
         NEW S, S = IF overflow THEN {} ELSE {val, dist},
         NEW r, r = bfvShift(h, val, dist, overflow)
  PROVE  Gives(h, S, r.h, {r.v})
<1>1. {} \cup {r.v} = {r.v}
  OBVIOUS
<1>2. CASE overflow
  <2>1. Reads(Reads(h, val), dist) = h
    BY ReadsLive
  <2>2. r = New(h)
    BY <1>2, <2>1 DEF bfvShift
  <2>3. Gives(h, {}, r.h, {r.v})
    BY <2>2, NewGives
  <2>4. QED BY <1>2, <2>3
<1>3. CASE ~overflow
  <2>1. r = BarrelShift(h, val, dist)
    BY <1>3 DEF bfvShift
  <2>2. PICK d, u : /\ Turns("down", h, val, dist, Stages, d)
                    /\ Turns("back", d[Stages], val, dist, Stages, u)
                    /\ BarrelShift(h, val, dist) = New(u[Stages])
    BY BarrelShiftIs
  <2>3. Gives(h, {val, dist}, u[Stages], {})
    <3>1. PICK K : K = 2 * (Stages + 1)
      OBVIOUS
    <3>2. Stages \in Nat /\ Room(h, K)
      BY <3>1, HoldsAssumption
    <3>3. QED BY <2>2, <3>1, <3>2, UpReleases
  <2>4. Gives(h, {val, dist}, New(u[Stages]).h, {} \cup {New(u[Stages]).v})
    BY <2>3, NewAfter
  <2>5. QED BY <1>1, <1>3, <2>1, <2>2, <2>4
<1>4. QED BY <1>2, <1>3

-----------------------------------------------------------------------------
(***************************************************************************)
(* The rotation.                                                           *)
(***************************************************************************)
\* A masked distance is a new vector.
LEMMA MaskedGives ==
  ASSUME NEW h, IsHeap(h), NEW d \in Live(h), h.count[d] > 0
  PROVE  Gives(h, {}, Masked(h, d).h, {Masked(h, d).v})
<1>1. PICK c : c = New(h) /\ Gives(h, {}, c.h, {c.v})
  BY NewGives
<1>2. IsHeap(c.h) /\ c.v \in Live(c.h) /\ d \in Live(c.h) /\ c.v \notin Live(h)
  BY <1>1, GivesLive
<1>3. PICK m : m = bfvAnd(c.h, d, c.v) /\ Gives(c.h, {d, c.v}, m.h, {m.v})
  BY <1>2, AndGives
<1>4. Gives(h, {}, m.h, {m.v})
  <2>1. {m.v} = ({c.v} \ {d, c.v}) \cup {m.v}
    OBVIOUS
  <2>2. \A w \in Live(h) : h.count[w] = 0 => (w \in {} <=> w \in {} \cup {d, c.v})
    <3>1. h.count[d] # 0
      OBVIOUS
    <3>2. QED BY <1>2, <3>1
  <2>3. QED BY <1>1, <1>3, <2>1, <2>2, GivesThen
<1>5. Masked(h, d) = m
  BY <1>1, <1>3 DEF Masked, After
<1>6. QED BY <1>4, <1>5

\* The two shifts of a held vector by a held distance: the rest of the width is
\* left if the shift by it returns at once.
LEMMA TurnedGives ==
  ASSUME NEW h, IsHeap(h), NEW x \in Live(h), NEW d \in Live(h), h.count[x] > 0, h.count[d] > 0,
         NEW K, K = 2 * (Stages + 1), Room(h, K), NEW over \in BOOLEAN, NEW restOver \in BOOLEAN,
         NEW r, r = Turned(h, x, d, over, restOver),
         NEW Rest, Rest = IF restOver THEN {r.rest} ELSE {}, NEW U, U = Rest \cup {r.v}
  PROVE  /\ Gives(h, {}, r.h, U) /\ r.v \notin Rest
         /\ r \in [h : {r.h}, v : {r.v}, rest : {r.rest}]
<1>1. K \in Nat /\ K < HoldModulus /\ 2 \in 0..K /\ Stages \in Nat
  BY HoldsAssumption
<1>2. ASSUME NEW k, NEW V, Gives(h, {}, k, V)
      PROVE  /\ IsHeap(k) /\ Room(k, K) /\ Room(k, 2) /\ x \in Live(k) /\ d \in Live(k)
             /\ k.count[x] > 0 /\ k.count[d] > 0
             /\ V \subseteq Live(k) /\ V \cap Live(h) = {}
  <2>1. IsHeap(k) /\ Room(k, K)
    BY <1>1, <1>2, GivesHeap
  <2>2. Room(k, 2)
    BY <1>1, <2>1, LessRoom
  <2>3. /\ V \subseteq Live(k) /\ V \cap Live(h) = {}
        /\ \A w \in Live(h) : w \notin {} \/ h.count[w] > 0 => w \in Live(k)
        /\ \A w \in Live(h) \cap Live(k) : k.count[w] = h.count[w]
    BY <1>2, GivesLive
  <2>4. QED BY <2>1, <2>2, <2>3
<1>3. ASSUME NEW k, NEW V, Gives(h, {}, k, V),
             NEW T, NEW m, NEW W, Gives(k, T, m, W), T \subseteq V \cup {x, d},
             NEW Y, Y = (V \ T) \cup W
      PROVE  Gives(h, {}, m, Y) /\ W \cap V = {}
  <2>1. IsHeap(k) /\ V \subseteq Live(k) /\ V \cap Live(h) = {}
    BY <1>2, <1>3
  <2>2. W \cap Live(k) = {}
    BY <1>3, <2>1, GivesLive
  <2>3. \A w \in Live(h) : h.count[w] = 0 => (w \in {} <=> w \in {} \cup T)
    <3>1. h.count[x] # 0 /\ h.count[d] # 0
      OBVIOUS
    <3>2. QED BY <1>3, <2>1, <3>1
  <2>4. Gives(h, {}, m, Y)
    BY <1>3, <2>3, GivesThen
  <2>5. QED BY <2>1, <2>2, <2>4
<1>4. PICK width : width = New(h) /\ Gives(h, {}, width.h, {width.v})
  BY NewGives
<1>5. /\ IsHeap(width.h) /\ width.v \in Live(width.h) /\ d \in Live(width.h)
      /\ width.v \notin Live(h) /\ width.v # d
  BY <1>2, <1>4
<1>6. PICK rest : /\ rest = bfvSubtract(width.h, width.v, d)
                  /\ Gives(width.h, {width.v, d}, rest.h, {rest.v})
  BY <1>5, SubtractGives
<1>7. Gives(h, {}, rest.h, {rest.v})
  <2>1. {width.v, d} \subseteq {width.v} \cup {x, d} /\ {rest.v} = ({width.v} \ {width.v, d}) \cup {rest.v}
    OBVIOUS
  <2>2. QED BY <1>3, <1>4, <1>6, <2>1
<1>8. IsHeap(rest.h) /\ Room(rest.h, K) /\ x \in Live(rest.h) /\ rest.v \in Live(rest.h) /\ rest.v \notin Live(h)
  BY <1>2, <1>7
<1>9. PICK L : L = IF restOver THEN {rest.v} ELSE {}
  OBVIOUS
<1>10. PICK S : S = IF restOver THEN {} ELSE {x, rest.v}
  OBVIOUS
<1>11. PICK back : back = bfvShift(rest.h, x, rest.v, restOver) /\ Gives(rest.h, S, back.h, {back.v})
  <2>1. Room(rest.h, 2 * (Stages + 1))
    BY <1>8
  <2>2. PICK b : b = bfvShift(rest.h, x, rest.v, restOver)
    OBVIOUS
  <2>3. Gives(rest.h, S, b.h, {b.v})
    BY <1>8, <1>10, <2>1, <2>2, ShiftGives
  <2>4. QED BY <2>2, <2>3
<1>12. Gives(h, {}, back.h, L \cup {back.v}) /\ back.v \notin L
  <2>1. S \subseteq {rest.v} \cup {x, d}
    BY <1>10
  <2>2. L \cup {back.v} = ({rest.v} \ S) \cup {back.v}
    BY <1>8, <1>9, <1>10
  <2>3. Gives(h, {}, back.h, L \cup {back.v}) /\ {back.v} \cap {rest.v} = {}
    BY <1>3, <1>7, <1>11, <2>1, <2>2
  <2>4. QED BY <1>9, <2>3
<1>13. IsHeap(back.h) /\ Room(back.h, K) /\ x \in Live(back.h) /\ d \in Live(back.h)
  BY <1>2, <1>12
<1>14. PICK S2 : S2 = IF over THEN {} ELSE {x, d}
  OBVIOUS
<1>15. PICK forth : forth = bfvShift(back.h, x, d, over) /\ Gives(back.h, S2, forth.h, {forth.v})
  <2>1. Room(back.h, 2 * (Stages + 1))
    BY <1>13
  <2>2. PICK b : b = bfvShift(back.h, x, d, over)
    OBVIOUS
  <2>3. Gives(back.h, S2, b.h, {b.v})
    BY <1>13, <1>14, <2>1, <2>2, ShiftGives
  <2>4. QED BY <2>2, <2>3
<1>16. PICK V3 : V3 = L \cup {back.v, forth.v} /\ Gives(h, {}, forth.h, V3) /\ forth.v \notin L
  <2>1. S2 \subseteq (L \cup {back.v}) \cup {x, d}
    BY <1>14
  <2>2. (L \cup {back.v}) \cap Live(h) = {}
    BY <1>2, <1>12
  <2>3. L \cup {back.v, forth.v} = ((L \cup {back.v}) \ S2) \cup {forth.v}
    BY <1>14, <2>2
  <2>4. /\ Gives(h, {}, forth.h, L \cup {back.v, forth.v})
        /\ {forth.v} \cap (L \cup {back.v}) = {}
    BY <1>3, <1>12, <1>15, <2>1, <2>3
  <2>5. QED BY <2>4
<1>17. IsHeap(forth.h) /\ forth.v \in Live(forth.h) /\ back.v \in Live(forth.h)
  BY <1>2, <1>16
<1>18. PICK either : /\ either = bfvAnd(forth.h, forth.v, back.v)
                     /\ Gives(forth.h, {forth.v, back.v}, either.h, {either.v})
  BY <1>17, AndGives
<1>19. Gives(h, {}, either.h, L \cup {either.v}) /\ either.v \notin L
  <2>1. {forth.v, back.v} \subseteq V3 \cup {x, d}
    BY <1>16
  <2>2. L \cup {either.v} = (V3 \ {forth.v, back.v}) \cup {either.v}
    BY <1>12, <1>16
  <2>3. Gives(h, {}, either.h, L \cup {either.v}) /\ {either.v} \cap V3 = {}
    BY <1>3, <1>16, <1>18, <2>1, <2>2
  <2>4. QED BY <1>16, <2>3
<1>20. IsHeap(either.h) /\ either.v \in Live(either.h) /\ either.v \notin Live(h) /\ L \cap Live(h) = {}
  BY <1>2, <1>19
<1>21. PICK zero : zero = New(either.h) /\ Gives(either.h, {}, zero.h, {zero.v})
  BY <1>20, NewGives
<1>22. PICK V6 : V6 = L \cup {either.v, zero.v} /\ Gives(h, {}, zero.h, V6) /\ zero.v \notin L \cup {either.v}
  <2>1. {} \subseteq (L \cup {either.v}) \cup {x, d}
    OBVIOUS
  <2>2. L \cup {either.v, zero.v} = ((L \cup {either.v}) \ {}) \cup {zero.v}
    OBVIOUS
  <2>3. /\ Gives(h, {}, zero.h, L \cup {either.v, zero.v})
        /\ {zero.v} \cap (L \cup {either.v}) = {}
    BY <1>3, <1>19, <1>21, <2>1, <2>2
  <2>4. QED BY <2>3
<1>23. IsHeap(zero.h) /\ Room(zero.h, 2) /\ d \in Live(zero.h) /\ zero.v \in Live(zero.h)
  BY <1>2, <1>22
<1>24. PICK q : q = bfvEqual(zero.h, d, zero.v) /\ Gives(zero.h, {d, zero.v}, q, {})
  BY <1>23, EqualGives
<1>25. Gives(h, {}, q, L \cup {either.v})
  <2>1. {d, zero.v} \subseteq V6 \cup {x, d}
    BY <1>22
  <2>2. L \cup {either.v} = (V6 \ {d, zero.v}) \cup {}
    BY <1>20, <1>22
  <2>3. QED BY <1>3, <1>22, <1>24, <2>1, <2>2
<1>26. IsHeap(q) /\ x \in Live(q) /\ either.v \in Live(q) /\ x # either.v
  BY <1>2, <1>20, <1>25
<1>27. PICK result : /\ result = bfvSelect(q, x, either.v)
                     /\ Gives(q, {x, either.v}, result.h, {result.v})
  BY <1>26, SelectGives
<1>28. Gives(h, {}, result.h, L \cup {result.v}) /\ result.v \notin L
  <2>1. {x, either.v} \subseteq (L \cup {either.v}) \cup {x, d}
    OBVIOUS
  <2>2. L \cup {result.v} = ((L \cup {either.v}) \ {x, either.v}) \cup {result.v}
    BY <1>19, <1>20
  <2>3. Gives(h, {}, result.h, L \cup {result.v}) /\ {result.v} \cap (L \cup {either.v}) = {}
    BY <1>3, <1>25, <1>27, <2>1, <2>2
  <2>4. QED BY <2>3
<1>29. r = [h |-> result.h, v |-> result.v, rest |-> rest.v]
  BY <1>4, <1>6, <1>11, <1>15, <1>18, <1>21, <1>24, <1>27, ZenonT(40) DEF Turned, After
<1>30. r.h = result.h /\ r.v = result.v /\ r.rest = rest.v
  BY <1>29
<1>31. r \in [h : {r.h}, v : {r.v}, rest : {r.rest}]
  BY <1>29, <1>30
<1>32. Rest = L
  BY <1>9, <1>30
<1>33. U = L \cup {result.v}
  BY <1>30, <1>32
<1>34. QED BY <1>28, <1>30, <1>31, <1>32, <1>33

\* bfvLrotate frees its operands, and the masked distance.
LEMMA LrotateGives ==
  ASSUME NEW h, IsHeap(h), NEW x \in Live(h), NEW d \in Live(h), Room(h, 2 * (Stages + 2)),
         NEW over \in BOOLEAN, NEW restOver \in BOOLEAN,
         NEW r, r = bfvLrotate(h, x, d, over, restOver),
         NEW Rest, Rest = IF restOver THEN {r.rest} ELSE {}, NEW U, U = Rest \cup {r.v}
  PROVE  Gives(h, {x, d}, r.h, U) /\ r.v \notin Rest
<1>1. PICK K : K = 2 * (Stages + 1)
  OBVIOUS
<1>2. /\ K \in Nat /\ K < HoldModulus /\ K + 1 < HoldModulus /\ K > 0 /\ 1 \in 0..K
      /\ K + 2 = 2 * (Stages + 2) /\ K + 2 \in Nat /\ 2 \in 0..(K + 2)
  BY <1>1, HoldsAssumption
<1>3. Room(h, K + 2) /\ Room(h, 2)
  <2>1. Room(h, K + 2)
    BY <1>2
  <2>2. QED BY <1>2, <2>1, LessRoom
<1>4. PICK p : p = HoldBoth(h, x, d)
  OBVIOUS
<1>5. IsHeap(p) /\ Live(p) = Live(h) /\ Room(p, K) /\ p.count[x] > 0 /\ p.count[d] > 0
  BY <1>2, <1>3, <1>4, HoldBothLive
<1>6. p = HoldBoth(h, d, x)
  BY <1>3, <1>4, HoldSwap DEF HoldBoth
<1>7. PICK m : m = Masked(p, d) /\ Gives(p, {}, m.h, {m.v})
  BY <1>5, MaskedGives
<1>8. /\ IsHeap(m.h) /\ m.v \in Live(m.h) /\ m.v \notin Live(p) /\ m.h.count[m.v] = 0
      /\ x \in Live(m.h) /\ d \in Live(m.h) /\ m.h.count[x] > 0 /\ m.h.count[d] > 0
  <2>1. /\ IsHeap(m.h) /\ {m.v} \subseteq Live(m.h) /\ {m.v} \cap Live(p) = {}
        /\ \A w \in Live(p) : w \notin {} \/ p.count[w] > 0 => w \in Live(m.h)
        /\ \A w \in {m.v} : m.h.count[w] = 0
        /\ \A w \in Live(p) \cap Live(m.h) : m.h.count[w] = p.count[w]
    BY <1>5, <1>7, GivesLive
  <2>2. QED BY <1>5, <2>1
<1>9. Room(m.h, K) /\ Room(m.h, 1)
  <2>1. Room(m.h, K)
    BY <1>2, <1>5, <1>7, GivesHeap
  <2>2. QED BY <1>2, <1>8, <2>1, LessRoom
<1>10. PICK q : q = Hold(m.h, m.v)
  OBVIOUS
<1>11. Room(q, K)
  BY <1>2, <1>8, <1>9, <1>10, HoldNew
<1>12. IsHeap(q) /\ Live(q) = Live(m.h) /\ q.count[x] > 0 /\ q.count[d] > 0
  <2>1. Room(m.h, 0 + 1) /\ 0 \in Nat
    BY <1>9
  <2>2. QED BY <1>8, <1>10, <2>1, HoldOne
<1>13. PICK t : t = Turned(q, x, d, over, restOver)
  OBVIOUS
<1>14. PICK L, V : L = (IF restOver THEN {t.rest} ELSE {}) /\ V = L \cup {t.v}
  OBVIOUS
<1>15. /\ Gives(q, {}, t.h, V) /\ t.v \notin L
       /\ t \in [h : {t.h}, v : {t.v}, rest : {t.rest}]
  <2>1. x \in Live(q) /\ d \in Live(q)
    BY <1>8, <1>12
  <2>2. Gives(q, {}, t.h, V)
    BY <1>1, <1>11, <1>12, <1>13, <1>14, <2>1, TurnedGives
  <2>3. t.v \notin L
    BY <1>1, <1>11, <1>12, <1>13, <1>14, <2>1, TurnedGives
  <2>4. t \in [h : {t.h}, v : {t.v}, rest : {t.rest}]
    BY <1>1, <1>11, <1>12, <1>13, <1>14, <2>1, TurnedGives
  <2>5. QED BY <2>2, <2>3, <2>4
<1>16. PICK k : k = ReleaseConsume(t.h, m.v) /\ Gives(m.h, {} \cup {m.v}, k, V)
  BY <1>8, <1>9, <1>10, <1>15, ReleaseConsumeGives
<1>17. Gives(p, {}, k, V)
  <2>1. V = ({m.v} \ ({} \cup {m.v})) \cup V
    OBVIOUS
  <2>2. \A w \in Live(p) : p.count[w] = 0 => (w \in {} <=> w \in {} \cup ({} \cup {m.v}))
    BY <1>8
  <2>3. QED BY <1>5, <1>7, <1>16, <2>1, <2>2, GivesThen
<1>18. PICK g : g = ReleaseBoth(k, d, x) /\ Gives(h, {} \cup {d, x}, g, V)
  BY <1>3, <1>6, <1>17, ReleaseBothGives
<1>19. r = [t EXCEPT !.h = ReleaseConsume(ReleaseConsume(ReleaseConsume(t.h, m.v), d), x)]
  BY <1>4, <1>7, <1>10, <1>13 DEF bfvLrotate, After
<1>20. ReleaseConsume(ReleaseConsume(ReleaseConsume(t.h, m.v), d), x) = g
  BY <1>16, <1>18 DEF ReleaseBoth
<1>21. r.h = g /\ r.v = t.v /\ r.rest = t.rest
  BY <1>15, <1>19, <1>20
<1>22. Rest = L /\ U = V /\ {} \cup {d, x} = {x, d}
  BY <1>14, <1>21
<1>23. QED BY <1>15, <1>18, <1>21, <1>22

-----------------------------------------------------------------------------
(***************************************************************************)
(* The invariant between calls, and the heap a call begins with.           *)
(***************************************************************************)
\* Every vector the client may use is there, and has the client's holds.
HoldsInv ==
  /\ DOMAIN count \subseteq Addresses /\ Cardinality(DOMAIN count) <= MaxVectors
  /\ count \in [DOMAIN count -> 0..MaxCount] /\ bad = FALSE
  /\ DOMAIN mine \subseteq DOMAIN count
  /\ \A v \in DOMAIN mine : mine[v] \in Nat /\ mine[v] <= count[v]

\* It is a heap with room for what a call holds at once.
LEMMA BeginIs ==
  ASSUME HoldsInv
  PROVE  /\ IsHeap(Begin) /\ Live(Begin) = DOMAIN count /\ Begin.count = count
         /\ Begin.next = MaxVectors + 3 /\ Room(Begin, 2 * (Stages + 2))
<1>1. {MaxVectors, MaxCount, Stages, HoldModulus} \subseteq Nat /\ MaxCount + 2 * (Stages + 2) < HoldModulus
  BY HoldsAssumption
<1>2. PICK b : b = Begin
  OBVIOUS
<1>3. b = [count |-> count, next |-> MaxVectors + 3, bad |-> FALSE]
  BY <1>2 DEF Begin, HoldsInv
<1>4. count \in [DOMAIN count -> Nat] /\ \A v \in DOMAIN count : count[v] \in 0..MaxCount
  BY <1>1 DEF HoldsInv
<1>5. DOMAIN count \subseteq 0..((MaxVectors + 3) - 1) /\ MaxVectors + 3 \in Nat
  BY <1>1 DEF HoldsInv, Addresses
<1>6. IsHeap(b) /\ Live(b) = DOMAIN count
  BY <1>3, <1>4, <1>5, HeapOf
<1>7. b.count = count /\ b.next = MaxVectors + 3
  BY <1>3
<1>8. \A v \in DOMAIN count : count[v] + 2 * (Stages + 2) < HoldModulus
  BY <1>1, <1>4
<1>9. Room(b, 2 * (Stages + 2))
  BY <1>6, <1>7, <1>8 DEF Room
<1>10. QED BY <1>2, <1>6, <1>7, <1>9

\* And for what the parts of a call hold.
LEMMA BeginRoom ==
  ASSUME HoldsInv
  PROVE  Room(Begin, 1) /\ Room(Begin, 2) /\ Room(Begin, 4) /\ Room(Begin, 2 * (Stages + 1))
<1>1. PICK K : K = 2 * (Stages + 2)
  OBVIOUS
<1>2. /\ K \in Nat /\ 1 \in 0..K /\ 2 \in 0..K /\ 4 \in 0..K /\ 2 * (Stages + 1) \in 0..K
  BY <1>1, HoldsAssumption
<1>3. IsHeap(Begin) /\ Room(Begin, K)
  BY <1>1, BeginIs
<1>4. \A j \in 0..K : Room(Begin, j)
  BY <1>2, <1>3, LessRoom
<1>5. QED BY <1>2, <1>4

-----------------------------------------------------------------------------
(***************************************************************************)
(* The addresses of new vectors.                                           *)
(***************************************************************************)
\* Of the vectors with counts f those of S that nobody holds are gone; those of
\* P are new, and have their addresses; those of N are new, and have none yet.
Placing(f, S, h, P, N) ==
  /\ h \in [count : {h.count}, next : {h.next}, bad : {FALSE}]
  /\ DOMAIN h.count = {w \in DOMAIN f : w \notin S \/ f[w] > 0} \cup P \cup N
  /\ h.count \in [DOMAIN h.count -> Nat]
  /\ P \subseteq Addresses /\ P \cap DOMAIN f = {} /\ N \cap Addresses = {}
  /\ \A w \in P \cup N : h.count[w] = 0
  /\ \A w \in DOMAIN f \cap DOMAIN h.count : h.count[w] = f[w]

\* What a call leaves is one, with no vector placed.
LEMMA GivesPlacing ==
  ASSUME HoldsInv, NEW b, IsHeap(b), Live(b) = DOMAIN count, b.next = MaxVectors + 3,
         NEW S, NEW h, NEW V, Gives(b, S, h, V)
  PROVE  Placing(b.count, S, h, {}, V)
<1>1. MaxVectors \in Nat
  BY HoldsAssumption
<1>2. /\ IsHeap(h) /\ V \subseteq (MaxVectors + 3)..(h.next - 1)
      /\ Live(h) = {w \in Live(b) : w \notin S \/ b.count[w] > 0} \cup V
      /\ \A w \in V : h.count[w] = 0
      /\ \A w \in Live(h) \ V : h.count[w] = b.count[w]
  BY DEF Gives
<1>3. DOMAIN b.count = Live(b) /\ DOMAIN h.count = Live(h)
  BY DEF Live
<1>4. V \cap Addresses = {} /\ V \cap Live(b) = {}
  <2>1. \A w \in V : w \notin Addresses
    BY <1>1, <1>2 DEF Addresses, IsHeap
  <2>2. QED BY <2>1 DEF HoldsInv
<1>5. h \in [count : {h.count}, next : {h.next}, bad : {FALSE}] /\ h.count \in [DOMAIN h.count -> Nat]
  BY <1>2, <1>3 DEF IsHeap
<1>6. DOMAIN h.count = {w \in DOMAIN b.count : w \notin S \/ b.count[w] > 0} \cup {} \cup V
  BY <1>2, <1>3
<1>7. \A w \in DOMAIN b.count \cap DOMAIN h.count : h.count[w] = b.count[w]
  BY <1>2, <1>3, <1>4
<1>8. QED BY <1>2, <1>4, <1>5, <1>6, <1>7 DEF Placing

\* There is an address for the next of at most two new vectors.
LEMMA AddressFree ==
  ASSUME HoldsInv, NEW P, NEW a, P \subseteq {a}, NEW D, D \subseteq DOMAIN count \cup P
  PROVE  Addresses \ D # {}
<1>1. MaxVectors \in Nat
  BY HoldsAssumption
<1>2. IsFiniteSet(Addresses) /\ Cardinality(Addresses) = MaxVectors + 2
  BY <1>1, FS_Interval DEF Addresses
<1>3. PICK C : C = DOMAIN count
  OBVIOUS
<1>4. IsFiniteSet(C) /\ Cardinality(C) \in Nat /\ Cardinality(C) <= MaxVectors
  <2>1. C \in SUBSET Addresses /\ Cardinality(C) <= MaxVectors
    BY <1>3 DEF HoldsInv
  <2>2. IsFiniteSet(C)
    BY <1>2, <2>1, FS_Subset
  <2>3. QED BY <2>1, <2>2, FS_CardinalityType
<1>5. PICK B : B = C \cup {a}
  OBVIOUS
<1>6. IsFiniteSet(B) /\ Cardinality(B) <= MaxVectors + 1 /\ Cardinality(B) \in Nat
  <2>1. IsFiniteSet(B) /\ Cardinality(B) = IF a \in C THEN Cardinality(C) ELSE Cardinality(C) + 1
    BY <1>4, <1>5, FS_AddElement
  <2>2. QED BY <1>1, <1>4, <2>1
<1>7. SUFFICES ASSUME Addresses \subseteq D PROVE FALSE
  OBVIOUS
<1>8. Addresses \in SUBSET B
  BY <1>3, <1>5, <1>7
<1>9. Cardinality(Addresses) <= Cardinality(B)
  BY <1>6, <1>8, FS_Subset
<1>10. QED BY <1>1, <1>2, <1>6, <1>9

\* A set of numbers that is not empty has its least element.
LEMMA MinIs ==
  ASSUME NEW S, S \subseteq Nat, S # {}
  PROVE  Min(S) \in S
<1>1. \E x \in S : \A y \in S : x <= y
  BY LeastNat
<1>2. QED BY <1>1 DEF Min

\* One more vector has its address.
LEMMA PlacedIs ==
  ASSUME HoldsInv, NEW f, DOMAIN f = DOMAIN count, NEW S, NEW h, NEW P, NEW N, NEW a, P \subseteq {a},
         Placing(f, S, h, P, N), NEW v \in N, NEW p, p = Placed(h, v)
  PROVE  p.v \notin P /\ Placing(f, S, p.h, P \cup {p.v}, N \ {v})
<1>1. PICK c : c = h.count
  OBVIOUS
<1>2. /\ h \in [count : {c}, next : {h.next}, bad : {FALSE}]
      /\ DOMAIN c = {w \in DOMAIN f : w \notin S \/ f[w] > 0} \cup P \cup N
      /\ c \in [DOMAIN c -> Nat]
      /\ P \subseteq Addresses /\ P \cap DOMAIN f = {} /\ N \cap Addresses = {}
      /\ \A w \in P \cup N : c[w] = 0
      /\ \A w \in DOMAIN f \cap DOMAIN c : c[w] = f[w]
  BY <1>1 DEF Placing
<1>3. PICK low : low = Min(Addresses \ (DOMAIN count \cup Live(h)))
  OBVIOUS
<1>4. low \in Addresses /\ low \notin DOMAIN f /\ low \notin DOMAIN c
  <2>1. PICK A : A = Addresses \ (DOMAIN count \cup Live(h))
    OBVIOUS
  <2>2. A # {}
    <3>1. PICK D : D = Addresses \cap (DOMAIN count \cup DOMAIN c)
      OBVIOUS
    <3>2. D \subseteq DOMAIN count \cup P
      BY <1>2, <3>1
    <3>3. Addresses \ D # {}
      BY <3>2, AddressFree
    <3>4. A = Addresses \ D
      BY <1>1, <2>1, <3>1 DEF Live
    <3>5. QED BY <3>3, <3>4
  <2>3. A \subseteq Nat
    BY <2>1 DEF Addresses
  <2>4. low \in A
    BY <1>3, <2>1, <2>2, <2>3, MinIs
  <2>5. QED BY <1>1, <2>1, <2>4 DEF Live
<1>5. v \in DOMAIN c /\ c[v] = 0 /\ v \notin DOMAIN f /\ v \notin P /\ v # low
  <2>1. v \notin Addresses
    BY <1>2
  <2>2. DOMAIN f \subseteq Addresses
    BY DEF HoldsInv
  <2>3. QED BY <1>2, <1>4, <2>1, <2>2
<1>6. PICK e : e = With(Restrict(c, DOMAIN c \ {v}), low, c[v])
  OBVIOUS
<1>7. /\ DOMAIN e = (DOMAIN c \ {v}) \cup {low} /\ e[low] = 0
      /\ \A w \in DOMAIN c \ {v} : e[w] = c[w]
      /\ e \in [DOMAIN e -> Nat]
  <2>1. PICK k : k = Restrict(c, DOMAIN c \ {v})
    OBVIOUS
  <2>2. DOMAIN k = DOMAIN c \ {v} /\ \A w \in DOMAIN c \ {v} : k[w] = c[w] /\ k[w] \in Nat
    BY <1>2, <2>1 DEF Restrict
  <2>3. e = [w \in DOMAIN k \cup {low} |-> IF w = low THEN 0 ELSE k[w]]
    BY <1>5, <1>6, <2>1 DEF With
  <2>4. low \notin DOMAIN k
    BY <1>4, <2>2
  <2>5. QED BY <2>2, <2>3, <2>4
<1>8. PICK g : g = [h EXCEPT !.count = e]
  OBVIOUS
<1>9. p = [h |-> g, v |-> low]
  <2>1. Placed(h, v) = [h |-> [h EXCEPT !.count = With(Restrict(c, DOMAIN c \ {v}), low, c[v])], v |-> low]
    BY <1>1, <1>3 DEF Placed
  <2>2. QED BY <1>6, <1>8, <2>1
<1>10. p.h = g /\ p.v = low
  BY <1>9
<1>11. g \in [count : {e}, next : {h.next}, bad : {FALSE}] /\ g.count = e /\ g.next = h.next
  BY <1>2, <1>8
<1>12. low \notin P
  BY <1>2, <1>4
<1>13. DOMAIN e = {w \in DOMAIN f : w \notin S \/ f[w] > 0} \cup (P \cup {low}) \cup (N \ {v})
  BY <1>2, <1>5, <1>7
<1>14. P \cup {low} \subseteq Addresses /\ (P \cup {low}) \cap DOMAIN f = {} /\ (N \ {v}) \cap Addresses = {}
  BY <1>2, <1>4
<1>15. \A w \in (P \cup {low}) \cup (N \ {v}) : e[w] = 0
  BY <1>2, <1>5, <1>7
<1>16. \A w \in DOMAIN f \cap DOMAIN e : e[w] = f[w]
  BY <1>2, <1>4, <1>5, <1>7
<1>17. Placing(f, S, g, P \cup {low}, N \ {v})
  BY <1>7, <1>11, <1>13, <1>14, <1>15, <1>16 DEF Placing
<1>18. QED BY <1>10, <1>12, <1>17

-----------------------------------------------------------------------------
(***************************************************************************)
(* The calls.                                                              *)
(***************************************************************************)
\* A call that returns with every vector placed keeps the invariant: what the
\* client may use is there still.  The new vectors are those of V, and the call
\* returns those of N.
LEMMA ReturnKeeps ==
  ASSUME HoldsInv, NEW f, f \in [DOMAIN count -> Nat], \A v \in DOMAIN count : count[v] <= f[v],
         NEW args, args \subseteq DOMAIN mine,
         NEW S, \A v \in DOMAIN count : v \in S => v \in args, NEW h, NEW V, Placing(f, S, h, V, {}),
         NEW N, N \subseteq V, NEW how, Return(how, args, h, N)
  PROVE  /\ HoldsInv' /\ args \subseteq DOMAIN count
         /\ call'.how = how /\ call'.args = args /\ call'.made = Cardinality(N)
         /\ count' \in [DOMAIN count' -> Nat] /\ V = DOMAIN count' \ DOMAIN count
         /\ DOMAIN count' = {w \in DOMAIN count : w \notin S \/ f[w] > 0} \cup V
         /\ \A w \in V : count'[w] = 0
         /\ \A w \in DOMAIN count \cap DOMAIN count' : count'[w] = f[w]
<1>1. /\ DOMAIN f = DOMAIN count
      /\ h.bad = FALSE
      /\ DOMAIN h.count = {w \in DOMAIN count : w \notin S \/ f[w] > 0} \cup V
      /\ h.count \in [DOMAIN h.count -> Nat]
      /\ V \subseteq Addresses /\ V \cap DOMAIN count = {}
      /\ \A w \in V : h.count[w] = 0
      /\ \A w \in DOMAIN count \cap DOMAIN h.count : h.count[w] = f[w]
  BY DEF Placing
<1>2. /\ count' = h.count /\ bad' = h.bad
      /\ call' = [how |-> how, args |-> args, made |-> Cardinality(N)]
      /\ Cardinality(Live(h)) <= MaxVectors /\ \A v \in Live(h) : h.count[v] <= MaxCount
      /\ mine' = [v \in {w \in DOMAIN mine : w \notin args \/ mine[w] > 0} \cup N |->
                    IF v \in N THEN 0 ELSE mine[v]]
  BY DEF Return, End, Fits
<1>3. DOMAIN count \subseteq Addresses /\ DOMAIN mine \subseteq DOMAIN count
  BY DEF HoldsInv
<1>4. PICK m, c : m = mine' /\ c = count'
  OBVIOUS
<1>5. DOMAIN c \subseteq Addresses /\ Cardinality(DOMAIN c) <= MaxVectors
  BY <1>1, <1>2, <1>3, <1>4 DEF Live
<1>6. c \in [DOMAIN c -> 0..MaxCount]
  <2>1. \A v \in DOMAIN c : c[v] \in Nat /\ c[v] <= MaxCount
    BY <1>1, <1>2, <1>4 DEF Live
  <2>2. MaxCount \in Nat
    BY HoldsAssumption
  <2>3. \A v \in DOMAIN c : c[v] \in 0..MaxCount
    BY <2>1, <2>2
  <2>4. QED BY <1>1, <1>2, <1>4, <2>3
<1>7. ASSUME NEW v \in DOMAIN m
      PROVE  v \in DOMAIN c /\ m[v] \in Nat /\ m[v] <= c[v]
  <2>1. CASE v \in N
    BY <1>1, <1>2, <1>4, <2>1
  <2>2. CASE v \notin N
    <3>1. v \in DOMAIN mine /\ (v \notin args \/ mine[v] > 0) /\ m[v] = mine[v]
      BY <1>2, <1>4, <2>2
    <3>2. /\ v \in DOMAIN count /\ mine[v] \in Nat /\ count[v] \in Nat /\ f[v] \in Nat
          /\ mine[v] <= count[v] /\ count[v] <= f[v]
      <4>1. v \in DOMAIN count /\ mine[v] \in Nat /\ mine[v] <= count[v] /\ count[v] \in 0..MaxCount
        BY <3>1 DEF HoldsInv
      <4>2. count[v] \in Nat
        BY <4>1, HoldsAssumption
      <4>3. QED BY <4>1, <4>2
    <3>3. v \notin S \/ f[v] > 0
      BY <3>1, <3>2
    <3>4. v \in DOMAIN c /\ c[v] = f[v]
      BY <1>1, <1>2, <1>4, <3>2, <3>3
    <3>5. QED BY <3>1, <3>2, <3>4
  <2>3. QED BY <2>1, <2>2
<1>8. HoldsInv'
  <2>1. bad' = FALSE
    BY <1>1, <1>2
  <2>2. Addresses' = Addresses
    BY DEF Addresses
  <2>3. QED BY <1>4, <1>5, <1>6, <1>7, <2>1, <2>2 DEF HoldsInv
<1>9. /\ call'.how = how /\ call'.args = args /\ call'.made = Cardinality(N)
  BY <1>2
<1>10. V = DOMAIN count' \ DOMAIN count
  BY <1>1, <1>2
<1>11. QED BY <1>1, <1>2, <1>3, <1>8, <1>9, <1>10

\* What such a call leaves of the counts is what is promised of it.
LEMMA LeavesThem ==
  ASSUME count \in [DOMAIN count -> Nat],
         NEW gone, NEW more, NEW V, V = DOMAIN count' \ DOMAIN count,
         NEW new, new = Cardinality(V),
         count' \in [DOMAIN count' -> Nat],
         DOMAIN count' = (DOMAIN count \ gone) \cup V,
         \A w \in V : count'[w] = 0,
         \A w \in DOMAIN count \cap DOMAIN count' :
           count'[w] = IF w \in more THEN count[w] + 1 ELSE count[w]
  PROVE  Promised!Leaves(gone, more, new)
<1>1. PICK c : c = count'
  OBVIOUS
<1>2. PICK k : k = [v \in (DOMAIN count \ gone) \cup V |->
                      IF v \in V THEN 0 ELSE IF v \in more THEN count[v] + 1 ELSE count[v]]
  OBVIOUS
<1>3. c = k
  <2>1. c \in [DOMAIN c -> Nat] /\ DOMAIN c = DOMAIN k
    BY <1>1, <1>2
  <2>2. ASSUME NEW w \in DOMAIN c
        PROVE  c[w] = k[w]
    <3>1. CASE w \in V
      BY <1>1, <1>2, <3>1
    <3>2. CASE w \notin V
      BY <1>1, <1>2, <3>2
    <3>3. QED BY <3>1, <3>2
  <2>3. QED BY <1>2, <2>1, <2>2
<1>4. Promised!Cardinality(V) = Cardinality(V)
  BY DEF Promised!Cardinality, Cardinality
<1>5. QED BY <1>1, <1>2, <1>3, <1>4 DEF Promised!Leaves

\* A call that frees what it is passed, or nothing; one that leaves a vector.
LEMMA ReturnsStep ==
  ASSUME HoldsInv, NEW args, args \subseteq DOMAIN mine, NEW S, NEW how,
         NEW h, NEW V, Placing(count, S, h, V, {}), NEW N, N \subseteq V, Return(how, args, h, N),
         \/ how = "returns" /\ S = args /\ N = V
         \/ how = "keeps" /\ S = {} /\ N = V
         \/ how = "leaks" /\ S = args /\ Cardinality(V) = Cardinality(N) + 1
  PROVE  HoldsInv' /\ Promised!Next
<1>1. count \in [DOMAIN count -> Nat] /\ \A v \in DOMAIN count : count[v] <= count[v]
  <2>1. \A v \in DOMAIN count : count[v] \in Nat
    BY HoldsAssumption DEF HoldsInv
  <2>2. count \in [DOMAIN count -> Nat]
    BY <2>1 DEF HoldsInv
  <2>3. QED BY <2>1, <2>2
<1>2. /\ HoldsInv' /\ args \subseteq DOMAIN count
      /\ call'.how = how /\ call'.args = args /\ call'.made = Cardinality(N)
      /\ count' \in [DOMAIN count' -> Nat] /\ V = DOMAIN count' \ DOMAIN count
      /\ DOMAIN count' = {w \in DOMAIN count : w \notin S \/ count[w] > 0} \cup V
      /\ \A w \in V : count'[w] = 0
      /\ \A w \in DOMAIN count \cap DOMAIN count' : count'[w] = count[w]
  <2>1. \A v \in DOMAIN count : v \in S => v \in args
    OBVIOUS
  <2>2. QED BY <1>1, <2>1, ReturnKeeps
<1>3. PICK gone : gone = {v \in S : count[v] = 0}
  OBVIOUS
<1>4. DOMAIN count' = (DOMAIN count \ gone) \cup V
  BY <1>1, <1>2, <1>3
<1>5. \A w \in DOMAIN count \cap DOMAIN count' :
        count'[w] = IF w \in {} THEN count[w] + 1 ELSE count[w]
  BY <1>2
<1>6. Promised!Leaves(gone, {}, Cardinality(V))
  BY <1>1, <1>2, <1>4, <1>5, LeavesThem
<1>7. S = args => Promised!Unheld(args) = gone
  BY <1>3 DEF Promised!Unheld
<1>8. CASE how = "returns" /\ S = args /\ N = V
  BY <1>2, <1>6, <1>7, <1>8 DEF Promised!Next, Promised!Step
<1>9. CASE how = "keeps" /\ S = {} /\ N = V
  <2>1. gone = {}
    BY <1>3, <1>9
  <2>2. QED BY <1>2, <1>6, <1>9, <2>1 DEF Promised!Next, Promised!Step
<1>10. CASE how = "leaks" /\ S = args /\ Cardinality(V) = Cardinality(N) + 1
  BY <1>2, <1>6, <1>7, <1>10 DEF Promised!Next, Promised!Step
<1>11. QED BY <1>8, <1>9, <1>10

\* A call that makes nothing.
LEMMA PlainStep ==
  ASSUME HoldsInv, NEW args, args \subseteq DOMAIN mine, NEW S, NEW how,
         \/ how = "returns" /\ S = args
         \/ how = "keeps" /\ S = {},
         NEW h, Gives(Begin, S, h, {}), Return(how, args, h, {})
  PROVE  HoldsInv' /\ Promised!Next
<1>1. /\ IsHeap(Begin) /\ Live(Begin) = DOMAIN count /\ Begin.count = count
      /\ Begin.next = MaxVectors + 3
  BY BeginIs
<1>2. Placing(Begin.count, S, h, {}, {})
  BY <1>1, GivesPlacing
<1>3. Placing(count, S, h, {}, {})
  BY <1>1, <1>2
<1>4. QED BY <1>3, ReturnsStep

\* One that makes a vector.
LEMMA MakesStep ==
  ASSUME HoldsInv, NEW args, args \subseteq DOMAIN mine, NEW S, NEW how,
         \/ how = "returns" /\ S = args
         \/ how = "keeps" /\ S = {},
         NEW r, Gives(Begin, S, r.h, {r.v}), MakesBy(how, args, r)
  PROVE  HoldsInv' /\ Promised!Next
<1>1. /\ IsHeap(Begin) /\ Live(Begin) = DOMAIN count /\ Begin.count = count
      /\ Begin.next = MaxVectors + 3
  BY BeginIs
<1>2. Placing(Begin.count, S, r.h, {}, {r.v})
  BY <1>1, GivesPlacing
<1>3. PICK p : p = Placed(r.h, r.v)
  OBVIOUS
<1>4. Placing(count, S, p.h, {} \cup {p.v}, {r.v} \ {r.v})
  <2>1. Placing(count, S, r.h, {}, {r.v}) /\ {} \subseteq {r.v} /\ r.v \in {r.v}
    BY <1>1, <1>2
  <2>2. QED BY <1>3, <2>1, PlacedIs
<1>5. {} \cup {p.v} = {p.v} /\ {r.v} \ {r.v} = {}
  OBVIOUS
<1>6. Placing(count, S, p.h, {p.v}, {})
  BY <1>4, <1>5
<1>7. Return(how, args, p.h, {p.v})
  BY <1>3 DEF MakesBy, After
<1>8. QED BY <1>6, <1>7, ReturnsStep

\* One that makes two and returns them, or one of them.
LEMMA MakesTwoStep ==
  ASSUME HoldsInv, NEW args, args \subseteq DOMAIN mine,
         NEW h, NEW v, NEW w, v # w, Gives(Begin, args, h, {v, w}),
         MakesTwo(args, h, v, w) \/ MakesLeaving(args, h, v, w)
  PROVE  HoldsInv' /\ Promised!Next
<1>1. /\ IsHeap(Begin) /\ Live(Begin) = DOMAIN count /\ Begin.count = count
      /\ Begin.next = MaxVectors + 3
  BY BeginIs
<1>2. Placing(Begin.count, args, h, {}, {v, w})
  BY <1>1, GivesPlacing
<1>3. PICK p : p = Placed(h, v)
  OBVIOUS
<1>4. Placing(count, args, p.h, {} \cup {p.v}, {v, w} \ {v})
  <2>1. Placing(count, args, h, {}, {v, w}) /\ {} \subseteq {v} /\ v \in {v, w}
    BY <1>1, <1>2
  <2>2. QED BY <1>3, <2>1, PlacedIs
<1>5. {} \cup {p.v} = {p.v} /\ {v, w} \ {v} = {w} /\ {w} \ {w} = {}
  OBVIOUS
<1>6. PICK q : q = Placed(p.h, w)
  OBVIOUS
<1>7. q.v \notin {p.v} /\ Placing(count, args, q.h, {p.v} \cup {q.v}, {w} \ {w})
  <2>1. Placing(count, args, p.h, {p.v}, {w}) /\ {p.v} \subseteq {p.v} /\ w \in {w}
    BY <1>4, <1>5
  <2>2. QED BY <1>6, <2>1, PlacedIs
<1>8. {p.v} \cup {q.v} = {p.v, q.v}
  OBVIOUS
<1>9. Placing(count, args, q.h, {p.v, q.v}, {})
  BY <1>5, <1>7, <1>8
<1>10. CASE MakesTwo(args, h, v, w)
  <2>1. Return("returns", args, q.h, {p.v, q.v})
    BY <1>3, <1>6, <1>10 DEF MakesTwo, After
  <2>2. QED BY <1>9, <2>1, ReturnsStep
<1>11. CASE MakesLeaving(args, h, v, w)
  <2>1. Return("leaks", args, q.h, {p.v})
    BY <1>3, <1>6, <1>11 DEF MakesLeaving, After
  <2>2. Cardinality({p.v, q.v}) = Cardinality({p.v}) + 1
    <3>1. IsFiniteSet({p.v})
      BY FS_Singleton
    <3>2. QED BY <1>7, <1>8, <3>1, FS_AddElement
  <2>3. {p.v} \subseteq {p.v, q.v}
    OBVIOUS
  <2>4. QED BY <1>9, <2>1, <2>2, <2>3, ReturnsStep
<1>12. QED BY <1>10, <1>11

\* A signed division that returns at once: the dividend has one more hold.
LEMMA HoldsStep ==
  ASSUME HoldsInv, NEW x \in DOMAIN mine, NEW y \in DOMAIN mine,
         NEW r, Gives(Hold(Begin, x), {y}, r.h, {r.v}), MakesBy("holds", {x, y}, r)
  PROVE  HoldsInv' /\ Promised!Next
<1>1. /\ IsHeap(Begin) /\ Live(Begin) = DOMAIN count /\ Begin.count = count
      /\ Begin.next = MaxVectors + 3 /\ Room(Begin, 1)
  BY BeginIs, BeginRoom
<1>2. x \in DOMAIN count /\ y \in DOMAIN count
  BY DEF HoldsInv
<1>3. \A v \in DOMAIN count : count[v] \in Nat
  BY HoldsAssumption DEF HoldsInv
<1>4. PICK b : b = Hold(Begin, x)
  OBVIOUS
<1>5. /\ IsHeap(b) /\ Live(b) = DOMAIN count /\ b.next = MaxVectors + 3
      /\ \A w \in DOMAIN count : b.count[w] = IF w = x THEN count[w] + 1 ELSE count[w]
  <2>1. Room(Begin, 0 + 1) /\ 0 \in Nat
    BY <1>1
  <2>2. QED BY <1>1, <1>2, <1>4, <2>1, HoldLive
<1>6. PICK f : f = b.count
  OBVIOUS
<1>7. /\ f \in [DOMAIN count -> Nat] /\ DOMAIN f = DOMAIN count
      /\ \A v \in DOMAIN count : count[v] <= f[v]
      /\ \A v \in DOMAIN count : f[v] = IF v \in {x} THEN count[v] + 1 ELSE count[v]
  <2>1. f \in [DOMAIN count -> Nat]
    BY <1>5, <1>6 DEF IsHeap
  <2>2. QED BY <1>3, <1>5, <1>6, <2>1
<1>8. Placing(f, {y}, r.h, {}, {r.v})
  BY <1>4, <1>5, <1>6, GivesPlacing
<1>9. PICK p : p = Placed(r.h, r.v)
  OBVIOUS
<1>10. Placing(f, {y}, p.h, {} \cup {p.v}, {r.v} \ {r.v})
  <2>1. {} \subseteq {r.v} /\ r.v \in {r.v}
    OBVIOUS
  <2>2. QED BY <1>7, <1>8, <1>9, <2>1, PlacedIs
<1>11. {} \cup {p.v} = {p.v} /\ {r.v} \ {r.v} = {}
  OBVIOUS
<1>12. PICK V : V = {p.v}
  OBVIOUS
<1>13. Placing(f, {y}, p.h, V, {})
  BY <1>10, <1>11, <1>12
<1>14. Return("holds", {x, y}, p.h, V)
  BY <1>9, <1>12 DEF MakesBy, After
<1>15. PICK args : args = {x, y}
  OBVIOUS
<1>16. /\ HoldsInv' /\ args \subseteq DOMAIN count
       /\ call'.how = "holds" /\ call'.args = args /\ call'.made = Cardinality(V)
       /\ count' \in [DOMAIN count' -> Nat] /\ V = DOMAIN count' \ DOMAIN count
       /\ DOMAIN count' = {w \in DOMAIN count : w \notin {y} \/ f[w] > 0} \cup V
       /\ \A w \in V : count'[w] = 0
       /\ \A w \in DOMAIN count \cap DOMAIN count' : count'[w] = f[w]
  <2>1. args \subseteq DOMAIN mine /\ \A v \in DOMAIN count : v \in {y} => v \in args
    BY <1>15
  <2>2. Return("holds", args, p.h, V) /\ V \subseteq V
    BY <1>14, <1>15
  <2>3. QED BY <1>7, <1>13, <2>1, <2>2, ReturnKeeps
<1>17. PICK gone : gone = Promised!Unheld(args) \ {x}
  OBVIOUS
<1>18. gone = {w \in args : count[w] = 0} \ {x}
  BY <1>17 DEF Promised!Unheld
<1>19. DOMAIN count' = (DOMAIN count \ gone) \cup V
  <2>1. \A w \in DOMAIN count : (w \notin {y} \/ f[w] > 0) <=> w \notin gone
    BY <1>3, <1>7, <1>15, <1>18
  <2>2. QED BY <1>16, <2>1
<1>20. count \in [DOMAIN count -> Nat]
  BY <1>3 DEF HoldsInv
<1>21. \A w \in DOMAIN count \cap DOMAIN count' :
         count'[w] = IF w \in {x} THEN count[w] + 1 ELSE count[w]
  BY <1>7, <1>16
<1>22. Promised!Leaves(gone, {x}, Cardinality(V))
  BY <1>16, <1>19, <1>20, <1>21, LeavesThem
<1>23. x \in args
  BY <1>15
<1>24. QED BY <1>16, <1>17, <1>22, <1>23 DEF Promised!Next, Promised!Step

\* The client's own hold, release, or both a release and a free.
LEMMA EndKeeps ==
  ASSUME HoldsInv, NEW g, IsHeap(g), Live(g) \subseteq DOMAIN count, NEW how, NEW args,
         End(how, args, g, 0), DOMAIN mine' \subseteq Live(g),
         \A v \in DOMAIN mine' : mine'[v] \in Nat /\ mine'[v] <= g.count[v]
  PROVE  /\ HoldsInv' /\ count' = g.count /\ DOMAIN count' = Live(g)
         /\ count' \in [DOMAIN count' -> Nat]
         /\ call'.how = how /\ call'.args = args /\ call'.made = 0
<1>1. /\ count' = g.count /\ bad' = g.bad
      /\ call' = [how |-> how, args |-> args, made |-> 0]
      /\ Cardinality(Live(g)) <= MaxVectors /\ \A v \in Live(g) : g.count[v] <= MaxCount
  BY DEF End, Fits
<1>2. g.count \in [Live(g) -> Nat] /\ DOMAIN g.count = Live(g) /\ g.bad = FALSE
  BY DEF IsHeap
<1>3. g.count \in [Live(g) -> 0..MaxCount]
  <2>1. \A v \in Live(g) : g.count[v] \in 0..MaxCount
    BY <1>1, <1>2, HoldsAssumption
  <2>2. QED BY <1>2, <2>1
<1>4. HoldsInv'
  <2>1. Live(g) \subseteq Addresses
    BY DEF HoldsInv
  <2>2. Addresses' = Addresses
    BY DEF Addresses
  <2>3. PICK c, m : c = count' /\ m = mine'
    OBVIOUS
  <2>4. /\ DOMAIN c \subseteq Addresses /\ Cardinality(DOMAIN c) <= MaxVectors
        /\ c \in [DOMAIN c -> 0..MaxCount] /\ bad' = FALSE
        /\ DOMAIN m \subseteq DOMAIN c
        /\ \A v \in DOMAIN m : m[v] \in Nat /\ m[v] <= c[v]
    BY <1>1, <1>2, <1>3, <2>1, <2>3
  <2>5. QED BY <2>2, <2>3, <2>4 DEF HoldsInv
<1>5. QED BY <1>1, <1>2, <1>4

\* bfvHold.
LEMMA HoldCall ==
  ASSUME HoldsInv, NEW x \in DOMAIN mine, bfvHold(x)
  PROVE  HoldsInv' /\ Promised!Next
<1>1. /\ IsHeap(Begin) /\ Live(Begin) = DOMAIN count /\ Begin.count = count /\ Room(Begin, 1)
      /\ x \in DOMAIN count /\ DOMAIN mine \subseteq DOMAIN count
  BY BeginIs, BeginRoom DEF HoldsInv
<1>2. \A v \in DOMAIN count : count[v] \in Nat
  BY HoldsAssumption DEF HoldsInv
<1>3. PICK g : g = Hold(Begin, x)
  OBVIOUS
<1>4. /\ IsHeap(g) /\ Live(g) = DOMAIN count
      /\ \A w \in DOMAIN count : g.count[w] = IF w = x THEN count[w] + 1 ELSE count[w]
  <2>1. Room(Begin, 0 + 1) /\ 0 \in Nat
    BY <1>1
  <2>2. QED BY <1>1, <1>3, <2>1, HoldLive
<1>5. PICK m : m = mine'
  OBVIOUS
<1>6. m = [mine EXCEPT ![x] = mine[x] + 1] /\ End("hold", {x}, g, 0)
  BY <1>3, <1>5 DEF bfvHold
<1>7. DOMAIN m = DOMAIN mine /\ \A v \in DOMAIN mine : m[v] = IF v = x THEN mine[v] + 1 ELSE mine[v]
  BY <1>6
<1>8. \A v \in DOMAIN m : m[v] \in Nat /\ m[v] <= g.count[v]
  <2>1. TAKE v \in DOMAIN m
  <2>2. v \in DOMAIN count /\ mine[v] \in Nat /\ mine[v] <= count[v] /\ count[v] \in Nat
    BY <1>1, <1>2, <1>7 DEF HoldsInv
  <2>3. QED BY <1>4, <1>7, <2>2
<1>9. /\ HoldsInv' /\ count' = g.count /\ DOMAIN count' = Live(g)
      /\ count' \in [DOMAIN count' -> Nat]
      /\ call'.how = "hold" /\ call'.args = {x} /\ call'.made = 0
  BY <1>1, <1>4, <1>5, <1>6, <1>7, <1>8, EndKeeps
<1>10. Promised!Leaves({}, {x}, call'.made)
  <2>1. PICK V : V = {}
    OBVIOUS
  <2>2. /\ V = DOMAIN count' \ DOMAIN count /\ call'.made = Cardinality(V)
        /\ DOMAIN count' = (DOMAIN count \ {}) \cup V /\ \A w \in V : count'[w] = 0
    BY <1>4, <1>9, <2>1, FS_EmptySet
  <2>3. \A w \in DOMAIN count \cap DOMAIN count' :
          count'[w] = IF w \in {x} THEN count[w] + 1 ELSE count[w]
    BY <1>4, <1>9
  <2>4. count \in [DOMAIN count -> Nat]
    BY <1>2 DEF HoldsInv
  <2>5. QED BY <1>9, <2>2, <2>3, <2>4, LeavesThem
<1>11. QED BY <1>1, <1>9, <1>10 DEF Promised!Next, Promised!Step

\* bfvRelease.
LEMMA ReleaseCall ==
  ASSUME HoldsInv, NEW x \in DOMAIN mine, bfvRelease(x)
  PROVE  HoldsInv' /\ Promised!Next
<1>1. /\ IsHeap(Begin) /\ Live(Begin) = DOMAIN count /\ Begin.count = count
      /\ x \in DOMAIN count /\ DOMAIN mine \subseteq DOMAIN count
  BY BeginIs DEF HoldsInv
<1>2. \A v \in DOMAIN count : count[v] \in Nat
  BY HoldsAssumption DEF HoldsInv
<1>3. mine[x] \in Nat /\ mine[x] > 0 /\ count[x] > 0
  BY <1>1, <1>2 DEF HoldsInv, bfvRelease
<1>4. PICK g : g = Release(Begin, x)
  OBVIOUS
<1>5. /\ IsHeap(g) /\ Live(g) = DOMAIN count
      /\ \A w \in DOMAIN count : g.count[w] = IF w = x THEN count[w] - 1 ELSE count[w]
  BY <1>1, <1>3, <1>4, ReleaseLive
<1>6. PICK m : m = mine'
  OBVIOUS
<1>7. m = [mine EXCEPT ![x] = mine[x] - 1] /\ End("release", {x}, g, 0)
  BY <1>4, <1>6 DEF bfvRelease
<1>8. DOMAIN m = DOMAIN mine /\ \A v \in DOMAIN mine : m[v] = IF v = x THEN mine[v] - 1 ELSE mine[v]
  BY <1>7
<1>9. \A v \in DOMAIN m : m[v] \in Nat /\ m[v] <= g.count[v]
  <2>1. TAKE v \in DOMAIN m
  <2>2. v \in DOMAIN count /\ mine[v] \in Nat /\ mine[v] <= count[v] /\ count[v] \in Nat
    BY <1>1, <1>2, <1>8 DEF HoldsInv
  <2>3. QED BY <1>3, <1>5, <1>8, <2>2
<1>10. /\ HoldsInv' /\ count' = g.count /\ DOMAIN count' = Live(g)
       /\ count' \in [DOMAIN count' -> Nat]
       /\ call'.how = "release" /\ call'.args = {x} /\ call'.made = 0
  BY <1>1, <1>5, <1>6, <1>7, <1>8, <1>9, EndKeeps
<1>11. PICK k : k = [v \in DOMAIN count |-> IF v \in {x} THEN count[v] - 1 ELSE count[v]]
  OBVIOUS
<1>12. count' = k
  <2>1. PICK c : c = count'
    OBVIOUS
  <2>2. c \in [DOMAIN count -> Nat] /\ \A w \in DOMAIN count : c[w] = k[w]
    BY <1>5, <1>10, <1>11, <2>1
  <2>3. QED BY <1>11, <2>1, <2>2
<1>13. QED BY <1>1, <1>3, <1>10, <1>11, <1>12 DEF Promised!Next, Promised!Step

\* bfvReleaseConsume.
LEMMA DropCall ==
  ASSUME HoldsInv, NEW x \in DOMAIN mine, bfvReleaseConsume(x)
  PROVE  HoldsInv' /\ Promised!Next
<1>1. /\ IsHeap(Begin) /\ Live(Begin) = DOMAIN count /\ Begin.count = count
      /\ x \in DOMAIN count /\ DOMAIN mine \subseteq DOMAIN count
  BY BeginIs DEF HoldsInv
<1>2. \A v \in DOMAIN count : count[v] \in Nat
  BY HoldsAssumption DEF HoldsInv
<1>3. mine[x] \in Nat /\ mine[x] > 0 /\ mine[x] <= count[x] /\ count[x] > 0
  BY <1>1, <1>2 DEF HoldsInv, bfvReleaseConsume
<1>4. PICK r : r = Release(Begin, x)
  OBVIOUS
<1>5. /\ IsHeap(r) /\ Live(r) = DOMAIN count
      /\ \A w \in DOMAIN count : r.count[w] = IF w = x THEN count[w] - 1 ELSE count[w]
  BY <1>1, <1>3, <1>4, ReleaseLive
<1>6. PICK g : g = ReleaseConsume(Begin, x)
  OBVIOUS
<1>7. Gives(r, {x}, g, {})
  BY <1>1, <1>4, <1>5, <1>6, ConsumeGives DEF ReleaseConsume
<1>8. /\ IsHeap(g) /\ Live(g) = {w \in DOMAIN count : w \notin {x} \/ r.count[w] > 0}
      /\ \A w \in Live(g) : g.count[w] = r.count[w]
  BY <1>5, <1>7 DEF Gives
<1>9. Live(g) = {w \in DOMAIN count : w \notin {x} \/ count[w] > 1}
  <2>1. \A w \in DOMAIN count : (w \notin {x} \/ r.count[w] > 0) <=> (w \notin {x} \/ count[w] > 1)
    BY <1>2, <1>5
  <2>2. QED BY <1>8, <2>1
<1>10. PICK m : m = mine'
  OBVIOUS
<1>11. /\ m = [v \in {w \in DOMAIN mine : w # x \/ mine[w] > 1} |->
                 IF v = x THEN mine[v] - 1 ELSE mine[v]]
       /\ End("drop", {x}, g, 0)
  BY <1>6, <1>10 DEF bfvReleaseConsume
<1>12. ASSUME NEW v \in DOMAIN m
       PROVE  v \in Live(g) /\ m[v] \in Nat /\ m[v] <= g.count[v]
  <2>1. /\ v \in DOMAIN mine /\ (v # x \/ mine[v] > 1)
        /\ m[v] = IF v = x THEN mine[v] - 1 ELSE mine[v]
    BY <1>11
  <2>2. v \in DOMAIN count /\ mine[v] \in Nat /\ mine[v] <= count[v] /\ count[v] \in Nat
    BY <1>1, <1>2, <2>1 DEF HoldsInv
  <2>3. v \in Live(g)
    BY <1>9, <2>1, <2>2
  <2>4. g.count[v] = IF v = x THEN count[v] - 1 ELSE count[v]
    BY <1>5, <1>8, <2>2, <2>3
  <2>5. QED BY <2>1, <2>2, <2>3, <2>4
<1>13. /\ HoldsInv' /\ count' = g.count /\ DOMAIN count' = Live(g)
       /\ count' \in [DOMAIN count' -> Nat]
       /\ call'.how = "drop" /\ call'.args = {x} /\ call'.made = 0
  <2>1. Live(g) \subseteq DOMAIN count /\ DOMAIN m \subseteq Live(g)
    BY <1>9, <1>12
  <2>2. QED BY <1>8, <1>10, <1>11, <1>12, <2>1, EndKeeps
<1>14. PICK k : k = [v \in {w \in DOMAIN count : w \notin {x} \/ count[w] > 1} |->
                       IF v \in {x} THEN count[v] - 1 ELSE count[v]]
  OBVIOUS
<1>15. count' = k
  <2>1. PICK c : c = count'
    OBVIOUS
  <2>2. c \in [Live(g) -> Nat] /\ \A w \in Live(g) : c[w] = k[w]
    BY <1>5, <1>8, <1>9, <1>13, <1>14, <2>1
  <2>3. QED BY <1>9, <1>14, <2>1, <2>2
<1>16. QED BY <1>1, <1>3, <1>13, <1>14, <1>15 DEF Promised!Next, Promised!Step

\* A call of one operand.
LEMMA UnaryCall ==
  ASSUME HoldsInv, NEW x \in DOMAIN mine, Unary(x)
  PROVE  HoldsInv' /\ Promised!Next
<1>1. IsHeap(Begin) /\ x \in Live(Begin) /\ Room(Begin, 1)
  BY BeginIs, BeginRoom DEF HoldsInv
<1>2. PICK args : args = {x} /\ args \subseteq DOMAIN mine
  OBVIOUS
<1>3. CASE Makes({x}, bfvInvert(Begin, x))
  <2>1. PICK r : r = bfvInvert(Begin, x)
    OBVIOUS
  <2>2. Gives(Begin, args, r.h, {r.v}) /\ MakesBy("returns", args, r)
    BY <1>1, <1>2, <1>3, <2>1, InvertGives DEF Makes
  <2>3. QED BY <1>2, <2>2, MakesStep
<1>4. CASE Makes({x}, bfvAbsoluteValue(Begin, x))
  <2>1. PICK r : r = bfvAbsoluteValue(Begin, x)
    OBVIOUS
  <2>2. Gives(Begin, args, r.h, {r.v}) /\ MakesBy("returns", args, r)
    BY <1>1, <1>2, <1>4, <2>1, AbsoluteGives DEF Makes
  <2>3. QED BY <1>2, <2>2, MakesStep
<1>5. CASE Return("returns", {x}, bfvSgtZero(Begin, x), {})
  <2>1. PICK h : h = bfvSgtZero(Begin, x)
    OBVIOUS
  <2>2. Gives(Begin, args, h, {}) /\ Return("returns", args, h, {})
    BY <1>1, <1>2, <1>5, <2>1, SgtZeroGives
  <2>3. QED BY <1>2, <2>2, PlainStep
<1>6. CASE Return("returns", {x}, Consume(Reads(Begin, x), x), {})
  <2>1. PICK h : h = Consume(Reads(Begin, x), x)
    OBVIOUS
  <2>2. Gives(Begin, args, h, {}) /\ Return("returns", args, h, {})
    BY <1>1, <1>2, <1>6, <2>1, SpendGives
  <2>3. QED BY <1>2, <2>2, PlainStep
<1>7. QED BY <1>3, <1>4, <1>5, <1>6 DEF Unary

\* A call of two operands.
LEMMA BinaryCall ==
  ASSUME HoldsInv, NEW x \in DOMAIN mine, NEW y \in DOMAIN mine, Binary(x, y)
  PROVE  HoldsInv' /\ Promised!Next
<1>1. /\ IsHeap(Begin) /\ x \in Live(Begin) /\ y \in Live(Begin)
      /\ Room(Begin, 2) /\ Room(Begin, 4)
  BY BeginIs, BeginRoom DEF HoldsInv
<1>2. PICK args : args = {x, y} /\ args \subseteq DOMAIN mine
  OBVIOUS
<1>3. ASSUME NEW r, Makes({x, y}, r), Gives(Begin, {x, y}, r.h, {r.v})
      PROVE  HoldsInv' /\ Promised!Next
  <2>1. Gives(Begin, args, r.h, {r.v}) /\ MakesBy("returns", args, r)
    BY <1>2, <1>3 DEF Makes
  <2>2. QED BY <1>2, <2>1, MakesStep
<1>4. ASSUME NEW h, Return("returns", {x, y}, h, {}), Gives(Begin, {x, y}, h, {})
      PROVE  HoldsInv' /\ Promised!Next
  <2>1. Gives(Begin, args, h, {}) /\ Return("returns", args, h, {})
    BY <1>2, <1>4
  <2>2. QED BY <1>2, <2>1, PlainStep
<1>5. CASE Makes({x, y}, bfvAnd(Begin, x, y))
  BY <1>1, <1>3, <1>5, AndGives
<1>6. CASE Makes({x, y}, bfvConcat(Begin, x, y))
  BY <1>1, <1>3, <1>6, ConcatGives
<1>7. CASE Makes({x, y}, bfvQuot(Begin, x, y))
  BY <1>1, <1>3, <1>7, QuotGives
<1>8. CASE Makes({x, y}, bfvRem(Begin, x, y))
  BY <1>1, <1>3, <1>8, QuotGives
<1>9. CASE Makes({x, y}, bfvSdiv(Begin, x, y, FALSE))
  <2>1. PICK r : r = bfvSdiv(Begin, x, y, FALSE) /\ Gives(Begin, {x, y}, r.h, {r.v})
    BY <1>1, SdivGives
  <2>2. QED BY <1>3, <1>9, <2>1
<1>10. CASE Return("returns", {x, y}, bfvEqual(Begin, x, y), {})
  BY <1>1, <1>4, <1>10, EqualGives
<1>11. CASE Return("returns", {x, y}, bfvUlt(Begin, x, y), {})
  BY <1>1, <1>4, <1>11, UltGives
<1>12. CASE Return("returns", {x, y}, bfvUlte(Begin, x, y), {})
  BY <1>1, <1>4, <1>12, UlteGives
<1>13. CASE After(bfvQuotRem(Begin, x, y), LAMBDA d : MakesTwo({x, y}, d.h, d.quot, d.rem))
  <2>1. PICK d : d = bfvQuotRem(Begin, x, y)
    OBVIOUS
  <2>2. Gives(Begin, args, d.h, {d.quot, d.rem}) /\ d.quot # d.rem
    BY <1>1, <1>2, <2>1, QuotRemGives
  <2>3. MakesTwo(args, d.h, d.quot, d.rem)
    BY <1>2, <1>13, <2>1 DEF After
  <2>4. QED BY <1>2, <2>2, <2>3, MakesTwoStep
<1>14. QED BY <1>5, <1>6, <1>7, <1>8, <1>9, <1>10, <1>11, <1>12, <1>13 DEF Binary

\* A call that frees its second operand before it reads the first, or both: they
\* are not one vector that nobody holds.
LEMMA CarefulCall ==
  ASSUME HoldsInv, NEW x \in DOMAIN mine, NEW y \in DOMAIN mine, Careful(x, y)
  PROVE  HoldsInv' /\ Promised!Next
<1>1. IsHeap(Begin) /\ x \in Live(Begin) /\ y \in Live(Begin) /\ Room(Begin, 1)
  BY BeginIs, BeginRoom DEF HoldsInv
<1>2. PICK args : args = {x, y} /\ args \subseteq DOMAIN mine
  OBVIOUS
<1>3. x # y \/ Begin.count[x] > 0
  <2>1. Begin.count = count /\ mine[x] \in Nat /\ mine[x] <= count[x] /\ count[x] \in 0..MaxCount
    BY BeginIs DEF HoldsInv
  <2>2. x # y \/ mine[x] > 0
    BY DEF Careful
  <2>3. QED BY <2>1, <2>2, HoldsAssumption
<1>4. ASSUME NEW r, Makes({x, y}, r), Gives(Begin, {x, y}, r.h, {r.v})
      PROVE  HoldsInv' /\ Promised!Next
  <2>1. Gives(Begin, args, r.h, {r.v}) /\ MakesBy("returns", args, r)
    BY <1>2, <1>4 DEF Makes
  <2>2. QED BY <1>2, <2>1, MakesStep
<1>5. CASE Makes({x, y}, bfvSelect(Begin, x, y))
  BY <1>1, <1>3, <1>4, <1>5, SelectGives
<1>6. CASE Makes({x, y}, bfvSubtract(Begin, x, y))
  BY <1>1, <1>3, <1>4, <1>6, SubtractGives
<1>7. CASE After(bfvSrem(Begin, x, y), LAMBDA r : MakesLeaving({x, y}, r.h, r.v, r.quot))
  <2>1. PICK r : /\ r = bfvSrem(Begin, x, y) /\ Gives(Begin, {x, y}, r.h, {r.v, r.quot})
                 /\ r.v # r.quot
    BY <1>1, <1>3, SremGives
  <2>2. Gives(Begin, args, r.h, {r.v, r.quot}) /\ MakesLeaving(args, r.h, r.v, r.quot)
    BY <1>2, <1>7, <2>1 DEF After
  <2>3. QED BY <1>2, <2>1, <2>2, MakesTwoStep
<1>8. QED BY <1>5, <1>6, <1>7 DEF Careful

\* A shift or a rotation.
LEMMA MovesCall ==
  ASSUME HoldsInv, NEW x \in DOMAIN mine, NEW d \in DOMAIN mine, Moves(x, d)
  PROVE  HoldsInv' /\ Promised!Next
<1>1. /\ IsHeap(Begin) /\ x \in Live(Begin) /\ d \in Live(Begin)
      /\ Room(Begin, 2 * (Stages + 1)) /\ Room(Begin, 2 * (Stages + 2))
  BY BeginIs, BeginRoom DEF HoldsInv
<1>2. PICK args : args = {x, d} /\ args \subseteq DOMAIN mine
  OBVIOUS
<1>3. PICK no \in BOOLEAN, yes \in BOOLEAN : no = FALSE /\ yes = TRUE
  OBVIOUS
<1>4. CASE Makes({x, d}, bfvShift(Begin, x, d, FALSE))
  <2>1. PICK r, S : r = bfvShift(Begin, x, d, no) /\ S = IF no THEN {} ELSE {x, d}
    OBVIOUS
  <2>2. Gives(Begin, S, r.h, {r.v})
    BY <1>1, <2>1, ShiftGives
  <2>3. S = args
    BY <1>2, <1>3, <2>1
  <2>4. r = bfvShift(Begin, x, d, FALSE)
    BY <1>3, <2>1
  <2>5. MakesBy("returns", args, r)
    BY <1>2, <1>4, <2>4 DEF Makes
  <2>6. QED BY <1>2, <2>2, <2>3, <2>5, MakesStep
<1>5. ASSUME NEW over \in BOOLEAN, Makes({x, d}, bfvLrotate(Begin, x, d, over, FALSE))
      PROVE  HoldsInv' /\ Promised!Next
  <2>1. PICK r, R, V : /\ r = bfvLrotate(Begin, x, d, over, no)
                       /\ R = (IF no THEN {r.rest} ELSE {}) /\ V = R \cup {r.v}
    OBVIOUS
  <2>2. Gives(Begin, {x, d}, r.h, V)
    BY <1>1, <2>1, LrotateGives
  <2>3. V = {r.v}
    BY <1>3, <2>1
  <2>4. r = bfvLrotate(Begin, x, d, over, FALSE)
    BY <1>3, <2>1
  <2>5. MakesBy("returns", args, r)
    BY <1>2, <1>5, <2>4 DEF Makes
  <2>6. QED BY <1>2, <2>2, <2>3, <2>5, MakesStep
<1>6. ASSUME NEW over \in BOOLEAN,
             After(bfvLrotate(Begin, x, d, over, TRUE), LAMBDA r : MakesLeaving({x, d}, r.h, r.v, r.rest))
      PROVE  HoldsInv' /\ Promised!Next
  <2>1. PICK r, R, V : /\ r = bfvLrotate(Begin, x, d, over, yes)
                       /\ R = (IF yes THEN {r.rest} ELSE {}) /\ V = R \cup {r.v}
    OBVIOUS
  <2>2. Gives(Begin, {x, d}, r.h, V) /\ r.v \notin R
    BY <1>1, <2>1, LrotateGives
  <2>3. V = {r.v, r.rest} /\ r.v # r.rest
    BY <1>3, <2>1, <2>2
  <2>4. r = bfvLrotate(Begin, x, d, over, TRUE)
    BY <1>3, <2>1
  <2>5. MakesLeaving(args, r.h, r.v, r.rest)
    BY <1>2, <1>6, <2>4 DEF After
  <2>6. QED BY <1>2, <2>2, <2>3, <2>5, MakesTwoStep
<1>7. QED BY <1>4, <1>5, <1>6 DEF Moves

\* The exits that Ownership lists.
LEMMA ExitsCall ==
  ASSUME HoldsInv, NEW x \in DOMAIN mine, NEW y \in DOMAIN mine, Exits(x, y)
  PROVE  HoldsInv' /\ Promised!Next
<1>1. /\ IsHeap(Begin) /\ x \in Live(Begin) /\ y \in Live(Begin)
      /\ Room(Begin, 4) /\ Room(Begin, 2 * (Stages + 1))
  BY BeginIs, BeginRoom DEF HoldsInv
<1>2. PICK yes \in BOOLEAN : yes = TRUE
  OBVIOUS
<1>3. CASE MakesBy("keeps", {x, y}, bfvShift(Begin, x, y, TRUE))
  <2>1. PICK r, S : r = bfvShift(Begin, x, y, yes) /\ S = IF yes THEN {} ELSE {x, y}
    OBVIOUS
  <2>2. Gives(Begin, S, r.h, {r.v})
    BY <1>1, <2>1, ShiftGives
  <2>3. S = {}
    BY <1>2, <2>1
  <2>4. r = bfvShift(Begin, x, y, TRUE)
    BY <1>2, <2>1
  <2>5. PICK args : args = {x, y} /\ args \subseteq DOMAIN mine
    OBVIOUS
  <2>6. MakesBy("keeps", args, r)
    BY <1>3, <2>4, <2>5
  <2>7. QED BY <2>2, <2>3, <2>5, <2>6, MakesStep
<1>4. CASE Return("keeps", {x}, Reads(Begin, x), {})
  <2>1. Reads(Begin, x) = Begin
    BY <1>1, ReadsLive
  <2>2. Gives(Begin, {}, Begin, {})
    BY <1>1, GivesSelf
  <2>3. PICK args : args = {x} /\ args \subseteq DOMAIN mine
    OBVIOUS
  <2>4. Return("keeps", args, Begin, {})
    BY <1>4, <2>1, <2>3
  <2>5. QED BY <2>2, <2>3, <2>4, PlainStep
<1>5. CASE MakesBy("holds", {x, y}, bfvSdiv(Begin, x, y, TRUE))
  <2>1. PICK r : r = bfvSdiv(Begin, x, y, TRUE) /\ Gives(Hold(Begin, x), {y}, r.h, {r.v})
    BY <1>1, SdivZeroGives
  <2>2. MakesBy("holds", {x, y}, r)
    BY <1>5, <2>1
  <2>3. QED BY <2>1, <2>2, HoldsStep
<1>6. QED BY <1>3, <1>4, <1>5 DEF Exits

\* bfvInit makes a vector of nothing.
LEMMA InitCall ==
  ASSUME HoldsInv, bfvInit
  PROVE  HoldsInv' /\ Promised!Next
<1>1. PICK r : r = New(Begin) /\ Gives(Begin, {}, r.h, {r.v})
  BY BeginIs, NewGives
<1>2. PICK args : args = {}
  OBVIOUS
<1>3. args \subseteq DOMAIN mine
  BY <1>2
<1>4. MakesBy("returns", args, r)
  BY <1>1, <1>2 DEF bfvInit, Makes
<1>5. QED BY <1>1, <1>2, <1>3, <1>4, MakesStep

-----------------------------------------------------------------------------
(***************************************************************************)
(* The theorems.                                                           *)
(***************************************************************************)
\* Every call keeps the invariant, and the promise.
LEMMA CallsKeep ==
  HoldsInv /\ [Next]_vars => HoldsInv' /\ [Promised!Next]_(Promised!vars)
<1> SUFFICES ASSUME HoldsInv, [Next]_vars
             PROVE  HoldsInv' /\ [Promised!Next]_(Promised!vars)
  OBVIOUS
<1>1. CASE UNCHANGED vars
  <2>1. Addresses' = Addresses
    BY DEF Addresses
  <2>2. HoldsInv'
    BY <1>1, <2>1 DEF HoldsInv, vars
  <2>3. UNCHANGED Promised!vars
    BY <1>1 DEF vars, Promised!vars
  <2>4. QED BY <2>2, <2>3
<1>2. CASE bfvInit
  BY <1>2, InitCall
<1>3. ASSUME NEW x \in DOMAIN mine,
             \/ bfvHold(x) \/ bfvRelease(x) \/ bfvReleaseConsume(x) \/ Unary(x)
      PROVE  HoldsInv' /\ Promised!Next
  BY <1>3, HoldCall, ReleaseCall, DropCall, UnaryCall
<1>4. ASSUME NEW x \in DOMAIN mine, NEW y \in DOMAIN mine,
             \/ Binary(x, y) \/ Careful(x, y) \/ Moves(x, y) \/ Exits(x, y)
      PROVE  HoldsInv' /\ Promised!Next
  BY <1>4, BinaryCall, CarefulCall, MovesCall, ExitsCall
<1>5. QED BY <1>1, <1>2, <1>3, <1>4 DEF Next

\* At first there are no vectors.
LEMMA NoneAtFirst ==
  Init => HoldsInv /\ Promised!Init
<1> SUFFICES ASSUME Init PROVE HoldsInv /\ Promised!Init
  OBVIOUS
<1>1. PICK c, m : c = count /\ m = mine
  OBVIOUS
<1>2. c = <<>> /\ m = <<>> /\ bad = FALSE
  BY <1>1 DEF Init
<1>3. DOMAIN c = {} /\ c \in [DOMAIN c -> 0..MaxCount] /\ DOMAIN m = {}
  BY <1>2
<1>4. Cardinality(DOMAIN c) <= MaxVectors
  BY <1>3, FS_EmptySet, HoldsAssumption
<1>5. HoldsInv
  BY <1>1, <1>2, <1>3, <1>4 DEF HoldsInv
<1>6. Promised!Init
  BY DEF Init, Promised!Init
<1>7. QED BY <1>5, <1>6

\* What the client may use is there, with its holds, after every call.
THEOREM HoldsAreThere == Spec => []HoldsInv
<1>1. Init => HoldsInv
  BY NoneAtFirst
<1>2. HoldsInv /\ [Next]_vars => HoldsInv'
  BY CallsKeep
<1>3. QED BY <1>1, <1>2, PTL DEF Spec

\* No function uses a vector that is freed, or releases one that nobody holds:
\* whatever the number of vectors, of holds and of stages of a shift, and
\* whichever operands are the same vector.
THEOREM NoFreedIsUsed == Spec => []Safe
<1>1. HoldsInv => Safe
  BY DEF HoldsInv, Safe
<1>2. QED BY <1>1, HoldsAreThere, PTL

\* Every call does what Ownership says, whatever the number of vectors, of holds
\* and of stages of a shift, and whichever operands are the same vector: it frees
\* the passed vectors that nobody holds, returns the new ones and leaves the
\* other counts.  A shift by too much and a clause that holds free nothing; a
\* division by a constant zero leaves a hold; bfvSrem always, and bfvLrotate by a
\* distance of which the rest of the width is too large, leave one vector of
\* their own.
THEOREM PromisesKept == Spec => Contract
<1>1. Init => Promised!Init
  BY NoneAtFirst
<1>2. HoldsInv /\ [Next]_vars => [Promised!Next]_(Promised!vars)
  BY CallsKeep
<1>3. QED BY <1>1, <1>2, HoldsAreThere, PTL DEF Spec, Contract, Promised!Spec
=============================================================================
