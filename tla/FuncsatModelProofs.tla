-------------------------- MODULE FuncsatModelProofs --------------------------
(***************************************************************************)
(* The engine is complete: bcp misses no implication, so that nothing is   *)
(* pending before a decision, every conflict can be analysed and an answer *)
(* "SAT" comes with a model.                                               *)
(***************************************************************************)
EXTENDS FuncsatAnswerProofs

-----------------------------------------------------------------------------
(* Watched literals: the part of the invariant that answers "SAT" need.     *)

\* bcp has visited clause id for the literal at position k.
Visited(k, id) ==
  \/ k <= propq
  \/ /\ pc = "bcp" /\ k = propq + 1
     /\ \E n \in 1..(i - 1) : n \in DOMAIN wlist[trail[k].lit] /\ wlist[trail[k].lit][n].cls = id

\* The literal at position k will not be popped with the current level.
Standing(k) == pc \in {"bcp", "facts"} \/ (pc # "idle" /\ trail[k].level < decisionLevel)

\* A clause with a watched literal that bcp has seen false was satisfied by then,
\* and is until the false literal is popped.
VisitedTrue ==
  \A k \in DOMAIN trail : \A id \in DOMAIN data :
    IsWatched(trail[k].lit, id) /\ Visited(k, id) /\ Standing(k) =>
      \E j \in DOMAIN trail : trail[j].lit \in Range(data[id]) /\ trail[j].level <= trail[k].level

\* The cursor goes back to the start with every literal.
CursorAtStart == pc = "bcp" /\ propq = Len(trail) => i = 1

\* A clause in conflict has two literals of the current level, both of them watched,
\* so that what is popped until one is left is not a decision.
ConflictTwo == pc = "conflict" /\ decisionLevel > 0 => AtCurrentLevel(data[conflictClause]) >= 2
ResolvesTwo == pc = "resolve" => count >= 2 \/ (trail # <<>> /\ Top.reason # NULL /\ HasLitPos(TopVar))

\* Every clause of two or more literals is watched for good.
IsTautology(c) == \E l \in c : -l \in c
FormulaKept ==
  \A c \in Range(formula) :
    /\ \A l \in c : VarOf(l) \in 1..numVars
    /\ \/ c = {} \/ (\E l \in Lit : c = {l}) \/ IsTautology(c)
       \/ \E id \in DOMAIN data : Range(data[id]) = c /\ \E l \in Lit : id \in Classes(wlist[l])

\* A unit clause that was not lost is on the trail below every assumption.
UnitsKept ==
  lost = {} =>
    /\ {} \notin Range(formula)
    /\ \A l \in Lit : {l} \in Range(formula) =>
         \E k \in DOMAIN trail : At(k, l) /\ \A j \in 1..k : trail[j].reason # NULL

\* No call has answered while the engine runs.
Running == pc # "idle" => answer = "none"

Complete ==
  /\ Inv /\ VisitedTrue /\ CursorAtStart /\ ConflictTwo /\ ResolvesTwo
  /\ FormulaKept /\ UnitsKept /\ Running /\ SatRight


\* What VisitClause does, by what it makes of the watcher.
CursorSatisfied(id) ==
  /\ \E l \in Range(data[id]) : IsTrue(trail, l)
  /\ i' = i + 1 /\ UNCHANGED <<data, wlist, assignment, conflictClause, pc>>
CursorMoves(p, id, d) ==
  \E e, m :
    /\ e \in Seq(Lit) /\ Range(e) = Range(d) /\ data' = [data EXCEPT ![id] = e]
    /\ m \in Lit /\ ~IsTrue(trail, m) /\ m # p
    /\ wlist'[p] = RemoveAt(wlist[p], i) /\ wlist'[m] = Append(wlist[m], Watcher(e, id))
    /\ \A l \in Lit \ {p, m} : wlist'[l] = wlist[l]
    /\ UNCHANGED <<i, assignment, conflictClause, pc>>
CursorKeeps(p, id, d) ==
  /\ data' = [data EXCEPT ![id] = d]
  /\ \A l \in Lit : /\ DOMAIN wlist'[l] = DOMAIN wlist[l]
                    /\ \A n \in DOMAIN wlist[l] : wlist'[l][n].cls = wlist[l][n].cls
  /\ \A k \in 3..Len(d) : IsFalse(trail, d[k])
  /\ \/ IsFalse(trail, d[1]) /\ conflictClause' = id /\ pc' = "conflict" /\ UNCHANGED assignment
     \/ IsTrue(trail, d[1]) /\ i' = i + 1 /\ UNCHANGED <<conflictClause, pc, assignment>>
     \/ IsUnknown(trail, d[1]) /\ i' = i + 1 /\ UNCHANGED <<conflictClause, pc>> /\ TrailPush(d[1], id)
CursorStep(p, id, d) ==
  /\ Visits(p, id, d) /\ pc = "bcp"
  /\ i \in 1..Len(wlist[p]) /\ i \in DOMAIN wlist[p] /\ wlist[p][i].cls = id
  /\ CursorSatisfied(id) \/ CursorMoves(p, id, d) \/ CursorKeeps(p, id, d)

\* What a visit does to the cursor of the list it walks.
LEMMA CursorFacts ==
  ASSUME Inv, VisitClause
  PROVE  \E p, id, d : p \in Lit /\ CursorStep(p, id, d)
<1>1. PICK p, id, d :
           /\ p \in Lit
           /\ Visits(p, id, d) /\ pc = "bcp"
           /\ i \in 1..Len(wlist[p]) /\ i \in DOMAIN wlist[p] /\ wlist[p][i].cls = id
           /\ VisitsAs(p, wlist[p][i].lit, id, data[id], d)
  BY VisitShape
<1> p \in Lit
  BY <1>1
<1>2. /\ p = trail[propq + 1].lit /\ propq + 1 \in 1..Len(trail) /\ id \in DOMAIN data /\ d \in Seq(Lit)
      /\ Permuted(data[id], d) /\ Len(d) >= 2 /\ Len(d) \in Nat /\ d[2] = -p /\ DistinctVars(d)
  BY <1>1 DEF Visits
<1>3. wlist \in [Lit -> Seq(Watchers)] /\ Watches(wlist, data) /\ DOMAIN trail = 1..Len(trail)
  BY ListTypes, InvTrail
<1> DEFINE K == {k \in 3..Len(d) : ~IsFalse(trail, d[k])}
           moved == Swap(d, 2, Least(K))
<1>4. CASE IsTrue(trail, wlist[p][i].lit)
  <2>1. wlist[p][i].lit \in Range(data[id])
    BY <1>1, <1>3 DEF Watches, LitsIn
  <2>2. CursorSatisfied(id)
    BY <1>1, <1>4, <2>1 DEF VisitsAs, CursorSatisfied
  <2> QED BY <1>1, <2>2 DEF CursorStep
<1>5. CASE ~IsTrue(trail, wlist[p][i].lit) /\ K # {}
  <2>1. Least(K) \in K
    <3>1. K \in SUBSET Nat
      OBVIOUS
    <3> HIDE DEF K
    <3> QED BY <1>5, <3>1, LeastFacts
  <2>2. PICK k \in 3..Len(d) : k = Least(K) /\ ~IsFalse(trail, d[k])
    BY <2>1
  <2>3. PICK e : e = Swap(d, 2, k)
    OBVIOUS
  <2>4. k \in 1..Len(d) /\ 2 \in 1..Len(d)
    BY <1>2
  <2>5. e \in Seq(Lit) /\ Range(e) = Range(d) /\ e[2] = d[k] /\ d[k] \in Lit
    <3>1. e \in Seq(Lit) /\ Permuted(d, e)
      BY <1>2, <2>3, <2>4, SwapFacts, SwapPermutes
    <3>2. e[2] = d[k] /\ d[k] \in Lit
      BY <1>2, <2>3, <2>4 DEF Swap
    <3> QED BY <3>1, <3>2 DEF Permuted
  <2>6. /\ data' = [data EXCEPT ![id] = e] /\ UNCHANGED <<i, assignment, conflictClause, pc>>
        /\ wlist' = [wlist EXCEPT ![p] = RemoveAt(@, i), ![-e[2]] = Append(@, Watcher(e, id))]
    BY <1>1, <1>5, <2>2, <2>3 DEF VisitsAs
  <2>7. PICK m \in Lit : m = -e[2]
    BY <2>5, LitFacts
  <2>8. ~IsTrue(trail, m) /\ IsTrue(trail, p) /\ m # p
    BY <1>2, <1>3, <2>2, <2>5, <2>7 DEF IsFalse, IsTrue
  <2>9. /\ wlist'[p] = RemoveAt(wlist[p], i) /\ wlist'[m] = Append(wlist[m], Watcher(e, id))
        /\ \A l \in Lit \ {p, m} : wlist'[l] = wlist[l]
    <3>1. PICK r, s : r = RemoveAt(wlist[p], i) /\ s = Watcher(e, id)
      OBVIOUS
    <3>2. wlist' = [wlist EXCEPT ![p] = r, ![m] = Append(@, s)]
      BY <2>6, <2>7, <3>1
    <3> QED BY <1>3, <2>8, <3>1, <3>2
  <2>10. CursorMoves(p, id, d)
    BY <2>5, <2>6, <2>8, <2>9 DEF CursorMoves
  <2> QED BY <1>1, <2>10 DEF CursorStep
<1>6. CASE ~IsTrue(trail, wlist[p][i].lit) /\ K = {}
  <2>1. \A k \in 3..Len(d) : IsFalse(trail, d[k])
    BY <1>6
  <2>2. PICK x : x = IF data[id][1] = -p THEN d[1] ELSE wlist[p][i].lit
    OBVIOUS
  <2>3. /\ data' = [data EXCEPT ![id] = d]
        /\ wlist' = [wlist EXCEPT ![p][i].lit = x]
        /\ IF IsFalse(trail, d[1])
           THEN /\ conflictClause' = id /\ pc' = "conflict" /\ i' = 1
                /\ UNCHANGED assignment
           ELSE /\ i' = i + 1 /\ UNCHANGED <<conflictClause, pc>>
                /\ IF IsTrue(trail, d[1]) THEN UNCHANGED assignment
                   ELSE TrailPush(d[1], id)
    BY <1>1, <1>6, <2>2 DEF VisitsAs
  <2>4. \A l \in Lit : /\ DOMAIN wlist'[l] = DOMAIN wlist[l]
                       /\ \A n \in DOMAIN wlist[l] : wlist'[l][n].cls = wlist[l][n].cls
    <3>1. PICK s : s = [wlist[p] EXCEPT ![i].lit = x]
      OBVIOUS
    <3>2. wlist' = [wlist EXCEPT ![p] = s]
      BY <2>3, <3>1
    <3>3. wlist[p] \in Seq(Watchers)
      BY <1>3
    <3>4. DOMAIN s = DOMAIN wlist[p] /\ \A n \in DOMAIN wlist[p] : s[n].cls = wlist[p][n].cls
      BY <3>1, <3>3 DEF Watchers
    <3> QED BY <1>3, <3>2, <3>4
  <2>5. CursorKeeps(p, id, d)
    BY <2>1, <2>3, <2>4 DEF CursorKeeps, IsUnknown
  <2> QED BY <1>1, <2>5 DEF CursorStep
<1> QED BY <1>4, <1>5, <1>6

\* Watching a clause takes none out of the lists.
LEMMA WatchKeeps ==
  ASSUME NEW w \in [Lit -> Seq(Watchers)], NEW d \in Seq(Lit), Len(d) >= 2, DistinctVars(d), NEW id \in Nat
  PROVE  /\ \A l \in Lit : Classes(w[l]) \subseteq Classes(Watch(w, d, id)[l])
         /\ \E m \in Lit : id \in Classes(Watch(w, d, id)[m])
         /\ \A l \in Lit : \A x \in Classes(Watch(w, d, id)[l]) : x \in Classes(w[l]) \/ (x = id /\ l \in {-d[1], -d[2]})
<1>1. d[1] \in Lit /\ d[2] \in Lit /\ 1 \in DOMAIN d /\ 2 \in DOMAIN d
  OBVIOUS
<1>2. PICK a \in Lit, b \in Lit : a = -d[1] /\ b = -d[2]
  BY <1>1, LitFacts
<1>3. a # b
  <2>1. VarOf(d[1]) # VarOf(d[2])
    BY <1>1 DEF DistinctVars
  <2> QED BY <1>1, <1>2, <2>1, LitFacts
<1>4. PICK e \in Watchers : e = Watcher(d, id) /\ e.cls = id
  <2>1. Watcher(d, id) \in Watchers /\ Watcher(d, id).cls = id
    BY <1>1 DEF Watcher, Watchers
  <2> QED BY <2>1
<1>5. PICK u : u = Watch(w, d, id)
  OBVIOUS
<1>6. /\ u[a] = Append(w[a], e) /\ u[b] = Append(w[b], e)
      /\ \A l \in Lit : l # a /\ l # b => u[l] = w[l]
  BY <1>2, <1>3, <1>4, <1>5 DEF Watch
<1>7. Classes(u[a]) = Classes(w[a]) \cup {id} /\ Classes(u[b]) = Classes(w[b]) \cup {id}
  <2>1. w[a] \in Seq(Watchers) /\ w[b] \in Seq(Watchers)
    OBVIOUS
  <2>2. Classes(u[a]) = Classes(w[a]) \cup {id}
    <3>0. PICK s, t : s = w[a] /\ t = u[a]
      OBVIOUS
    <3>1. Classes(t) = Classes(s) \cup {e.cls}
      BY ONLY <1>4, <1>6, <2>1, <3>0, AppendClasses
    <3> QED BY <1>4, <3>0, <3>1
  <2>3. Classes(u[b]) = Classes(w[b]) \cup {id}
    <3>0. PICK s, t : s = w[b] /\ t = u[b]
      OBVIOUS
    <3>1. Classes(t) = Classes(s) \cup {e.cls}
      BY ONLY <1>4, <1>6, <2>1, <3>0, AppendClasses
    <3> QED BY <1>4, <3>0, <3>1
  <2> QED BY <2>2, <2>3
<1>8. \A l \in Lit : Classes(u[l]) = IF l = a \/ l = b THEN Classes(w[l]) \cup {id} ELSE Classes(w[l])
  BY <1>6, <1>7
<1>9. /\ \A l \in Lit : Classes(w[l]) \subseteq Classes(u[l])
      /\ \E m \in Lit : id \in Classes(u[m])
      /\ \A l \in Lit : \A x \in Classes(u[l]) : x \in Classes(w[l]) \/ (x = id /\ (l = a \/ l = b))
  BY <1>8
<1> QED BY <1>2, <1>5, <1>9

\* A clause that is watched stays so, whatever its order.
LEMMA StaysWatched ==
  ASSUME Inv, Next, NEW l \in Lit, NEW id \in Classes(wlist[l])
  PROVE  /\ \E m \in Lit : id \in Classes(wlist'[m])
         /\ id \in DOMAIN data' /\ Range(data'[id]) = Range(data[id])
<1>1. id \in DOMAIN data /\ ~IsFact(id) /\ data[id] \in Seq(Lit) /\ wlist \in [Lit -> Seq(Watchers)]
  BY ListTypes
<1>2. id \in DOMAIN data' /\ Range(data'[id]) = Range(data[id])
  BY <1>1, DataNext DEF DataGood, Emptied, Permuted, IsFact
<1>3. \E m \in Lit : id \in Classes(wlist'[m])
  <2>1. CASE wlist' = wlist
    BY <2>1
  <2>2. CASE VisitClause
    <3>1. PICK p, x, d : p \in Lit /\ CursorStep(p, x, d)
      BY <2>2, CursorFacts
    <3> p \in Lit
      BY <3>1
    <3>2. CASE CursorSatisfied(x)
      BY <2>1, <3>2 DEF CursorSatisfied
    <3>3. CASE CursorMoves(p, x, d)
      <4>1. PICK e, m :
              /\ e \in Seq(Lit) /\ m \in Lit /\ m # p
              /\ wlist'[p] = RemoveAt(wlist[p], i) /\ wlist'[m] = Append(wlist[m], Watcher(e, x))
              /\ \A q \in Lit \ {p, m} : wlist'[q] = wlist[q]
        BY <3>3 DEF CursorMoves
      <4>2. /\ Classes(wlist'[m]) = Classes(wlist[m]) \cup {x}
            /\ Classes(wlist'[p]) = Classes(wlist[p]) \ {x}
        <5> PICK s, t, u, v : s = wlist[m] /\ t = Append(s, Watcher(e, x)) /\ u = wlist[p] /\ v = RemoveAt(u, i)
          OBVIOUS
        <5>1. Watcher(e, x).cls = x
          BY DEF Watcher
        <5>2. wlist[p] \in Seq(Watchers) /\ wlist[m] \in Seq(Watchers) /\ Unique(wlist[p])
          BY <1>1, <4>1, ListTypes DEF Watches
        <5>3. wlist'[m] \in Seq(Watchers)
          BY <4>1, ListsNext
        <5>4. Classes(t) = Classes(s) \cup {x}
          <6>1. PICK y : y = Watcher(e, x)
            OBVIOUS
          <6>2. y.cls = x /\ t = Append(s, y) /\ s \in Seq(Watchers) /\ t \in Seq(Watchers)
            BY <4>1, <5>1, <5>2, <5>3, <6>1
          <6>3. Len(t) = Len(s) + 1 /\ t[Len(s) + 1] = y /\ Len(s) \in Nat
            BY <6>2
          <6>4. y \in Watchers
            BY <6>2, <6>3
          <6> QED BY <6>2, <6>4, AppendClasses
        <5>5. i \in 1..Len(u) /\ u[i].cls = x /\ u \in Seq(Watchers) /\ Unique(u)
          BY <3>1, <5>2 DEF CursorStep
        <5>6. PICK n : n = i
          OBVIOUS
        <5>7. Classes(v) = Classes(u) \ {x}
          BY <5>5, <5>6, RemoveClasses
        <5> QED BY <4>1, <5>4, <5>7
      <4>3. CASE id = x
        BY <4>1, <4>2, <4>3
      <4>4. CASE id # x
        BY <4>1, <4>2, <4>4
      <4> QED BY <4>3, <4>4
    <3>4. CASE CursorKeeps(p, x, d)
      BY <3>4 DEF CursorKeeps, Classes
    <3> QED BY <3>1, <3>2, <3>3, <3>4 DEF CursorStep
  <2>3. ASSUME NEW x, NEW d, WatchesNew(x, d) PROVE id \in Classes(wlist'[l])
    <3>1. x \in Nat /\ d \in Seq(Lit) /\ Len(d) >= 2 /\ DistinctVars(d) /\ wlist' = Watch(wlist, d, x)
      <4>1. x \in DOMAIN data' /\ DOMAIN data' = 1..Len(data') /\ Len(data') \in Nat
        BY <2>3, DataNext DEF WatchesNew, DataGood
      <4> QED BY <2>3, <4>1 DEF WatchesNew
    <3> QED BY <1>1, <3>1, WatchKeeps
  <2>4. wlist' = wlist \/ VisitClause \/ \E x, d : WatchesNew(x, d)
    BY WatchStep
  <2> QED BY <2>1, <2>2, <2>3, <2>4
<1> QED BY <1>2, <1>3

\* The clause has a literal that is true, no higher than position k.
TrueAt(k, id) ==
  \E j \in DOMAIN trail : trail[j].lit \in Range(data[id]) /\ trail[j].level <= trail[k].level

\* What bcp has visited stays satisfied when the trail is kept up to its level.
LEMMA VisitedOld ==
  ASSUME Inv, VisitedTrue, Next, NEW k \in 1..Len(trail), k \in 1..Len(trail'), trail'[k] = trail[k],
         NEW id, IsWatched(trail[k].lit, id), Visited(k, id), Standing(k),
         \A j \in 1..Len(trail) : trail[j].level <= trail[k].level => j \in 1..Len(trail') /\ trail'[j] = trail[j]
  PROVE  TrueAt(k, id)'
<1>1. DOMAIN trail = 1..Len(trail) /\ DOMAIN trail' = 1..Len(trail') /\ trail[k].lit \in Lit
  BY InvTrail, TrailNext DEF TrailGood, Trails
<1>2. id \in Classes(wlist[trail[k].lit])
  BY DEF IsWatched, Classes
<1>3. id \in DOMAIN data /\ Range(data'[id]) = Range(data[id])
  BY <1>1, <1>2, ListTypes, StaysWatched
<1>4. PICK j \in 1..Len(trail) : trail[j].lit \in Range(data[id]) /\ trail[j].level <= trail[k].level
  BY <1>1, <1>3 DEF VisitedTrue
<1>5. j \in DOMAIN trail' /\ trail'[j].lit \in Range(data'[id]) /\ trail'[j].level <= trail'[k].level
  BY <1>1, <1>3, <1>4
<1> QED BY <1>5 DEF TrueAt

\* bcp visits a clause.
LEMMA VisitedVisit ==
  ASSUME Inv, VisitedTrue, Next, VisitClause, NEW k \in 1..Len(trail'), NEW id,
         IsWatched(trail[k].lit, id)', Visited(k, id)'
  PROVE  TrueAt(k, id)'
<1>1. PICK p, x, d : p \in Lit /\ CursorStep(p, x, d)
  BY CursorFacts
<1> p \in Lit
  BY <1>1
<1>2. /\ p = trail[propq + 1].lit /\ propq + 1 \in 1..Len(trail) /\ x \in DOMAIN data /\ d \in Seq(Lit)
      /\ Len(d) >= 2 /\ Len(d) \in Nat /\ d[1] \in Lit /\ 1 \in DOMAIN d
      /\ pc = "bcp" /\ i \in 1..Len(wlist[p]) /\ i \in DOMAIN wlist[p] /\ wlist[p][i].cls = x
      /\ i \in Nat /\ propq \in Nat /\ Len(trail) \in Nat
  <2>1. Visits(p, x, d)
    BY <1>1 DEF CursorStep
  <2>2. i \in Nat /\ propq \in Nat /\ Len(trail) \in Nat
    BY InvTrail DEF Inv, TypeOK
  <2> QED BY <1>1, <2>1, <2>2 DEF CursorStep, Visits
<1>3. /\ propq' = propq /\ DOMAIN trail = 1..Len(trail) /\ DOMAIN trail' = 1..Len(trail')
      /\ trail' = trail \/ (IsUnknown(trail, d[1]) /\ trail' = Append(trail, Entry(d[1], x)))
  BY <1>1, InvTrail, TrailNext
  DEF CursorStep, CursorSatisfied, CursorMoves, CursorKeeps, assignment, TrailPush, TrailGood, Trails
<1>4. /\ Len(trail') \in Nat /\ trail \in Trails /\ \A j \in 1..Len(trail) : j \in 1..Len(trail') /\ trail'[j] = trail[j]
      /\ \A j \in 1..Len(trail') : j \in 1..Len(trail) \/ j = Len(trail) + 1
  <2>1. trail \in Trails /\ Len(trail) \in Nat
    BY InvTrail
  <2>2. CASE trail' = trail
    BY <2>1, <2>2
  <2>3. CASE trail' = Append(trail, Entry(d[1], x))
    <3>1. PICK e : e = Entry(d[1], x)
      OBVIOUS
    <3>2. trail' = Append(trail, e)
      BY <2>3, <3>1
    <3>3. Len(trail') = Len(trail) + 1 /\ \A j \in 1..Len(trail) : trail'[j] = trail[j]
      BY <2>1, <3>2 DEF Trails
    <3> QED BY <2>1, <3>3
  <2> QED BY <1>3, <2>2, <2>3, Zenon
<1>5. k \in 1..Len(trail) /\ (k <= propq \/ k = propq + 1) /\ k \in Nat
  <2>1. k \in Nat /\ k >= 1
    BY <1>4
  <2>2. k <= propq \/ k = propq + 1
    BY <1>3, Zenon DEF Visited
  <2> QED BY <1>2, <2>1, <2>2
<1>6. trail'[k] = trail[k] /\ trail[k].lit \in Lit
  BY <1>4, <1>5, InvTrail
<1>7. Standing(k)
  BY <1>2 DEF Standing
<1>8. IsWatched(trail[k].lit, id) /\ Visited(k, id) => TrueAt(k, id)'
  BY <1>4, <1>5, <1>6, <1>7, VisitedOld
<1>9. \A j \in 1..Len(trail) : j = propq + 1 => trail[j].level = decisionLevel
  BY <1>2 DEF Inv, UnseenCurrent
<1>10. \A j \in 1..Len(trail) : trail[j].level <= decisionLevel /\ trail[j].level \in Nat
  BY InvLevels
<1>11. CASE CursorSatisfied(x)
  <2>1. UNCHANGED <<data, wlist, pc, trail>> /\ i' = i + 1
    BY <1>11 DEF CursorSatisfied, assignment
  <2>2. IsWatched(trail[k].lit, id)
    BY <2>1 DEF IsWatched
  <2>3. CASE Visited(k, id)
    BY <1>8, <2>2, <2>3
  <2>4. CASE ~Visited(k, id)
    <3>1. k = propq + 1 /\ id = x
      BY <1>2, <1>3, <2>1, <2>4 DEF Visited
    <3>2. PICK j \in 1..Len(trail) : trail[j].lit \in Range(data[x])
      BY <1>3, <1>11, Zenon DEF CursorSatisfied, IsTrue
    <3>3. trail[j].level <= trail[k].level
      BY <1>5, <1>9, <1>10, <3>1, <3>2
    <3> QED BY <1>3, <1>4, <2>1, <3>1, <3>2, <3>3 DEF TrueAt
  <2> QED BY <2>3, <2>4
<1>12. CASE CursorMoves(p, x, d)
  <2>1. PICK e, m :
          /\ m \in Lit /\ ~IsTrue(trail, m) /\ m # p
          /\ wlist'[p] = RemoveAt(wlist[p], i)
          /\ \A l \in Lit \ {p, m} : wlist'[l] = wlist[l]
          /\ UNCHANGED <<i, trail, pc>>
    BY <1>12 DEF CursorMoves, assignment
  <2>2. trail[k].lit # m
    BY <1>3, <1>5, <2>1 DEF IsTrue
  <2>3. CASE trail[k].lit = p
    <3>1. k = propq + 1
      BY <1>2, <1>5, <2>3, InvTrail
    <3>2. PICK n \in 1..(i - 1) : n \in DOMAIN wlist'[p] /\ wlist'[p][n].cls = id
      BY <1>2, <1>3, <1>6, <2>1, <2>3, <3>1 DEF Visited
    <3>3. n \in DOMAIN wlist[p] /\ wlist'[p][n] = wlist[p][n]
      <4> PICK w, m2 : w = wlist[p] /\ m2 = i
        OBVIOUS
      <4>1. w \in Seq(Watchers) /\ m2 \in 1..Len(w) /\ Len(w) \in Nat /\ DOMAIN w = 1..Len(w)
        BY <1>2, ListTypes
      <4>2. \A y \in 1..(Len(w) - 1) : RemoveAt(w, m2)[y] = IF y < m2 THEN w[y] ELSE w[y + 1]
        BY <4>1, RemoveAtFacts
      <4>3. n \in 1..(Len(w) - 1) /\ n < m2 /\ n \in 1..Len(w)
        <5>1. n \in 1..(m2 - 1) /\ m2 \in Nat /\ n \in Nat
          BY <1>2, <2>1, <3>2, <4>1
        <5>2. n >= 1 /\ n <= m2 - 1 /\ m2 <= Len(w)
          BY <4>1, <5>1
        <5> QED BY <4>1, <5>1, <5>2
      <4> QED BY <2>1, <4>1, <4>2, <4>3
    <3>4. IsWatched(trail[k].lit, id) /\ Visited(k, id)
      BY <1>2, <2>3, <3>1, <3>2, <3>3 DEF IsWatched, Visited
    <3> QED BY <1>8, <3>4
  <2>4. CASE trail[k].lit # p
    <3>1. wlist'[trail[k].lit] = wlist[trail[k].lit]
      BY <1>6, <2>1, <2>2, <2>4
    <3>2. k # propq + 1
      BY <1>2, <2>4
    <3>3. IsWatched(trail[k].lit, id) /\ Visited(k, id)
      BY <1>5, <1>6, <3>1, <3>2 DEF IsWatched, Visited
    <3> QED BY <1>8, <3>3
  <2> QED BY <2>3, <2>4
<1>13. CASE CursorKeeps(p, x, d)
  <2>1. IsWatched(trail[k].lit, id)
    BY <1>6, <1>13 DEF IsWatched, CursorKeeps
  <2>2. CASE Visited(k, id)
    BY <1>8, <2>1, <2>2
  <2>3. CASE ~Visited(k, id)
    <3>1. /\ pc' = "bcp" /\ k = propq + 1
          /\ \E n \in 1..(i' - 1) : n \in DOMAIN wlist'[trail[k].lit] /\ wlist'[trail[k].lit][n].cls = id
      BY <1>3, <1>5, <1>6, <2>3, Zenon DEF Visited
    <3>2. i' = i + 1 /\ (IsTrue(trail, d[1]) \/ (IsUnknown(trail, d[1]) /\ TrailPush(d[1], x)))
      BY <1>13, <3>1 DEF CursorKeeps
    <3>3. id = x
      <4>1. PICK n \in 1..(i' - 1) : n \in DOMAIN wlist'[p] /\ wlist'[p][n].cls = id
        BY <1>2, <3>1
      <4>2. n \in DOMAIN wlist[p] /\ wlist[p][n].cls = id
        BY <1>13, <4>1 DEF CursorKeeps
      <4>3. n \in 1..(i - 1) => FALSE
        BY <1>2, <2>3, <3>1, <4>2 DEF Visited
      <4>4. n = i
        BY <1>2, <3>2, <4>1, <4>3
      <4> QED BY <1>2, <4>2, <4>4
    <3>4. data'[x] = d
      BY <1>2, <1>13 DEF CursorKeeps
    <3>5. d[1] \in Range(data'[x])
      BY <1>2, <3>4 DEF Range
    <3>6. \E j \in 1..Len(trail') : trail'[j].lit = d[1] /\ trail'[j].level <= decisionLevel
      <4>1. CASE IsTrue(trail, d[1])
        <5>1. PICK j \in 1..Len(trail) : trail[j].lit = d[1]
          BY <1>3, <4>1, Zenon DEF IsTrue
        <5>2. j \in 1..Len(trail') /\ trail'[j] = trail[j] /\ trail[j].level <= decisionLevel
          BY <1>4, <1>10, <5>1
        <5> QED BY <5>1, <5>2
      <4>2. CASE TrailPush(d[1], x)
        <5>1. PICK e : e = Entry(d[1], x)
          OBVIOUS
        <5>2. e.lit = d[1] /\ e.level = decisionLevel /\ decisionLevel \in Nat
          BY <5>1, InvLevels DEF Entry
        <5>3. trail' = Append(trail, e)
          BY <4>2, <5>1 DEF TrailPush
        <5>4. Len(trail) + 1 \in 1..Len(trail') /\ trail'[Len(trail) + 1] = e
          BY <1>4, <5>3 DEF Trails
        <5> QED BY <5>2, <5>4
      <4> QED BY <3>2, <4>1, <4>2
    <3>7. trail'[k].level = decisionLevel
      BY <1>5, <1>6, <1>9, <3>1
    <3> QED BY <1>3, <3>3, <3>5, <3>6, <3>7, ZenonT(40) DEF TrueAt
  <2> QED BY <2>2, <2>3
<1> QED BY <1>1, <1>11, <1>12, <1>13 DEF CursorStep

\* Where bcp has been stays behind: a step that keeps the lists and the trail up to
\* position k keeps what bcp has visited for it.
LEMMA VisitedKept ==
  ASSUME Inv, VisitedTrue, Next, Grows, wlist' = wlist, NEW k \in 1..Len(trail'), NEW id,
         k \in 1..Len(trail) => Visited(k, id) /\ Standing(k), k \in 1..Len(trail),
         IsWatched(trail[k].lit, id)'
  PROVE  TrueAt(k, id)'
<1>1. trail'[k] = trail[k] /\ \A j \in 1..Len(trail) : j \in 1..Len(trail') /\ trail'[j] = trail[j]
  BY DEF Grows
<1>2. IsWatched(trail[k].lit, id)
  BY <1>1 DEF IsWatched
<1> QED BY <1>1, <1>2, VisitedOld

\* A call or a restart starts bcp over.
LEMMA VisitedRoot ==
  ASSUME Inv, CursorAtStart, Next, Solve \/ Restart, pc' = "bcp", NEW k \in 1..Len(trail'), NEW id,
         Visited(k, id)'
  PROVE  FALSE
<1>1. propq' = 0 /\ i' = 1
  <2>1. CASE Solve
    BY <2>1 DEF Solve, BacktrackTo
  <2>2. CASE Restart
    BY <2>2 DEF Restart, BacktrackTo, CursorAtStart
  <2> QED BY <2>1, <2>2
<1>2. k \in Nat /\ k >= 1
  BY TrailNext DEF TrailGood, Trails
<1> QED BY <1>1, <1>2 DEF Visited

\* bcp goes to the next literal, or to a decision.
LEMMA VisitedNextLiteral ==
  ASSUME Inv, VisitedTrue, CursorAtStart, Next, NextLiteral \/ Decide, NEW k \in 1..Len(trail'), NEW id,
         IsWatched(trail[k].lit, id)', Visited(k, id)'
  PROVE  TrueAt(k, id)'
<1>1. propq \in Nat /\ Len(trail) \in Nat /\ propq <= Len(trail) /\ i \in Nat /\ DOMAIN trail = 1..Len(trail)
      /\ trail \in Trails
  <2>1. propq \in 0..Len(trail) /\ i \in Nat
    BY DEF Inv, TypeOK
  <2> QED BY <2>1, InvTrail
<1>2. Len(trail') \in Nat /\ k \in Nat /\ k >= 1
  BY TrailNext DEF TrailGood, Trails
<1>3. CASE NextLiteral
  <2>1. UNCHANGED <<trail, wlist, data, pc>> /\ propq' = propq + 1 /\ i' = 1 /\ pc = "bcp"
        /\ propq + 1 \in 1..Len(trail) /\ i > Len(wlist[trail[propq + 1].lit])
    BY <1>1, <1>3 DEF NextLiteral, clauses
  <2>2. k <= propq + 1 /\ k \in 1..Len(trail) /\ Grows
    BY <1>1, <1>2, <2>1 DEF Visited, Grows
  <2>3. Visited(k, id)
    <3>1. CASE k = propq + 1
      <4>1. PICK n \in DOMAIN wlist[trail[k].lit] : wlist[trail[k].lit][n].cls = id
        BY <2>1 DEF IsWatched
      <4>2. n \in 1..(i - 1)
        <5>1. PICK w : w = wlist[trail[k].lit]
          OBVIOUS
        <5>2. w \in Seq(Watchers)
          BY <2>2, <5>1, InvTrail, ListTypes
        <5>3. n \in 1..Len(w) /\ Len(w) \in Nat /\ i > Len(w)
          BY <2>1, <3>1, <4>1, <5>1, <5>2
        <5> QED BY <1>1, <5>3
      <4> QED BY <2>1, <3>1, <4>1, <4>2 DEF Visited
    <3>2. CASE k # propq + 1
      BY <1>1, <1>2, <2>2, <3>2 DEF Visited
    <3> QED BY <3>1, <3>2
  <2> QED BY <2>1, <2>2, <2>3, VisitedKept DEF Standing
<1>4. CASE Decide
  <2>1. wlist' = wlist /\ propq' = propq /\ propq = Len(trail) /\ pc' = pc /\ i' = i /\ pc = "bcp"
    BY <1>4 DEF Decide, clauses
  <2>2. k <= propq
    BY <1>1, <1>2, <2>1 DEF Visited, CursorAtStart
  <2>3. Grows
    BY <1>4, DecidePushes, StepGrows
  <2> QED BY <1>1, <1>2, <2>1, <2>2, <2>3, VisitedKept DEF Visited, Standing
<1> QED BY <1>3, <1>4

\* The analysis leaves what bcp has seen below the current level.
LEMMA VisitedAnalysis ==
  ASSUME Inv, VisitedTrue, Next, Conflict \/ Recount \/ Learn, pc' # "idle", NEW k \in 1..Len(trail'), NEW id,
         IsWatched(trail[k].lit, id)', Visited(k, id)', Standing(k)'
  PROVE  TrueAt(k, id)'
<1>1. UNCHANGED <<trail, wlist, propq, decisionLevel>> /\ pc # "idle" /\ pc' \notin {"idle", "bcp", "facts"}
  <2>1. CASE Conflict
    <3>1. pc = "conflict" /\ pc' = "resolve"
      BY <2>1, ConflictFacts DEF StartAnalysis, Finish
    <3> QED BY <2>1, <3>1 DEF Conflict, assignment, clauses
  <2>2. CASE Recount
    BY <2>2 DEF Recount, assignment, clauses
  <2>3. CASE Learn
    BY <2>3 DEF Learn
  <2> QED BY <2>1, <2>2, <2>3
<1>2. Visited(k, id) /\ Standing(k) /\ Grows /\ k \in 1..Len(trail)
  BY <1>1 DEF Visited, Standing, Grows
<1> QED BY <1>1, <1>2, VisitedKept

\* A literal is popped: what stands is below its level.
LEMMA VisitedPop ==
  ASSUME Inv, VisitedTrue, Next, PopStep, NEW k \in 1..Len(trail'), NEW id,
         IsWatched(trail[k].lit, id)', Visited(k, id)', Standing(k)'
  PROVE  TrueAt(k, id)'
<1>1. /\ Pops /\ pc \in Working /\ UNCHANGED <<data, wlist>>
      /\ pc' \in Working \/ (pc' = "facts" /\ Top.decision)
  <2>1. wlist' = wlist
    BY DEF PopStep, SkipLiteral, ResolveReason, Undo, clauses
  <2> QED BY <2>1, PopStepFacts
<1>2. /\ Len(trail') = Len(trail) - 1 /\ Len(trail) \in Nat \ {0} /\ Top = trail[Len(trail)] /\ Top.level = decisionLevel
      /\ \A j \in 1..(Len(trail) - 1) : trail'[j] = trail[j] /\ j \in 1..Len(trail)
  BY <1>1, PopFacts
<1>3. k \in 1..(Len(trail) - 1) /\ k \in 1..Len(trail) /\ trail'[k] = trail[k] /\ k \in Nat
  BY <1>2
<1>4. /\ decisionLevel \in Nat /\ propq \in 0..Len(trail) /\ propq \in Nat
      /\ \A j \in 1..Len(trail) : trail[j].level \in Nat
  BY InvLevels, SeenFacts
<1>5. trail[k].level < decisionLevel
  <2>1. CASE pc' \in Working
    <3>1. trail[k].level < decisionLevel'
      BY <1>3, <2>1 DEF Standing, Working, Analyzing
    <3>2. decisionLevel' <= decisionLevel /\ decisionLevel' \in Int
      BY <1>1, <1>4, PopUnknown
    <3> QED BY <1>3, <1>4, <3>1, <3>2
  <2>2. CASE pc' = "facts" /\ Top.decision
    BY <1>1, <1>3, <2>2, PopUnknown
  <2> QED BY <1>1, <2>1, <2>2
<1>6. Standing(k)
  BY <1>1, <1>5 DEF Standing, Working, Analyzing
<1>7. Visited(k, id)
  <2>1. pc' # "bcp"
    BY <1>1 DEF Working, Analyzing
  <2>2. k <= propq'
    BY <2>1 DEF Visited
  <2>3. propq' = IF propq >= Len(trail) THEN Len(trail) - 1 ELSE propq
    BY <1>1 DEF Pops, TrailPop
  <2>4. k <= propq
    BY <1>2, <1>3, <1>4, <2>2, <2>3
  <2> QED BY <2>4 DEF Visited
<1>8. \A j \in 1..Len(trail) : trail[j].level <= trail[k].level => j \in 1..Len(trail') /\ trail'[j] = trail[j]
  <2> SUFFICES ASSUME NEW j \in 1..Len(trail), trail[j].level <= trail[k].level
               PROVE  j \in 1..(Len(trail) - 1)
    BY <1>2
  <2>1. j # Len(trail)
    BY <1>2, <1>3, <1>4, <1>5
  <2> QED BY <1>2, <2>1, Below
<1>9. IsWatched(trail[k].lit, id)
  BY <1>1, <1>3 DEF IsWatched
<1> QED BY <1>3, <1>6, <1>7, <1>8, <1>9, VisitedOld

\* propagateFacts goes on, or gives way to bcp.
LEMMA VisitedFacts ==
  ASSUME Inv, VisitedTrue, Next, FactsDone \/ PropagateFact, NEW k \in 1..Len(trail'), NEW id,
         IsWatched(trail[k].lit, id)', Visited(k, id)'
  PROVE  TrueAt(k, id)'
<1>1. propq \in 0..Len(trail) /\ propq \in Nat /\ Len(trail) \in Nat /\ trail \in Trails
  BY InvTrail, SeenFacts
<1>2. Len(trail') \in Nat /\ k \in Nat /\ k >= 1
  BY TrailNext DEF TrailGood, Trails
<1>3. pc = "facts" /\ propq' = propq /\ Grows /\ (pc' = "facts" \/ (pc' = "bcp" /\ i' = 1))
  <2>1. CASE FactsDone
    <3>1. trail' = trail
      BY <2>1 DEF FactsDone
    <3> QED BY <2>1, <3>1 DEF FactsDone, Grows
  <2>2. CASE PropagateFact
    <3>1. FactIsWatched(facts[i], data[facts[i]]) \/ FactIsImplied(facts[i], data[facts[i]])
      BY <2>2, PropagateFactCases
    <3>2. propq' = propq /\ pc' = pc
      BY <3>1 DEF FactIsWatched, FactIsImplied, assignment, TrailPush
    <3>3. Grows
      BY <2>2, PropagatePushes, StepGrows
    <3> QED BY <2>2, <3>2, <3>3 DEF PropagateFact
  <2> QED BY <2>1, <2>2
<1>4. k <= propq /\ k \in 1..Len(trail)
  BY <1>1, <1>2, <1>3 DEF Visited
<1>5. Visited(k, id) /\ Standing(k)
  BY <1>3, <1>4 DEF Visited, Standing
<1>6. CASE wlist' = wlist
  BY <1>3, <1>4, <1>5, <1>6, VisitedKept
<1>7. CASE PropagateFact /\ FactIsWatched(facts[i], data[facts[i]])
  <2>1. PICK x, d : x = facts[i] /\ d = data[x]
    OBVIOUS
  <2>2. /\ d \in Seq(Lit) /\ Len(d) >= 2 /\ DistinctVars(d) /\ x \in Nat /\ d[1] \in Lit /\ d[2] \in Lit
        /\ IsUnknown(Seen, d[1]) /\ IsUnknown(Seen, d[2]) /\ wlist' = Watch(wlist, d, x) /\ trail' = trail
    <3>1. i \in 1..Len(facts)
      BY <1>7, PropagateFactCases
    <3>2. x \in DOMAIN data /\ d \in Seq(Lit) /\ DistinctVars(d)
      BY <2>1, <3>1, FactFacts
    <3>3. x \in Nat
      BY <3>2, DataTypes DEF Inv
    <3> QED BY <1>7, <2>1, <3>2, <3>3 DEF FactIsWatched, assignment
  <2>3. id \in Classes(wlist[trail[k].lit]) \/ trail[k].lit \in {-d[1], -d[2]}
    <3>1. id \in Classes(wlist'[trail[k].lit]) /\ trail[k].lit \in Lit
      BY <1>4, <2>2, InvTrail DEF IsWatched, Classes
    <3> QED BY <2>2, <3>1, ListTypes, WatchKeeps
  <2>4. trail[k].lit \notin {-d[1], -d[2]}
    <3>1. IsTrue(Seen, trail[k].lit)
      BY <1>1, <1>2, <1>4, SeenFacts
    <3> QED BY <2>2, <3>1 DEF IsUnknown, IsFalse
  <2>5. IsWatched(trail[k].lit, id)
    BY <2>3, <2>4 DEF IsWatched, Classes
  <2> QED BY <1>4, <1>5, <2>2, <2>5, VisitedOld
<1>8. wlist' = wlist \/ (PropagateFact /\ FactIsWatched(facts[i], data[facts[i]]))
  BY PropagateFactCases DEF FactsDone, clauses, FactIsImplied
<1> QED BY <1>6, <1>7, <1>8

\* What bcp has visited is satisfied.
LEMMA VisitedNext ==
  ASSUME Inv, VisitedTrue, CursorAtStart, Next
  PROVE  VisitedTrue'
<1> SUFFICES ASSUME NEW k \in 1..Len(trail'), NEW id, IsWatched(trail[k].lit, id)', Visited(k, id)', Standing(k)'
             PROVE  TrueAt(k, id)'
  <2>1. DOMAIN trail' = 1..Len(trail')
    BY TrailNext DEF TrailGood, Trails
  <2> QED BY <2>1 DEF VisitedTrue, TrueAt
<1>1. pc' # "idle"
  BY DEF Standing
<1>2. CASE Calls
  <2>1. Solve /\ pc' = "bcp"
    BY <1>1, <1>2 DEF Calls, Solve, AddClause, PushAssumption, PopAssumptions
  <2> QED BY <2>1, VisitedRoot
<1>3. CASE VisitClause
  BY <1>3, VisitedVisit
<1>4. CASE NextLiteral \/ Decide
  BY <1>4, VisitedNextLiteral
<1>5. CASE Restart
  <2>1. pc' = "bcp"
    BY <1>5 DEF Restart
  <2> QED BY <1>5, <2>1, VisitedRoot
<1>6. CASE Conflict \/ Recount \/ Learn
  BY <1>1, <1>6, VisitedAnalysis
<1>7. CASE PopStep
  BY <1>7, VisitedPop
<1>8. CASE FactsDone \/ PropagateFact
  BY <1>8, VisitedFacts
<1>9. CASE Satisfied \/ Refuted
  BY <1>1, <1>9 DEF Satisfied, Refuted, Finish
<1> QED BY <1>2, <1>3, <1>4, <1>5, <1>6, <1>7, <1>8, <1>9 DEF Next, Engine, PopStep

-----------------------------------------------------------------------------
(* What the analysis of a conflict starts from and goes on with.            *)

\* A finite set has two elements, or more, if it has two that differ.
LEMMA TwoElements ==
  ASSUME NEW S, IsFiniteSet(S)
  PROVE  Cardinality(S) >= 2 <=> \E x, y \in S : x # y
<1>1. Cardinality(S) \in Nat
  BY FS_CardinalityType
<1>2. Cardinality(S) = 0 <=> S = {}
  BY FS_EmptySet
<1>3. Cardinality(S) = 1 <=> \E x : S = {x}
  BY FS_Singleton
<1>4. ASSUME Cardinality(S) >= 2 PROVE \E x, y \in S : x # y
  <2>1. PICK x : x \in S
    BY <1>2, <1>4
  <2>2. S # {x}
    BY <1>3, <1>4
  <2> QED BY <2>1, <2>2
<1>5. ASSUME NEW x \in S, NEW y \in S, x # y PROVE Cardinality(S) >= 2
  <2>1. S # {} /\ ~\E z : S = {z}
    BY <1>5
  <2> QED BY <1>1, <1>2, <1>3, <2>1
<1> QED BY <1>4, <1>5

\* A clause with two literals of the current level.
LEMMA CountTwo ==
  ASSUME NEW d \in Seq(Lit), DistinctVars(d)
  PROVE  AtCurrentLevel(d) >= 2 <=>
           \E j, k \in 1..Len(d) : j # k /\ LevelOf(VarOf(d[j])) = decisionLevel /\ LevelOf(VarOf(d[k])) = decisionLevel
<1> DEFINE S == {k \in DOMAIN d : LevelOf(VarOf(d[k])) = decisionLevel}
<1>1. S \in SUBSET (1..Len(d)) /\ Len(d) \in Nat /\ DOMAIN d = 1..Len(d)
  OBVIOUS
<1>2. IsFiniteSet(S)
  <2>1. IsFiniteSet(1..Len(d))
    BY <1>1, FS_Interval
  <2> HIDE DEF S
  <2> QED BY <1>1, <2>1, FS_Subset
<1>3. Cardinality(S) >= 2 <=> \E x, y \in S : x # y
  <2> HIDE DEF S
  <2> QED BY <1>2, TwoElements
<1> QED BY <1>1, <1>3 DEF AtCurrentLevel

\* The cursor goes back to the start with every literal.
LEMMA CursorNext ==
  ASSUME Inv, CursorAtStart, Next
  PROVE  CursorAtStart'
<1> SUFFICES ASSUME pc' = "bcp", propq' = Len(trail') PROVE i' = 1
  BY DEF CursorAtStart
<1>1. CASE Calls
  BY <1>1 DEF Calls, Solve, AddClause, PushAssumption, PopAssumptions
<1>2. CASE VisitClause
  <2>1. propq' = propq /\ propq < Len(trail) /\ Grows
    <3>1. propq' = propq /\ propq < Len(trail)
      BY <1>2, VisitFacts, Zenon DEF VisitClause, VisitSatisfied, VisitMoves, VisitKeeps, assignment, TrailPush
    <3> QED BY <1>2, <3>1, VisitPushes, StepGrows
  <2>2. Len(trail) <= Len(trail')
    <3>1. Len(trail) \in Nat /\ Len(trail') \in Nat
      BY InvTrail, TrailNext DEF TrailGood, Trails
    <3>2. Len(trail) # 0 => Len(trail) \in 1..Len(trail)
      BY <3>1
    <3>3. Len(trail) # 0 => Len(trail) \in 1..Len(trail')
      BY <2>1, <3>2 DEF Grows
    <3> QED BY <3>1, <3>3
  <2>3. propq \in Nat /\ Len(trail) \in Nat /\ Len(trail') \in Nat
    BY SeenFacts, InvTrail, TrailNext DEF TrailGood, Trails
  <2> QED BY <2>1, <2>2, <2>3
<1>3. CASE NextLiteral \/ FactsDone
  BY <1>3 DEF NextLiteral, FactsDone
<1>4. CASE Restart
  BY <1>4 DEF Restart, CursorAtStart
<1>5. CASE Decide
  <2>1. PICK e \in TrailEntry : propq' = propq /\ propq = Len(trail) /\ trail' = Append(trail, e)
    <3>1. PICK v \in Free : NewLit(-v) /\ propq' = propq /\ propq = Len(trail)
            /\ trail' = Append(trail, [lit |-> -v, level |-> decisionLevel + 1, reason |-> NULL, decision |-> TRUE])
      BY <1>5, DecidePushes DEF PushesDecision
    <3>2. [lit |-> -v, level |-> decisionLevel + 1, reason |-> NULL, decision |-> TRUE] \in TrailEntry
      BY <3>1, InvLevels DEF TrailEntry, NewLit, NULL
    <3> QED BY <3>1, <3>2
  <2>2. Len(trail') = Len(trail) + 1 /\ Len(trail) \in Nat
    <3>1. PICK s, t : s \in Seq(TrailEntry) /\ s = trail /\ t = trail'
      BY InvTrail DEF Trails
    <3>2. t = Append(s, e)
      BY <2>1, <3>1
    <3>3. Len(t) = Len(s) + 1 /\ Len(s) \in Nat
      BY ONLY <3>1, <3>2, e \in TrailEntry
    <3> QED BY <3>1, <3>3
  <2>3. propq' = Len(trail)
    BY <2>1
  <2>4. Len(trail') # Len(trail)
    BY <2>2
  <2> QED BY <2>3, <2>4
<1>6. CASE PropagateFact
  BY <1>6, PropagateFactCases DEF FactIsWatched, FactIsImplied
<1>7. CASE PopStep
  BY <1>7, PopStepFacts DEF Working, Analyzing
<1>8. CASE Satisfied \/ Conflict \/ Recount \/ Learn \/ Refuted
  BY <1>8, ConflictFacts DEF Satisfied, Recount, Learn, Refuted, Finish, StartAnalysis
<1> QED BY <1>1, <1>2, <1>3, <1>4, <1>5, <1>6, <1>7, <1>8 DEF Next, Engine, PopStep

\* No call answers while the engine runs.
LEMMA RunningNext ==
  ASSUME Inv, Running, Next
  PROVE  Running'
<1> SUFFICES ASSUME pc' # "idle" PROVE answer' = "none"
  BY DEF Running
<1>1. CASE Calls
  BY <1>1, ZenonT(40) DEF Calls, Solve, AddClause, PushAssumption, PopAssumptions
<1>2. CASE Engine
  <2>1. pc # "idle"
    BY <1>2, FactsDoneFacts, PropagateFactCases, Zenon
    DEF Engine, VisitClause, NextLiteral, Restart, Decide, Satisfied, Conflict, SkipLiteral, CanSkip, Skips,
        ResolveReason, Recount, Learn, Undo, Refuted, FactsDone
  <2>2. answer' = answer
    BY <1>2, ConflictFacts, Zenon
    DEF Engine, VisitClause, NextLiteral, Restart, Decide, Satisfied, Conflict, SkipLiteral,
        ResolveReason, Recount, Learn, Undo, Refuted, FactsDone, PropagateFact, client, Finish
  <2> QED BY <2>1, <2>2 DEF Running
<1> QED BY <1>1, <1>2 DEF Next

\* The clause bcp finds in conflict: the literal that became false is of the current
\* level, and the other watched one too, or bcp would have found the clause before.
LEMMA ConflictTwoNext ==
  ASSUME Inv, VisitedTrue, Next
  PROVE  ConflictTwo'
<1> SUFFICES ASSUME pc' = "conflict" PROVE AtCurrentLevel(data[conflictClause])' >= 2
  BY DEF ConflictTwo
<1>1. VisitClause
  <2>1. pc' # "conflict" \/ VisitClause \/ pc' = pc
    BY ConflictFacts, PropagateFactCases, ZenonT(40) DEF Next, Calls, Engine, AddClause, PushAssumption, PopAssumptions, Solve,
      NextLiteral, Restart, Decide, Satisfied, Finish, StartAnalysis,
      SkipLiteral, ResolveReason, Recount, Learn, Undo, Refuted, FactsDone, FactIsWatched, FactIsImplied
  <2>2. pc = "conflict" => Conflict
    <3>1. Calls => pc = "idle"
      BY Zenon DEF Calls, AddClause, PushAssumption, PopAssumptions, Solve
    <3>2. VisitClause \/ NextLiteral \/ Restart \/ Decide \/ Satisfied => pc # "conflict"
      BY Zenon DEF VisitClause, NextLiteral, Restart, Decide, Satisfied
    <3>3. SkipLiteral \/ ResolveReason \/ Recount \/ Learn \/ Undo => pc # "conflict"
      BY DEF SkipLiteral, CanSkip, Skips, ResolveReason, Recount, Learn, Undo
    <3>4. Refuted \/ FactsDone \/ PropagateFact => pc # "conflict"
      BY SMTT(20) DEF Refuted, FactsDone, PropagateFact
    <3> QED BY <3>1, <3>2, <3>3, <3>4, ZenonT(40) DEF Next, Engine
  <2>3. Conflict => pc' # "conflict"
    BY ConflictFacts DEF Finish, StartAnalysis
  <2> QED BY <2>1, <2>2, <2>3
<1>2. PICK p, id, d : p \in Lit /\ CursorStep(p, id, d)
  BY <1>1, CursorFacts
<1> p \in Lit
  BY <1>2
<1>3. /\ p = trail[propq + 1].lit /\ propq + 1 \in 1..Len(trail) /\ id \in DOMAIN data /\ d \in Seq(Lit)
      /\ Permuted(data[id], d) /\ DistinctVars(d) /\ Len(d) >= 2 /\ Len(d) \in Nat /\ d[2] = -p /\ d[1] # -p
      /\ d = data[id] \/ (d[1] = data[id][2] /\ d[2] = data[id][1])
      /\ pc = "bcp" /\ id \in Classes(wlist[p])
  BY <1>2 DEF CursorStep, Visits
<1>4. /\ data' = [data EXCEPT ![id] = d] /\ conflictClause' = id /\ trail' = trail /\ decisionLevel' = decisionLevel
      /\ \A k \in 3..Len(d) : IsFalse(trail, d[k])
      /\ IsFalse(trail, d[1])
  BY <1>2, <1>3 DEF CursorStep, CursorSatisfied, CursorMoves, CursorKeeps, assignment
<1>5. d[1] \in Lit /\ d[2] \in Lit /\ 1 \in 1..Len(d) /\ 2 \in 1..Len(d)
  BY <1>3
<1>6. LevelOf(VarOf(d[2])) = decisionLevel
  <2>1. VarOf(d[2]) = VarOf(trail[propq + 1].lit)
    BY <1>3, LitFacts
  <2>2. trail[propq + 1].level = decisionLevel
    <3>1. propq + 1 \in (propq + 1)..Len(trail)
      BY <1>3, SeenFacts, InvTrail
    <3> QED BY <3>1, TrailNow
  <2> QED BY <1>3, <2>1, <2>2, InvLevels
<1>7. PICK k \in 1..Len(trail) : trail[k].lit = -d[1]
  BY <1>4, InvTrail DEF IsFalse, IsTrue
<1>8. trail[k].level = decisionLevel
  <2> SUFFICES ASSUME trail[k].level # decisionLevel PROVE FALSE
    OBVIOUS
  <2>1. k <= propq
    <3>1. k \notin (propq + 1)..Len(trail)
      BY TrailNow
    <3> QED BY <3>1, SeenFacts, InvTrail
  <2>2. id \in Classes(wlist[-d[1]])
    <3>1. Watches(wlist, data)
      BY ListTypes
    <3> QED BY <1>3, <3>1 DEF Watches
  <2>3. PICK j \in DOMAIN trail : trail[j].lit \in Range(data[id])
    <3>1. IsWatched(trail[k].lit, id)
      BY <1>7, <2>2 DEF IsWatched, Classes
    <3>2. k \in DOMAIN trail /\ id \in DOMAIN data
      BY <1>3, InvTrail
    <3>3. Visited(k, id) /\ Standing(k)
      BY <1>3, <2>1 DEF Visited, Standing
    <3> QED BY <3>1, <3>2, <3>3, Zenon DEF VisitedTrue
  <2>4. PICK n \in 1..Len(d) : trail[j].lit = d[n]
    <3>1. trail[j].lit \in Range(d)
      BY <1>3, <2>3 DEF Permuted
    <3> QED BY <1>3, <3>1, RangeFacts
  <2>5. IsFalse(trail, d[n])
    <3>1. n = 1 \/ n = 2 \/ n \in 3..Len(d)
      BY <1>3
    <3>2. IsFalse(trail, d[2])
      <4>1. -d[2] = p
        BY <1>3, LitFacts
      <4> QED BY <1>3, <4>1, InvTrail DEF IsFalse, IsTrue
    <3> QED BY <1>4, <3>1, <3>2
  <2>6. IsTrue(trail, d[n]) /\ d[n] \in Lit
    BY <1>3, <2>3, <2>4 DEF IsTrue
  <2> QED BY <2>5, <2>6, InvTrail
<1>9. LevelOf(VarOf(d[1])) = decisionLevel
  <2>1. VarOf(d[1]) = VarOf(trail[k].lit)
    BY <1>5, <1>7, LitFacts
  <2> QED BY <1>8, <2>1, InvLevels
<1>10. AtCurrentLevel(d) >= 2
  <2>1. \E j, n \in 1..Len(d) : j # n /\ LevelOf(VarOf(d[j])) = decisionLevel /\ LevelOf(VarOf(d[n])) = decisionLevel
    <3>1. 1 # 2
      OBVIOUS
    <3> QED BY <1>5, <1>6, <1>9, <3>1
  <2> QED BY <1>3, <2>1, CountTwo
<1>11. data'[conflictClause'] = d
  BY <1>3, <1>4
<1>12. AtCurrentLevel(data[conflictClause])' = AtCurrentLevel(d)
  BY <1>4, <1>11 DEF AtCurrentLevel, LevelOf
<1> QED BY <1>10, <1>12

\* What is popped until one literal is left was implied.
LEMMA ResolvesTwoNext ==
  ASSUME Inv, ConflictTwo, ResolvesTwo, Next
  PROVE  ResolvesTwo'
<1> SUFFICES ASSUME pc' = "resolve"
             PROVE  count' >= 2 \/ (trail' # <<>> /\ Top'.reason # NULL /\ HasLitPos(TopVar)')
  BY DEF ResolvesTwo
<1>1. pc' \in Working
  BY DEF Working, Analyzing
<1>2. CASE Conflict
  BY <1>1, <1>2, ConflictFacts DEF ConflictTwo, StartAnalysis, Finish
<1>3. CASE Recount
  <2>1. ~StopsAt(count') /\ count' \in Nat
    BY <1>3, CountType DEF Recount
  <2> QED BY <2>1 DEF StopsAt
<1>4. CASE Learn
  <2>1. Top.reason # NULL /\ UNCHANGED <<trail, uipClause>> /\ HasLitPos(TopVar) /\ trail # <<>>
    BY <1>4 DEF Learn, learning
  <2> QED BY <2>1 DEF Top, TopVar, HasLitPos
<1>5. CASE SkipLiteral
  BY <1>5 DEF SkipLiteral, ResolvesTwo
<1>6. CASE ResolveReason
  BY <1>6 DEF ResolveReason
<1> QED BY <1>1, <1>2, <1>3, <1>4, <1>5, <1>6, WorkingCases

\* What findUips resolves on was implied: a decision is the only literal of its
\* level when it is the last one left, and the clause has two.
LEMMA CanResolveNow ==
  ASSUME Inv, ResolvesTwo
  PROVE  CanResolve
<1>1. pc \in {"resolve", "learn", "undo"} => trail # <<>>
  BY InvLevels DEF Inv, Counted
<1>2. pc = "learn" => AtCurrentLevel(uipClause) = 1
  BY DEF Inv, Counted
<1>3. ASSUME pc = "resolve", HasLitPos(TopVar), Top.reason = NULL PROVE FALSE
  <2>1. count >= 2 /\ decisionLevel >= 1 /\ count = AtCurrentLevel(uipClause)
    BY <1>3 DEF ResolvesTwo, Inv, Counted
  <2>2. uipClause \in Seq(Lit) /\ DistinctVars(uipClause) /\ DOMAIN uipClause = 1..Len(uipClause)
    BY <1>3, UipFacts DEF Working, Analyzing
  <2>3. PICK j, k \in 1..Len(uipClause) :
          j # k /\ LevelOf(VarOf(uipClause[j])) = decisionLevel /\ LevelOf(VarOf(uipClause[k])) = decisionLevel
    BY <2>1, <2>2, CountTwo
  <2>4. Top = trail[Len(trail)] /\ Len(trail) \in 1..Len(trail) /\ Len(trail) \in Nat
    BY <1>1, <1>3, TopResolves DEF Working, Analyzing
  <2>5. Top.decision
    BY <1>3, <2>1, <2>4, TrailNow, InvLevels, <1>1
  <2>6. \A n \in 1..Len(trail) : trail[n].level = decisionLevel => n = Len(trail)
    <3> SUFFICES ASSUME NEW n \in 1..Len(trail), n # Len(trail) PROVE trail[n].level < decisionLevel
      BY InvLevels
    <3>1. n < Len(trail)
      BY <2>4
    <3> QED BY <1>1, <1>3, <2>4, <2>5, <3>1, InvLevels
  <2>7. ASSUME NEW v, LevelOf(v) = decisionLevel PROVE v = TopVar
    <3>1. PICK n \in 1..Len(trail) : VarOf(trail[n].lit) = v /\ trail[n].level = LevelOf(v)
      BY <2>1, <2>7, InvLevels, SMTT(20)
    <3> QED BY <2>4, <2>6, <2>7, <3>1 DEF TopVar
  <2>8. VarOf(uipClause[j]) = VarOf(uipClause[k])
    BY <2>3, <2>7
  <2> QED BY <2>2, <2>3, <2>8 DEF DistinctVars
<1> QED BY <1>1, <1>2, <1>3 DEF CanResolve, Inv, Counted

-----------------------------------------------------------------------------
(* The clauses added.                                                       *)

\* There are finitely many literals.
LEMMA FiniteClause ==
  ASSUME NEW c \in SUBSET Lit
  PROVE  IsFiniteSet(c)
<1>1. IsFiniteSet((-MaxVar)..MaxVar)
  BY LitFacts, FS_Interval
<1>2. c \in SUBSET ((-MaxVar)..MaxVar)
  <2>1. \A l \in Lit : l \in (-MaxVar)..MaxVar
    BY LitFacts DEF Lit, Var
  <2> QED BY <2>1
<1> QED BY <1>1, <1>2, FS_Subset

\* A clause of two literals or more that bcp is through with is satisfied, or has two
\* literals left.
LEMMA WatchedSettled ==
  ASSUME Inv, VisitedTrue, pc = "bcp", propq = Len(trail), NEW l \in Lit, NEW id \in Classes(wlist[l])
  PROVE  \/ \E m \in Range(data[id]) : IsTrue(trail, m)
         \/ \E m, n \in Range(data[id]) : m # n /\ IsUnknown(trail, m) /\ IsUnknown(trail, n)
<1>1. PICK d : d = data[id]
  OBVIOUS
<1>2. /\ id \in DOMAIN data /\ d \in Seq(Lit) /\ DistinctVars(d) /\ Len(d) >= 2
      /\ id \in Classes(wlist[-d[1]]) /\ id \in Classes(wlist[-d[2]])
  <2>1. id \in DOMAIN data /\ d \in Seq(Lit) /\ Watches(wlist, data)
    BY <1>1, ListTypes
  <2> QED BY <1>1, <2>1 DEF Watches, Inv, ClausesDistinct
<1>3. d[1] \in Lit /\ d[2] \in Lit /\ d[1] \in Range(d) /\ d[2] \in Range(d) /\ d[1] # d[2]
  <2>1. 1 \in DOMAIN d /\ 2 \in DOMAIN d
    BY <1>2
  <2> QED BY <1>2, <2>1 DEF Range, DistinctVars
<1>4. ASSUME NEW n \in {1, 2}, IsFalse(trail, d[n]) PROVE \E m \in Range(data[id]) : IsTrue(trail, m)
  <2>1. PICK k \in 1..Len(trail) : trail[k].lit = -d[n]
    BY <1>4, InvTrail DEF IsFalse, IsTrue
  <2>2. IsWatched(trail[k].lit, id)
    BY <1>2, <1>4, <2>1 DEF IsWatched, Classes
  <2>3. k <= propq
    BY InvTrail
  <2> QED BY <1>2, <2>2, <2>3, InvTrail DEF VisitedTrue, Visited, Standing, IsTrue
<1> QED BY <1>1, <1>3, <1>4 DEF IsUnknown

\* Nothing is pending before a decision.
LEMMA NothingPendingNow ==
  ASSUME Inv, VisitedTrue, FormulaKept
  PROVE  NothingPending
<1> SUFFICES ASSUME pc = "bcp", propq = Len(trail), NEW c \in Range(formula), Cardinality(c) > 1
             PROVE  \/ \E l \in c : IsTrue(trail, l)
                    \/ Cardinality({l \in c : IsUnknown(trail, l)}) >= 2
  BY DEF NothingPending
<1>1. c \in SUBSET Lit
  BY RangeFacts DEF Inv, Control
<1>2. ASSUME NEW m \in c, NEW n \in c, m # n, IsUnknown(trail, m), IsUnknown(trail, n)
      PROVE  Cardinality({l \in c : IsUnknown(trail, l)}) >= 2
  <2> DEFINE S == {l \in c : IsUnknown(trail, l)}
  <2>1. S \in SUBSET Lit /\ m \in S /\ n \in S
    BY <1>1, <1>2
  <2> HIDE DEF S
  <2>2. IsFiniteSet(S)
    BY <2>1, FiniteClause
  <2>3. Cardinality(S) >= 2
    BY <1>2, <2>1, <2>2, TwoElements
  <2> QED BY <2>3 DEF S
<1>3. c # {} /\ ~\E l \in Lit : c = {l}
  <2>1. Cardinality({}) = 0 /\ \A l : Cardinality({l}) = 1
    BY FS_EmptySet, FS_Singleton
  <2>2. Cardinality(c) # 0 /\ Cardinality(c) # 1
    OBVIOUS
  <2> QED BY ONLY <2>1, <2>2, Zenon
<1>4. CASE IsTautology(c)
  <2>1. PICK l \in c : -l \in c
    BY <1>4 DEF IsTautology
  <2>2. l \in Lit /\ -l # l /\ -(-l) = l
    BY <1>1, LitFacts
  <2> QED BY <1>2, <2>1, <2>2 DEF IsUnknown, IsFalse
<1>5. ASSUME NEW id \in DOMAIN data, Range(data[id]) = c, NEW l \in Lit, id \in Classes(wlist[l])
      PROVE  \/ \E m \in c : IsTrue(trail, m)
             \/ Cardinality({m \in c : IsUnknown(trail, m)}) >= 2
  BY <1>2, <1>5, WatchedSettled
<1> QED BY <1>3, <1>4, <1>5 DEF FormulaKept

\* funcsatAddClause drops a clause only if it is a tautology.
LEMMA AddedClause ==
  ASSUME Inv, NEW c \in Inputs, AddClause(c)
  PROVE  IsTautology(Range(c)) \/ \E w : Added(c, w)
<1>1. c \in Seq(Lit)
  BY AddClauseCases
<1>2. PICK d \in NormalForms(c) : Tautology(d) \/ (~Tautology(d) /\ AddNormal(d))
  BY DEF AddClause
<1>3. d \in Seq(Lit) /\ Range(d) = Range(c)
  BY <1>1, NormalFormFacts
<1>4. CASE Tautology(d)
  <2>1. PICK j, k \in DOMAIN d : d[j] = -d[k]
    BY <1>4 DEF Tautology
  <2>2. d[j] \in Range(c) /\ d[k] \in Range(c)
    BY <1>3 DEF Range
  <2> QED BY <2>1, <2>2 DEF IsTautology
<1>5. CASE ~Tautology(d) /\ ~\E w : Added(c, w)
  <2>1. data' = data
    BY <1>5, AddClauseCases
  <2>2. \E w : data' = Append(data, w) /\ w \in Seq(Lit)
    <3>1. DistinctVars(d)
      BY <1>1, <1>5, NormalFormFacts
    <3>2. AddNormal(d)
      BY <1>2, <1>5
    <3>3. Len(d) > 1 => MakeWatchable(LevelZero, d) \in Seq(Lit)
      BY <1>3, MakeWatchableFacts
    <3> QED BY <1>3, <3>2, <3>3 DEF AddNormal
  <2>3. data \in Seq(Seq(Lit))
    BY DEF Inv, TypeOK
  <2>4. PICK w \in Seq(Lit) : data' = Append(data, w)
    BY <2>2
  <2>5. Len(data') = Len(data) + 1 /\ Len(data) \in Nat
    BY <2>3, <2>4
  <2> QED BY <2>1, <2>5
<1> QED BY <1>4, <1>5

\* A clause that is dealt with in a state: its variables are allocated, and it is
\* watched if it has two literals or more that may all be false.
Dealt(c) ==
  \/ c = {} \/ (\E l \in Lit : c = {l}) \/ IsTautology(c)
  \/ \E id \in DOMAIN data : Range(data[id]) = c /\ \E l \in Lit : id \in Classes(wlist[l])

\* Every step keeps each long clause that was added watched, unless it is a tautology.
LEMMA FormulaKeptNext ==
  ASSUME Inv, FormulaKept, Next
  PROVE  FormulaKept'
<1> SUFFICES ASSUME NEW c \in Range(formula')
             PROVE  (\A l \in c : VarOf(l) \in 1..numVars') /\ Dealt(c)'
  BY DEF FormulaKept, Dealt
<1>1. CASE c \in Range(formula)
  <2>1. \A l \in c : VarOf(l) \in 1..numVars'
    <3>1. \A l \in c : VarOf(l) \in 1..numVars
      BY <1>1 DEF FormulaKept
    <3> QED BY <3>1, NumVarsGrow
  <2>2. ASSUME NEW id \in DOMAIN data, Range(data[id]) = c, NEW l \in Lit, id \in Classes(wlist[l])
        PROVE  Dealt(c)'
    BY <2>2, StaysWatched DEF Dealt
  <2> QED BY <1>1, <2>1, <2>2 DEF FormulaKept, Dealt
<1>2. CASE c \notin Range(formula)
  <2>1. PICK q \in Inputs : AddClause(q) /\ q \in Seq(Lit) /\ c = Range(q)
    BY <1>2, FormulaNext
  <2>2. \A l \in c : VarOf(l) \in 1..numVars'
    <3>1. VarsOf(q) \subseteq 1..numVars'
      BY <2>1, AddClauseCases
    <3> QED BY <2>1, <3>1, VarsOfFacts
  <2>3. ASSUME NEW w, Added(q, w) PROVE Dealt(c)'
    <3>1. w \in Seq(Lit) /\ DistinctVars(w) /\ Range(w) = c /\ data' = Append(data, w) /\ Len(w) \in Nat
      BY <2>1, <2>3 DEF Added
    <3>2. CASE Len(w) >= 2
      <4>1. wlist' = Watch(wlist, w, Len(data) + 1)
        <5>1. Len(w) # 0 /\ Len(w) # 1
          <6>1. PICK N \in Nat : N = Len(w)
            BY <3>1
          <6> QED BY <3>2, <6>1
        <5> QED BY <2>3, <5>1 DEF Added
      <4>2. Len(data) \in Nat /\ Len(data) + 1 \in DOMAIN data' /\ data'[Len(data) + 1] = w
        BY <3>1, AppendedSame
      <4>3. PICK x \in Nat : x = Len(data) + 1
        BY <4>2
      <4>4. \E m \in Lit : x \in Classes(Watch(wlist, w, x)[m])
        BY <3>1, <3>2, ListTypes, WatchKeeps
      <4> QED BY <3>1, <4>1, <4>2, <4>3, <4>4 DEF Dealt
    <3>3. CASE Len(w) = 0
      <4>1. c = {}
        BY <3>1, <3>3 DEF Range
      <4> QED BY <4>1 DEF Dealt
    <3>4. CASE Len(w) = 1
      <4>1. c = {w[1]} /\ w[1] \in Lit
        <5>1. c = {w[n] : n \in 1..1} /\ w[1] \in Lit
          BY <3>1, <3>4, RangeFacts
        <5> QED BY <5>1
      <4> QED BY <4>1 DEF Dealt
    <3>5. Len(w) = 0 \/ Len(w) = 1 \/ Len(w) >= 2
      <4>1. PICK N \in Nat : N = Len(w)
        BY <3>1
      <4>2. N = 0 \/ N = 1 \/ N >= 2
        OBVIOUS
      <4> QED BY <4>1, <4>2
    <3> QED BY <3>2, <3>3, <3>4, <3>5
  <2> QED BY <2>1, <2>2, <2>3, AddedClause DEF Dealt
<1> QED BY <1>1, <1>2

\* The part of UnitsKept for literal l.
UnitAt(l) == \E k \in DOMAIN trail : At(k, l) /\ \A j \in 1..k : trail[j].reason # NULL

\* A step that keeps level 0 up to position n keeps the units there.
LEMMA UnitStays ==
  ASSUME Inv, Next, NEW l, NEW k \in 1..Len(trail), At(k, l), \A j \in 1..k : trail[j].reason # NULL,
         \A j \in 1..k : j \in 1..Len(trail') /\ trail'[j] = trail[j]
  PROVE  UnitAt(l)'
<1>1. DOMAIN trail' = 1..Len(trail') /\ k \in 1..k /\ k \in Nat
  BY TrailNext DEF TrailGood, Trails
<1>2. k \in DOMAIN trail' /\ trail'[k] = trail[k] /\ \A j \in 1..k : trail'[j].reason # NULL
  BY <1>1
<1> QED BY <1>2 DEF UnitAt, At

\* Popping assumptions pops no unit clause added before them.
LEMMA UnitsPopped ==
  ASSUME Inv, Next, NEW num \in 1..MaxAssumptions, PopAssumptions(num),
         NEW l, NEW k \in 1..Len(trail), At(k, l), \A j \in 1..k : trail[j].reason # NULL
  PROVE  \A j \in 1..k : j \in 1..Len(trail') /\ trail'[j] = trail[j]
<1>1. PICK n \in 0..Bottom : RootCut(n) /\ PoppedFrom(n, Len(assumptions) - num) /\ num \in 1..Len(assumptions)
  BY PopAssumptionsFacts
<1>2. Bottom \in Nat /\ k <= Bottom /\ k \in Nat /\ k >= 1 /\ Len(assumptions) \in Nat /\ n \in Nat
  BY InvBottom, AssumedNow DEF At
<1>3. k <= n
  <2> SUFFICES ASSUME k > n PROVE FALSE
    BY <1>2
  <2>1. PICK m : m = Len(assumptions) - num + 1
    OBVIOUS
  <2>2. m \in 1..Len(assumptions) /\ n + 1 \in 1..Bottom /\ trail[n + 1].lit = assumptions[m] /\ assumptions[m] # 0
    BY <1>1, <1>2, <2>1 DEF PoppedFrom
  <2>3. PICK j \in 1..Bottom : trail[j].lit = held[m] /\ trail[j].reason = NULL
    BY <2>2, AssumedNow
  <2>4. held[m] = assumptions[m]
    BY <2>2, AssumedNow
  <2>5. j = n + 1
    BY <2>2, <2>3, <2>4, InvTrail, InvBottom
  <2>6. n + 1 \in 1..k
    BY <1>2
  <2> QED BY <2>3, <2>5, <2>6
<1>4. \A j \in 1..n : j \in 1..Len(trail') /\ trail'[j] = trail[j]
  BY <1>1, RootCutFacts
<1> QED BY <1>2, <1>3, <1>4

\* A unit clause the client adds while it assumes nothing, and that is not refused.
LEMMA UnitAdded ==
  ASSUME Inv, Next, NEW c \in Inputs, AddClause(c), held = <<>>, conflictClause' = NULL,
         NEW l \in Lit, Range(c) = {l}
  PROVE  UnitAt(l)'
<1>1. ~IsTautology(Range(c))
  BY LitFacts DEF IsTautology
<1>2. PICK w : Added(c, w)
  BY <1>1, AddedClause
<1>3. w \in Seq(Lit) /\ Len(w) \in Nat /\ DistinctVars(w) /\ Range(w) = {l}
  BY <1>2 DEF Added
<1>4. Len(w) = 1 /\ w[1] = l
  <2>1. \A n \in 1..Len(w) : w[n] = l
    <3>1. \A n \in 1..Len(w) : w[n] \in Range(w)
      BY <1>3 DEF Range
    <3> QED BY <1>3, <3>1
  <2>2. Len(w) # 0
    BY <1>3, RangeFacts
  <2>3. ~(Len(w) >= 2)
    <3> SUFFICES ASSUME Len(w) >= 2 PROVE FALSE
      OBVIOUS
    <3>1. 1 \in 1..Len(w) /\ 2 \in 1..Len(w) /\ DOMAIN w = 1..Len(w)
      BY <1>3
    <3> QED BY <1>3, <2>1, <3>1 DEF DistinctVars
  <2>4. Len(w) = 1
    <3>1. PICK N \in Nat : N = Len(w)
      BY <1>3
    <3>2. N # 0 /\ ~(N >= 2)
      BY <2>2, <2>3, <3>1
    <3> QED BY <3>1, <3>2
  <2> QED BY <2>1, <2>4
<1>5. AddUnit(l, Len(data) + 1)
  <2>1. w # <<>> /\ ~(Len(w) >= 2)
    BY <1>4
  <2> QED BY <1>2, <1>4, <2>1 DEF Added
<1>6. Len(data) \in Nat
  BY DataTypes DEF Inv
<1>7. ~IsFalse(LevelZero, l)
  BY <1>5, <1>6 DEF AddUnit, RefusesUnit, NULL
<1>8. \A j \in 1..Bottom : trail[j].reason # NULL
  <2>1. Len(assumptions) = 0
    BY AssumedNow
  <2> QED BY <2>1, AssumedNow
<1>9. CASE IsTrue(LevelZero, l)
  <2>1. trail' = LevelZero
    BY <1>5, <1>9 DEF AddUnit, IsUnknown
  <2>2. PICK k \in 1..Bottom : trail[k].lit = l
    BY <1>9, InvBottom DEF IsTrue, Trails
  <2>3. \A j \in 1..Bottom : j \in 1..Len(trail') /\ trail'[j] = trail[j]
    BY <2>1, InvBottom
  <2>4. k \in 1..Len(trail) /\ At(k, l) /\ \A j \in 1..k : j \in 1..Bottom
    BY <2>2, InvBottom, InvTrail DEF At
  <2> QED BY <1>8, <2>3, <2>4, UnitStays
<1>10. CASE IsUnknown(LevelZero, l)
  <2>1. PICK e, t : /\ e = [lit |-> l, level |-> 0, reason |-> Len(data) + 1, decision |-> FALSE]
                    /\ t = LevelZero
    OBVIOUS
  <2>2. trail' = Append(t, e) /\ t \in Trails /\ Len(t) = Bottom /\ e \in TrailEntry /\ Bottom \in Nat
        /\ \A j \in 1..Bottom : t[j] = trail[j]
    <3>1. trail' = Append(t, e)
      BY <1>5, <1>10, <2>1 DEF AddUnit
    <3>2. e \in TrailEntry
      BY <1>6, <2>1 DEF TrailEntry
    <3> QED BY <2>1, <3>1, <3>2, InvBottom
  <2>3. /\ Len(trail') = Bottom + 1 /\ trail'[Bottom + 1] = e /\ DOMAIN trail' = 1..(Bottom + 1)
        /\ \A j \in 1..Bottom : trail'[j] = trail[j]
    BY <2>2 DEF Trails
  <2>4. e.lit = l /\ e.level = 0 /\ e.reason # NULL
    BY <1>6, <2>1 DEF NULL
  <2>5. \A j \in 1..(Bottom + 1) : trail'[j].reason # NULL
    <3> SUFFICES ASSUME NEW j \in 1..(Bottom + 1) PROVE trail'[j].reason # NULL
      OBVIOUS
    <3>1. j \in 1..Bottom \/ j = Bottom + 1
      BY <2>2
    <3> QED BY <1>8, <2>3, <2>4, <3>1
  <2>6. Bottom + 1 \in DOMAIN trail'
    BY <2>2, <2>3
  <2> QED BY <2>3, <2>4, <2>5, <2>6 DEF UnitAt, At
<1> QED BY <1>7, <1>9, <1>10 DEF IsUnknown

\* Every step keeps each unit that was added true at level 0.
LEMMA UnitsKeptNext ==
  ASSUME Inv, UnitsKept, Next
  PROVE  UnitsKept'
<1> SUFFICES ASSUME lost' = {}
             PROVE  {} \notin Range(formula') /\ \A l \in Lit : {l} \in Range(formula') => UnitAt(l)'
  BY DEF UnitsKept, UnitAt
<1>1. lost = {}
  <2>1. CASE Calls
    BY <2>1, ZenonT(40) DEF Calls, AddClause, PushAssumption, PopAssumptions, Solve, client
  <2>2. CASE VisitClause \/ NextLiteral \/ Restart \/ Decide \/ Satisfied
    BY <2>2, Zenon DEF VisitClause, NextLiteral, Restart, Decide, Satisfied, Finish, client
  <2>3. CASE Conflict \/ SkipLiteral \/ ResolveReason \/ Recount \/ Learn
    BY <2>3, ConflictFacts DEF SkipLiteral, ResolveReason, Recount, Learn, Finish, client
  <2>4. CASE Undo \/ Refuted \/ FactsDone \/ PropagateFact
    BY <2>4, PropagateFactCases DEF Undo, Refuted, FactsDone, PropagateFact, Finish, client
  <2> QED BY <2>1, <2>2, <2>3, <2>4, Zenon DEF Next, Engine
<1>2. {} \notin Range(formula) /\ \A l \in Lit : {l} \in Range(formula) => UnitAt(l)
  BY <1>1 DEF UnitsKept, UnitAt
<1>3. ASSUME NEW l \in Lit, {l} \in Range(formula) PROVE UnitAt(l)'
  <2>1. PICK k \in 1..Len(trail) : At(k, l) /\ \A j \in 1..k : trail[j].reason # NULL
    BY <1>2, <1>3, InvTrail DEF UnitAt
  <2>2. \A j \in 1..k : j \in 1..Len(trail') /\ trail'[j] = trail[j]
    <3>1. k \in Nat /\ k <= Bottom /\ \A j \in 1..k : j \in 1..Len(trail) /\ j \in 1..Bottom /\ trail[j].level = 0
      BY <2>1, InvBottom, InvTrail DEF At
    <3>2. CASE ~Assumes
      BY <3>1, <3>2, RootKeptNext DEF RootKept
    <3>3. CASE \E p \in Queries : PushAssumption(p)
      <4>1. RootCut(Bottom)
        BY <3>3, PushAssumptionFacts
      <4> QED BY <3>1, <4>1, RootCutFacts
    <3>4. CASE \E num \in 1..MaxAssumptions : PopAssumptions(num)
      BY <2>1, <3>4, UnitsPopped
    <3> QED BY <3>2, <3>3, <3>4 DEF Assumes
  <2> QED BY <2>1, <2>2, UnitStays
<1>4. ASSUME NEW c \in Inputs, AddClause(c), Range(formula') = Range(formula) \cup {Range(c)}
      PROVE  Range(c) # {} /\ \A l \in Lit : Range(c) = {l} => UnitAt(l)'
  <2>1. conflictClause' = NULL /\ ~(Cardinality(Range(c)) = 1 /\ held # <<>>)
    BY <1>4 DEF AddClause
  <2>2. ASSUME Range(c) = {} PROVE FALSE
    <3>1. ~IsTautology(Range(c))
      BY <2>2 DEF IsTautology
    <3>2. PICK w : Added(c, w)
      BY <1>4, <3>1, AddedClause
    <3>3. w \in Seq(Lit) /\ Range(w) = {}
      BY <2>2, <3>2 DEF Added
    <3>4. w = <<>> /\ Len(w) = 0
      <4>1. Len(w) \in Nat /\ DOMAIN w = 1..Len(w)
        BY <3>3
      <4>2. \A n \in 1..Len(w) : w[n] \in Range(w)
        BY <4>1 DEF Range
      <4>3. Len(w) = 0
        <5>1. Len(w) # 0 => 1 \in 1..Len(w)
          BY <4>1
        <5> QED BY <3>3, <4>2, <5>1
      <4> QED BY <3>3, <4>3
    <3>5. conflictClause' = Len(data) + 1 /\ Len(data) \in Nat
      BY <3>2, <3>4, DataTypes DEF Added, Inv
    <3> QED BY <2>1, <3>5 DEF NULL
  <2>3. ASSUME NEW l \in Lit, Range(c) = {l} PROVE UnitAt(l)'
    <3>1. Cardinality(Range(c)) = 1
      BY <2>3, FS_Singleton, Zenon
    <3> QED BY <1>4, <2>1, <2>3, <3>1, UnitAdded
  <2> QED BY <2>2, <2>3
<1> QED BY <1>2, <1>3, <1>4, FormulaNext

-----------------------------------------------------------------------------
(* An answer "SAT" comes with a model.                                      *)

\* When no variable is left to decide every variable has one place on the trail.
LEMMA AllAssigned ==
  ASSUME Inv, Free = {}
  PROVE  /\ \A l \in Lit : VarOf(l) \in 1..numVars => ~IsUnknown(trail, l)
         /\ Len(trail) = numVars
<1>1. numVars \in Nat /\ Len(trail) \in Nat /\ \A v \in 1..numVars : v \in Lit /\ VarOf(v) = v
  <2>1. numVars \in 0..MaxVar
    BY DEF Inv, TypeOK
  <2>2. \A v \in 1..numVars : v \in Var
    BY <2>1, LitFacts DEF Var
  <2> QED BY <2>1, <2>2, InvTrail, LitFacts
<1>2. \A v \in 1..numVars : \E k \in 1..Len(trail) : VarOf(trail[k].lit) = v
  <2> SUFFICES ASSUME NEW v \in 1..numVars, \A k \in 1..Len(trail) : VarOf(trail[k].lit) # v PROVE FALSE
    OBVIOUS
  <2>1. v \in heap
    BY HeapCovered
  <2>2. IsUnknown(trail, v)
    BY <1>1, InvTrail, TrailsUnknown
  <2> QED BY <2>1, <2>2 DEF Free
<1>3. ASSUME NEW l \in Lit, VarOf(l) \in 1..numVars PROVE ~IsUnknown(trail, l)
  BY <1>2, <1>3, InvTrail, TrailsUnknown
<1>4. Len(trail) = numVars
  <2> DEFINE f == [k \in 1..Len(trail) |-> VarOf(trail[k].lit)]
  <2>1. \A k \in 1..Len(trail) : VarOf(trail[k].lit) \in 1..numVars
    BY TrailNow
  <2>2. f \in [1..Len(trail) -> 1..numVars] /\ \A k \in 1..Len(trail) : f[k] = VarOf(trail[k].lit)
    BY <2>1
  <2>3. \A j, k \in 1..Len(trail) : f[j] = f[k] => j = k
    BY <2>2, InvTrail
  <2> HIDE DEF f
  <2> DEFINE S == 1..Len(trail)
             T == 1..numVars
  <2>4. f \in Injection(S, T)
    BY <2>2, <2>3 DEF Injection, IsInjective
  <2>5. f \in Surjection(S, T)
    BY <1>2, <2>2 DEF Surjection
  <2>6. ExistsBijection(S, T)
    <3> HIDE DEF S, T
    <3> QED BY <2>4, <2>5 DEF ExistsBijection, Bijection
  <2>7. IsFiniteSet(S) /\ Cardinality(S) = Len(trail) /\ Cardinality(T) = numVars
    <3>1. /\ IsFiniteSet(1..Len(trail))
          /\ Cardinality(1..Len(trail)) = IF 1 > Len(trail) THEN 0 ELSE Len(trail) - 1 + 1
          /\ Cardinality(1..numVars) = IF 1 > numVars THEN 0 ELSE numVars - 1 + 1
      BY <1>1, FS_Interval
    <3> QED BY <1>1, <3>1
  <2>8. Cardinality(T) = Cardinality(S)
    <3> HIDE DEF S, T
    <3> QED BY <2>6, <2>7, FS_Bijection
  <2> QED BY <2>7, <2>8
<1> QED BY <1>3, <1>4

\* The engine answers "SAT" when no variable is left.
LEMMA SatStep ==
  ASSUME Inv, Running, Next, answer' = "SAT"
  PROVE  Satisfied
<1>1. CASE Calls
  BY <1>1 DEF Calls, AddClause, PushAssumption, PopAssumptions, Solve
<1>2. CASE Engine /\ ~Satisfied
  <2>1. pc # "idle" /\ (answer' = answer \/ answer' = "UNSAT")
    BY <1>2, ConflictFacts, PropagateFactCases, FactsDoneFacts, Zenon
    DEF Engine, VisitClause, NextLiteral, Restart, Decide, Conflict, SkipLiteral, CanSkip, Skips,
        ResolveReason, Recount, Learn, Undo, Refuted, FactsDone, PropagateFact, client, Finish
  <2> QED BY <2>1 DEF Running
<1> QED BY <1>1, <1>2 DEF Next, Engine

\* A total assignment satisfies every clause: bcp is through with all of them.
LEMMA SatModel ==
  ASSUME Inv, VisitedTrue, FormulaKept, UnitsKept, Satisfied, lost = {}, NEW c \in Range(formula)
  PROVE  \E l \in c : IsTrue(trail, l)
<1>1. pc = "bcp" /\ propq = Len(trail) /\ Free = {}
  BY DEF Satisfied
<1>2. c \in SUBSET Lit /\ \A l \in c : ~IsUnknown(trail, l)
  <2>1. c \in SUBSET Lit
    BY RangeFacts DEF Inv, Control
  <2> QED BY <1>1, <2>1, AllAssigned DEF FormulaKept
<1>3. c # {}
  BY DEF UnitsKept
<1>4. ASSUME NEW l \in Lit, c = {l} PROVE \E m \in c : IsTrue(trail, m)
  BY <1>4 DEF UnitsKept, At, IsTrue
<1>5. ASSUME IsTautology(c) PROVE \E m \in c : IsTrue(trail, m)
  BY <1>2, <1>5 DEF IsTautology, IsUnknown, IsFalse
<1>6. ASSUME NEW id \in DOMAIN data, Range(data[id]) = c, NEW l \in Lit, id \in Classes(wlist[l])
      PROVE  \E m \in c : IsTrue(trail, m)
  BY <1>1, <1>2, <1>6, WatchedSettled
<1> QED BY <1>3, <1>4, <1>5, <1>6 DEF FormulaKept

\* Every step keeps "SAT" right.
LEMMA SatNext ==
  ASSUME Inv, VisitedTrue, FormulaKept, UnitsKept, Running, Next
  PROVE  SatRight'
<1> SUFFICES ASSUME lost' = {}, answer' = "SAT"
             PROVE  /\ Len(trail') = numVars'
                    /\ \A c \in Range(formula') : \E l \in c : IsTrue(trail', l)
                    /\ \A l \in asked' : IsTrue(trail', l)
  BY DEF SatRight, AnswersModel
<1>1. Satisfied
  BY SatStep
<1>2. UNCHANGED <<trail, numVars, formula, asked, lost>> /\ Free = {} /\ pc = "bcp"
  BY <1>1 DEF Satisfied, Finish, clauses
<1>3. Len(trail) = numVars
  BY <1>2, AllAssigned
<1>4. \A c \in Range(formula) : \E l \in c : IsTrue(trail, l)
  BY <1>1, <1>2, SatModel
<1>5. \A l \in asked : IsTrue(trail, l)
  <2>1. asked = Range(held)
    BY <1>2 DEF Inv, Control
  <2>2. ASSUME NEW n \in DOMAIN held PROVE IsTrue(trail, held[n])
    BY DEF Inv, AssumptionsInOrder, At, IsTrue
  <2> QED BY <2>1, <2>2 DEF Range
<1>6. \A l : IsTrue(trail', l) <=> IsTrue(trail, l)
  BY <1>2 DEF IsTrue
<1> QED BY <1>2, <1>3, <1>4, <1>5, <1>6

-----------------------------------------------------------------------------
(* The invariant, and what follows.                                         *)

\* The initial state satisfies the whole invariant.
LEMMA InitComplete ==
  ASSUME Init
  PROVE  Complete
<1>1. trail = <<>> /\ data = <<>> /\ formula = <<>> /\ pc = "idle" /\ answer = "none" /\ Range(formula) = {}
  BY DEF Init, Range
<1>2. DOMAIN trail = {} /\ DOMAIN data = {}
  BY <1>1
<1> QED BY <1>1, <1>2, InitInv
    DEF Complete, VisitedTrue, CursorAtStart, ConflictTwo, ResolvesTwo, FormulaKept, UnitsKept, Running, SatRight, AnswersModel

\* Every step keeps the whole invariant.
LEMMA NextComplete ==
  ASSUME Complete, Next
  PROVE  Complete'
<1>1. Inv'
  BY NextInv DEF Complete
<1>2. VisitedTrue' /\ CursorAtStart'
  BY VisitedNext, CursorNext DEF Complete
<1>3. ConflictTwo' /\ ResolvesTwo'
  BY ConflictTwoNext, ResolvesTwoNext DEF Complete
<1>4. FormulaKept' /\ UnitsKept'
  BY FormulaKeptNext, UnitsKeptNext DEF Complete
<1>5. Running' /\ SatRight'
  BY RunningNext, SatNext DEF Complete
<1> QED BY <1>1, <1>2, <1>3, <1>4, <1>5 DEF Complete

\* A step that changes nothing keeps the whole invariant.
LEMMA StutterComplete ==
  ASSUME Complete, UNCHANGED vars
  PROVE  Complete'
<1>1. Inv'
  BY StutterInv DEF Complete
<1>2. /\ UNCHANGED <<numVars, data, wlist, trail, decisionLevel, propq, conflictClause, pc, i>>
      /\ UNCHANGED <<uipClause, count, formula, answer, asked, lost>>
  BY DEF vars, clauses, assignment, results, learning, client
<1>3. VisitedTrue' /\ CursorAtStart'
  BY <1>2 DEF Complete, VisitedTrue, CursorAtStart, IsWatched, Visited, Standing
<1>4. /\ AtCurrentLevel(data[conflictClause])' = AtCurrentLevel(data[conflictClause])
      /\ Top' = Top /\ HasLitPos(TopVar)' = HasLitPos(TopVar)
  BY <1>2 DEF AtCurrentLevel, LevelOf, Top, TopVar, HasLitPos
<1>5. ConflictTwo' /\ ResolvesTwo'
  BY <1>2, <1>4 DEF Complete, ConflictTwo, ResolvesTwo
<1>6. FormulaKept' /\ UnitsKept'
  BY <1>2 DEF Complete, FormulaKept, UnitsKept, At
<1>7. Running' /\ SatRight'
  BY <1>2 DEF Complete, Running, SatRight, AnswersModel
<1> QED BY <1>1, <1>3, <1>5, <1>6, <1>7 DEF Complete

\* The whole invariant, for every formula, every client and every bound.
THEOREM CompleteInvariant == Spec => []Complete
<1>1. Init => Complete
  BY InitComplete
<1>2. Complete /\ [Next]_vars => Complete'
  BY NextComplete, StutterComplete
<1> QED BY <1>1, <1>2, PTL DEF Spec

\* findUips resolves only on literals that were implied, and stops at one literal of
\* the current level.
THEOREM AnalysisCanResolve == Spec => []CanResolve
<1>1. Complete => CanResolve
  BY CanResolveNow DEF Complete
<1> QED BY <1>1, CompleteInvariant, PTL

\* Before a decision each clause of two or more literals that was added is satisfied
\* or has two literals that are not false: bcp missed nothing.
THEOREM NothingIsPending == Spec => []NothingPending
<1>1. Complete => NothingPending
  BY NothingPendingNow DEF Complete
<1> QED BY <1>1, CompleteInvariant, PTL

\* When the engine says "SAT" the trail is a model of the clauses added and of the
\* literals assumed, for a client that lost no clause.
THEOREM SatIsRight == Spec => []SatRight
<1>1. Complete => SatRight
  BY DEF Complete
<1> QED BY <1>1, CompleteInvariant, PTL

\* Between calls the recorded assumptions and the assignments of level 0 agree.
LEMMA AssumptionsHeldNow ==
  ASSUME Inv
  PROVE  AssumptionsHeld
<1> SUFFICES ASSUME pc = "idle" PROVE AssumptionsHeld
  BY DEF AssumptionsHeld
<1> DEFINE Pushed(k) == trail[k].level = 0 /\ trail[k].reason = NULL
<1>1. AssumptionsInOrder /\ assumptions \in Seq(Lit \cup {0}) /\ held \in Seq(Lit) /\ Len(assumptions) = Len(held)
  BY DEF Inv, TypeOK, AssumptionsInOrder
<1>2. PICK N \in Nat : N = Len(held)
  BY <1>1
<1>3. DOMAIN assumptions = 1..N /\ DOMAIN held = 1..N
  BY <1>1, <1>2
<1>4. DOMAIN trail = 1..Len(trail) /\ Len(trail) \in Nat
  BY InvTrail
<1>5. \A k \in DOMAIN trail : Pushed(k) => \E n \in DOMAIN assumptions : assumptions[n] = trail[k].lit
  BY <1>1 DEF AssumptionsInOrder
<1>6. ASSUME NEW n \in DOMAIN assumptions, assumptions[n] # 0
      PROVE  \E k \in DOMAIN trail :
               /\ Pushed(k) /\ trail[k].lit = assumptions[n]
               /\ \A m \in 1..(n - 1) : assumptions[m] # 0 =>
                    \E j \in 1..(k - 1) : trail[j].lit = assumptions[m]
  <2>1. PICK k \in DOMAIN trail :
          /\ At(k, assumptions[n]) /\ trail[k].reason = NULL
          /\ \A m \in 1..(n - 1) : \E j \in 1..(k - 1) : At(j, held[m])
    BY <1>1, <1>6 DEF AssumptionsInOrder
  <2>2. ASSUME NEW m \in 1..(n - 1), assumptions[m] # 0
        PROVE  \E j \in 1..(k - 1) : trail[j].lit = assumptions[m]
    <3>1. m \in DOMAIN held
      BY <1>2, <1>3
    <3>2. assumptions[m] = held[m]
      BY <1>1, <2>2, <3>1 DEF AssumptionsInOrder
    <3> QED BY <2>1, <3>2 DEF At
  <2> QED BY <2>1, <2>2 DEF At
<1>7. \A l \in Range(held) : IsTrue(trail, l)
  <2> SUFFICES ASSUME NEW l \in Range(held) PROVE IsTrue(trail, l)
    OBVIOUS
  <2>1. PICK n \in DOMAIN held : held[n] = l
    BY DEF Range
  <2>2. PICK k \in DOMAIN trail : At(k, held[n])
    BY <1>1 DEF AssumptionsInOrder
  <2> QED BY <2>1, <2>2 DEF IsTrue, At
<1> QED BY <1>1, <1>5, <1>6, <1>7 DEF AssumptionsHeld

\* At level 0 the engine holds what was assumed and not taken back, in its order,
\* and nothing else that has no reason: funcsatPopAssumptions takes back what
\* funcsatPushAssumption recorded.
THEOREM AssumptionsAreHeld == Spec => []AssumptionsHeld
<1>1. Inv => AssumptionsHeld
  BY AssumptionsHeldNow
<1> QED BY <1>1, Invariant, PTL

-----------------------------------------------------------------------------
(* The engine implements SatService.                                        *)

\* A call answers at once or starts the engine, the engine goes on, or it answers.
GoesOn == pc # "idle" /\ pc' # "idle" /\ UNCHANGED client
Answers(r) == pc # "idle" /\ Finish(r)

\* Every step of the engine goes on or ends the call with an answer.
LEMMA EngineStep ==
  ASSUME Inv, Engine
  PROVE  GoesOn \/ (Answers("SAT") /\ Satisfied) \/ Answers("UNSAT")
<1>1. pc # "idle"
  BY FactsDoneFacts, PropagateFactCases, Zenon
    DEF Engine, VisitClause, NextLiteral, Restart, Decide, Satisfied, Conflict, SkipLiteral, CanSkip, Skips,
      ResolveReason, Recount, Learn, Undo, Refuted, FactsDone
<1>2. CASE Satisfied \/ Refuted
  BY <1>1, <1>2 DEF Satisfied, Refuted, Answers
<1>3. CASE Conflict
  BY <1>1, <1>3, ConflictFacts DEF Answers, GoesOn, StartAnalysis, client
<1>4. CASE PropagateFact
  <2>1. FactIsWatched(facts[i], data[facts[i]]) \/ FactIsImplied(facts[i], data[facts[i]])
    BY <1>4, PropagateFactCases
  <2>2. pc' = pc
    BY <2>1 DEF FactIsWatched, FactIsImplied
  <2> QED BY <1>1, <1>4, <2>2 DEF GoesOn, PropagateFact
<1>5. CASE VisitClause \/ NextLiteral \/ Restart \/ Decide
  BY <1>1, <1>5, Zenon DEF VisitClause, NextLiteral, Restart, Decide, GoesOn
<1>6. CASE SkipLiteral \/ ResolveReason \/ Recount \/ Learn \/ Undo \/ FactsDone
  BY <1>1, <1>6 DEF SkipLiteral, ResolveReason, Recount, Learn, Undo, FactsDone, GoesOn
<1> QED BY <1>2, <1>3, <1>4, <1>5, <1>6 DEF Engine

\* The assignment of the trail, with everything that is unknown false.
TrailModel == [v \in Var |-> IsTrue(trail, v)]

\* It makes every literal true that is true on the trail.
LEMMA TrailHolds ==
  ASSUME Inv
  PROVE  TrailModel \in [Var -> BOOLEAN] /\ \A l \in Lit : IsTrue(trail, l) => Holds(TrailModel, l)
<1>1. TrailModel \in [Var -> BOOLEAN]
  BY DEF TrailModel, IsTrue
<1>2. ASSUME NEW l \in Lit, IsTrue(trail, l) PROVE Holds(TrailModel, l)
  <2>1. CASE l > 0
    <3>1. l \in Var
      BY <2>1 DEF Lit, Var
    <3>2. TrailModel[l] = IsTrue(trail, l)
      BY <3>1 DEF TrailModel
    <3> QED BY <1>2, <2>1, <3>2 DEF Holds
  <2>2. CASE ~(l > 0)
    <3>1. -l \in Var
      BY <2>2, MaxVarAssumption DEF Lit, Var
    <3>2. TrailModel[-l] = IsTrue(trail, -l)
      BY <3>1 DEF TrailModel
    <3>3. ~IsTrue(trail, -l)
      BY <1>2, InvTrail DEF IsFalse
    <3> QED BY <2>2, <3>2, <3>3 DEF Holds
  <2> QED BY <2>1, <2>2
<1> QED BY <1>1, <1>2

\* A trail that satisfies every clause of fs is one of their models.
LEMMA TrailSatisfies ==
  ASSUME Inv, NEW fs \in SUBSET SUBSET Lit, \A c \in fs : \E l \in c : IsTrue(trail, l)
  PROVE  TrailModel \in ModelsOf(fs)
<1>1. ASSUME NEW c \in fs PROVE Satisfies(TrailModel, c)
  BY <1>1, TrailHolds DEF Satisfies
<1> QED BY <1>1, TrailHolds DEF ModelsOf

\* The words of SatService mean what those of Cnf mean.
LEMMA ServiceWords ==
  ASSUME NEW fs, NEW ls
  PROVE  Service!Consistent(fs, ls) <=> Consistent(fs, ls)
BY DEF Service!Consistent, Service!ModelsOf, Service!Satisfies, Service!Holds, Service!Var,
       Consistent, ModelsOf, Satisfies, Holds, Var

\* Appending a clause adds it to the set of clauses.
LEMMA RangeAppend ==
  ASSUME NEW S, NEW s \in Seq(S), NEW e \in S
  PROVE  Range(Append(s, e)) = Range(s) \cup {e}
<1> PICK u : u = Append(s, e)
  OBVIOUS
<1>1. u \in Seq(S) /\ Len(u) = Len(s) + 1 /\ Len(s) \in Nat /\ u[Len(s) + 1] = e /\ \A k \in 1..Len(s) : u[k] = s[k]
  OBVIOUS
<1>2. Range(s) = {s[k] : k \in 1..Len(s)} /\ Range(u) = {u[k] : k \in 1..Len(u)}
  <2>1. Range(s) = {s[k] : k \in 1..Len(s)}
    BY RangeFacts
  <2>2. u \in Seq(S)
    BY <1>1
  <2>3. Range(u) = {u[k] : k \in 1..Len(u)}
    BY ONLY <2>2, RangeFacts
  <2> QED BY <2>1, <2>3
<1>3. \A k \in 1..Len(u) : k \in 1..Len(s) \/ k = Len(s) + 1
  BY <1>1
<1>4. \A k \in 1..Len(s) : k \in 1..Len(u)
  BY <1>1
<1>5. Len(s) + 1 \in 1..Len(u)
  BY <1>1
<1>6. \A x \in Range(u) : x \in Range(s) \cup {e}
  BY <1>1, <1>2, <1>3
<1>7. \A x \in Range(s) \cup {e} : x \in Range(u)
  BY <1>1, <1>2, <1>4, <1>5
<1> QED BY <1>6, <1>7

\* The set of clauses after a clause is added.
LEMMA FormulaGrows ==
  ASSUME Inv, NEW c \in Inputs, AddClause(c)
  PROVE  Range(formula') = Range(formula) \cup {Range(c)}
<1>1. formula \in Seq(SUBSET Lit) /\ Range(c) \in SUBSET Lit
  BY AddClauseCases DEF Inv, Control
<1>2. PICK s, x : s = formula /\ x = Range(c) /\ s \in Seq(SUBSET Lit) /\ x \in SUBSET Lit
  BY <1>1
<1>3. formula' = Append(s, x)
  BY <1>2 DEF AddClause
<1> QED BY <1>2, <1>3, RangeAppend

\* An answer "UNSAT" has its reason.
LEMMA ServiceRefuses ==
  ASSUME UnsatRight', answer' = "none" \/ answer' = "UNSAT"
  PROVE  Service!MayRefuse
<1>1. PICK fs, ls : fs = Range(formula') /\ ls = asked'
  OBVIOUS
<1>2. answer' = "UNSAT" => ~Consistent(fs, ls)
  BY <1>1 DEF UnsatRight
<1> QED BY <1>1, <1>2, ServiceWords DEF Service!MayRefuse

\* Each call of the engine is a call of the service.
LEMMA ServiceCalls ==
  ASSUME Inv, UnsatRight', Calls
  PROVE  Service!Next
<1>0. Service!SetOf(held) = Range(held)
  BY DEF Service!SetOf, Range
<1>1. ASSUME NEW c \in Inputs, AddClause(c) PROVE Service!Next
  <2>1. Range(formula') = Range(formula) \cup {Range(c)}
    BY <1>1, FormulaGrows
  <2>2. pc = "idle" /\ pc' = pc /\ held' = held /\ asked' = Range(held) /\ (answer' = "none" \/ answer' = "UNSAT")
    BY <1>1 DEF AddClause
  <2>3. Service!AddClause(Range(c))
    BY <1>0, <2>1, <2>2, ServiceRefuses DEF Service!AddClause
  <2> QED BY <2>3 DEF Service!Next
<1>2. ASSUME NEW p \in Queries, PushAssumption(p) PROVE Service!Next
  <2>1. pc = "idle" /\ pc' = pc /\ formula' = formula
    BY <1>2 DEF PushAssumption
  <2>2. \/ held' = Append(held, p) /\ asked' = {} /\ answer' = "none"
        \/ held' = held /\ asked' = Range(held) \cup {p} /\ answer' = "UNSAT"
    BY <1>2 DEF PushAssumption
  <2>3. Service!PushAssumption(p)
    BY <1>0, <2>1, <2>2, ServiceRefuses DEF Service!PushAssumption
  <2> QED BY <2>3 DEF Service!Next
<1>3. ASSUME NEW num \in 1..MaxAssumptions, PopAssumptions(num) PROVE Service!Next
  <2>1. Service!PopAssumptions(num) /\ num \in 1..Len(held)
    BY <1>3 DEF PopAssumptions, Service!PopAssumptions
  <2> QED BY <2>1 DEF Service!Next
<1>4. ASSUME Solve PROVE Service!Next
  <2>1. /\ pc = "idle" /\ asked' = Range(held) /\ formula' = formula /\ held' = held
        /\ \/ answer' = "UNSAT" /\ pc' = pc
           \/ answer' = "none" /\ pc' = "bcp"
    BY <1>4 DEF Solve
  <2>2. Service!Solve
    BY <1>0, <2>1, ServiceRefuses DEF Service!Solve
  <2> QED BY <2>2 DEF Service!Next
<1> QED BY <1>1, <1>2, <1>3, <1>4 DEF Calls

\* The end of a search is the answer of the service.
LEMMA ServiceAnswers ==
  ASSUME Complete, UnsatRight', lost = {}, Engine
  PROVE  Service!Answer \/ UNCHANGED Service!vars
<1>1. Inv
  BY DEF Complete
<1>2. CASE GoesOn
  BY <1>2 DEF GoesOn, client, Service!vars
<1>3. CASE Answers("SAT") /\ Satisfied
  <2>1. /\ pc # "idle" /\ pc' = "idle" /\ answer' = "SAT"
        /\ UNCHANGED <<formula, held, asked, lost>>
    BY <1>3 DEF Answers, Finish
  <2>2. /\ trail' = trail
    BY <1>3 DEF Satisfied
  <2>3. AnswersModel'
    <3>1. SatRight'
      BY <1>1, <1>3, SatNext DEF Complete, Next
    <3> QED BY <2>1, <3>1, lost = {} DEF SatRight
  <2>4. /\ \A c \in Range(formula) : \E l \in c : IsTrue(trail, l)
        /\ \A l \in asked : IsTrue(trail, l)
    BY <2>1, <2>2, <2>3 DEF AnswersModel
  <2>5. Range(formula) \in SUBSET SUBSET Lit /\ asked \in SUBSET Lit
    <3>1. formula \in Seq(SUBSET Lit) /\ held \in Seq(Lit) /\ asked = Range(held)
      BY <1>1, <2>1 DEF Inv, Control, AssumptionsInOrder
    <3> QED BY <3>1, RangeFacts
  <2>6. Consistent(Range(formula), asked)
    BY <1>1, <2>4, <2>5, TrailSatisfies, TrailHolds DEF Consistent
  <2> QED BY <2>1, <2>6, ServiceWords DEF Service!Answer
<1>4. CASE Answers("UNSAT")
  <2>1. /\ pc # "idle" /\ pc' = "idle" /\ answer' = "UNSAT"
        /\ UNCHANGED <<formula, held, asked, lost>>
    BY <1>4 DEF Answers, Finish
  <2>2. ~Consistent(Range(formula), asked)
    BY <2>1 DEF UnsatRight
  <2> QED BY <2>1, <2>2, ServiceWords DEF Service!Answer
<1> QED BY <1>1, <1>2, <1>3, <1>4, EngineStep

\* Every step is a step of the service, or changes nothing that it shows.
LEMMA ServiceNext ==
  ASSUME Complete, lost = {}, [Next]_vars
  PROVE  [Service!Next]_(Service!vars)
<1>1. Inv /\ Inv'
  BY NextComplete, StutterComplete DEF Complete
<1>2. UnsatRight'
  BY <1>1 DEF Inv
<1>3. CASE UNCHANGED vars
  BY <1>3 DEF vars, client, Service!vars
<1>4. CASE Calls
  BY <1>1, <1>2, <1>4, ServiceCalls
<1>5. CASE Engine
  BY <1>2, <1>5, ServiceAnswers DEF Service!Next
<1> QED BY <1>3, <1>4, <1>5 DEF Next

\* For a client that loses no clause the engine is the solver that SatService
\* promises: what ends a call, and every refusal, is its answer.
THEOREM ImplementsService ==
  Spec /\ [](lost = {}) => Service!Init /\ [][Service!Next]_(Service!vars)
<1>1. Init => Service!Init
  <2> SUFFICES ASSUME Init PROVE Service!Init
    OBVIOUS
  <2>1. formula = <<>> /\ held = <<>> /\ asked = {} /\ pc = "idle" /\ answer = "none"
    BY DEF Init
  <2>2. Range(formula) = {}
    BY <2>1 DEF Range
  <2> QED BY <2>1, <2>2 DEF Service!Init
<1>2. Complete /\ lost = {} /\ [Next]_vars => [Service!Next]_(Service!vars)
  BY ServiceNext
<1> QED BY <1>1, <1>2, CompleteInvariant, PTL DEF Spec

-----------------------------------------------------------------------------
(* The engine implements Incremental: what level 0 of the trail stands for. *)

\* Position k of the trail as Incremental records it.
Recorder(k) ==
  [lit |-> trail[k].lit, at |-> Greatest(AssumedAt(k) \cup {0}), unit |-> UnitOn(k)]
Nonzero(n) == {k \in 1..n : assumptions[k] # 0} \cup {0}

\* The assumptions, and those at or below a position of the trail.
LEMMA AssumedFacts ==
  ASSUME Inv
  PROVE  /\ Len(assumptions) \in Nat /\ DOMAIN assumptions = 1..Len(assumptions) /\ Len(held) = Len(assumptions)
         /\ \A n \in 1..Len(assumptions) : assumptions[n] \in Lit \cup {0}
         /\ \A k : AssumedAt(k) \cup {0} \in SUBSET (0..Len(assumptions))
         /\ AssumedAt(Bottom) \cup {0} = Nonzero(Len(assumptions))
<1>1. assumptions \in Seq(Lit \cup {0}) /\ Len(held) = Len(assumptions)
  BY DEF Inv, TypeOK, AssumptionsInOrder
<1>2. Len(assumptions) \in Nat /\ DOMAIN assumptions = 1..Len(assumptions)
  BY <1>1
<1>3. \A n \in 1..Len(assumptions) : assumptions[n] \in Lit \cup {0}
  BY <1>1, <1>2
<1>4. \A k : AssumedAt(k) \cup {0} \in SUBSET (0..Len(assumptions))
  BY <1>2 DEF AssumedAt
<1>5. ASSUME NEW n \in 1..Len(assumptions)
      PROVE  n \in AssumedAt(Bottom) <=> assumptions[n] # 0
  <2>1. ASSUME assumptions[n] # 0 PROVE n \in AssumedAt(Bottom)
    <3>1. PICK k \in DOMAIN trail : At(k, assumptions[n]) /\ trail[k].reason = NULL
      BY <1>2, <2>1 DEF Inv, AssumptionsInOrder
    <3>2. k \in 1..Bottom
      BY <3>1, InvBottom, InvTrail DEF At
    <3> QED BY <1>2, <3>1, <3>2 DEF AssumedAt, At
  <2>2. ASSUME n \in AssumedAt(Bottom) PROVE assumptions[n] # 0
    <3>1. PICK j \in 1..Bottom : trail[j].lit = assumptions[n]
      BY <2>2 DEF AssumedAt
    <3>2. j \in 1..Len(trail)
      BY <3>1, InvBottom, InvTrail
    <3> QED BY <3>1, <3>2, InvTrail, LitFacts
  <2> QED BY <2>1, <2>2
<1>6. AssumedAt(Bottom) \cup {0} = Nonzero(Len(assumptions))
  <2>1. AssumedAt(Bottom) \subseteq 1..Len(assumptions)
    BY <1>2 DEF AssumedAt
  <2> QED BY <1>5, <2>1 DEF Nonzero
<1> QED BY <1>1, <1>2, <1>3, <1>4, <1>6

\* The greatest of a set with one element.
LEMMA GreatestZero == Greatest({0}) = 0
<1>1. {0} \in SUBSET (0..0) /\ {0} # {} /\ 0 \in Nat
  OBVIOUS
<1>2. Greatest({0}) \in {0}
  BY <1>1, GreatestFacts
<1> QED BY <1>2

\* What is put on top of level 0 has the last assumption pushed below it.
LEMMA TopMark == Inv => Greatest(AssumedAt(Bottom) \cup {0}) = Interface!Mark(Len(held))
<1> SUFFICES ASSUME Inv PROVE Greatest(AssumedAt(Bottom) \cup {0}) = Interface!Mark(Len(held))
  OBVIOUS
<1>1. PICK N \in Nat : N = Len(held) /\ N = Len(assumptions) /\ DOMAIN assumptions = 1..N
  BY AssumedFacts, Zenon
<1>2. AssumedAt(Bottom) \cup {0} = Nonzero(N)
  BY <1>1, AssumedFacts
<1>3. CASE N = 0
  <2>1. Nonzero(N) = {0}
    BY <1>3 DEF Nonzero
  <2> QED BY <1>1, <1>2, <1>3, <2>1, GreatestZero DEF Interface!Mark
<1>4. CASE N # 0
  <2>1. N \in DOMAIN assumptions
    BY <1>1, <1>4
  <2>2. Marks[N] = Greatest(Nonzero(N))
    BY <2>1 DEF Marks, Nonzero
  <2> QED BY <1>1, <1>2, <1>4, <2>2 DEF Interface!Mark
<1> QED BY <1>3, <1>4

\* A unit waits for a variable of level 0 exactly when it is its reason.
LEMMA RootUnits ==
  ASSUME Inv, NEW m \in 1..Bottom
  PROVE  /\ UnitOn(m) <=> unit_facts[VarOf(trail[m].lit)] # <<>>
         /\ \A id \in Range(unit_facts[VarOf(trail[m].lit)]) : data[id] = <<trail[m].lit>>
<1>1. m \in 1..Len(trail) /\ trail[m].level = 0 /\ trail[m].lit \in Lit /\ VarOf(trail[m].lit) \in Var
  BY InvBottom, InvTrail, LitFacts
<1>2. PICK v \in Var : v = VarOf(trail[m].lit)
  BY <1>1
<1>3. ASSUME NEW id \in Range(unit_facts[v]) PROVE data[id] = <<trail[m].lit>>
  <2>1. PICK k \in DOMAIN trail : VarOf(trail[k].lit) = v /\ (Live(k) => WaitsAt(id, k))
    BY DEF Inv, UnitFactsWait
  <2>2. k \in 1..Len(trail)
    BY InvTrail
  <2>3. k = m
    BY <1>1, <1>2, <2>1, <2>2, InvTrail
  <2>4. Len(data[id]) = 1 /\ trail[m].reason = id
    BY <1>1, <2>1, <2>3 DEF Live, WaitsAt
  <2>5. IsFact(id) /\ id # NULL /\ id \in DOMAIN data
    BY FactsNow DEF IsFact
  <2>6. data[id][1] = trail[m].lit
    BY <1>1, <2>4, <2>5, InvTrail DEF Inv, TrailJustified
  <2>7. data[id] \in Seq(Lit)
    BY <2>5, DataTypes DEF Inv
  <2> QED BY <2>4, <2>6, <2>7
<1>4. unit_facts[v] \in Seq(DOMAIN data)
  BY DEF Inv, TypeOK
<1>5. unit_facts[v] # <<>> => \E id : id \in Range(unit_facts[v])
  <2>1. unit_facts[v] # <<>> => 1 \in DOMAIN unit_facts[v]
    BY <1>4
  <2> QED BY <2>1 DEF Range
<1>6. unit_facts[v] = <<>> => Range(unit_facts[v]) = {}
  BY DEF Range
<1> QED BY <1>2, <1>3, <1>5, <1>6 DEF UnitOn

\* Level 0 in this state and the next.
LEMMA BottomState ==
  Inv => /\ Bottom \in Nat /\ Bottom <= Len(trail) /\ Len(trail) \in Nat
         /\ \A k \in 1..Len(trail) : trail[k].level = 0 <=> k <= Bottom
<1> SUFFICES ASSUME Inv
             PROVE  /\ Bottom \in Nat /\ Bottom <= Len(trail) /\ Len(trail) \in Nat
                    /\ \A k \in 1..Len(trail) : trail[k].level = 0 <=> k <= Bottom
  OBVIOUS
<1> QED BY InvBottom, InvTrail

\* Where level 0 of the next trail ends.
LEMMA NextBottom ==
  ASSUME Inv', NEW b \in Nat, b <= Len(trail'), \A k \in 1..b : trail'[k].level = 0,
         b + 1 <= Len(trail') => trail'[b + 1].level # 0
  PROVE  Bottom' = b
<1>1. /\ Bottom' \in Nat /\ Bottom' <= Len(trail') /\ Len(trail') \in Nat
      /\ \A k \in 1..Len(trail') : trail'[k].level = 0 <=> k <= Bottom'
  <2>1. (Inv => /\ Bottom \in Nat /\ Bottom <= Len(trail) /\ Len(trail) \in Nat
                /\ \A k \in 1..Len(trail) : trail[k].level = 0 <=> k <= Bottom)'
    BY BottomState, PTL
  <2> QED BY <2>1
<1>2. PICK c \in Nat, n \in Nat : c = Bottom' /\ n = Len(trail')
  BY <1>1
<1>3. c <= n /\ b <= n /\ \A k \in 1..n : trail'[k].level = 0 <=> k <= c
  BY <1>1, <1>2
<1>4. ~(b < c)
  BY <1>2, <1>3
<1>5. ~(c < b)
  <2> SUFFICES ASSUME c < b PROVE FALSE
    OBVIOUS
  <2>1. b \in 1..n /\ b \in 1..b /\ ~(b <= c)
    BY <1>3
  <2> QED BY <1>3, <2>1
<1> QED BY <1>2, <1>4, <1>5

\* The units of level 0, in this state and the next.
LEMMA UnitsState == Inv => \A m \in 1..Bottom : UnitOn(m) <=> unit_facts[VarOf(trail[m].lit)] # <<>>
BY RootUnits

\* What Incremental records of level 0 stays as long as level 0 does.
RootStaysTo(b) ==
  \A k \in 1..b : /\ trail'[k] = trail[k] /\ AssumedAt(k)' = AssumedAt(k)
                  /\ unit_facts'[VarOf(trail[k].lit)] = unit_facts[VarOf(trail[k].lit)]

\* Each record stays.
LEMMA RecorderSame ==
  ASSUME Inv, Inv', NEW b, NEW k \in 1..b, k \in 1..Bottom, k \in 1..Bottom', RootStaysTo(b)
  PROVE  Recorder(k)' = Recorder(k)
<1>1. /\ trail'[k] = trail[k] /\ AssumedAt(k)' = AssumedAt(k)
      /\ unit_facts'[VarOf(trail[k].lit)] = unit_facts[VarOf(trail[k].lit)]
  BY DEF RootStaysTo
<1>2. UnitOn(k) <=> unit_facts[VarOf(trail[k].lit)] # <<>>
  BY UnitsState
<1>3. \A m \in 1..Bottom' : UnitOn(m)' <=> unit_facts'[VarOf(trail'[m].lit)] # <<>>
  <2>1. (Inv => \A m \in 1..Bottom : UnitOn(m) <=> unit_facts[VarOf(trail[m].lit)] # <<>>)'
    BY UnitsState, PTL
  <2> QED BY <2>1
<1>4. UnitOn(k)' = UnitOn(k)
  <2>1. UnitOn(k)' <=> UnitOn(k)
    BY <1>1, <1>2, <1>3
  <2> QED BY <2>1 DEF UnitOn
<1> QED BY <1>1, <1>4 DEF Recorder

\* Root in terms of the records.
LEMMA RootRecords == Root = {Recorder(k) : k \in 1..Bottom}
BY DEF Root, Recorder

\* Nothing comes to level 0 and nothing goes.
LEMMA RootSame ==
  ASSUME Inv, Inv', Bottom' = Bottom, RootStaysTo(Bottom)
  PROVE  Root' = Root
<1>1. \A k \in 1..Bottom : Recorder(k)' = Recorder(k)
  <2>1. PICK b : b = Bottom
    OBVIOUS
  <2>2. RootStaysTo(b)
    BY <2>1
  <2> QED BY <2>1, <2>2, RecorderSame
<1>2. Root' = {Recorder(k)' : k \in 1..Bottom'}
  <2>1. (Root = {Recorder(k) : k \in 1..Bottom})'
    BY RootRecords, PTL
  <2> QED BY <2>1
<1> QED BY <1>1, <1>2, RootRecords

\* One literal comes to level 0.
LEMMA RootPlus ==
  ASSUME Inv, Inv', NEW b \in Nat, b = Bottom + 1, Bottom' = b, RootStaysTo(Bottom)
  PROVE  Root' = Root \cup {Recorder(b)'}
<1>1. Bottom \in Nat
  BY BottomState
<1>2. \A k \in 1..Bottom : k \in 1..b
  BY <1>1
<1>3. \A k \in 1..b : k \in 1..Bottom \/ k = b
  BY <1>1
<1>4. \A k \in 1..Bottom : Recorder(k)' = Recorder(k)
  <2>1. PICK c : c = Bottom
    OBVIOUS
  <2>2. RootStaysTo(c)
    BY <2>1
  <2> QED BY <1>2, <2>1, <2>2, RecorderSame
<1>5. Root' = {Recorder(k)' : k \in 1..b}
  <2>1. (Root = {Recorder(k) : k \in 1..Bottom})'
    BY RootRecords, PTL
  <2> QED BY <2>1
<1>6. b \in 1..b
  BY <1>1
<1> QED BY <1>2, <1>3, <1>4, <1>5, <1>6, RootRecords

\* While the assumptions stay, so does what they say of level 0.
LEMMA AssumedSame ==
  ASSUME Inv, UNCHANGED assumptions, \A k \in 1..Bottom : trail'[k] = trail[k]
  PROVE  /\ \A k \in 1..Bottom : AssumedAt(k)' = AssumedAt(k)
         /\ Marks' = Marks
<1>1. Bottom \in Nat
  BY BottomState
<1>2. ASSUME NEW k \in 1..Bottom PROVE AssumedAt(k)' = AssumedAt(k)
  <2>1. \A j \in 1..k : trail'[j] = trail[j]
    BY <1>1
  <2> QED BY <2>1 DEF AssumedAt
<1>3. Marks' = Marks
  BY DEF Marks
<1> QED BY <1>2, <1>3

\* A variable of level 0 is not above it.
LEMMA NotAbove ==
  ASSUME Inv, NEW k \in 1..Bottom
  PROVE  /\ k \in 1..Len(trail) /\ trail[k].level = 0 /\ trail[k].lit \in Lit /\ VarOf(trail[k].lit) \in Var
         /\ VarOf(trail[k].lit) \notin Above
         /\ \A j \in (Bottom + 1)..Len(trail) : VarOf(trail[j].lit) # VarOf(trail[k].lit)
<1>1. k \in 1..Len(trail) /\ trail[k].level = 0 /\ trail[k].lit \in Lit /\ VarOf(trail[k].lit) \in Var
  BY InvBottom, InvTrail, LitFacts
<1>2. Bottom \in Nat /\ Len(trail) \in Nat
  BY BottomState
<1>3. \A j \in (Bottom + 1)..Len(trail) : j \in 1..Len(trail) /\ j # k
  BY <1>2
<1>4. \A j \in (Bottom + 1)..Len(trail) : VarOf(trail[j].lit) # VarOf(trail[k].lit)
  BY <1>1, <1>3, InvTrail
<1> QED BY <1>1, <1>4 DEF Above

\* No unit waits for a variable that is not assigned.
LEMMA UnknownFacts ==
  ASSUME Inv, NEW l \in Lit, IsUnknown(trail, l)
  PROVE  unit_facts[VarOf(l)] = <<>>
<1>1. VarOf(l) \in Var /\ trail \in Trails
  BY LitFacts, InvTrail
<1>2. \A k \in 1..Len(trail) : VarOf(trail[k].lit) # VarOf(l)
  BY <1>1, TrailsUnknown
<1>3. \A id : id \notin Range(unit_facts[VarOf(l)])
  BY <1>1, <1>2, InvTrail DEF Inv, UnitFactsWait
<1>4. unit_facts[VarOf(l)] \in Seq(DOMAIN data)
  BY <1>1 DEF Inv, TypeOK
<1>5. PICK s \in Seq(DOMAIN data) : s = unit_facts[VarOf(l)]
  BY <1>4
<1>6. s # <<>> => 1 \in DOMAIN s
  OBVIOUS
<1> QED BY <1>3, <1>5, <1>6 DEF Range

\* The engine keeps level 0 and the units that wait for it.
LEMMA EngineKeeps ==
  ASSUME Inv, Engine
  PROVE  /\ RootStaysTo(Bottom) /\ UNCHANGED <<assumptions, held>> /\ Bottom <= Len(trail')
<1>1. pc # "idle"
  BY EngineStep DEF GoesOn, Answers
<1>2. RootKept /\ UNCHANGED <<assumptions, held>>
  <2>1. ~Assumes
    BY <1>1 DEF Assumes, PushAssumption, PopAssumptions
  <2> QED BY <2>1, RootKeptNext DEF Next
<1>3. ASSUME NEW k \in 1..Bottom PROVE k \in 1..Len(trail') /\ trail'[k] = trail[k]
  BY <1>2, NotAbove DEF RootKept
<1>4. ASSUME NEW k \in 1..Bottom
      PROVE  unit_facts'[VarOf(trail[k].lit)] = unit_facts[VarOf(trail[k].lit)]
  <2>0. PICK v \in Var : v = VarOf(trail[k].lit)
    BY NotAbove
  <2>1. unit_facts \in [Var -> Seq(DOMAIN data)] /\ LevelOf(v) = 0
    <3>1. LevelOf(v) = trail[k].level
      BY <2>0, NotAbove, InvLevels
    <3> QED BY <3>1, NotAbove DEF Inv, TypeOK
  <2>2. CASE unit_facts' = unit_facts
    BY <2>2
  <2>3. CASE Restart
    BY <2>0, <2>3, NotAbove DEF Restart, BacktrackTo
  <2>4. CASE Pops \/ Learn
    <3>1. trail # <<>> /\ TopVar # v
      <4>1. trail # <<>> /\ Len(trail) \in 1..Len(trail) /\ Top = trail[Len(trail)]
        BY <2>4, InvTrail DEF Pops, Learn, Top, Trails
      <4>2. k # Len(trail)
        <5>1. CASE Pops
          <6>1. Len(trail') = Len(trail) - 1 /\ Len(trail) \in Nat
            BY <5>1, PopFacts
          <6> QED BY <1>3, <6>1
        <5>2. CASE Learn
          <6>1. decisionLevel >= 1 /\ trail[Len(trail)].level = decisionLevel
            BY <4>1, <5>2, InvLevels DEF Learn, Inv, Counted
          <6> QED BY <6>1, NotAbove
        <5> QED BY <2>4, <5>1, <5>2
      <4> QED BY <2>0, <4>1, <4>2, NotAbove, InvTrail, Zenon DEF TopVar
    <3> QED BY <2>0, <2>1, <2>4, <3>1 DEF Pops, TrailPop, Learn
  <2>5. CASE FactsDone
    <3>1. unit_facts' = unit_facts \/ (decisionLevel > 0 /\ unit_facts' = [unit_facts EXCEPT ![VarOf(uipLit)] = @ \o facts])
      BY <2>5, FactsDoneFacts
    <3>2. decisionLevel > 0 => VarOf(uipLit) # v
      BY <2>1, <2>5, FactsDoneFacts
    <3> QED BY <2>0, <2>1, <3>1, <3>2
  <2>6. CASE VisitClause
    <3>1. VisitSatisfied \/ \E id, d : VisitMoves(id, d) \/ VisitKeeps(id, d)
      BY <2>6, VisitFacts
    <3> QED BY <2>2, <3>1 DEF VisitSatisfied, VisitMoves, VisitKeeps, TrailPush, assignment
  <2>7. CASE SkipLiteral \/ ResolveReason \/ Undo
    BY <2>4, <2>7 DEF Pops, SkipLiteral, ResolveReason, Undo, clauses
  <2>8. CASE PropagateFact
    BY <2>2, <2>8, PropagateFactCases DEF FactIsWatched, FactIsImplied, TrailPush, assignment
  <2>9. CASE NextLiteral \/ Decide \/ Satisfied \/ Conflict \/ Recount \/ Refuted
    BY <2>2, <2>9 DEF NextLiteral, Decide, Satisfied, Conflict, Recount, Refuted, assignment
  <2> QED BY <2>3, <2>4, <2>5, <2>6, <2>7, <2>8, <2>9 DEF Engine
<1>5. \A k \in 1..Bottom : AssumedAt(k)' = AssumedAt(k)
  BY <1>2, <1>3, AssumedSame
<1>6. Bottom <= Len(trail')
  <2>1. Bottom \in Nat /\ Len(trail') \in Nat
    BY BottomState, TrailNext DEF Next, TrailGood, Trails
  <2>2. Bottom >= 1 => Bottom \in 1..Bottom
    BY <2>1
  <2> QED BY <1>3, <2>1, <2>2
<1> QED BY <1>2, <1>3, <1>4, <1>5, <1>6 DEF RootStaysTo

\* One literal was implied on top of level 0.
RootGains(l) ==
  /\ l \in Lit /\ IsUnknown(trail, l) /\ UNCHANGED unit_facts /\ Bottom + 1 <= Len(trail')
  /\ trail'[Bottom + 1].lit = l /\ trail'[Bottom + 1].level = 0
  /\ Bottom + 2 <= Len(trail') => trail'[Bottom + 2].level # 0

\* A step of the engine leaves level 0 as it is or implies one literal there.
LEMMA EngineRoot ==
  ASSUME Inv, Inv', Engine
  PROVE  Bottom' = Bottom \/ \E l : RootGains(l)
<1>0. /\ Bottom \in Nat /\ Len(trail) \in Nat /\ Bottom <= Len(trail) /\ Len(trail') \in Nat /\ Bottom <= Len(trail')
      /\ decisionLevel \in Nat
  BY BottomState, TrailNext, EngineKeeps, InvLevels DEF Next, TrailGood, Trails
<1>1. \A k \in 1..Bottom : trail'[k].level = 0
  BY EngineKeeps, NotAbove DEF RootStaysTo
<1>2. Bottom + 1 <= Len(trail) => trail[Bottom + 1].level # 0
  BY <1>0, BottomState
<1>3. CASE trail' = trail \/ trail' = LevelZero
  <2>1. Bottom + 1 <= Len(trail') => trail'[Bottom + 1].level # 0
    BY <1>0, <1>2, <1>3, InvBottom
  <2> QED BY <1>0, <1>1, <2>1, NextBottom
<1>4. CASE Pops
  <2>1. Len(trail') = Len(trail) - 1 /\ \A k \in 1..(Len(trail) - 1) : trail'[k] = trail[k]
    BY <1>4, PopFacts
  <2>2. Bottom + 1 <= Len(trail') => trail'[Bottom + 1].level # 0
    BY <1>0, <1>2, <2>1
  <2> QED BY <1>0, <1>1, <2>2, NextBottom
<1>5. ASSUME NEW e \in TrailEntry, trail' = Append(trail, e)
      PROVE  /\ Len(trail') = Len(trail) + 1 /\ trail'[Len(trail) + 1] = e
             /\ \A k \in 1..Len(trail) : trail'[k] = trail[k]
             /\ e.level # 0 => Bottom' = Bottom
  <2>1. PICK s, u : s \in Seq(TrailEntry) /\ s = trail /\ u = trail'
    BY InvTrail DEF Trails
  <2>2. u = Append(s, e) /\ e \in TrailEntry
    BY <1>5, <2>1
  <2>3. Len(u) = Len(s) + 1 /\ u[Len(s) + 1] = e /\ \A k \in 1..Len(s) : u[k] = s[k]
    BY ONLY <2>1, <2>2
  <2>4. Len(trail') = Len(trail) + 1 /\ trail'[Len(trail) + 1] = e /\ \A k \in 1..Len(trail) : trail'[k] = trail[k]
    BY <2>1, <2>2, <2>3
  <2>5. ASSUME e.level # 0 PROVE Bottom' = Bottom
    <3>1. Bottom + 1 <= Len(trail') => trail'[Bottom + 1].level # 0
      <4>1. CASE Bottom = Len(trail)
        BY <2>4, <2>5, <4>1
      <4>2. CASE Bottom # Len(trail)
        BY <1>0, <1>2, <2>4, <4>2
      <4> QED BY <4>1, <4>2
    <3> QED BY <1>0, <1>1, <3>1, NextBottom
  <2> QED BY <2>4, <2>5
<1>6. CASE PushesDecision
  <2>1. PICK v \in Free : NewLit(-v)
          /\ trail' = Append(trail, [lit |-> -v, level |-> decisionLevel + 1, reason |-> NULL, decision |-> TRUE])
    BY <1>6 DEF PushesDecision
  <2>2. PICK e : e = [lit |-> -v, level |-> decisionLevel + 1, reason |-> NULL, decision |-> TRUE]
    OBVIOUS
  <2>3. e \in TrailEntry /\ e.level # 0
    BY <1>0, <2>1, <2>2 DEF TrailEntry, NewLit, NULL
  <2> QED BY <1>5, <2>1, <2>2, <2>3
<1>7. CASE PushesImplied
  <2>1. PICK l, id : NewLit(l) /\ Implies(l, id) /\ TrailPush(l, id)
    BY <1>7 DEF PushesImplied
  <2>2. PICK e : e = Entry(l, id)
    OBVIOUS
  <2>3. e \in TrailEntry /\ e.level = decisionLevel /\ e.lit = l
    <3>1. id \in Nat
      BY <2>1, DataTypes DEF Implies, Inv
    <3> QED BY <1>0, <2>1, <2>2, <3>1 DEF TrailEntry, NewLit, Entry
  <2>4. trail' = Append(trail, e) /\ unit_facts' = unit_facts
    BY <2>1, <2>2 DEF TrailPush
  <2>5. CASE decisionLevel # 0
    BY <1>5, <2>3, <2>4, <2>5
  <2>6. CASE decisionLevel = 0
    <3>1. Bottom = Len(trail)
      BY <2>6, InvBottom
    <3>2. Len(trail') = Len(trail) + 1 /\ trail'[Len(trail) + 1] = e
      BY <1>5, <2>3, <2>4
    <3> QED BY <1>0, <2>1, <2>3, <2>4, <2>6, <3>1, <3>2 DEF RootGains, NewLit
  <2> QED BY <2>5, <2>6
<1>8. CASE VisitClause
  BY <1>3, <1>7, <1>8, VisitPushes DEF Stays
<1>9. CASE PropagateFact
  BY <1>3, <1>7, <1>9, PropagatePushes DEF Stays
<1>10. CASE Decide
  BY <1>6, <1>10, DecidePushes
<1>11. CASE SkipLiteral \/ ResolveReason \/ Undo
  BY <1>4, <1>11, PopStepFacts DEF PopStep
<1>12. CASE Restart
  BY <1>3, <1>12 DEF Restart, BacktrackTo
<1>13. CASE NextLiteral \/ Satisfied \/ Conflict \/ Recount \/ Learn \/ Refuted \/ FactsDone
  BY <1>3, <1>13 DEF NextLiteral, Satisfied, Conflict, Recount, Learn, Refuted, FactsDone, assignment
<1> QED BY <1>8, <1>9, <1>10, <1>11, <1>12, <1>13 DEF Engine

\* The record of a literal that comes to level 0.
LEMMA RecorderPlus ==
  ASSUME Inv, Inv', RootStaysTo(Bottom), NEW l, NEW b \in Nat, b = Bottom + 1, Bottom' = b, trail'[b].lit = l,
         UNCHANGED <<assumptions, held>>
  PROVE  Root' = Root \cup {[lit |-> l, at |-> Interface!Mark(Len(held)),
                             unit |-> (unit_facts'[VarOf(l)] # <<>>)]}
<1>0. Bottom \in Nat
  BY BottomState
<1>1. Root' = Root \cup {Recorder(b)'}
  BY RootPlus
<1>2. Greatest(AssumedAt(b) \cup {0})' = Interface!Mark(Len(held))
  <2>1. (Inv => Greatest(AssumedAt(Bottom) \cup {0}) = Interface!Mark(Len(held)))'
    BY TopMark, PTL
  <2>2. Marks' = Marks
    BY AssumedSame DEF RootStaysTo
  <2>3. Interface!Mark(Len(held))' = Interface!Mark(Len(held))
    BY <2>2 DEF Interface!Mark
  <2> QED BY <2>1, <2>3 DEF AssumedAt
<1>3. UnitOn(b)' = (unit_facts'[VarOf(l)] # <<>>)
  <2>1. (Inv => \A m \in 1..Bottom : UnitOn(m) <=> unit_facts[VarOf(trail[m].lit)] # <<>>)'
    BY UnitsState, PTL
  <2>2. b \in 1..b
    BY <1>0
  <2>3. UnitOn(b)' <=> unit_facts'[VarOf(l)] # <<>>
    BY <2>1, <2>2
  <2> QED BY <2>3 DEF UnitOn
<1> QED BY <1>1, <1>2, <1>3 DEF Recorder

\* The record of a literal that was implied at level 0.
LEMMA RecorderGained ==
  ASSUME Inv, Inv', RootStaysTo(Bottom), NEW l, RootGains(l), UNCHANGED <<assumptions, held>>
  PROVE  /\ \E b \in Nat : b = Bottom + 1 /\ Bottom' = b /\ trail'[b].lit = l
         /\ Root' = Root \cup {[lit |-> l, at |-> Interface!Mark(Len(held)), unit |-> FALSE]}
<1>0. Bottom \in Nat
  BY BottomState
<1>1. PICK b \in Nat : b = Bottom + 1
  BY <1>0
<1>2. b <= Len(trail') /\ trail'[b].lit = l /\ trail'[b].level = 0 /\ (b + 1 <= Len(trail') => trail'[b + 1].level # 0)
  BY <1>0, <1>1 DEF RootGains
<1>3. Bottom' = b
  <2>1. \A k \in 1..b : k \in 1..Bottom \/ k = b
    BY <1>0, <1>1
  <2>2. \A k \in 1..b : trail'[k].level = 0
    BY <1>2, <2>1, NotAbove DEF RootStaysTo
  <2> QED BY <1>2, <2>2, NextBottom
<1>4. unit_facts'[VarOf(l)] = <<>>
  BY UnknownFacts DEF RootGains
<1>5. Root' = Root \cup {[lit |-> l, at |-> Interface!Mark(Len(held)), unit |-> (unit_facts'[VarOf(l)] # <<>>)]}
  BY <1>1, <1>2, <1>3, RecorderPlus
<1> QED BY <1>1, <1>2, <1>3, <1>4, <1>5

\* The words of Incremental mean what those of Cnf mean.
LEMMA InterfaceWords ==
  /\ \A fs : Interface!ModelsOf(fs) = ModelsOf(fs)
  /\ \A a, l : Interface!Holds(a, l) = Holds(a, l)
  /\ \A fs, ls : Interface!Consistent(fs, ls) <=> Consistent(fs, ls)
  /\ Interface!Lit = Lit
<1>1. \A a, l : Interface!Holds(a, l) = Holds(a, l)
  BY DEF Interface!Holds, Holds
<1>2. \A fs : Interface!ModelsOf(fs) = ModelsOf(fs)
  BY <1>1 DEF Interface!ModelsOf, Interface!Satisfies, Interface!Var, ModelsOf, Satisfies, Var
<1>3. \A fs, ls : Interface!Consistent(fs, ls) <=> Consistent(fs, ls)
  BY <1>1, <1>2 DEF Interface!Consistent, Consistent
<1>4. Interface!Lit = Lit
  BY DEF Interface!Lit, Lit
<1> QED BY <1>1, <1>2, <1>3, <1>4

\* What Incremental sees on level 0.
LEMMA RootLitsFacts == Interface!RootLits = {trail[k].lit : k \in 1..Bottom}
<1>1. \A k : Recorder(k).lit = trail[k].lit
  BY DEF Recorder
<1>2. Interface!RootLits = {r.lit : r \in Root}
  BY DEF Interface!RootLits
<1> QED BY <1>1, <1>2, RootRecords

\* A literal that is unknown is not on level 0, nor is its negation.
LEMMA UnknownRoot ==
  ASSUME Inv, NEW l \in Lit, IsUnknown(trail, l)
  PROVE  l \notin Interface!RootLits /\ -l \notin Interface!RootLits
<1>1. \A k \in 1..Bottom : k \in DOMAIN trail
  BY NotAbove, InvTrail
<1>2. \A k \in 1..Bottom : trail[k].lit # l /\ trail[k].lit # -l
  BY <1>1 DEF IsUnknown, IsTrue, IsFalse
<1> QED BY <1>2, RootLitsFacts

\* Level 0 holds wherever the formula and the assumptions do, in this state and the next.
LEMMA BottomHolds ==
  Inv => \A m \in ModelsOf(Range(formula)) : (\A x \in Range(held) : Holds(m, x)) =>
           \A k \in 1..Bottom : Holds(m, trail[k].lit)
<1> SUFFICES ASSUME Inv, NEW m \in ModelsOf(Range(formula)), \A x \in Range(held) : Holds(m, x),
                    NEW k \in 1..Bottom
             PROVE  Holds(m, trail[k].lit)
  OBVIOUS
<1> QED BY RootTrue

\* The engine deduces a literal of level 0.
LEMMA InterfaceDeduces ==
  ASSUME Inv, Inv', RootStaysTo(Bottom), NEW l, RootGains(l),
         pc # "idle", pc' # "idle", UNCHANGED <<assumptions, formula, held, asked, answer, lost>>
  PROVE  Interface!Next
<1>1. PICK b \in Nat : /\ b = Bottom + 1 /\ Bottom' = b /\ trail'[b].lit = l
                       /\ Root' = Root \cup {[lit |-> l, at |-> Interface!Mark(Len(held)), unit |-> FALSE]}
  BY RecorderGained
<1>2. Marks' = Marks
  BY AssumedSame DEF RootStaysTo
<1>3. l \in Lit /\ l \notin Interface!RootLits
  BY UnknownRoot DEF RootGains
<1>4. ASSUME NEW a \in ModelsOf(Range(formula)), \A k \in 1..Len(held) : Holds(a, held[k])
      PROVE  Holds(a, l)
  <2>1. (Inv => \A m \in ModelsOf(Range(formula)) : (\A x \in Range(held) : Holds(m, x)) =>
           \A k \in 1..Bottom : Holds(m, trail[k].lit))'
    BY BottomHolds, PTL
  <2>2. \A x \in Range(held) : Holds(a, x)
    <3>1. held \in Seq(Lit)
      BY DEF Inv, AssumptionsInOrder
    <3> QED BY <1>4, <3>1 DEF Range
  <2>3. Range(formula') = Range(formula) /\ Range(held') = Range(held)
    OBVIOUS
  <2>4. b \in 1..Bottom'
    BY <1>1, BottomState
  <2> QED BY <1>1, <2>1, <2>2, <2>3, <2>4
<1>5. Interface!Implied(l, Len(held))
  BY <1>4, InterfaceWords DEF Interface!Implied
<1>6. Root' = Root \cup {Interface!Entry(x, Interface!Mark(Len(held)), FALSE) : x \in {l} \ Interface!RootLits}
  BY <1>1, <1>3 DEF Interface!Entry
<1>7. Interface!Deduce({l})
  BY <1>2, <1>5, <1>6 DEF Interface!Deduce
<1>8. {l} \in SUBSET Interface!Lit
  BY <1>3, InterfaceWords
<1> QED BY <1>7, <1>8 DEF Interface!Next

\* The engine is still at work.
LEMMA InterfaceGoesOn ==
  ASSUME Inv, Inv', Engine, GoesOn
  PROVE  Interface!Next \/ UNCHANGED Interface!vars
<1>1. RootStaysTo(Bottom) /\ UNCHANGED <<assumptions, held>>
  BY EngineKeeps
<1>2. pc # "idle" /\ pc' # "idle" /\ UNCHANGED <<formula, held, asked, answer, lost>>
  BY DEF GoesOn, client
<1>3. CASE Bottom' = Bottom
  <2>1. Root' = Root /\ Marks' = Marks
    BY <1>1, <1>3, RootSame, AssumedSame DEF RootStaysTo
  <2> QED BY <1>2, <2>1 DEF Interface!vars
<1>4. ASSUME NEW l, RootGains(l) PROVE Interface!Next
  BY <1>1, <1>2, <1>4, InterfaceDeduces
<1> QED BY <1>3, <1>4, EngineRoot

\* The engine ends the call with an answer.
LEMMA InterfaceAnswers ==
  ASSUME Complete, Inv', Engine, (Answers("SAT") /\ Satisfied) \/ Answers("UNSAT")
  PROVE  Interface!Next
<1>1. Inv
  BY DEF Complete
<1>2. RootStaysTo(Bottom) /\ UNCHANGED <<assumptions, held>>
  BY <1>1, EngineKeeps
<1>3. pc # "idle" /\ pc' = "idle" /\ UNCHANGED <<formula, held, asked, lost>>
  BY DEF Answers, Finish
<1>4. UNCHANGED trail
  <2>1. CASE Satisfied \/ Conflict \/ Refuted
    BY <2>1 DEF Satisfied, Conflict, Refuted, assignment
  <2>2. CASE VisitClause
    BY <1>3, <2>2 DEF VisitClause
  <2>3. CASE PropagateFact
    <3>1. pc' = "facts"
      BY <1>1, <2>3, PropagateFactCases DEF FactIsWatched, FactIsImplied, PropagateFact
    <3> QED BY <1>3, <3>1
  <2>4. CASE FactsDone \/ NextLiteral \/ Restart \/ Decide
    BY <1>3, <2>4 DEF FactsDone, NextLiteral, Restart, Decide
  <2>5. CASE SkipLiteral \/ ResolveReason \/ Recount \/ Learn \/ Undo
    BY <1>3, <2>5 DEF SkipLiteral, ResolveReason, Recount, Learn, Undo
  <2> QED BY <2>1, <2>2, <2>3, <2>4, <2>5 DEF Engine
<1>5. Root' = Root /\ Marks' = Marks
  <2>1. Bottom' = Bottom
    BY <1>4 DEF Bottom
  <2> QED BY <1>1, <1>2, <2>1, RootSame, AssumedSame DEF RootStaysTo
<1>6. CASE Answers("SAT") /\ Satisfied
  <2>1. ASSUME NEW c \in Range(formula), Interface!IsLong(c) PROVE \E l \in c : IsTrue(trail, l)
    <3>1. pc = "bcp" /\ propq = Len(trail) /\ Free = {}
      BY <1>6 DEF Satisfied
    <3>2. c \in SUBSET Lit /\ \A l \in c : ~IsUnknown(trail, l)
      <4>1. c \in SUBSET Lit
        BY <1>1, RangeFacts DEF Inv, Control
      <4> QED BY <1>1, <3>1, <4>1, AllAssigned DEF Complete, FormulaKept
    <3>3. c # {} /\ ~\E l \in Lit : c = {l}
      BY <2>1, InterfaceWords DEF Interface!IsLong, Interface!IsUnit, Interface!Unit
    <3>4. ASSUME IsTautology(c) PROVE \E m \in c : IsTrue(trail, m)
      BY <3>2, <3>4 DEF IsTautology, IsUnknown, IsFalse
    <3>5. ASSUME NEW id \in DOMAIN data, Range(data[id]) = c, NEW l \in Lit, id \in Classes(wlist[l])
          PROVE  \E m \in c : IsTrue(trail, m)
      BY <1>1, <3>1, <3>2, <3>5, WatchedSettled DEF Complete
    <3> QED BY <3>3, <3>4, <3>5 DEF Complete, FormulaKept
  <2>2. Interface!Kept \in SUBSET SUBSET Lit /\ \A c \in Interface!Kept : \E l \in c : IsTrue(trail, l)
    <3>1. formula \in Seq(SUBSET Lit)
      BY <1>1 DEF Inv, Control
    <3>2. Range(formula) \in SUBSET SUBSET Lit
      BY <3>1, RangeFacts
    <3> QED BY <2>1, <3>2 DEF Interface!Kept
  <2>3. TrailModel \in Interface!ModelsOf(Interface!Kept)
    BY <1>1, <2>2, TrailSatisfies, InterfaceWords
  <2>4. \A l \in Interface!RootLits : Interface!Holds(TrailModel, l)
    <3>1. \A k \in 1..Bottom : trail[k].lit \in Lit /\ IsTrue(trail, trail[k].lit)
      BY <1>1, NotAbove, InvTrail DEF IsTrue
    <3> QED BY <1>1, <3>1, RootLitsFacts, TrailHolds, InterfaceWords
  <2>5. answer' = "SAT"
    BY <1>6 DEF Answers, Finish
  <2>6. Interface!AnswerSat(TrailModel)
    BY <1>3, <1>5, <2>3, <2>4, <2>5 DEF Interface!AnswerSat
  <2>7. TrailModel \in Interface!ModelsOf({})
    BY <1>1, TrailHolds, InterfaceWords DEF ModelsOf
  <2> QED BY <2>6, <2>7 DEF Interface!Next
<1>7. CASE Answers("UNSAT")
  <2>1. answer' = "UNSAT"
    BY <1>7 DEF Answers, Finish
  <2>2. ~Consistent(Range(formula), asked)
    BY <1>3, <2>1 DEF Inv, UnsatRight
  <2>3. Interface!AnswerUnsat
    BY <1>3, <1>5, <2>1, <2>2, InterfaceWords DEF Interface!AnswerUnsat
  <2> QED BY <2>3 DEF Interface!Next
<1> QED BY <1>6, <1>7

\* A clause of one literal, and of two.
LEMMA ClauseSizes ==
  ASSUME NEW w \in Seq(Lit), DistinctVars(w)
  PROVE  /\ Len(w) = 1 => Range(w) = {w[1]} /\ w[1] \in Lit /\ Cardinality(Range(w)) = 1
         /\ w = <<>> => Range(w) = {}
         /\ Len(w) >= 2 => w[1] \in Range(w) /\ w[2] \in Range(w) /\ w[1] # w[2]
<1>1. Range(w) = {w[n] : n \in 1..Len(w)} /\ DOMAIN w = 1..Len(w) /\ Len(w) \in Nat
  BY RangeFacts
<1>2. ASSUME Len(w) = 1 PROVE Range(w) = {w[1]} /\ w[1] \in Lit /\ Cardinality(Range(w)) = 1
  <2>1. Range(w) = {w[1]} /\ w[1] \in Lit
    BY <1>1, <1>2
  <2>2. Cardinality({w[1]}) = 1
    BY FS_Singleton
  <2> QED BY <2>1, <2>2
<1>3. ASSUME Len(w) >= 2 PROVE w[1] \in Range(w) /\ w[2] \in Range(w) /\ w[1] # w[2]
  <2>1. 1 \in DOMAIN w /\ 2 \in DOMAIN w
    BY <1>1, <1>3
  <2> QED BY <1>1, <2>1 DEF DistinctVars
<1> QED BY <1>1, <1>2, <1>3

\* Adding a clause keeps level 0, its units and the assumptions.
LEMMA AddKeeps ==
  ASSUME Inv, NEW c \in Inputs, AddClause(c)
  PROVE  RootStaysTo(Bottom) /\ UNCHANGED <<assumptions, held>>
<1>1. RootKept /\ UNCHANGED <<assumptions, held>>
  BY RootKeptAdd DEF AddClause
<1>2. ASSUME NEW k \in 1..Bottom PROVE trail'[k] = trail[k]
  BY <1>1, NotAbove DEF RootKept
<1>3. \A k \in 1..Bottom : AssumedAt(k)' = AssumedAt(k)
  BY <1>1, <1>2, AssumedSame
<1>4. ASSUME NEW k \in 1..Bottom
      PROVE  unit_facts'[VarOf(trail[k].lit)] = unit_facts[VarOf(trail[k].lit)]
  <2>1. PICK v : v \in Var /\ v = VarOf(trail[k].lit) /\ v \notin Above
    BY NotAbove
  <2>2. v \in Var
    BY <2>1
  <2>3. CASE unit_facts' = Cleared
    BY <2>1, <2>3 DEF Cleared
  <2>4. CASE \E l \in Lit : AddUnit(l, Len(data) + 1)
    <3>1. PICK l \in Lit : AddUnit(l, Len(data) + 1)
      BY <2>4
    <3>2. CASE IsUnknown(LevelZero, l)
      <4>1. VarOf(l) # v
        <5>1. LevelZero \in Trails /\ k \in 1..Len(LevelZero) /\ LevelZero[k] = trail[k]
          BY InvBottom
        <5> QED BY <2>1, <3>2, <5>1, TrailsUnknown
      <4>2. unit_facts'[v] = <<>> \o unit_facts[v]
        BY <2>1, <3>1, <3>2, <4>1 DEF AddUnit
      <4>3. PICK s \in Seq(DOMAIN data) : s = unit_facts[v]
        BY <2>1 DEF Inv, TypeOK
      <4>4. <<>> \o s = s
        OBVIOUS
      <4> QED BY <2>1, <4>2, <4>3, <4>4
    <3>3. CASE ~IsUnknown(LevelZero, l)
      BY <2>1, <3>1, <3>3 DEF AddUnit
    <3> QED BY <3>2, <3>3
  <2>5. unit_facts' = Cleared \/ \E l \in Lit : AddUnit(l, Len(data) + 1)
    <3>1. ASSUME NEW w, Added(c, w) PROVE unit_facts' = Cleared \/ \E l \in Lit : AddUnit(l, Len(data) + 1)
      <4>1. w \in Seq(Lit) /\ DistinctVars(w)
        BY <3>1 DEF Added
      <4>2. Len(w) = 1 => w[1] \in Lit
        BY <4>1, ClauseSizes
      <4> QED BY <3>1, <4>2 DEF Added
    <3> QED BY <3>1, AddClauseCases
  <2> QED BY <2>3, <2>4, <2>5
<1> QED BY <1>1, <1>2, <1>3, <1>4 DEF RootStaysTo

\* What is long for Incremental is no unit.
LEMMA LongFacts ==
  ASSUME NEW c \in SUBSET Lit, NEW x \in c, NEW y \in c, x # y
  PROVE  Interface!IsLong(c) /\ Cardinality(c) # 1
<1>1. Interface!IsLong(c)
  BY DEF Interface!IsLong, Interface!IsUnit, Interface!Unit
<1>2. IsFiniteSet(c) => Cardinality(c) >= 2
  BY TwoElements
<1>3. IsFiniteSet(c)
  BY FiniteClause
<1>4. Cardinality(c) \in Nat
  BY <1>3, FS_CardinalityType
<1> QED BY <1>1, <1>2, <1>3, <1>4

\* Level 0 as a set of literals.
LEMMA LevelZeroLits ==
  ASSUME Inv, NEW l \in Lit
  PROVE  /\ IsTrue(LevelZero, l) <=> l \in Interface!RootLits
         /\ IsFalse(LevelZero, l) <=> -l \in Interface!RootLits
<1>1. DOMAIN LevelZero = 1..Bottom /\ \A k \in 1..Bottom : LevelZero[k] = trail[k]
  BY InvBottom, TrailTypes
<1>2. \A m : IsTrue(LevelZero, m) <=> m \in {trail[k].lit : k \in 1..Bottom}
  BY <1>1 DEF IsTrue
<1> QED BY <1>2, RootLitsFacts DEF IsFalse

\* A call that leaves the trail at level 0.
LEMMA BottomSame ==
  ASSUME Inv, Inv', trail' = LevelZero, RootStaysTo(Bottom), UNCHANGED <<assumptions, held>>
  PROVE  Root' = Root /\ Marks' = Marks
<1>1. Bottom' = Bottom
  <2>1. Len(trail') = Bottom /\ Bottom \in Nat /\ \A k \in 1..Bottom : trail'[k].level = 0
    BY InvBottom, NotAbove
  <2> QED BY <2>1, NextBottom
<1> QED BY <1>1, RootSame, AssumedSame DEF RootStaysTo

\* A clause that is not refused and no unit is added.
LEMMA InterfaceAddsLong ==
  ASSUME Inv, Inv', NEW c \in Inputs, AddClause(c), trail' = LevelZero, conflictClause' = NULL,
         NEW x \in Range(c), NEW y \in Range(c), x # y
  PROVE  Interface!Next
<1>1. Root' = Root /\ Marks' = Marks /\ UNCHANGED <<assumptions, held>>
  BY AddKeeps, BottomSame
<1>2. Range(c) \in SUBSET Lit
  BY AddClauseCases
<1>3. Interface!IsLong(Range(c)) /\ Cardinality(Range(c)) # 1
  BY <1>2, LongFacts
<1>4. /\ pc = "idle" /\ pc' = "idle" /\ asked' = Range(held) /\ answer' = "none" /\ lost' = lost
  BY <1>3 DEF AddClause
<1>5. Range(formula') = Range(formula) \cup {Range(c)}
  BY FormulaGrows
<1>6. Interface!SetOf(held) = Range(held)
  BY DEF Interface!SetOf, Range
<1>7. Interface!AddLong({Range(c)})
  BY <1>1, <1>3, <1>4, <1>5, <1>6 DEF Interface!AddLong
<1> QED BY <1>3, <1>7 DEF Interface!Next

\* The empty clause is added.
LEMMA InterfaceAddsEmpty ==
  ASSUME Inv, Inv', NEW c \in Inputs, AddClause(c), trail' = LevelZero, conflictClause' # NULL, Range(c) = {}
  PROVE  Interface!Next
<1>1. Root' = Root /\ Marks' = Marks /\ UNCHANGED <<assumptions, held>>
  BY AddKeeps, BottomSame
<1>2. /\ pc = "idle" /\ pc' = "idle" /\ asked' = Range(held) /\ answer' = "UNSAT" /\ lost' = lost \cup {{}}
  BY DEF AddClause
<1>3. Range(formula') = Range(formula) \cup {{}}
  BY FormulaGrows
<1>4. Interface!SetOf(held) = Range(held)
  BY DEF Interface!SetOf, Range
<1>5. Interface!AddEmpty
  BY <1>1, <1>2, <1>3, <1>4 DEF Interface!AddEmpty
<1> QED BY <1>5 DEF Interface!Next

\* A unit is added: level 0 says it, or is opposed to it, or gains it.
LEMMA InterfaceAddsUnit ==
  ASSUME Inv, Inv', NEW c \in Inputs, AddClause(c), NEW l \in Lit, Range(c) = {l}, Cardinality(Range(c)) = 1,
         AddUnit(l, Len(data) + 1)
  PROVE  Interface!Next
<1>1. RootStaysTo(Bottom) /\ UNCHANGED <<assumptions, held>>
  BY AddKeeps
<1>2. Marks' = Marks
  BY <1>1, AssumedSame DEF RootStaysTo
<1>3. conflictClause' # NULL <=> -l \in Interface!RootLits
  <2>1. Len(data) + 1 # NULL
    BY DataTypes DEF NULL, Inv
  <2> QED BY <2>1, LevelZeroLits DEF AddUnit, RefusesUnit
<1>4. Root' = IF l \in Interface!RootLits \/ -l \in Interface!RootLits THEN Root
              ELSE Root \cup {Interface!Entry(l, Interface!Mark(Len(held)), TRUE)}
  <2>1. CASE IsUnknown(LevelZero, l)
    <3>1. PICK s, e : /\ s = LevelZero /\ s \in Trails /\ Len(s) = Bottom
                      /\ e = [lit |-> l, level |-> 0, reason |-> Len(data) + 1, decision |-> FALSE]
      BY InvBottom
    <3>2. PICK b : b \in Nat /\ b = Bottom + 1
      BY BottomState
    <3>3. b \in Nat /\ b = Len(s) + 1
      BY <3>1, <3>2
    <3>4. trail' = Append(s, e) /\ e \in TrailEntry
      BY <2>1, <3>1, DataTypes DEF AddUnit, TrailEntry, Inv
    <3>5. Len(Append(s, e)) = b /\ Append(s, e)[b] = e
      BY ONLY <3>1, <3>3, <3>4 DEF Trails
    <3>6. Bottom' = b
      <4>1. \A k \in 1..b : k \in 1..Bottom \/ k = b
        BY <3>2, BottomState
      <4>2. \A k \in 1..b : trail'[k].level = 0
        BY <1>1, <3>1, <3>4, <3>5, <4>1, NotAbove DEF RootStaysTo
      <4>3. b <= Len(trail') /\ ~(b + 1 <= Len(trail'))
        BY <3>3, <3>4, <3>5
      <4> QED BY <3>3, <4>2, <4>3, NextBottom
    <3>7. trail'[b].lit = l
      BY <3>1, <3>4, <3>5
    <3>8. unit_facts'[VarOf(l)] # <<>>
      <4>1. VarOf(l) \in Var
        BY LitFacts
      <4>2. PICK u : u = (IF VarOf(l) \in Above THEN <<>> ELSE unit_facts[VarOf(l)]) /\ u \in Seq(DOMAIN data)
        <5>1. unit_facts[VarOf(l)] \in Seq(DOMAIN data) /\ <<>> \in Seq(DOMAIN data)
          BY <4>1 DEF Inv, TypeOK
        <5>2. (IF VarOf(l) \in Above THEN <<>> ELSE unit_facts[VarOf(l)]) \in Seq(DOMAIN data)
          BY <5>1
        <5> QED BY <5>2
      <4>3. unit_facts'[VarOf(l)] = <<Len(data) + 1>> \o u
        BY <2>1, <4>1, <4>2 DEF AddUnit
      <4>4. Len(<<Len(data) + 1>> \o u) = 1 + Len(u) /\ Len(u) \in Nat
        BY <4>2
      <4> QED BY <4>3, <4>4
    <3>9. Root' = Root \cup {[lit |-> l, at |-> Interface!Mark(Len(held)), unit |-> (unit_facts'[VarOf(l)] # <<>>)]}
      BY <1>1, <3>2, <3>3, <3>6, <3>7, RecorderPlus
    <3>10. Root' = Root \cup {Interface!Entry(l, Interface!Mark(Len(held)), TRUE)}
      BY <3>8, <3>9 DEF Interface!Entry
    <3>11. l \notin Interface!RootLits /\ -l \notin Interface!RootLits
      BY <2>1, LevelZeroLits DEF IsUnknown
    <3> QED BY <3>10, <3>11
  <2>2. CASE ~IsUnknown(LevelZero, l)
    <3>1. trail' = LevelZero
      BY <2>2 DEF AddUnit
    <3>2. Root' = Root
      BY <1>1, <3>1, BottomSame
    <3>3. l \in Interface!RootLits \/ -l \in Interface!RootLits
      BY <2>2, LevelZeroLits DEF IsUnknown
    <3> QED BY <3>2, <3>3
  <2> QED BY <2>1, <2>2
<1>5. /\ pc = "idle" /\ pc' = "idle" /\ asked' = Range(held)
      /\ answer' = IF -l \in Interface!RootLits THEN "UNSAT" ELSE "none"
      /\ lost' = IF held # <<>> \/ -l \in Interface!RootLits THEN lost \cup {{l}} ELSE lost
  BY <1>3 DEF AddClause
<1>6. Range(formula') = Range(formula) \cup {{l}}
  BY FormulaGrows
<1>7. Interface!SetOf(held) = Range(held) /\ Interface!Unit(l) = {l}
  BY DEF Interface!SetOf, Interface!Unit, Range
<1>8. Interface!AddUnit(l)
  BY <1>1, <1>2, <1>4, <1>5, <1>6, <1>7 DEF Interface!AddUnit
<1>9. Interface!Unit(l) \in {Range(d) : d \in Inputs}
  BY <1>7
<1> QED BY <1>8, <1>9, InterfaceWords DEF Interface!Next

\* funcsatAddClause is a call of Incremental.
LEMMA InterfaceAdds ==
  ASSUME Inv, Inv', NEW c \in Inputs, AddClause(c)
  PROVE  Interface!Next
<1>1. ASSUME NEW w, Added(c, w) PROVE Interface!Next
  <2>1. w \in Seq(Lit) /\ DistinctVars(w) /\ Range(w) = Range(c)
    BY <1>1 DEF Added
  <2>2. CASE Len(w) >= 2 /\ trail' = LevelZero /\ conflictClause' = NULL
    <3>1. w[1] \in Range(c) /\ w[2] \in Range(c) /\ w[1] # w[2]
      BY <2>1, <2>2, ClauseSizes
    <3> QED BY <2>2, <3>1, InterfaceAddsLong
  <2>3. CASE w = <<>> /\ trail' = LevelZero /\ conflictClause' = Len(data) + 1
    <3>1. Range(c) = {}
      BY <2>1, <2>3, ClauseSizes
    <3>2. conflictClause' # NULL
      BY <2>3, DataTypes DEF NULL, Inv
    <3> QED BY <2>3, <3>1, <3>2, InterfaceAddsEmpty
  <2>4. CASE Len(w) = 1 /\ AddUnit(w[1], Len(data) + 1)
    <3>1. Range(c) = {w[1]} /\ w[1] \in Lit /\ Cardinality(Range(c)) = 1
      BY <2>1, <2>4, ClauseSizes
    <3> QED BY <2>4, <3>1, InterfaceAddsUnit
  <2> QED BY <1>1, <2>2, <2>3, <2>4 DEF Added
<1>2. ASSUME ~\E w : Added(c, w) PROVE Interface!Next
  <2>1. trail' = LevelZero /\ conflictClause' = NULL
    BY <1>2, AddClauseCases
  <2>2. Range(c) \in SUBSET Lit /\ IsTautology(Range(c))
    BY <1>2, AddedClause, AddClauseCases
  <2>3. PICK l \in Range(c) : -l \in Range(c) /\ -l # l
    BY <2>2, LitFacts DEF IsTautology
  <2> QED BY <2>1, <2>3, InterfaceAddsLong
<1> QED BY <1>1, <1>2

\* A refused assumption: level 0 is opposed to it.
LEMMA InterfaceRefuses ==
  ASSUME Inv, Inv', NEW p \in Queries, PushAssumption(p), Refuses(p)
  PROVE  Interface!PushAssumption(p)
<1>1. p \in Lit
  BY ClientAssumption
<1>2. /\ UNCHANGED <<assumptions, held, formula, lost>> /\ pc = "idle" /\ pc' = "idle"
      /\ answer' = "UNSAT" /\ asked' = Range(held) \cup {p}
  BY DEF PushAssumption
<1>3. trail' = LevelZero /\ unit_facts' = Cleared
  BY DEF PushAssumption, Refuses, IsUnknown, BacktrackTo, Cleared
<1>4. RootStaysTo(Bottom)
  <2>1. \A k \in 1..Bottom : trail'[k] = trail[k]
    BY <1>3, InvBottom
  <2>2. \A k \in 1..Bottom : unit_facts'[VarOf(trail[k].lit)] = unit_facts[VarOf(trail[k].lit)]
    BY <1>3, NotAbove DEF Cleared
  <2> QED BY <1>2, <2>1, <2>2, AssumedSame DEF RootStaysTo
<1>5. Root' = Root /\ Marks' = Marks
  BY <1>2, <1>3, <1>4, BottomSame
<1>6. Interface!SetOf(held) = Range(held)
  BY DEF Interface!SetOf, Range
<1>7. -p \in Interface!RootLits
  BY <1>1, LevelZeroLits DEF Refuses
<1> QED BY <1>2, <1>5, <1>6, <1>7 DEF Interface!PushAssumption

\* The mark of an assumption is the last one, at or below it, that is on the trail.
LEMMA MarksState ==
  Inv => /\ Len(assumptions) \in Nat /\ Marks \in Seq(Nat) /\ Len(Marks) = Len(assumptions)
         /\ \A n \in 1..Len(assumptions) : Marks[n] = Greatest(Nonzero(n)) /\ Marks[n] \in 0..n
<1> SUFFICES ASSUME Inv
             PROVE  /\ Len(assumptions) \in Nat /\ Marks \in Seq(Nat) /\ Len(Marks) = Len(assumptions)
                    /\ \A n \in 1..Len(assumptions) : Marks[n] = Greatest(Nonzero(n)) /\ Marks[n] \in 0..n
  OBVIOUS
<1>1. PICK N : N \in Nat /\ N = Len(assumptions) /\ DOMAIN assumptions = 1..N
  BY AssumedFacts
<1>2. ASSUME NEW n \in 1..N PROVE Marks[n] = Greatest(Nonzero(n)) /\ Marks[n] \in 0..n
  <2>1. Marks[n] = Greatest(Nonzero(n))
    BY <1>1 DEF Marks, Nonzero
  <2>2. n \in Nat /\ Nonzero(n) \in SUBSET (0..n) /\ Nonzero(n) # {}
    BY <1>1 DEF Nonzero
  <2>3. Greatest(Nonzero(n)) \in Nonzero(n)
    BY <2>2, GreatestFacts
  <2> QED BY <2>1, <2>2, <2>3
<1>3. Marks \in [1..N -> Nat]
  <2>1. \A n \in 1..N : Marks[n] \in Nat
    BY <1>2
  <2>2. Marks = [n \in 1..N |-> Marks[n]]
    BY <1>1 DEF Marks
  <2> QED BY <2>1, <2>2
<1>4. PICK M : M = Marks /\ M \in [1..N -> Nat]
  BY <1>3
<1>5. M \in Seq(Nat) /\ Len(M) = N
  BY <1>1, <1>4
<1> QED BY <1>1, <1>2, <1>4, <1>5

\* One more assumption leaves the earlier marks.
LEMMA PushedMarks ==
  ASSUME Inv, Inv', NEW a \in Lit \cup {0}, assumptions' = Append(assumptions, a)
  PROVE  /\ Len(assumptions) \in Nat /\ Len(assumptions') = Len(assumptions) + 1
         /\ \A n \in 1..Len(assumptions) : assumptions'[n] = assumptions[n]
         /\ assumptions'[Len(assumptions) + 1] = a
         /\ Marks' = Append(Marks, IF a = 0 THEN Interface!Mark(Len(held)) ELSE Len(held) + 1)
<1>1. PICK s, t : s \in Seq(Lit \cup {0}) /\ s = assumptions /\ t = assumptions'
  BY DEF Inv, TypeOK
<1>2. t = Append(s, a)
  BY <1>1
<1>3. PICK N : N \in Nat /\ N = Len(s) /\ Len(t) = N + 1 /\ t[N + 1] = a /\ \A n \in 1..N : t[n] = s[n]
  BY ONLY <1>1, <1>2, a \in Lit \cup {0}
<1>4. N = Len(held)
  BY <1>1, <1>3, AssumedFacts
<1>5. (Inv => /\ Len(assumptions) \in Nat /\ Marks \in Seq(Nat) /\ Len(Marks) = Len(assumptions)
              /\ \A n \in 1..Len(assumptions) : Marks[n] = Greatest(Nonzero(n)) /\ Marks[n] \in 0..n)'
  BY MarksState, PTL
<1>6. PICK M, Q : /\ M = Marks /\ M \in Seq(Nat) /\ Len(M) = N /\ Q = Marks' /\ Q \in Seq(Nat) /\ Len(Q) = N + 1
                  /\ \A n \in 1..N : M[n] = Greatest(Nonzero(n))
                  /\ \A n \in 1..(N + 1) : Q[n] = Greatest(Nonzero(n)') /\ Q[n] \in 0..n
  <2>1. /\ Marks' \in Seq(Nat) /\ Len(Marks') = N + 1
        /\ \A n \in 1..(N + 1) : Marks'[n] = Greatest(Nonzero(n)') /\ Marks'[n] \in 0..n
    BY <1>1, <1>3, <1>5
  <2>2. Marks \in Seq(Nat) /\ Len(Marks) = N /\ \A n \in 1..N : Marks[n] = Greatest(Nonzero(n))
    BY <1>1, <1>3, MarksState
  <2> QED BY <2>1, <2>2
<1>7. ASSUME NEW n \in 1..N PROVE Q[n] = M[n]
  <2>1. \A k \in 1..n : k \in 1..N
    BY <1>3
  <2>2. n \in 1..(N + 1)
    BY <1>3
  <2>3. Nonzero(n)' = Nonzero(n)
    BY <1>1, <1>3, <2>1 DEF Nonzero
  <2> QED BY <1>6, <2>2, <2>3
<1>8. Q[N + 1] = IF a = 0 THEN Interface!Mark(Len(held)) ELSE Len(held) + 1
  <2>0. Q[N + 1] = Greatest(Nonzero(N + 1)') /\ N + 1 \in 1..(N + 1)
    BY <1>3, <1>6
  <2>1. CASE a = 0
    <3>1. Nonzero(N + 1)' = Nonzero(N)
      <4>1. \A k \in 1..(N + 1) : k \in 1..N \/ k = N + 1
        BY <1>3
      <4>2. \A k \in 1..N : k \in 1..(N + 1)
        BY <1>3
      <4> QED BY <1>1, <1>3, <2>1, <4>1, <4>2 DEF Nonzero
    <3>2. Greatest(Nonzero(N)) = Interface!Mark(Len(held))
      BY <1>1, <1>3, AssumedFacts, TopMark
    <3> QED BY <2>0, <2>1, <3>1, <3>2
  <2>2. CASE a # 0
    <3>1. N + 1 \in Nonzero(N + 1)'
      BY <1>1, <1>3, <2>0, <2>2 DEF Nonzero
    <3>2. Nonzero(N + 1)' \in SUBSET (0..(N + 1)) /\ N + 1 \in Nat
      BY <1>3 DEF Nonzero
    <3>3. PICK S : S = Nonzero(N + 1)'
      OBVIOUS
    <3>4. Greatest(S) \in S /\ \A n \in S : n <= Greatest(S)
      BY <3>1, <3>2, <3>3, GreatestFacts
    <3>5. Greatest(S) = N + 1
      BY <1>3, <3>1, <3>2, <3>3, <3>4
    <3> QED BY <1>4, <2>0, <2>2, <3>3, <3>5
  <2> QED BY <2>1, <2>2
<1>9. Q = Append(M, Q[N + 1])
  <2>1. PICK x : x = Q[N + 1] /\ x \in Nat
    BY <1>3, <1>6
  <2>2. PICK R : R = Append(M, x)
    OBVIOUS
  <2>3. R \in Seq(Nat) /\ Len(R) = N + 1 /\ R[N + 1] = x /\ \A n \in 1..N : R[n] = M[n]
    BY ONLY <1>3, <1>6, <2>1, <2>2
  <2>4. \A n \in 1..(N + 1) : n \in 1..N \/ n = N + 1
    BY <1>3
  <2>5. \A n \in 1..(N + 1) : Q[n] = R[n]
    BY <1>7, <2>1, <2>3, <2>4
  <2>6. Q = R
    BY <1>6, <2>3, <2>5, SeqEqual
  <2> QED BY <2>1, <2>2, <2>6
<1> QED BY <1>1, <1>3, <1>4, <1>6, <1>8, <1>9

\* One more assumption leaves what is assumed below, unless it is there already.
LEMMA PushedKeeps ==
  ASSUME Inv, Inv', NEW a \in Lit \cup {0}, assumptions' = Append(assumptions, a),
         \A k \in 1..Bottom : trail'[k] = trail[k] /\ trail[k].lit # a, unit_facts' = Cleared
  PROVE  RootStaysTo(Bottom)
<1>1. PICK N : N \in Nat /\ N = Len(assumptions) /\ DOMAIN assumptions = 1..N
  BY AssumedFacts
<1>2. DOMAIN assumptions' = 1..(N + 1)
  <2>1. assumptions' \in Seq(Lit \cup {0})
    BY DEF Inv, TypeOK
  <2>2. Len(assumptions') = N + 1
    BY <1>1, PushedMarks
  <2> QED BY <2>1, <2>2
<1>3. ASSUME NEW k \in 1..Bottom PROVE AssumedAt(k)' = AssumedAt(k)
  <2>1. \A j \in 1..k : j \in 1..Bottom
    BY BottomState
  <2>2. \A j \in 1..k : trail'[j] = trail[j] /\ trail[j].lit # a
    BY <2>1
  <2>3. \A n \in 1..(N + 1) : n \in 1..N \/ n = N + 1
    BY <1>1
  <2>4. \A n \in 1..N : n \in 1..(N + 1) /\ assumptions'[n] = assumptions[n]
    BY <1>1, PushedMarks
  <2>5. assumptions'[N + 1] = a
    BY <1>1, PushedMarks
  <2>6. AssumedAt(k)' = {n \in 1..(N + 1) : \E j \in 1..k : trail'[j].reason = NULL /\ trail'[j].lit = assumptions'[n]}
    BY <1>2 DEF AssumedAt
  <2>7. AssumedAt(k) = {n \in 1..N : \E j \in 1..k : trail[j].reason = NULL /\ trail[j].lit = assumptions[n]}
    BY <1>1 DEF AssumedAt
  <2>8. \A n : n \in AssumedAt(k)' <=> n \in AssumedAt(k)
    BY <2>2, <2>3, <2>4, <2>5, <2>6, <2>7
  <2> QED BY <2>8
<1>4. \A k \in 1..Bottom : unit_facts'[VarOf(trail[k].lit)] = unit_facts[VarOf(trail[k].lit)]
  BY NotAbove DEF Cleared
<1> QED BY <1>3, <1>4 DEF RootStaysTo

\* An assumption that level 0 says already, or that it gains.
LEMMA InterfaceAssumes ==
  ASSUME Inv, Inv', NEW p \in Queries, PushAssumption(p), ~Refuses(p)
  PROVE  Interface!PushAssumption(p)
<1>1. p \in Lit /\ -p \notin Interface!RootLits
  <2>1. p \in Lit
    BY ClientAssumption
  <2> QED BY <2>1, LevelZeroLits DEF Refuses
<1>2. /\ UNCHANGED <<formula, lost>> /\ pc = "idle" /\ pc' = "idle" /\ answer' = "none" /\ asked' = {}
      /\ held' = Append(held, p) /\ unit_facts' = Cleared
  BY DEF PushAssumption, BacktrackTo, Cleared
<1>3. CASE IsTrue(LevelZero, p)
  <2>1. trail' = LevelZero /\ assumptions' = Append(assumptions, 0)
    BY <1>3 DEF PushAssumption, BacktrackTo, IsUnknown, Recorded
  <2>2. \A k \in 1..Bottom : trail'[k] = trail[k] /\ trail[k].lit # 0
    BY <2>1, InvBottom, NotAbove, LitFacts
  <2>3. RootStaysTo(Bottom)
    BY <1>2, <2>1, <2>2, PushedKeeps
  <2>4. Bottom' = Bottom
    <3>1. Len(trail') = Bottom /\ Bottom \in Nat /\ \A k \in 1..Bottom : trail'[k].level = 0
      BY <2>1, InvBottom, NotAbove
    <3> QED BY <3>1, NextBottom
  <2>5. Root' = Root
    BY <2>3, <2>4, RootSame
  <2>6. Marks' = Append(Marks, Interface!Mark(Len(held)))
    BY <2>1, PushedMarks
  <2>7. p \in Interface!RootLits
    BY <1>1, <1>3, LevelZeroLits
  <2> QED BY <1>1, <1>2, <2>5, <2>6, <2>7 DEF Interface!PushAssumption
<1>4. CASE ~IsTrue(LevelZero, p)
  <2>0. IsUnknown(LevelZero, p)
    BY <1>4 DEF IsUnknown, Refuses
  <2>1. PICK s, e : /\ s = LevelZero /\ s \in Trails /\ Len(s) = Bottom /\ e \in TrailEntry
                    /\ e = [lit |-> p, level |-> 0, reason |-> NULL, decision |-> FALSE]
    BY <1>1, InvBottom DEF TrailEntry, NULL
  <2>2. trail' = Append(s, e) /\ assumptions' = Append(assumptions, p)
    BY <1>4, <2>0, <2>1 DEF PushAssumption, BacktrackTo, Recorded
  <2>3. PICK b : b \in Nat /\ b = Bottom + 1 /\ b = Len(s) + 1
    BY <2>1, BottomState
  <2>4. b \in Nat /\ b = Bottom + 1
    BY <2>3
  <2>5. Len(Append(s, e)) = b /\ Append(s, e)[b] = e /\ \A k \in 1..Len(s) : Append(s, e)[k] = s[k]
    BY ONLY <2>1, <2>3 DEF Trails
  <2>6. \A k \in 1..Bottom : trail'[k] = trail[k] /\ trail[k].lit # p
    <3>1. \A k \in 1..Bottom : LevelZero[k] = trail[k] /\ k \in DOMAIN LevelZero
      BY InvBottom, TrailTypes
    <3>2. \A k \in 1..Bottom : trail[k].lit # p
      BY <1>4, <3>1 DEF IsTrue
    <3> QED BY <2>1, <2>2, <2>5, <3>1, <3>2
  <2>7. RootStaysTo(Bottom)
    BY <1>1, <1>2, <2>2, <2>6, PushedKeeps
  <2>8. Bottom' = b
    <3>1. \A k \in 1..b : k \in 1..Bottom \/ k = b
      BY <2>3, BottomState
    <3>2. \A k \in 1..b : trail'[k].level = 0
      BY <2>1, <2>2, <2>5, <2>6, <3>1, NotAbove
    <3>3. b <= Len(trail') /\ ~(b + 1 <= Len(trail'))
      BY <2>2, <2>3, <2>5
    <3> QED BY <2>4, <3>2, <3>3, NextBottom
  <2>9. Root' = Root \cup {Recorder(b)'}
    BY <2>4, <2>7, <2>8, RootPlus
  <2>10. Marks' = Append(Marks, Len(held) + 1)
    BY <1>1, <2>2, PushedMarks, LitFacts
  <2>11. Greatest(AssumedAt(b) \cup {0})' = Len(held) + 1
    <3>1. (Inv => Greatest(AssumedAt(Bottom) \cup {0}) = Interface!Mark(Len(held)))'
      BY TopMark, PTL
    <3>2. PICK N, M : N \in Nat /\ N = Len(held) /\ Len(held') = N + 1 /\ M = Marks /\ M \in Seq(Nat) /\ Len(M) = N
      <4>1. held \in Seq(Lit)
        BY DEF Inv, AssumptionsInOrder
      <4>2. PICK h : h = held /\ h \in Seq(Lit)
        BY <4>1
      <4>3. Len(Append(h, p)) = Len(h) + 1 /\ Len(h) \in Nat
        BY ONLY <4>2, <1>1
      <4> QED BY <1>2, <4>2, <4>3, MarksState, AssumedFacts
    <3>3. Append(M, N + 1)[N + 1] = N + 1
      BY ONLY <3>2
    <3>4. Marks'[N + 1] = N + 1
      BY <2>10, <3>2, <3>3
    <3>5. Interface!Mark(Len(held))' = N + 1
      BY <3>2, <3>4 DEF Interface!Mark
    <3> QED BY <2>8, <3>1, <3>2, <3>5 DEF AssumedAt
  <2>12. UnitOn(b)' = FALSE
    <3>1. (Inv => \A m \in 1..Bottom : UnitOn(m) <=> unit_facts[VarOf(trail[m].lit)] # <<>>)'
      BY UnitsState, PTL
    <3>2. b \in 1..b
      BY <2>3, BottomState
    <3>3. trail'[b].lit = p
      BY <2>1, <2>2, <2>5
    <3>4. unit_facts'[VarOf(p)] = <<>>
      <4>1. CASE VarOf(p) \in Above
        BY <1>1, <1>2, <4>1, LitFacts DEF Cleared
      <4>2. CASE VarOf(p) \notin Above
        <5>1. \A k \in 1..Bottom : VarOf(trail[k].lit) # VarOf(p)
          <6>1. \A k \in 1..Bottom : LevelZero[k] = trail[k] /\ k \in 1..Len(LevelZero)
            BY InvBottom
          <6> QED BY <1>1, <2>0, <2>1, <6>1, TrailsUnknown
        <5>2. \A k \in 1..Len(trail) : k \in 1..Bottom \/ k \in (Bottom + 1)..Len(trail)
          BY BottomState
        <5>3. \A k \in 1..Len(trail) : VarOf(trail[k].lit) # VarOf(p)
          BY <4>2, <5>1, <5>2 DEF Above
        <5>4. IsUnknown(trail, p)
          BY <1>1, <5>3, InvTrail, TrailsUnknown
        <5> QED BY <1>1, <1>2, <4>2, <5>4, UnknownFacts, LitFacts DEF Cleared
      <4> QED BY <4>1, <4>2
    <3>5. UnitOn(b)' <=> FALSE
      BY <2>8, <3>1, <3>2, <3>3, <3>4
    <3> QED BY <3>5 DEF UnitOn
  <2>13. Recorder(b)' = Interface!Entry(p, Len(held) + 1, FALSE)
    <3>1. trail'[b].lit = p
      BY <2>1, <2>2, <2>5
    <3>2. Recorder(b)' = [lit |-> trail'[b].lit, at |-> Greatest(AssumedAt(b) \cup {0})', unit |-> UnitOn(b)']
      BY DEF Recorder
    <3> QED BY <2>11, <2>12, <3>1, <3>2 DEF Interface!Entry
  <2>14. p \notin Interface!RootLits
    BY <1>1, <1>4, LevelZeroLits
  <2> QED BY <1>1, <1>2, <2>9, <2>10, <2>13, <2>14 DEF Interface!PushAssumption
<1> QED BY <1>3, <1>4

\* A position of the trail that a literal of a level-0 position has.
LEMMA OnePlace ==
  ASSUME Inv, NEW j \in 1..Len(trail), NEW k \in 1..Len(trail), trail[j].lit = trail[k].lit
  PROVE  j = k
BY InvTrail

\* An assumption that is popped is what ends the part of level 0 that stays.
LEMMA PoppedAssumed ==
  ASSUME Inv, NEW n \in 0..Bottom, NEW N \in Nat, N + 1 \in 1..Len(assumptions), assumptions[N + 1] # 0,
         n + 1 \in 1..Bottom, trail[n + 1].lit = assumptions[N + 1]
  PROVE  /\ \A k \in 1..n : AssumedAt(k) \subseteq 1..N
         /\ \A k \in (n + 1)..Bottom : N + 1 \in AssumedAt(k)
<1>1. PICK size : size \in Nat /\ size = Len(assumptions) /\ DOMAIN assumptions = 1..size
  BY AssumedFacts
<1>2. PICK b : b \in Nat /\ b = Bottom
  BY BottomState
<1>3. \A k \in 1..b : k \in 1..Len(trail)
  BY <1>2, NotAbove
<1>4. ASSUME NEW q \in 1..size, assumptions[q] # 0
      PROVE  \E k \in 1..Len(trail) : /\ trail[k].lit = assumptions[q] /\ trail[k].reason = NULL
                                      /\ \A m \in 1..(q - 1) : \E j \in 1..(k - 1) : trail[j].lit = held[m]
  <2>1. PICK k \in DOMAIN trail : /\ At(k, assumptions[q]) /\ trail[k].reason = NULL
                                  /\ \A m \in 1..(q - 1) : \E j \in 1..(k - 1) : At(j, held[m])
    BY <1>1, <1>4 DEF Inv, AssumptionsInOrder
  <2>2. k \in 1..Len(trail)
    BY InvTrail
  <2> QED BY <2>1, <2>2 DEF At
<1>5. ASSUME NEW k \in 1..n PROVE AssumedAt(k) \subseteq 1..N
  <2>1. ASSUME NEW q \in AssumedAt(k), ~(q \in 1..N) PROVE FALSE
    <3>1. PICK j \in 1..k : trail[j].lit = assumptions[q]
      BY DEF AssumedAt
    <3>2. q \in 1..size /\ q >= N + 1 /\ j \in 1..Len(trail) /\ j <= n
      <4>1. q \in 1..size /\ j \in 1..b
        BY <1>1, <1>2 DEF AssumedAt
      <4> QED BY <1>1, <1>2, <1>3, <2>1, <4>1
    <3>3. assumptions[q] # 0
      BY <3>1, <3>2, InvTrail, LitFacts
    <3>4. PICK e \in 1..Len(trail) : /\ trail[e].lit = assumptions[q]
                                     /\ \A m \in 1..(q - 1) : \E g \in 1..(e - 1) : trail[g].lit = held[m]
      BY <1>4, <3>2, <3>3
    <3>5. e = j
      BY <3>1, <3>2, <3>4, OnePlace
    <3>6. n + 1 \in 1..Len(trail)
      BY <1>2, <1>3
    <3>7. CASE q = N + 1
      <4>1. j = n + 1
        BY <3>1, <3>2, <3>6, <3>7, OnePlace
      <4> QED BY <1>2, <3>2, <4>1
    <3>8. CASE q # N + 1
      <4>1. N + 1 \in 1..(q - 1)
        BY <1>1, <3>2, <3>8
      <4>2. PICK g \in 1..(e - 1) : trail[g].lit = held[N + 1]
        BY <3>4, <4>1
      <4>3. held[N + 1] = assumptions[N + 1]
        <5>1. N + 1 \in DOMAIN held
          <6>1. held \in Seq(Lit) /\ Len(held) = size
            BY <1>1 DEF Inv, AssumptionsInOrder
          <6> QED BY <1>1, <6>1
        <5> QED BY <5>1 DEF Inv, AssumptionsInOrder
      <4>4. g \in 1..Len(trail) /\ g <= n
        <5>1. Len(trail) \in Nat
          BY InvTrail
        <5> QED BY <1>2, <3>2, <3>5, <5>1
      <4>5. g = n + 1
        BY <3>6, <4>2, <4>3, <4>4, OnePlace
      <4> QED BY <1>2, <4>4, <4>5
    <3> QED BY <3>7, <3>8
  <2> QED BY <2>1
<1>6. ASSUME NEW k \in (n + 1)..Bottom PROVE N + 1 \in AssumedAt(k)
  <2>1. PICK e \in 1..Len(trail) : trail[e].lit = assumptions[N + 1] /\ trail[e].reason = NULL
    BY <1>1, <1>4
  <2>2. n + 1 \in 1..Len(trail) /\ n + 1 \in 1..k
    BY <1>2, <1>3
  <2>3. e = n + 1
    BY <2>1, <2>2, OnePlace
  <2> QED BY <1>1, <2>1, <2>2, <2>3 DEF AssumedAt
<1> QED BY <1>5, <1>6

\* What is assumed at a position that stays, when later assumptions go.
LEMMA PoppedAt ==
  ASSUME Inv, Inv', NEW N \in Nat, N <= Len(assumptions), assumptions' = SubSeq(assumptions, 1, N),
         NEW k \in 1..Bottom, \A j \in 1..k : trail'[j] = trail[j], AssumedAt(k) \subseteq 1..N
  PROVE  AssumedAt(k)' = AssumedAt(k)
<1>1. PICK s, t : /\ s \in Seq(Lit \cup {0}) /\ s = assumptions /\ t = SubSeq(s, 1, N) /\ t = assumptions'
                  /\ N <= Len(s)
  BY DEF Inv, TypeOK
<1>2. /\ DOMAIN s = 1..Len(s) /\ DOMAIN t = 1..N /\ \A q \in 1..N : t[q] = s[q] /\ q \in 1..Len(s)
  <2>1. N \in 0..Len(s) /\ Len(s) \in Nat
    BY <1>1
  <2>2. t \in Seq(Lit \cup {0}) /\ Len(t) = N /\ \A q \in 1..N : t[q] = s[q]
    BY <1>1, <2>1, PrefixFacts
  <2> QED BY <1>1, <2>1, <2>2
<1>3. AssumedAt(k) = {q \in 1..Len(s) : \E j \in 1..k : trail[j].reason = NULL /\ trail[j].lit = s[q]}
  BY <1>1, <1>2 DEF AssumedAt
<1>4. AssumedAt(k)' = {q \in 1..N : \E j \in 1..k : trail'[j].reason = NULL /\ trail'[j].lit = t[q]}
  BY <1>1, <1>2 DEF AssumedAt
<1>5. \A q : q \in AssumedAt(k)' <=> q \in AssumedAt(k)
  BY <1>2, <1>3, <1>4
<1> QED BY <1>5

\* The marks of the assumptions that stay.
LEMMA PoppedMarks ==
  ASSUME Inv, Inv', NEW N \in Nat, N <= Len(assumptions), assumptions' = SubSeq(assumptions, 1, N)
  PROVE  /\ Len(assumptions') = N /\ \A n \in 1..N : assumptions'[n] = assumptions[n]
         /\ Marks' = SubSeq(Marks, 1, N)
         /\ \A n \in 1..N : Marks'[n] = Marks[n]
<1>1. PICK s, t : /\ s \in Seq(Lit \cup {0}) /\ s = assumptions /\ t = SubSeq(s, 1, N) /\ t = assumptions'
                  /\ N \in 0..Len(s) /\ Len(s) \in Nat
  <2>1. PICK s : s \in Seq(Lit \cup {0}) /\ s = assumptions
    BY DEF Inv, TypeOK
  <2>2. Len(s) \in Nat
    BY <2>1
  <2>3. N \in 0..Len(s)
    BY <2>1, <2>2
  <2> QED BY <2>1, <2>2, <2>3
<1>2. Len(t) = N /\ \A q \in 1..N : t[q] = s[q]
  BY <1>1, PrefixFacts
<1>3. (Inv => /\ Len(assumptions) \in Nat /\ Marks \in Seq(Nat) /\ Len(Marks) = Len(assumptions)
              /\ \A n \in 1..Len(assumptions) : Marks[n] = Greatest(Nonzero(n)) /\ Marks[n] \in 0..n)'
  BY MarksState, PTL
<1>4. PICK M, Q : /\ M = Marks /\ M \in Seq(Nat) /\ Len(M) = Len(s) /\ Q = Marks' /\ Q \in Seq(Nat) /\ Len(Q) = N
                  /\ \A n \in 1..Len(s) : M[n] = Greatest(Nonzero(n))
                  /\ \A n \in 1..N : Q[n] = Greatest(Nonzero(n)')
  <2>1. /\ Marks' \in Seq(Nat) /\ Len(Marks') = N /\ \A n \in 1..N : Marks'[n] = Greatest(Nonzero(n)')
    BY <1>1, <1>2, <1>3
  <2>2. Marks \in Seq(Nat) /\ Len(Marks) = Len(s) /\ \A n \in 1..Len(s) : Marks[n] = Greatest(Nonzero(n))
    BY <1>1, MarksState
  <2> QED BY <2>1, <2>2
<1>5. ASSUME NEW n \in 1..N PROVE Q[n] = M[n]
  <2>1. n \in 1..Len(s) /\ \A k \in 1..n : k \in 1..N
    BY <1>1
  <2>2. Nonzero(n)' = Nonzero(n)
    BY <1>1, <1>2, <2>1 DEF Nonzero
  <2> QED BY <1>4, <2>1, <2>2
<1>6. SubSeq(M, 1, N) \in Seq(Nat) /\ Len(SubSeq(M, 1, N)) = N /\ \A n \in 1..N : SubSeq(M, 1, N)[n] = M[n]
  BY <1>1, <1>4, PrefixFacts
<1>7. Q = SubSeq(M, 1, N)
  <2>1. PICK R : R = SubSeq(M, 1, N)
    OBVIOUS
  <2>2. \A n \in 1..N : Q[n] = R[n]
    BY <1>5, <1>6, <2>1
  <2> QED BY <1>4, <1>6, <2>1, <2>2, SeqEqual
<1> QED BY <1>1, <1>2, <1>4, <1>5, <1>7

\* What is implied again when assumptions are popped: the units above position n.
LEMMA PoppedUnits ==
  ASSUME Inv, pc = "idle", NEW n \in 0..Bottom, trail' = Reimplied(SubSeq(trail, 1, n), Collected(n))
  PROVE  /\ trail' \in Trails /\ n \in Nat /\ n <= Len(trail') /\ \A k \in 1..n : trail'[k] = trail[k]
         /\ \A k \in (n + 1)..Len(trail') : trail'[k].level = 0 /\ trail'[k].reason # NULL
         /\ \A k \in (n + 1)..Len(trail') : \E m \in (n + 1)..Bottom : UnitOn(m) /\ trail'[k].lit = trail[m].lit
         /\ \A m \in (n + 1)..Bottom : UnitOn(m) =>
              \E k \in (n + 1)..Len(trail') : trail'[k].lit = trail[m].lit
<1>0. PICK b : b \in Nat /\ b = Bottom /\ n \in 0..b /\ b <= Len(trail)
  BY BottomState
<1>1. PICK t : t \in Trails /\ t = SubSeq(trail, 1, n) /\ Len(t) = n /\ \A k \in 1..n : t[k] = trail[k]
  <2>1. n \in 0..Len(trail) /\ trail \in Seq(TrailEntry)
    BY <1>0, InvTrail DEF Trails
  <2>2. SubSeq(trail, 1, n) \in Seq(TrailEntry) /\ Len(SubSeq(trail, 1, n)) = n /\ \A k \in 1..n : SubSeq(trail, 1, n)[k] = trail[k]
    BY <2>1, PrefixFacts
  <2> QED BY <2>2 DEF Trails
<1>2. PICK fs : fs \in Seq(DOMAIN data) /\ fs = Collected(n)
  BY RestoredFacts
<1>3. t \in Trails /\ fs \in Seq(DOMAIN data) /\ TypeOK
  BY <1>1, <1>2 DEF Inv
<1>4. PICK u : u = Reimplied(t, fs) /\ u = trail'
  BY <1>1, <1>2
<1>5. /\ RootGrown(t, u, Range(fs))
      /\ \A id \in Range(fs) : Len(data[id]) = 1 => ~IsUnknown(u, data[id][1])
  BY <1>3, <1>4, ReimpliedFacts
<1>6. /\ \A id \in Range(fs) : \E m \in (n + 1)..b : id \in Range(unit_facts[VarOf(trail[m].lit)])
      /\ \A m \in (n + 1)..b : Range(unit_facts[VarOf(trail[m].lit)]) \subseteq Range(fs)
  BY <1>0, <1>2, <1>3, CollectedFacts
<1>7. \A m \in (n + 1)..b : m \in 1..Bottom /\ m \in 1..Len(trail) /\ ~(m \in 1..n)
  BY <1>0
<1>8. /\ u \in Trails /\ n <= Len(u) /\ n \in Nat /\ Len(u) \in Nat /\ DOMAIN u = 1..Len(u)
      /\ \A k \in 1..n : u[k] = trail[k]
      /\ \A k \in (n + 1)..Len(u) : ImpliedAtRoot(u[k]) /\ u[k].reason \in Range(fs)
  <2>1. u \in Trails
    BY <1>5 DEF RootGrown
  <2> QED BY <1>0, <1>1, <1>5, <2>1 DEF RootGrown, Trails
<1>9. ASSUME NEW k \in (n + 1)..Len(u)
      PROVE  \E m \in (n + 1)..b : UnitOn(m) /\ u[k].lit = trail[m].lit
  <2>1. PICK m \in (n + 1)..b : u[k].reason \in Range(unit_facts[VarOf(trail[m].lit)])
    BY <1>6, <1>8
  <2>2. data[u[k].reason] = <<u[k].lit>>
    BY <1>8 DEF ImpliedAtRoot
  <2>3. data[u[k].reason] = <<trail[m].lit>>
    BY <1>7, <2>1, RootUnits
  <2>4. <<u[k].lit>>[1] = <<trail[m].lit>>[1]
    BY <2>2, <2>3
  <2>5. u[k].lit = trail[m].lit
    BY <2>4
  <2>6. UnitOn(m)
    BY <2>1, <2>3 DEF UnitOn
  <2> QED BY <2>5, <2>6
<1>10. ASSUME NEW m \in (n + 1)..b, UnitOn(m)
       PROVE  \E k \in (n + 1)..Len(u) : u[k].lit = trail[m].lit
  <2>1. PICK id \in Range(unit_facts[VarOf(trail[m].lit)]) : data[id] = <<trail[m].lit>>
    BY <1>10 DEF UnitOn
  <2>2. id \in Range(fs) /\ Len(data[id]) = 1 /\ data[id][1] = trail[m].lit
    BY <1>6, <2>1
  <2>3. ~IsUnknown(u, trail[m].lit)
    BY <1>5, <2>2
  <2>4. PICK k \in 1..Len(u) : u[k].lit = trail[m].lit \/ u[k].lit = -trail[m].lit
    BY <1>8, <2>3 DEF IsUnknown, IsTrue, IsFalse
  <2>5. PICK e \in 1..Len(trail) : u[k].lit = trail[e].lit /\ (k \in 1..n => e = k)
    <3>1. CASE k \in 1..n
      BY <1>0, <1>8, <3>1
    <3>2. CASE ~(k \in 1..n)
      <4>1. k \in (n + 1)..Len(u)
        BY <1>8, <3>2
      <4> QED BY <1>7, <1>9, <3>2, <4>1
    <3> QED BY <3>1, <3>2
  <2>6. trail[m].lit \in Lit /\ trail[e].lit \in Lit
    BY <1>7, InvTrail
  <2>7. VarOf(trail[e].lit) = VarOf(trail[m].lit)
    BY <2>4, <2>5, <2>6, LitFacts, SMTT(20)
  <2>8. e = m
    BY <1>7, <2>7, InvTrail
  <2>9. k \in (n + 1)..Len(u)
    <3>1. ~(k \in 1..n)
      BY <1>7, <2>5, <2>8
    <3> QED BY <1>8, <3>1
  <2> QED BY <2>5, <2>8, <2>9
<1>11. \A k \in (n + 1)..Len(u) : u[k].level = 0 /\ u[k].reason # NULL
  BY <1>3, <1>8, DataTypes DEF ImpliedAtRoot, NULL
<1> QED BY <1>0, <1>4, <1>8, <1>9, <1>10, <1>11

\* What Incremental keeps of level 0, and what it implies again.
LEMMA PoppedRecords ==
  ASSUME Inv, NEW n \in 0..Bottom, NEW N \in Nat, N + 1 \in 1..Len(assumptions), assumptions[N + 1] # 0,
         n + 1 \in 1..Bottom, trail[n + 1].lit = assumptions[N + 1]
  PROVE  /\ {r \in Root : r.at <= N} = {Recorder(k) : k \in 1..n}
         /\ Root \ {r \in Root : r.at <= N} = {Recorder(k) : k \in (n + 1)..Bottom}
<1>0. PICK b : b \in Nat /\ b = Bottom /\ n \in 0..b
  BY BottomState
<1>1. PICK size : size \in Nat /\ size = Len(assumptions) /\ N + 1 \in 1..size
  BY AssumedFacts
<1>2. /\ \A k \in 1..n : AssumedAt(k) \subseteq 1..N
      /\ \A k \in (n + 1)..Bottom : N + 1 \in AssumedAt(k)
  BY PoppedAssumed
<1>3. ASSUME NEW k \in 1..n PROVE Recorder(k).at <= N
  <2>1. PICK S : S = AssumedAt(k) \cup {0} /\ S \in SUBSET (0..N) /\ S # {}
    <3>1. AssumedAt(k) \subseteq 1..N
      BY <1>2
    <3>2. AssumedAt(k) \cup {0} \in SUBSET (0..N) /\ AssumedAt(k) \cup {0} # {}
      BY <3>1
    <3> QED BY <3>2
  <2>2. Greatest(S) \in S
    BY <2>1, GreatestFacts
  <2> QED BY <2>1, <2>2 DEF Recorder
<1>4. ASSUME NEW k \in (n + 1)..b PROVE ~(Recorder(k).at <= N)
  <2>1. PICK S : S = AssumedAt(k) \cup {0} /\ S \in SUBSET (0..size) /\ S # {} /\ N + 1 \in S
    <3>1. AssumedAt(k) \cup {0} \in SUBSET (0..size) /\ N + 1 \in AssumedAt(k)
      BY <1>0, <1>1, <1>2, AssumedFacts
    <3>2. N + 1 \in AssumedAt(k) \cup {0} /\ AssumedAt(k) \cup {0} # {}
      BY <3>1
    <3> QED BY <3>1, <3>2
  <2>2. Greatest(S) \in S /\ N + 1 <= Greatest(S)
    BY <1>1, <2>1, GreatestFacts
  <2>3. Recorder(k).at = Greatest(S)
    BY <2>1 DEF Recorder
  <2>4. Greatest(S) \in 0..size
    BY <2>1, <2>2
  <2> QED BY <1>1, <2>2, <2>3, <2>4
<1>5. Root = {Recorder(k) : k \in 1..b}
  BY <1>0, RootRecords
<1>6. \A k \in 1..b : k \in 1..n \/ k \in (n + 1)..b
  BY <1>0
<1>7. \A k \in 1..n : k \in 1..b
  BY <1>0
<1>8. \A k \in (n + 1)..b : k \in 1..b
  BY <1>0
<1>9. {r \in Root : r.at <= N} = {Recorder(k) : k \in 1..n}
  <2>1. ASSUME NEW r \in Root, r.at <= N PROVE r \in {Recorder(k) : k \in 1..n}
    BY <1>4, <1>5, <1>6, <2>1
  <2>2. ASSUME NEW k \in 1..n PROVE Recorder(k) \in Root /\ Recorder(k).at <= N
    BY <1>3, <1>5, <1>7
  <2> QED BY <2>1, <2>2
<1>10. Root \ {r \in Root : r.at <= N} = {Recorder(k) : k \in (n + 1)..b}
  <2>1. ASSUME NEW r \in Root, ~(r.at <= N) PROVE r \in {Recorder(k) : k \in (n + 1)..b}
    BY <1>3, <1>5, <1>6, <2>1
  <2>2. ASSUME NEW k \in (n + 1)..b PROVE Recorder(k) \in Root /\ ~(Recorder(k).at <= N)
    BY <1>4, <1>5, <1>8
  <2> QED BY <2>1, <2>2
<1> QED BY <1>0, <1>9, <1>10

\* Level 0 after assumptions are popped down to one that is on the trail.
LEMMA PoppedRoot ==
  ASSUME Inv, Inv', pc = "idle", NEW n \in 0..Bottom, NEW N \in Nat, N + 1 \in 1..Len(assumptions),
         assumptions[N + 1] # 0, n + 1 \in 1..Bottom, trail[n + 1].lit = assumptions[N + 1],
         PoppedTo(n), assumptions' = SubSeq(assumptions, 1, N), Len(held') = N,
         trail' = Reimplied(SubSeq(trail, 1, n), Collected(n)),
         NEW below, below = {r \in Root : r.at <= N}, NEW units, units = {r.lit : r \in {e \in Root \ below : e.unit}}
  PROVE  Root' = below \cup {Interface!Entry(l, Interface!Mark(N), FALSE) : l \in units}
<1>0. PICK b, L : b \in Nat /\ b = Bottom /\ n \in 0..b /\ b <= Len(trail) /\ L \in Nat /\ L = Len(trail') /\ n <= L /\ n \in Nat
  <2>1. trail' \in Trails /\ n \in Nat /\ n <= Len(trail')
    BY PoppedUnits
  <2>2. Len(trail') \in Nat
    BY <2>1 DEF Trails
  <2> QED BY <2>1, <2>2, BottomState
<1>1. /\ \A k \in 1..n : trail'[k] = trail[k]
      /\ \A k \in (n + 1)..L : trail'[k].level = 0 /\ trail'[k].reason # NULL
      /\ \A k \in (n + 1)..L : \E m \in (n + 1)..b : UnitOn(m) /\ trail'[k].lit = trail[m].lit
      /\ \A m \in (n + 1)..b : UnitOn(m) => \E k \in (n + 1)..L : trail'[k].lit = trail[m].lit
  BY <1>0, PoppedUnits
<1>2. \A k \in 1..n : k \in 1..Bottom
  BY <1>0
<1>3. \A k \in 1..L : k \in 1..n \/ k \in (n + 1)..L
  BY <1>0
<1>4. Bottom' = L
  <2>1. \A k \in 1..L : trail'[k].level = 0
    BY <1>1, <1>2, <1>3, NotAbove
  <2>2. L \in Nat /\ L <= Len(trail') /\ ~(L + 1 <= Len(trail'))
    BY <1>0
  <2> QED BY <2>1, <2>2, NextBottom
<1>5. RootStaysTo(n)
  <2>1. \A k \in 1..n : AssumedAt(k) \subseteq 1..N
    BY PoppedAssumed
  <2>2. ASSUME NEW k \in 1..n PROVE AssumedAt(k)' = AssumedAt(k)
    <3>1. \A j \in 1..k : trail'[j] = trail[j]
      BY <1>0, <1>1
    <3>2. N <= Len(assumptions)
      BY AssumedFacts
    <3> QED BY <1>2, <2>1, <3>1, <3>2, PoppedAt
  <2>3. ASSUME NEW k \in 1..n
        PROVE  unit_facts'[VarOf(trail[k].lit)] = unit_facts[VarOf(trail[k].lit)]
    <3>1. VarOf(trail[k].lit) \in Var /\ VarOf(trail[k].lit) \notin Above
      BY <1>2, NotAbove
    <3>2. VarOf(trail[k].lit) \notin Popped(n)
      <4>1. ASSUME NEW m \in (n + 1)..Bottom PROVE VarOf(trail[m].lit) # VarOf(trail[k].lit)
        <5>1. m \in 1..Len(trail) /\ k \in 1..Len(trail) /\ m # k
          BY <1>0
        <5> QED BY <5>1, InvTrail
      <4> QED BY <4>1 DEF Popped
    <3> QED BY <3>1, <3>2 DEF PoppedTo
  <2> QED BY <1>1, <2>2, <2>3 DEF RootStaysTo
<1>6. \A k \in 1..n : Recorder(k)' = Recorder(k)
  <2>1. \A k \in 1..n : k \in 1..Bottom'
    BY <1>0, <1>4
  <2> QED BY <1>2, <1>5, <2>1, RecorderSame
<1>7. ASSUME NEW k \in (n + 1)..L
      PROVE  Recorder(k)' = Interface!Entry(trail'[k].lit, Interface!Mark(N), FALSE)
  <2>1. AssumedAt(k)' = AssumedAt(Bottom)'
    <3>1. \A j \in 1..L : j \in 1..k \/ j \in (n + 1)..L
      BY <1>0
    <3>2. \A j \in 1..k : j \in 1..L
      BY <1>0
    <3>3. \A j \in 1..L : trail'[j].reason = NULL => j \in 1..k
      BY <1>1, <3>1
    <3>4. AssumedAt(L)' = {q \in DOMAIN assumptions' : \E j \in 1..L : trail'[j].reason = NULL /\ trail'[j].lit = assumptions'[q]}
      BY DEF AssumedAt
    <3>5. AssumedAt(k)' = {q \in DOMAIN assumptions' : \E j \in 1..k : trail'[j].reason = NULL /\ trail'[j].lit = assumptions'[q]}
      BY DEF AssumedAt
    <3>6. AssumedAt(k)' = AssumedAt(L)'
      BY <3>2, <3>3, <3>4, <3>5
    <3> QED BY <1>4, <3>6 DEF AssumedAt
  <2>2. Greatest(AssumedAt(k) \cup {0})' = Interface!Mark(N)
    <3>1. (Inv => Greatest(AssumedAt(Bottom) \cup {0}) = Interface!Mark(Len(held)))'
      BY TopMark, PTL
    <3>2. Interface!Mark(Len(held))' = Interface!Mark(N)
      <4>1. N <= Len(assumptions)
        BY AssumedFacts
      <4>2. \A q \in 1..N : Marks'[q] = Marks[q]
        BY <4>1, PoppedMarks
      <4>3. N # 0 => N \in 1..N
        OBVIOUS
      <4> QED BY <4>2, <4>3 DEF Interface!Mark
    <3> QED BY <2>1, <3>1, <3>2
  <2>3. UnitOn(k)' = FALSE
    <3>1. (Inv => \A m \in 1..Bottom : UnitOn(m) <=> unit_facts[VarOf(trail[m].lit)] # <<>>)'
      BY UnitsState, PTL
    <3>2. k \in 1..L
      BY <1>0
    <3>3. PICK m \in (n + 1)..b : trail'[k].lit = trail[m].lit
      BY <1>1
    <3>4. VarOf(trail[m].lit) \in Var /\ VarOf(trail[m].lit) \in Popped(n)
      <4>1. m \in 1..Bottom /\ m \in (n + 1)..Bottom
        BY <1>0
      <4> QED BY <4>1, NotAbove DEF Popped
    <3>5. unit_facts'[VarOf(trail'[k].lit)] = <<>>
      BY <3>3, <3>4 DEF PoppedTo
    <3>6. UnitOn(k)' <=> FALSE
      BY <1>4, <3>1, <3>2, <3>5
    <3> QED BY <3>6 DEF UnitOn
  <2>4. Recorder(k)' = [lit |-> trail'[k].lit, at |-> Greatest(AssumedAt(k) \cup {0})', unit |-> UnitOn(k)']
    BY DEF Recorder
  <2> QED BY <2>2, <2>3, <2>4 DEF Interface!Entry
<1>8. below = {Recorder(k) : k \in 1..n} /\ Root \ below = {Recorder(k) : k \in (n + 1)..b}
  BY <1>0, PoppedRecords
<1>9. units = {trail[m].lit : m \in {k \in (n + 1)..b : UnitOn(k)}}
  <2>1. \A k : Recorder(k).lit = trail[k].lit /\ Recorder(k).unit = UnitOn(k)
    BY DEF Recorder
  <2>2. ASSUME NEW l \in units PROVE l \in {trail[m].lit : m \in {k \in (n + 1)..b : UnitOn(k)}}
    <3>1. PICK r \in Root \ below : r.unit /\ l = r.lit
      OBVIOUS
    <3>2. PICK m \in (n + 1)..b : r = Recorder(m)
      BY <1>8
    <3> QED BY <2>1, <3>1, <3>2
  <2>3. ASSUME NEW m \in (n + 1)..b, UnitOn(m) PROVE trail[m].lit \in units
    <3>1. Recorder(m) \in Root \ below /\ Recorder(m).unit
      BY <1>8, <2>1, <2>3
    <3> QED BY <2>1, <3>1
  <2> QED BY <2>2, <2>3
<1>10. {trail'[k].lit : k \in (n + 1)..L} = units
  <2>1. ASSUME NEW k \in (n + 1)..L PROVE trail'[k].lit \in units
    <3>1. PICK m \in (n + 1)..b : UnitOn(m) /\ trail'[k].lit = trail[m].lit
      BY <1>1
    <3> QED BY <1>9, <3>1
  <2>2. ASSUME NEW l \in units PROVE \E k \in (n + 1)..L : l = trail'[k].lit
    <3>1. PICK m \in (n + 1)..b : UnitOn(m) /\ l = trail[m].lit
      BY <1>9
    <3> QED BY <1>1, <3>1
  <2>3. {trail'[k].lit : k \in (n + 1)..L} \subseteq units
    BY <2>1
  <2>4. units \subseteq {trail'[k].lit : k \in (n + 1)..L}
    BY <2>2
  <2> QED BY <2>3, <2>4, Zenon
<1>11. Root' = {Recorder(k)' : k \in 1..L}
  <2>1. (Root = {Recorder(k) : k \in 1..Bottom})'
    BY RootRecords, PTL
  <2> QED BY <1>4, <2>1
<1>12. ASSUME NEW r \in Root' PROVE r \in below \cup {Interface!Entry(l, Interface!Mark(N), FALSE) : l \in units}
  <2>1. PICK k \in 1..L : r = Recorder(k)'
    BY <1>11
  <2>2. CASE k \in 1..n
    BY <1>6, <1>8, <2>1, <2>2
  <2>3. CASE k \in (n + 1)..L
    BY <1>7, <1>10, <2>1, <2>3
  <2> QED BY <1>3, <2>2, <2>3
<1>13. ASSUME NEW k \in 1..n PROVE Recorder(k) \in Root'
  <2>1. k \in 1..L
    BY <1>0
  <2> QED BY <1>6, <1>11, <2>1
<1>14. ASSUME NEW l \in units PROVE Interface!Entry(l, Interface!Mark(N), FALSE) \in Root'
  <2>1. PICK k \in (n + 1)..L : l = trail'[k].lit
    BY <1>10
  <2>2. k \in 1..L
    BY <1>0
  <2> QED BY <1>7, <1>11, <2>1, <2>2
<1> QED BY <1>8, <1>12, <1>13, <1>14

\* Level 0 after one assumption is popped that was not recorded.
LEMMA PoppedNothing ==
  ASSUME Inv, Inv', NEW N \in Nat, N + 1 = Len(assumptions), assumptions[N + 1] = 0, PoppedTo(Bottom),
         assumptions' = SubSeq(assumptions, 1, N), trail' = LevelZero
  PROVE  Root' = Root /\ {r \in Root : r.at <= N} = Root
<1>1. ASSUME NEW k \in 1..Bottom PROVE AssumedAt(k) \subseteq 1..N
  <2>1. ASSUME NEW q \in AssumedAt(k) PROVE q \in 1..N
    <3>1. PICK j \in 1..k : q \in DOMAIN assumptions /\ trail[j].lit = assumptions[q]
      BY DEF AssumedAt
    <3>2. j \in 1..Bottom
      BY BottomState
    <3>3. q \in 1..(N + 1) /\ q # N + 1
      BY <3>1, <3>2, AssumedFacts, NotAbove, LitFacts
    <3> QED BY <3>3
  <2> QED BY <2>1
<1>2. \A k \in 1..Bottom : trail'[k] = trail[k]
  BY InvBottom
<1>3. ASSUME NEW k \in 1..Bottom PROVE AssumedAt(k)' = AssumedAt(k)
  <2>1. \A j \in 1..k : trail'[j] = trail[j]
    BY <1>2, BottomState
  <2>2. N <= Len(assumptions)
    BY AssumedFacts
  <2> QED BY <1>1, <2>1, <2>2, PoppedAt
<1>4. \A k \in 1..Bottom : unit_facts'[VarOf(trail[k].lit)] = unit_facts[VarOf(trail[k].lit)]
  <2>1. Popped(Bottom) = {}
    BY BottomState DEF Popped
  <2> QED BY <2>1, NotAbove DEF PoppedTo
<1>5. RootStaysTo(Bottom)
  BY <1>2, <1>3, <1>4 DEF RootStaysTo
<1>6. Bottom' = Bottom
  <2>1. Len(trail') = Bottom /\ Bottom \in Nat /\ \A k \in 1..Bottom : trail'[k].level = 0
    BY InvBottom, NotAbove
  <2> QED BY <2>1, NextBottom
<1>7. ASSUME NEW k \in 1..Bottom PROVE Recorder(k).at <= N
  <2>1. PICK S : S = AssumedAt(k) \cup {0} /\ S \in SUBSET (0..N) /\ S # {}
    <3>1. AssumedAt(k) \subseteq 1..N
      BY <1>1
    <3>2. AssumedAt(k) \cup {0} \in SUBSET (0..N) /\ AssumedAt(k) \cup {0} # {}
      BY <3>1
    <3> QED BY <3>2
  <2>2. Greatest(S) \in S
    BY <2>1, GreatestFacts
  <2> QED BY <2>1, <2>2 DEF Recorder
<1> QED BY <1>5, <1>6, <1>7, RootSame, RootRecords

\* funcsatPopAssumptions is a call of Incremental.
LEMMA InterfacePops ==
  ASSUME Inv, Inv', NEW num \in 1..MaxAssumptions, PopAssumptions(num)
  PROVE  Interface!Next
<1>1. PICK n \in 0..Bottom :
        /\ PoppedTo(n) /\ PoppedFrom(n, Len(assumptions) - num) /\ Restores(n, Len(assumptions) - num)
        /\ num = 1 \/ \A k \in (Len(assumptions) - num + 1)..Len(assumptions) : assumptions[k] # 0
        /\ num \in 1..Len(assumptions) /\ assumptions' = SubSeq(assumptions, 1, Len(assumptions) - num)
        /\ held' = SubSeq(held, 1, Len(assumptions) - num)
  BY PopAssumptionsFacts
<1>2. PICK size, N : /\ size \in Nat /\ size = Len(assumptions) /\ size = Len(held) /\ N = size - num
                     /\ N \in Nat /\ num \in 1..size /\ N + 1 \in 1..size /\ N <= size
  BY <1>1, AssumedFacts
<1>3. N \in Nat /\ N + 1 \in 1..Len(assumptions) /\ N <= Len(assumptions) /\ assumptions' = SubSeq(assumptions, 1, N)
  BY <1>1, <1>2
<1>4. /\ pc = "idle" /\ pc' = "idle" /\ UNCHANGED <<formula, lost>> /\ answer' = "none" /\ asked' = {}
  BY DEF PopAssumptions
<1>5. Marks' = SubSeq(Marks, 1, N) /\ Len(assumptions') = N
  BY <1>3, PoppedMarks
<1>6. Len(held') = N
  <2>1. Len(assumptions') = Len(held')
    BY DEF Inv, AssumptionsInOrder
  <2> QED BY <1>5, <2>1
<1>7. num = 1 \/ \A k \in (size - num + 1)..size : Marks[k] = k
  <2>1. ASSUME NEW k \in (size - num + 1)..size, assumptions[k] # 0 PROVE Marks[k] = k
    <3>1. k \in 1..size /\ k \in Nat
      BY <1>2
    <3>2. Marks[k] = Greatest(Nonzero(k))
      BY <1>2, <3>1, MarksState
    <3>3. PICK S : S = Nonzero(k) /\ S \in SUBSET (0..k) /\ S # {} /\ k \in S
      <4>1. Nonzero(k) \in SUBSET (0..k) /\ Nonzero(k) # {} /\ k \in Nonzero(k)
        BY <2>1, <3>1 DEF Nonzero
      <4> QED BY <4>1
    <3>4. Greatest(S) \in S /\ k <= Greatest(S)
      BY <3>1, <3>3, GreatestFacts
    <3>5. Greatest(S) \in 0..k
      BY <3>3, <3>4
    <3> QED BY <3>1, <3>2, <3>3, <3>4, <3>5
  <2> QED BY <1>1, <1>2, <2>1
<1>8. PICK below, units : /\ below = {r \in Root : r.at <= N}
                          /\ units = {r.lit : r \in {e \in Root \ below : e.unit}}
  OBVIOUS
<1>9. Root' = below \cup {Interface!Entry(l, Interface!Mark(N), FALSE) : l \in units}
  <2>1. CASE assumptions[N + 1] = 0
    <3>1. n = Bottom /\ N + 1 = size
      BY <1>1, <1>2, <2>1 DEF PoppedFrom
    <3>2. trail' = LevelZero
      BY <1>1, <1>2, <2>1 DEF Restores
    <3>3. PoppedTo(Bottom)
      BY <1>1, <3>1
    <3>4. Root' = Root /\ below = Root
      BY <1>2, <1>3, <1>8, <2>1, <3>1, <3>2, <3>3, PoppedNothing
    <3>5. units = {}
      BY <1>8, <3>4
    <3> QED BY <3>4, <3>5
  <2>2. CASE assumptions[N + 1] # 0
    <3>1. n + 1 \in 1..Bottom /\ trail[n + 1].lit = assumptions[N + 1]
      BY <1>1, <1>2, <2>2 DEF PoppedFrom
    <3>2. trail' = Reimplied(SubSeq(trail, 1, n), Collected(n))
      BY <1>1, <1>2, <2>2 DEF Restores
    <3> QED BY <1>1, <1>3, <1>4, <1>6, <1>8, <2>2, <3>1, <3>2, PoppedRoot
  <2> QED BY <2>1, <2>2
<1>10. Interface!PopAssumptions(num)
  <2>1. held' = SubSeq(held, 1, N)
    BY <1>1, <1>2
  <2>2. num \in 1..Len(held) /\ (num = 1 \/ \A k \in (Len(held) - num + 1)..Len(held) : Marks[k] = k) /\ Len(held) - num = N
    BY <1>2, <1>7
  <2>3. Root' = LET low == {r \in Root : r.at <= N}
                    again == {r.lit : r \in {e \in Root \ low : e.unit}}
                IN low \cup {Interface!Entry(l, Interface!Mark(N), FALSE) : l \in again}
    BY <1>8, <1>9
  <2>4. Root' = LET low == {r \in Root : r.at <= Len(held) - num}
                    again == {r.lit : r \in {e \in Root \ low : e.unit}}
                IN low \cup {Interface!Entry(l, Interface!Mark(Len(held) - num), FALSE) : l \in again}
    BY <2>2, <2>3
  <2>5. held' = SubSeq(held, 1, Len(held) - num) /\ Marks' = SubSeq(Marks, 1, Len(held) - num)
    BY <1>5, <2>1, <2>2
  <2> QED BY <1>4, <2>2, <2>4, <2>5 DEF Interface!PopAssumptions
<1>11. num \in 1..Len(held)
  BY <1>2
<1> QED BY <1>10, <1>11 DEF Interface!Next

\* funcsatSolve is a call of Incremental.
LEMMA InterfaceSolves ==
  ASSUME Inv, Inv', Solve
  PROVE  Interface!Solve
<1>1. /\ pc = "idle" /\ asked' = Range(held) /\ UNCHANGED <<formula, held, lost, assumptions>>
      /\ \/ /\ conflictClause # NULL /\ data[conflictClause] = <<>> /\ answer' = "UNSAT" /\ pc' = pc
            /\ UNCHANGED <<trail, unit_facts>>
         \/ answer' = "none" /\ pc' = "bcp" /\ trail' = LevelZero /\ unit_facts' = Cleared
  BY DEF Solve, assignment, BacktrackTo, Cleared
<1>2. Interface!SetOf(held) = Range(held)
  BY DEF Interface!SetOf, Range
<1>3. CASE /\ conflictClause # NULL /\ data[conflictClause] = <<>> /\ answer' = "UNSAT" /\ pc' = pc
           /\ UNCHANGED <<trail, unit_facts>>
  <2>1. Bottom' = Bottom
    BY <1>3 DEF Bottom
  <2>2. RootStaysTo(Bottom) /\ Marks' = Marks
    BY <1>1, <1>3, AssumedSame DEF RootStaysTo
  <2>3. Root' = Root
    BY <2>1, <2>2, RootSame
  <2>4. {} \in Range(formula)
    BY <1>3 DEF Inv, Control
  <2> QED BY <1>1, <1>2, <1>3, <2>2, <2>3, <2>4 DEF Interface!Solve
<1>4. CASE answer' = "none" /\ pc' = "bcp" /\ trail' = LevelZero /\ unit_facts' = Cleared
  <2>1. \A k \in 1..Bottom : trail'[k] = trail[k]
    BY <1>4, InvBottom
  <2>2. \A k \in 1..Bottom : unit_facts'[VarOf(trail[k].lit)] = unit_facts[VarOf(trail[k].lit)]
    BY <1>4, NotAbove DEF Cleared
  <2>3. RootStaysTo(Bottom)
    BY <1>1, <2>1, <2>2, AssumedSame DEF RootStaysTo
  <2>4. Root' = Root /\ Marks' = Marks
    BY <1>1, <1>4, <2>3, BottomSame
  <2> QED BY <1>1, <1>2, <1>4, <2>4 DEF Interface!Solve
<1> QED BY <1>1, <1>3, <1>4

\* Every step is one of Incremental, or changes nothing that it shows.
LEMMA InterfaceNext ==
  ASSUME Complete, [Next]_vars
  PROVE  [Interface!Next]_(Interface!vars)
<1>1. Inv /\ Inv'
  BY NextComplete, StutterComplete DEF Complete
<1>2. CASE UNCHANGED vars
  <2>1. UNCHANGED <<trail, assumptions, data, unit_facts, formula, held, asked, pc, answer, lost>>
    BY <1>2 DEF vars, client, clauses, assignment
  <2>2. Bottom' = Bottom
    BY <2>1 DEF Bottom
  <2>3. RootStaysTo(Bottom) /\ Marks' = Marks
    BY <1>1, <2>1, AssumedSame DEF RootStaysTo
  <2>4. Root' = Root
    BY <1>1, <2>2, <2>3, RootSame
  <2> QED BY <2>1, <2>3, <2>4 DEF Interface!vars
<1>3. ASSUME NEW c \in Inputs, AddClause(c) PROVE Interface!Next
  BY <1>1, <1>3, InterfaceAdds
<1>4. ASSUME NEW p \in Queries, PushAssumption(p) PROVE Interface!Next
  <2>1. Interface!PushAssumption(p)
    BY <1>1, <1>4, InterfaceRefuses, InterfaceAssumes
  <2> QED BY <2>1 DEF Interface!Next
<1>5. ASSUME NEW num \in 1..MaxAssumptions, PopAssumptions(num) PROVE Interface!Next
  BY <1>1, <1>5, InterfacePops
<1>6. CASE Solve
  BY <1>1, <1>6, InterfaceSolves DEF Interface!Next
<1>7. CASE Engine
  BY <1>1, <1>7, EngineStep, InterfaceGoesOn, InterfaceAnswers
<1> QED BY <1>2, <1>3, <1>4, <1>5, <1>6, <1>7 DEF Next, Calls

\* The engine implements Incremental, for every client it has: level 0 of the trail is
\* what Incremental says is left of the units and assumptions, whatever is lost.
THEOREM ImplementsInterface == Spec => InterfaceSpec
<1>1. Init => Interface!Init
  <2> SUFFICES ASSUME Init PROVE Interface!Init
    OBVIOUS
  <2>1. /\ trail = <<>> /\ assumptions = <<>> /\ formula = <<>> /\ held = <<>> /\ asked = {} /\ lost = {}
        /\ pc = "idle" /\ answer = "none"
    BY DEF Init
  <2>2. Range(formula) = {}
    BY <2>1 DEF Range
  <2>3. Root = {}
    <3>1. Bottom = 0
      <4>1. {k \in DOMAIN trail : trail[k].level = 0} = {}
        BY <2>1
      <4> QED BY <4>1, FS_EmptySet DEF Bottom
    <3> QED BY <3>1 DEF Root
  <2>4. Marks = <<>>
    <3>1. DOMAIN assumptions = {}
      BY <2>1
    <3>2. PICK M : M = Marks
      OBVIOUS
    <3>3. M \in Seq(Nat) /\ Len(M) = 0
      <4>1. Marks \in Seq(Nat) /\ Len(Marks) = Len(assumptions)
        BY InitInv, MarksState
      <4> QED BY <2>1, <3>2, <4>1
    <3> QED BY <3>2, <3>3
  <2> QED BY <2>1, <2>2, <2>3, <2>4 DEF Interface!Init
<1>2. Complete /\ [Next]_vars => [Interface!Next]_(Interface!vars)
  BY InterfaceNext
<1>3. InterfaceSpec <=> Interface!Init /\ [][Interface!Next]_(Interface!vars)
  BY DEF InterfaceSpec, Interface!Spec
<1> QED BY <1>1, <1>2, <1>3, CompleteInvariant, PTL DEF Spec

=============================================================================
