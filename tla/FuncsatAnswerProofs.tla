-------------------------- MODULE FuncsatAnswerProofs --------------------------
(***************************************************************************)
(* The rest of the invariant of FuncsatProofs: what the clauses that wait, *)
(* the resolved clause and propagateFacts have to do with the trail.  From *)
(* it the answers of the engine are right: what is learned follows from    *)
(* the clauses added, what level 0 holds follows from them and the         *)
(* assumptions below it, and the theorems about the specification.         *)
(***************************************************************************)
EXTENDS FuncsatProofs

-----------------------------------------------------------------------------
(* The clauses that wait imply different literals.                          *)

\* A fact is a clause of one literal or more, without repeats.
LEMMA FactNow ==
  ASSUME Inv, NEW f, IsFact(f)
  PROVE  /\ f \in DOMAIN data /\ f # NULL /\ data[f] \in Seq(Lit) /\ Len(data[f]) \in Nat /\ Len(data[f]) >= 1
         /\ data[f] # <<>> /\ data[f][1] \in Lit /\ DistinctVars(data[f])
         /\ \A n \in 1..Len(data[f]) : data[f][n] \in Lit
<1>1. f \in DOMAIN data /\ f # NULL
  BY FactsNow
<1>2. data[f] # <<>> /\ data[f] \in Seq(Lit) /\ Len(data[f]) \in Nat /\ \A n \in 1..Len(data[f]) : data[f][n] \in Lit
  BY <1>1, DataTypes DEF Inv, FactsDiffer
<1>3. Len(data[f]) >= 1
  BY <1>2
<1>4. DistinctVars(data[f])
  BY <1>1 DEF Inv, ClausesDistinct
<1> QED BY <1>1, <1>2, <1>3, <1>4

\* A fact that stays one keeps its literals.
LEMMA FactSame ==
  ASSUME Inv, Next, NEW f, IsFact(f), Waits(f, facts', unit_facts')
  PROVE  data'[f] = data[f]
<1>1. f \in DOMAIN data
  BY FactNow
<1>2. ~Emptied(f)
  <2> SUFFICES ASSUME Emptied(f) PROVE FALSE
    OBVIOUS
  <2>1. facts' = <<>> /\ unit_facts' = unit_facts /\ f \in Range(facts)
    BY DEF Emptied, Empties, Refuted, assignment
  <2>2. PICK v \in Var : f \in Range(unit_facts[v])
    BY <2>1 DEF Waits, Range
  <2> QED BY <2>1, <2>2 DEF Inv, Placed, Range
<1> QED BY <1>1, <1>2, DataNext DEF DataGood

\* What a collected clause implies is not false; nor what a clause that waits on a
\* variable implies, unless the clause was learned from the last literal.
LEMMA FirstNotFalse ==
  ASSUME Inv, pc \in Working, NEW f, IsFact(f), IsFalse(trail, data[f][1])
  PROVE  /\ pc \in {"resolve", "undo"} /\ trail # <<>> /\ HasLitPos(TopVar) /\ data[f][1] = -Top.lit
         /\ f \in Range(unit_facts[TopVar])
<1>0. data[f][1] \in Lit /\ f # NULL /\ pc # "idle"
  BY FactNow DEF Working, Analyzing
<1>1. ~IsUnknown(trail, data[f][1])
  BY DEF IsUnknown
<1>2. ASSUME NEW lv, IsReason(f, lv) PROVE FALSE
  <2>1. PICK j \in 1..Len(trail) : trail[j].reason = f
    BY <1>2, InvTrail DEF IsReason
  <2>2. data[f][1] = trail[j].lit
    BY <1>0, <2>1, ReasonFacts DEF Live
  <2>3. IsTrue(trail, data[f][1])
    BY <2>1, <2>2, InvTrail DEF IsTrue
  <2> QED BY <1>0, <2>3, InvTrail
<1>3. f \notin Range(facts)
  BY <1>1, <1>2 DEF Inv, Collecting
<1>4. PICK v \in Var : f \in Range(unit_facts[v])
  BY <1>3 DEF IsFact
<1>5. PICK k \in 1..Len(trail) : VarOf(trail[k].lit) = v /\ WaitsAt(f, k)
  BY <1>0, <1>4, InvTrail DEF Inv, UnitFactsWait, Live
<1>6. pc \in {"resolve", "undo"} /\ k = Len(trail) /\ HasLitPos(TopVar) /\ data[f][1] = -Top.lit
  BY <1>1, <1>2, <1>5 DEF WaitsAt
<1>7. TopVar = v /\ trail # <<>>
  BY <1>5, <1>6, InvTrail DEF TopVar, Top
<1> QED BY <1>4, <1>6, <1>7

\* A clause that waits on a variable at level 0 implies its literal there.
LEMMA RootWaits ==
  ASSUME Inv, NEW v \in Var, NEW f \in Range(unit_facts[v]), v \notin Above
  PROVE  \E k \in 1..Bottom : /\ VarOf(trail[k].lit) = v /\ Len(data[f]) = 1 /\ trail[k].reason = f
                              /\ trail[k].level = 0 /\ data[f][1] = trail[k].lit
<1>1. PICK k \in 1..Len(trail) : VarOf(trail[k].lit) = v /\ (Live(k) => WaitsAt(f, k))
  BY InvTrail DEF Inv, UnitFactsWait
<1>2. k \in 1..Bottom /\ trail[k].level = 0
  <2>1. Bottom \in 0..Len(trail) /\ Len(trail) \in Nat /\ (trail[k].level = 0 <=> k <= Bottom)
    BY InvBottom, InvTrail
  <2>2. k \notin (Bottom + 1)..Len(trail)
    BY <1>1 DEF Above
  <2> QED BY <2>1, <2>2
<1>3. Len(data[f]) = 1 /\ trail[k].reason = f /\ Live(k)
  BY <1>1, <1>2 DEF WaitsAt, Live
<1>4. f # NULL
  BY FactNow DEF IsFact
<1>5. data[f][1] = trail[k].lit
  BY <1>3, <1>4, ReasonFacts
<1> QED BY <1>1, <1>2, <1>3, <1>5

\* A unit clause is added by a call.
LEMMA AddsRoot ==
  ASSUME Inv, Next, NEW l, Adds(l)
  PROVE  /\ pc \in {"idle", "bcp"} /\ pc' \in {"idle", "bcp"} /\ facts = <<>> /\ facts' = <<>>
         /\ l \in Lit /\ VarOf(l) \in Var /\ Len(data) + 1 \notin DOMAIN data /\ Len(data) \in Nat
         /\ unit_facts'[VarOf(l)] = <<Len(data) + 1>>
         /\ \A v \in Var \ {VarOf(l)} : unit_facts'[v] = IF v \in Above THEN <<>> ELSE unit_facts[v]
         /\ RootCut(Bottom)
<1>1. l \in Lit /\ VarOf(l) \in Var
  BY LitFacts DEF Adds
<1>2. Len(data) + 1 \notin DOMAIN data /\ Len(data) \in Nat /\ data'[Len(data) + 1] = <<l>> /\ Len(data) + 1 \in DOMAIN data'
  BY AppendedSame DEF Adds
<1>3. /\ unit_facts'[VarOf(l)] = <<Len(data) + 1>>
      /\ \A v \in Var \ {VarOf(l)} : unit_facts'[v] = IF v \in Above THEN <<>> ELSE unit_facts[v]
  BY <1>1 DEF Adds
<1>4. unit_facts' # unit_facts
  <2> SUFFICES ASSUME unit_facts' = unit_facts PROVE FALSE
    OBVIOUS
  <2>1. unit_facts[VarOf(l)] \in Seq(DOMAIN data)
    BY <1>1 DEF Inv, TypeOK
  <2> QED BY <1>2, <1>3, <2>1
<1>5. ~Pops
  <2> SUFFICES ASSUME Pops PROVE FALSE
    OBVIOUS
  <2>1. unit_facts' = [unit_facts EXCEPT ![TopVar] = <<>>] /\ unit_facts \in [Var -> Seq(DOMAIN data)]
    BY DEF Inv, TypeOK, Pops, TrailPop
  <2>2. unit_facts'[VarOf(l)] \in {<<>>, unit_facts[VarOf(l)]}
    BY <1>1, <2>1
  <2>3. unit_facts[VarOf(l)] \in Seq(DOMAIN data)
    BY <1>1, <2>1
  <2> QED BY <1>2, <1>3, <2>2, <2>3
<1>6. ~Stays
  <2> SUFFICES ASSUME Stays PROVE FALSE
    OBVIOUS
  <2>1. trail' = trail /\ \A k \in 1..Len(trail) : trail[k].reason # NULL => trail[k].reason \in DOMAIN data
    BY InvTrail DEF Stays
  <2>2. LevelZero \in Seq(TrailEntry) /\ Len(LevelZero) \in Nat
    BY InvBottom DEF Trails
  <2>3. [lit |-> l, level |-> 0, reason |-> Len(data) + 1, decision |-> FALSE] \in TrailEntry
    BY <1>1, <1>2 DEF TrailEntry
  <2>4. Len(trail) = Len(LevelZero) + 1 /\ trail[Len(LevelZero) + 1].reason = Len(data) + 1
    BY <2>1, <2>2, <2>3 DEF Adds
  <2>5. Len(LevelZero) + 1 \in 1..Len(trail) /\ Len(data) + 1 # NULL
    BY <1>2, <2>2, <2>4 DEF NULL
  <2>6. trail[Len(LevelZero) + 1].reason \in DOMAIN data
    BY <2>1, <2>4, <2>5
  <2> QED BY <1>2, <2>4, <2>6
<1>7. \E n : RootStep(n)
  BY <1>4, <1>5, <1>6, TrailCases DEF PushesImplied, PushesDecision, TrailPush
<1>8. pc \in {"idle", "bcp"} /\ pc' \in {"idle", "bcp"} /\ facts = <<>> /\ facts' = <<>>
  BY <1>7 DEF RootStep, Inv, Control
<1>9. VarOf(l) \in 1..numVars'
  <2>1. PICK n \in 0..Bottom : RootCut(n)
    BY <1>7 DEF RootStep
  <2>2. LevelZero \in Seq(TrailEntry) /\ Len(LevelZero) = Bottom /\ Bottom \in Nat
    BY InvBottom, InvTrail DEF Trails
  <2>3. [lit |-> l, level |-> 0, reason |-> Len(data) + 1, decision |-> FALSE] \in TrailEntry
    BY <1>1, <1>2 DEF TrailEntry
  <2>4. Len(trail') = Bottom + 1 /\ trail'[Bottom + 1].lit = l
    BY <2>2, <2>3 DEF Adds
  <2> QED BY <2>1, <2>2, <2>4 DEF RootCut
<1>10. RootCut(Bottom)
  BY <1>1, <1>2, <1>9, RootAppend DEF Adds
<1> QED BY <1>1, <1>2, <1>3, <1>8, <1>10

\* Every step keeps the literals that the waiting facts imply different.
LEMMA DifferNext ==
  ASSUME Inv, Next
  PROVE  FactsDiffer'
<1>1. \A x : Waits(x, facts', unit_facts') => IsFact(x) \/ NewFact(x)
  BY FactsNext
<1>2. \A x : IsFact(x)' <=> Waits(x, facts', unit_facts')
  BY DEF IsFact, Waits
<1>3. ASSUME NEW x, IsFact(x)', ~IsFact(x)
      PROVE  /\ data'[x] # <<>>
             /\ \A f : IsFact(f) /\ IsFact(f)' => data[f][1] # data'[x][1]
  <2>1. NewFact(x)
    BY <1>1, <1>2, <1>3
  <2>2. CASE Learn
    <3>1. PICK c \in Seq(Lit) : data' = Append(data, c) /\ c[1] = -Top.lit /\ Len(c) >= 1
      BY <2>2, LearnFacts
    <3>2. data'[x] = c /\ c # <<>>
      BY <2>1, <3>1, AppendedSame DEF NewFact
    <3>3. pc = "learn" /\ pc \in Working /\ trail # <<>>
      BY <2>2, LearnFacts
    <3>4. IsFalse(trail, -Top.lit)
      <4>1. Top = trail[Len(trail)] /\ Len(trail) \in 1..Len(trail) /\ -(-Top.lit) = Top.lit
        BY <3>3, TopResolves, LitFacts
      <4> QED BY <4>1, InvTrail DEF IsFalse, IsTrue
    <3>5. ASSUME NEW f, IsFact(f) PROVE data[f][1] # -Top.lit
      BY <3>3, <3>4, <3>5, FirstNotFalse
    <3> QED BY <3>1, <3>2, <3>5
  <2>3. ASSUME NEW l, Adds(l)
        PROVE  /\ data'[x] # <<>>
               /\ \A f : IsFact(f) /\ IsFact(f)' => data[f][1] # data'[x][1]
    <3>1. data'[x] = <<l>>
      <4>1. data' = Append(data, <<l>>)
        BY <2>3 DEF Adds
      <4> QED BY <2>1, <4>1, AppendedSame DEF NewFact
    <3>2. ASSUME NEW f, IsFact(f), IsFact(f)' PROVE data[f][1] # l
      <4>0. f \in DOMAIN data
        BY <3>2, FactNow
      <4>1. PICK v \in Var : f \in Range(unit_facts'[v])
        BY <2>3, <3>2, AddsRoot DEF IsFact, Range
      <4>2. v # VarOf(l)
        BY <2>3, <4>0, <4>1, AddsRoot DEF Range
      <4>3. v \notin Above /\ f \in Range(unit_facts[v])
        BY <2>3, <4>1, <4>2, AddsRoot DEF Range
      <4>4. PICK k \in 1..Bottom : VarOf(trail[k].lit) = v /\ data[f][1] = trail[k].lit
        BY <4>3, RootWaits
      <4> QED BY <4>2, <4>4
    <3> QED BY <3>1, <3>2
  <2> QED BY <2>1, <2>2, <2>3 DEF NewFact
<1>4. ASSUME NEW x, IsFact(x)', IsFact(x) PROVE data'[x] = data[x] /\ x \in DOMAIN data /\ data[x] # <<>>
  BY <1>2, <1>4, FactSame, FactNow
<1>5. ASSUME NEW f, NEW g, IsFact(f)', IsFact(g)', data'[f][1] = data'[g][1] PROVE f = g
  <2>1. CASE IsFact(f) /\ IsFact(g)
    BY <1>4, <1>5, <2>1 DEF Inv, FactsDiffer
  <2>2. CASE ~IsFact(f) /\ ~IsFact(g)
    BY <1>1, <1>2, <1>5, <2>2 DEF NewFact
  <2>3. CASE IsFact(f) /\ ~IsFact(g)
    BY <1>3, <1>4, <1>5, <2>3
  <2>4. CASE ~IsFact(f) /\ IsFact(g)
    BY <1>3, <1>4, <1>5, <2>4
  <2> QED BY <2>1, <2>2, <2>3, <2>4
<1> QED BY <1>3, <1>4, <1>5 DEF FactsDiffer

-----------------------------------------------------------------------------
(* Where a clause waits.                                                    *)

LevelsAt ==
  /\ \A v : LevelOf(v) \in Nat \cup {-1}
  /\ \A k \in 1..Len(trail) : \A v : v = VarOf(trail[k].lit) => LevelOf(v) = trail[k].level
  /\ \A v : (\A k \in 1..Len(trail) : VarOf(trail[k].lit) # v) => LevelOf(v) = -1
\* Levels of variables and of entries agree, in this state and the next.
LEMMA LevelOfState == trail \in Trails /\ OncePerVariable(trail) => LevelsAt
<1> SUFFICES ASSUME trail \in Trails, OncePerVariable(trail) PROVE LevelsAt
  OBVIOUS
<1> QED BY LevelOfFacts DEF LevelsAt

\* The levels of the variables after a step.
LEMMA LevelNext ==
  ASSUME Inv, Next
  PROVE  /\ \A v : LevelOf(v)' \in Nat \cup {-1}
         /\ \A k \in 1..Len(trail') : \A v : v = VarOf(trail'[k].lit) => LevelOf(v)' = trail'[k].level
         /\ \A v : (\A k \in 1..Len(trail') : VarOf(trail'[k].lit) # v) => LevelOf(v)' = -1
<1>1. (trail \in Trails /\ OncePerVariable(trail))'
  BY TrailNext DEF TrailGood, OncePerVariable
<1>2. (trail \in Trails /\ OncePerVariable(trail) => LevelsAt)'
  BY LevelOfState, PTL
<1>3. LevelsAt'
  BY <1>1, <1>2
<1> QED BY <1>3 DEF LevelsAt

\* An entry that stays keeps the level of its variable.
LEMMA LevelSame ==
  ASSUME Inv, Next, NEW k \in 1..Len(trail), k \in 1..Len(trail'), trail'[k] = trail[k], NEW v, v = VarOf(trail[k].lit)
  PROVE  LevelOf(v)' = LevelOf(v) /\ LevelOf(v) = trail[k].level
BY LevelNext, InvLevels

\* What a clause that waits relies on is below the position, and stays.
LEMMA WaitsBelow ==
  ASSUME Inv, Next, NEW k \in 1..Len(trail'), OldEntry(k), NEW id \in DOMAIN data, data'[id] = data[id],
         \A n \in 2..Len(data[id]) : FalseBefore(k, data[id][n]), SecondLast(data[id])
  PROVE  (\A n \in 2..Len(data[id]) : FalseBefore(k, data[id][n]))' /\ SecondLast(data[id])'
<1>1. PICK d \in Seq(Lit) : d = data[id] /\ \A n \in 1..Len(d) : d[n] \in Lit
  BY DataTypes DEF Inv
<1>2. Len(trail) \in Nat /\ k \in 1..Len(trail) /\ Len(trail') \in Nat /\ Len(d) \in Nat
  BY InvTrail, TrailNext, TrailTypes, <1>1 DEF OldEntry, TrailGood
<1>3. \A j \in 1..(k - 1) : j \in 1..k /\ j \in 1..Len(trail) /\ j \in 1..Len(trail') /\ trail'[j] = trail[j]
  BY <1>2 DEF OldEntry
<1>4. \A n \in 2..Len(d) : FalseBefore(k, d[n])'
  BY <1>1, <1>3 DEF FalseBefore
<1>5. ASSUME NEW n \in 2..Len(d) PROVE LevelOf(VarOf(d[n]))' = LevelOf(VarOf(d[n]))
  <2>1. PICK j \in 1..(k - 1) : trail[j].lit = -d[n]
    BY <1>1 DEF FalseBefore
  <2>2. VarOf(trail[j].lit) = VarOf(d[n])
    <3>1. d[n] \in Lit
      BY <1>1, <1>2
    <3> QED BY <2>1, <3>1, LitFacts
  <2> QED BY <1>3, <2>1, <2>2, LevelSame
<1>6. SecondLast(d)'
  <2> SUFFICES ASSUME NEW n \in 3..Len(d) PROVE LevelOf(VarOf(d[n]))' <= LevelOf(VarOf(d[2]))'
    BY DEF SecondLast
  <2>1. n \in 2..Len(d) /\ 2 \in 2..Len(d)
    BY <1>2
  <2>2. LevelOf(VarOf(d[n])) <= LevelOf(VarOf(d[2]))
    BY <1>1 DEF SecondLast
  <2> QED BY <1>5, <2>1, <2>2
<1>7. data'[id] = d
  BY <1>1
<1> QED BY <1>4, <1>6, <1>7 DEF SecondLast, LevelOf, FalseBefore

\* The steps, with what they leave alone.
Quiet ==
  /\ pc \in {"idle", "bcp"} /\ pc' \in {"idle", "bcp", "conflict"}
  /\ UNCHANGED <<facts, unit_facts, uipClause, count, uipLit>>
  /\ Stays \/ PushesImplied \/ PushesDecision
\* Every step by what it means for the facts that wait.
LEMMA StepCases ==
  ASSUME Inv, Next
  PROVE  \/ \E n : RootStep(n)
         \/ Quiet \/ Recount \/ Learn \/ Refuted \/ SkipLiteral \/ ResolveReason \/ Undo
         \/ Conflict \/ FactsDone \/ PropagateFact
<1>1. CASE Calls
  <2>1. CASE AnswersAtOnce
    BY <2>1 DEF AnswersAtOnce, Quiet, Stays, Solve, assignment, clauses, learning
  <2> QED BY <1>1, <2>1, CallSteps
<1>2. CASE Restart
  <2>1. BacktrackTo(LevelZero, {}) /\ UNCHANGED <<facts, numVars>> /\ pc = "bcp" /\ pc' = "bcp"
    BY <1>2 DEF Restart, clauses, learning
  <2> QED BY <2>1, ClearedKeeps
<1>3. CASE VisitClause
  <2>1. pc = "bcp" /\ UNCHANGED learning
    BY <1>3, Zenon DEF VisitClause
  <2>2. pc' \in {"bcp", "conflict"}
    BY <1>3, <2>1, VisitFacts DEF VisitSatisfied, VisitMoves, VisitKeeps
  <2>3. UNCHANGED unit_facts
    BY <1>3, VisitFacts DEF VisitSatisfied, VisitMoves, VisitKeeps, TrailPush, assignment
  <2> QED BY <1>3, <2>1, <2>2, <2>3, VisitPushes DEF Quiet, learning
<1>4. CASE NextLiteral
  <2>1. propq \in Nat /\ Len(trail) \in Nat /\ propq < Len(trail)
    BY <1>4, SeenFacts, InvTrail DEF NextLiteral
  <2> QED BY <1>4, <2>1 DEF NextLiteral, Quiet, Stays, clauses, learning
<1>5. CASE Decide
  <2>1. PushesDecision
    BY <1>5, DecidePushes
  <2> QED BY <1>5, <2>1 DEF Decide, Quiet, learning
<1>6. CASE Satisfied
  BY <1>6 DEF Satisfied, Quiet, Stays, clauses, learning, Finish
<1> QED BY <1>1, <1>2, <1>3, <1>4, <1>5, <1>6 DEF Next, Engine

\* The steps of the analysis that pop a literal.
PopStep == SkipLiteral \/ ResolveReason \/ Undo
\* Entries are popped only while the engine analyses or undoes.
LEMMA PopStepFacts ==
  ASSUME Inv, PopStep
  PROVE  /\ Pops /\ pc \in Working /\ decisionLevel >= 1 /\ UNCHANGED data
         /\ pc' \in Working \/ (pc' = "facts" /\ pc = "undo" /\ Top.decision)
         /\ pc' = pc \/ pc = "resolve" \/ (pc = "undo" /\ pc' = "facts")
<1>0. decisionLevel \in Nat
  BY InvLevels
<1>1. CASE SkipLiteral
  <2>1. decisionLevel >= 1
    BY <1>0, <1>1 DEF SkipLiteral, CanSkip, Inv, Counted
  <2> QED BY <1>1, <2>1 DEF SkipLiteral, CanSkip, Skips, Pops, clauses, Working, Analyzing
<1>2. CASE ResolveReason
  <2>1. decisionLevel >= 1 /\ pc = "resolve"
    BY <1>0, <1>2 DEF ResolveReason, Inv, Counted
  <2>2. pc' \in {"refuted", "recount"}
    BY <1>2 DEF ResolveReason
  <2> QED BY <1>2, <2>1, <2>2 DEF ResolveReason, Pops, clauses, Working, Analyzing
<1>3. CASE Undo
  <2>1. Top.decision /\ trail # <<>> /\ pc = "undo" /\ pc' = "facts"
    BY <1>3 DEF Undo, Inv, Counted
  <2>2. Len(trail) \in 1..Len(trail) /\ Top = trail[Len(trail)]
    BY <2>1, TopResolves DEF Working
  <2>3. decisionLevel >= 1
    BY <1>0, <2>1, <2>2, InvLevels
  <2> QED BY <1>3, <2>1, <2>3 DEF Undo, Pops, clauses, Working, Analyzing
<1> QED BY <1>1, <1>2, <1>3 DEF PopStep

\* A pop makes the top variable unknown and frees its units.
LEMMA PopUnknown ==
  ASSUME Inv, Pops
  PROVE  /\ \A l \in Lit : IsUnknown(trail', l) <=> IsUnknown(trail, l) \/ VarOf(l) = TopVar
         /\ decisionLevel' = decisionLevel - (IF Top.decision THEN 1 ELSE 0)
         /\ unit_facts' = [unit_facts EXCEPT ![TopVar] = <<>>] /\ facts' = facts \o unit_facts[TopVar]
         /\ \A k \in 1..(Len(trail) - 1) : Top.decision => trail[k].level < decisionLevel
<1>1. trail \in Trails /\ trail' \in Trails /\ Len(trail) \in Nat \ {0} /\ Len(trail') = Len(trail) - 1
      /\ \A k \in 1..(Len(trail) - 1) : trail'[k] = trail[k]
  BY InvTrail, PopFacts, Zenon
<1>2. Top = trail[Len(trail)] /\ TopVar = VarOf(Top.lit) /\ Top.level = decisionLevel
  BY PopFacts DEF TopVar
<1>3. ASSUME NEW l \in Lit PROVE IsUnknown(trail', l) <=> IsUnknown(trail, l) \/ VarOf(l) = TopVar
  <2>1. IsUnknown(trail, l) <=> \A j \in 1..Len(trail) : VarOf(trail[j].lit) # VarOf(l)
    BY <1>1, TrailsUnknown
  <2>2. IsUnknown(trail', l) <=> \A j \in 1..Len(trail') : VarOf(trail'[j].lit) # VarOf(l)
    <3>1. PICK t \in Trails : t = trail'
      BY <1>1
    <3> QED BY <3>1, TrailsUnknown
  <2>3. \A j \in 1..(Len(trail) - 1) : VarOf(trail[j].lit) # TopVar
    BY PopFacts
  <2>4. \A j \in 1..Len(trail) : j = Len(trail) \/ j \in 1..(Len(trail) - 1)
    BY <1>1
  <2>5. \A j \in 1..(Len(trail) - 1) : j \in 1..Len(trail)
    BY <1>1
  <2> QED BY <1>1, <1>2, <2>1, <2>2, <2>3, <2>4, <2>5
<1>4. ASSUME NEW k \in 1..(Len(trail) - 1), Top.decision PROVE trail[k].level < decisionLevel
  <2>1. k \in 1..Len(trail) /\ Len(trail) \in 1..Len(trail) /\ k < Len(trail)
    BY <1>1
  <2> QED BY <1>2, <1>4, <2>1, InvLevels
<1> QED BY <1>3, <1>4 DEF Pops, TrailPop

\* The part of WaitsAt that only looks below the position stays.
LEMMA WaitsGoOn ==
  ASSUME Inv, Next, NEW k \in 1..Len(trail'), OldEntry(k), NEW id, IsFact(id), data'[id] = data[id], WaitsAt(id, k),
         \/ IsReason(id, trail[k].level)'
         \/ /\ pc' \in Working /\ trail'[k].level = decisionLevel' /\ decisionLevel' > 0
            /\ IsUnknown(trail', data[id][1])
  PROVE  WaitsAt(id, k)'
<1>1. id \in DOMAIN data
  BY FactNow
<1>2. k \in 1..Len(trail) /\ trail'[k] = trail[k] /\ k \in 1..k
  BY InvTrail DEF OldEntry
<1>3. (\A n \in 2..Len(data[id]) : FalseBefore(k, data[id][n]))' /\ SecondLast(data[id])'
  BY <1>1, WaitsBelow DEF WaitsAt
<1>4. trail'[k].level = 0 => Len(data'[id]) = 1 /\ trail'[k].reason = id
  BY <1>2 DEF WaitsAt
<1>5. (IsReason(id, trail[k].level)
       \/ (pc \in Working /\ trail[k].level = decisionLevel /\ decisionLevel > 0 /\ IsUnknown(trail, data[id][1])))'
  BY DEF Working, Analyzing
<1> QED BY <1>3, <1>4, <1>5 DEF WaitsAt

\* A pop keeps every unit with the variable it waits for.
LEMMA WaitsPop ==
  ASSUME Inv, Next, PopStep
  PROVE  UnitFactsWait'
<1>0. Pops /\ pc \in Working /\ decisionLevel >= 1 /\ data' = data /\ pc' # "idle"
      /\ (pc' \in Working \/ Top.decision)
  BY PopStepFacts DEF Working, Analyzing
<1>1. unit_facts \in [Var -> Seq(Nat)] /\ TopVar \in Var
  BY <1>0, FactsNow, PopFacts
<1>2. /\ \A l \in Lit : IsUnknown(trail', l) <=> IsUnknown(trail, l) \/ VarOf(l) = TopVar
      /\ decisionLevel' = decisionLevel - (IF Top.decision THEN 1 ELSE 0)
      /\ unit_facts' = [unit_facts EXCEPT ![TopVar] = <<>>]
      /\ \A k \in 1..(Len(trail) - 1) : Top.decision => trail[k].level < decisionLevel
  BY <1>0, PopUnknown
<1>3. /\ Len(trail') = Len(trail) - 1 /\ Len(trail) \in Nat \ {0} /\ trail' \in Trails /\ DOMAIN trail' = 1..Len(trail')
      /\ \A k \in 1..(Len(trail) - 1) : trail'[k] = trail[k] /\ k \in 1..Len(trail) /\ k \in 1..Len(trail')
      /\ Top = trail[Len(trail)] /\ Len(trail) \in 1..Len(trail) /\ Top.level = decisionLevel
      /\ Top.decision => Top.reason = NULL
      /\ Top.lit \in Lit
  BY <1>0, PopFacts, TrailNow, TrailTypes
<1>4. ASSUME NEW v \in Var, NEW id \in Range(unit_facts'[v])
      PROVE  \E k \in DOMAIN trail' : VarOf(trail'[k].lit) = v /\ WaitsAt(id, k)'
  <2>1. v # TopVar /\ id \in Range(unit_facts[v])
    BY <1>1, <1>2 DEF Range
  <2>2. IsFact(id)
    BY <2>1 DEF IsFact
  <2>3. PICK k \in 1..Len(trail) : VarOf(trail[k].lit) = v /\ WaitsAt(id, k)
    BY <1>0, <2>1, InvTrail DEF Inv, UnitFactsWait, Live, Working, Analyzing
  <2>4. k # Len(trail)
    BY <1>3, <2>1, <2>3 DEF TopVar
  <2>5. k \in 1..(Len(trail) - 1) /\ k \in 1..Len(trail') /\ trail'[k] = trail[k] /\ OldEntry(k)
    <3>1. k \in 1..(Len(trail) - 1)
      BY <1>3, <2>3, <2>4
    <3>2. \A j \in 1..k : j \in 1..(Len(trail) - 1)
      BY <1>3, <3>1
    <3> QED BY <1>3, <3>1, <3>2 DEF OldEntry
  <2>6. data[id][1] \in Lit /\ id # NULL
    BY <2>2, FactNow
  <2>7. ASSUME IsReason(id, trail[k].level) PROVE WaitsAt(id, k)'
    <3>1. PICK j \in 1..Len(trail) : trail[j].reason = id /\ trail[j].level = trail[k].level
      BY <2>7, InvTrail DEF IsReason
    <3>2. CASE j = Len(trail)
      <4>1. ~Top.decision /\ trail[k].level = decisionLevel /\ Top.reason = id
        BY <1>3, <2>6, <3>1, <3>2
      <4>2. data[id][1] = Top.lit
        BY <1>0, <1>3, <2>6, <4>1, ReasonFacts DEF Live, Working, Analyzing
      <4>3. IsUnknown(trail', data[id][1])
        BY <1>2, <1>3, <4>2 DEF TopVar
      <4>4. decisionLevel' = decisionLevel /\ pc' \in Working
        BY <1>0, <1>2, <4>1, InvLevels
      <4>5. data'[id] = data[id] /\ trail'[k].level = decisionLevel' /\ decisionLevel' > 0
        BY <1>0, <2>5, <4>1, <4>4, InvLevels
      <4>6. k \in 1..Len(trail') /\ OldEntry(k) /\ WaitsAt(id, k)
        BY <2>3, <2>5
      <4> QED BY <2>2, <4>3, <4>4, <4>5, <4>6, WaitsGoOn
    <3>3. CASE j # Len(trail)
      <4>1. j \in 1..(Len(trail) - 1)
        BY <1>3, <3>1, <3>3
      <4>2. j \in DOMAIN trail' /\ trail'[j].reason = id /\ trail'[j].level = trail'[k].level
        BY <1>3, <2>5, <3>1, <4>1
      <4>3. IsReason(id, trail[k].level)'
        BY <4>2 DEF IsReason
      <4> QED BY <1>0, <2>2, <2>3, <2>5, <4>3, WaitsGoOn
    <3> QED BY <3>2, <3>3
  <2>8. ASSUME pc \in Working, trail[k].level = decisionLevel, decisionLevel > 0, IsUnknown(trail, data[id][1])
      PROVE  WaitsAt(id, k)'
    <3>1. ~Top.decision
      BY <1>2, <2>5, <2>8, InvLevels
    <3>2. decisionLevel' = decisionLevel /\ pc' \in Working
      BY <1>0, <1>2, <3>1, InvLevels
    <3>3. IsUnknown(trail', data[id][1])
      BY <1>2, <2>6, <2>8
    <3> QED BY <1>0, <2>2, <2>3, <2>5, <2>8, <3>2, <3>3, WaitsGoOn
  <2>9. WaitsAt(id, k)'
    BY <2>3, <2>4, <2>7, <2>8 DEF WaitsAt
  <2> QED BY <1>3, <2>3, <2>5, <2>9
<1> QED BY <1>4 DEF UnitFactsWait

\* A step that keeps the trail, or adds to it, keeps what waits.
Grows == \A j \in 1..Len(trail) : j \in 1..Len(trail') /\ trail'[j] = trail[j]
\* A unit keeps waiting while the trail only grows.
LEMMA WaitsOld ==
  ASSUME Inv, Next, Grows, NEW v \in Var, NEW id \in Range(unit_facts[v]), Waits(id, facts', unit_facts'),
         pc \in Working => /\ pc \notin {"resolve", "undo"} /\ trail' = trail /\ decisionLevel' = decisionLevel
                           /\ pc' \in Working \/ pc' = "idle"
  PROVE  \E k \in DOMAIN trail' : VarOf(trail'[k].lit) = v /\ (Live(k)' => WaitsAt(id, k)')
<1>0. trail' \in Trails /\ DOMAIN trail' = 1..Len(trail') /\ decisionLevel \in Nat
  BY TrailNext, TrailTypes, InvLevels DEF TrailGood
<1>1. PICK k \in 1..Len(trail) : VarOf(trail[k].lit) = v /\ (Live(k) => WaitsAt(id, k))
  BY InvTrail DEF Inv, UnitFactsWait
<1>2. k \in 1..Len(trail') /\ trail'[k] = trail[k] /\ OldEntry(k)
  <2>1. Len(trail) \in Nat /\ \A j \in 1..k : j \in 1..Len(trail)
    BY <1>1, InvTrail
  <2> QED BY <1>1, <2>1 DEF Grows, OldEntry
<1>3. IsFact(id)
  BY DEF IsFact
<1>4. ASSUME Live(k)' PROVE WaitsAt(id, k)'
  <2>1. pc' # "idle" \/ trail'[k].level = 0
    BY <1>4 DEF Live
  <2>2. WaitsAt(id, k)
    BY <1>1, <1>2, <2>1, OldLive
  <2>3. data'[id] = data[id]
    BY <1>3, FactSame
  <2>4. ASSUME IsReason(id, trail[k].level) PROVE WaitsAt(id, k)'
    <3>1. PICK j \in 1..Len(trail) : trail[j].reason = id /\ trail[j].level = trail[k].level
      BY <2>4, InvTrail DEF IsReason
    <3>2. j \in DOMAIN trail' /\ trail'[j].reason = id /\ trail'[j].level = trail'[k].level
      BY <1>0, <1>2, <3>1 DEF Grows
    <3>3. IsReason(id, trail[k].level)'
      BY <3>2 DEF IsReason
    <3> QED BY <1>2, <1>3, <2>2, <2>3, <3>3, WaitsGoOn
  <2>5. ASSUME pc \in Working, trail[k].level = decisionLevel, decisionLevel > 0, IsUnknown(trail, data[id][1])
        PROVE  WaitsAt(id, k)'
    <3>1. pc' \in Working
      BY <1>0, <1>2, <2>1, <2>5
    <3>2. IsUnknown(trail', data[id][1]) /\ trail'[k].level = decisionLevel' /\ decisionLevel' > 0
      BY <1>2, <2>5
    <3> QED BY <1>2, <1>3, <2>2, <2>3, <3>1, <3>2, WaitsGoOn
  <2> QED BY <2>2, <2>4, <2>5 DEF WaitsAt, Working, Analyzing
<1> QED BY <1>0, <1>1, <1>2, <1>4

\* Steps that stay or push only grow the trail.
LEMMA StepGrows ==
  ASSUME Inv, Stays \/ PushesImplied \/ PushesDecision
  PROVE  Grows
<1>1. trail \in Seq(TrailEntry) /\ Len(trail) \in Nat
  BY InvTrail DEF Trails
<1>2. ASSUME NEW e, trail' = Append(trail, e) PROVE Grows
  BY <1>1, <1>2 DEF Grows
<1> QED BY <1>1, <1>2 DEF Stays, PushesImplied, PushesDecision, TrailPush, Grows

\* A step at the root keeps every unit with the variable it waits for.
LEMMA WaitsRoot ==
  ASSUME Inv, Next, NEW n, RootStep(n)
  PROVE  UnitFactsWait'
<1>0. /\ n \in Nat /\ n <= Bottom /\ Bottom \in Nat /\ Len(trail') \in Nat /\ n <= Len(trail') /\ DOMAIN trail' = 1..Len(trail')
      /\ \A k \in 1..n : /\ k \in 1..Len(trail) /\ k \in 1..Len(trail') /\ trail'[k] = trail[k]
      /\ RootCut(n) /\ n \in 0..Bottom
  BY RootCutFacts, InvBottom, InvTrail DEF RootStep
<1>1. ASSUME NEW v \in Var, NEW id \in Range(unit_facts[v]), v \notin Above, v \notin Popped(n), Waits(id, facts', unit_facts')
      PROVE  \E k \in DOMAIN trail' : VarOf(trail'[k].lit) = v /\ WaitsAt(id, k)'
  <2>1. PICK k \in 1..Bottom : /\ VarOf(trail[k].lit) = v /\ Len(data[id]) = 1 /\ trail[k].reason = id
                               /\ trail[k].level = 0 /\ data[id][1] = trail[k].lit
    BY <1>1, RootWaits
  <2>2. k \in 1..n
    BY <1>0, <1>1, <2>1 DEF Popped
  <2>3. data'[id] = data[id]
    BY <1>1, FactSame DEF IsFact
  <2>4. k \in DOMAIN trail' /\ trail'[k] = trail[k]
    BY <1>0, <2>2
  <2>5. (/\ Len(data[id]) = 1 /\ trail[k].reason = id /\ trail[k].level = 0 /\ k \in DOMAIN trail)'
    BY <2>1, <2>3, <2>4
  <2> QED BY <2>1, <2>4, <2>5 DEF WaitsAt, SecondLast, IsReason
<1>2. CASE Keeps(n)
  <2>1. \A v \in Var : unit_facts'[v] = IF v \in Above \cup Popped(n) THEN <<>> ELSE unit_facts[v]
    BY <1>2 DEF Keeps
  <2>2. ASSUME NEW v \in Var, NEW id \in Range(unit_facts'[v])
        PROVE  \E k \in DOMAIN trail' : VarOf(trail'[k].lit) = v /\ WaitsAt(id, k)'
    <3>1. v \notin Above /\ v \notin Popped(n) /\ id \in Range(unit_facts[v])
      BY <2>1, <2>2 DEF Range
    <3> QED BY <1>1, <2>2, <3>1 DEF Waits
  <2> QED BY <2>2 DEF UnitFactsWait
<1>3. ASSUME NEW l, Adds(l), n = Bottom PROVE UnitFactsWait'
  <2>1. /\ l \in Lit /\ Len(data) + 1 \notin DOMAIN data
        /\ unit_facts'[VarOf(l)] = <<Len(data) + 1>>
        /\ \A v \in Var \ {VarOf(l)} : unit_facts'[v] = IF v \in Above THEN <<>> ELSE unit_facts[v]
    BY <1>3, AddsRoot
  <2>2. data'[Len(data) + 1] = <<l>> /\ Len(data) + 1 \in Nat
    <3>1. data' = Append(data, <<l>>)
      BY <1>3 DEF Adds
    <3> QED BY <3>1, AppendedSame
  <2>3. ASSUME NEW v \in Var, NEW id \in Range(unit_facts'[v])
        PROVE  \E k \in DOMAIN trail' : VarOf(trail'[k].lit) = v /\ WaitsAt(id, k)'
    <3>1. CASE v # VarOf(l)
      <4>1. v \notin Above /\ id \in Range(unit_facts[v]) /\ v \notin Popped(n)
        BY <1>0, <1>3, <2>1, <2>3, <3>1 DEF Range, Popped
      <4> QED BY <1>1, <2>3, <4>1 DEF Waits
    <3>2. CASE v = VarOf(l)
      <4>1. id = Len(data) + 1
        BY <2>1, <2>3, <3>2 DEF Range
      <4>2. LevelZero \in Seq(TrailEntry) /\ Len(LevelZero) = Bottom
        BY InvBottom DEF Trails
      <4>3. [lit |-> l, level |-> 0, reason |-> Len(data) + 1, decision |-> FALSE] \in TrailEntry
        BY <2>1, <2>2 DEF TrailEntry
      <4>4. Bottom + 1 \in DOMAIN trail' /\ trail'[Bottom + 1].lit = l /\ trail'[Bottom + 1].level = 0
            /\ trail'[Bottom + 1].reason = id
        BY <1>0, <1>3, <4>1, <4>2, <4>3 DEF Adds
      <4>5. PICK k : k = Bottom + 1
        OBVIOUS
      <4>6. (/\ Len(data[id]) = 1 /\ trail[k].reason = id /\ trail[k].level = 0 /\ k \in DOMAIN trail)'
        <5>1. Len(data'[id]) = 1
          <6>1. data'[id] = <<l>>
            BY <2>2, <4>1
          <6> QED BY <6>1
        <5> QED BY <4>4, <4>5, <5>1
      <4>7. WaitsAt(id, k)'
        BY <4>6 DEF WaitsAt, SecondLast, IsReason
      <4> QED BY <3>2, <4>4, <4>5, <4>7
    <3> QED BY <3>1, <3>2
  <2> QED BY <2>3 DEF UnitFactsWait
<1> QED BY <1>2, <1>3 DEF RootStep

\* A learned clause waits for the variable it stops at.
LEMMA WaitsLearn ==
  ASSUME Inv, Next, Learn
  PROVE  UnitFactsWait'
<1>0. /\ pc = "learn" /\ pc \in Working /\ trail # <<>> /\ HasLitPos(TopVar)
      /\ UNCHANGED <<trail, decisionLevel, facts, uipClause>> /\ pc' \in {"resolve", "undo"}
  BY LearnFacts DEF Learn, learning
<1>1. PICK c \in Seq(Lit) : /\ Len(c) \in Nat /\ Len(c) >= 1 /\ c[1] = -Top.lit
         /\ Range(c) = Range(uipClause) /\ DistinctVars(c) /\ SecondLast(c)
         /\ data' = Append(data, c)
         /\ unit_facts' = [unit_facts EXCEPT ![TopVar] = <<Len(data) + 1>> \o @]
  BY LearnFacts
<1>2. data'[Len(data) + 1] = c
  BY <1>1, AppendedSame
<1>3. Grows /\ decisionLevel \in Nat
  BY <1>0, InvLevels DEF Grows
<1>4. unit_facts \in [Var -> Seq(Nat)] /\ TopVar \in Var /\ Len(data) + 1 \in Nat
  BY <1>0, <1>1, FactsNow, TopResolves, AppendedSame
<1>5. \A v \in Var : \A id \in Range(unit_facts'[v]) : id \in Range(unit_facts[v]) \/ (id = Len(data) + 1 /\ v = TopVar)
  <2>1. \A v \in Var : v # TopVar => unit_facts'[v] = unit_facts[v]
    BY <1>1, <1>4
  <2>2. unit_facts'[TopVar] = <<Len(data) + 1>> \o unit_facts[TopVar]
    BY <1>1, <1>4
  <2>3. Range(<<Len(data) + 1>> \o unit_facts[TopVar]) = Range(<<Len(data) + 1>>) \cup Range(unit_facts[TopVar])
    <3>1. <<Len(data) + 1>> \in Seq(Nat) /\ unit_facts[TopVar] \in Seq(Nat)
      BY <1>4
    <3> QED BY <3>1, RangeConcat, ZenonT(40)
  <2>4. Range(<<Len(data) + 1>>) = {Len(data) + 1}
    BY DEF Range
  <2> QED BY <2>1, <2>2, <2>3, <2>4
<1>6. ASSUME NEW v \in Var, NEW id \in Range(unit_facts'[v]), id \in Range(unit_facts[v])
      PROVE  \E k \in DOMAIN trail' : VarOf(trail'[k].lit) = v /\ (Live(k)' => WaitsAt(id, k)')
  <2>1. Waits(id, facts', unit_facts')
    BY <1>6 DEF Waits
  <2> QED BY <1>0, <1>3, <1>6, <2>1, WaitsOld DEF Working, Analyzing
<1>7. /\ Top = trail[Len(trail)] /\ Len(trail) \in 1..Len(trail) /\ Len(trail) \in Nat \ {0}
      /\ Top.lit \in Lit /\ TopVar = VarOf(Top.lit) /\ Top.level = decisionLevel
  BY <1>0, TopResolves, InvLevels
<1>8. PICK k : k = Len(trail)
  OBVIOUS
<1>9. PICK id : id = Len(data) + 1
  OBVIOUS
<1>10. WaitsAt(id, k)'
  <2>1. ASSUME NEW n \in 2..Len(c) PROVE FalseBefore(k, c[n])
    <3>1. c[n] \in Range(c) /\ n \in DOMAIN c /\ 1 \in DOMAIN c /\ n # 1 /\ c[n] \in Lit
      BY <1>1, RangeFacts
    <3>2. VarOf(c[n]) # VarOf(c[1])
      BY <1>1, <3>1 DEF DistinctVars
    <3>3. PICK j \in 1..Len(trail) : trail[j].lit = -c[n]
      BY <1>0, <1>1, <3>1, UipFacts, InvTrail DEF IsFalse, IsTrue
    <3>4. j # Len(trail)
      <4>1. VarOf(c[1]) = VarOf(Top.lit) /\ VarOf(-c[n]) = VarOf(c[n])
        BY <1>1, <1>7, <3>1, LitFacts
      <4> QED BY <1>7, <3>2, <3>3, <4>1
    <3>5. j \in 1..(k - 1)
      BY <1>7, <1>8, <3>3, <3>4
    <3> QED BY <3>3, <3>5 DEF FalseBefore
  <2>2. data'[id] = c
    BY <1>2, <1>9
  <2>3. (\A n \in 2..Len(data[id]) : FalseBefore(k, data[id][n]))'
    BY <1>0, <2>1, <2>2 DEF FalseBefore
  <2>4. SecondLast(data[id])'
    BY <1>0, <1>1, <2>2 DEF SecondLast, LevelOf
  <2>5. trail'[k].level # 0
    <3>1. decisionLevel >= 1
      BY <1>0 DEF Inv, Counted
    <3> QED BY <1>0, <1>3, <1>7, <1>8, <3>1
  <2>6. (pc \in {"resolve", "undo"} /\ k = Len(trail) /\ HasLitPos(TopVar) /\ data[id][1] = -Top.lit)'
    <3>1. HasLitPos(TopVar)' /\ Top' = Top
      BY <1>0 DEF HasLitPos, TopVar, Top, VarsOf
    <3> QED BY <1>0, <1>1, <1>8, <2>2, <3>1
  <2> QED BY <2>3, <2>4, <2>5, <2>6 DEF WaitsAt
<1>11. ASSUME NEW v \in Var, NEW x \in Range(unit_facts'[v]), x \notin Range(unit_facts[v])
       PROVE  \E j \in DOMAIN trail' : VarOf(trail'[j].lit) = v /\ (Live(j)' => WaitsAt(x, j)')
  <2>1. x = id /\ v = TopVar
    BY <1>5, <1>9, <1>11
  <2>2. k \in DOMAIN trail' /\ VarOf(trail'[k].lit) = v
    BY <1>0, <1>7, <1>8, <2>1
  <2> QED BY <1>10, <2>1, <2>2
<1> QED BY <1>6, <1>11 DEF UnitFactsWait

\* After propagation the facts wait for the variable the analysis stopped at.
LEMMA WaitsDone ==
  ASSUME Inv, Next, FactsDone, decisionLevel > 0
  PROVE  UnitFactsWait'
<1>0. /\ pc = "facts" /\ pc' = "bcp" /\ UNCHANGED <<trail, decisionLevel, data, propq>> /\ facts' = <<>>
      /\ i > Len(facts) /\ i \in Nat /\ Len(facts) \in Nat
  <2>1. i \in Nat /\ facts \in Seq(Nat)
    BY FactsNow DEF Inv, TypeOK
  <2> QED BY <2>1, FactsDoneFacts DEF FactsDone, clauses
<1>1. uipLit \in Lit /\ VarOf(uipLit) \in Var /\ unit_facts' = [unit_facts EXCEPT ![VarOf(uipLit)] = @ \o facts]
      /\ \A n \in 1..Len(facts) : ImpliedFact(facts[n])
  BY FactsDoneFacts, InvLevels
<1>2. facts \in Seq(Nat) /\ unit_facts \in [Var -> Seq(Nat)] /\ propq \in Nat /\ Len(trail) \in Nat /\ DOMAIN trail = 1..Len(trail)
  BY FactsNow, SeenFacts, InvTrail
<1>3. Grows
  BY <1>0 DEF Grows
<1>4. PICK k \in (propq + 1)..Len(trail) : trail[k].lit = uipLit
  <2>1. \/ \E k \in (propq + 1)..Len(trail) : trail[k].lit = uipLit
        \/ \E n \in 1..Len(facts) : n >= i
    BY <1>0 DEF Inv, Propagating
  <2> QED BY <1>0, <2>1
<1>5. k \in 1..Len(trail) /\ trail[k].level = decisionLevel
  BY <1>2, <1>4 DEF Inv, UnseenCurrent
<1>6. \A v \in Var : \A id \in Range(unit_facts'[v]) : id \in Range(unit_facts[v]) \/ (id \in Range(facts) /\ v = VarOf(uipLit))
  <2>1. \A v \in Var : v # VarOf(uipLit) => unit_facts'[v] = unit_facts[v]
    BY <1>1, <1>2
  <2>2. unit_facts'[VarOf(uipLit)] = unit_facts[VarOf(uipLit)] \o facts
    BY <1>1, <1>2
  <2>3. Range(unit_facts[VarOf(uipLit)] \o facts) = Range(unit_facts[VarOf(uipLit)]) \cup Range(facts)
    BY <1>1, <1>2, RangeConcat
  <2> QED BY <2>1, <2>2, <2>3
<1>7. ASSUME NEW v \in Var, NEW id \in Range(unit_facts'[v]), id \in Range(unit_facts[v])
      PROVE  \E j \in DOMAIN trail' : VarOf(trail'[j].lit) = v /\ (Live(j)' => WaitsAt(id, j)')
  <2>1. Waits(id, facts', unit_facts')
    BY <1>7 DEF Waits
  <2> QED BY <1>0, <1>3, <1>7, <2>1, WaitsOld DEF Working, Analyzing
<1>8. ASSUME NEW id \in Range(facts) PROVE WaitsAt(id, k)'
  <2>1. PICK n \in 1..Len(facts) : facts[n] = id
    BY <1>2, <1>8 DEF Range
  <2>2. ImpliedFact(id)
    BY <1>1, <2>1
  <2>3. PICK j \in (propq + 1)..Len(trail) : trail[j].reason = id
    BY <2>2 DEF ImpliedFact
  <2>4. j \in 1..Len(trail) /\ trail[j].level = trail[k].level
    BY <1>2, <1>5, <2>3 DEF Inv, UnseenCurrent
  <2>5. (IsReason(id, trail[k].level))'
    BY <1>0, <1>2, <2>3, <2>4 DEF IsReason
  <2>6. ASSUME NEW m \in 2..Len(data[id]) PROVE FalseBefore(k, data[id][m])
    <3>1. IsFalse(Seen, data[id][m])
      BY <2>2 DEF ImpliedFact
    <3>2. PICK q \in 1..propq : trail[q].lit = -data[id][m]
      BY <3>1, SeenFacts DEF IsFalse
    <3>3. q \in 1..(k - 1)
      BY <1>2, <1>4, <3>2
    <3> QED BY <3>2, <3>3 DEF FalseBefore
  <2>7. (\A m \in 2..Len(data[id]) : FalseBefore(k, data[id][m]))'
    BY <1>0, <2>6 DEF FalseBefore
  <2>8. SecondLast(data[id])'
    <3>1. SecondLast(data[id])
      BY <2>2 DEF ImpliedFact
    <3> QED BY <1>0, <3>1 DEF SecondLast, LevelOf
  <2>9. trail'[k].level # 0
    BY <1>0, <1>5, InvLevels
  <2> QED BY <2>5, <2>7, <2>8, <2>9 DEF WaitsAt
<1> QED BY <1>0, <1>1, <1>2, <1>4, <1>5, <1>6, <1>7, <1>8 DEF UnitFactsWait

\* Every step keeps every unit with the variable it waits for.
LEMMA WaitsNext ==
  ASSUME Inv, Next
  PROVE  UnitFactsWait'
<1>1. ASSUME Grows, unit_facts' = unit_facts,
             pc \in Working => /\ pc \notin {"resolve", "undo"} /\ trail' = trail /\ decisionLevel' = decisionLevel
                               /\ pc' \in Working \/ pc' = "idle"
      PROVE  UnitFactsWait'
  <2>1. ASSUME NEW v \in Var, NEW id \in Range(unit_facts'[v])
        PROVE  \E j \in DOMAIN trail' : VarOf(trail'[j].lit) = v /\ (Live(j)' => WaitsAt(id, j)')
    <3>1. Waits(id, facts', unit_facts') /\ id \in Range(unit_facts[v])
      BY <1>1, <2>1 DEF Waits
    <3> QED BY <1>1, <2>1, <3>1, WaitsOld
  <2> QED BY <2>1 DEF UnitFactsWait
<1>2. CASE Quiet
  BY <1>1, <1>2, StepGrows DEF Quiet, Working, Analyzing
<1>3. CASE Recount
  BY <1>1, <1>3 DEF Recount, assignment, Grows, Working, Analyzing
<1>4. CASE Refuted
  BY <1>1, <1>4 DEF Refuted, Finish, assignment, Grows, Working, Analyzing
<1>5. CASE Conflict
  BY <1>1, <1>5, ConflictFacts DEF Conflict, assignment, Grows, Working, Analyzing
<1>6. CASE PropagateFact
  <2>1. Stays \/ PushesImplied
    BY <1>6, PropagatePushes
  <2>2. pc = "facts" /\ unit_facts' = unit_facts
    BY <1>6, PropagateFactCases DEF FactIsWatched, FactIsImplied, assignment, TrailPush
  <2> QED BY <1>1, <2>1, <2>2, StepGrows DEF Working, Analyzing
<1>7. CASE FactsDone /\ decisionLevel = 0
  <2>1. unit_facts' = unit_facts /\ pc = "facts" /\ Grows
    BY <1>7, FactsDoneFacts DEF FactsDone, Grows
  <2> QED BY <1>1, <2>1 DEF Working, Analyzing
<1>8. decisionLevel = 0 \/ decisionLevel > 0
  BY InvLevels
<1> QED BY <1>2, <1>3, <1>4, <1>5, <1>6, <1>7, <1>8, StepCases, WaitsDone, WaitsLearn, WaitsRoot, WaitsPop DEF PopStep

-----------------------------------------------------------------------------
(* The analysis.                                                            *)

\* The steps into and within the analysis.
LEMMA WorkingCases ==
  ASSUME Inv, Next, pc' \in Working
  PROVE  \/ /\ Conflict /\ pc = "conflict" /\ decisionLevel > 0 /\ conflictClause \in DOMAIN data
            /\ StartAnalysis(conflictClause) /\ UNCHANGED <<trail, decisionLevel, data, unit_facts>>
         \/ /\ pc \in Working /\ pc # "undo"
            /\ Recount \/ Learn \/ SkipLiteral \/ ResolveReason
<1>0. pc' \notin {"idle", "bcp", "conflict", "facts"}
  BY DEF Working, Analyzing
<1>1. CASE Conflict
  BY <1>0, <1>1, ConflictFacts DEF Finish, Conflict, assignment, clauses
<1>2. CASE Undo
  <2>1. pc' = "facts"
    BY <1>2 DEF Undo, Inv, Counted
  <2> QED BY <1>0, <2>1
<1>3. CASE FactsDone \/ PropagateFact
  <2>1. pc' \in {"facts", "bcp"}
    BY <1>3, PropagateFactCases DEF FactsDone, FactIsWatched, FactIsImplied
  <2> QED BY <1>0, <2>1
<1>4. CASE Refuted
  BY <1>0, <1>4 DEF Refuted, Finish
<1>5. CASE Recount \/ Learn \/ SkipLiteral \/ ResolveReason
  <2>1. pc \in {"recount", "learn", "resolve"}
    BY <1>5 DEF Recount, Learn, SkipLiteral, CanSkip, Skips, ResolveReason
  <2> QED BY <1>5, <2>1 DEF Working, Analyzing
<1> QED BY <1>0, <1>1, <1>2, <1>3, <1>4, <1>5, StepCases DEF RootStep, Quiet

\* What is false below the last literal stays so when it is popped.
LEMMA FalseStays ==
  ASSUME Inv, Pops, NEW l \in Lit
  PROVE  /\ IsFalse(trail, l) /\ VarOf(l) # TopVar => IsFalse(trail', l)
         /\ FalseBefore(Len(trail), l) => IsFalse(trail', l)
         /\ IsTrue(trail', l) => IsTrue(trail, l)
         /\ IsFalse(trail', l) => IsFalse(trail, l)
<1>1. /\ Len(trail) \in Nat \ {0} /\ DOMAIN trail = 1..Len(trail) /\ DOMAIN trail' = 1..(Len(trail) - 1)
      /\ \A k \in 1..(Len(trail) - 1) : trail'[k] = trail[k] /\ k \in 1..Len(trail)
      /\ TopVar = VarOf(trail[Len(trail)].lit)
  BY InvTrail, PopFacts, TrailTypes DEF TopVar, Top
<1>2. FalseBefore(Len(trail), l) => IsFalse(trail', l)
  BY <1>1 DEF FalseBefore, IsFalse, IsTrue
<1>3. ASSUME IsFalse(trail, l), VarOf(l) # TopVar PROVE IsFalse(trail', l)
  <2>1. PICK j \in 1..Len(trail) : trail[j].lit = -l
    BY <1>1, <1>3 DEF IsFalse, IsTrue
  <2>2. j # Len(trail)
    BY <1>1, <1>3, <2>1, LitFacts, ZenonT(40)
  <2>3. j \in 1..(Len(trail) - 1)
    <3>1. Len(trail) \in Nat
      BY <1>1
    <3> QED BY <2>2, <3>1, Below
  <2> QED BY <1>1, <2>1, <2>3 DEF IsFalse, IsTrue
<1> QED BY <1>1, <1>2, <1>3 DEF IsFalse, IsTrue

\* Every step keeps the clause under analysis false.
LEMMA UipNext ==
  ASSUME Inv, Next
  PROVE  UipFalse'
<1> SUFFICES ASSUME pc' \in Working PROVE DistinctVars(uipClause') /\ \A l \in Range(uipClause') : IsFalse(trail', l)
  BY DEF UipFalse, Working, Analyzing, DistinctVars
<1>1. CASE Conflict /\ pc = "conflict" /\ conflictClause \in DOMAIN data
           /\ StartAnalysis(conflictClause) /\ UNCHANGED trail
  BY <1>1 DEF StartAnalysis, Inv, Control, ClausesDistinct
<1>2. CASE pc \in Working /\ (Recount \/ Learn)
  BY <1>2, UipFacts DEF Recount, Learn, assignment, learning
<1>3. CASE pc \in Working /\ SkipLiteral
  <2>1. uipClause' = uipClause /\ Pops /\ ~HasLitPos(TopVar)
    BY <1>3, PopStepFacts DEF SkipLiteral, PopStep
  <2>2. \A l \in Range(uipClause) : l \in Lit /\ IsFalse(trail, l) /\ VarOf(l) # TopVar
    BY <1>3, <2>1, UipFacts DEF HasLitPos
  <2> QED BY <1>3, <2>1, <2>2, UipFacts, FalseStays
<1>4. CASE pc \in Working /\ ResolveReason
  <2>1. Pops /\ trail # <<>> /\ DistinctVars(uipClause')
    BY <1>4, ResolveFacts
  <2>2. ASSUME NEW l \in Range(uipClause') PROVE IsFalse(trail', l)
    <3>1. l \in Range(uipClause) \/ l \in Rest(Top.reason)
      BY <1>4, <2>2, ResolveFacts
    <3>2. l # -Top.lit
      BY <1>4, <2>2, ResolveFacts
    <3>3. CASE l \in Range(uipClause)
      BY <1>4, <2>1, <3>2, <3>3, UipFacts, TopResolves, FalseStays
    <3>4. CASE l \in Rest(Top.reason)
      <4>1. l \in Lit /\ FalseBefore(Len(trail), l)
        BY <1>4, <3>4, ResolveFacts
      <4> QED BY <2>1, <4>1, FalseStays
    <3> QED BY <3>1, <3>3, <3>4
  <2> QED BY <2>1, <2>2
<1> QED BY <1>1, <1>2, <1>3, <1>4, WorkingCases

\* The counter counts literals, in this state and the next.
LEMMA CountState == uipClause \in Seq(Lit) /\ DistinctVars(uipClause) =>
  AtCurrentLevel(uipClause) = Cardinality(Range(uipClause) \cap Current)
<1> SUFFICES ASSUME uipClause \in Seq(Lit), DistinctVars(uipClause)
             PROVE  AtCurrentLevel(uipClause) = Cardinality(Range(uipClause) \cap Current)
  OBVIOUS
<1> QED BY AtCurrentLits

\* The literals of the resolved clause keep their levels when others are popped.
LEMMA CountSame ==
  ASSUME Inv, Next, Pops, pc' \in Working, decisionLevel' = decisionLevel
  PROVE  AtCurrentLevel(uipClause)' = Cardinality(Range(uipClause') \cap Current)
<1>1. uipClause' \in Seq(Lit) /\ DistinctVars(uipClause') /\ \A l \in Range(uipClause') : IsFalse(trail', l)
  BY TypeNext, UipNext DEF TypeOK, UipFalse, Working, Analyzing, DistinctVars
<1>2. AtCurrentLevel(uipClause)' = Cardinality(Range(uipClause') \cap Current')
  <2>1. (uipClause \in Seq(Lit) /\ DistinctVars(uipClause) =>
           AtCurrentLevel(uipClause) = Cardinality(Range(uipClause) \cap Current))'
    BY CountState, PTL
  <2>2. (uipClause \in Seq(Lit) /\ DistinctVars(uipClause))'
    BY <1>1 DEF DistinctVars
  <2>3. (AtCurrentLevel(uipClause) = Cardinality(Range(uipClause) \cap Current))'
    BY <2>1, <2>2
  <2> QED BY <2>3 DEF Range
<1>3. ASSUME NEW l \in Range(uipClause') PROVE l \in Current' <=> l \in Current
  <2>1. l \in Lit
    BY <1>1, RangeFacts
  <2>2. /\ \A k \in 1..(Len(trail) - 1) : trail'[k] = trail[k] /\ k \in 1..Len(trail)
        /\ DOMAIN trail' = 1..(Len(trail) - 1) /\ Len(trail') = Len(trail) - 1
    BY PopFacts, TrailTypes
  <2>3. PICK j \in 1..(Len(trail) - 1) : trail'[j].lit = -l
    BY <1>1, <2>2 DEF IsFalse, IsTrue
  <2>4. VarOf(trail[j].lit) = VarOf(l) /\ j \in 1..Len(trail) /\ j \in 1..Len(trail') /\ trail'[j] = trail[j]
    BY <2>1, <2>2, <2>3, LitFacts
  <2>5. LevelOf(VarOf(l))' = LevelOf(VarOf(l))
    BY <2>4, LevelSame
  <2> QED BY <2>1, <2>5 DEF Current
<1>4. Range(uipClause') \cap Current' = Range(uipClause') \cap Current
  BY <1>3
<1> QED BY <1>2, <1>4

\* A literal of the resolved clause at the current level.
LEMMA SomeCurrent ==
  ASSUME Inv, pc \in Working, AtCurrentLevel(uipClause) >= 1
  PROVE  \E l \in Range(uipClause) : l \in Lit /\ IsFalse(trail, l) /\ LevelOf(VarOf(l)) = decisionLevel
<1>1. uipClause \in Seq(Lit) /\ DistinctVars(uipClause) /\ Range(uipClause) \subseteq Lit
  BY UipFacts
<1>2. AtCurrentLevel(uipClause) = Cardinality(Range(uipClause) \cap Current)
  BY <1>1, CountState
<1>3. Range(uipClause) \cap Current # {}
  <2>1. Cardinality({}) = 0
    BY FS_EmptySet
  <2> QED BY <1>2, <2>1
<1> QED BY <1>1, <1>3, UipFacts DEF Current

\* A literal of the current level is counted.
LEMMA CountPositive ==
  ASSUME Inv, NEW d \in Seq(Lit), DistinctVars(d), NEW l \in Range(d), LevelOf(VarOf(l)) = decisionLevel
  PROVE  AtCurrentLevel(d) >= 1 /\ AtCurrentLevel(d) \in Nat
<1>1. IsFiniteSet(Range(d) \cap Current) /\ AtCurrentLevel(d) = Cardinality(Range(d) \cap Current) /\ AtCurrentLevel(d) \in Nat
  BY AtCurrentLits
<1>2. l \in Range(d) \cap Current
  BY RangeFacts DEF Current
<1>3. Cardinality(Range(d) \cap Current) # 0
  BY <1>1, <1>2, FS_EmptySet
<1> QED BY <1>1, <1>3

\* resolveWithPos counts what it adds and drops.
LEMMA CountResolved ==
  ASSUME Inv, Next, ResolveReason
  PROVE  Cardinality(Range(uipClause') \cap Current) =
           AtCurrentLevel(uipClause) - 1 + AtCurrentLevel(Fresh(data[Top.reason]))
<1>0. /\ pc = "resolve" /\ pc \in Working /\ trail # <<>> /\ HasLitPos(TopVar)
      /\ uipClause' = Resolvent(TopVar, data[Top.reason])
  BY ResolveFacts DEF ResolveReason
<1>1. uipClause \in Seq(Lit) /\ DistinctVars(uipClause) /\ Range(uipClause) \subseteq Lit
      /\ VarsOf(uipClause) = {VarOf(l) : l \in Range(uipClause)}
  BY <1>0, UipFacts
<1>2. PICK d \in Seq(Lit) : d = data[Top.reason] /\ DistinctVars(d)
  BY ResolveFacts
<1>3. PICK v : v = TopVar
  OBVIOUS
<1>4. PICK F : F = Fresh(d)
  OBVIOUS
<1>5. F \in Seq(Lit) /\ DistinctVars(F) /\ Range(F) = {d[n] : n \in {m \in 1..Len(d) : ~HasLitPos(VarOf(d[m]))}}
  BY <1>2, <1>4, FreshFacts
<1>6. Range(uipClause') = {l \in Range(uipClause) \cup Range(F) : VarOf(l) # v}
  <2>1. HasLitPos(v) /\ uipClause' = Resolvent(v, d)
    BY <1>0, <1>2, <1>3
  <2> QED BY <1>1, <1>2, <1>4, <2>1, ResolventFacts
<1>7. \A l \in Range(F) : ~HasLitPos(VarOf(l)) /\ VarOf(l) # v
  BY <1>0, <1>3, <1>5
<1>8. PICK x : x = -Top.lit
  OBVIOUS
<1>9. x \in Range(uipClause) /\ x \in Current /\ \A l \in Range(uipClause) : VarOf(l) = v <=> l = x
  <2>1. x \in Range(uipClause) /\ x \in Lit /\ VarOf(x) = v
    BY <1>0, <1>3, <1>8, TopResolves, LitFacts
  <2>2. \A l \in Range(uipClause) : VarOf(l) = v => l = x
    BY <1>0, <1>3, <1>8, TopResolves
  <2>3. LevelOf(v) = decisionLevel
    BY <1>0, <1>3, TopResolves, InvLevels
  <2> QED BY <2>1, <2>2, <2>3 DEF Current
<1>10. PICK A : A = Range(uipClause) \cap Current
  OBVIOUS
<1>11. PICK B : B = Range(F) \cap Current
  OBVIOUS
<1>12. Range(uipClause') \cap Current = (A \ {x}) \cup B
  BY <1>6, <1>7, <1>9, <1>10, <1>11
<1>13. (A \ {x}) \cap B = {}
  <2>1. \A l \in Range(uipClause) : HasLitPos(VarOf(l))
    BY <1>1 DEF HasLitPos
  <2> QED BY <1>7, <1>10, <1>11, <2>1
<1>14. IsFiniteSet(A) /\ AtCurrentLevel(uipClause) = Cardinality(A) /\ Cardinality(A) \in Nat
  <2>1. IsFiniteSet(Range(uipClause) \cap Current) /\ AtCurrentLevel(uipClause) = Cardinality(Range(uipClause) \cap Current)
        /\ AtCurrentLevel(uipClause) \in Nat
    BY <1>1, AtCurrentLits
  <2> QED BY <1>10, <2>1
<1>15. IsFiniteSet(B) /\ AtCurrentLevel(F) = Cardinality(B) /\ Cardinality(B) \in Nat
  <2>1. IsFiniteSet(Range(F) \cap Current) /\ AtCurrentLevel(F) = Cardinality(Range(F) \cap Current)
        /\ AtCurrentLevel(F) \in Nat
    BY <1>5, AtCurrentLits
  <2> QED BY <1>11, <2>1
<1>16. IsFiniteSet(A \ {x}) /\ Cardinality(A \ {x}) = Cardinality(A) - 1
  BY <1>9, <1>10, <1>14, FS_RemoveElement
<1>17. Cardinality((A \ {x}) \cup B) = Cardinality(A) - 1 + Cardinality(B)
  <2>1. Cardinality((A \ {x}) \cup B) = Cardinality(A \ {x}) + Cardinality(B) - Cardinality((A \ {x}) \cap B)
    BY <1>15, <1>16, FS_Union
  <2>2. Cardinality({}) = 0
    BY FS_EmptySet
  <2>3. Cardinality((A \ {x}) \cap B) = 0
    BY <1>13, <2>2
  <2> QED BY <1>14, <1>15, <1>16, <2>1, <2>3
<1> QED BY <1>2, <1>4, <1>12, <1>14, <1>15, <1>17

\* The parts of Counted after a step.
CountedNow ==
  /\ pc = "resolve" => count >= 1
  /\ pc = "learn" => count = 1
  /\ pc \in {"resolve", "learn"} \/ (pc = "recount" /\ count # 0) =>
       decisionLevel >= 1 /\ count = AtCurrentLevel(uipClause)

\* Skipping a literal keeps the count.
LEMMA CountedSkip ==
  ASSUME Inv, Next, SkipLiteral, pc' \in Working
  PROVE  CountedNow' /\ pc' \notin {"undo", "refuted"}
<1>0. /\ Pops /\ pc \in Working /\ pc' = pc /\ count' = count /\ uipClause' = uipClause /\ ~HasLitPos(TopVar)
      /\ pc \in {"resolve", "learn"} \/ (pc = "recount" /\ count = 0)
  BY PopStepFacts DEF SkipLiteral, CanSkip, Skips, PopStep
<1>1. CASE pc = "recount" /\ count = 0
  BY <1>0, <1>1 DEF CountedNow
<1>2. CASE pc \in {"resolve", "learn"}
  <2>1. count >= 1 /\ count = AtCurrentLevel(uipClause) /\ decisionLevel >= 1 /\ decisionLevel \in Nat
        /\ (pc = "learn" => count = 1)
    BY <1>2, InvLevels DEF Inv, Counted
  <2>2. PICK l \in Range(uipClause) : l \in Lit /\ IsFalse(trail, l) /\ LevelOf(VarOf(l)) = decisionLevel
    BY <1>0, <2>1, SomeCurrent
  <2>3. PICK j \in 1..Len(trail) : trail[j].lit = -l
    BY <2>2, InvTrail DEF IsFalse, IsTrue
  <2>4. VarOf(trail[j].lit) = VarOf(l) /\ trail[j].level = decisionLevel
    BY <2>2, <2>3, LitFacts, InvLevels
  <2>5. j # Len(trail)
    <3>1. VarOf(l) # TopVar
      BY <1>0, <2>2, UipFacts DEF HasLitPos
    <3> QED BY <2>4, <3>1 DEF TopVar, Top
  <2>6. ~Top.decision
    <3>1. Len(trail) \in Nat
      BY InvTrail
    <3>2. j \in 1..(Len(trail) - 1)
      BY <2>3, <2>5, <3>1, Below
    <3> QED BY <1>0, <2>1, <2>4, <3>2, PopUnknown
  <2>7. decisionLevel' = decisionLevel
    BY <1>0, <2>1, <2>6, PopUnknown
  <2>8. AtCurrentLevel(uipClause)' = AtCurrentLevel(uipClause)
    <3>1. AtCurrentLevel(uipClause)' = Cardinality(Range(uipClause') \cap Current)
      BY <1>0, <2>7, CountSame
    <3>2. AtCurrentLevel(uipClause) = Cardinality(Range(uipClause) \cap Current)
      BY <1>0, UipFacts, CountState
    <3> QED BY <1>0, <3>1, <3>2
  <2> QED BY <1>0, <1>2, <2>1, <2>7, <2>8 DEF CountedNow
<1> QED BY <1>0, <1>1, <1>2

\* Resolving keeps the count.
LEMMA CountedResolve ==
  ASSUME Inv, Next, ResolveReason, pc' \in Working
  PROVE  CountedNow' /\ pc' # "undo" /\ (pc' = "refuted" => uipClause' = <<>>)
<1>0. /\ Pops /\ pc = "resolve" /\ pc \in Working /\ Top.reason # NULL
      /\ count' = count - 1 + AtCurrentLevel(Fresh(data[Top.reason]))
      /\ pc' = IF uipClause' = <<>> THEN "refuted" ELSE "recount"
  BY ResolveFacts DEF ResolveReason
<1>1. count = AtCurrentLevel(uipClause) /\ decisionLevel >= 1 /\ decisionLevel \in Nat
  BY <1>0, InvLevels DEF Inv, Counted
<1>2. ~Top.decision
  BY <1>0, <1>1, PopFacts
<1>3. decisionLevel' = decisionLevel
  BY <1>0, <1>1, <1>2, PopUnknown
<1>4. AtCurrentLevel(uipClause)' = Cardinality(Range(uipClause') \cap Current)
  BY <1>0, <1>3, CountSame
<1>5. count' = AtCurrentLevel(uipClause)'
  BY <1>0, <1>1, <1>4, CountResolved
<1> QED BY <1>0, <1>1, <1>3, <1>5 DEF CountedNow

\* The analysis of a conflict starts with the right count.
LEMMA CountedConflict ==
  ASSUME Inv, Next, Conflict, pc = "conflict", decisionLevel > 0, conflictClause \in DOMAIN data,
         StartAnalysis(conflictClause), UNCHANGED <<trail, decisionLevel, data, unit_facts>>
  PROVE  CountedNow' /\ pc' = "resolve"
<1>1. PICK d \in Seq(Lit) : d = data[conflictClause] /\ DistinctVars(d)
  BY DataTypes DEF Inv, ClausesDistinct
<1>2. PICK l \in Range(d) : LevelOf(VarOf(l)) = decisionLevel
  BY <1>1 DEF Inv, Control
<1>3. AtCurrentLevel(d) >= 1 /\ AtCurrentLevel(d) \in Nat
  BY <1>1, <1>2, CountPositive
<1>4. count' = AtCurrentLevel(d) /\ uipClause' = d /\ pc' = "resolve"
  BY <1>1 DEF StartAnalysis
<1>5. AtCurrentLevel(uipClause)' = AtCurrentLevel(d)
  BY <1>4 DEF AtCurrentLevel, LevelOf
<1>6. decisionLevel' >= 1
  BY InvLevels
<1> QED BY <1>3, <1>4, <1>5, <1>6 DEF CountedNow

\* Counting again one level lower gives the right count.
LEMMA CountedRecount ==
  ASSUME Inv, Next, Recount
  PROVE  CountedNow' /\ pc' # "undo" /\ (pc' = "refuted" => decisionLevel' = 0)
<1>0. /\ pc = "recount" /\ pc \in Working /\ UNCHANGED <<trail, decisionLevel, uipClause>>
      /\ count = 0 /\ decisionLevel # 0 => HasLitPos(TopVar)
      /\ count' = IF count = 0 /\ decisionLevel # 0 THEN AtCurrentLevel(uipClause) ELSE count
      /\ pc' = IF ~(count' <= 1) THEN "resolve" ELSE IF decisionLevel = 0 THEN "refuted" ELSE "learn"
  BY DEF Recount, assignment, Working, Analyzing, StopsAt
<1>1. count \in Nat /\ decisionLevel \in Nat /\ uipClause \in Seq(Lit) /\ DistinctVars(uipClause)
  BY <1>0, InvLevels, UipFacts DEF Inv, TypeOK
<1>2. AtCurrentLevel(uipClause) \in Nat
  BY <1>1, AtCurrentNat
<1>3. AtCurrentLevel(uipClause)' = AtCurrentLevel(uipClause)
  BY <1>0 DEF AtCurrentLevel, LevelOf
<1>4. CASE count = 0 /\ decisionLevel # 0
  <2>1. trail # <<>>
    BY <1>4, InvLevels
  <2>2. -Top.lit \in Range(uipClause) /\ LevelOf(VarOf(-Top.lit)) = decisionLevel
    <3>1. -Top.lit \in Range(uipClause) /\ Top.lit \in Lit /\ Top = trail[Len(trail)] /\ Len(trail) \in 1..Len(trail)
      BY <1>0, <1>4, <2>1, TopResolves
    <3>2. VarOf(-Top.lit) = VarOf(Top.lit)
      BY <3>1, LitFacts
    <3>3. LevelOf(VarOf(Top.lit)) = decisionLevel
      BY <2>1, <3>1, InvLevels
    <3> QED BY <3>1, <3>2, <3>3
  <2>3. AtCurrentLevel(uipClause) >= 1
    BY <1>1, <2>2, CountPositive
  <2> QED BY <1>0, <1>1, <1>2, <1>3, <1>4, <2>3 DEF CountedNow
<1>5. CASE count # 0
  <2>1. decisionLevel >= 1 /\ count = AtCurrentLevel(uipClause)
    BY <1>0, <1>5 DEF Inv, Counted
  <2> QED BY <1>0, <1>1, <1>2, <1>3, <1>5, <2>1 DEF CountedNow
<1>6. CASE count = 0 /\ decisionLevel = 0
  BY <1>0, <1>1, <1>6 DEF CountedNow
<1> QED BY <1>4, <1>5, <1>6

\* Learning ends the count.
LEMMA CountedLearn ==
  ASSUME Inv, Next, Learn
  PROVE  Counted'
<1>0. /\ pc = "learn" /\ pc \in Working /\ trail # <<>> /\ HasLitPos(TopVar)
      /\ UNCHANGED <<trail, decisionLevel, uipClause, count>>
      /\ pc' = IF Top.reason # NULL THEN "resolve" ELSE "undo"
  BY LearnFacts DEF Learn, learning
<1>1. count = 1 /\ decisionLevel >= 1 /\ count = AtCurrentLevel(uipClause) /\ decisionLevel \in Nat
  BY <1>0, InvLevels DEF Inv, Counted
<1>2. AtCurrentLevel(uipClause)' = AtCurrentLevel(uipClause)
  BY <1>0 DEF AtCurrentLevel, LevelOf
<1>3. HasLitPos(TopVar)' /\ Top' = Top /\ TopVar' = TopVar
  BY <1>0 DEF HasLitPos, TopVar, Top, VarsOf
<1>4. Top.reason = NULL => Top.decision
  <2>1. Top = trail[Len(trail)] /\ Len(trail) \in 1..Len(trail) /\ Top.level = decisionLevel
    BY <1>0, TopResolves, InvLevels
  <2> QED BY <1>1, <2>1, TrailNow
<1>5. \E id \in Range(unit_facts'[TopVar]) : data'[id][1] = -Top.lit
  <2>1. PICK c \in Seq(Lit) : /\ c[1] = -Top.lit /\ data' = Append(data, c)
                              /\ unit_facts' = [unit_facts EXCEPT ![TopVar] = <<Len(data) + 1>> \o @]
    BY LearnFacts
  <2>2. data'[Len(data) + 1] = c /\ Len(data) + 1 \in Nat
    BY <2>1, AppendedSame
  <2>3. unit_facts \in [Var -> Seq(Nat)] /\ TopVar \in Var
    BY <1>0, FactsNow, TopResolves
  <2>4. unit_facts'[TopVar] = <<Len(data) + 1>> \o unit_facts[TopVar]
    BY <2>1, <2>3
  <2>5. <<Len(data) + 1>> \in Seq(Nat) /\ unit_facts[TopVar] \in Seq(Nat)
    BY <2>2, <2>3
  <2>6. Len(data) + 1 \in Range(<<Len(data) + 1>>)
    BY DEF Range
  <2>7. Len(data) + 1 \in Range(<<Len(data) + 1>> \o unit_facts[TopVar])
    <3>1. PICK s \in Seq(Nat), u \in Seq(Nat) : s = <<Len(data) + 1>> /\ u = unit_facts[TopVar]
      BY <2>5
    <3>2. Range(s \o u) = Range(s) \cup Range(u)
      BY RangeConcat
    <3> QED BY <2>6, <3>1, <3>2
  <2> QED BY <2>1, <2>2, <2>4, <2>7
<1> QED BY <1>0, <1>1, <1>2, <1>3, <1>4, <1>5 DEF Counted

\* Every step keeps the count that of the literals of the current level.
LEMMA CountedNext ==
  ASSUME Inv, Next
  PROVE  Counted'
<1>1. CASE pc' \notin Working
  BY <1>1 DEF Counted, Working, Analyzing
<1>2. CASE pc' \in Working
  <2>1. ASSUME CountedNow', pc' # "undo", pc' = "refuted" => uipClause' = <<>> \/ decisionLevel' = 0
        PROVE  Counted'
    BY <2>1 DEF Counted, CountedNow
  <2> QED BY <1>2, <2>1, WorkingCases, CountedConflict, CountedRecount, CountedLearn, CountedSkip, CountedResolve
<1> QED BY <1>1, <1>2

-----------------------------------------------------------------------------
(* The clauses collected.                                                   *)

\* A pop forgets the level of the top variable only.
LEMMA LevelPop ==
  ASSUME Inv, Next, Pops, NEW v
  PROVE  /\ LevelOf(v)' = IF v = TopVar THEN -1 ELSE LevelOf(v)
         /\ LevelOf(v) \in Nat \cup {-1} /\ LevelOf(v) <= decisionLevel /\ LevelOf(TopVar) = decisionLevel
         /\ decisionLevel \in Nat
<1>1. /\ \A k \in 1..(Len(trail) - 1) : trail'[k] = trail[k] /\ k \in 1..Len(trail)
      /\ Len(trail') = Len(trail) - 1 /\ Len(trail) \in Nat \ {0}
      /\ \A k \in 1..(Len(trail) - 1) : VarOf(trail[k].lit) # TopVar
      /\ Top = trail[Len(trail)] /\ Len(trail) \in 1..Len(trail) /\ Top.level = decisionLevel
      /\ \A k \in 1..Len(trail) : k # Len(trail) => k \in 1..(Len(trail) - 1)
  BY PopFacts
<1>2. CASE v = TopVar
  <2>1. \A k \in 1..Len(trail') : VarOf(trail'[k].lit) # v
    BY <1>1, <1>2
  <2> QED BY <1>1, <1>2, <2>1, LevelNext, InvLevels DEF TopVar
<1>3. CASE v # TopVar /\ \A k \in 1..Len(trail) : VarOf(trail[k].lit) # v
  <2>1. \A k \in 1..Len(trail') : VarOf(trail'[k].lit) # v
    BY <1>1, <1>3
  <2> QED BY <1>1, <1>3, <2>1, LevelNext, InvLevels DEF TopVar
<1>4. CASE v # TopVar /\ \E k \in 1..Len(trail) : VarOf(trail[k].lit) = v
  <2>1. PICK k \in 1..Len(trail) : VarOf(trail[k].lit) = v
    BY <1>4
  <2>2. k \in 1..(Len(trail) - 1)
    BY <1>1, <1>4, <2>1 DEF TopVar
  <2>3. LevelOf(v)' = LevelOf(v)
    BY <1>1, <2>1, <2>2, LevelSame
  <2> QED BY <1>1, <1>4, <2>3, InvLevels DEF TopVar
<1> QED BY <1>2, <1>3, <1>4

\* Clause id, d, when the last literal is popped.
Collects(id, d) ==
  /\ IsUnknown(trail', d[1]) \/ (~Top.decision /\ IsReason(id, decisionLevel)')
  /\ \A n \in 2..Len(d) : ~IsTrue(trail', d[n])
  /\ \A n \in 3..Len(d) :
       LevelOf(VarOf(d[2]))' \in 0..(decisionLevel - 1) =>
         LevelOf(VarOf(d[n]))' \in 0..LevelOf(VarOf(d[2]))'

\* A reason at the current level is popped now or with its decision.
LEMMA ReasonPopped ==
  ASSUME Inv, Next, PopStep, NEW id, IsFact(id), IsReason(id, decisionLevel)
  PROVE  IsUnknown(trail', data[id][1]) \/ (~Top.decision /\ IsReason(id, decisionLevel)')
<1>0. Pops /\ Live(Len(trail))
  BY PopStepFacts DEF Live, Working, Analyzing
<1>1. PICK j \in 1..Len(trail) : trail[j].reason = id /\ trail[j].level = decisionLevel
  BY InvTrail DEF IsReason
<1>2. /\ \A k \in 1..(Len(trail) - 1) : trail'[k] = trail[k] /\ k \in 1..Len(trail)
      /\ DOMAIN trail' = 1..(Len(trail) - 1) /\ Len(trail) \in Nat
      /\ Top = trail[Len(trail)] /\ Len(trail) \in 1..Len(trail) /\ Top.lit \in Lit
  BY <1>0, PopFacts, TrailTypes
<1>3. CASE j = Len(trail)
  <2>1. data[id][1] = Top.lit
    BY <1>0, <1>1, <1>2, <1>3, FactNow, ReasonFacts
  <2> QED BY <1>0, <1>2, <2>1, PopUnknown DEF TopVar
<1>4. CASE j # Len(trail)
  <2>1. j \in 1..(Len(trail) - 1)
    BY <1>2, <1>4, Below
  <2>2. ~Top.decision
    BY <1>0, <1>1, <2>1, PopUnknown, InvLevels
  <2>3. (\E k \in DOMAIN trail : trail[k].reason = id /\ trail[k].level = decisionLevel)'
        \/ decisionLevel' # decisionLevel
    BY <1>1, <1>2, <2>1
  <2>4. j \in DOMAIN trail' /\ trail'[j].reason = id /\ trail'[j].level = decisionLevel /\ decisionLevel' = decisionLevel
    BY <1>0, <1>1, <1>2, <2>1, <2>2, PopUnknown, InvLevels
  <2> QED BY <2>2, <2>4 DEF IsReason
<1> QED BY <1>3, <1>4

\* A fact collected before a pop can still be implied after it.
LEMMA CollectsOld ==
  ASSUME Inv, Next, PopStep, NEW id \in Range(facts)
  PROVE  \A d : d = data[id] => Collects(id, d)
<1>0. Pops /\ pc \in Working /\ IsFact(id)
  BY PopStepFacts DEF IsFact
<1>1. PICK d \in Seq(Lit) : d = data[id] /\ Len(d) \in Nat /\ Len(d) >= 1 /\ \A n \in 1..Len(d) : d[n] \in Lit
  BY <1>0, FactNow
<1>2. /\ IsUnknown(trail, d[1]) \/ (decisionLevel > 0 /\ IsReason(id, decisionLevel))
      /\ \A n \in 2..Len(d) : ~IsTrue(trail, d[n])
      /\ \A n \in 3..Len(d) : LevelOf(VarOf(d[2])) \in 0..(decisionLevel - 1) =>
                                LevelOf(VarOf(d[n])) \in 0..LevelOf(VarOf(d[2]))
  BY <1>0, <1>1 DEF Inv, Collecting
<1>3. IsUnknown(trail', d[1]) \/ (~Top.decision /\ IsReason(id, decisionLevel)')
  <2>1. CASE IsUnknown(trail, d[1])
    BY <1>0, <1>1, <2>1, PopUnknown
  <2>2. CASE IsReason(id, decisionLevel)
    BY <1>0, <1>1, <2>2, ReasonPopped
  <2> QED BY <1>2, <2>1, <2>2
<1>4. ASSUME NEW n \in 2..Len(d) PROVE ~IsTrue(trail', d[n])
  <2>1. n \in 1..Len(d)
    BY <1>1
  <2>2. d[n] \in Lit
    BY <1>1, <2>1
  <2> QED BY <1>0, <1>2, <2>2, FalseStays
<1>5. ASSUME NEW n \in 3..Len(d), LevelOf(VarOf(d[2]))' \in 0..(decisionLevel - 1)
      PROVE  LevelOf(VarOf(d[n]))' \in 0..LevelOf(VarOf(d[2]))'
  <2>1. LevelOf(VarOf(d[2]))' = LevelOf(VarOf(d[2]))
    BY <1>0, <1>5, LevelPop
  <2>2. LevelOf(VarOf(d[n])) \in 0..LevelOf(VarOf(d[2])) /\ LevelOf(VarOf(d[2])) < decisionLevel
    BY <1>2, <1>5, <2>1, LevelPop, <1>0
  <2>3. LevelOf(VarOf(d[n]))' = LevelOf(VarOf(d[n]))
    BY <1>0, <2>2, LevelPop
  <2> QED BY <2>1, <2>2, <2>3
<1> QED BY <1>1, <1>3, <1>4, <1>5 DEF Collects

\* A fact freed by a pop can be implied after it.
LEMMA CollectsTop ==
  ASSUME Inv, Next, PopStep, NEW id \in Range(unit_facts[TopVar])
  PROVE  \A d : d = data[id] => Collects(id, d)
<1>0. Pops /\ pc \in Working /\ pc # "idle" /\ TopVar \in Var
  BY PopStepFacts, PopFacts DEF Working, Analyzing
<1>1. IsFact(id)
  BY <1>0 DEF IsFact
<1>2. PICK d \in Seq(Lit) : d = data[id] /\ Len(d) \in Nat /\ Len(d) >= 1 /\ \A n \in 1..Len(d) : d[n] \in Lit
  BY <1>1, FactNow
<1>3. PICK k \in 1..Len(trail) : VarOf(trail[k].lit) = TopVar /\ WaitsAt(id, k)
  BY <1>0, InvTrail DEF Inv, UnitFactsWait, Live
<1>4. k = Len(trail) /\ Top = trail[Len(trail)] /\ Top.lit \in Lit /\ Top.level = decisionLevel /\ Len(trail) \in 1..Len(trail)
  BY <1>0, <1>3, PopFacts, InvTrail DEF TopVar
<1>5. /\ \A n \in 2..Len(d) : FalseBefore(Len(trail), d[n])
      /\ \A n \in 3..Len(d) : LevelOf(VarOf(d[n])) <= LevelOf(VarOf(d[2]))
  BY <1>2, <1>3, <1>4 DEF WaitsAt, SecondLast
<1>6. \A n \in 2..Len(d) : IsFalse(trail', d[n]) /\ d[n] \in Lit /\ ~IsTrue(trail', d[n])
  <2> SUFFICES ASSUME NEW n \in 2..Len(d) PROVE IsFalse(trail', d[n]) /\ d[n] \in Lit /\ ~IsTrue(trail', d[n])
    OBVIOUS
  <2>1. n \in 1..Len(d)
    BY <1>2
  <2>2. d[n] \in Lit
    BY <1>2, <2>1
  <2>3. IsFalse(trail', d[n])
    BY <1>0, <1>5, <2>2, FalseStays
  <2> QED BY <1>0, <2>2, <2>3, FalseStays, InvTrail
<1>7. IsUnknown(trail', d[1]) \/ (~Top.decision /\ IsReason(id, decisionLevel)')
  <2>0. d[1] \in Lit
    BY <1>2
  <2>1. CASE IsReason(id, trail[k].level)
    BY <1>1, <1>2, <1>4, <2>1, ReasonPopped
  <2>2. CASE IsUnknown(trail, data[id][1])
    BY <1>0, <1>2, <2>0, <2>2, PopUnknown
  <2>3. CASE data[id][1] = -Top.lit
    <3>1. VarOf(d[1]) = TopVar
      BY <1>2, <1>4, <2>3, LitFacts DEF TopVar
    <3> QED BY <1>0, <2>0, <3>1, PopUnknown
  <2> QED BY <1>3, <2>1, <2>2, <2>3 DEF WaitsAt
<1>8. ASSUME NEW n \in 3..Len(d) PROVE LevelOf(VarOf(d[n]))' \in 0..LevelOf(VarOf(d[2]))'
  <2>1. n \in 2..Len(d) /\ 2 \in 2..Len(d)
    BY <1>2
  <2>2. \A m \in 2..Len(d) : VarOf(d[m]) # TopVar /\ LevelOf(VarOf(d[m])) # -1
    <3> SUFFICES ASSUME NEW m \in 2..Len(d) PROVE VarOf(d[m]) # TopVar /\ LevelOf(VarOf(d[m])) # -1
      OBVIOUS
    <3>1. PICK j \in 1..(Len(trail) - 1) : trail[j].lit = -d[m]
      BY <1>5 DEF FalseBefore
    <3>2. VarOf(trail[j].lit) = VarOf(d[m]) /\ j \in 1..Len(trail) /\ VarOf(trail[j].lit) # TopVar
      BY <1>0, <1>6, <3>1, LitFacts, PopFacts
    <3> QED BY <3>2, InvLevels
  <2>3. \A m \in 2..Len(d) : LevelOf(VarOf(d[m]))' = LevelOf(VarOf(d[m])) /\ LevelOf(VarOf(d[m])) \in Nat
    BY <1>0, <2>2, LevelPop
  <2> QED BY <1>5, <2>1, <2>3
<1> QED BY <1>2, <1>6, <1>7, <1>8 DEF Collects

\* Every fact collected after a pop can be implied.
LEMMA PopCollects ==
  ASSUME Inv, Next, PopStep, NEW id \in Range(facts')
  PROVE  /\ \A d : d = data[id] => Collects(id, d)
         /\ IsFact(id) /\ data'[id] = data[id]
         /\ id \in Range(facts) \/ id \in Range(unit_facts[TopVar])
<1>0. Pops /\ data' = data
  BY PopStepFacts
<1>1. facts \in Seq(Nat) /\ unit_facts[TopVar] \in Seq(Nat) /\ TopVar \in Var
  BY <1>0, FactsNow, PopFacts
<1>2. facts' = facts \o unit_facts[TopVar]
  BY <1>0, PopUnknown
<1>3. id \in Range(facts) \/ id \in Range(unit_facts[TopVar])
  <2>1. PICK s \in Seq(Nat), u \in Seq(Nat) : s = facts /\ u = unit_facts[TopVar]
    BY <1>1
  <2>2. Range(s \o u) = Range(s) \cup Range(u)
    BY RangeConcat
  <2> QED BY <1>2, <2>1, <2>2
<1>4. IsFact(id)
  BY <1>1, <1>3 DEF IsFact
<1> QED BY <1>0, <1>3, <1>4, CollectsOld, CollectsTop

\* Every step keeps the collected facts ready.
LEMMA CollectingNext ==
  ASSUME Inv, Next
  PROVE  Collecting'
<1> DEFINE Good(id, d) ==
      /\ IsUnknown(trail', d[1]) \/ (decisionLevel' > 0 /\ IsReason(id, decisionLevel)')
      /\ \A n \in 2..Len(d) : ~IsTrue(trail', d[n])
      /\ \A n \in 3..Len(d) :
           LevelOf(VarOf(d[2]))' \in 0..(decisionLevel' - 1) =>
             LevelOf(VarOf(d[n]))' \in 0..LevelOf(VarOf(d[2]))'
<1>1. ASSUME pc' \in Working => uipLit' = 0 /\ \A id \in Range(facts') : \A d : d = data'[id] => Good(id, d)
      PROVE  Collecting'
  <2> SUFFICES ASSUME pc' \in Working, NEW id \in Range(facts')
               PROVE  (LET d == data[id] IN
         /\ IsUnknown(trail, d[1]) \/ (decisionLevel > 0 /\ IsReason(id, decisionLevel))
         /\ \A n \in 2..Len(d) : ~IsTrue(trail, d[n])
         /\ \A n \in 3..Len(d) :
              LevelOf(VarOf(d[2])) \in 0..(decisionLevel - 1) =>
                LevelOf(VarOf(d[n])) \in 0..LevelOf(VarOf(d[2])))'
    BY <1>1 DEF Collecting, Working, Analyzing
  <2>1. PICK d : d = data'[id]
    OBVIOUS
  <2>2. Good(id, d)
    BY <1>1, <2>1
  <2> QED BY <2>1, <2>2 DEF LevelOf, IsReason
<1>2. CASE pc' \notin Working
  BY <1>1, <1>2
<1>3. CASE Conflict /\ StartAnalysis(conflictClause) /\ pc' \in Working
  BY <1>1, <1>3 DEF StartAnalysis, Range
<1>4. CASE pc' \in Working /\ pc \in Working /\ (Recount \/ Learn)
  <2>1. UNCHANGED <<trail, decisionLevel, facts, uipLit>>
    BY <1>4 DEF Recount, Learn, assignment, learning
  <2>2. ASSUME NEW id \in Range(facts') PROVE data'[id] = data[id]
    <3>1. IsFact(id) /\ Waits(id, facts', unit_facts')
      BY <2>1, <2>2 DEF IsFact, Waits
    <3> QED BY <3>1, FactSame
  <2>3. \A v : LevelOf(v)' = LevelOf(v)
    BY <2>1 DEF LevelOf
  <2>4. \A id : IsReason(id, decisionLevel)' <=> IsReason(id, decisionLevel)
    BY <2>1 DEF IsReason
  <2> QED BY <1>1, <1>4, <2>1, <2>2, <2>3, <2>4 DEF Inv, Collecting
<1>5. CASE pc' \in Working /\ pc \in Working /\ (SkipLiteral \/ ResolveReason)
  <2>1. PopStep /\ Pops /\ uipLit' = uipLit /\ uipLit = 0 /\ decisionLevel >= 1
    BY <1>5, PopStepFacts DEF PopStep, SkipLiteral, ResolveReason, Inv, Collecting
  <2>2. decisionLevel' = decisionLevel - (IF Top.decision THEN 1 ELSE 0) /\ decisionLevel \in Nat
    BY <2>1, PopUnknown, InvLevels
  <2>3. ASSUME NEW id \in Range(facts'), NEW d, d = data'[id] PROVE Good(id, d)
    <3>1. Collects(id, d)
      BY <2>1, <2>3, PopCollects
    <3>2. IsUnknown(trail', d[1]) \/ (decisionLevel' > 0 /\ IsReason(id, decisionLevel)')
      BY <2>1, <2>2, <3>1 DEF Collects
    <3>3. decisionLevel' - 1 <= decisionLevel - 1 /\ decisionLevel' \in Int
      BY <2>2
    <3>4. ASSUME NEW n \in 3..Len(d), LevelOf(VarOf(d[2]))' \in 0..(decisionLevel' - 1)
          PROVE  LevelOf(VarOf(d[n]))' \in 0..LevelOf(VarOf(d[2]))'
      <4>1. LevelOf(VarOf(d[2]))' \in 0..(decisionLevel - 1)
        BY <2>2, <3>3, <3>4
      <4> QED BY <3>1, <4>1 DEF Collects
    <3> QED BY <3>1, <3>2, <3>4 DEF Collects
  <2> QED BY <1>1, <2>1, <2>3
<1> HIDE DEF Good
<1> QED BY <1>2, <1>3, <1>4, <1>5, WorkingCases

-----------------------------------------------------------------------------
(* Clauses that imply opposite literals.                                    *)

\* A clause that waits on a variable when no conflict is analysed is a reason.
LEMMA FactIsReason ==
  ASSUME Inv, pc \notin Working, pc # "idle", NEW v \in Var, NEW f \in Range(unit_facts[v])
  PROVE  \E j \in 1..Len(trail) : trail[j].reason = f /\ data[f][1] = trail[j].lit
<1>0. IsFact(f) /\ f # NULL
  BY FactNow DEF IsFact
<1>1. PICK k \in 1..Len(trail) : VarOf(trail[k].lit) = v /\ WaitsAt(f, k)
  BY InvTrail DEF Inv, UnitFactsWait, Live
<1>2. IsReason(f, trail[k].level)
  BY <1>1 DEF WaitsAt, Working, Analyzing
<1>3. PICK j \in 1..Len(trail) : trail[j].reason = f
  BY <1>2, InvTrail DEF IsReason
<1> QED BY <1>0, <1>3, ReasonFacts DEF Live

\* One that implies an assigned literal when a clause is learned is its reason.
LEMMA FactOfTrue ==
  ASSUME Inv, pc = "learn", NEW f, IsFact(f), NEW k \in 1..Len(trail), data[f][1] = trail[k].lit
  PROVE  trail[k].reason = f
<1>0. f # NULL /\ data[f][1] \in Lit /\ pc \in Working
  BY FactNow DEF Working, Analyzing
<1>1. ~IsUnknown(trail, data[f][1])
  BY InvTrail DEF IsUnknown, IsTrue
<1>2. ASSUME NEW lv, IsReason(f, lv) PROVE trail[k].reason = f
  <2>1. PICK j \in 1..Len(trail) : trail[j].reason = f
    BY <1>2, InvTrail DEF IsReason
  <2>2. data[f][1] = trail[j].lit
    BY <1>0, <2>1, ReasonFacts DEF Live
  <2> QED BY <2>1, <2>2, InvTrail
<1>3. CASE f \in Range(facts)
  BY <1>0, <1>1, <1>2, <1>3 DEF Inv, Collecting
<1>4. CASE f \notin Range(facts)
  <2>1. PICK v \in Var : f \in Range(unit_facts[v])
    BY <1>4 DEF IsFact
  <2>2. PICK n \in 1..Len(trail) : WaitsAt(f, n)
    BY <1>0, <2>1, InvTrail DEF Inv, UnitFactsWait, Live
  <2> QED BY <1>1, <1>2, <2>2 DEF WaitsAt
<1> QED BY <1>3, <1>4

\* The literals of a fact besides its first one.
LEMMA RestFacts ==
  ASSUME Inv, NEW f, IsFact(f)
  PROVE  /\ Rest(f) \subseteq Lit /\ data[f][1] \notin Rest(f)
         /\ \A l \in Rest(f) : VarOf(l) # VarOf(data[f][1])
         /\ Range(data[f]) = Rest(f) \cup {data[f][1]}
<1>1. PICK d : d = data[f]
  OBVIOUS
<1>2. /\ d \in Seq(Lit) /\ Len(d) \in Nat /\ Len(d) >= 1 /\ DistinctVars(d)
      /\ \A n \in 1..Len(d) : d[n] \in Lit
  BY <1>1, FactNow
<1>3. DOMAIN d = 1..Len(d) /\ Range(d) = {d[n] : n \in 1..Len(d)}
  BY <1>2, RangeFacts
<1>4. \A n \in 2..Len(d) : n \in 1..Len(d) /\ n # 1
  BY <1>2
<1>5. 1 \in 1..Len(d) /\ \A n \in 1..Len(d) : n = 1 \/ n \in 2..Len(d)
  BY <1>2
<1>6. Rest(f) = {d[n] : n \in 2..Len(d)}
  BY <1>1 DEF Rest
<1>7. \A n \in 2..Len(d) : VarOf(d[n]) # VarOf(d[1])
  BY <1>2, <1>3, <1>4, <1>5 DEF DistinctVars
<1> QED BY <1>1, <1>2, <1>3, <1>4, <1>5, <1>6, <1>7

\* Nothing new waits but what is learned.
LEMMA FactOld ==
  ASSUME Inv, Next, pc' \notin {"idle", "bcp"}, ~Learn, NEW x, IsFact(x)'
  PROVE  IsFact(x) /\ data'[x] = data[x]
<1>1. Waits(x, facts', unit_facts')
  BY DEF IsFact, Waits
<1>2. ~NewFact(x)
  BY AddsRoot DEF NewFact
<1> QED BY <1>1, <1>2, FactsNext, FactSame

\* When a literal is popped, what was resolved with it, or on it, is undone.
LEMMA UndonePop ==
  ASSUME Inv, Next, PopStep, pc' \notin {"idle", "bcp"}, NEW f, NEW g, IsFact(f), IsFact(g),
         data'[f] = data[f], data'[g] = data[g],
         Undone(f, g) \/ (Resolved(f, g) /\ HasLitPos(TopVar))
  PROVE  Undone(f, g)' /\ \E l \in Rest(f) \cup Rest(g) : IsUnknown(trail', l)
<1>0. Pops /\ pc \in Working /\ trail # <<>>
  BY PopStepFacts DEF Pops
<1>1. \A l \in Rest(f) \cup Rest(g) : l \in Lit
  BY RestFacts
<1>2. \E l \in Rest(f) \cup Rest(g) : IsUnknown(trail', l)
  <2>1. CASE Undone(f, g)
    BY <1>0, <1>1, <2>1, PopUnknown DEF Undone
  <2>2. CASE Resolved(f, g) /\ HasLitPos(TopVar)
    <3>1. -Top.lit \in Range(uipClause) /\ -Top.lit \in Lit /\ VarOf(-Top.lit) = TopVar
      BY <1>0, <2>2, TopResolves, LitFacts
    <3>2. IsUnknown(trail', -Top.lit)
      BY <1>0, <3>1, PopUnknown
    <3> QED BY <2>2, <3>1, <3>2 DEF Resolved
  <2> QED BY <2>1, <2>2
<1>3. Rest(f)' = Rest(f) /\ Rest(g)' = Rest(g)
  BY DEF Rest
<1> QED BY <1>2, <1>3 DEF Undone

\* Two clauses that wait, and what the invariant says of them.
Settled(f, g) == Undone(f, g) \/ Resolved(f, g) \/ Resolving(f, g) \/ Resolving(g, f)

\* During an analysis two facts of opposite literals are not both waiting.
LEMMA SettledNow ==
  ASSUME Inv, pc \in Working, NEW f, NEW g, IsFact(f), IsFact(g), data[f][1] = -data[g][1]
  PROVE  Settled(f, g)
BY FactNow DEF Inv, OppositesResolved, Settled

\* When a conflict is found every clause that waits is a reason.
LEMMA OppositesConflict ==
  ASSUME Inv, Next, pc = "conflict", facts' = <<>>, UNCHANGED <<data, unit_facts>>,
         NEW f, NEW g, IsFact(f)', IsFact(g)', data'[f][1] = -data'[g][1]
  PROVE  FALSE
<1>1. \A x : IsFact(x)' => \E v \in Var : x \in Range(unit_facts[v])
  BY DEF IsFact, Range
<1>2. PICK v \in Var : f \in Range(unit_facts[v])
  BY <1>1
<1>3. PICK w \in Var : g \in Range(unit_facts[w])
  BY <1>1
<1>4. pc \notin Working /\ pc # "idle"
  BY DEF Working, Analyzing
<1>5. PICK j \in 1..Len(trail) : trail[j].reason = f /\ data[f][1] = trail[j].lit
  BY <1>2, <1>4, FactIsReason
<1>6. PICK k \in 1..Len(trail) : trail[k].reason = g /\ data[g][1] = trail[k].lit
  BY <1>3, <1>4, FactIsReason
<1>7. trail[j].lit = -trail[k].lit /\ trail[j].lit \in Lit /\ trail[k].lit \in Lit
  BY <1>5, <1>6, InvTrail
<1>8. j = k
  BY <1>7, InvTrail, LitFacts
<1> QED BY <1>7, <1>8, LitFacts

\* Recount leaves what is settled alone.
LEMMA OppositesRecount ==
  ASSUME Inv, Next, Recount, NEW f, NEW g, IsFact(f)', IsFact(g)', data'[f][1] = -data'[g][1]
  PROVE  Settled(f, g)'
<1>1. UNCHANGED <<trail, uipClause, facts, unit_facts, data>> /\ pc = "recount" /\ pc \in Working
  BY DEF Recount, Working, Analyzing, clauses, assignment
<1>2. IsFact(f) /\ IsFact(g)
  BY <1>1 DEF IsFact
<1>3. Undone(f, g) \/ Resolved(f, g)
  BY <1>1, <1>2, SettledNow DEF Settled, Resolving
<1> QED BY <1>1, <1>3 DEF Settled, Undone, Resolved, Rest, IsUnknown, IsTrue, IsFalse

\* Popping a literal the clause does not mention undoes nothing.
LEMMA OppositesSkip ==
  ASSUME Inv, Next, SkipLiteral, pc' \in Working, NEW f, NEW g, IsFact(f)', IsFact(g)', data'[f][1] = -data'[g][1]
  PROVE  Settled(f, g)'
<1>1. /\ PopStep /\ pc \in Working /\ pc' = pc /\ trail # <<>> /\ ~HasLitPos(TopVar) /\ uipClause' = uipClause
      /\ pc' \notin {"idle", "bcp"} /\ ~Learn
  BY DEF SkipLiteral, PopStep, CanSkip, Skips, Learn, Working, Analyzing
<1>2. IsFact(f) /\ IsFact(g) /\ data'[f] = data[f] /\ data'[g] = data[g]
  BY <1>1, FactOld
<1>3. -Top.lit \notin Range(uipClause)
  BY <1>1, TopResolves
<1>4. Undone(f, g) \/ Resolved(f, g)
  BY <1>1, <1>2, <1>3, SettledNow DEF Settled, Resolving
<1>5. CASE Undone(f, g)
  BY <1>1, <1>2, <1>5, UndonePop DEF Settled
<1>6. CASE Resolved(f, g)
  BY <1>1, <1>2, <1>6 DEF Settled, Resolved, Rest
<1> QED BY <1>4, <1>5, <1>6

\* A resolution settles the two clauses it is about.
LEMMA OppositesResolve ==
  ASSUME Inv, Next, ResolveReason, pc' \in Working, NEW f, NEW g, IsFact(f)', IsFact(g)', data'[f][1] = -data'[g][1]
  PROVE  Settled(f, g)'
<1>1. /\ PopStep /\ pc \in Working /\ trail # <<>> /\ HasLitPos(TopVar) /\ UNCHANGED data
      /\ pc' \notin {"idle", "bcp"} /\ ~Learn
  BY DEF ResolveReason, PopStep, Learn, Working, Analyzing, clauses
<1>2. IsFact(f) /\ IsFact(g) /\ data'[f] = data[f] /\ data'[g] = data[g]
  BY <1>1, FactOld
<1>3. CASE Undone(f, g) \/ Resolved(f, g)
  BY <1>1, <1>2, <1>3, UndonePop DEF Settled
<1>4. ASSUME NEW x, NEW y, IsFact(x), IsFact(y), Resolving(x, y)
      PROVE  Range(uipClause') = Rest(x) \cup Rest(y)
  <2>1. Top.reason = x /\ Range(uipClause) = {-Top.lit} \cup Rest(y) /\ data[y][1] = -Top.lit
    BY <1>4 DEF Resolving
  <2>2. Range(uipClause') = {l \in Range(uipClause) \cup Rest(x) : l # -Top.lit}
    BY <2>1, ResolveFacts
  <2>3. -Top.lit \notin Rest(y)
    BY <1>4, <2>1, RestFacts
  <2>4. /\ Top.lit \in Lit /\ data[x][1] = Top.lit /\ VarOf(-Top.lit) = VarOf(Top.lit)
    BY <1>1, <2>1, ResolveFacts, TopResolves, LitFacts
  <2>5. -Top.lit \notin Rest(x)
    BY <1>4, <2>4, RestFacts
  <2> QED BY <2>1, <2>2, <2>3, <2>5
<1>5. CASE Resolving(f, g) \/ Resolving(g, f)
  <2>1. Range(uipClause') = Rest(f) \cup Rest(g)
    BY <1>2, <1>4, <1>5
  <2> QED BY <1>1, <2>1 DEF Settled, Resolved, Rest
<1> QED BY <1>1, <1>2, <1>3, <1>5, SettledNow DEF Settled

\* A clause learned implies the opposite of what its last literal's reason does,
\* and is resolved with it next.
LEMMA OppositesLearned ==
  ASSUME Inv, Next, Learn, NEW f, IsFact(f), NEW g, g = Len(data) + 1, data[f][1] = -data'[g][1]
  PROVE  Resolving(f, g)'
<1>1. PICK c : c = LearnedClause(Top.lit)
  OBVIOUS
<1>2. /\ c \in Seq(Lit) /\ Len(c) >= 1 /\ c[1] = -Top.lit /\ Range(c) = Range(uipClause)
      /\ data' = Append(data, c) /\ pc = "learn" /\ pc \in Working /\ trail # <<>> /\ HasLitPos(TopVar)
  BY <1>1, LearnFacts
<1>3. data'[g] = c
  BY <1>2, AppendedSame
<1>4. /\ Top = trail[Len(trail)] /\ Len(trail) \in 1..Len(trail) /\ Top.lit \in Lit /\ -(-Top.lit) = Top.lit
  BY <1>2, TopResolves, LitFacts
<1>5. data[f][1] = Top.lit
  BY <1>2, <1>3, <1>4
<1>6. Top.reason = f
  BY <1>2, <1>4, <1>5, FactOfTrue
<1>7. f # NULL
  BY FactNow
<1>8. pc' = "resolve" /\ UNCHANGED <<trail, uipClause>>
  BY <1>6, <1>7 DEF Learn, learning
<1>9. DOMAIN c = 1..Len(c) /\ Range(c) = {c[n] : n \in 1..Len(c)} /\ Len(c) \in Nat
  BY <1>2, RangeFacts
<1>10. \A n \in 1..Len(c) : n = 1 \/ n \in 2..Len(c)
  BY <1>9
<1>11. \A n \in 2..Len(c) : n \in 1..Len(c)
  BY <1>9
<1>12. Range(c) = {c[1]} \cup {c[n] : n \in 2..Len(c)}
  BY <1>2, <1>9, <1>10, <1>11
<1>13. Rest(g)' = {c[n] : n \in 2..Len(c)}
  BY <1>3 DEF Rest
<1>14. Top' = Top
  BY <1>8 DEF Top
<1>15. Range(uipClause') = {-Top.lit} \cup Rest(g)'
  BY <1>2, <1>8, <1>12, <1>13
<1> QED BY <1>2, <1>3, <1>6, <1>8, <1>14, <1>15 DEF Resolving

\* A learned clause settles the facts of opposite literals.
LEMMA OppositesLearn ==
  ASSUME Inv, Next, Learn, NEW f, NEW g, IsFact(f)', IsFact(g)', data'[f][1] = -data'[g][1]
  PROVE  Settled(f, g)'
<1>1. PICK c : c = LearnedClause(Top.lit)
  OBVIOUS
<1>2. /\ c \in Seq(Lit) /\ Len(c) >= 1 /\ c[1] = -Top.lit
      /\ data' = Append(data, c) /\ pc = "learn" /\ pc \in Working /\ trail # <<>>
  BY <1>1, LearnFacts
<1>3. \A x : IsFact(x)' => Waits(x, facts', unit_facts')
  BY DEF IsFact, Waits
<1>4. \A x : NewFact(x) => x = Len(data) + 1
  BY DEF NewFact
<1>5. \A x : IsFact(x)' => IsFact(x) \/ x = Len(data) + 1
  BY <1>3, <1>4, FactsNext, ZenonT(40)
<1>6. \A x : IsFact(x) => data'[x] = data[x] /\ x \in DOMAIN data /\ data[x][1] \in Lit
  BY <1>2, AppendedSame, FactNow
<1>7. data'[Len(data) + 1] = c
  BY <1>2, AppendedSame
<1>8. -(-c[1]) = c[1] /\ c[1] \in Lit /\ -c[1] # c[1]
  BY <1>2, TopResolves, LitFacts
<1>9. CASE IsFact(f) /\ IsFact(g)
  <2>1. data[f][1] = -data[g][1]
    BY <1>6, <1>9
  <2>2. Undone(f, g) \/ Resolved(f, g)
    BY <1>2, <1>9, <2>1, SettledNow DEF Settled, Resolving
  <2>3. UNCHANGED <<trail, uipClause>> /\ Rest(f)' = Rest(f) /\ Rest(g)' = Rest(g)
    BY <1>6, <1>9 DEF Learn, learning, Rest
  <2> QED BY <2>2, <2>3 DEF Settled, Undone, Resolved, IsUnknown, IsTrue, IsFalse
<1>10. CASE IsFact(f) /\ g = Len(data) + 1
  BY <1>6, <1>10, OppositesLearned DEF Settled
<1>11. CASE IsFact(g) /\ f = Len(data) + 1
  <2>1. data[g][1] = -data'[f][1]
    BY <1>6, <1>7, <1>11, LitFacts
  <2> QED BY <1>11, <2>1, OppositesLearned DEF Settled
<1>12. CASE f = Len(data) + 1 /\ g = Len(data) + 1
  BY <1>7, <1>8, <1>12
<1> QED BY <1>5, <1>9, <1>10, <1>11, <1>12

\* Every step keeps facts of opposite literals undone or resolved.
LEMMA OppositesNext ==
  ASSUME Inv, Next
  PROVE  OppositesResolved'
<1> SUFFICES ASSUME pc' \in Working, NEW f \in DOMAIN data', NEW g \in DOMAIN data',
                    IsFact(f)', IsFact(g)', data'[f][1] = -data'[g][1]
             PROVE  Settled(f, g)'
  BY DEF OppositesResolved, Settled
<1>1. ASSUME Conflict, pc = "conflict", StartAnalysis(conflictClause), UNCHANGED <<data, unit_facts>>
      PROVE  FALSE
  BY <1>1, OppositesConflict DEF StartAnalysis
<1> QED BY <1>1, WorkingCases, OppositesRecount, OppositesLearn, OppositesSkip, OppositesResolve

-----------------------------------------------------------------------------
(* propagateFacts.                                                          *)

SeenAt == \A l : IsTrue(Seen, l) <=> \E k \in 1..propq : trail[k].lit = l

\* What bcp has seen, in any state.
LEMMA SeenState == trail \in Trails /\ propq \in 0..Len(trail) => SeenAt
<1> SUFFICES ASSUME trail \in Trails, propq \in 0..Len(trail), NEW l
             PROVE  IsTrue(Seen, l) <=> \E k \in 1..propq : trail[k].lit = l
  BY DEF SeenAt
<1>1. Seen \in Trails /\ Len(Seen) = propq /\ \A k \in 1..propq : Seen[k] = trail[k]
  BY PrefixFacts DEF Seen, Trails
<1>2. DOMAIN Seen = 1..propq
  BY <1>1 DEF Trails
<1> QED BY <1>1, <1>2 DEF IsTrue

\* What bcp has seen after a step.
LEMMA SeenNext ==
  ASSUME Inv, Next
  PROVE  /\ propq' \in 0..Len(trail') /\ DOMAIN trail' = 1..Len(trail') /\ Len(trail') \in Nat
         /\ \A l : IsTrue(Seen', l) <=> \E k \in 1..propq' : trail'[k].lit = l
         /\ \A l : IsTrue(trail', l) <=> \E k \in 1..Len(trail') : trail'[k].lit = l
<1>1. trail' \in Trails /\ propq' \in 0..Len(trail')
  BY TrailNext DEF TrailGood
<1>2. (trail \in Trails /\ propq \in 0..Len(trail) => SeenAt)'
  BY SeenState, PTL
<1>3. SeenAt'
  BY <1>1, <1>2
<1>4. DOMAIN trail' = 1..Len(trail') /\ Len(trail') \in Nat
  BY <1>1 DEF Trails
<1> QED BY <1>1, <1>3, <1>4 DEF SeenAt, IsTrue

\* After the decision of the current level is popped nothing is left to see.
LEMMA SeenUndone ==
  ASSUME Inv, Next, Undo, Top.decision
  PROVE  /\ propq' = Len(trail') /\ \A l : IsTrue(Seen', l) <=> IsTrue(trail', l)
         /\ \A l : IsFalse(Seen', l) <=> IsFalse(trail', l)
         /\ \A l : IsUnknown(Seen', l) <=> IsUnknown(trail', l)
<1>1. Pops /\ trail # <<>>
  BY PopStepFacts DEF PopStep, Pops
<1>2. /\ Len(trail') = Len(trail) - 1 /\ Len(trail) \in Nat \ {0} /\ propq \in 0..Len(trail)
      /\ propq' = IF propq >= Len(trail) THEN Len(trail) - 1 ELSE propq
  BY <1>1, PopFacts, SeenFacts DEF Pops, TrailPop
<1>3. propq >= Len(trail) - 1
  <2> SUFFICES ASSUME propq < Len(trail) - 1
               PROVE  FALSE
    BY <1>2
  <2>1. Len(trail) - 1 \in (propq + 1)..Len(trail) /\ Len(trail) - 1 \in 1..(Len(trail) - 1)
    BY <1>2
  <2>2. trail[Len(trail) - 1].level = decisionLevel
    BY <2>1, TrailNow
  <2>3. trail[Len(trail) - 1].level < decisionLevel
    BY <1>1, <2>1, PopUnknown
  <2> QED BY <2>2, <2>3, InvLevels
<1>4. propq' = Len(trail')
  BY <1>2, <1>3
<1>5. \A l : IsTrue(Seen', l) <=> IsTrue(trail', l)
  BY <1>4, SeenNext
<1> QED BY <1>4, <1>5 DEF IsFalse, IsUnknown

\* The levels of literals after a step.
LEMMA LitLevels ==
  ASSUME Inv, Next, NEW l \in Lit
  PROVE  /\ IsFalse(trail', l) => LevelOf(VarOf(l))' \in 0..decisionLevel'
         /\ LevelOf(VarOf(l))' \in Nat => IsTrue(trail', l) \/ IsFalse(trail', l)
<1>0. /\ trail' \in Trails /\ Leveled(trail', decisionLevel')
      /\ \A k \in 1..Len(trail') : trail'[k].lit \in Lit
  BY TrailNext, TrailTypes DEF TrailGood
<1>1. PICK v : v = VarOf(l)
  OBVIOUS
<1>2. ASSUME IsFalse(trail', l)
      PROVE  LevelOf(v)' \in 0..decisionLevel'
  <2>1. PICK k \in 1..Len(trail') : trail'[k].lit = -l
    BY <1>2, SeenNext DEF IsFalse
  <2>2. v = VarOf(trail'[k].lit)
    BY <1>1, <2>1, LitFacts
  <2>3. LevelOf(v)' = trail'[k].level
    BY <2>2, LevelNext
  <2>4. decisionLevel' \in Nat /\ trail'[k].level \in Nat /\ trail'[k].level <= decisionLevel'
    BY <1>0, LevelFacts
  <2> QED BY <2>3, <2>4
<1>3. ASSUME LevelOf(v)' \in Nat
      PROVE  IsTrue(trail', l) \/ IsFalse(trail', l)
  <2>1. -1 \notin Nat
    OBVIOUS
  <2>2. PICK k \in 1..Len(trail') : VarOf(trail'[k].lit) = v
    BY <1>3, <2>1, LevelNext
  <2>3. trail'[k].lit = l \/ trail'[k].lit = -l
    BY <1>0, <1>1, <2>2, LitFacts
  <2> QED BY <2>2, <2>3, SeenNext DEF IsFalse
<1> QED BY <1>1, <1>2, <1>3

UndoneTo == Undo /\ Top.decision

\* The clauses collected are ready to be tried when the level is popped.
LEMMA UndoneReady ==
  ASSUME Inv, Next, UndoneTo, NEW id \in Range(facts')
  PROVE  \A d : d = data'[id] => Ready(d)'
<1>0. PopStep /\ Pops /\ IsFact(id) /\ data'[id] = data[id]
  BY PopStepFacts, PopCollects DEF UndoneTo, PopStep
<1>1. PICK d : d = data[id]
  OBVIOUS
<1>2. Collects(id, d)
  BY <1>0, <1>1, PopCollects
<1>3. d \in Seq(Lit) /\ Len(d) \in Nat /\ Len(d) >= 1 /\ \A n \in 1..Len(d) : d[n] \in Lit
  BY <1>0, <1>1, FactNow
<1>4. \A l : /\ IsTrue(Seen', l) <=> IsTrue(trail', l)
             /\ IsFalse(Seen', l) <=> IsFalse(trail', l)
             /\ IsUnknown(Seen', l) <=> IsUnknown(trail', l)
  BY SeenUndone DEF UndoneTo
<1>5. decisionLevel' = decisionLevel - 1 /\ decisionLevel \in Nat
  BY <1>0, PopUnknown, InvLevels DEF UndoneTo
<1>6. IsUnknown(Seen', d[1])
  BY <1>2, <1>4 DEF Collects, UndoneTo
<1>7. \A n \in 2..Len(d) : ~IsTrue(Seen', d[n]) /\ ~IsTrue(trail', d[n])
  BY <1>2, <1>4 DEF Collects
<1>8. ASSUME Len(d) >= 2, IsFalse(Seen', d[2]), NEW n \in 3..Len(d)
      PROVE  LevelOf(VarOf(d[n]))' <= LevelOf(VarOf(d[2]))' /\ IsFalse(Seen', d[n])
  <2>1. d[2] \in Lit /\ d[n] \in Lit /\ n \in 2..Len(d)
    BY <1>3, <1>8
  <2>2. LevelOf(VarOf(d[2]))' \in 0..(decisionLevel - 1)
    BY <1>4, <1>5, <1>8, <2>1, LitLevels
  <2>3. LevelOf(VarOf(d[n]))' \in 0..LevelOf(VarOf(d[2]))'
    BY <1>2, <1>8, <2>2 DEF Collects
  <2>4. LevelOf(VarOf(d[n]))' \in Nat /\ LevelOf(VarOf(d[n]))' <= LevelOf(VarOf(d[2]))'
    BY <2>2, <2>3
  <2>5. IsTrue(trail', d[n]) \/ IsFalse(trail', d[n])
    BY <2>1, <2>4, LitLevels
  <2> QED BY <1>4, <1>7, <2>1, <2>4, <2>5
<1>9. Ready(d)'
  BY <1>6, <1>7, <1>8 DEF Ready
<1> QED BY <1>0, <1>1, <1>9

\* Two that imply opposite literals have a literal that is unassigned now.
LEMMA UndoneOpposite ==
  ASSUME Inv, Next, UndoneTo, NEW f \in Range(facts'), NEW g \in Range(facts'), data'[f][1] = -data'[g][1]
  PROVE  \E l \in (Rest(f) \cup Rest(g))' : IsUnknown(Seen', l)
<1>1. /\ PopStep /\ pc' = "facts" /\ pc' \notin {"idle", "bcp"} /\ pc = "undo" /\ pc \in Working
      /\ IsFact(f) /\ data'[f] = data[f] /\ IsFact(g) /\ data'[g] = data[g]
  BY PopCollects DEF UndoneTo, PopStep, Undo, Working
<1>2. HasLitPos(TopVar)
  BY <1>1 DEF Inv, Counted
<1>3. Undone(f, g) \/ Resolved(f, g)
  BY <1>1, SettledNow DEF Settled, Resolving
<1>4. \E l \in Rest(f) \cup Rest(g) : IsUnknown(trail', l)
  BY <1>1, <1>2, <1>3, UndonePop
<1>5. (Rest(f) \cup Rest(g))' = Rest(f) \cup Rest(g)
  BY <1>1 DEF Rest
<1>6. \A l : IsUnknown(Seen', l) <=> IsUnknown(trail', l)
  BY SeenUndone DEF UndoneTo
<1> QED BY <1>4, <1>5, <1>6

\* The clause learned first is among them, and implies uipLit.
LEMMA UndoneUip ==
  ASSUME Inv, Next, UndoneTo
  PROVE  \E id \in Range(facts') : /\ data'[id][1] = uipLit'
                                   /\ \A m \in 2..Len(data'[id]) : IsFalse(Seen', data'[id][m])
<1>1. PopStep /\ Pops /\ pc = "undo" /\ pc \in Working /\ UNCHANGED data /\ trail # <<>>
  BY PopStepFacts DEF UndoneTo, PopStep, Undo, Working
<1>2. uipLit' = -Top.lit
  BY <1>1 DEF Inv, Collecting, UndoneTo, Undo
<1>3. PICK id \in Range(unit_facts[TopVar]) : data[id][1] = -Top.lit
  BY <1>1 DEF Inv, Counted
<1>4. TopVar \in Var /\ Top = trail[Len(trail)] /\ Len(trail) \in 1..Len(trail) /\ TopVar = VarOf(Top.lit)
  BY <1>1, TopResolves
<1>5. IsFact(id)
  BY <1>3, <1>4 DEF IsFact
<1>6. PICK k \in DOMAIN trail : VarOf(trail[k].lit) = TopVar /\ WaitsAt(id, k)
  BY <1>1, <1>3, <1>4 DEF Inv, UnitFactsWait, Live
<1>7. k = Len(trail)
  BY <1>4, <1>6, InvTrail
<1>8. \A m \in 2..Len(data[id]) : FalseBefore(Len(trail), data[id][m]) /\ data[id][m] \in Lit
  <2>1. \A m \in 2..Len(data[id]) : m \in 1..Len(data[id])
    BY <1>5, FactNow
  <2> QED BY <1>5, <1>6, <1>7, <2>1, FactNow DEF WaitsAt
<1>9. \A m \in 2..Len(data[id]) : IsFalse(trail', data[id][m])
  BY <1>1, <1>8, FalseStays
<1>10. facts \in Seq(Nat) /\ unit_facts[TopVar] \in Seq(Nat)
  BY <1>4, FactsNow
<1>11. id \in Range(facts')
  <2>1. PICK s, u : s = facts /\ u = unit_facts[TopVar]
    OBVIOUS
  <2>2. Range(s \o u) = Range(s) \cup Range(u)
    BY <1>10, <2>1, RangeConcat
  <2> QED BY <1>1, <1>3, <2>1, <2>2, PopUnknown
<1>12. \A l : IsFalse(Seen', l) <=> IsFalse(trail', l)
  BY SeenUndone DEF UndoneTo
<1> QED BY <1>1, <1>2, <1>3, <1>9, <1>11, <1>12

\* Propagation starts right after an undo.
LEMMA PropagatingUndo ==
  ASSUME Inv, Next, UndoneTo
  PROVE  Propagating'
<1>1. i' = 1 /\ propq' = Len(trail') /\ Len(trail') \in Nat
  BY SeenUndone, SeenNext DEF UndoneTo, Undo
<1>2. Range(facts') = {facts'[n] : n \in 1..Len(facts')} /\ Len(facts') \in Nat
  BY FactTypes, RangeFacts
<1>3. \A n \in 1..Len(facts') : Ready(data[facts[n]])'
  BY <1>2, UndoneReady
<1>4. PICK id \in Range(facts') : /\ data'[id][1] = uipLit'
                                  /\ \A m \in 2..Len(data'[id]) : IsFalse(Seen', data'[id][m])
  BY UndoneUip
<1>5. PICK n \in 1..Len(facts') : facts'[n] = id
  BY <1>2, <1>4
<1>6. \A m \in 1..Len(facts') : ~(m < i') /\ m >= i'
  BY <1>1, <1>2
<1>7. \A k \in (propq' + 1)..Len(trail') : FALSE
  BY <1>1
<1> QED BY <1>3, <1>4, <1>5, <1>6, <1>7, UndoneOpposite DEF Propagating

\* What bcp has seen stays the same while facts are tried.
SeenStays ==
  /\ UNCHANGED <<data, propq, uipLit>> /\ pc = "facts" /\ i \in 1..Len(facts) /\ Len(facts) \in Nat
  /\ Len(trail) \in Nat /\ Len(trail') \in Nat
  /\ \A k \in 1..Len(trail) : k \in 1..Len(trail') /\ trail'[k] = trail[k]
  /\ \A l : /\ IsTrue(Seen', l) <=> IsTrue(Seen, l)
            /\ IsFalse(Seen', l) <=> IsFalse(Seen, l)
            /\ IsUnknown(Seen', l) <=> IsUnknown(Seen, l)
  /\ \A l \in Lit : IsFalse(Seen, l) => LevelOf(VarOf(l))' = LevelOf(VarOf(l))

\* A fact that was tried stays tried.
LEMMA TriedSeen ==
  ASSUME Inv, Next, PropagateFact
  PROVE  SeenStays
<1>1. /\ pc = "facts" /\ i \in 1..Len(facts) /\ UNCHANGED <<data, propq, uipLit>>
      /\ trail' = trail \/ \E e : trail' = Append(trail, e)
  BY PropagateFactCases DEF FactIsWatched, FactIsImplied, TrailPush, assignment, PropagateFact
<1>2. trail \in Trails /\ Len(trail) \in Nat /\ DOMAIN trail = 1..Len(trail)
  BY InvTrail
<1>3. Len(trail') \in Nat /\ Len(trail) <= Len(trail') /\ \A k \in 1..Len(trail) : trail'[k] = trail[k]
  <2>1. CASE trail' = trail
    BY <1>2, <2>1
  <2>2. ASSUME NEW e, trail' = Append(trail, e)
        PROVE  Len(trail') = Len(trail) + 1 /\ \A k \in 1..Len(trail) : trail'[k] = trail[k]
    BY <1>2, <2>2 DEF Trails
  <2> QED BY <1>1, <1>2, <2>1, <2>2
<1>4. \A k \in 1..Len(trail) : k \in 1..Len(trail')
  BY <1>2, <1>3
<1>5. propq \in 0..Len(trail) /\ \A k \in 1..propq : k \in 1..Len(trail)
  BY <1>2, SeenFacts
<1>6. \A l : IsTrue(Seen', l) <=> IsTrue(Seen, l)
  <2>1. propq' = propq /\ \A k \in 1..propq : trail'[k] = trail[k]
    BY <1>1, <1>3, <1>5
  <2>2. \A l : IsTrue(Seen, l) <=> \E k \in 1..propq : trail[k].lit = l
    BY SeenFacts
  <2>3. \A l : IsTrue(Seen', l) <=> \E k \in 1..propq' : trail'[k].lit = l
    BY SeenNext
  <2> QED BY <2>1, <2>2, <2>3
<1>7. \A l : IsFalse(Seen', l) <=> IsFalse(Seen, l)
  BY <1>6 DEF IsFalse
<1>8. \A l : IsUnknown(Seen', l) <=> IsUnknown(Seen, l)
  BY <1>6, <1>7 DEF IsUnknown
<1>9. ASSUME NEW l \in Lit, IsFalse(Seen, l)
      PROVE  LevelOf(VarOf(l))' = LevelOf(VarOf(l))
  <2>1. PICK k \in 1..propq : trail[k].lit = -l
    BY <1>9, SeenFacts DEF IsFalse
  <2>2. PICK v : v = VarOf(l)
    OBVIOUS
  <2>3. v = VarOf(trail[k].lit)
    BY <2>1, <2>2, LitFacts
  <2>4. LevelOf(v)' = LevelOf(v)
    BY <1>3, <1>4, <1>5, <2>1, <2>3, LevelSame
  <2> QED BY <2>2, <2>4
<1>10. Len(facts) \in Nat
  BY FactsNow, RangeFacts
<1> QED BY <1>1, <1>2, <1>3, <1>4, <1>6, <1>7, <1>8, <1>9, <1>10 DEF SeenStays

\* The facts not tried yet stay ready, those implied stay so.
LEMMA TriedKeeps ==
  ASSUME Inv, Next, PropagateFact, NEW n \in 1..Len(facts), NEW x, x = facts[n]
  PROVE  /\ Ready(data[x]) => Ready(data[x])'
         /\ ImpliedFact(x) => ImpliedFact(x)'
<1>0. SeenStays
  BY TriedSeen
<1>1. PICK d : d = data[x]
  OBVIOUS
<1>2. data'[x] = d /\ \A m \in 1..Len(d) : d[m] \in Lit
  BY <1>0, <1>1, FactFacts DEF SeenStays
<1>3. Len(d) \in Nat
  BY <1>1, FactFacts
<1>4. \A m \in 2..Len(d) : m \in 1..Len(d)
  BY <1>3
<1>5. \A m \in 3..Len(d) : m \in 2..Len(d) /\ 2 \in 2..Len(d)
  BY <1>3
<1>6. \A m \in 2..Len(d) : IsFalse(Seen, d[m]) => LevelOf(VarOf(d[m]))' = LevelOf(VarOf(d[m]))
  BY <1>0, <1>2, <1>4 DEF SeenStays
<1>7. ASSUME Ready(d)
      PROVE  Ready(d)'
  <2>1. IsUnknown(Seen', d[1]) /\ \A m \in 2..Len(d) : ~IsTrue(Seen', d[m])
    BY <1>0, <1>7 DEF SeenStays, Ready
  <2>2. ASSUME Len(d) >= 2, IsFalse(Seen', d[2]), NEW m \in 3..Len(d)
        PROVE  LevelOf(VarOf(d[m]))' <= LevelOf(VarOf(d[2]))' /\ IsFalse(Seen', d[m])
    <3>1. IsFalse(Seen, d[2])
      BY <1>0, <2>2 DEF SeenStays
    <3>2. LevelOf(VarOf(d[m])) <= LevelOf(VarOf(d[2])) /\ IsFalse(Seen, d[m])
      BY <1>7, <2>2, <3>1 DEF Ready
    <3>3. IsFalse(Seen', d[m])
      BY <1>0, <3>2 DEF SeenStays
    <3>4. m \in 2..Len(d) /\ 2 \in 2..Len(d)
      BY <1>5
    <3> QED BY <1>6, <3>1, <3>2, <3>3, <3>4
  <2> QED BY <2>1, <2>2 DEF Ready
<1>8. ASSUME ImpliedFact(x)
      PROVE  ImpliedFact(x)'
  <2>1. \A m \in 2..Len(d) : IsFalse(Seen, d[m])
    BY <1>1, <1>8 DEF ImpliedFact
  <2>2. \A m \in 2..Len(d) : IsFalse(Seen', d[m])
    BY <1>0, <2>1 DEF SeenStays
  <2>3. \A m \in 3..Len(d) : LevelOf(VarOf(d[m])) <= LevelOf(VarOf(d[2]))
    BY <1>1, <1>8 DEF ImpliedFact, SecondLast
  <2>4. SecondLast(d)'
    BY <1>5, <1>6, <2>1, <2>3 DEF SecondLast
  <2>5. PICK k \in (propq + 1)..Len(trail) : trail[k].reason = x
    BY <1>8 DEF ImpliedFact
  <2>6. propq \in Nat /\ Len(trail) \in Nat
    BY <1>0, SeenFacts DEF SeenStays
  <2>7. k \in 1..Len(trail)
    BY <2>6
  <2>8. k \in (propq' + 1)..Len(trail') /\ trail'[k].reason = x
    BY <1>0, <2>5, <2>6, <2>7 DEF SeenStays
  <2>9. SecondLast(data[x])'
    BY <1>2, <2>4
  <2> QED BY <1>2, <2>2, <2>8, <2>9 DEF ImpliedFact
<1> QED BY <1>1, <1>2, <1>7, <1>8

\* A fact that is watched again leaves the list.
LEMMA PropagatingWatched ==
  ASSUME Inv, Next, PropagateFact, FactIsWatched(facts[i], data[facts[i]])
  PROVE  Propagating'
<1>0. SeenStays /\ UNCHANGED <<data, propq, uipLit, trail, i>> /\ facts' = RemoveAt(facts, i) /\ facts \in Seq(Nat)
  BY TriedSeen, FactsNow DEF FactIsWatched, SeenStays, assignment
<1>1. i \in 1..Len(facts) /\ Len(facts) \in Nat /\ pc = "facts" /\ i \in Nat
  BY <1>0 DEF SeenStays
<1>2. /\ Len(facts') = Len(facts) - 1
      /\ \A n \in 1..(Len(facts) - 1) : facts'[n] = IF n < i THEN facts[n] ELSE facts[n + 1]
  BY <1>0, <1>1, RemoveAtFacts
<1>3. \A n \in 1..Len(facts) : IF n < i THEN ImpliedFact(facts[n]) ELSE Ready(data[facts[n]])
  BY <1>1 DEF Inv, Propagating
<1>4. ASSUME NEW n \in 1..Len(facts')
      PROVE  IF n < i' THEN ImpliedFact(facts[n])' ELSE Ready(data[facts[n]])'
  <2>1. n \in 1..Len(facts) /\ n + 1 \in 1..Len(facts)
    BY <1>1, <1>2
  <2>2. CASE n < i
    <3>1. ImpliedFact(facts[n]) /\ facts'[n] = facts[n]
      BY <1>2, <1>3, <2>1, <2>2
    <3>2. PICK x : x = facts[n]
      OBVIOUS
    <3>3. ImpliedFact(x)'
      BY <2>1, <3>1, <3>2, TriedKeeps
    <3>4. ImpliedFact(facts[n])'
      BY <3>1, <3>2, <3>3
    <3> QED BY <1>0, <2>2, <3>4
  <2>3. CASE ~(n < i)
    <3>1. facts'[n] = facts[n + 1] /\ ~(n + 1 < i)
      BY <1>1, <1>2, <2>1, <2>3
    <3>2. Ready(data[facts[n + 1]])
      BY <1>3, <2>1, <3>1
    <3>3. PICK x : x = facts[n + 1]
      OBVIOUS
    <3>4. Ready(data[x])'
      BY <2>1, <3>2, <3>3, TriedKeeps
    <3>5. Ready(data[facts[n]])'
      BY <3>1, <3>3, <3>4
    <3> QED BY <1>0, <2>3, <3>5
  <2> QED BY <2>2, <2>3
<1>5. ASSUME NEW k \in (propq' + 1)..Len(trail')
      PROVE  \E n \in 1..Len(facts') : n < i' /\ trail'[k].reason = facts'[n]
  <2>1. PICK n \in 1..Len(facts) : n < i /\ trail[k].reason = facts[n]
    BY <1>0, <1>1, <1>5 DEF Inv, Propagating
  <2>2. n \in 1..(Len(facts) - 1)
    BY <1>1, <2>1
  <2> QED BY <1>0, <1>2, <2>1, <2>2
<1>6. \A n \in 1..Len(facts') : \E m \in 1..Len(facts) : facts'[n] = facts[m]
  <2>1. \A n \in 1..(Len(facts) - 1) : n \in 1..Len(facts) /\ n + 1 \in 1..Len(facts)
    BY <1>1
  <2> QED BY <1>2, <2>1
<1>7. Range(facts') \subseteq Range(facts)
  <2>1. Range(facts) = {facts[n] : n \in 1..Len(facts)}
    BY <1>0, RangeFacts
  <2>2. Range(facts') = {facts'[n] : n \in 1..Len(facts')}
    BY FactTypes, RangeFacts
  <2> QED BY <1>6, <2>1, <2>2
<1>8. ASSUME NEW f \in Range(facts'), NEW g \in Range(facts'), data'[f][1] = -data'[g][1]
      PROVE  \E l \in (Rest(f) \cup Rest(g))' : IsUnknown(Seen', l)
  <2>1. \E l \in Rest(f) \cup Rest(g) : IsUnknown(Seen, l)
    BY <1>0, <1>1, <1>7, <1>8 DEF Inv, Propagating
  <2>2. (Rest(f) \cup Rest(g))' = Rest(f) \cup Rest(g)
    BY <1>0 DEF Rest
  <2> QED BY <1>0, <2>1, <2>2 DEF SeenStays
<1>9. \/ \E k \in (propq' + 1)..Len(trail') : trail'[k].lit = uipLit'
      \/ \E n \in 1..Len(facts') : /\ n >= i' /\ data'[facts'[n]][1] = uipLit'
                                   /\ \A m \in 2..Len(data'[facts'[n]]) : IsFalse(Seen', data'[facts'[n]][m])
  <2>1. CASE \E k \in (propq + 1)..Len(trail) : trail[k].lit = uipLit
    BY <1>0, <2>1
  <2>2. ASSUME NEW n \in 1..Len(facts), n >= i, data[facts[n]][1] = uipLit,
               \A m \in 2..Len(data[facts[n]]) : IsFalse(Seen, data[facts[n]][m])
        PROVE  \E k \in 1..Len(facts') : /\ k >= i' /\ data'[facts'[k]][1] = uipLit'
                                   /\ \A m \in 2..Len(data'[facts'[k]]) : IsFalse(Seen', data'[facts'[k]][m])
    <3>1. n # i
      <4>1. SUFFICES ASSUME n = i PROVE FALSE
        OBVIOUS
      <4>2. 2 \in 2..Len(data[facts[n]])
        BY <2>2, <4>1, FactFacts DEF FactIsWatched
      <4>3. IsFalse(Seen, data[facts[n]][2]) /\ IsUnknown(Seen, data[facts[n]][2])
        BY <2>2, <4>1, <4>2 DEF FactIsWatched
      <4> QED BY <4>3 DEF IsUnknown
    <3>2. n - 1 \in 1..(Len(facts) - 1) /\ n - 1 >= i /\ ~(n - 1 < i) /\ n - 1 + 1 = n
      BY <1>1, <2>2, <3>1
    <3>3. facts'[n - 1] = facts[n] /\ n - 1 \in 1..Len(facts')
      BY <1>2, <3>2
    <3>4. \A m \in 2..Len(data[facts[n]]) : IsFalse(Seen', data[facts[n]][m])
      BY <1>0, <2>2 DEF SeenStays
    <3> QED BY <1>0, <2>2, <3>2, <3>3, <3>4
  <2> QED BY <1>1, <2>1, <2>2 DEF Inv, Propagating
<1> QED BY <1>4, <1>5, <1>8, <1>9 DEF Propagating

\* A fact that implies its literal becomes its reason.
LEMMA PropagatingImplied ==
  ASSUME Inv, Next, PropagateFact, FactIsImplied(facts[i], data[facts[i]])
  PROVE  Propagating'
<1>0. SeenStays /\ UNCHANGED <<data, propq, uipLit, facts>> /\ i' = i + 1
  BY TriedSeen DEF FactIsImplied, SeenStays, TrailPush
<1>1. i \in 1..Len(facts) /\ Len(facts) \in Nat /\ pc = "facts" /\ i \in Nat
  BY <1>0 DEF SeenStays
<1>2. PICK x, d : x = facts[i] /\ d = data[x]
  OBVIOUS
<1>3. /\ trail' = Append(trail, Entry(d[1], x)) /\ SecondLast(d) /\ \A n \in 2..Len(d) : IsFalse(Seen, d[n])
  BY <1>2 DEF FactIsImplied, TrailPush
<1>4. trail \in Trails /\ Len(trail) \in Nat /\ propq \in 0..Len(trail)
  BY InvTrail, SeenFacts
<1>5. /\ Len(trail') = Len(trail) + 1 /\ trail'[Len(trail) + 1].lit = d[1] /\ trail'[Len(trail) + 1].reason = x
      /\ Len(trail) + 1 \in (propq' + 1)..Len(trail')
  BY <1>0, <1>3, <1>4 DEF Trails, Entry
<1>6. \A k \in (propq' + 1)..Len(trail') : k = Len(trail) + 1 \/ k \in (propq + 1)..Len(trail)
  BY <1>0, <1>4, <1>5
<1>7. \A k \in (propq + 1)..Len(trail) : k \in (propq' + 1)..Len(trail') /\ trail'[k] = trail[k]
  <2>1. \A k \in (propq + 1)..Len(trail) : k \in 1..Len(trail) /\ k \in (propq + 1)..(Len(trail) + 1)
    BY <1>4
  <2> QED BY <1>0, <1>5, <2>1 DEF SeenStays
<1>8. \A n \in 1..Len(facts) : IF n < i THEN ImpliedFact(facts[n]) ELSE Ready(data[facts[n]])
  BY <1>1 DEF Inv, Propagating
<1>9. ImpliedFact(x)'
  <2>1. \A n \in 2..Len(d) : IsFalse(Seen', d[n])
    BY <1>0, <1>3 DEF SeenStays
  <2>2. \A n \in 2..Len(d) : n \in 1..Len(d)
    BY <1>1, <1>2, FactFacts
  <2>3. \A n \in 2..Len(d) : LevelOf(VarOf(d[n]))' = LevelOf(VarOf(d[n]))
    BY <1>0, <1>1, <1>2, <1>3, <2>2, FactFacts DEF SeenStays
  <2>4. \A n \in 3..Len(d) : n \in 2..Len(d) /\ 2 \in 2..Len(d)
    BY <1>1, <1>2, FactFacts
  <2>5. SecondLast(d)'
    BY <1>3, <2>3, <2>4 DEF SecondLast
  <2>6. SecondLast(data[x])'
    BY <1>0, <1>2, <2>5
  <2> QED BY <1>0, <1>2, <1>5, <2>1, <2>6 DEF ImpliedFact
<1>10. ASSUME NEW n \in 1..Len(facts')
      PROVE  IF n < i' THEN ImpliedFact(facts[n])' ELSE Ready(data[facts[n]])'
  <2>1. n \in 1..Len(facts) /\ n \in Nat
    BY <1>0
  <2>2. PICK y : y = facts[n]
    OBVIOUS
  <2>3. CASE n < i
    <3>1. ImpliedFact(y)'
      BY <1>8, <2>1, <2>2, <2>3, TriedKeeps
    <3>2. ImpliedFact(facts[n])'
      BY <1>0, <2>2, <3>1
    <3> QED BY <1>0, <1>1, <2>1, <2>3, <3>2
  <2>4. CASE n = i
    <3>1. ImpliedFact(facts[n])'
      BY <1>0, <1>2, <1>9, <2>4
    <3> QED BY <1>0, <1>1, <2>4, <3>1
  <2>5. CASE n > i
    <3>1. Ready(data[y])
      BY <1>1, <1>8, <2>1, <2>2, <2>5
    <3>2. Ready(data[y])'
      BY <2>1, <2>2, <3>1, TriedKeeps
    <3>3. Ready(data[facts[n]])'
      BY <1>0, <2>2, <3>2
    <3> QED BY <1>0, <1>1, <2>1, <2>5, <3>3
  <2> QED BY <1>1, <2>1, <2>3, <2>4, <2>5
<1>11. ASSUME NEW k \in (propq' + 1)..Len(trail')
      PROVE  \E n \in 1..Len(facts') : n < i' /\ trail'[k].reason = facts'[n]
  <2>1. CASE k = Len(trail) + 1
    BY <1>0, <1>1, <1>2, <1>5, <2>1
  <2>2. CASE k \in (propq + 1)..Len(trail)
    <3>1. PICK n \in 1..Len(facts) : n < i /\ trail[k].reason = facts[n]
      BY <1>1, <2>2 DEF Inv, Propagating
    <3>2. n < i'
      BY <1>0, <1>1, <3>1
    <3> QED BY <1>0, <1>7, <2>2, <3>1, <3>2
  <2> QED BY <1>6, <2>1, <2>2
<1>12. ASSUME NEW f \in Range(facts'), NEW g \in Range(facts'), data'[f][1] = -data'[g][1]
      PROVE  \E l \in (Rest(f) \cup Rest(g))' : IsUnknown(Seen', l)
  <2>1. \E l \in Rest(f) \cup Rest(g) : IsUnknown(Seen, l)
    BY <1>0, <1>1, <1>12 DEF Inv, Propagating
  <2>2. (Rest(f) \cup Rest(g))' = Rest(f) \cup Rest(g)
    BY <1>0 DEF Rest
  <2> QED BY <1>0, <2>1, <2>2 DEF SeenStays
<1>13. \/ \E k \in (propq' + 1)..Len(trail') : trail'[k].lit = uipLit'
      \/ \E n \in 1..Len(facts') : /\ n >= i' /\ data'[facts'[n]][1] = uipLit'
                                   /\ \A m \in 2..Len(data'[facts'[n]]) : IsFalse(Seen', data'[facts'[n]][m])
  <2>1. CASE \E k \in (propq + 1)..Len(trail) : trail[k].lit = uipLit
    BY <1>0, <1>7, <2>1
  <2>2. ASSUME NEW n \in 1..Len(facts), n >= i, data[facts[n]][1] = uipLit,
               \A m \in 2..Len(data[facts[n]]) : IsFalse(Seen, data[facts[n]][m])
        PROVE  \/ \E k \in (propq' + 1)..Len(trail') : trail'[k].lit = uipLit'
               \/ \E k \in 1..Len(facts') : /\ k >= i' /\ data'[facts'[k]][1] = uipLit'
                                   /\ \A m \in 2..Len(data'[facts'[k]]) : IsFalse(Seen', data'[facts'[k]][m])
    <3>1. CASE n = i
      BY <1>0, <1>2, <1>5, <2>2, <3>1
    <3>2. CASE n # i
      <4>1. n >= i'
        BY <1>0, <1>1, <2>2, <3>2
      <4>2. \A m \in 2..Len(data[facts[n]]) : IsFalse(Seen', data[facts[n]][m])
        BY <1>0, <2>2 DEF SeenStays
      <4> QED BY <1>0, <2>2, <4>1, <4>2
    <3> QED BY <3>1, <3>2
  <2> QED BY <1>1, <2>1, <2>2 DEF Inv, Propagating
<1> QED BY <1>10, <1>11, <1>12, <1>13 DEF Propagating

\* Every step keeps the facts tried so far satisfied.
LEMMA PropagatingNext ==
  ASSUME Inv, Next
  PROVE  Propagating'
<1>1. CASE pc' # "facts"
  BY <1>1 DEF Propagating
<1>2. CASE pc' = "facts"
  <2>1. \/ UndoneTo \/ PropagateFact
    BY <1>2, StepCases DEF RootStep, Quiet, Recount, Learn, Refuted, Finish, SkipLiteral, CanSkip, Skips,
       ResolveReason, Undo, UndoneTo, Conflict, StartAnalysis, FactsDone
  <2> QED BY <2>1, PropagatingUndo, PropagatingWatched, PropagatingImplied, PropagateFactCases
<1> QED BY <1>1, <1>2

-----------------------------------------------------------------------------
(* Control.                                                                 *)

\* The clauses added stay, and a call of funcsatAddClause adds one.
LEMMA FormulaNext ==
  ASSUME Inv, Next
  PROVE  /\ formula \in Seq(SUBSET Lit) /\ formula' \in Seq(SUBSET Lit)
         /\ \/ formula' = formula
            \/ \E c \in Inputs : /\ AddClause(c) /\ c \in Seq(Lit) /\ Range(formula') = Range(formula) \cup {Range(c)}
         /\ Range(formula) \subseteq Range(formula')
<1>1. formula \in Seq(SUBSET Lit)
  BY DEF Inv, Control
<1>2. ASSUME NEW c \in Inputs, AddClause(c)
      PROVE  /\ c \in Seq(Lit) /\ formula' \in Seq(SUBSET Lit) /\ Range(formula') = Range(formula) \cup {Range(c)}
  <2>1. Range(c) \in SUBSET Lit /\ c \in Seq(Lit) /\ formula' = Append(formula, Range(c))
    BY <1>2, AddClauseCases DEF AddClause
  <2>2. PICK f, x : f = formula /\ x = Range(c)
    OBVIOUS
  <2>3. f \in Seq(SUBSET Lit) /\ x \in SUBSET Lit
    BY <1>1, <2>1, <2>2
  <2>4. Append(f, x) \in Seq(SUBSET Lit) /\ Range(Append(f, x)) = Range(f) \cup {x}
    <3>1. f \o <<x>> = Append(f, x) /\ <<x>> \in Seq(SUBSET Lit)
      BY <2>3
    <3>2. Range(<<x>>) = {x}
      BY DEF Range
    <3>3. f \o <<x>> \in Seq(SUBSET Lit) /\ Range(f \o <<x>>) = Range(f) \cup Range(<<x>>)
      BY <2>3, <3>1, RangeConcat, ZenonT(40)
    <3> QED BY <3>1, <3>2, <3>3
  <2> QED BY <2>1, <2>2, <2>4
<1>3. formula' = formula \/ \E c \in Inputs : AddClause(c)
  BY Zenon DEF Next, Calls, Engine, PushAssumption, PopAssumptions, Solve, VisitClause, NextLiteral, Restart, Decide,
     Satisfied, Finish, Conflict, SkipLiteral, ResolveReason, Recount, Learn, Undo, Refuted, FactsDone,
     PropagateFact, client
<1> QED BY <1>1, <1>2, <1>3

\* Where the engine is next, and that the list of facts is empty outside the
\* analysis.
LEMMA PlaceNext ==
  ASSUME Inv, Next
  PROVE  /\ pc' \in {"idle", "bcp", "conflict", "facts"} \cup Working
         /\ pc' \in {"idle", "bcp", "conflict"} => facts' = <<>>
<1>0. pc \in {"idle", "bcp", "conflict"} => facts = <<>>
  BY DEF Inv, Control
<1>1. CASE (\E n : RootStep(n)) \/ Quiet
  BY <1>0, <1>1 DEF RootStep, Quiet
<1>2. CASE Recount \/ Learn \/ ResolveReason \/ Undo
  BY <1>2 DEF Recount, Learn, ResolveReason, Undo, Working, Analyzing
<1>3. CASE SkipLiteral
  BY <1>3 DEF SkipLiteral, CanSkip, Skips, Working, Analyzing
<1>4. CASE Refuted
  BY <1>4 DEF Refuted, Finish
<1>5. CASE Conflict
  BY <1>0, <1>5, ConflictFacts DEF StartAnalysis, Finish, learning, Working, Analyzing
<1>6. CASE FactsDone
  BY <1>6, FactsDoneFacts DEF FactsDone
<1>7. CASE PropagateFact
  BY <1>7, PropagateFactCases DEF FactIsWatched, FactIsImplied
<1> QED BY <1>1, <1>2, <1>3, <1>4, <1>5, <1>6, <1>7, StepCases

\* A question is about what the client assumes.
LEMMA AskedNext ==
  ASSUME Inv, Next, pc' # "idle"
  PROVE  asked' = Range(held')
<1>1. CASE Calls
  BY <1>1, ZenonT(40) DEF Calls, AddClause, PushAssumption, PopAssumptions, Solve
<1>2. CASE Engine
  <2>1. pc # "idle"
    BY <1>2, Zenon DEF Engine, VisitClause, NextLiteral, Restart, Decide, Satisfied, Conflict, SkipLiteral, CanSkip, Skips,
       ResolveReason, Recount, Learn, Undo, Refuted, FactsDone, PropagateFact
  <2>2. UNCHANGED <<asked, held>>
    BY <1>2, Zenon DEF Engine, VisitClause, NextLiteral, Restart, Decide, Satisfied, Finish, Conflict, SkipLiteral,
       ResolveReason, Recount, Learn, Undo, Refuted, FactsDone, PropagateFact, client
  <2> QED BY <2>1, <2>2 DEF Inv, Control
<1> QED BY <1>1, <1>2 DEF Next

\* bcp stops at a clause all of whose literals are false, one of them since the
\* current level began.
LEMMA ConflictNext ==
  ASSUME Inv, Next, pc' = "conflict"
  PROVE  /\ conflictClause' # NULL
         /\ \A l \in Range(data'[conflictClause']) : IsFalse(trail', l)
         /\ \E l \in Range(data'[conflictClause']) : LevelOf(VarOf(l))' = decisionLevel'
<1>1. VisitClause
  <2>1. CASE Calls
    BY <2>1 DEF Calls, AddClause, PushAssumption, PopAssumptions, Solve
  <2>2. CASE Engine
    BY <2>2, PropagateFactCases DEF Engine, NextLiteral, Restart, Decide, Satisfied, Finish, Conflict, StartAnalysis,
       SkipLiteral, CanSkip, Skips, ResolveReason, Recount, Learn, Undo, Refuted, FactsDone,
       FactIsWatched, FactIsImplied
  <2> QED BY <2>1, <2>2 DEF Next
<1>2. pc = "bcp"
  BY <1>1, Zenon DEF VisitClause
<1>3. PICK p, id, d : Visits(p, id, d) /\ (VisitMoves(id, d) \/ VisitKeeps(id, d))
  BY <1>1, <1>2, VisitFacts DEF VisitSatisfied
<1>4. /\ VisitKeeps(id, d) /\ IsFalse(trail, d[1]) /\ conflictClause' = id /\ UNCHANGED <<trail, decisionLevel>>
  BY <1>2, <1>3 DEF VisitMoves, VisitKeeps, assignment
<1>5. /\ d \in Seq(Lit) /\ Len(d) >= 2 /\ Len(d) \in Nat /\ d[2] = -p /\ p \in Lit /\ p = trail[propq + 1].lit
      /\ propq + 1 \in 1..Len(trail) /\ id \in DOMAIN data /\ propq \in Nat /\ Len(trail) \in Nat
  BY <1>3, SeenFacts, InvTrail DEF Visits
<1>6. data'[id] = d /\ id # NULL
  <2>1. data' = [data EXCEPT ![id] = d]
    BY <1>4 DEF VisitKeeps, Rewatches
  <2>2. DOMAIN data = 1..Len(data) /\ Len(data) \in Nat
    BY DataTypes DEF Inv
  <2> QED BY <1>5, <2>1, <2>2 DEF NULL
<1>7. IsFalse(trail, d[2])
  <2>1. -d[2] = p
    BY <1>5, LitFacts
  <2>2. DOMAIN trail = 1..Len(trail)
    BY InvTrail
  <2> QED BY <1>5, <2>1, <2>2 DEF IsFalse, IsTrue
<1>8. \A n \in 1..Len(d) : IsFalse(trail, d[n])
  <2>1. \A n \in 1..Len(d) : n = 1 \/ n = 2 \/ n \in 3..Len(d)
    BY <1>5
  <2>2. \A n \in 3..Len(d) : IsFalse(trail, d[n])
    BY <1>4 DEF VisitKeeps
  <2> QED BY <1>4, <1>7, <2>1, <2>2
<1>9. Range(d) = {d[n] : n \in 1..Len(d)}
  BY <1>5, RangeFacts
<1>10. \A l \in Range(data'[conflictClause']) : IsFalse(trail', l)
  BY <1>4, <1>6, <1>8, <1>9
<1>11. LevelOf(VarOf(d[2])) = decisionLevel
  <2>1. VarOf(d[2]) = VarOf(trail[propq + 1].lit)
    BY <1>5, LitFacts, ZenonT(40)
  <2>2. propq + 1 \in (propq + 1)..Len(trail)
    BY <1>5
  <2>3. trail[propq + 1].level = decisionLevel
    BY <2>2, TrailNow
  <2> QED BY <1>5, <2>1, <2>3, InvLevels
<1>12. \A v : LevelOf(v)' = LevelOf(v)
  BY <1>4 DEF LevelOf
<1>13. d[2] \in Range(data'[conflictClause'])
  <2>1. 2 \in 1..Len(d)
    BY <1>5
  <2> QED BY <1>4, <1>6, <1>9, <2>1
<1>14. \A v : v = VarOf(d[2]) => LevelOf(v)' = decisionLevel'
  BY <1>4, <1>11, <1>12
<1>15. LevelOf(VarOf(d[2]))' = decisionLevel'
  BY <1>14
<1> QED BY <1>4, <1>6, <1>10, <1>13, <1>15

\* The clause in conflict is empty only if an empty clause was added.
LEMMA EmptyNext ==
  ASSUME Inv, Next, conflictClause' # NULL, data'[conflictClause'] = <<>>
  PROVE  {} \in Range(formula')
<1>1. ASSUME NEW c \in Inputs, AddClause(c)
      PROVE  {} \in Range(formula')
  <2>1. /\ c \in Seq(Lit) /\ Range(c) \subseteq Lit
        /\ conflictClause' = NULL \/ \E w : Added(c, w)
    BY <1>1, AddClauseCases
  <2>2. PICK w : Added(c, w)
    BY <2>1
  <2>3. data'[Len(data) + 1] = w
    BY <2>2, AppendedSame DEF Added
  <2>4. conflictClause' = Len(data) + 1
    BY <2>2 DEF Added, AddUnit
  <2>5. w = <<>>
    BY <2>3, <2>4
  <2>6. Range(c) = {}
    BY <2>2, <2>5 DEF Added, Range
  <2>7. formula' = Append(formula, Range(c)) /\ formula \in Seq(SUBSET Lit)
    BY <1>1, FormulaNext DEF AddClause
  <2>8. formula'[Len(formula) + 1] = Range(c) /\ Len(formula) + 1 \in DOMAIN formula'
    <3>1. PICK f, x : f = formula /\ x = Range(c)
      OBVIOUS
    <3>2. Append(f, x)[Len(f) + 1] = x /\ Len(f) + 1 \in DOMAIN Append(f, x)
      BY <2>7, <3>1
    <3> QED BY <2>7, <3>1, <3>2
  <2> QED BY <2>6, <2>8 DEF Range
<1>2. ASSUME UNCHANGED conflictClause, ~Refuted
      PROVE  {} \in Range(formula')
  <2>1. conflictClause \in DOMAIN data
    BY <1>2 DEF Inv, TypeOK
  <2>2. Permuted(data[conflictClause], data'[conflictClause])
    BY <1>2, <2>1, DataNext DEF DataGood, Emptied, Empties
  <2>3. data[conflictClause] = <<>>
    BY <1>2, <2>1, <2>2, DataTypes DEF Permuted
  <2>4. {} \in Range(formula)
    BY <1>2, <2>3 DEF Inv, Control
  <2> QED BY <2>4, FormulaNext
<1>3. CASE VisitClause
  <2>1. UNCHANGED conflictClause \/ \E id, d : /\ conflictClause' = id /\ data'[id] = d /\ Len(d) >= 2
    <3>1. CASE VisitSatisfied
      BY <3>1 DEF VisitSatisfied
    <3>2. ASSUME NEW p, NEW id, NEW d, Visits(p, id, d), VisitMoves(id, d)
          PROVE  UNCHANGED conflictClause
      BY <3>2 DEF VisitMoves
    <3>3. ASSUME NEW p, NEW id, NEW d, Visits(p, id, d), VisitKeeps(id, d)
          PROVE  UNCHANGED conflictClause \/ (conflictClause' = id /\ data'[id] = d /\ Len(d) >= 2)
      BY <3>3, DataTypes DEF VisitKeeps, Visits, Rewatches
    <3> QED BY <1>3, <3>1, <3>2, <3>3, VisitFacts
  <2>2. ~Refuted
    BY <1>3, Zenon DEF VisitClause, Refuted
  <2> QED BY <1>2, <2>1, <2>2
<1>4. CASE PropagateFact
  BY <1>2, <1>4, PropagateFactCases DEF FactIsWatched, FactIsImplied, Refuted
<1>5. CASE Refuted
  BY <1>5 DEF Refuted
<1>6. CASE Solve \/ Undo
  <2>1. ~Refuted
    BY <1>6 DEF Solve, Undo, Refuted
  <2> QED BY <1>2, <1>6, <2>1 DEF Solve, Undo
<1>7. CASE \/ \E p \in Queries : PushAssumption(p)
           \/ \E num \in 1..MaxAssumptions : PopAssumptions(num)
           \/ NextLiteral \/ Restart \/ Decide \/ Satisfied \/ Conflict \/ SkipLiteral \/ ResolveReason
           \/ Recount \/ Learn \/ FactsDone
  BY <1>2, <1>7 DEF PushAssumption, PopAssumptions, NextLiteral, Restart, Decide, Satisfied, Conflict, SkipLiteral,
     CanSkip, Skips, ResolveReason, Recount, Learn, FactsDone, Refuted, results
<1> QED BY <1>1, <1>3, <1>4, <1>5, <1>6, <1>7 DEF Next, Calls, Engine

\* Every step keeps the control state consistent with the trail.
LEMMA ControlNext ==
  ASSUME Inv, Next
  PROVE  Control'
<1>1. conflictClause' # NULL /\ data'[conflictClause'] = <<>> => {} \in Range(formula')
  BY EmptyNext
<1> QED BY <1>1, PlaceNext, AskedNext, ConflictNext, FormulaNext DEF Control

-----------------------------------------------------------------------------
(* What is learned follows from the clauses added.                          *)

\* A literal and its negation.
LEMMA HoldsNot ==
  ASSUME NEW a \in [Var -> BOOLEAN], NEW l \in Lit
  PROVE  Holds(a, -l) <=> ~Holds(a, l)
<1>1. l \in Int /\ l # 0 /\ l \in -MaxVar..MaxVar /\ MaxVar \in Nat \ {0}
  BY LitFacts DEF Lit
<1>2. CASE l > 0
  <2>1. ~(-l > 0) /\ -(-l) = l
    BY <1>1, <1>2
  <2> QED BY <1>2, <2>1 DEF Holds
<1>3. CASE ~(l > 0)
  <2>1. -l > 0 /\ -l \in Var
    BY <1>1, <1>3 DEF Var
  <2> QED BY <1>3, <2>1 DEF Holds
<1> QED BY <1>2, <1>3

\* A clause is its first literal and the others.
LEMMA FirstAndRest ==
  ASSUME NEW d \in Seq(Lit), Len(d) >= 1
  PROVE  Range(d) = {d[1]} \cup {d[n] : n \in 2..Len(d)}
<1>1. Range(d) = {d[n] : n \in 1..Len(d)} /\ Len(d) \in Nat
  BY RangeFacts
<1>2. \A n \in 1..Len(d) : n = 1 \/ n \in 2..Len(d)
  BY <1>1
<1>3. 1 \in 1..Len(d) /\ \A n \in 2..Len(d) : n \in 1..Len(d)
  BY <1>1
<1> QED BY <1>1, <1>2, <1>3

\* What follows from the clauses goes on to follow when one is added.
LEMMA ImpliedGrows ==
  ASSUME Inv, Next, NEW c, Implied(c)
  PROVE  Implied(c)'
<1>1. Range(formula) \subseteq Range(formula')
  BY FormulaNext
<1> QED BY <1>1 DEF Implied

\* Only a call of funcsatAddClause and an analysis make clauses.
LEMMA NewClauseFrom ==
  ASSUME Inv, Next, DOMAIN data' # DOMAIN data
  PROVE  Learn \/ \E c \in Inputs : AddClause(c)
<1>1. \A num \in 1..MaxAssumptions : ~PopAssumptions(num)
  BY PopAssumptionsFacts
<1>2. ~VisitClause
  <2> SUFFICES ASSUME VisitClause PROVE DOMAIN data' = DOMAIN data
    OBVIOUS
  <2> QED BY VisitPermutes DEF Permutes
<1>3. ~PropagateFact
  BY PropagateFactCases DEF FactIsWatched, FactIsImplied
<1>4. ~Refuted
  BY DEF Refuted
<1> QED BY <1>1, <1>2, <1>3, <1>4, Zenon DEF Next, Calls, Engine, PushAssumption, Solve, NextLiteral, Restart, Decide,
     Satisfied, Conflict, SkipLiteral, ResolveReason, Recount, Undo, FactsDone, clauses

\* A clause that is not dropped stays implied.
LEMMA LearnedSame ==
  ASSUME Inv, Next, NEW id \in DOMAIN data, data'[id] # <<>>
  PROVE  Implied(Range(data[id]))'
<1>1. Permuted(data[id], data'[id])
  BY DataNext DEF DataGood, Emptied
<1>2. data[id] # <<>>
  <2>1. data'[id] \in Seq(Lit)
    BY DataNext DEF DataGood
  <2> QED BY <1>1, <2>1 DEF Permuted
<1>3. Implied(Range(data[id]))
  BY <1>2 DEF Inv, LearnedSound
<1>4. PICK c : c = Range(data[id])
  OBVIOUS
<1>5. Implied(c)'
  BY <1>3, <1>4, ImpliedGrows
<1>6. Range(data'[id]) = c
  BY <1>1, <1>4 DEF Permuted
<1> QED BY <1>5, <1>6

\* A new clause is implied.
LEMMA LearnedNew ==
  ASSUME Inv, Next, NEW id \in DOMAIN data', id \notin DOMAIN data, data'[id] # <<>>
  PROVE  Implied(Range(data[id]))'
<1>1. Learn \/ \E c \in Inputs : AddClause(c)
  BY NewClauseFrom
<1>2. CASE Learn
  <2>1. PICK c : c = LearnedClause(Top.lit)
    OBVIOUS
  <2>2. Range(c) = Range(uipClause) /\ data' = Append(data, c) /\ pc \in Analyzing
    BY <1>2, <2>1, LearnFacts DEF Analyzing
  <2>3. data'[id] = c
    <3>1. id = Len(data) + 1
      BY <2>2, AppendedSame
    <3> QED BY <2>2, <3>1, AppendedSame
  <2>4. PICK r : r = Range(c)
    OBVIOUS
  <2>5. Implied(r)
    BY <2>2, <2>4 DEF Inv, LearnedSound
  <2>6. Implied(r)'
    BY <2>5, ImpliedGrows
  <2> QED BY <2>3, <2>4, <2>6
<1>3. ASSUME NEW c \in Inputs, AddClause(c)
      PROVE  Implied(Range(data[id]))'
  <2>1. PICK w : Added(c, w)
    BY <1>3, AddClauseCases
  <2>2. data' = Append(data, w) /\ Range(w) = Range(c)
    BY <2>1 DEF Added
  <2>3. data'[id] = w
    <3>1. id = Len(data) + 1
      BY <2>2, AppendedSame
    <3> QED BY <2>2, <3>1, AppendedSame
  <2>4. formula' = Append(formula, Range(c)) /\ formula \in Seq(SUBSET Lit)
    BY <1>3, FormulaNext DEF AddClause
  <2>5. Range(c) \in Range(formula')
    <3>1. PICK f, x : f = formula /\ x = Range(c)
      OBVIOUS
    <3>2. Append(f, x)[Len(f) + 1] = x /\ Len(f) + 1 \in DOMAIN Append(f, x)
      BY <2>4, <3>1
    <3> QED BY <2>4, <3>1, <3>2 DEF Range
  <2>6. PICK r : r = Range(c)
    OBVIOUS
  <2>7. Implied(r)'
    BY <2>5, <2>6 DEF Implied
  <2> QED BY <2>2, <2>3, <2>6, <2>7
<1> QED BY <1>1, <1>2, <1>3

\* A resolution: a model of both clauses is one of the resolvent.
LEMMA ResolventImplied ==
  ASSUME Inv, ResolveReason, Implied(Range(uipClause)), Implied(Range(data[Top.reason]))
  PROVE  \A r : r = Range(uipClause') => Implied(r)
<1>1. PICK q, d, u : q = Top.lit /\ d = data[Top.reason] /\ u = Range(uipClause)
  OBVIOUS
<1>2. /\ d \in Seq(Lit) /\ Len(d) >= 1 /\ d[1] = q /\ q \in Lit
      /\ \A n \in 2..Len(d) : VarOf(d[n]) # VarOf(q)
      /\ Range(uipClause') = {l \in u \cup Rest(Top.reason) : l # -q}
  <2>1. \A l \in Rest(Top.reason) : VarOf(l) # TopVar
    BY ResolveFacts
  <2>2. Rest(Top.reason) = {d[n] : n \in 2..Len(d)} /\ TopVar = VarOf(q)
    BY <1>1 DEF Rest, TopVar
  <2>3. q \in Lit
    BY <1>1, ResolveFacts, TopResolves
  <2> QED BY <1>1, <2>1, <2>2, <2>3, ResolveFacts
<1>3. Rest(Top.reason) = {d[n] : n \in 2..Len(d)} /\ Range(d) = {q} \cup {d[n] : n \in 2..Len(d)}
  BY <1>1, <1>2, FirstAndRest DEF Rest
<1>4. PICK r : r = Range(uipClause')
  OBVIOUS
<1>5. ASSUME NEW a \in [Var -> BOOLEAN], Satisfies(a, u), Satisfies(a, Range(d))
      PROVE  Satisfies(a, r)
  <2>1. PICK l \in u : Holds(a, l)
    BY <1>5 DEF Satisfies
  <2>2. PICK m \in Range(d) : Holds(a, m)
    BY <1>5 DEF Satisfies
  <2>3. CASE l # -q
    BY <1>2, <1>4, <2>1, <2>3 DEF Satisfies
  <2>4. CASE l = -q
    <3>1. ~Holds(a, q)
      BY <1>2, <2>1, <2>4, HoldsNot
    <3>2. m # q
      BY <2>2, <3>1
    <3>3. PICK n \in 2..Len(d) : m = d[n]
      BY <1>3, <3>2
    <3>4. m # -q
      BY <1>2, <3>3, LitFacts
    <3> QED BY <1>2, <1>3, <1>4, <2>2, <3>3, <3>4 DEF Satisfies
  <2> QED BY <2>3, <2>4
<1>6. Implied(u) /\ Implied(Range(d))
  BY <1>1
<1>7. Implied(r)
  BY <1>5, <1>6 DEF Implied
<1> QED BY <1>4, <1>7

\* Every clause the engine holds follows from those added.
LEMMA LearnedNext ==
  ASSUME Inv, Next
  PROVE  LearnedSound'
<1>1. ASSUME NEW id \in DOMAIN data', data'[id] # <<>>
      PROVE  Implied(Range(data[id]))'
  BY <1>1, LearnedSame, LearnedNew
<1>2. ASSUME pc' \in Analyzing
      PROVE  Implied(Range(uipClause))'
  <2>0. pc' \in Working
    BY <1>2 DEF Working
  <2>1. ASSUME NEW r, Implied(r), Range(uipClause') = r
        PROVE  Implied(Range(uipClause))'
    <3>1. Implied(r)'
      BY <2>1, ImpliedGrows
    <3> QED BY <2>1, <3>1
  <2>2. ASSUME pc \in Analyzing, UNCHANGED uipClause
        PROVE  Implied(Range(uipClause))'
    BY <2>1, <2>2 DEF Inv, LearnedSound
  <2>3. ASSUME Conflict, pc = "conflict", conflictClause \in DOMAIN data, StartAnalysis(conflictClause)
        PROVE  Implied(Range(uipClause))'
    <3>1. uipClause' = data[conflictClause] /\ \E l \in Range(data[conflictClause]) : TRUE
      BY <2>3 DEF StartAnalysis, Inv, Control
    <3>2. data[conflictClause] # <<>>
      BY <3>1 DEF Range
    <3>3. Implied(Range(data[conflictClause]))
      BY <2>3, <3>2 DEF Inv, LearnedSound
    <3> QED BY <2>1, <3>1, <3>3
  <2>4. ASSUME ResolveReason
        PROVE  Implied(Range(uipClause))'
    <3>1. pc \in Analyzing /\ Top.reason \in DOMAIN data /\ data[Top.reason] # <<>>
      <4>1. Len(<<>>) = 0
        OBVIOUS
      <4> QED BY <2>4, <4>1, ResolveFacts DEF Analyzing
    <3>2. Implied(Range(uipClause)) /\ Implied(Range(data[Top.reason]))
      BY <3>1 DEF Inv, LearnedSound
    <3>3. \A r : r = Range(uipClause') => Implied(r)
      BY <2>4, <3>2, ResolventImplied
    <3> QED BY <2>1, <3>3
  <2>5. pc \in Working /\ pc # "undo" => pc \in Analyzing
    BY DEF Working
  <2>6. Recount \/ Learn \/ SkipLiteral => UNCHANGED uipClause
    BY DEF Recount, Learn, SkipLiteral, learning
  <2> QED BY <2>0, <2>2, <2>3, <2>4, <2>5, <2>6, WorkingCases
<1> QED BY <1>1, <1>2 DEF LearnedSound

-----------------------------------------------------------------------------
(* Level 0 follows from the clauses and the assumptions below.              *)

\* The part of RootSound for position k.
RootHolds(k) ==
  trail[k].level = 0 =>
    \A a \in ModelsOf(Range(formula)) :
      (\A j \in 1..k : trail[j].reason = NULL => Holds(a, trail[j].lit)) => Holds(a, trail[k].lit)

\* What is implied at level 0 by a clause that follows from the formula.
LEMMA ReasonHolds ==
  ASSUME NEW d \in Seq(Lit), Len(d) >= 1, Implied(Range(d)), NEW a \in ModelsOf(Range(formula)),
         \A n \in 2..Len(d) : ~Holds(a, d[n])
  PROVE  Holds(a, d[1])
<1>1. a \in [Var -> BOOLEAN] /\ \A c \in Range(formula) : Satisfies(a, c)
  BY DEF ModelsOf
<1>2. Satisfies(a, Range(d))
  BY <1>1 DEF Implied
<1>3. PICK l \in Range(d) : Holds(a, l)
  BY <1>2 DEF Satisfies
<1> QED BY <1>3, FirstAndRest

\* A call only removes models.
LEMMA ModelsShrink ==
  ASSUME Inv, Next
  PROVE  ModelsOf(Range(formula')) \subseteq ModelsOf(Range(formula))
BY FormulaNext DEF ModelsOf

\* A literal that was on the trail.
LEMMA RootOld ==
  ASSUME Inv, Next, NEW k \in 1..Len(trail'), OldEntry(k)
  PROVE  RootHolds(k)'
<1>1. k \in 1..Len(trail) /\ \A j \in 1..k : trail'[j] = trail[j]
  BY DEF OldEntry
<1>2. k \in DOMAIN trail /\ trail'[k] = trail[k]
  BY <1>1, InvTrail
<1>3. RootHolds(k)
  BY <1>2 DEF Inv, RootSound, RootHolds
<1> QED BY <1>1, <1>2, <1>3, ModelsShrink DEF RootHolds

\* A literal that is implied: its reason follows from the formula, and its other
\* literals are false below.
LEMMA RootImplied ==
  ASSUME Inv, Next, NEW k \in 1..Len(trail'), ImpliedEntry(k)
  PROVE  RootHolds(k)'
<1> SUFFICES ASSUME trail'[k].level = 0, NEW a \in ModelsOf(Range(formula')),
                    \A j \in 1..k : trail'[j].reason = NULL => Holds(a, trail'[j].lit)
             PROVE  Holds(a, trail'[k].lit)
  BY DEF RootHolds
<1>1. PICK l, id : NewLit(l) /\ Implies(l, id) /\ trail'[k] = Entry(l, id)
  BY DEF ImpliedEntry
<1>2. /\ k = Len(trail) + 1 /\ \A j \in 1..Len(trail) : trail'[j] = trail[j]
      /\ Len(trail) \in Nat /\ DOMAIN trail = 1..Len(trail)
  BY InvTrail DEF ImpliedEntry
<1>3. trail'[k].lit = l /\ decisionLevel = 0
  BY <1>1 DEF Entry
<1>4. PICK d : d = data'[id]
  OBVIOUS
<1>5. d \in Seq(Lit) /\ d[1] = l /\ Len(d) >= 1 /\ id \in DOMAIN data /\ \A n \in 2..Len(d) : IsFalse(trail, d[n])
  BY <1>1, <1>4 DEF Implies
<1>6. Implied(Range(d))'
  <2>1. id \in DOMAIN data' /\ data'[id] # <<>>
    <3>1. d # <<>>
      BY <1>5
    <3> QED BY <1>4, <1>5, <3>1, DataNext DEF DataGood
  <2>2. PICK r : r = Range(d)
    OBVIOUS
  <2>3. Implied(r)'
    <3>1. Implied(Range(data[id]))'
      BY <2>1, LearnedNext DEF LearnedSound
    <3> QED BY <1>4, <2>2, <3>1
  <2> QED BY <2>2, <2>3
<1>7. a \in ModelsOf(Range(formula)) /\ a \in [Var -> BOOLEAN]
  BY ModelsShrink DEF ModelsOf
<1>8. ASSUME NEW j \in 1..Len(trail)
      PROVE  Holds(a, trail[j].lit)
  <2>1. trail[j].level = 0
    BY <1>3, InvLevels
  <2>2. \A m \in 1..j : m \in 1..k /\ m \in 1..Len(trail) /\ trail'[m] = trail[m]
    BY <1>2
  <2>3. \A m \in 1..j : trail[m].reason = NULL => Holds(a, trail[m].lit)
    BY <2>2
  <2> QED BY <1>2, <1>7, <2>1, <2>3 DEF Inv, RootSound
<1>9. ASSUME NEW n \in 2..Len(d)
      PROVE  ~Holds(a, d[n])
  <2>1. n \in 1..Len(d)
    BY <1>5
  <2>2. d[n] \in Lit
    BY <1>5, <2>1
  <2>3. PICK j \in 1..Len(trail) : trail[j].lit = -d[n]
    BY <1>2, <1>5 DEF IsFalse, IsTrue
  <2> QED BY <1>7, <1>8, <2>2, <2>3, HoldsNot
<1>10. Holds(a, d[1])
  <2>1. PICK r : r = Range(d)
    OBVIOUS
  <2>2. Implied(r)'
    BY <1>6, <2>1
  <2>3. Satisfies(a, r)
    BY <2>2 DEF Implied, ModelsOf
  <2>4. PICK m \in Range(d) : Holds(a, m)
    BY <2>1, <2>3 DEF Satisfies
  <2> QED BY <1>5, <1>9, <2>4, FirstAndRest
<1> QED BY <1>3, <1>5, <1>10

\* A literal that a call puts at level 0.
LEMMA RootAdded ==
  ASSUME Inv, Next, NEW k \in 1..Len(trail'), RootEntry(k)
  PROVE  RootHolds(k)'
<1> SUFFICES ASSUME NEW a \in ModelsOf(Range(formula')),
                    \A j \in 1..k : trail'[j].reason = NULL => Holds(a, trail'[j].lit)
             PROVE  Holds(a, trail'[k].lit)
  BY DEF RootHolds
<1>1. CASE trail'[k].reason = NULL
  <2>1. k \in 1..k
    OBVIOUS
  <2> QED BY <1>1, <2>1
<1>2. CASE trail'[k].reason \in DOMAIN data' /\ data'[trail'[k].reason] = <<trail'[k].lit>>
  <2>1. PICK id, l : id = trail'[k].reason /\ l = trail'[k].lit
    OBVIOUS
  <2>2. id \in DOMAIN data' /\ data'[id] = <<l>> /\ data'[id] # <<>>
    BY <1>2, <2>1, SMTT(20)
  <2>3. Implied(Range(data[id]))'
    BY <2>2, LearnedNext DEF LearnedSound
  <2>4. PICK r : r = {l}
    OBVIOUS
  <2>5. Range(data'[id]) = r
    BY <2>2, <2>4 DEF Range
  <2>6. Implied(r)'
    BY <2>3, <2>5
  <2>7. Satisfies(a, r)
    BY <2>6 DEF Implied, ModelsOf
  <2> QED BY <2>1, <2>4, <2>7 DEF Satisfies
<1> QED BY <1>1, <1>2 DEF RootEntry

\* Every step keeps the literals of level 0 implied by clauses and assumptions.
LEMMA RootNext ==
  ASSUME Inv, Next
  PROVE  RootSound'
<1>1. ASSUME NEW k \in 1..Len(trail')
      PROVE  RootHolds(k)'
  <2>1. CASE DecisionEntry(k)
    <3>1. trail'[k].level > 0
      BY <2>1, TrailNext DEF DecisionEntry, TrailGood
    <3>2. ~(trail'[k].level = 0)
      BY <3>1
    <3> QED BY <3>2 DEF RootHolds
  <2> QED BY <2>1, EntryCases, RootOld, RootImplied, RootAdded
<1>2. DOMAIN trail' = 1..Len(trail')
  BY SeenNext
<1> QED BY <1>1, <1>2 DEF RootSound, RootHolds

-----------------------------------------------------------------------------
(* The assumptions on level 0.                                              *)

Assumes == (\E p \in Queries : PushAssumption(p)) \/ (\E num \in 1..MaxAssumptions : PopAssumptions(num))

\* A step keeps level 0, and puts nothing on it without a reason.
RootKept ==
  /\ \A k \in 1..Len(trail) : trail[k].level = 0 => k \in 1..Len(trail') /\ trail'[k] = trail[k]
  /\ \A k \in 1..Len(trail') : trail'[k].level = 0 /\ trail'[k].reason = NULL =>
       k \in 1..Len(trail) /\ trail'[k] = trail[k]

\* Backtracking to level 0 keeps the assumptions.
LEMMA RootKeptLevelZero ==
  ASSUME Inv, trail' = LevelZero
  PROVE  RootKept
<1>1. Len(trail) \in Nat /\ Bottom \in 0..Len(trail)
  BY InvBottom, InvTrail
<1>2. \A k \in 1..Bottom : k \in 1..Len(trail)
  BY <1>1
<1> QED BY <1>1, <1>2, InvBottom DEF RootKept

\* What is implied or decided leaves the assumptions.
LEMMA RootKeptAppend ==
  ASSUME Inv, NEW t, t \in Trails, NEW e, trail' = Append(t, e), ~(e.level = 0 /\ e.reason = NULL),
         t = trail \/ t = LevelZero
  PROVE  RootKept
<1>1. Len(trail) \in Nat /\ Bottom \in 0..Len(trail) /\ \A k \in 1..Len(trail) : trail[k].level = 0 <=> k <= Bottom
  BY InvBottom, InvTrail
<1>2. /\ Len(t) \in Nat /\ Len(t) <= Len(trail)
      /\ \A k \in 1..Len(t) : t[k] = trail[k] /\ k \in 1..Len(trail)
      /\ \A k \in 1..Len(trail) : trail[k].level = 0 => k \in 1..Len(t)
  <2>1. CASE t = trail
    BY <1>1, <2>1
  <2>2. CASE t = LevelZero
    <3>1. Len(t) = Bottom /\ \A k \in 1..Bottom : t[k] = trail[k]
      BY <2>2, InvBottom
    <3> QED BY <1>1, <3>1
  <2> QED BY <2>1, <2>2
<1>3. /\ Len(trail') = Len(t) + 1 /\ trail'[Len(t) + 1] = e /\ \A k \in 1..Len(t) : trail'[k] = t[k]
  BY <1>2 DEF Trails
<1>4. \A k \in 1..Len(t) : k \in 1..Len(trail')
  BY <1>2, <1>3
<1>5. \A k \in 1..Len(trail') : k \in 1..Len(t) \/ k = Len(t) + 1
  BY <1>2, <1>3
<1>6. \A k \in 1..Len(trail) : trail[k].level = 0 => k \in 1..Len(trail') /\ trail'[k] = trail[k]
  BY <1>2, <1>3, <1>4
<1>7. \A k \in 1..Len(trail') : trail'[k].level = 0 /\ trail'[k].reason = NULL =>
       k \in 1..Len(trail) /\ trail'[k] = trail[k]
  BY <1>2, <1>3, <1>5
<1> QED BY <1>6, <1>7 DEF RootKept

\* Adding a clause leaves the assumptions.
LEMMA RootKeptAdd ==
  ASSUME Inv, NEW c \in Inputs, AddClause(c)
  PROVE  RootKept
<1>1. CASE trail' = LevelZero
  BY <1>1, RootKeptLevelZero
<1>2. ASSUME NEW w, Added(c, w), Len(w) = 1, trail' # LevelZero
      PROVE  RootKept
  <2>1. trail' = Append(LevelZero, [lit |-> w[1], level |-> 0, reason |-> Len(data) + 1, decision |-> FALSE])
    BY <1>2 DEF Added, AddUnit
  <2>2. PICK e : e = [lit |-> w[1], level |-> 0, reason |-> Len(data) + 1, decision |-> FALSE]
    OBVIOUS
  <2>3. e.reason # NULL
    BY <2>2, DataTypes DEF Inv, NULL
  <2>4. LevelZero \in Trails
    BY InvBottom
  <2> QED BY <2>1, <2>2, <2>3, <2>4, RootKeptAppend
<1> QED BY <1>1, <1>2, AddClauseCases DEF Added

\* Only the calls about assumptions change the assumptions.
LEMMA RootKeptNext ==
  ASSUME Inv, Next, ~Assumes
  PROVE  RootKept /\ UNCHANGED <<assumptions, held>>
<1>1. UNCHANGED <<assumptions, held>>
  BY Zenon DEF Assumes, Next, Calls, Engine, AddClause, Solve, VisitClause, NextLiteral, Restart, Decide, Satisfied, Finish,
     Conflict, SkipLiteral, ResolveReason, Recount, Learn, Undo, Refuted, FactsDone, PropagateFact, client
<1> SUFFICES RootKept
  BY <1>1
<1>2. trail \in Trails
  BY InvTrail
<1>3. CASE trail' = trail
  BY <1>2, <1>3 DEF RootKept
<1>4. CASE PushesImplied
  <2>1. PICK l, id : NewLit(l) /\ Implies(l, id) /\ TrailPush(l, id)
    BY <1>4 DEF PushesImplied
  <2>2. PICK e : e = Entry(l, id)
    OBVIOUS
  <2>3. e.reason # NULL
    BY <2>1, <2>2, DataTypes DEF Inv, Implies, Entry, NULL
  <2> QED BY <1>2, <2>1, <2>2, <2>3, RootKeptAppend DEF TrailPush
<1>5. CASE PushesDecision
  <2>1. PICK v : trail' = Append(trail, [lit |-> -v, level |-> decisionLevel + 1, reason |-> NULL, decision |-> TRUE])
    BY <1>5 DEF PushesDecision
  <2>2. PICK e : e = [lit |-> -v, level |-> decisionLevel + 1, reason |-> NULL, decision |-> TRUE]
    OBVIOUS
  <2>3. e.level # 0
    BY <2>2, InvLevels
  <2> QED BY <1>2, <2>1, <2>2, <2>3, RootKeptAppend
<1>6. CASE PopStep
  <2>1. Pops /\ decisionLevel >= 1
    BY <1>6, PopStepFacts
  <2>2. \A k \in 1..Len(trail) : trail[k].level = 0 => k # Len(trail)
    BY <2>1, PopFacts, InvLevels
  <2>3. \A k \in 1..Len(trail) : k # Len(trail) => k \in 1..(Len(trail) - 1)
    BY <2>1, PopFacts, Below
  <2> QED BY <2>1, <2>2, <2>3, PopFacts DEF RootKept
<1>7. ASSUME NEW c \in Inputs, AddClause(c)
      PROVE  RootKept
  BY <1>7, RootKeptAdd
<1>8. CASE Solve \/ Restart
  BY <1>3, <1>8, RootKeptLevelZero DEF Solve, Restart, BacktrackTo, assignment
<1>9. CASE VisitClause
  BY <1>3, <1>4, <1>9, VisitPushes DEF Stays
<1>10. CASE PropagateFact
  BY <1>3, <1>4, <1>10, PropagatePushes DEF Stays
<1>11. CASE Decide
  BY <1>5, <1>11, DecidePushes
<1>12. CASE NextLiteral \/ Satisfied \/ Conflict \/ Recount \/ Learn \/ Refuted \/ FactsDone
  BY <1>3, <1>12 DEF NextLiteral, Satisfied, Conflict, Recount, Learn, Refuted, FactsDone, assignment
<1> QED BY <1>6, <1>7, <1>8, <1>9, <1>10, <1>11, <1>12 DEF Assumes, Next, Calls, Engine, PopStep

\* The assumptions of a state, with their types.
LEMMA AssumedNow ==
  ASSUME Inv
  PROVE  /\ assumptions \in Seq(Lit \cup {0}) /\ held \in Seq(Lit) /\ Len(held) = Len(assumptions)
         /\ Len(assumptions) \in Nat /\ DOMAIN assumptions = 1..Len(assumptions) /\ DOMAIN held = 1..Len(assumptions)
         /\ \A n \in 1..Len(assumptions) :
              /\ held[n] \in Lit /\ assumptions[n] \in {0, held[n]}
              /\ \E k \in 1..Bottom : trail[k].lit = held[n]
              /\ assumptions[n] # 0 => \E k \in 1..Bottom :
                   /\ trail[k].lit = held[n] /\ trail[k].reason = NULL
                   /\ \A m \in 1..(n - 1) : \E j \in 1..(k - 1) : trail[j].lit = held[m]
         /\ \A k \in 1..Bottom : trail[k].reason = NULL =>
              \E n \in 1..Len(assumptions) : assumptions[n] # 0 /\ held[n] = trail[k].lit
<1>1. /\ assumptions \in Seq(Lit \cup {0}) /\ held \in Seq(Lit) /\ Len(held) = Len(assumptions)
      /\ Len(assumptions) \in Nat /\ DOMAIN assumptions = 1..Len(assumptions) /\ DOMAIN held = 1..Len(assumptions)
  BY DEF Inv, TypeOK, AssumptionsInOrder
<1>2. \A k \in DOMAIN trail : trail[k].level = 0 <=> k \in 1..Bottom
  <2>1. \A k \in 1..Len(trail) : k <= Bottom <=> k \in 1..Bottom
    BY InvBottom, InvTrail
  <2> QED BY <2>1, InvBottom, InvTrail
<1>3. \A l \in Lit : l # 0
  BY LitFacts
<1>4. Bottom \in 0..Len(trail) /\ DOMAIN trail = 1..Len(trail) /\ Len(trail) \in Nat
  BY InvBottom, InvTrail
<1>5. \A k \in 1..Bottom : k \in DOMAIN trail /\ trail[k].lit \in Lit
  BY <1>4, InvTrail
<1>6. ASSUME NEW n \in 1..Len(assumptions)
      PROVE  /\ held[n] \in Lit /\ assumptions[n] \in {0, held[n]}
             /\ \E k \in 1..Bottom : trail[k].lit = held[n]
             /\ assumptions[n] # 0 => \E k \in 1..Bottom :
                   /\ trail[k].lit = held[n] /\ trail[k].reason = NULL
                   /\ \A m \in 1..(n - 1) : \E j \in 1..(k - 1) : trail[j].lit = held[m]
  <2>1. held[n] \in Lit /\ assumptions[n] \in {0, held[n]} /\ \E k \in 1..Bottom : trail[k].lit = held[n]
    BY <1>1, <1>2 DEF Inv, AssumptionsInOrder, At
  <2>2. ASSUME assumptions[n] # 0
        PROVE  \E k \in 1..Bottom :
                   /\ trail[k].lit = held[n] /\ trail[k].reason = NULL
                   /\ \A m \in 1..(n - 1) : \E j \in 1..(k - 1) : trail[j].lit = held[m]
    <3>1. PICK k \in DOMAIN trail : /\ At(k, assumptions[n]) /\ trail[k].reason = NULL
                                    /\ \A m \in 1..(n - 1) : \E j \in 1..(k - 1) : At(j, held[m])
      BY <1>1, <2>2 DEF Inv, AssumptionsInOrder
    <3>2. k \in 1..Bottom /\ trail[k].lit = held[n]
      BY <1>2, <2>1, <2>2, <3>1 DEF At
    <3>3. \A m \in 1..(n - 1) : \E j \in 1..(k - 1) : trail[j].lit = held[m]
      BY <3>1 DEF At
    <3> QED BY <3>1, <3>2, <3>3
  <2> QED BY <2>1, <2>2
<1>7. ASSUME NEW k \in 1..Bottom, trail[k].reason = NULL
      PROVE  \E n \in 1..Len(assumptions) : assumptions[n] # 0 /\ held[n] = trail[k].lit
  <2>1. PICK n \in 1..Len(assumptions) : assumptions[n] = trail[k].lit
    BY <1>1, <1>2, <1>5, <1>7 DEF Inv, AssumptionsInOrder
  <2>2. assumptions[n] # 0
    BY <1>3, <1>5, <2>1
  <2> QED BY <1>6, <2>1, <2>2
<1> QED BY <1>1, <1>6, <1>7

\* A part of the stack, in the order of the trail.
InOrder(A, H, t) ==
  /\ Len(A) = Len(H) /\ H \in Seq(Lit)
  /\ \A n \in DOMAIN H : A[n] \in {0, H[n]} /\ \E k \in DOMAIN t : t[k].lit = H[n] /\ t[k].level = 0
  /\ \A k \in DOMAIN t : t[k].level = 0 /\ t[k].reason = NULL => \E n \in DOMAIN A : A[n] = t[k].lit
  /\ \A n \in DOMAIN A : A[n] # 0 =>
       \E k \in DOMAIN t :
         /\ t[k].lit = A[n] /\ t[k].level = 0 /\ t[k].reason = NULL
         /\ \A m \in 1..(n - 1) : \E j \in 1..(k - 1) : t[j].lit = H[m] /\ t[j].level = 0

\* The order of the assumptions, stated of the next state.
LEMMA InOrderNext == InOrder(assumptions', held', trail') => AssumptionsInOrder'
BY DEF InOrder, AssumptionsInOrder, At

\* A step that keeps level 0 and the stack.
LEMMA OrderKept ==
  ASSUME Inv, Next, RootKept, UNCHANGED <<assumptions, held>>
  PROVE  AssumptionsInOrder'
<1>1. DOMAIN trail = 1..Len(trail) /\ Len(trail) \in Nat
  BY InvTrail
<1>2. DOMAIN trail' = 1..Len(trail') /\ Len(trail') \in Nat
  BY SeenNext
<1>3. Bottom \in 0..Len(trail) /\ \A k \in 1..Len(trail) : trail[k].level = 0 <=> k <= Bottom
  BY InvBottom
<1>4. \A k \in 1..Bottom : k \in DOMAIN trail' /\ trail'[k] = trail[k] /\ trail'[k].level = 0
  <2>1. \A k \in 1..Bottom : k \in 1..Len(trail) /\ k <= Bottom
    BY <1>1, <1>3
  <2> QED BY <1>2, <1>3, <2>1 DEF RootKept
<1>5. \A k \in DOMAIN trail' : trail'[k].level = 0 /\ trail'[k].reason = NULL =>
        k \in 1..Bottom /\ trail'[k] = trail[k]
  <2>1. \A k \in 1..Len(trail) : k <= Bottom => k \in 1..Bottom
    BY <1>1, <1>3
  <2> QED BY <1>2, <1>3, <2>1 DEF RootKept
<1>6. \A k \in 1..Bottom : \A j \in 1..(k - 1) : j \in 1..Bottom
  BY <1>1, <1>3
<1>7. \A n \in DOMAIN held' : assumptions'[n] \in {0, held'[n]} /\ \E k \in DOMAIN trail' : trail'[k].lit = held'[n] /\ trail'[k].level = 0
  BY <1>4, AssumedNow
<1>8. \A k \in DOMAIN trail' : trail'[k].level = 0 /\ trail'[k].reason = NULL => \E n \in DOMAIN assumptions' : assumptions'[n] = trail'[k].lit
  <2> SUFFICES ASSUME NEW k \in DOMAIN trail', trail'[k].level = 0, trail'[k].reason = NULL
               PROVE  \E n \in DOMAIN assumptions' : assumptions'[n] = trail'[k].lit
    OBVIOUS
  <2>1. k \in 1..Bottom /\ trail'[k] = trail[k]
    BY <1>5
  <2>2. PICK n \in 1..Len(assumptions) : assumptions[n] # 0 /\ held[n] = trail[k].lit
    BY <2>1, AssumedNow
  <2>3. assumptions[n] = trail[k].lit /\ n \in DOMAIN assumptions
    BY <2>2, AssumedNow
  <2> QED BY <2>1, <2>3
<1>9. ASSUME NEW n \in DOMAIN assumptions', assumptions'[n] # 0
      PROVE  \E k \in DOMAIN trail' :
         /\ trail'[k].lit = assumptions'[n] /\ trail'[k].level = 0 /\ trail'[k].reason = NULL
         /\ \A m \in 1..(n - 1) : \E j \in 1..(k - 1) : trail'[j].lit = held'[m] /\ trail'[j].level = 0
  <2>1. n \in 1..Len(assumptions) /\ assumptions[n] = held[n] /\ assumptions[n] # 0
    BY <1>9, AssumedNow
  <2>2. PICK k \in 1..Bottom : /\ trail[k].lit = held[n] /\ trail[k].reason = NULL
                               /\ \A m \in 1..(n - 1) : \E j \in 1..(k - 1) : trail[j].lit = held[m]
    BY <2>1, AssumedNow
  <2>3. \A m \in 1..(n - 1) : \E j \in 1..(k - 1) : trail'[j].lit = held'[m] /\ trail'[j].level = 0
    BY <1>4, <1>6, <2>2
  <2>4. k \in DOMAIN trail' /\ trail'[k] = trail[k] /\ trail'[k].level = 0
    BY <1>4, <2>2
  <2>5. assumptions'[n] = held[n]
    BY <2>1
  <2>6. trail'[k].lit = assumptions'[n] /\ trail'[k].reason = NULL
    BY <2>2, <2>4, <2>5
  <2>7. QED BY <2>3, <2>4, <2>6
<1>10. InOrder(assumptions', held', trail')
  BY <1>7, <1>8, <1>9, AssumedNow DEF InOrder
<1> QED BY <1>10, InOrderNext

\* The stack and level 0 after PushAssumption.
LEMMA PushedStack ==
  ASSUME Inv, NEW p \in Queries, PushAssumption(p), ~Refuses(p)
  PROVE  /\ p \in Lit /\ held' = Append(held, p) /\ LevelZero \in Trails /\ Len(LevelZero) = Bottom /\ Bottom \in Nat
         /\ \/ /\ trail' = Append(LevelZero, [lit |-> p, level |-> 0, reason |-> NULL, decision |-> FALSE])
               /\ assumptions' = Append(assumptions, p)
            \/ /\ trail' = LevelZero /\ assumptions' = Append(assumptions, 0) /\ \E k \in 1..Bottom : trail[k].lit = p
<1>1. p \in Lit
  BY PushAssumptionFacts
<1>2. held' = Append(held, p) /\ assumptions' = Append(assumptions, Recorded(p))
  BY DEF PushAssumption
<1>3. LevelZero \in Trails /\ Len(LevelZero) = Bottom /\ \A k \in 1..Bottom : LevelZero[k] = trail[k]
  BY InvBottom
<1>4. DOMAIN LevelZero = 1..Bottom /\ Bottom \in Nat
  BY <1>3 DEF Trails
<1>5. CASE IsUnknown(LevelZero, p)
  <2>1. Recorded(p) = p
    BY <1>5 DEF Recorded, IsUnknown
  <2>2. trail' = Append(LevelZero, [lit |-> p, level |-> 0, reason |-> NULL, decision |-> FALSE])
    BY <1>5 DEF PushAssumption, BacktrackTo
  <2> QED BY <1>1, <1>2, <1>3, <1>4, <2>1, <2>2
<1>6. CASE ~IsUnknown(LevelZero, p)
  <2>1. IsTrue(LevelZero, p)
    BY <1>6 DEF IsUnknown, Refuses
  <2>2. Recorded(p) = 0
    BY <2>1 DEF Recorded
  <2>3. trail' = LevelZero
    BY <1>6 DEF PushAssumption, BacktrackTo
  <2>4. \E k \in 1..Bottom : trail[k].lit = p
    BY <1>3, <1>4, <2>1 DEF IsTrue
  <2> QED BY <1>1, <1>2, <1>3, <1>4, <2>2, <2>3, <2>4
<1> QED BY <1>5, <1>6

\* One more entry of a stack.
LEMMA AppendFacts ==
  ASSUME NEW S, NEW s \in Seq(S), NEW x \in S, NEW t, t = Append(s, x)
  PROVE  /\ Len(s) \in Nat /\ t \in Seq(S) /\ Len(t) = Len(s) + 1 /\ DOMAIN t = 1..(Len(s) + 1) /\ t[Len(s) + 1] = x
         /\ \A n \in 1..Len(s) : t[n] = s[n] /\ n \in 1..(Len(s) + 1)
         /\ Len(s) + 1 \in 1..(Len(s) + 1)
         /\ \A n \in 1..(Len(s) + 1) : n \in 1..Len(s) \/ n = Len(s) + 1
         /\ \A n \in 1..Len(s) : \A m \in 1..(n - 1) : m \in 1..Len(s)
         /\ \A m \in 1..(Len(s) + 1 - 1) : m \in 1..Len(s)
<1> DEFINE N == Len(s)
           M == N + 1
<1>1. N \in Nat /\ t \in Seq(S) /\ Len(t) = M
  OBVIOUS
<1>2. t[M] = x
  OBVIOUS
<1>3. \A n \in 1..N : t[n] = s[n]
  OBVIOUS
<1>4. DOMAIN t = 1..M
  BY <1>1
<1> HIDE DEF N
<1>5. \A n \in 1..N : n \in 1..M
  BY <1>1
<1>6. M \in 1..M /\ \A n \in 1..M : n \in 1..N \/ n = M
  BY <1>1
<1>7. \A n \in 1..N : \A m \in 1..(n - 1) : m \in 1..N
  BY <1>1
<1>8. \A m \in 1..(M - 1) : m \in 1..N
  BY <1>1
<1> USE DEF N
<1>9. QED BY <1>1, <1>2, <1>3, <1>4, <1>5, <1>6, <1>7, <1>8

\* A pushed assumption is the last.
LEMMA OrderPushed ==
  ASSUME Inv, Next, NEW p \in Queries, PushAssumption(p), ~Refuses(p)
  PROVE  AssumptionsInOrder'
<1> DEFINE N == Len(assumptions)
<1>0. N \in Nat /\ assumptions \in Seq(Lit \cup {0}) /\ held \in Seq(Lit) /\ Len(held) = N
  BY AssumedNow
<1>1. PICK A, H, t, b : A = assumptions' /\ H = held' /\ t = trail' /\ b = Bottom
  OBVIOUS
<1>2. /\ p \in Lit /\ b \in Nat /\ H = Append(held, p) /\ A \in {Append(assumptions, p), Append(assumptions, 0)}
  BY <1>1, PushedStack
<1>3. /\ H \in Seq(Lit) /\ Len(H) = N + 1 /\ DOMAIN H = 1..(N + 1) /\ H[N + 1] = p
      /\ \A n \in 1..N : H[n] = held[n]
  BY <1>0, <1>2, AppendFacts
<1>4. /\ Len(A) = N + 1 /\ DOMAIN A = 1..(N + 1) /\ \A n \in 1..N : A[n] = assumptions[n]
      /\ A = Append(assumptions, p) => A[N + 1] = p
      /\ A = Append(assumptions, 0) => A[N + 1] = 0
  BY <1>0, <1>2, AppendFacts, SMTT(20)
<1>5. /\ \A n \in 1..(N + 1) : n \in 1..N \/ n = N + 1
      /\ \A n \in 1..N : \A m \in 1..(n - 1) : m \in 1..N
      /\ \A m \in 1..(N + 1 - 1) : m \in 1..N
      /\ \A k \in 1..b : \A j \in 1..(k - 1) : j \in 1..b
      /\ \A j \in 1..b : j \in 1..(b + 1 - 1)
  BY <1>0, <1>2
<1>6. PICK e : e = [lit |-> p, level |-> 0, reason |-> NULL, decision |-> FALSE]
  OBVIOUS
<1>7. \/ t = Append(LevelZero, e) /\ A = Append(assumptions, p)
      \/ t = LevelZero /\ A = Append(assumptions, 0) /\ \E k \in 1..b : trail[k].lit = p
  BY <1>1, <1>6, PushedStack
<1>8. /\ LevelZero \in Trails /\ Len(LevelZero) = b
      /\ \A k \in 1..b : LevelZero[k] = trail[k] /\ LevelZero[k].level = 0
  <2>1. \A k \in 1..Bottom : k \in 1..Len(trail) /\ k <= Bottom
    BY InvBottom, InvTrail
  <2> QED BY <1>1, <2>1, InvBottom
<1>9. /\ \A k \in 1..b : k \in DOMAIN t /\ t[k] = trail[k] /\ t[k].level = 0
      /\ \A k \in DOMAIN t : k \in 1..b \/ (k = b + 1 /\ t[k] = e /\ A[N + 1] = p)
      /\ A[N + 1] # 0 => b + 1 \in DOMAIN t /\ t[b + 1] = e
  <2>1. CASE t = Append(LevelZero, e) /\ A = Append(assumptions, p)
    <3>1. e \in TrailEntry
      BY <1>2, <1>6 DEF TrailEntry, NULL
    <3>2. /\ DOMAIN t = 1..(b + 1) /\ t[b + 1] = e /\ \A k \in 1..b : t[k] = LevelZero[k] /\ k \in 1..(b + 1)
          /\ b + 1 \in 1..(b + 1) /\ \A k \in 1..(b + 1) : k \in 1..b \/ k = b + 1
      BY <1>8, <2>1, <3>1, AppendFacts DEF Trails
    <3> QED BY <1>4, <1>8, <2>1, <3>2
  <2>2. CASE t = LevelZero /\ A = Append(assumptions, 0)
    <3>1. DOMAIN t = 1..b
      BY <1>8, <2>2 DEF Trails
    <3> QED BY <1>4, <1>8, <2>2, <3>1
  <2> QED BY <1>7, <2>1, <2>2
<1>10. ASSUME NEW n \in DOMAIN H
       PROVE  A[n] \in {0, H[n]} /\ \E k \in DOMAIN t : t[k].lit = H[n] /\ t[k].level = 0
  <2>1. CASE n \in 1..N
    <3>1. assumptions[n] \in {0, held[n]} /\ \E k \in 1..b : trail[k].lit = held[n]
      BY <1>1, <2>1, AssumedNow
    <3> QED BY <1>3, <1>4, <1>9, <2>1, <3>1
  <2>2. CASE n = N + 1
    <3>1. A[n] \in {0, p}
      BY <1>2, <1>4, <2>2
    <3>2. \E k \in DOMAIN t : t[k].lit = p /\ t[k].level = 0
      <4>1. CASE t = Append(LevelZero, e) /\ A = Append(assumptions, p)
        <5>1. A[N + 1] # 0
          BY <1>2, <1>4, <4>1, LitFacts
        <5> QED BY <1>6, <1>9, <5>1
      <4>2. CASE \E k \in 1..b : trail[k].lit = p
        BY <1>9, <4>2
      <4> QED BY <1>7, <4>1, <4>2
    <3> QED BY <1>3, <2>2, <3>1, <3>2
  <2> QED BY <1>3, <1>5, <2>1, <2>2
<1>11. ASSUME NEW k \in DOMAIN t, t[k].level = 0, t[k].reason = NULL
       PROVE  \E n \in DOMAIN A : A[n] = t[k].lit
  <2>1. CASE k \in 1..b
    <3>1. PICK n \in 1..N : assumptions[n] # 0 /\ held[n] = trail[k].lit
      BY <1>1, <1>9, <1>11, <2>1, AssumedNow
    <3>2. assumptions[n] = trail[k].lit
      BY <3>1, AssumedNow
    <3>3. n \in DOMAIN A
      BY <1>0, <1>4
    <3> QED BY <1>4, <1>9, <2>1, <3>2, <3>3
  <2>2. CASE k = b + 1 /\ t[k] = e /\ A[N + 1] = p
    <3>1. N + 1 \in DOMAIN A
      BY <1>0, <1>4
    <3> QED BY <1>6, <2>2, <3>1
  <2> QED BY <1>9, <2>1, <2>2
<1>12. ASSUME NEW n \in DOMAIN A, A[n] # 0
       PROVE  \E k \in DOMAIN t :
                 /\ t[k].lit = A[n] /\ t[k].level = 0 /\ t[k].reason = NULL
                 /\ \A m \in 1..(n - 1) : \E j \in 1..(k - 1) : t[j].lit = H[m] /\ t[j].level = 0
  <2>1. CASE n \in 1..N
    <3>1. assumptions[n] # 0 /\ A[n] = held[n]
      BY <1>4, <1>12, <2>1, AssumedNow
    <3>2. PICK k \in 1..b : /\ trail[k].lit = held[n] /\ trail[k].reason = NULL
                            /\ \A m \in 1..(n - 1) : \E j \in 1..(k - 1) : trail[j].lit = held[m]
      BY <1>1, <2>1, <3>1, AssumedNow
    <3>3. \A m \in 1..(n - 1) : \E j \in 1..(k - 1) : t[j].lit = H[m] /\ t[j].level = 0
      BY <1>3, <1>5, <1>9, <2>1, <3>2
    <3> QED BY <1>9, <3>1, <3>2, <3>3
  <2>2. CASE n = N + 1
    <3>0. PICK k : k = b + 1
      OBVIOUS
    <3>1. A[n] = p
      BY <1>2, <1>4, <1>12, <2>2
    <3>2. k \in DOMAIN t /\ t[k] = e
      BY <1>9, <1>12, <2>2, <3>0
    <3>3. ASSUME NEW m \in 1..(n - 1)
          PROVE  \E j \in 1..(k - 1) : t[j].lit = H[m] /\ t[j].level = 0
      <4>1. m \in 1..N
        BY <1>5, <2>2
      <4>2. PICK j \in 1..b : trail[j].lit = held[m]
        BY <1>1, <4>1, AssumedNow
      <4>3. j \in 1..(k - 1)
        BY <1>2, <3>0
      <4>4. t[j].lit = H[m] /\ t[j].level = 0
        BY <1>3, <1>9, <4>1, <4>2
      <4> QED BY <4>3, <4>4
    <3>4. t[k].lit = A[n] /\ t[k].level = 0 /\ t[k].reason = NULL
      BY <1>6, <3>1, <3>2
    <3> QED BY <3>2, <3>3, <3>4
  <2> QED BY <1>4, <1>5, <2>1, <2>2
<1>13. InOrder(A, H, t)
  BY <1>3, <1>4, <1>10, <1>11, <1>12 DEF InOrder
<1> QED BY <1>1, <1>13, InOrderNext

\* What stays of the stack is what was pushed below the position popped to.
LEMMA PoppedStack ==
  ASSUME Inv, NEW num \in 1..Len(assumptions), NEW n \in 0..Bottom, PoppedFrom(n, Len(assumptions) - num)
  PROVE  /\ \A m \in 1..(Len(assumptions) - num) : \E j \in 1..n : trail[j].lit = held[m]
         /\ \A k \in 1..n : trail[k].reason = NULL =>
              \E m \in 1..(Len(assumptions) - num) : assumptions[m] # 0 /\ held[m] = trail[k].lit
<1>1. PICK size, N : size = Len(assumptions) - num /\ N = Len(assumptions)
  OBVIOUS
<1>2. /\ N \in Nat /\ size \in 0..(N - 1) /\ size + 1 \in 1..N /\ Bottom \in Nat /\ Bottom <= Len(trail) /\ Len(trail) \in Nat
      /\ \A m \in 1..size : m \in 1..N /\ m \in 1..(size + 1 - 1)
      /\ \A k \in 1..Bottom : k \in 1..Len(trail)
      /\ \A k \in 1..n : k \in 1..Bottom
  <2>1. Len(assumptions) \in Nat
    BY AssumedNow
  <2>2. Bottom \in Nat /\ Bottom <= Len(trail) /\ Len(trail) \in Nat
    BY InvBottom, InvTrail
  <2> QED BY <1>1, <2>1, <2>2
<1>3. \A j, k \in 1..Bottom : trail[j].lit = trail[k].lit => j = k
  BY <1>2, InvTrail
<1>4. CASE n = Bottom /\ size = N - 1 /\ assumptions[size + 1] = 0
  <2>1. \A m \in 1..size : \E j \in 1..n : trail[j].lit = held[m]
    BY <1>1, <1>2, <1>4, AssumedNow
  <2>2. ASSUME NEW k \in 1..n, trail[k].reason = NULL
        PROVE  \E m \in 1..size : assumptions[m] # 0 /\ held[m] = trail[k].lit
    <3>1. PICK m \in 1..N : assumptions[m] # 0 /\ held[m] = trail[k].lit
      BY <1>1, <1>4, <2>2, AssumedNow
    <3>2. m # size + 1
      BY <1>4, <3>1
    <3>3. m \in 1..size
      BY <1>2, <1>4, <3>2
    <3> QED BY <3>1, <3>3
  <2> QED BY <1>1, <2>1, <2>2
<1>5. CASE n + 1 \in 1..Bottom /\ trail[n + 1].lit = assumptions[size + 1] /\ assumptions[size + 1] # 0
  <2>1. assumptions[size + 1] = held[size + 1]
    BY <1>1, <1>2, <1>5, AssumedNow
  <2>0. PICK x : x = size + 1
    OBVIOUS
  <2>2. PICK k \in 1..Bottom : /\ trail[k].lit = held[x]
                               /\ \A m \in 1..(x - 1) : \E j \in 1..(k - 1) : trail[j].lit = held[m]
    <3>1. x \in 1..Len(assumptions) /\ assumptions[x] # 0
      BY <1>1, <1>2, <1>5, <2>0
    <3> QED BY <3>1, AssumedNow
  <2>3. k = n + 1
    BY <1>3, <1>5, <2>0, <2>1, <2>2
  <2>4. \A j \in 1..(k - 1) : j \in 1..n
    BY <2>3
  <2>5. \A m \in 1..size : \E j \in 1..n : trail[j].lit = held[m]
    <3> SUFFICES ASSUME NEW m \in 1..size
                 PROVE  \E j \in 1..n : trail[j].lit = held[m]
      OBVIOUS
    <3>1. m \in 1..(x - 1)
      BY <1>2, <2>0
    <3>2. PICK j \in 1..(k - 1) : trail[j].lit = held[m]
      BY <2>2, <3>1
    <3> QED BY <2>4, <3>2
  <2>6. ASSUME NEW z \in 1..n, trail[z].reason = NULL
        PROVE  \E m \in 1..size : assumptions[m] # 0 /\ held[m] = trail[z].lit
    <3>1. z \in 1..Bottom /\ z # n + 1
      BY <1>2, <1>5, <2>6
    <3>2. PICK m \in 1..N : assumptions[m] # 0 /\ held[m] = trail[z].lit
      BY <1>1, <2>6, <3>1, AssumedNow
    <3>3. ASSUME ~(m \in 1..size) PROVE FALSE
      <4>1. m = size + 1 \/ size + 1 \in 1..(m - 1)
        BY <1>2, <3>3
      <4>2. CASE m = size + 1
        BY <1>3, <1>5, <2>1, <3>1, <3>2, <4>2
      <4>3. CASE size + 1 \in 1..(m - 1)
        <5>1. PICK y \in 1..Bottom : /\ trail[y].lit = held[m]
                                     /\ \A w \in 1..(m - 1) : \E j \in 1..(y - 1) : trail[j].lit = held[w]
          BY <1>1, <3>2, AssumedNow
        <5>2. y = z
          BY <1>3, <3>1, <3>2, <5>1
        <5>3. PICK j \in 1..(z - 1) : trail[j].lit = held[size + 1]
          BY <4>3, <5>1, <5>2
        <5>4. j \in 1..Bottom /\ j # n + 1
          BY <1>2, <1>5, <3>1, <5>3
        <5>5. j = n + 1
          BY <1>3, <1>5, <2>1, <5>3, <5>4
        <5> QED BY <5>4, <5>5
      <4> QED BY <4>1, <4>2, <4>3
    <3> QED BY <3>2, <3>3
  <2> QED BY <1>1, <2>5, <2>6
<1> QED BY <1>1, <1>4, <1>5 DEF PoppedFrom

\* Taking assumptions back leaves the earlier ones in order.
LEMMA OrderPopped ==
  ASSUME Inv, Next, NEW num \in 1..MaxAssumptions, PopAssumptions(num)
  PROVE  AssumptionsInOrder'
<1>1. PICK n \in 0..Bottom :
           /\ RootCut(n) /\ PoppedTo(n) /\ PoppedFrom(n, Len(assumptions) - num)
           /\ num \in 1..Len(assumptions) /\ assumptions' = SubSeq(assumptions, 1, Len(assumptions) - num)
           /\ held' = SubSeq(held, 1, Len(assumptions) - num)
  BY PopAssumptionsFacts
<1>2. PICK A, H, t, s : A = assumptions' /\ H = held' /\ t = trail' /\ s = Len(assumptions) - num
  OBVIOUS
<1>3. s \in Nat /\ \A m \in 1..s : m \in 1..Len(assumptions)
  <2>1. Len(assumptions) \in Nat
    BY AssumedNow
  <2> QED BY <1>1, <1>2, <2>1
<1>4. /\ DOMAIN A = 1..s /\ DOMAIN H = 1..s /\ Len(A) = Len(H) /\ H \in Seq(Lit)
      /\ \A m \in 1..s : A[m] = assumptions[m] /\ H[m] = held[m]
  <2>1. s \in 0..Len(assumptions) /\ assumptions \in Seq(Lit \cup {0}) /\ held \in Seq(Lit) /\ Len(held) = Len(assumptions)
    BY <1>1, <1>2, AssumedNow
  <2>2. A = SubSeq(assumptions, 1, s) /\ H = SubSeq(held, 1, s)
    BY <1>1, <1>2
  <2>3. A \in Seq(Lit \cup {0}) /\ Len(A) = s /\ \A m \in 1..s : A[m] = assumptions[m]
    BY <2>1, <2>2, PrefixFacts
  <2>4. H \in Seq(Lit) /\ Len(H) = s /\ \A m \in 1..s : H[m] = held[m]
    BY <2>1, <2>2, PrefixFacts
  <2> QED BY <2>3, <2>4
<1>5. /\ DOMAIN t = 1..Len(t) /\ Len(t) \in Nat /\ n \in Nat
      /\ \A k \in 1..n : k \in 1..Len(t) /\ t[k] = trail[k] /\ t[k].level = 0 /\ k \in 1..Bottom
      /\ \A k \in 1..Len(t) : k \in 1..n \/ k \in (n + 1)..Len(t)
      /\ \A k \in (n + 1)..Len(t) : t[k].reason # NULL
  <2>1. \A k \in 1..n : k \in 1..Bottom
    BY InvBottom
  <2> QED BY <1>1, <1>2, <2>1, RootCutFacts DEF PoppedTo
<1>6. /\ \A m \in 1..s : \E j \in 1..n : trail[j].lit = held[m]
      /\ \A k \in 1..n : trail[k].reason = NULL => \E m \in 1..s : assumptions[m] # 0 /\ held[m] = trail[k].lit
  BY <1>1, <1>2, PoppedStack
<1>7. ASSUME NEW m \in DOMAIN H
      PROVE  A[m] \in {0, H[m]} /\ \E k \in DOMAIN t : t[k].lit = H[m] /\ t[k].level = 0
  <2>1. m \in 1..s /\ A[m] = assumptions[m] /\ H[m] = held[m] /\ m \in 1..Len(assumptions)
    BY <1>3, <1>4
  <2>2. A[m] \in {0, H[m]}
    BY <2>1, AssumedNow
  <2>3. PICK j \in 1..n : trail[j].lit = held[m]
    BY <1>6, <2>1
  <2> QED BY <1>5, <2>1, <2>2, <2>3
<1>8. ASSUME NEW k \in DOMAIN t, t[k].level = 0, t[k].reason = NULL
      PROVE  \E m \in DOMAIN A : A[m] = t[k].lit
  <2>1. k \in 1..n
    BY <1>5, <1>8
  <2>2. PICK m \in 1..s : assumptions[m] # 0 /\ held[m] = trail[k].lit
    BY <1>5, <1>6, <1>8, <2>1
  <2>3. assumptions[m] = held[m]
    BY <1>3, <2>2, AssumedNow
  <2> QED BY <1>4, <1>5, <2>1, <2>2, <2>3
<1>9. ASSUME NEW m \in DOMAIN A, A[m] # 0
      PROVE  \E k \in DOMAIN t :
                 /\ t[k].lit = A[m] /\ t[k].level = 0 /\ t[k].reason = NULL
                 /\ \A w \in 1..(m - 1) : \E j \in 1..(k - 1) : t[j].lit = H[w] /\ t[j].level = 0
  <2>1. m \in 1..s /\ A[m] = assumptions[m] /\ assumptions[m] # 0 /\ m \in 1..Len(assumptions)
    BY <1>3, <1>4, <1>9
  <2>2. assumptions[m] = held[m]
    BY <2>1, AssumedNow
  <2>3. PICK k \in 1..Bottom : /\ trail[k].lit = held[m] /\ trail[k].reason = NULL
                               /\ \A w \in 1..(m - 1) : \E j \in 1..(k - 1) : trail[j].lit = held[w]
    BY <2>1, AssumedNow
  <2>4. PICK j \in 1..n : trail[j].lit = held[m]
    BY <1>6, <2>1
  <2>5. k = j
    <3>1. j \in 1..Bottom
      BY <1>5
    <3>2. \A x \in 1..Bottom : x \in 1..Len(trail)
      BY InvBottom, InvTrail
    <3> QED BY <2>3, <2>4, <3>1, <3>2, InvTrail
  <2>6. \A w \in 1..(m - 1) : w \in 1..s
    BY <1>3, <2>1
  <2>7. \A x \in 1..(k - 1) : x \in 1..n
    BY <1>5, <2>5
  <2>8. \A w \in 1..(m - 1) : \E x \in 1..(k - 1) : t[x].lit = H[w] /\ t[x].level = 0
    <3> SUFFICES ASSUME NEW w \in 1..(m - 1)
                 PROVE  \E x \in 1..(k - 1) : t[x].lit = H[w] /\ t[x].level = 0
      OBVIOUS
    <3>1. PICK x \in 1..(k - 1) : trail[x].lit = held[w]
      BY <2>3
    <3>2. t[x].lit = H[w] /\ t[x].level = 0
      BY <1>4, <1>5, <2>6, <2>7, <3>1
    <3> QED BY <3>2
  <2>9. k \in DOMAIN t /\ t[k].lit = A[m] /\ t[k].level = 0 /\ t[k].reason = NULL
    BY <1>5, <2>1, <2>2, <2>3, <2>5
  <2> QED BY <2>8, <2>9
<1>10. InOrder(A, H, t)
  BY <1>4, <1>7, <1>8, <1>9 DEF InOrder
<1> QED BY <1>2, <1>10, InOrderNext

\* Every step keeps the assumptions in order.
LEMMA OrderNext ==
  ASSUME Inv, Next
  PROVE  AssumptionsInOrder'
<1>1. ASSUME NEW p \in Queries, PushAssumption(p)
      PROVE  AssumptionsInOrder'
  <2>1. CASE Refuses(p)
    <3>1. UNCHANGED <<assumptions, held>>
      BY <1>1, <2>1 DEF PushAssumption
    <3>2. ~IsUnknown(LevelZero, p)
      BY <2>1 DEF Refuses, IsUnknown
    <3>3. trail' = LevelZero
      BY <1>1, <3>2 DEF PushAssumption, BacktrackTo
    <3> QED BY <3>1, <3>3, RootKeptLevelZero, OrderKept
  <2> QED BY <1>1, <2>1, OrderPushed
<1> QED BY <1>1, OrderPopped, RootKeptNext, OrderKept DEF Assumes

-----------------------------------------------------------------------------
(* An answer "UNSAT" is right.                                              *)

\* Level 0 holds wherever the formula and the assumptions do.
LEMMA RootTrue ==
  ASSUME Inv, NEW a \in ModelsOf(Range(formula)), \A l \in Range(held) : Holds(a, l), NEW k \in 1..Bottom
  PROVE  Holds(a, trail[k].lit)
<1>1. k \in DOMAIN trail /\ trail[k].level = 0 /\ \A j \in 1..k : j \in 1..Bottom
  <2>1. k \in 1..Len(trail) /\ k <= Bottom /\ \A j \in 1..k : j \in 1..Bottom
    BY InvBottom, InvTrail
  <2> QED BY <2>1, InvBottom, InvTrail
<1>2. ASSUME NEW j \in 1..k, trail[j].reason = NULL
      PROVE  Holds(a, trail[j].lit)
  <2>1. PICK n \in 1..Len(assumptions) : held[n] = trail[j].lit
    BY <1>1, <1>2, AssumedNow
  <2>2. held[n] \in Range(held)
    BY AssumedNow DEF Range
  <2> QED BY <2>1, <2>2
<1> QED BY <1>1, <1>2 DEF Inv, RootSound

\* A clause that is false at level 0 and follows from the formula refutes the
\* assumptions.
LEMMA FalseAtRoot ==
  ASSUME Inv, NEW c \in SUBSET Lit, Implied(c), \A l \in c : \E k \in 1..Bottom : trail[k].lit = -l
  PROVE  ~Consistent(Range(formula), Range(held))
<1> SUFFICES ASSUME NEW a \in ModelsOf(Range(formula)), \A l \in Range(held) : Holds(a, l)
             PROVE  FALSE
  BY DEF Consistent
<1>1. a \in [Var -> BOOLEAN] /\ \A d \in Range(formula) : Satisfies(a, d)
  BY DEF ModelsOf
<1>2. PICK l \in c : Holds(a, l)
  BY <1>1 DEF Implied, Satisfies
<1>3. Holds(a, -l)
  BY <1>2, RootTrue
<1> QED BY <1>1, <1>2, <1>3, HoldsNot

\* A literal is false at level 0.
LEMMA FalseLevelZero ==
  ASSUME Inv, NEW l, IsFalse(LevelZero, l)
  PROVE  \E k \in 1..Bottom : trail[k].lit = -l
<1>1. LevelZero \in Trails /\ Len(LevelZero) = Bottom /\ \A k \in 1..Bottom : LevelZero[k] = trail[k]
  BY InvBottom
<1>2. DOMAIN LevelZero = 1..Bottom
  BY <1>1 DEF Trails
<1> QED BY <1>1, <1>2 DEF IsFalse, IsTrue

\* No assignment satisfies the empty clause.
LEMMA EmptyRefutes ==
  ASSUME NEW fs, {} \in fs, NEW ls
  PROVE  ~Consistent(fs, ls)
BY DEF Consistent, ModelsOf, Satisfies

\* A clause is refused because level 0 contradicts it, or because it is empty.
LEMMA UnsatAdd ==
  ASSUME Inv, Next, NEW c \in Inputs, AddClause(c), answer' = "UNSAT"
  PROVE  ~Consistent(Range(formula'), asked')
<1>1. conflictClause' # NULL /\ asked' = Range(held)
  BY DEF AddClause
<1>2. PICK w : Added(c, w)
  BY <1>1, AddClauseCases
<1>3. data'[Len(data) + 1] = w /\ w \in Seq(Lit) /\ Range(w) = Range(c) /\ c \in Seq(Lit)
  BY <1>2, AppendedSame, AddClauseCases DEF Added
<1>0. Len(w) \in Nat /\ (w = <<>> <=> Len(w) = 0)
  BY <1>3
<1>4. Range(c) \in Range(formula')
  <2>1. formula' = Append(formula, Range(c)) /\ formula \in Seq(SUBSET Lit)
    BY FormulaNext DEF AddClause
  <2>2. PICK f, x : f = formula /\ x = Range(c)
    OBVIOUS
  <2>3. Append(f, x)[Len(f) + 1] = x /\ Len(f) + 1 \in DOMAIN Append(f, x)
    BY <2>1, <2>2
  <2> QED BY <2>1, <2>2, <2>3 DEF Range
<1>5. CASE w = <<>>
  <2>1. Range(w) = {}
    BY <1>5 DEF Range
  <2> QED BY <1>3, <1>4, <2>1, EmptyRefutes
<1>6. CASE Len(w) = 1
  <2>1. AddUnit(w[1], Len(data) + 1)
    BY <1>0, <1>2, <1>6 DEF Added
  <2>2. IsFalse(LevelZero, w[1])
    BY <1>1, <2>1 DEF AddUnit, RefusesUnit
  <2>3. PICK k \in 1..Bottom : trail[k].lit = -w[1]
    BY <2>2, FalseLevelZero
  <2>4. w[1] \in Lit /\ Range(w) = {w[1]}
    BY <1>3, <1>6, RangeFacts
  <2> SUFFICES ASSUME NEW a \in ModelsOf(Range(formula')), \A l \in Range(held) : Holds(a, l)
               PROVE  FALSE
    BY <1>1 DEF Consistent
  <2>5. a \in ModelsOf(Range(formula)) /\ a \in [Var -> BOOLEAN] /\ Satisfies(a, Range(c))
    BY <1>4, ModelsShrink DEF ModelsOf
  <2>6. Holds(a, w[1])
    BY <1>3, <2>4, <2>5 DEF Satisfies
  <2>7. Holds(a, -w[1])
    BY <2>3, <2>5, RootTrue
  <2> QED BY <2>4, <2>5, <2>6, <2>7, HoldsNot
<1>7. CASE Len(w) >= 2
  <2>0. PICK n : n = Len(w)
    OBVIOUS
  <2>1. n # 0 /\ n # 1
    BY <1>0, <1>7, <2>0
  <2>2. conflictClause' = NULL
    BY <1>0, <1>2, <2>0, <2>1 DEF Added
  <2> QED BY <1>1, <2>2
<1>8. w = <<>> \/ Len(w) = 1 \/ Len(w) >= 2
  <2>1. PICK n : n = Len(w)
    OBVIOUS
  <2>2. n \in Nat => n = 0 \/ n = 1 \/ n >= 2
    OBVIOUS
  <2> QED BY <1>0, <2>1, <2>2, Zenon
<1> QED BY <1>5, <1>6, <1>7, <1>8

\* An assumption is refused because level 0 contradicts it.
LEMMA UnsatPush ==
  ASSUME Inv, Next, NEW p \in Queries, PushAssumption(p), answer' = "UNSAT"
  PROVE  ~Consistent(Range(formula'), asked')
<1>1. Refuses(p) /\ asked' = Range(held) \cup {p} /\ formula' = formula /\ p \in Lit
  BY PushAssumptionFacts DEF PushAssumption
<1>2. PICK k \in 1..Bottom : trail[k].lit = -p
  BY <1>1, FalseLevelZero DEF Refuses
<1> SUFFICES ASSUME NEW a \in ModelsOf(Range(formula)), \A l \in Range(held) \cup {p} : Holds(a, l)
             PROVE  FALSE
  BY <1>1 DEF Consistent
<1>3. Holds(a, -p) /\ Holds(a, p) /\ a \in [Var -> BOOLEAN]
  BY <1>2, RootTrue DEF ModelsOf
<1> QED BY <1>1, <1>3, HoldsNot

\* What is false when nothing is decided is false at level 0.
LEMMA FalseUndecided ==
  ASSUME Inv, decisionLevel = 0, NEW l, IsFalse(trail, l)
  PROVE  \E k \in 1..Bottom : trail[k].lit = -l
BY InvBottom, InvTrail DEF IsFalse, IsTrue

\* The search ends because a clause is false at level 0, or because the analysis
\* has resolved everything else away.
LEMMA UnsatSearch ==
  ASSUME Inv, Next, (Conflict /\ decisionLevel = 0) \/ Refuted
  PROVE  ~Consistent(Range(formula'), asked')
<1>1. UNCHANGED <<formula, asked>> /\ pc # "idle"
  BY ConflictFacts DEF Refuted, Finish, Conflict
<1>2. asked = Range(held)
  BY <1>1 DEF Inv, Control
<1>3. CASE Conflict /\ decisionLevel = 0
  <2>1. pc = "conflict" /\ conflictClause \in DOMAIN data
    BY <1>3, ConflictFacts
  <2>2. PICK c : c = Range(data[conflictClause])
    OBVIOUS
  <2>3. (\A l \in c : IsFalse(trail, l)) /\ \E l \in c : TRUE
    BY <2>1, <2>2 DEF Inv, Control
  <2>4. data[conflictClause] # <<>>
    BY <2>2, <2>3 DEF Range
  <2>5. Implied(c)
    BY <2>1, <2>2, <2>4 DEF Inv, LearnedSound
  <2>6. c \in SUBSET Lit
    BY <2>1, <2>2, DataTypes, RangeFacts DEF Inv
  <2> QED BY <1>1, <1>2, <1>3, <2>3, <2>5, <2>6, FalseUndecided, FalseAtRoot
<1>4. CASE Refuted
  <2>1. pc = "refuted" /\ pc \in Analyzing /\ pc \in Working
    BY <1>4 DEF Refuted, Analyzing, Working
  <2>2. PICK c : c = Range(uipClause)
    OBVIOUS
  <2>3. Implied(c)
    BY <2>1, <2>2 DEF Inv, LearnedSound
  <2>4. c \in SUBSET Lit /\ \A l \in c : IsFalse(trail, l)
    BY <2>1, <2>2, UipFacts
  <2>5. uipClause = <<>> \/ decisionLevel = 0
    BY <2>1 DEF Inv, Counted
  <2>6. \A l \in c : \E k \in 1..Bottom : trail[k].lit = -l
    <3>1. CASE uipClause = <<>>
      BY <2>2, <3>1 DEF Range
    <3>2. CASE decisionLevel = 0
      BY <2>4, <3>2, FalseUndecided
    <3> QED BY <2>5, <3>1, <3>2
  <2> QED BY <1>1, <1>2, <2>3, <2>4, <2>6, FalseAtRoot
<1> QED BY <1>3, <1>4

\* Every step keeps "UNSAT" and refusals right.
LEMMA UnsatNext ==
  ASSUME Inv, Next
  PROVE  UnsatRight'
<1> SUFFICES ASSUME answer' = "UNSAT"
             PROVE  ~Consistent(Range(formula'), asked')
  BY DEF UnsatRight
<1>1. CASE UNCHANGED <<formula, asked, answer>>
  BY <1>1 DEF Inv, UnsatRight
<1>2. CASE Solve
  <2>1. answer' = "UNSAT" => conflictClause # NULL /\ data[conflictClause] = <<>>
    BY <1>2 DEF Solve
  <2>2. {} \in Range(formula) /\ formula' = formula
    BY <1>2, <2>1 DEF Inv, Control, Solve
  <2> QED BY <2>2, EmptyRefutes
<1>3. ASSUME NEW num \in 1..MaxAssumptions, PopAssumptions(num)
      PROVE  FALSE
  BY <1>3 DEF PopAssumptions
<1>4. CASE Calls
  BY <1>2, <1>3, <1>4, UnsatAdd, UnsatPush DEF Calls
<1>5. CASE Engine
  <2>1. CASE Conflict
    BY <1>1, <2>1, ConflictFacts, UnsatSearch DEF client
  <2>2. CASE ~Conflict /\ ~Refuted
    <3>1. ~Satisfied
      BY DEF Satisfied, Finish
    <3> QED BY <1>1, <1>5, <2>2, <3>1, Zenon DEF Engine, VisitClause, NextLiteral, Restart, Decide, SkipLiteral,
          ResolveReason, Recount, Learn, Undo, FactsDone, PropagateFact, client
  <2> QED BY <2>1, <2>2, UnsatSearch
<1> QED BY <1>4, <1>5 DEF Next

-----------------------------------------------------------------------------
(* The invariant holds, and what follows.                                   *)

\* The initial state satisfies the invariant.
LEMMA InitInv ==
  ASSUME Init
  PROVE  Inv
<1>1. /\ data = <<>> /\ trail = <<>> /\ facts = <<>> /\ uipClause = <<>> /\ formula = <<>> /\ held = <<>>
      /\ assumptions = <<>> /\ pc = "idle" /\ i = 1 /\ numVars = 0 /\ decisionLevel = 0 /\ propq = 0 /\ heap = {}
      /\ wlist = [l \in Lit |-> <<>>] /\ unit_facts = [v \in Var |-> <<>>]
      /\ conflictClause = NULL /\ lastResult = "UNKNOWN" /\ count = 0 /\ uipLit = 0 /\ answer = "none"
  BY DEF Init
<1>2. /\ DOMAIN data = {} /\ DOMAIN trail = {} /\ DOMAIN facts = {} /\ DOMAIN uipClause = {} /\ DOMAIN formula = {}
      /\ DOMAIN held = {} /\ DOMAIN assumptions = {} /\ Len(trail) = 0 /\ Len(facts) = 0
      /\ \A S : <<>> \in Seq(S)
  BY <1>1
<1>3. Range(facts) = {} /\ Range(formula) = {} /\ Range(uipClause) = {} /\ \A v \in Var : Range(unit_facts[v]) = {}
  BY <1>1 DEF Range
<1>4. /\ \A l \in Lit : wlist[l] = <<>> /\ DOMAIN wlist[l] = {}
      /\ \A v \in Var : unit_facts[v] = <<>> /\ DOMAIN unit_facts[v] = {}
  BY <1>1
<1>5. \A id : ~IsFact(id)
  BY <1>3 DEF IsFact
<1>6. TypeOK
  <2>1. /\ wlist \in [Lit -> Seq([cls : DOMAIN data, lit : Lit])]
        /\ unit_facts \in [Var -> Seq(DOMAIN data)]
    BY <1>1, <1>2
  <2>2. MaxVar \in Nat
    BY LitFacts
  <2> QED BY <1>1, <1>2, <2>1, <2>2 DEF TypeOK
<1>7. Allocated /\ ClausesDistinct
  BY <1>2 DEF Allocated, ClausesDistinct, VarsOf
<1>8. Placed
  BY <1>2, <1>4 DEF Placed
<1>9. FactsDiffer
  BY <1>2 DEF FactsDiffer
<1>10. Watched
  BY <1>2, <1>4 DEF Watched, WatchesMatch
<1>11. HeapCovers
  BY <1>1 DEF HeapCovers
<1>12. LevelsMatch
  <2>1. {k \in DOMAIN trail : trail[k].decision} = {}
    BY <1>2
  <2> QED BY <1>1, <1>2, <2>1, FS_EmptySet DEF LevelsMatch
<1>13. TrailJustified /\ Reasons
  BY <1>2 DEF TrailJustified, Reasons
<1>14. UnseenCurrent
  BY <1>1, <1>2 DEF UnseenCurrent
<1>15. UnitFactsWait
  BY <1>3 DEF UnitFactsWait
<1>16. UipFalse /\ Counted /\ Collecting /\ OppositesResolved /\ Propagating
  BY <1>1 DEF UipFalse, Counted, Collecting, OppositesResolved, Propagating, Working, Analyzing
<1>17. Control
  BY <1>1, <1>2 DEF Control
<1>18. LearnedSound
  BY <1>1, <1>2 DEF LearnedSound, Analyzing
<1>19. RootSound
  BY <1>2 DEF RootSound
<1>20. AssumptionsInOrder
  BY <1>1, <1>2 DEF AssumptionsInOrder
<1>21. UnsatRight
  BY <1>1 DEF UnsatRight
<1> QED BY <1>6, <1>7, <1>8, <1>9, <1>10, <1>11, <1>12, <1>13, <1>14, <1>15, <1>16, <1>17, <1>18, <1>19, <1>20, <1>21 DEF Inv

\* Every step keeps every part of the invariant.
LEMMA NextInv ==
  ASSUME Inv, Next
  PROVE  Inv'
<1>1. TypeOK' /\ Allocated' /\ ClausesDistinct' /\ Placed' /\ FactsDiffer' /\ Watched'
  BY TypeNext, AllocatedNext, PlacedNext, DifferNext, WatchedNext
<1>2. HeapCovers' /\ LevelsMatch' /\ TrailJustified' /\ Reasons' /\ UnseenCurrent'
  BY HeapNext, LevelsNext, JustifiedNext
<1>3. UnitFactsWait' /\ UipFalse' /\ Counted' /\ Collecting' /\ OppositesResolved'
  BY WaitsNext, UipNext, CountedNext, CollectingNext, OppositesNext
<1>4. Propagating' /\ Control' /\ LearnedSound' /\ RootSound' /\ AssumptionsInOrder' /\ UnsatRight'
  BY PropagatingNext, ControlNext, LearnedNext, RootNext, OrderNext, UnsatNext
<1> QED BY <1>1, <1>2, <1>3, <1>4 DEF Inv

\* So does a step that changes nothing.
LEMMA StutterInv ==
  ASSUME Inv, UNCHANGED vars
  PROVE  Inv'
<1>1. /\ UNCHANGED <<numVars, data, wlist, trail, decisionLevel, propq, heap, unit_facts, assumptions, conflictClause>>
      /\ UNCHANGED <<lastResult, pc, i, facts, uipClause, count, uipLit, formula, held, answer, asked>>
  BY DEF vars, clauses, assignment, results, learning, client
<1>2. TypeOK'
  BY <1>1 DEF Inv, TypeOK
<1>3. Allocated' /\ ClausesDistinct'
  BY <1>1 DEF Inv, Allocated, ClausesDistinct, VarsOf
<1>4. /\ \A x : IsFact(x)' <=> IsFact(x)
      /\ \A l, x : IsWatched(l, x)' <=> IsWatched(l, x)
      /\ \A x : Rest(x)' = Rest(x)
      /\ \A v : LevelOf(v)' = LevelOf(v)
      /\ \A x, k : IsReason(x, k)' <=> IsReason(x, k)
      /\ \A k, l : FalseBefore(k, l)' <=> FalseBefore(k, l)
  BY <1>1 DEF IsFact, IsWatched, Rest, LevelOf, IsReason, FalseBefore
<1>5. Placed' /\ FactsDiffer'
  BY <1>1, <1>4 DEF Inv, Placed, FactsDiffer
<1>6. Watched'
  <2>1. (TypeOK => (Watched <=> Watches(wlist, data)))'
    BY WatchedBoth, PTL
  <2>2. Watches(wlist, data)
    BY WatchedBoth DEF Inv
  <2>3. Watches(wlist, data)'
    BY <1>1, <2>2
  <2> QED BY <1>2, <2>1, <2>3
<1>7. HeapCovers' /\ LevelsMatch' /\ TrailJustified' /\ Reasons' /\ UnseenCurrent'
  BY <1>1 DEF Inv, HeapCovers, LevelsMatch, TrailJustified, Reasons, UnseenCurrent
<1>8. /\ \A k : Live(k)' <=> Live(k)
      /\ Top' = Top /\ TopVar' = TopVar /\ Seen' = Seen
      /\ \A v : HasLitPos(v)' <=> HasLitPos(v)
      /\ AtCurrentLevel(uipClause)' = AtCurrentLevel(uipClause)
  BY <1>1, <1>4 DEF Live, Top, TopVar, Seen, HasLitPos, VarsOf, AtCurrentLevel
<1>9. UnitFactsWait'
  BY <1>1, <1>4, <1>8 DEF Inv, UnitFactsWait, WaitsAt, SecondLast
<1>10. UipFalse' /\ Counted'
  BY <1>1, <1>8 DEF Inv, UipFalse, Counted
<1>11. Collecting'
  BY <1>1, <1>4 DEF Inv, Collecting
<1>12. OppositesResolved'
  BY <1>1, <1>4, <1>8 DEF Inv, OppositesResolved, Undone, Resolved, Resolving
<1>13. Propagating'
  BY <1>1, <1>4, <1>8 DEF Inv, Propagating, ImpliedFact, Ready, SecondLast
<1>14. Control'
  BY <1>1, <1>4 DEF Inv, Control
<1>15. LearnedSound'
  BY <1>1 DEF Inv, LearnedSound, Implied
<1>16. RootSound' /\ AssumptionsInOrder' /\ UnsatRight'
  <2>1. RootSound'
    BY <1>1 DEF Inv, RootSound
  <2>2. AssumptionsInOrder'
    <3>1. AssumptionsInOrder
      BY DEF Inv
    <3> QED BY <1>1, <3>1 DEF AssumptionsInOrder, At
  <2>3. UnsatRight'
    BY <1>1 DEF Inv, UnsatRight
  <2> QED BY <2>1, <2>2, <2>3
<1> QED BY <1>2, <1>3, <1>5, <1>6, <1>7, <1>9, <1>10, <1>11, <1>12, <1>13, <1>14, <1>15, <1>16 DEF Inv

\* The invariant, for every formula, every client and every bound.
THEOREM Invariant == Spec => []Inv
<1>1. Init => Inv
  BY InitInv
<1>2. Inv /\ [Next]_vars => Inv'
  BY NextInv, StutterInv
<1> QED BY <1>1, <1>2, PTL DEF Spec

-----------------------------------------------------------------------------
(* What the runs check, for every formula and every client.                 *)

\* The facts collected from the variables popped are ready to be tried.
LEMMA InvFactsReady ==
  ASSUME Inv
  PROVE  FactsReady
<1> SUFFICES ASSUME pc = "facts", i <= Len(facts)
    PROVE  /\ data[facts[i]] # <<>>
           /\ Len(data[facts[i]]) = 1 => IsUnknown(trail, data[facts[i]][1])
           /\ Len(data[facts[i]]) > 1 =>
                \/ IsUnknown(Seen, data[facts[i]][1]) /\ IsUnknown(Seen, data[facts[i]][2])
                \/ IsUnknown(trail, data[facts[i]][1]) /\ IsFalse(Seen, data[facts[i]][2])
  BY DEF FactsReady
<1>1. i \in 1..Len(facts) /\ i >= i
  BY DEF Inv, TypeOK
<1> PICK d : d = data[facts[i]]
  OBVIOUS
<1>2. d \in Seq(Lit) /\ Len(d) \in Nat /\ Len(d) >= 1 /\ d # <<>>
  <2>1. d \in Seq(Lit) /\ Len(d) \in Nat /\ Len(d) >= 1
    BY <1>1, FactFacts
  <2> QED BY <2>1
<1>3. Ready(d)
  BY <1>1 DEF Inv, Propagating
<1>4. (\A m \in 2..Len(d) : IsFalse(Seen, d[m])) => IsUnknown(trail, d[1])
  BY <1>1, FirstUnassigned
<1>5. Len(d) = 1 => IsUnknown(trail, d[1])
  BY <1>4
<1>6. Len(d) > 1 => \/ IsUnknown(Seen, d[1]) /\ IsUnknown(Seen, d[2])
                    \/ IsUnknown(trail, d[1]) /\ IsFalse(Seen, d[2])
  <2> SUFFICES ASSUME Len(d) > 1, ~IsUnknown(Seen, d[2])
      PROVE  IsUnknown(trail, d[1]) /\ IsFalse(Seen, d[2])
    BY <1>3 DEF Ready
  <2>1. IsFalse(Seen, d[2])
    BY <1>2, <1>3 DEF Ready, IsUnknown
  <2>2. \A m \in 2..Len(d) : m = 2 \/ m \in 3..Len(d)
    BY <1>2
  <2>3. \A m \in 2..Len(d) : IsFalse(Seen, d[m])
    BY <1>2, <1>3, <2>1, <2>2 DEF Ready
  <2> QED BY <1>4, <2>1, <2>3
<1> QED BY <1>2, <1>5, <1>6

\* No step of the engine gives up what level 0 held when it was taken.
LEMMA KeepsLevelZero ==
  ASSUME Inv, [Next]_vars
  PROVE  [pc # "idle" => IsPrefix(LevelZero, trail')]_vars
<1> SUFFICES ASSUME Next, pc # "idle"
    PROVE  IsPrefix(LevelZero, trail')
  OBVIOUS
<1>1. ~Assumes
  BY DEF Assumes, PushAssumption, PopAssumptions
<1>2. /\ LevelZero \in Trails /\ Len(LevelZero) = Bottom /\ Bottom \in 0..Len(trail) /\ Len(trail) \in Nat
      /\ \A k \in 1..Bottom : LevelZero[k] = trail[k] /\ trail[k].level = 0
  BY InvBottom, InvTrail
<1>3. \A k \in 1..Bottom : k \in 1..Len(trail') /\ trail'[k] = trail[k]
  BY <1>1, <1>2, RootKeptNext DEF RootKept
<1>4. trail' \in Trails /\ Len(trail') \in Nat
  BY TrailNext DEF TrailGood
<1>5. Bottom <= Len(trail')
  BY <1>2, <1>3, <1>4
<1>6. SubSeq(LevelZero, 1, Bottom) = SubSeq(trail', 1, Bottom)
  <2> PICK s, t : s = LevelZero /\ t = trail'
    OBVIOUS
  <2>1. /\ Bottom \in 0..Len(s) /\ Bottom \in 0..Len(t) /\ s \in Trails /\ t \in Trails
    BY <1>2, <1>4, <1>5
  <2>2. /\ SubSeq(s, 1, Bottom) \in Trails /\ Len(SubSeq(s, 1, Bottom)) = Bottom
        /\ \A k \in 1..Bottom : SubSeq(s, 1, Bottom)[k] = s[k]
    BY <2>1, PrefixFacts DEF Trails
  <2>3. /\ SubSeq(t, 1, Bottom) \in Trails /\ Len(SubSeq(t, 1, Bottom)) = Bottom
        /\ \A k \in 1..Bottom : SubSeq(t, 1, Bottom)[k] = t[k]
    BY <2>1, PrefixFacts DEF Trails
  <2>4. \A k \in 1..Bottom : s[k] = t[k]
    BY <1>2, <1>3
  <2> PICK u, w : u = SubSeq(s, 1, Bottom) /\ w = SubSeq(t, 1, Bottom)
    OBVIOUS
  <2>5. u = w
    BY <2>2, <2>3, <2>4 DEF Trails
  <2> QED BY <2>5
<1> QED BY <1>2, <1>4, <1>5, <1>6 DEF IsPrefix

\* Every state is well formed: clauses, lists, the trail and the stack hold what
\* their types say.
THEOREM TypeCorrect == Spec => []TypeOK
<1>1. Inv => TypeOK
  BY DEF Inv
<1> QED BY <1>1, Invariant, PTL

\* The trail is an assignment, and each implied literal is the first of a clause
\* whose other literals were false before it.
THEOREM TrailIsJustified == Spec => []TrailJustified
<1>1. Inv => TrailJustified
  BY DEF Inv
<1> QED BY <1>1, Invariant, PTL

\* The level of a literal is the number of decisions up to it.
THEOREM LevelsCount == Spec => []LevelsMatch
<1>1. Inv => LevelsMatch
  BY DEF Inv
<1> QED BY <1>1, Invariant, PTL

\* Every clause that is watched is in the lists of its first two literals, once.
THEOREM ListsMatch == Spec => []WatchesMatch
<1>1. Inv => WatchesMatch
  BY DEF Inv, Watched
<1> QED BY <1>1, Invariant, PTL

\* No variable is lost between the heap and the trail.
THEOREM HeapIsComplete == Spec => []HeapCovers
<1>1. Inv => HeapCovers
  BY DEF Inv
<1> QED BY <1>1, Invariant, PTL

\* propagateFacts never finds a conflict, and never pushes a literal twice.
THEOREM FactsAreReady == Spec => []FactsReady
<1> QED BY InvFactsReady, Invariant, PTL

\* Every clause learned, and every step of findUips, follows from the clauses the
\* client added: no assumption is forgotten in it.
THEOREM LearnedFollows == Spec => []LearnedSound
<1>1. Inv => LearnedSound
  BY DEF Inv
<1> QED BY <1>1, Invariant, PTL

\* When the engine says "UNSAT" the clauses added and the literals assumed
\* contradict each other.
THEOREM UnsatIsRight == Spec => []UnsatRight
<1>1. Inv => UnsatRight
  BY DEF Inv
<1> QED BY <1>1, Invariant, PTL

\* A search never gives back what level 0 held.
THEOREM LevelZeroIsKept == Spec => LevelZeroKept
<1> QED BY KeepsLevelZero, Invariant, PTL DEF Spec, LevelZeroKept

=============================================================================
