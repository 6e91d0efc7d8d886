------------------------------- MODULE Funcsat -------------------------------
(***************************************************************************)
(* The CDCL engine of funcsat/src/funcsat.c, one action per call of its    *)
(* interface and one per turn of its inner loops: watched literals, the    *)
(* trail, decisions, restarts, learning of every unique implication point  *)
(* of a conflict, unit facts that wait on the variable they were learned   *)
(* for, and assumptions kept at level 0.                                   *)
(*                                                                         *)
(* Left out: activities (any unassigned variable of the heap may be        *)
(* decided), statistics, the store of reason records, and what bfInit      *)
(* switches off (minimization, self-subsumption, phase saving).            *)
(***************************************************************************)
EXTENDS Cnf, Sequences, SequencesExt

CONSTANTS
  Inputs,          \* clauses a client may add: sequences of literals
  Queries,         \* literals a client may assume
  Offers(_),       \* the clauses of Inputs it may add after those it has added
  MaxClauses,      \* bound: calls of funcsatAddClause
  MaxAssumptions,  \* bound: assumptions held at once
  MaxSolves,       \* bound: calls of funcsatSolve
  MaxRestarts      \* bound: restarts

NULL == 0

ASSUME ClientAssumption ==
  /\ Inputs \subseteq Seq(Lit) /\ Queries \subseteq Lit
  /\ {MaxClauses, MaxAssumptions, MaxSolves, MaxRestarts} \subseteq Nat

VARIABLES
  numVars,
  data,            \* clause -> its literals, in their current order
  wlist,           \* literal -> the clauses visited when it becomes true
  unit_facts,      \* variable -> learned clauses to try again when it is popped
  trail,           \* assigned literals: [lit, level, reason, decision]
  decisionLevel,
  propq,           \* how much of the trail bcp has seen
  heap,            \* variables a decision can be taken from
  assumptions,     \* pushed literals; 0 for one that already held
  conflictClause,
  lastResult,
  pc,              \* where the engine is; "idle" between calls
  i,               \* cursor in the list the engine goes through
  facts,           \* clauses collected from the variables popped
  uipClause,       \* the clause resolved from the conflict
  count,           \* its literals at the current level
  uipLit,          \* the literal it implies
  formula,         \* history: the clauses added, as sets of literals
  held,            \* history: the literals the client assumes
  answer,          \* history: what the last call said, "none" if nothing
  asked,           \* history: the literals the answer is about
  lost,            \* history: clauses refused, and units added under an assumption
  solves, restarts \* how often the bounded calls happened

clauses == <<numVars, data, wlist>>
assignment == <<trail, decisionLevel, propq, heap, unit_facts>>
results == <<conflictClause, lastResult>>
learning == <<facts, uipClause, count, uipLit>>
client == <<formula, held, answer, asked, lost, solves>>
vars == <<clauses, assignment, assumptions, results, pc, i, learning,
          client, restarts>>

-----------------------------------------------------------------------------
(* Values.  The arrays model, level, reason and decisions hold one entry    *)
(* per assigned variable; here they are the fields of the trail.            *)

IsTrue(t, l) == \E k \in DOMAIN t : t[k].lit = l
IsFalse(t, l) == IsTrue(t, -l)
IsUnknown(t, l) == ~IsTrue(t, l) /\ ~IsFalse(t, l)

\* tentativeValue: what bcp has seen of the trail.
Seen == SubSeq(trail, 1, propq)

LevelOf(v) ==
  IF \E k \in DOMAIN trail : VarOf(trail[k].lit) = v
  THEN trail[CHOOSE k \in DOMAIN trail : VarOf(trail[k].lit) = v].level
  ELSE -1

Top == trail[Len(trail)]
TopVar == VarOf(Top.lit)

Entry(l, r) == [lit |-> l, level |-> decisionLevel, reason |-> r,
                decision |-> FALSE]

TrailPush(l, r) ==
  /\ trail' = Append(trail, Entry(l, r))
  /\ UNCHANGED <<decisionLevel, propq, heap, unit_facts>>

TrailPopLevel ==
  /\ trail' = Front(trail)
  /\ UNCHANGED decisionLevel
  /\ propq' = IF propq >= Len(trail) THEN Len(trail) - 1 ELSE propq
  /\ heap' = heap \cup {TopVar}
  /\ facts' = facts \o unit_facts[TopVar]
  /\ unit_facts' = [unit_facts EXCEPT ![TopVar] = <<>>]

TrailPopQueue ==
  /\ trail' = Front(trail)
  /\ decisionLevel' = decisionLevel - (IF Top.decision THEN 1 ELSE 0)
  /\ UNCHANGED propq
  /\ heap' = heap \cup {TopVar}
  /\ facts' = facts \o unit_facts[TopVar]
  /\ unit_facts' = [unit_facts EXCEPT ![TopVar] = <<>>]

TrailPopFacts ==
  /\ trail' = Front(trail)
  /\ decisionLevel' = decisionLevel - (IF Top.decision THEN 1 ELSE 0)
  /\ propq' = IF propq >= Len(trail) THEN Len(trail) - 1 ELSE propq
  /\ heap' = heap \cup {TopVar}
  /\ facts' = facts \o unit_facts[TopVar]
  /\ UNCHANGED unit_facts

\* trailPop with a list that collects the facts of the popped variable.
TrailPop ==
  /\ trail' = Front(trail)
  /\ decisionLevel' = decisionLevel - (IF Top.decision THEN 1 ELSE 0)
  /\ propq' = IF propq >= Len(trail) THEN Len(trail) - 1 ELSE propq
  /\ heap' = heap \cup {TopVar}
  /\ facts' = facts \o unit_facts[TopVar]
  /\ unit_facts' = [unit_facts EXCEPT ![TopVar] = <<>>]

Bottom == Cardinality({k \in DOMAIN trail : trail[k].level = 0})
LevelZero == SubSeq(trail, 1, Bottom)
Above == {VarOf(trail[k].lit) : k \in (Bottom + 1)..Len(trail)}

BacktrackHeap(t, newVars) ==
  /\ trail' = t
  /\ decisionLevel' = 0
  /\ propq' = 0
  /\ heap' = heap \cup newVars
  /\ unit_facts' = [v \in Var |-> IF v \in Above THEN <<>> ELSE unit_facts[v]]

BacktrackQueue(t, newVars) ==
  /\ trail' = t
  /\ decisionLevel' = 0
  /\ propq' = IF propq > Bottom THEN Bottom ELSE propq
  /\ heap' = heap \cup Above \cup newVars
  /\ unit_facts' = [v \in Var |-> IF v \in Above THEN <<>> ELSE unit_facts[v]]

\* backtrack(f, 0, NULL, true), and t the trail afterwards.  The facts of the
\* popped variables go to a list nobody reads.
BacktrackTo(t, newVars) ==
  /\ trail' = t
  /\ decisionLevel' = 0
  /\ propq' = 0
  /\ heap' = heap \cup Above \cup newVars
  /\ unit_facts' = [v \in Var |-> IF v \in Above THEN <<>> ELSE unit_facts[v]]

-----------------------------------------------------------------------------
(* Clauses.                                                                 *)

Swap(d, j, k) == [d EXCEPT ![j] = d[k], ![k] = d[j]]
Least(S) == CHOOSE k \in S : \A j \in S : k <= j
Greatest(S) == CHOOSE k \in S : \A j \in S : j <= k
VarsOf(d) == {VarOf(d[k]) : k \in DOMAIN d}

LitLess(x, y) == VarOf(x) < VarOf(y) \/ (VarOf(x) = VarOf(y) /\ x < y)

\* sortClause, and the loop that drops repeated literals.
IsNormalForm(d, c) ==
  /\ Range(d) = Range(c)
  /\ \A j, k \in DOMAIN d : j < k => LitLess(d[j], d[k])
Tautology(d) == \E j, k \in DOMAIN d : d[j] = -d[k]
NormalForms(c) ==
  {d \in [1..Cardinality(Range(c)) -> Range(c)] : IsNormalForm(d, c)}

\* Moves literals that are not false to the two places that are watched; a
\* literal already in front is not counted.
MakeWatchable(t, d) ==
  LET K == {k \in 2..Len(d) : ~IsFalse(t, d[k])}
      K2 == K \ {Least(K)}
      first == Swap(d, 1, Least(K))
  IN IF K = {} THEN d
     ELSE IF K2 = {} THEN first ELSE Swap(first, 2, Least(K2))

Watcher(d, id) == [cls |-> id, lit |-> IF Len(d) = 2 THEN d[2] ELSE d[1]]
WatchOnce(w, d, id) == [w EXCEPT ![-d[1]] = Append(@, Watcher(d, id))]
Watch(w, d, id) ==
  [w EXCEPT ![-d[1]] = Append(@, Watcher(d, id)), ![-d[2]] = Append(@, Watcher(d, id))]

-----------------------------------------------------------------------------
(* Calls of the interface.                                                  *)

Init ==
  /\ numVars = 0 /\ data = <<>> /\ wlist = [l \in Lit |-> <<>>]
  /\ trail = <<>> /\ decisionLevel = 0 /\ propq = 0 /\ heap = {}
  /\ unit_facts = [v \in Var |-> <<>>]
  /\ assumptions = <<>>
  /\ conflictClause = NULL /\ lastResult = "UNKNOWN"
  /\ pc = "idle" /\ i = 1 /\ restarts = 0
  /\ facts = <<>> /\ uipClause = <<>> /\ count = 0 /\ uipLit = 0
  /\ formula = <<>> /\ held = <<>> /\ answer = "none" /\ asked = {}
  /\ lost = {} /\ solves = 0

\* funcsatResize
Resize(vs) ==
  numVars' = Greatest(vs \cup {numVars})
NewVars == (numVars + 1)..numVars'

\* A unit clause that contradicts level 0 is refused.
RefusesUnitNever(l) == FALSE
RefusesUnit(l) == IsFalse(LevelZero, l)

AddUnit(l, id) ==
  /\ wlist' = wlist
  /\ IF IsUnknown(LevelZero, l)
     THEN /\ trail' = Append(LevelZero, [lit |-> l, level |-> 0, reason |-> id,
                                         decision |-> FALSE])
          /\ unit_facts' = [v \in Var |->
               (IF v = VarOf(l) THEN <<id>> ELSE <<>>)
                 \o (IF v \in Above THEN <<>> ELSE unit_facts[v])]
     ELSE /\ trail' = LevelZero
          /\ unit_facts' = [v \in Var |->
               IF v \in Above THEN <<>> ELSE unit_facts[v]]
  /\ conflictClause' = IF RefusesUnit(l) THEN id ELSE NULL
  /\ decisionLevel' = 0 /\ propq' = 0 /\ heap' = heap \cup Above \cup NewVars

\* The part of funcsatAddClause after funcsatReset and the normalization of
\* the clause, for clause d.
AddNormal(d) ==
  LET id == Len(data) + 1
      w == IF Len(d) > 1 THEN MakeWatchable(LevelZero, d) ELSE d
  IN /\ data' = Append(data, w)
     /\ IF Len(d) = 1 THEN AddUnit(d[1], id)
        ELSE /\ BacktrackTo(LevelZero, NewVars)
             /\ wlist' = IF Len(d) > 1 THEN Watch(wlist, w, id) ELSE wlist
             /\ conflictClause' = IF Len(d) = 0 THEN id ELSE NULL

AddClause(c) ==
  /\ pc = "idle" /\ Len(formula) < MaxClauses
  /\ Resize(VarsOf(c))
  /\ \E d \in NormalForms(c) :
       IF Tautology(d)
       THEN /\ BacktrackTo(LevelZero, NewVars)
            /\ conflictClause' = NULL
            /\ UNCHANGED <<data, wlist>>
       ELSE AddNormal(d)
  /\ lastResult' = IF conflictClause' = NULL THEN "UNKNOWN" ELSE "UNSAT"
  /\ formula' = Append(formula, Range(c))
  /\ answer' = IF conflictClause' = NULL THEN "none" ELSE "UNSAT"
  /\ asked' = Range(held)
  /\ lost' = IF conflictClause' # NULL \/ (Cardinality(Range(c)) = 1 /\ held # <<>>)
             THEN lost \cup {Range(c)} ELSE lost
  /\ UNCHANGED <<assumptions, pc, i, learning, held, solves, restarts>>

RefusesEarly(p) == IsFalse(trail, p)
Refuses(p) == IsFalse(LevelZero, p)

\* What the assumption stack records for p.
RecordedAlways(p) == p
Recorded(p) == IF IsTrue(LevelZero, p) THEN 0 ELSE p

PushAssumption(p) ==
  /\ pc = "idle" /\ Len(held) < MaxAssumptions
  /\ Resize({VarOf(p)})
  /\ IF Refuses(p)
     THEN /\ answer' = "UNSAT" /\ asked' = Range(held) \cup {p}
          /\ UNCHANGED <<assumptions, held>>
     ELSE /\ answer' = "none" /\ asked' = {}
          /\ held' = Append(held, p)
          /\ assumptions' = Append(assumptions, Recorded(p))
  /\ BacktrackTo(IF IsUnknown(LevelZero, p)
                 THEN Append(LevelZero, [lit |-> p, level |-> 0, reason |-> NULL,
                                         decision |-> FALSE])
                 ELSE LevelZero, NewVars)
  /\ UNCHANGED <<data, wlist, results, pc, i, learning, formula,
                 lost, solves, restarts>>

\* trailPop without a list leaves them behind.
CollectedNothing(n) == <<>>
\* The facts of the variables popped above position n of the trail, as trailPop
\* collects them, last one first.
Collected(n) ==
  LET upTo[k \in 0..(Bottom - n)] ==
        IF k = 0 THEN <<>>
        ELSE upTo[k - 1] \o unit_facts[VarOf(trail[Bottom + 1 - k].lit)]
  IN upTo[Bottom - n]

\* restore_facts: units are implied again, other clauses are watched.
Reimply(t, id) ==
  IF Len(data[id]) = 1 /\ IsUnknown(t, data[id][1])
  THEN Append(t, [lit |-> data[id][1], level |-> 0, reason |-> id, decision |-> FALSE])
  ELSE t
Reimplied(t, fs) ==
  LET after[k \in 0..Len(fs)] == IF k = 0 THEN t ELSE Reimply(after[k - 1], fs[k])
  IN after[Len(fs)]
Rewatch(w, id) == IF Len(data[id]) > 1 THEN Watch(w, data[id], id) ELSE w
Rewatched(fs) ==
  LET after[k \in 0..Len(fs)] == IF k = 0 THEN wlist ELSE Rewatch(after[k - 1], fs[k])
  IN after[Len(fs)]

\* funcsatPopAssumptions pops the trail down to each assumption in turn, and
\* returns at once, restoring nothing, at an entry that is 0: a client that pops
\* several has pushed them all, or pops one by one as bitfunc does.
PopAssumptions(num) ==
  /\ pc = "idle" /\ num \in 1..Len(held) /\ num <= Len(assumptions)
  /\ LET size == Len(assumptions)
         zeros == {k \in (size - num + 1)..size : assumptions[k] = 0}
         stop == IF zeros = {} THEN size - num ELSE Greatest(zeros)
         n == IF stop = size THEN Bottom
              ELSE (CHOOSE k \in 1..Bottom : trail[k].lit = assumptions[stop + 1]) - 1
         popped == {VarOf(trail[k].lit) : k \in (n + 1)..Bottom}
         returns == zeros # {}
     IN /\ num = 1 \/ ~returns
        /\ assumptions' = SubSeq(assumptions, 1, IF returns THEN stop - 1 ELSE stop)
        /\ trail' = IF returns THEN SubSeq(trail, 1, n)
                    ELSE Reimplied(SubSeq(trail, 1, n), Collected(n))
        /\ wlist' = IF returns THEN wlist ELSE Rewatched(Collected(n))
        /\ heap' = heap \cup Above \cup popped
        /\ unit_facts' = [v \in Var |-> IF v \in Above \cup popped THEN <<>>
                                       ELSE unit_facts[v]]
  /\ decisionLevel' = 0 /\ propq' = 0
  /\ held' = SubSeq(held, 1, Len(held) - num)
  /\ answer' = "none" /\ asked' = {}
  /\ UNCHANGED <<numVars, data, results, pc, i, learning, formula, lost, solves, restarts>>

\* funcsatSolve up to its loop
Solve ==
  /\ pc = "idle" /\ solves < MaxSolves
  /\ solves' = solves + 1
  /\ asked' = Range(held)
  /\ IF conflictClause # NULL /\ data[conflictClause] = <<>>
     THEN /\ answer' = "UNSAT" /\ lastResult' = "UNSAT"
          /\ UNCHANGED <<assignment, conflictClause, pc, i>>
     ELSE /\ answer' = "none" /\ lastResult' = "UNKNOWN" /\ conflictClause' = NULL
          /\ BacktrackTo(LevelZero, {})
          /\ pc' = "bcp" /\ i' = 1
  /\ UNCHANGED <<clauses, assumptions, learning, formula, held, lost, restarts>>

-----------------------------------------------------------------------------
(* The loop of funcsatSolve.                                                *)

Finish(r) ==
  /\ lastResult' = r /\ answer' = r /\ pc' = "idle"
  /\ UNCHANGED <<formula, held, asked, lost, solves>>

\* bcp, one clause that watches the literal p that became true.  w is its
\* watcher and d the clause with the literal that became false second.
VisitClause ==
  /\ pc = "bcp" /\ propq < Len(trail)
  /\ LET p == trail[propq + 1].lit IN
     /\ i <= Len(wlist[p])
     /\ LET w == wlist[p][i]
            old == data[w.cls]
            d == IF old[1] = -p THEN Swap(old, 1, 2) ELSE old
            kept == [wlist EXCEPT ![p][i].lit = IF old[1] = -p THEN d[1] ELSE @]
            K == {k \in 3..Len(d) : ~IsFalse(trail, d[k])}
            moved == Swap(d, 2, Least(K))
        IN IF IsTrue(trail, w.lit)
           THEN i' = i + 1 /\ UNCHANGED <<data, wlist, assignment, conflictClause, pc>>
           ELSE IF K # {}
           THEN /\ data' = [data EXCEPT ![w.cls] = moved]
                /\ wlist' = [wlist EXCEPT ![p] = RemoveAt(@, i),
                                          ![-moved[2]] = Append(@, Watcher(moved, w.cls))]
                /\ UNCHANGED <<i, assignment, conflictClause, pc>>
           ELSE /\ data' = [data EXCEPT ![w.cls] = d]
                /\ wlist' = kept
                /\ IF IsFalse(trail, d[1])
                   THEN /\ conflictClause' = w.cls /\ pc' = "conflict" /\ i' = 1
                        /\ UNCHANGED assignment
                   ELSE /\ i' = i + 1 /\ UNCHANGED <<conflictClause, pc>>
                        /\ IF IsTrue(trail, d[1]) THEN UNCHANGED assignment
                           ELSE TrailPush(d[1], w.cls)
  /\ UNCHANGED <<numVars, assumptions, lastResult, learning, client, restarts>>

NextLiteral ==
  /\ pc = "bcp" /\ propq < Len(trail) /\ i > Len(wlist[trail[propq + 1].lit])
  /\ propq' = propq + 1 /\ i' = 1
  /\ UNCHANGED <<clauses, trail, decisionLevel, heap, unit_facts, assumptions,
                 results, pc, learning, client, restarts>>

\* isTimeToRestart: a policy may ask for one after any number of conflicts,
\* funcsatLubyRestart only above level 2.
Restart ==
  /\ pc = "bcp" /\ propq = Len(trail) /\ Len(trail) # numVars
  /\ decisionLevel > 2 /\ restarts < MaxRestarts
  /\ restarts' = restarts + 1
  /\ BacktrackTo(LevelZero, {})
  /\ UNCHANGED <<clauses, assumptions, results, pc, i, learning, client>>

Free == {v \in heap : IsUnknown(trail, v)}

\* funcsatMakeDecision: variables leave the heap in the order of their
\* activity until one is unassigned, which is decided false.
Decide ==
  /\ pc = "bcp" /\ propq = Len(trail)
  /\ \E v \in Free, D \in SUBSET (heap \ Free) :
       /\ heap' = heap \ (D \cup {v})
       /\ trail' = Append(trail, [lit |-> -v, level |-> decisionLevel + 1,
                                  reason |-> NULL, decision |-> TRUE])
  /\ decisionLevel' = decisionLevel + 1
  /\ UNCHANGED <<clauses, propq, unit_facts, assumptions, results, pc, i,
                 learning, client, restarts>>

Satisfied ==
  /\ pc = "bcp" /\ propq = Len(trail) /\ Free = {}
  /\ heap' = {}
  /\ Finish("SAT")
  /\ UNCHANGED <<clauses, trail, decisionLevel, propq, unit_facts, assumptions,
                 conflictClause, i, learning, restarts>>

-----------------------------------------------------------------------------
(* analyze_conflict                                                         *)

AtCurrentLevel(d) == Cardinality({k \in DOMAIN d : LevelOf(VarOf(d[k])) = decisionLevel})

StartAnalysis(cls) ==
  /\ uipClause' = data[cls] /\ count' = AtCurrentLevel(data[cls])
  /\ facts' = <<>> /\ uipLit' = 0
  /\ pc' = "resolve"

EndsSearchEarly == pc = "conflict" /\ decisionLevel <= 1
EndsSearch == pc = "conflict" /\ decisionLevel = 0

\* A conflict of bcp below the first decision ends the search.  One that
\* propagateFacts finds makes analyze_conflict call itself.
Conflict ==
  /\ pc \in {"conflict", "analyze"}
  /\ IF EndsSearch
     THEN Finish("UNSAT") /\ UNCHANGED learning
     ELSE StartAnalysis(conflictClause) /\ UNCHANGED <<lastResult, client>>
  /\ UNCHANGED <<clauses, assignment, assumptions, conflictClause, i, restarts>>

HasLitPos(v) == v \in VarsOf(uipClause)

\* The literals of the reason whose variables the clause does not have.
Fresh(reason) ==
  LET upTo[n \in 0..Len(reason)] ==
        IF n = 0 THEN <<>>
        ELSE IF HasLitPos(VarOf(reason[n])) THEN upTo[n - 1]
        ELSE Append(upTo[n - 1], reason[n])
  IN upTo[Len(reason)]

\* resolveWithPos: they are added, and the last literal takes the place of the one
\* resolved on.
ResolventForgets(v, reason) ==
  LET u == uipClause \o SelectSeq(reason, LAMBDA q :
             ~HasLitPos(VarOf(q)) /\ LevelOf(VarOf(q)) # 0)
      k == CHOOSE j \in DOMAIN u : VarOf(u[j]) = v
  IN Front(Swap(u, k, Len(u)))
Resolvent(v, reason) ==
  LET u == uipClause \o Fresh(reason)
      k == CHOOSE j \in DOMAIN u : VarOf(u[j]) = v
  IN Front(Swap(u, k, Len(u)))

\* Popping literals the clause does not mention, wherever findUips does.
SkipsNoRecount == pc \in {"resolve", "learn"}
Skips == pc \in {"resolve", "learn"} \/ (pc = "recount" /\ count = 0)
CanSkipBelow == Skips
CanSkip == Skips /\ (pc # "resolve" => decisionLevel # 0)
SkipLiteral ==
  /\ CanSkip
  /\ trail # <<>> /\ ~HasLitPos(TopVar)
  /\ TrailPop
  /\ UNCHANGED <<clauses, assumptions, results, pc, i, uipClause, count, uipLit, client, restarts>>

ResolveReason ==
  /\ pc = "resolve" /\ trail # <<>> /\ HasLitPos(TopVar) /\ Top.reason # NULL
  /\ TrailPop
  /\ LET u == Resolvent(TopVar, data[Top.reason])
     IN /\ uipClause' = u
        /\ count' = count - 1 + AtCurrentLevel(Fresh(data[Top.reason]))
        /\ pc' = IF u = <<>> THEN "refuted" ELSE "recount"
  /\ UNCHANGED <<clauses, assumptions, results, i, uipLit, client, restarts>>

StopsPast(c) == c <= 0
StopsAt(c) == c <= 1
\* resetLevelCount, and the end of findUips' inner loop.
Recount ==
  /\ pc = "recount"
  /\ count = 0 /\ decisionLevel # 0 => HasLitPos(TopVar)
  /\ count' = IF count = 0 /\ decisionLevel # 0 THEN AtCurrentLevel(uipClause)
              ELSE count
  /\ pc' = IF ~StopsAt(count') THEN "resolve"
           ELSE IF decisionLevel = 0 THEN "refuted" ELSE "learn"
  /\ UNCHANGED <<clauses, assignment, assumptions, results, i, facts, uipClause,
                 uipLit, client, restarts>>

LearnedUnswapped(p) == uipClause
\* The learned clause: first the negation of the literal p that implies it,
\* then the literal of the highest level among the others.
LearnedClause(p) ==
  LET u == uipClause
      k == CHOOSE j \in DOMAIN u : VarOf(u[j]) = VarOf(p)
      first == [Swap(u, 1, k) EXCEPT ![1] = -p]
      Rest == 2..Len(u)
      highest == CHOOSE j \in Rest : \A n \in Rest :
                   LET lj == LevelOf(VarOf(first[j])) ln == LevelOf(VarOf(first[n]))
                   IN lj > ln \/ (lj = ln /\ j <= n)
  IN IF Rest = {} THEN first ELSE Swap(first, 2, highest)

Learn ==
  /\ pc = "learn" /\ trail # <<>> /\ HasLitPos(TopVar)
  /\ data' = Append(data, LearnedClause(Top.lit))
  /\ unit_facts' = [unit_facts EXCEPT ![TopVar] = <<Len(data) + 1>> \o @]
  /\ pc' = IF Top.reason # NULL THEN "resolve" ELSE "undo"
  /\ UNCHANGED <<numVars, wlist, trail, decisionLevel, propq, heap, assumptions,
                 results, i, learning, client, restarts>>

\* The end of findUips: the current level is popped with its decision.
Undo ==
  /\ pc = "undo" /\ trail # <<>>
  /\ TrailPop
  /\ uipLit' = IF uipLit = 0 THEN -Top.lit ELSE uipLit
  /\ IF Top.decision
     THEN pc' = "facts" /\ i' = 1 /\ conflictClause' = NULL
     ELSE UNCHANGED <<pc, i, conflictClause>>
  /\ UNCHANGED <<clauses, assumptions, lastResult, uipClause, count,
                 client, restarts>>

\* findUips found that the assumptions and the formula contradict: the clauses
\* it collected are destroyed, which leaves them empty.
Refuted ==
  /\ pc = "refuted"
  /\ data' = [id \in DOMAIN data |-> IF id \in Range(facts) THEN <<>> ELSE data[id]]
  /\ conflictClause' = NULL /\ facts' = <<>>
  /\ Finish("UNSAT")
  /\ UNCHANGED <<numVars, wlist, assignment, assumptions, i, uipClause, count,
                 uipLit, restarts>>

-----------------------------------------------------------------------------
(* propagateFacts                                                           *)

\* The facts move to the variable they will be collected from next, unless it
\* is at level 0.
AttachTo(v) ==
  /\ unit_facts' = IF v # 0 /\ LevelOf(v) # 0
                   THEN [unit_facts EXCEPT ![v] = @ \o facts] ELSE unit_facts
  /\ facts' = <<>>

FactsDone ==
  /\ pc = "facts" /\ i > Len(facts)
  /\ AttachTo(VarOf(uipLit))
  /\ pc' = "bcp" /\ i' = 1
  /\ UNCHANGED <<clauses, trail, decisionLevel, propq, heap, assumptions, results,
                 uipClause, count, uipLit, client, restarts>>

FactConflict ==
  /\ conflictClause' = facts[i] /\ pc' = "analyze" /\ i' = 1
  /\ AttachTo(IF ~IsUnknown(trail, uipLit) THEN VarOf(uipLit)
              ELSE IF decisionLevel > 0 THEN TopVar ELSE 0)
  /\ UNCHANGED <<data, wlist, trail, decisionLevel, propq, heap>>

\* Fact d implies its first literal, or is in conflict.  Only what bcp has seen
\* counts, but a literal pushed since may be the opposite one.
FactImplies(d) ==
  /\ data' = [data EXCEPT ![facts[i]] = d]
  /\ TrailPush(d[1], facts[i]) /\ i' = i + 1
  /\ UNCHANGED <<wlist, facts, conflictClause, pc>>

FactKept ==
  /\ i' = i + 1
  /\ UNCHANGED <<data, wlist, assignment, facts, conflictClause, pc>>

FactWatched(d) ==
  /\ wlist' = Watch(wlist, d, facts[i]) /\ facts' = RemoveAt(facts, i)
  /\ UNCHANGED <<data, assignment, i, conflictClause, pc>>

ShortFact(d) ==
  CASE d = <<>> \/ IsFalse(trail, d[1]) -> FactConflict
    [] d # <<>> /\ IsTrue(trail, d[1]) -> FactKept
    [] d # <<>> /\ IsUnknown(trail, d[1]) -> FactImplies(d)

LongFact(d) ==
  LET T(l) == IsTrue(Seen, l)
      U(l) == IsUnknown(Seen, l)
      p == d[1]  q == d[2]
  IN CASE (T(p) /\ T(q)) \/ (U(p) /\ U(q)) -> FactWatched(d)
       [] T(p) # T(q) -> FactKept
       [] U(p) /\ IsFalse(Seen, q) ->
            IF IsFalse(trail, p) THEN FactConflict ELSE FactImplies(d)
       [] U(q) /\ IsFalse(Seen, p) ->
            IF IsFalse(trail, q) THEN FactConflict ELSE FactImplies(Swap(d, 1, 2))
       [] IsFalse(Seen, p) /\ IsFalse(Seen, q) -> FactConflict

PropagateFact ==
  /\ pc = "facts" /\ i <= Len(facts)
  /\ LET d == data[facts[i]] IN IF Len(d) < 2 THEN ShortFact(d) ELSE LongFact(d)
  /\ UNCHANGED <<numVars, assumptions, lastResult, uipClause, count, uipLit, client, restarts>>

-----------------------------------------------------------------------------
Calls ==
  \/ \E c \in Inputs \cap Offers(formula) : AddClause(c)
  \/ \E p \in Queries : PushAssumption(p)
  \/ \E num \in 1..MaxAssumptions : PopAssumptions(num)
  \/ Solve

Engine ==
  \/ VisitClause \/ NextLiteral \/ Restart \/ Decide \/ Satisfied
  \/ Conflict \/ SkipLiteral \/ ResolveReason \/ Recount
  \/ Learn \/ Undo \/ Refuted \/ FactsDone \/ PropagateFact

Next == Calls \/ Engine

\* The engine runs to the end of the call: nothing else runs meanwhile.
Spec == Init /\ [][Next]_vars /\ WF_vars(Engine)

-----------------------------------------------------------------------------
TypeOK ==
  /\ numVars \in 0..MaxVar
  /\ data \in Seq(Seq(Lit))
  /\ wlist \in [Lit -> Seq([cls : DOMAIN data, lit : Lit])]
  /\ unit_facts \in [Var -> Seq(DOMAIN data)]
  /\ trail \in Seq([lit : Lit, level : Nat, reason : DOMAIN data \cup {NULL},
                    decision : BOOLEAN])
  /\ decisionLevel \in Nat /\ propq \in 0..Len(trail) /\ heap \subseteq 1..numVars
  /\ assumptions \in Seq(Lit \cup {0})
  /\ conflictClause \in DOMAIN data \cup {NULL}
  /\ lastResult \in {"UNKNOWN", "SAT", "UNSAT"}
  /\ facts \in Seq(DOMAIN data) /\ uipClause \in Seq(Lit)
  /\ i \in Nat \ {0} /\ count \in Nat /\ uipLit \in Lit \cup {0}

Analyzing == {"resolve", "recount", "learn", "refuted"}

\* Every assignment that makes clause c false makes some clause added false.
Implied(c) ==
  \A a \in [Var -> BOOLEAN] :
    Satisfies(a, c) \/ \E d \in Range(formula) : ~Satisfies(a, d)

\* Everything the engine learns follows from the formula alone, whatever is
\* assumed: no learned clause and no step of findUips may depend on an
\* assumption, because clauses outlive assumptions.
LearnedSound ==
  /\ \A id \in DOMAIN data : data[id] # <<>> => Implied(Range(data[id]))
  /\ pc \in Analyzing => Implied(Range(uipClause))

\* The trail is an assignment, and every implied literal is the first of its
\* reason, whose other literals were false before it.  A refutation destroys
\* clauses that are still reasons above level 0, which the next call pops
\* before it looks at a reason.
TrailJustified ==
  \A k \in DOMAIN trail :
    /\ \A j \in 1..(k - 1) : VarOf(trail[j].lit) # VarOf(trail[k].lit)
    /\ trail[k].reason # NULL /\ (pc = "idle" => trail[k].level = 0) =>
         LET d == data[trail[k].reason]
         IN /\ d # <<>> /\ d[1] = trail[k].lit
            /\ \A n \in 2..Len(d) : IsFalse(SubSeq(trail, 1, k - 1), d[n])

\* Levels only grow along the trail, by one at each decision: popping to a
\* decision is popping to a level.
LevelsMatch ==
  /\ decisionLevel = Cardinality({k \in DOMAIN trail : trail[k].decision})
  /\ \A k \in DOMAIN trail :
       trail[k].level = Cardinality({j \in 1..k : trail[j].decision})

\* bcp asserts that a visited clause has the false literal in front: each
\* clause that is watched is in the lists of its first two literals, once.
WatchesMatch ==
  /\ \A l \in Lit : \A n \in DOMAIN wlist[l] :
       LET w == wlist[l][n] d == data[w.cls]
       IN /\ -l \in {d[1], d[2]} /\ w.lit \in Range(d)
          /\ \A m \in DOMAIN wlist[l] : m # n => wlist[l][m].cls # w.cls
          /\ \E m \in DOMAIN wlist[-d[1]] : wlist[-d[1]][m].cls = w.cls
          /\ \E m \in DOMAIN wlist[-d[2]] : wlist[-d[2]][m].cls = w.cls

\* findUips asserts that what it resolves on was implied, and that it stops at
\* one literal of the current level.
CanResolve ==
  /\ pc \in {"resolve", "learn", "undo"} => trail # <<>>
  /\ pc = "resolve" => count >= 1 /\ (HasLitPos(TopVar) => Top.reason # NULL)
  /\ pc = "learn" => AtCurrentLevel(uipClause) = 1

\* A fact collected from a popped variable implies its first literal, which is
\* unassigned, or has nothing assigned that bcp has seen: propagateFacts never
\* finds a conflict, and never pushes a literal twice (trailPush asserts so).
FactsReady ==
  pc = "facts" /\ i <= Len(facts) =>
    LET d == data[facts[i]]
    IN /\ d # <<>>
       /\ Len(d) = 1 => IsUnknown(trail, d[1])
       /\ Len(d) > 1 => \/ IsUnknown(Seen, d[1]) /\ IsUnknown(Seen, d[2])
                        \/ IsUnknown(trail, d[1]) /\ IsFalse(Seen, d[2])

\* Before a decision nothing the formula says is pending: each clause of two or
\* more literals is satisfied or has two literals that are not false.
NothingPending ==
  pc = "bcp" /\ propq = Len(trail) =>
    \A c \in {d \in Range(formula) : Cardinality(d) > 1} :
      \/ \E l \in c : IsTrue(trail, l)
      \/ Cardinality({l \in c : IsUnknown(trail, l)}) >= 2

\* No variable is lost between the heap and the trail, so that an empty heap
\* means a total assignment (funcsatSolve asserts it is one).
HeapCovers == \A v \in 1..numVars : v \in heap \/ ~IsUnknown(trail, v)

\* Between calls the assumptions are what level 0 of the trail was pushed
\* without a reason, in the order they were pushed.
AssumptionsHeld ==
  pc = "idle" =>
    LET Pushed(k) == trail[k].level = 0 /\ trail[k].reason = NULL
    IN /\ \A k \in DOMAIN trail : Pushed(k) =>
            \E n \in DOMAIN assumptions : assumptions[n] = trail[k].lit
       /\ \A n \in DOMAIN assumptions : assumptions[n] # 0 =>
            \E k \in DOMAIN trail :
              /\ Pushed(k) /\ trail[k].lit = assumptions[n]
              /\ \A m \in 1..(n - 1) : assumptions[m] # 0 =>
                   \E j \in 1..(k - 1) : trail[j].lit = assumptions[m]
       /\ \A l \in Range(held) : IsTrue(trail, l)
       /\ Len(assumptions) = Len(held)

\* The answers of funcsat.h: a model of everything added and assumed, or none
\* exists.  The first is only true of a client that stops when a clause is
\* refused and adds no unit clause while it assumes something.
AnswersModel ==
  answer = "SAT" =>
    /\ Len(trail) = numVars
    /\ \A c \in Range(formula) : \E l \in c : IsTrue(trail, l)
    /\ \A l \in asked : IsTrue(trail, l)
SatRight == lost = {} => AnswersModel

UnsatRight ==
  answer = "UNSAT" =>
    ~Consistent(Range(formula), asked)

\* A search never gives back what level 0 established, the assumptions least of
\* all: findUips pops the trail until it finds what the conflict is about, and
\* must stop at level 0 also when that is nothing but assumptions.
LevelZeroKept ==
  [][pc # "idle" => IsPrefix(LevelZero, trail')]_vars

\* The engine is a solver that keeps its promises.
Service == INSTANCE SatService WITH
  Clauses <- {Range(c) : c \in Inputs},
  formula <- Range(formula),
  busy <- pc # "idle"
ServiceSpec == Service!Spec

\* The engine is the incremental solver, also for a client that loses clauses:
\* it says which clauses and assumptions level 0 still stands for.  Root is
\* level 0, each literal with the last assumption pushed at or below it and
\* whether it is a unit clause that will be implied again when it is popped.
AssumedAt(k) ==
  {n \in DOMAIN assumptions : \E j \in 1..k : trail[j].reason = NULL /\ trail[j].lit = assumptions[n]}
UnitOn(k) == \E id \in Range(unit_facts[VarOf(trail[k].lit)]) : data[id] = <<trail[k].lit>>
Root ==
  {[lit |-> trail[k].lit, at |-> Greatest(AssumedAt(k) \cup {0}), unit |-> UnitOn(k)] : k \in 1..Bottom}
Marks ==
  [n \in DOMAIN assumptions |-> Greatest({k \in 1..n : assumptions[k] # 0} \cup {0})]
Interface == INSTANCE Incremental WITH
  Clauses <- {Range(c) : c \in Inputs},
  formula <- Range(formula),
  root <- Root,
  marks <- Marks,
  busy <- pc # "idle"
InterfaceSpec == Interface!Spec

=============================================================================
