------------------------------- MODULE Solving -------------------------------
(***************************************************************************)
(* bitfunc over funcsat: how solve.c gives the graph of a bfman to the     *)
(* solver bit by bit, under assumptions that come and go, and what the     *)
(* client is told.  A call that asks funcsat is a sequence of steps, one   *)
(* per call it makes of funcsat; the graph changes between calls only.     *)
(***************************************************************************)
EXTENDS Incremental, SequencesExt

CONSTANTS
  Fanins,          \* literals a client builds gates on
  Constraints,     \* literals it sets
  MaxInputs,       \* bound: calls of bfNewVar
  MaxOutputs,      \* bound: constraints
  MaxAssumptions,  \* bound: assumptions of a client at once
  MaxVector        \* bound: the longest vector of assumptions

G == INSTANCE Circuits WITH LITERAL_MAX <- MaxVar + 1, ArgsRightToLeft <- TRUE

ASSUME SolvingAssumption ==
  /\ Fanins \subseteq Lit /\ Constraints \subseteq Lit
  /\ {MaxInputs, MaxOutputs, MaxAssumptions, MaxVector} \subseteq Nat

VARIABLES
  man,          \* the graph of the bfman
  assumps,      \* the client's assumptions; 0 for LITERAL_TRUE
  nodes,        \* gates whose flag clausesForThisNodeExists is set
  required,     \* outputs whose flag is set
  aigAssignment,\* input -> value from the last answer; <<>> when cleared
  pc,           \* what the call does next; "idle" between calls
  call,         \* the function called
  questions,    \* the literals it asks about, one after the other
  got,          \* the answers it got
  togo,         \* how many assumptions it still has to pop
  before,       \* history: the assumptions when it began
  written,      \* history: the flags were set without telling funcsat
  solved        \* history: the outputs and assumptions aigAssignment has to satisfy

solver == vars
flags == <<nodes, required, written>>
solution == <<aigAssignment, solved>>
calls == <<pc, call, questions, got, togo, before>>
allVars == <<solver, man, assumps, flags, solution, calls>>

-----------------------------------------------------------------------------
(* Translation.                                                             *)

GateClausesNegated(g) == {{-g.rhs0, -g.rhs1, -g.lhs}, {g.rhs0, -g.lhs}, {g.rhs1, -g.lhs}}

\* The gate's three clauses.
GateClauses(g) == {{-g.rhs0, -g.rhs1, g.lhs}, {g.rhs0, -g.lhs}, {g.rhs1, -g.lhs}}

ConeTop(ls, done) == {g \in man.ands : g.lhs \in {VarOf(l) : l \in ls} \ done}

\* The gates addLitConeOfInfluence reaches from ls without passing through one
\* that is flagged in done.
Cone(ls, done) ==
  LET reached[n \in 0..MaxVar] ==
        IF n = 0 THEN {VarOf(l) : l \in ls}
        ELSE reached[n - 1] \cup
             UNION {{VarOf(g.rhs0), VarOf(g.rhs1)} :
                    g \in {h \in man.ands : h.lhs \in reached[n - 1] \ done}}
  IN {g \in man.ands : g.lhs \in reached[MaxVar] \ done}

Assumed == Range(assumps) \ {0}

-----------------------------------------------------------------------------
(* Calls that only change the graph.                                        *)

Clear ==
  /\ call' = "none" /\ questions' = <<>> /\ got' = <<>> /\ before' = assumps
  /\ UNCHANGED <<pc, togo>>

Graph(m) ==
  /\ pc = "idle" /\ m.numVars <= MaxVar
  /\ man' = m /\ Clear
  /\ UNCHANGED <<solver, assumps, flags, solution>>

bfNewVar == Cardinality(man.inputs) < MaxInputs /\ Graph(G!NewVar(man))
bfNewAnd(a, b) == Graph(G!NewAnd(man, a, b).m)
bfSet(a) == Cardinality(man.outputs) < MaxOutputs /\ Graph(G!Set(man, a))

-----------------------------------------------------------------------------
(* Assumptions.                                                             *)

Refused(p) == p = G!LITERAL_FALSE \/ -p \in RootLits

\* bfPushAssumption
Push(p) ==
  IF p \in G!Constants
  THEN /\ assumps' = IF p = G!LITERAL_TRUE THEN Append(assumps, 0) ELSE assumps
       /\ UNCHANGED solver
  ELSE /\ PushAssumption(p)
       /\ assumps' = IF answer' = "UNSAT" THEN assumps ELSE Append(assumps, p)

PopAlways ==
  /\ assumps' = Front(assumps)
  /\ IF held = <<>> THEN UNCHANGED solver ELSE PopAssumptions(1)

\* What bfPopAssumptions does for one assumption.
Pop ==
  /\ assumps' = Front(assumps)
  /\ IF Last(assumps) = 0 THEN UNCHANGED solver ELSE PopAssumptions(1)

Begin(f, qs, next, pops) ==
  /\ pc = "idle" /\ pc' = next /\ call' = f
  /\ questions' = qs /\ got' = <<>> /\ togo' = pops /\ before' = assumps
  /\ UNCHANGED <<solver, man, assumps, flags, solution>>

\* bfvPushAssumption; bfPushAssumption is the same for one literal.
bfvPushAssumption(ps) ==
  /\ Len(assumps) + Len(ps) <= MaxAssumptions
  /\ Begin("bfvPushAssumption", ps, "push", 0)

PushNext ==
  /\ pc = "push"
  /\ LET n == Len(assumps) - Len(before) IN
     IF n = Len(questions)
     THEN pc' = "idle" /\ UNCHANGED <<solver, assumps, got, togo>>
     ELSE /\ Push(questions[n + 1])
          /\ IF Refused(questions[n + 1])
             THEN /\ got' = <<"UNSAT">> /\ togo' = n
                  /\ pc' = IF n = 0 THEN "idle" ELSE "pop"
             ELSE UNCHANGED <<pc, got, togo>>
  /\ UNCHANGED <<man, flags, solution, call, questions, before>>

bfPopAssumptions(num) ==
  num \in 1..Len(assumps) /\ Begin("bfPopAssumptions", <<>>, "pop", num)

PopNext ==
  /\ pc = "pop" /\ Pop /\ togo' = togo - 1
  /\ pc' = IF togo > 1 THEN "pop"
           ELSE IF call = "bfCheckStatus" /\ Len(got) = 1 THEN "ask" ELSE "idle"
  /\ UNCHANGED <<man, flags, solution, call, questions, got, before>>

-----------------------------------------------------------------------------
(* Questions.                                                               *)

bfSolve == Begin("bfSolve", <<G!LITERAL_TRUE>>, "translate", 0)
bfMayBeTrue(x) == Begin("bfMayBeTrue", <<x>>, "ask", 0)
bfMustBeTrue(x) == Begin("bfMustBeTrue", <<-x>>, "ask", 0)
bfCheckStatus(a) == Begin("bfCheckStatus", <<-a, a>>, "ask", 0)

AskNext ==
  /\ pc = "ask"
  /\ LET p == questions[Len(got) + 1] IN
     /\ Push(p)
     /\ IF Refused(p)
        THEN /\ got' = Append(got, "UNSAT")
             /\ pc' = IF Len(got) + 1 < Len(questions) THEN "ask" ELSE "idle"
        ELSE pc' = "translate" /\ UNCHANGED got
  /\ UNCHANGED <<man, flags, solution, call, questions, togo, before>>

UntranslatedOutputs == man.outputs \ required
Untranslated == Assumed \cup (man.outputs \ required)

\* bfSolve clears the assignment; bfFuncsatSolve adds the cones of the
\* assumptions and of the outputs that are not flagged.
Translate ==
  /\ pc = "translate" /\ pc' = "require"
  /\ LET new == Cone(Untranslated, nodes)
     IN /\ AddLong(UNION {GateClauses(g) : g \in new})
        /\ nodes' = nodes \cup {g.lhs : g \in new}
  /\ aigAssignment' = <<>> /\ solved' = <<>>
  /\ UNCHANGED <<man, assumps, required, written, call, questions, got, togo, before>>

RequireNegated(o) ==
  /\ pc = "require" /\ o \in man.outputs \ required
  /\ AddUnit(o)
  /\ required' = required \cup {o}
  /\ UNCHANGED <<man, assumps, nodes, written, solution, calls>>

\* An output is a unit clause.  Its flag is set whatever funcsat answers.
Require(o) ==
  /\ pc = "require" /\ o \in man.outputs \ required
  /\ AddUnit(-o)
  /\ required' = required \cup {o}
  /\ UNCHANGED <<man, assumps, nodes, written, solution, calls>>

Search ==
  /\ pc = "require" /\ man.outputs \subseteq required
  /\ Solve /\ busy' /\ pc' = "search"
  /\ UNCHANGED <<man, assumps, flags, solution, call, questions, got, togo, before>>

Searching(l) ==
  /\ pc = "search" /\ VarOf(l) \notin {VarOf(k) : k \in RootLits}
  /\ Deduce({l})
  /\ UNCHANGED <<man, assumps, flags, solution, calls>>

AnsweredNoPop(r) ==
  /\ got' = Append(got, r)
  /\ IF call = "bfSolve" \/ r = "UNSAT" THEN pc' = "idle" /\ UNCHANGED togo
     ELSE pc' = "pop" /\ togo' = 1
  /\ UNCHANGED <<man, assumps, flags, call, questions, before>>
Answered(r) ==
  /\ got' = Append(got, r)
  /\ IF call = "bfSolve" THEN pc' = "idle" /\ UNCHANGED togo
     ELSE pc' = "pop" /\ togo' = 1
  /\ UNCHANGED <<man, assumps, flags, call, questions, before>>

\* The inputs get their values from funcsat's model; one that funcsat has not
\* seen is false, here it has any value.
Sat(a) ==
  /\ pc = "search" /\ AnswerSat(a) /\ Answered("SAT")
  /\ aigAssignment' = [v \in man.inputs |-> a[v]]
  /\ solved' = IF lost = {} /\ ~written
               THEN [outputs |-> man.outputs, assumed |-> Assumed]
               ELSE [outputs |-> {}, assumed |-> {}]

Unsat ==
  /\ pc = "search" /\ AnswerUnsat /\ Answered("UNSAT")
  /\ UNCHANGED solution

-----------------------------------------------------------------------------
\* The solver is replaced by a new one, the flags are cleared.
bfResetFuncsat ==
  /\ pc = "idle" /\ assumps = <<>> /\ Clear
  /\ formula' = {} /\ root' = {} /\ held' = <<>> /\ marks' = <<>>
  /\ asked' = {} /\ answer' = "none" /\ lost' = {}
  /\ nodes' = {} /\ required' = {} /\ written' = FALSE
  /\ UNCHANGED <<busy, man, assumps, solution>>

\* bfPrintCNF writes the clauses to a file and flags them like those that went
\* to funcsat, which it only resets.
bfPrintCNF ==
  /\ pc = "idle" /\ Clear
  /\ nodes' = {g.lhs : g \in Cone(Assumed \cup man.outputs, {})}
  /\ required' = man.outputs /\ written' = TRUE
  /\ AddLong({})
  /\ UNCHANGED <<man, assumps, solution>>

-----------------------------------------------------------------------------
SolvingInit ==
  /\ Init
  /\ man = G!EmptyGraph /\ assumps = <<>> /\ nodes = {} /\ required = {}
  /\ aigAssignment = <<>> /\ solved = <<>> /\ written = FALSE
  /\ pc = "idle" /\ call = "none" /\ questions = <<>> /\ got = <<>>
  /\ togo = 0 /\ before = <<>>

Lits == {l \in Lit : VarOf(l) <= man.numVars}
Asking == (Lits \cap Queries) \cup G!Constants
Vectors == UNION {[1..n -> Asking] : n \in 1..MaxVector}

Build ==
  \/ bfNewVar
  \/ \E a, b \in Lits \cap Fanins : bfNewAnd(a, b)
  \/ \E a \in Lits \cap Constraints : bfSet(a)

Assume ==
  \/ \E ps \in Vectors : bfvPushAssumption(ps)
  \/ \E num \in 1..MaxAssumptions : bfPopAssumptions(num)
  \/ PushNext \/ PopNext

Ask ==
  \/ bfSolve
  \/ \E x \in Lits \cap Queries : bfMayBeTrue(x) \/ bfMustBeTrue(x) \/ bfCheckStatus(x)
  \/ AskNext \/ Translate \/ Search
  \/ \E o \in man.outputs : Require(o)
  \/ \E l \in Lit : Searching(l)
  \/ \E a \in ModelsOf({}) : Sat(a)
  \/ Unsat

SolvingNext == Build \/ Assume \/ Ask \/ bfResetFuncsat \/ bfPrintCNF

SolvingSpec == SolvingInit /\ [][SolvingNext]_allVars

-----------------------------------------------------------------------------
Meets(s, ls) == \A l \in ls : G!Val(s, l)

\* The graph has a solution in which the literals ls hold.
Solvable(ls) == \E s \in G!Solutions(man) : Meets(s, ls)
Given == Range(before) \ {0}

\* Each answer "unsatisfiable" of a call is right, whatever happened before.
UnsatAnswers ==
  \A k \in DOMAIN got : got[k] = "UNSAT" =>
    ~Solvable(Given \cup (IF call = "bfvPushAssumption" THEN Range(questions) ELSE {questions[k]}))

\* bitfunc.h promises of bfMayBeTrue that it returns whether there is an
\* assignment with the literal set to true, and alike of the others.
SatAnswersRight ==
  \A k \in DOMAIN got : got[k] = "SAT" => Solvable(Given \cup {questions[k]})

\* It holds as long as constraints were translated before anything was assumed,
\* did not contradict each other, and no flag was set by a call that writes.
SatAnswers == lost = {} /\ ~written => SatAnswersRight

\* The assumptions that were not the constant: those funcsat was given.
PushedOf(s) ==
  LET pushed[n \in 0..Len(s)] ==
        IF n = 0 THEN <<>>
        ELSE IF s[n] = 0 THEN pushed[n - 1] ELSE Append(pushed[n - 1], s[n])
  IN  pushed[Len(s)]

\* The two stacks stay in step, also when a push is refused.
StacksMatch == PushedOf(assumps) = held

\* A flagged gate and all gates below it were given to funcsat: a cone is not
\* walked again below a flagged gate.
ConesTranslated ==
  ~written =>
    \A g \in man.ands : g.lhs \in nodes =>
      /\ GateClauses(g) \subseteq formula
      /\ \A h \in man.ands : h.lhs \in {VarOf(g.rhs0), VarOf(g.rhs1)} => h.lhs \in nodes

\* A question, and a push of a vector that is refused, leave the assumptions as
\* they were.
CallsRestore ==
  /\ pc = "idle"
  /\ \/ call \in {"bfSolve", "bfMayBeTrue", "bfMustBeTrue", "bfCheckStatus"}
     \/ call = "bfvPushAssumption" /\ got # <<>>
  => assumps = before

\* The values of the inputs extend to a solution of what was asked, whatever is
\* built, assumed or popped later.
AssignmentSolves ==
  aigAssignment # <<>> =>
    LET s == G!Eval(man, [v \in man.inputs |-> v \in DOMAIN aigAssignment /\ aigAssignment[v]])
    IN /\ \A o \in solved.outputs : ~G!Val(s, o)
       /\ Meets(s, solved.assumed)

=============================================================================
