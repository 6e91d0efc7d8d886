-------------------------------- MODULE Aig ---------------------------------
(***************************************************************************)
(* A bfman as its clients see it while they build a formula: variables,    *)
(* structurally hashed gates, and constraints.  One action per function of *)
(* bitfunc/circuits.h; the graph functions are in Circuits.                *)
(***************************************************************************)
EXTENDS Circuits

CONSTANTS
  MaxVar,        \* bound: the largest variable of a reachable graph
  MaxInputs,     \* bound: calls of bfNewVar
  MaxDemands,    \* bound: constraints a client asks for
  MaxDemandVar,    \* bound: the largest variable of a graph with constraints
  MaxDemandInputs  \* bound: the inputs of a graph with constraints

ASSUME BoundsAssumption ==
  MaxVar \in 0..(LITERAL_MAX - 1) /\ {MaxInputs, MaxDemands, MaxDemandVar, MaxDemandInputs} \subseteq Nat

VARIABLES
  man,           \* the graph of the bfman
  demands        \* history: pairs <<a, b>> the client required to be equal

vars == <<man, demands>>

Bounded(m) == m.numVars <= MaxVar
DemandsFit(m) == m.numVars <= MaxDemandVar /\ Cardinality(m.inputs) <= MaxDemandInputs

Init == man = EmptyGraph /\ demands = {}

bfNewVar ==
  /\ Cardinality(man.inputs) < MaxInputs
  /\ Bounded(NewVar(man))
  /\ demands # {} => DemandsFit(NewVar(man))
  /\ man' = NewVar(man)
  /\ UNCHANGED demands

\* A call that builds gates and constrains nothing.
Build(r) ==
  /\ Bounded(r.m)
  /\ demands # {} => DemandsFit(r.m)
  /\ man' = r.m
  /\ UNCHANGED demands

bfNewAnd(a, b) == Build(NewAnd(man, a, b))
bfNewOr(a, b) == Build(NewOr(man, a, b))
bfNewXor(a, b) == Build(NewXor(man, a, b))
bfNewNand(a, b) == Build(NewNand(man, a, b))
bfNewNor(a, b) == Build(NewNor(man, a, b))
bfNewEqual(a, b) == Build(NewEqual(man, a, b))
bfNewImplies(a, b) == Build(NewImplies(man, a, b))
bfNewSelect(a, b, c) == Build(NewSelect(man, a, b, c))

\* A call that constrains literal a to equal literal b; m is the graph after it.
Demand(m, a, b) ==
  /\ Cardinality(demands) < MaxDemands
  /\ Bounded(m) /\ DemandsFit(m)
  /\ man' = m
  /\ demands' = demands \cup {<<a, b>>}

bfSet(a) == Demand(Set(man, a), a, LITERAL_TRUE)
bfSetEqual(a, b) == Demand(SetEqual(man, a, b), a, b)

\* The constraining form of a gate: o is made equal to it.
Constrain(r, o) == Demand(ConstrainTo(r, o), o, r.lit)

bfAnd(a, b, o) == Constrain(NewAnd(man, a, b), o)
bfOr(a, b, o) == Constrain(NewOr(man, a, b), o)
bfXor(a, b, o) == Constrain(NewXor(man, a, b), o)
bfNand(a, b, o) == Constrain(NewNand(man, a, b), o)
bfNor(a, b, o) == Constrain(NewNor(man, a, b), o)
bfEqual(a, b, o) == Constrain(NewXor(man, a, b), -o)
bfImplies(a, b, o) == Constrain(NewOr(man, -a, b), o)

Gates ==
  \E a, b \in LitsOf(man) :
    \/ bfNewAnd(a, b) \/ bfNewOr(a, b) \/ bfNewXor(a, b)
    \/ bfNewNand(a, b) \/ bfNewNor(a, b) \/ bfNewEqual(a, b)
    \/ bfNewImplies(a, b)
    \/ \E c \in LitsOf(man) : bfNewSelect(a, b, c)

Constraints ==
  /\ DemandsFit(man)
  /\ \E a \in LitsOf(man) :
       \/ bfSet(a)
       \/ \E b \in LitsOf(man) :
            \/ bfSetEqual(a, b)
            \/ \E o \in LitsOf(man) :
                 \/ bfAnd(a, b, o) \/ bfOr(a, b, o) \/ bfXor(a, b, o)
                 \/ bfNand(a, b, o) \/ bfNor(a, b, o) \/ bfEqual(a, b, o)
                 \/ bfImplies(a, b, o)

Next == bfNewVar \/ Gates \/ Constraints

Spec == Init /\ [][Next]_vars

-----------------------------------------------------------------------------
AndGate == [lhs : Var, rhs0 : Lit, rhs1 : Lit]

\* Gates are over proper literals: addAndAiger asserts that no constant reaches
\* it, and no variable is ever numbered like a constant.
TypeOK ==
  /\ man.numVars \in 0..(LITERAL_MAX - 1)
  /\ man.inputs \subseteq Var
  /\ man.ands \subseteq AndGate
  /\ man.andhash \subseteq [a : Lit, b : Lit, o : Var]
  /\ man.outputs \subseteq Lit \cup Constants

\* No gate can reach itself: aiger_check and the lazy evaluation in solve.c
\* follow rhs0 and rhs1 without marking what they visited.  It holds because
\* bfAuxVar numbers a gate after the literals it is built from.
Acyclic ==
  \A g \in man.ands : VarOf(g.rhs0) < g.lhs /\ VarOf(g.rhs1) < g.lhs

\* bitfunc.h promises that no two gates share the same pair of inputs: two
\* calls of bfNewAnd with the same literals, in any order, with any other calls
\* between them, return one gate.
Strashed ==
  \A g, h \in man.ands :
    {g.rhs0, g.rhs1} = {h.rhs0, h.rhs1} => g.lhs = h.lhs

\* Building gates never restricts the inputs and never leaves a gate free:
\* the models of the graph are the valuations solve.c computes from the inputs.
InputsDecide ==
  /\ Models(man) = Evals(man)
  /\ \A s, t \in Models(man) : (\A v \in man.inputs : s[v] = t[v]) => s = t

\* What bfNewAnd would return now, whatever was built before, is the
\* conjunction of its arguments in every model of the resulting graph; the
\* same for the other constructors.
Means(r, Op(_)) == Fits(r.m) => \A s \in Models(r.m) : Val(s, r.lit) = Op(s)

OpsMean ==
  \A a, b \in LitsOf(man) :
    /\ Means(NewAnd(man, a, b), LAMBDA s : Val(s, a) /\ Val(s, b))
    /\ Means(NewOr(man, a, b), LAMBDA s : Val(s, a) \/ Val(s, b))
    /\ Means(NewXor(man, a, b), LAMBDA s : Val(s, a) # Val(s, b))
    /\ Means(NewImplies(man, a, b), LAMBDA s : Val(s, a) => Val(s, b))

\* bfNewSelect is the choice between its arguments.  A constraint leaves the gates
\* alone, so the graphs without one show it.
SelectMeans ==
  man.outputs = {} => \A a, b, c \in LitsOf(man) :
    Means(NewSelect(man, a, b, c),
          LAMBDA s : IF Val(s, a) THEN Val(s, b) ELSE Val(s, c))

Satisfies(s, ds) == \A d \in ds : Val(s, d[1]) = Val(s, d[2])

\* Demands that compare two constants of opposite sign: bfSet answers
\* BF_UNSAT and nothing is recorded.
Refused(d) == {d[1], d[2]} = Constants

\* The outputs record exactly what the client asked for: the solutions of the
\* graph are the models that satisfy every demand bfSet did not refuse.
DemandsRecorded ==
  Solutions(man) =
    {s \in Models(man) : Satisfies(s, {d \in demands : ~Refused(d)})}

=============================================================================
