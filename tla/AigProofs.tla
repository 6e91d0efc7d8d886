------------------------------ MODULE AigProofs -----------------------------
(***************************************************************************)
(* The theorems about Aig: its type invariant, the shape of the graph,     *)
(* what the constructors return, and that constraints are recorded, for    *)
(* every size of literal, bound and argument evaluation order.             *)
(***************************************************************************)
EXTENDS Aig, CircuitsProofs

\* The constraints of the graph say what the client demanded, in every model.
Recorded(m, ds) ==
  \A s : ModelOf(s, m) =>
    (Quiet(s, m) <=> Satisfies(s, {d \in ds : ~Refused(d)}))

\* The invariant of the specification: the graph is well formed and records
\* the demands.
IInv == WF(man) /\ Recorded(man, demands)

\* A graph within the bounds has not run into the constants.
LEMMA BoundedFits ==
  ASSUME NEW m \in Wide, Bounded(m)
  PROVE  Fits(m)
  BY LiteralMaxAssumption, BoundsAssumption DEF Bounded, Fits, Wide

\* The initial states satisfy the invariant.
LEMMA InitInv ==
  ASSUME Init
  PROVE  IInv
<1>1. man = EmptyGraph /\ demands = {}
  BY DEF Init
<1>2. WF(man)
  BY <1>1, LiteralMaxAssumption DEF WF, Graph, Ordered, Hashed, Decided, EmptyGraph
<1>3. Recorded(man, demands)
  BY <1>1 DEF Recorded, Quiet, Satisfies, EmptyGraph
<1>4. QED BY <1>2, <1>3 DEF IInv

\* What every constructor guarantees the caller of the current graph.
Kept(r) ==
  /\ WF(r.m) /\ r.lit \in LitsOf(r.m) /\ LitsOf(man) \subseteq LitsOf(r.m)
  /\ r.m.outputs = man.outputs
  /\ \A s : ModelOf(s, r.m) => ModelOf(s, man)

\* A constructor keeps what the client relies on.
LEMMA GoodKept ==
  ASSUME WF(man), NEW r, Good(man, r), \A s : ModelOf(s, r.m) => ModelOf(s, man)
  PROVE  Kept(r)
  BY LitsGrow DEF Kept, Good, Extends, WF

\* A call that builds gates preserves the invariant.
LEMMA BuildInv ==
  ASSUME IInv, NEW m, WF(m), m.outputs = man.outputs,
         \A s : ModelOf(s, m) => ModelOf(s, man),
         man' = m, demands' = demands
  PROVE  IInv'
<1>1. \A s : ModelOf(s, m) =>
        (Quiet(s, m) <=> Satisfies(s, {d \in demands : ~Refused(d)}))
  BY DEF IInv, Recorded, Quiet
<1>2. QED BY <1>1 DEF IInv, Recorded

\* So does a call that adds the constraint a = b and nothing else.
LEMMA DemandInv ==
  ASSUME IInv, NEW m, WF(m), NEW a, NEW b, Demand(m, a, b),
         \A s : ModelOf(s, m) =>
           /\ ModelOf(s, man)
           /\ Quiet(s, m) <=> /\ Quiet(s, man)
                              /\ {a, b} = Constants \/ Val(s, a) = Val(s, b)
  PROVE  IInv'
<1> DEFINE d == <<a, b>>
           old == {e \in demands : ~Refused(e)}
           new == {e \in demands \cup {d} : ~Refused(e)}
<1>1. man' = m /\ demands' = demands \cup {d}
  BY DEF Demand
<1>2. Refused(d) <=> {a, b} = Constants
  BY DEF Refused
<1>3. ASSUME NEW s
      PROVE  Satisfies(s, new) <=>
               /\ Satisfies(s, old)
               /\ {a, b} = Constants \/ Val(s, a) = Val(s, b)
  <2>1. new = IF {a, b} = Constants THEN old ELSE old \cup {d}
    BY <1>2
  <2>2. d[1] = a /\ d[2] = b
    OBVIOUS
  <2> HIDE DEF d, old, new
  <2>3. CASE {a, b} = Constants
    BY <2>1, <2>3
  <2>4. CASE {a, b} # Constants
    BY <2>1, <2>2, <2>4 DEF Satisfies
  <2>5. QED BY <2>3, <2>4
<1>4. ASSUME NEW s, ModelOf(s, m)
      PROVE  Quiet(s, m) <=> Satisfies(s, new)
  BY <1>3, <1>4 DEF IInv, Recorded
<1>5. QED BY <1>1, <1>4 DEF IInv, Recorded

\* The constraining forms: a gate, then bfSetEqual on it.
LEMMA ConstrainInv ==
  ASSUME IInv, NEW r, Kept(r), NEW o \in LitsOf(man), Constrain(r, o)
  PROVE  IInv'
<1> DEFINE n == SetEqual(r.m, o, r.lit)
<1>1. Demand(n, o, r.lit)
  BY DEF Constrain, ConstrainTo
<1>2. WF(r.m) /\ r.m \in Wide /\ o \in LitsOf(r.m) /\ r.lit \in LitsOf(r.m)
  BY GraphIsWide DEF Kept, WF
<1>3. o \in Int /\ r.lit \in Int
  BY <1>2, GraphIsWide DEF WF
<1>4. Fits(n)
  BY <1>1, <1>2, <1>3, SetEqualGrows, BoundedFits DEF Demand
<1>5. /\ WF(n)
      /\ \A s : ModelOf(s, n) =>
           /\ ModelOf(s, r.m)
           /\ Quiet(s, n) <=> /\ Quiet(s, r.m)
                              /\ {o, r.lit} = Constants \/ Val(s, o) = Val(s, r.lit)
  BY <1>2, <1>4, SetEqualSound
<1>6. \A s : ModelOf(s, n) =>
        /\ ModelOf(s, man)
        /\ Quiet(s, n) <=> /\ Quiet(s, man)
                           /\ {o, r.lit} = Constants \/ Val(s, o) = Val(s, r.lit)
  BY <1>5 DEF Kept, Quiet
<1>7. QED BY <1>1, <1>5, <1>6, DemandInv

\* So does one whose result is negated.
LEMMA KeptNot ==
  ASSUME WF(man), NEW m, NEW l, Fits(m) => Kept(Result(m, l))
  PROVE  /\ Not(Result(m, l)).m = m
         /\ Not(Result(m, l)).lit = -l
         /\ Fits(m) => Kept(Not(Result(m, l)))
<1> DEFINE r == Result(m, l)
<1>1. r.m = m /\ r.lit = l /\ Not(r).m = m /\ Not(r).lit = -l
  BY DEF Not, Result
<1>2. ASSUME Fits(m) PROVE Kept(Not(r))
  <2>1. Kept(r)
    BY <1>2
  <2>2. -l \in LitsOf(m)
    BY <1>1, <2>1, NegLit DEF Kept, WF
  <2>3. QED BY <1>1, <2>1, <2>2 DEF Kept
<1>3. QED BY <1>1, <1>2

\* Each constructor keeps the current graph, unless the variables run out.
LEMMA AllKept ==
  ASSUME WF(man), NEW a \in LitsOf(man), NEW b \in LitsOf(man)
  PROVE  /\ Fits(NewAnd(man, a, b).m) => Kept(NewAnd(man, a, b))
         /\ Fits(NewNand(man, a, b).m) => Kept(NewNand(man, a, b))
         /\ Fits(NewOr(man, a, b).m) => Kept(NewOr(man, a, b))
         /\ Fits(NewNor(man, a, b).m) => Kept(NewNor(man, a, b))
         /\ Fits(NewXor(man, a, b).m) => Kept(NewXor(man, a, b))
         /\ Fits(NewEqual(man, a, b).m) => Kept(NewEqual(man, a, b))
         /\ Fits(NewImplies(man, a, b).m) => Kept(NewImplies(man, a, b))
<1>1. Fits(NewAnd(man, a, b).m) => Kept(NewAnd(man, a, b))
  BY AndSound, GoodKept
<1>2. ASSUME NEW x \in LitsOf(man), NEW y \in LitsOf(man), Fits(NewOr(man, x, y).m)
      PROVE  Kept(NewOr(man, x, y))
  BY <1>2, OrSound, GoodKept
<1>3. Fits(NewXor(man, a, b).m) => Kept(NewXor(man, a, b))
  BY XorSound, GoodKept
<1>4. NewAnd(man, a, b) = Result(NewAnd(man, a, b).m, NewAnd(man, a, b).lit)
  BY NewAndShape
<1>5. NewOr(man, a, b) = Result(NewOr(man, a, b).m, NewOr(man, a, b).lit)
  BY OrShape
<1>6. NewXor(man, a, b) = Result(NewXor(man, a, b).m, NewXor(man, a, b).lit)
  BY XorShape
<1>7. -a \in LitsOf(man)
  BY NegLit DEF WF
<1>8. Fits(NewNand(man, a, b).m) => Kept(NewNand(man, a, b))
  BY <1>1, <1>4, KeptNot DEF NewNand
<1>9. Fits(NewNor(man, a, b).m) => Kept(NewNor(man, a, b))
  BY <1>2, <1>5, KeptNot DEF NewNor
<1>10. Fits(NewEqual(man, a, b).m) => Kept(NewEqual(man, a, b))
  BY <1>3, <1>6, KeptNot DEF NewEqual
<1>11. Fits(NewImplies(man, a, b).m) => Kept(NewImplies(man, a, b))
  BY <1>2, <1>7 DEF NewImplies
<1>12. QED BY <1>1, <1>2, <1>3, <1>8, <1>9, <1>10, <1>11

\* The same counted: the graph a constructor returns is a graph of integers.
LEMMA AllWide ==
  ASSUME WF(man), NEW a \in LitsOf(man), NEW b \in LitsOf(man),
         NEW r \in {NewAnd(man, a, b), NewNand(man, a, b), NewOr(man, a, b),
                    NewNor(man, a, b), NewXor(man, a, b), NewEqual(man, a, b),
                    NewImplies(man, a, b)}
  PROVE  r.m \in Wide /\ r.lit \in Int
<1>1. man \in Wide /\ a \in Int /\ b \in Int
  BY GraphIsWide DEF WF
<1>2. ASSUME NEW x \in Int, NEW y \in Int
      PROVE  /\ NewAnd(man, x, y).m \in Wide /\ NewAnd(man, x, y).lit \in Int
             /\ NewOr(man, x, y).m \in Wide /\ NewOr(man, x, y).lit \in Int
             /\ NewXor(man, x, y).m \in Wide /\ NewXor(man, x, y).lit \in Int
  BY <1>1, ResultsWide
<1>3. ASSUME NEW m \in Wide, NEW l \in Int
      PROVE  Not(Result(m, l)).m \in Wide /\ Not(Result(m, l)).lit \in Int
  BY DEF Not, Result
<1>4. CASE r \in {NewAnd(man, a, b), NewOr(man, a, b), NewXor(man, a, b)}
  BY <1>1, <1>2, <1>4
<1>5. CASE r = NewNand(man, a, b)
  BY <1>1, <1>2, <1>3, <1>5, NewAndShape, SMTT(20) DEF NewNand
<1>6. CASE r = NewNor(man, a, b)
  <2> DEFINE p == NewOr(man, a, b)
  <2>1. r = Not(p) /\ p = Result(p.m, p.lit)
    BY <1>6, OrShape DEF NewNor
  <2>2. p.m \in Wide /\ p.lit \in Int
    BY <1>1, <1>2
  <2> HIDE DEF p
  <2>3. QED BY <1>3, <2>1, <2>2
<1>7. CASE r = NewEqual(man, a, b)
  <2> DEFINE p == NewXor(man, a, b)
  <2>1. r = Not(p) /\ p = Result(p.m, p.lit)
    BY <1>7, XorShape DEF NewEqual
  <2>2. p.m \in Wide /\ p.lit \in Int
    BY <1>1, <1>2
  <2> HIDE DEF p
  <2>3. QED BY <1>3, <2>1, <2>2
<1>8. CASE r = NewImplies(man, a, b)
  <2>1. -a \in Int
    BY <1>1
  <2>2. QED BY <1>1, <1>2, <1>8, <2>1 DEF NewImplies
<1>9. QED BY <1>4, <1>5, <1>6, <1>7, <1>8

\* A gate action.
LEMMA GateInv ==
  ASSUME IInv, NEW r, r.m \in Wide, Fits(r.m) => Kept(r), Build(r)
  PROVE  IInv'
<1>1. Kept(r)
  BY BoundedFits DEF Build
<1>2. QED BY <1>1, BuildInv DEF Build, Kept

\* A constraint action.
LEMMA ConstraintInv ==
  ASSUME IInv, NEW r, r.m \in Wide, r.lit \in Int, Fits(r.m) => Kept(r),
         NEW o \in LitsOf(man), Constrain(r, o)
  PROVE  IInv'
<1> DEFINE n == SetEqual(r.m, o, r.lit)
<1>1. Bounded(n)
  BY DEF Constrain, ConstrainTo, Demand
<1>2. o \in Int
  BY GraphIsWide DEF IInv, WF
<1>3. n \in Wide /\ r.m.numVars <= n.numVars
  BY <1>2, SetEqualGrows
<1>4. Fits(n)
  BY <1>1, <1>3, BoundedFits
<1>5. Fits(r.m)
  BY <1>3, <1>4, LiteralMaxAssumption DEF Fits, Wide
<1>6. QED BY <1>5, ConstrainInv

-----------------------------------------------------------------------------
\* Every call preserves the invariant.
LEMMA StepInv ==
  ASSUME IInv, [Next]_vars
  PROVE  IInv'
<1>0. WF(man) /\ man \in Wide
  BY GraphIsWide DEF IInv, WF
<1>1. CASE bfNewVar
  <2>1. man' = NewVar(man) /\ demands' = demands /\ Bounded(NewVar(man))
    BY <1>1 DEF bfNewVar
  <2>2. NewVar(man) \in Wide
    BY <1>0, NewVarWide
  <2>3. Fits(NewVar(man))
    BY <2>1, <2>2, BoundedFits
  <2>4. QED BY <1>0, <2>1, <2>3, NewVarSound, BuildInv
<1>2. CASE Gates
  <2>1. PICK a \in LitsOf(man), b \in LitsOf(man) :
          \/ bfNewAnd(a, b) \/ bfNewOr(a, b) \/ bfNewXor(a, b)
          \/ bfNewNand(a, b) \/ bfNewNor(a, b) \/ bfNewEqual(a, b)
          \/ bfNewImplies(a, b)
          \/ \E c \in LitsOf(man) : bfNewSelect(a, b, c)
    BY <1>2 DEF Gates
  <2>2. CASE bfNewAnd(a, b)
    BY <1>0, <2>2, AllKept, AllWide, GateInv DEF bfNewAnd
  <2>3. CASE bfNewOr(a, b)
    BY <1>0, <2>3, AllKept, AllWide, GateInv DEF bfNewOr
  <2>4. CASE bfNewXor(a, b)
    BY <1>0, <2>4, AllKept, AllWide, GateInv DEF bfNewXor
  <2>5. CASE bfNewNand(a, b)
    BY <1>0, <2>5, AllKept, AllWide, GateInv DEF bfNewNand
  <2>6. CASE bfNewNor(a, b)
    BY <1>0, <2>6, AllKept, AllWide, GateInv DEF bfNewNor
  <2>7. CASE bfNewEqual(a, b)
    BY <1>0, <2>7, AllKept, AllWide, GateInv DEF bfNewEqual
  <2>8. CASE bfNewImplies(a, b)
    BY <1>0, <2>8, AllKept, AllWide, GateInv DEF bfNewImplies
  <2>9. ASSUME NEW c \in LitsOf(man), bfNewSelect(a, b, c)
        PROVE  IInv'
    <3> DEFINE r == NewSelect(man, a, b, c)
    <3>1. r.m \in Wide
      BY <1>0, GraphIsWide, ResultsWide DEF WF
    <3>2. Fits(r.m) => Kept(r)
      BY <1>0, SelectSound, GoodKept
    <3>3. Build(r)
      BY <2>9 DEF bfNewSelect
    <3>4. QED BY <3>1, <3>2, <3>3, GateInv
  <2>10. QED BY <2>1, <2>2, <2>3, <2>4, <2>5, <2>6, <2>7, <2>8, <2>9
<1>3. CASE Constraints
  <2>1. PICK a \in LitsOf(man) :
          \/ bfSet(a)
          \/ \E b \in LitsOf(man) :
               \/ bfSetEqual(a, b)
               \/ \E o \in LitsOf(man) :
                    \/ bfAnd(a, b, o) \/ bfOr(a, b, o) \/ bfXor(a, b, o)
                    \/ bfNand(a, b, o) \/ bfNor(a, b, o) \/ bfEqual(a, b, o)
                    \/ bfImplies(a, b, o)
    BY <1>3 DEF Constraints
  <2>2. CASE bfSet(a)
    <3>1. Demand(Set(man, a), a, LITERAL_TRUE)
      BY <2>2 DEF bfSet
    <3>2. a = LITERAL_FALSE <=> {a, LITERAL_TRUE} = Constants
      BY LiteralMaxAssumption DEF Constants, LITERAL_TRUE, LITERAL_FALSE
    <3>3. ASSUME NEW s, ModelOf(s, Set(man, a))
          PROVE  /\ ModelOf(s, man)
                 /\ Quiet(s, Set(man, a)) <=>
                      /\ Quiet(s, man)
                      /\ \/ {a, LITERAL_TRUE} = Constants
                         \/ Val(s, a) = Val(s, LITERAL_TRUE)
      <4>1. /\ ModelOf(s, man)
            /\ Quiet(s, Set(man, a)) <=>
                 Quiet(s, man) /\ (a = LITERAL_FALSE \/ Val(s, a))
        BY <1>0, <3>3, SetSound
      <4>2. Val(s, a) \in BOOLEAN
        BY <1>0, <4>1, ValBoolean DEF ModelOf, WF
      <4>3. QED BY <3>2, <4>1, <4>2, ConstantValues
    <3>4. WF(Set(man, a))
      BY <1>0, SetSound
    <3>5. QED BY <3>1, <3>3, <3>4, DemandInv
  <2>3. ASSUME NEW b \in LitsOf(man), bfSetEqual(a, b)
        PROVE  IInv'
    <3>1. Demand(SetEqual(man, a, b), a, b)
      BY <2>3 DEF bfSetEqual
    <3>2. a \in Int /\ b \in Int
      BY <1>0, GraphIsWide DEF WF
    <3>3. Fits(SetEqual(man, a, b))
      BY <1>0, <3>1, <3>2, SetEqualGrows, BoundedFits DEF Demand
    <3>4. QED BY <1>0, <3>1, <3>3, SetEqualSound, DemandInv
  <2>4. ASSUME NEW b \in LitsOf(man), NEW o \in LitsOf(man), bfAnd(a, b, o)
        PROVE  IInv'
    BY <1>0, <2>4, AllKept, AllWide, ConstraintInv DEF bfAnd
  <2>5. ASSUME NEW b \in LitsOf(man), NEW o \in LitsOf(man), bfOr(a, b, o)
        PROVE  IInv'
    BY <1>0, <2>5, AllKept, AllWide, ConstraintInv DEF bfOr
  <2>6. ASSUME NEW b \in LitsOf(man), NEW o \in LitsOf(man), bfXor(a, b, o)
        PROVE  IInv'
    BY <1>0, <2>6, AllKept, AllWide, ConstraintInv DEF bfXor
  <2>7. ASSUME NEW b \in LitsOf(man), NEW o \in LitsOf(man), bfNand(a, b, o)
        PROVE  IInv'
    BY <1>0, <2>7, AllKept, AllWide, ConstraintInv DEF bfNand
  <2>8. ASSUME NEW b \in LitsOf(man), NEW o \in LitsOf(man), bfNor(a, b, o)
        PROVE  IInv'
    BY <1>0, <2>8, AllKept, AllWide, ConstraintInv DEF bfNor
  <2>9. ASSUME NEW b \in LitsOf(man), NEW o \in LitsOf(man), bfEqual(a, b, o)
        PROVE  IInv'
    <3>1. -o \in LitsOf(man)
      BY <1>0, NegLit DEF WF
    <3>2. QED BY <1>0, <2>9, <3>1, AllKept, AllWide, ConstraintInv DEF bfEqual
  <2>10. ASSUME NEW b \in LitsOf(man), NEW o \in LitsOf(man), bfImplies(a, b, o)
         PROVE  IInv'
    <3>1. NewOr(man, -a, b) = NewImplies(man, a, b)
      BY DEF NewImplies
    <3>2. QED BY <1>0, <2>10, <3>1, AllKept, AllWide, ConstraintInv DEF bfImplies
  <2>11. QED BY <2>1, <2>2, <2>3, <2>4, <2>5, <2>6, <2>7, <2>8, <2>9, <2>10
<1>4. CASE UNCHANGED vars
  BY <1>4 DEF vars, IInv
<1>5. QED BY <1>1, <1>2, <1>3, <1>4 DEF Next

\* The invariant holds of every sequence of calls.
THEOREM Invariance == Spec => []IInv
<1>1. Init => IInv
  BY InitInv
<1>2. IInv /\ [Next]_vars => IInv'
  BY StepInv
<1>3. QED BY <1>1, <1>2, PTL DEF Spec

-----------------------------------------------------------------------------
(***************************************************************************)
(* What the invariant says of the properties the runs check                *)
(***************************************************************************)
\* In every reachable graph gates and constraints are over literals the client
\* was given, and the variable counter has not reached the constants.
THEOREM TypeCorrect == Spec => []TypeOK
<1>1. IInv => TypeOK
  BY DEF IInv, WF, Graph, TypeOK, AndGate
<1>2. QED BY <1>1, Invariance, PTL

\* bfAuxVar numbers a gate after its inputs, whatever sequence of calls built
\* the graph: no walk over rhs0 and rhs1 can loop.
THEOREM NoCycles == Spec => []Acyclic
<1>1. IInv => Acyclic
  BY DEF IInv, WF, Ordered, Acyclic
<1>2. QED BY <1>1, Invariance, PTL

\* bfNewAnd never makes two gates of the same pair of inputs.
THEOREM NoDuplicates == Spec => []Strashed
<1>1. ASSUME IInv, NEW g \in man.ands, NEW h \in man.ands,
             {g.rhs0, g.rhs1} = {h.rhs0, h.rhs1}
      PROVE  g.lhs = h.lhs
  <2> DEFINE e == [a |-> g.rhs0, b |-> g.rhs1, o |-> g.lhs]
             f == [a |-> h.rhs0, b |-> h.rhs1, o |-> h.lhs]
  <2>1. e \in man.andhash /\ f \in man.andhash
    BY <1>1 DEF IInv, WF, Hashed
  <2>2. \/ g.rhs0 = h.rhs0 /\ g.rhs1 = h.rhs1
        \/ g.rhs0 = h.rhs1 /\ g.rhs1 = h.rhs0
    BY <1>1
  <2>3. EqualAnd(e, f.a, f.b)
    BY <2>2 DEF EqualAnd
  <2>4. e.o = f.o
    BY <1>1, <2>1, <2>3 DEF IInv, WF, Hashed
  <2>5. QED BY <2>4
<1>2. IInv => Strashed
  BY <1>1 DEF Strashed
<1>3. QED BY <1>2, Invariance, PTL

\* The models of a graph are its valuations that respect the gates.
LEMMA ModelsOf ==
  ASSUME NEW m, NEW s
  PROVE  s \in Models(m) <=> s \in [1..m.numVars -> BOOLEAN] /\ ModelOf(s, m)
  BY DEF Models, ModelOf, Covers

\* Whatever was built before, the literal a constructor returns is the value
\* of its operator on its arguments in every model of the graph it leaves.
THEOREM ConstructorsMean == Spec => []OpsMean
<1>1. ASSUME IInv, NEW a \in LitsOf(man), NEW b \in LitsOf(man)
      PROVE  /\ Means(NewAnd(man, a, b), LAMBDA s : Val(s, a) /\ Val(s, b))
             /\ Means(NewOr(man, a, b), LAMBDA s : Val(s, a) \/ Val(s, b))
             /\ Means(NewXor(man, a, b), LAMBDA s : Val(s, a) # Val(s, b))
             /\ Means(NewImplies(man, a, b), LAMBDA s : Val(s, a) => Val(s, b))
  <2>1. WF(man)
    BY <1>1 DEF IInv
  <2>2. Means(NewAnd(man, a, b), LAMBDA s : Val(s, a) /\ Val(s, b))
    BY <2>1, AndSound, ModelsOf DEF Means
  <2>3. Means(NewOr(man, a, b), LAMBDA s : Val(s, a) \/ Val(s, b))
    BY <2>1, OrSound, ModelsOf DEF Means
  <2>4. Means(NewXor(man, a, b), LAMBDA s : Val(s, a) # Val(s, b))
    BY <2>1, XorSound, ModelsOf DEF Means
  <2>5. Means(NewImplies(man, a, b), LAMBDA s : Val(s, a) => Val(s, b))
    BY <2>1, ImpliesSound, ModelsOf DEF Means
  <2>6. QED BY <2>2, <2>3, <2>4, <2>5
<1>2. IInv => OpsMean
  BY <1>1 DEF OpsMean
<1>3. QED BY <1>2, Invariance, PTL

\* bfNewSelect(m, a, b, c) is b where a holds and c elsewhere, in every model of
\* the graph it leaves.
THEOREM SelectIsChoice == Spec => []SelectMeans
<1>1. ASSUME IInv, NEW a \in LitsOf(man), NEW b \in LitsOf(man), NEW c \in LitsOf(man)
      PROVE  Means(NewSelect(man, a, b, c),
                   LAMBDA s : IF Val(s, a) THEN Val(s, b) ELSE Val(s, c))
  BY <1>1, SelectSound, ModelsOf DEF Means, IInv
<1>2. IInv => SelectMeans
  BY <1>1 DEF SelectMeans
<1>3. QED BY <1>2, Invariance, PTL

\* Building gates leaves every input free and no gate: the models of the graph
\* are the valuations solve.c computes from the inputs, one for each choice of
\* input values.
THEOREM InputsAreFree == Spec => []InputsDecide
<1>1. ASSUME WF(man), NEW s \in Models(man)
      PROVE  s \in Evals(man)
  <2> DEFINE i == [v \in man.inputs |-> s[v]]
             e == Eval(man, i)
  <2>1. s \in [1..man.numVars -> BOOLEAN] /\ ModelOf(s, man)
    BY <1>1, ModelsOf
  <2>2. \A v \in man.inputs : v \in 1..man.numVars
    BY <1>1, LiteralMaxAssumption DEF WF, Graph, Ordered, Var
  <2>3. i \in [man.inputs -> BOOLEAN] /\ \A v \in man.inputs : i[v] = s[v]
    BY <2>1, <2>2
  <2> HIDE DEF i
  <2>4. e \in [1..man.numVars -> BOOLEAN]
    BY <1>1, <2>3, EvalIsModel
  <2>5. ModelOf(s, man) /\ ModelOf(e, man) /\ \A v \in man.inputs : e[v] = s[v]
    BY <1>1, <2>1, <2>3, EvalIsModel
  <2> HIDE DEF e
  <2>6. \A v \in 1..man.numVars : e[v] = s[v]
    BY <1>1, <2>5, ModelsAgree
  <2>7. s \in [1..man.numVars -> BOOLEAN]
    BY <2>1
  <2>8. e = s
    <3>1. PICK S, T : S = 1..man.numVars /\ T = BOOLEAN
      OBVIOUS
    <3>2. e \in [S -> T] /\ s \in [S -> T] /\ \A v \in S : e[v] = s[v]
      BY <2>4, <2>6, <2>7, <3>1, Zenon
    <3>3. QED BY ONLY <3>2
  <2>9. QED BY <2>3, <2>8 DEF e, Evals
<1>2. ASSUME WF(man), NEW e \in Evals(man)
      PROVE  e \in Models(man)
  <2>1. PICK i \in [man.inputs -> BOOLEAN] : e = Eval(man, i)
    BY DEF Evals
  <2>2. \A v \in man.inputs : i[v] \in BOOLEAN
    OBVIOUS
  <2>3. e \in [1..man.numVars -> BOOLEAN] /\ ModelOf(e, man)
    BY <1>2, <2>1, <2>2, EvalIsModel
  <2>4. QED BY <2>3, ModelsOf
<1>3. ASSUME WF(man), NEW s \in Models(man), NEW t \in Models(man),
             \A v \in man.inputs : s[v] = t[v]
      PROVE  s = t
  <2>1. s \in [1..man.numVars -> BOOLEAN] /\ t \in [1..man.numVars -> BOOLEAN]
    BY <1>3, ModelsOf
  <2>2. ModelOf(s, man) /\ ModelOf(t, man)
    BY <1>3, ModelsOf
  <2>3. \A v \in 1..man.numVars : s[v] = t[v]
    BY <1>3, <2>2, ModelsAgree
  <2>4. PICK S, T : S = 1..man.numVars /\ T = BOOLEAN
    OBVIOUS
  <2>5. s \in [S -> T] /\ t \in [S -> T] /\ \A v \in S : s[v] = t[v]
    BY <2>1, <2>3, <2>4, Zenon
  <2>6. QED BY ONLY <2>5
<1>4. WF(man) => Models(man) = Evals(man)
  BY <1>1, <1>2
<1>5. IInv => InputsDecide
  BY <1>3, <1>4 DEF InputsDecide, IInv
<1>6. QED BY <1>5, Invariance, PTL

\* The constraints of the graph say what the client demanded, no more and, but
\* for what bfSet answered BF_UNSAT to, no less.
THEOREM NothingLost == Spec => []DemandsRecorded
<1>1. ASSUME IInv
      PROVE  DemandsRecorded
  <2> DEFINE ds == {d \in demands : ~Refused(d)}
  <2>1. \A s : s \in Solutions(man) <=> s \in Models(man) /\ Quiet(s, man)
    BY DEF Solutions, Quiet
  <2>2. \A s : s \in Models(man) => (Quiet(s, man) <=> Satisfies(s, ds))
    BY <1>1, ModelsOf DEF IInv, Recorded
  <2>3. \A s : s \in Solutions(man) <=> s \in Models(man) /\ Satisfies(s, ds)
    BY <2>1, <2>2
  <2>4. Solutions(man) \subseteq Models(man)
    BY DEF Solutions
  <2>5. QED BY <2>3, <2>4 DEF DemandsRecorded
<1>2. IInv => DemandsRecorded
  BY <1>1
<1>3. QED BY <1>2, Invariance, PTL

=============================================================================
