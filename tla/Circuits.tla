------------------------------ MODULE Circuits ------------------------------
(***************************************************************************)
(* The And-Inverter Graph a bfman keeps, and the gate constructors of      *)
(* circuits.c as functions from a graph to a graph and a literal.          *)
(*                                                                         *)
(* A literal is a variable or its negation (an integer and its opposite),  *)
(* or one of the two constants, the largest literal and its opposite       *)
(* (types.h).  A graph is a record:                                        *)
(*   numVars  the last variable handed out                                 *)
(*   inputs   the variables made by bfNewVar                               *)
(*   ands     the gates, lhs = rhs0 /\ rhs1                                *)
(*   andhash  the hash table of gates, from the pair <<a, b>> to o         *)
(*   outputs  the literals that must be false (bfSet(a) adds -a)           *)
(***************************************************************************)
EXTENDS Integers, FiniteSets

CONSTANTS
  LITERAL_MAX,       \* the largest literal
  ArgsRightToLeft    \* the build evaluates call arguments right to left (C leaves it open)

ASSUME LiteralMaxAssumption == LITERAL_MAX \in Nat \ {0}
ASSUME ArgsAssumption == ArgsRightToLeft \in BOOLEAN

LITERAL_TRUE == LITERAL_MAX
LITERAL_FALSE == -LITERAL_MAX

Constants == {LITERAL_TRUE, LITERAL_FALSE}
Var == 1..(LITERAL_MAX - 1)
Lit == Var \cup {-v : v \in Var}

VarOf(l) == IF l < 0 THEN -l ELSE l

EmptyGraph ==
  [numVars |-> 0, inputs |-> {}, ands |-> {}, andhash |-> {}, outputs |-> {}]

\* The literals a client of graph m can hold.
LitsOf(m) == Constants \cup {l \in Lit : VarOf(l) <= m.numVars}

\* The variable counter has not run into the constants.
Fits(m) == m.numVars < LITERAL_MAX

Result(m, l) == [m |-> m, lit |-> l]
Not(r) == [r EXCEPT !.lit = -@]

-----------------------------------------------------------------------------
(***************************************************************************)
(* Allocation: inputs are variables and inputs of the AIG, auxiliary       *)
(* variables name gates.                                                   *)
(***************************************************************************)
NewVar(m) ==
  [m EXCEPT !.numVars = @ + 1, !.inputs = @ \cup {m.numVars + 1}]

\* Mutants of AuxVar: no new variable; an input instead of an auxiliary one.
AuxVarStuck(m) == m
AuxVarInput(m) == NewVar(m)

AuxVar(m) == [m EXCEPT !.numVars = @ + 1]

AddAnd(m, o, a, b) ==
  [m EXCEPT !.ands = @ \cup {[lhs |-> o, rhs0 |-> a, rhs1 |-> b]}]

HashInsert(m, o, a, b) ==
  [m EXCEPT !.andhash = @ \cup {[a |-> a, b |-> b, o |-> o]}]

\* Mutant of EqualAnd: the order of the inputs matters.
EqualAndOrdered(e, a, b) == e.a = a /\ e.b = b

\* equal_and: the order of the two inputs does not matter.
EqualAnd(e, a, b) == \/ e.a = a /\ e.b = b
                     \/ e.a = b /\ e.b = a

Found(m, a, b) == {e \in m.andhash : EqualAnd(e, a, b)}

-----------------------------------------------------------------------------
(***************************************************************************)
(* bfNewAnd: local simplification, then the gate of the hash table, then a *)
(* new gate.                                                               *)
(***************************************************************************)
\* Mutant of AndSimplifies: constants reach the gate.
AndSimplifiesEqual(a, b) == a = b \/ a = -b

AndSimplifies(a, b) == \/ a \in Constants \/ b \in Constants
                       \/ a = b \/ a = -b

AndSimplified(a, b) ==
  IF a = LITERAL_TRUE \/ a = b THEN b
  ELSE IF b = LITERAL_TRUE THEN a
  ELSE LITERAL_FALSE

NewGate(m, a, b) ==
  LET o == m.numVars + 1
  IN  Result(AddAnd(HashInsert(AuxVar(m), o, a, b), o, a, b), o)

NewAnd(m, a, b) ==
  IF AndSimplifies(a, b) THEN Result(m, AndSimplified(a, b))
  ELSE IF Found(m, a, b) # {}
       THEN Result(m, (CHOOSE e \in Found(m, a, b) : TRUE).o)
       ELSE NewGate(m, a, b)

OrSimplified(a, b) ==
  IF a = LITERAL_FALSE \/ a = b THEN b
  ELSE IF b = LITERAL_FALSE THEN a
  ELSE LITERAL_TRUE

NewOr(m, a, b) ==
  IF AndSimplifies(a, b) THEN Result(m, OrSimplified(a, b))
  ELSE Not(NewAnd(m, -a, -b))

\* bfNewAnd(m, -bfNewAnd(m, a, b), -bfNewAnd(m, c, d)): the two inner calls run
\* in the order the build evaluates arguments.
AndOfNands(m, a, b, c, d) ==
  LET left1  == NewAnd(m, a, b)
      right1 == NewAnd(left1.m, c, d)
      right2 == NewAnd(m, c, d)
      left2  == NewAnd(right2.m, a, b)
  IN  IF ArgsRightToLeft
      THEN NewAnd(left2.m, -left2.lit, -right2.lit)
      ELSE NewAnd(right1.m, -left1.lit, -right1.lit)

\* Mutant of XorSimplified: the polarity of equal inputs.
XorSimplifiedFlipped(a, b) ==
  IF a \in Constants THEN IF a = LITERAL_FALSE THEN b ELSE -b
  ELSE IF b \in Constants THEN IF b = LITERAL_FALSE THEN a ELSE -a
  ELSE IF a = b THEN LITERAL_TRUE ELSE LITERAL_FALSE

XorSimplified(a, b) ==
  IF a \in Constants THEN IF a = LITERAL_FALSE THEN b ELSE -b
  ELSE IF b \in Constants THEN IF b = LITERAL_FALSE THEN a ELSE -a
  ELSE IF a = b THEN LITERAL_FALSE ELSE LITERAL_TRUE

NewXor(m, a, b) ==
  IF AndSimplifies(a, b) THEN Result(m, XorSimplified(a, b))
  ELSE AndOfNands(m, a, b, -a, -b)

NewNand(m, a, b) == Not(NewAnd(m, a, b))
NewNor(m, a, b) == Not(NewOr(m, a, b))
NewEqual(m, a, b) == Not(NewXor(m, a, b))
NewImplies(m, a, b) == NewOr(m, -a, b)

\* Mutant of NewSelect: the condition of the last branch is not negated.
NewSelectSameBranch(m, a, b, c) ==
  IF a = LITERAL_TRUE THEN Result(m, b)
  ELSE IF a = LITERAL_FALSE \/ b = c THEN Result(m, c)
  ELSE Not(AndOfNands(m, a, b, a, c))

\* a ? b : c
NewSelect(m, a, b, c) ==
  IF a = LITERAL_TRUE THEN Result(m, b)
  ELSE IF a = LITERAL_FALSE \/ b = c THEN Result(m, c)
  ELSE Not(AndOfNands(m, a, b, -a, c))

-----------------------------------------------------------------------------
(***************************************************************************)
(* Constraints.  bfSet records an output unless the literal is a constant; *)
(* on the false constant it only returns BF_UNSAT.                         *)
(***************************************************************************)
Set(m, a) ==
  IF a \in Constants THEN m ELSE [m EXCEPT !.outputs = @ \cup {-a}]

\* Mutant of SetEqual: only one of the two implications.
SetEqualOneWay(m, a, b) ==
  LET r == NewOr(m, a, -b) IN Set(r.m, r.lit)

\* bfSetEqual drops the results of its two bfSet calls.
SetEqual(m, a, b) ==
  LET r1 == NewOr(m, a, -b)
      m1 == Set(r1.m, r1.lit)
      r2 == NewOr(m1, -a, b)
  IN  Set(r2.m, r2.lit)

\* bfAnd, bfOr, bfXor, bfNand, bfNor, bfEqual, bfImplies constrain o to be the
\* value of a gate.
ConstrainTo(r, o) == SetEqual(r.m, o, r.lit)

-----------------------------------------------------------------------------
(***************************************************************************)
(* Meaning: a valuation is a model of the graph when every gate is the     *)
(* conjunction of its inputs.                                              *)
(***************************************************************************)
Val(s, l) ==
  IF l \in Constants THEN l = LITERAL_TRUE
  ELSE IF l > 0 THEN s[l] ELSE ~s[-l]

Respects(s, m) ==
  \A g \in m.ands : s[g.lhs] = (Val(s, g.rhs0) /\ Val(s, g.rhs1))

\* The value of every variable under inputs i: bf_get_assignment_lazily.
Eval(m, i) ==
  LET e[v \in 1..m.numVars] ==
        IF v \in m.inputs THEN i[v]
        ELSE LET g == CHOOSE g \in m.ands : g.lhs = v
             IN  Val(e, g.rhs0) /\ Val(e, g.rhs1)
  IN  e

Evals(m) == {Eval(m, i) : i \in [m.inputs -> BOOLEAN]}

Models(m) == {s \in [1..m.numVars -> BOOLEAN] : Respects(s, m)}

\* The models in which every output is false.  An output that is itself the
\* false constant stands for the empty clause (bfFuncsatSolve drops the constant
\* from the clause it makes of the output), so nothing satisfies it.
Solutions(m) ==
  {s \in Models(m) : \A o \in m.outputs : o \notin Constants /\ ~Val(s, o)}

=============================================================================
