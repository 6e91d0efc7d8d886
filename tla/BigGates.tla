------------------------------ MODULE BigGates ------------------------------
(***************************************************************************)
(* The operations of circuits.c on a whole bit vector as functions from a  *)
(* graph: bfBigAnd, bfBigOr, bfBigXor, and bfSetClause, which builds gates *)
(* behind the hash table.  A bit vector is a sequence of literals, the     *)
(* least significant first.                                                *)
(***************************************************************************)
EXTENDS Circuits, SequencesExt

\* What follows a call: F uses the graph and the literals it returned.
After(r, F(_)) == F(r)

\* A loop: Step takes what the steps before it have made and the position.
For(Step(_, _), start, n) ==
  LET after[j \in 0..n] == IF j = 0 THEN start ELSE Step(after[j - 1], j)
  IN  after[n]
ForDown(Step(_, _), start, n) ==
  For(LAMBDA acc, j : Step(acc, n + 1 - j), start, n)

\* litCompare: by variable, the negative literal first.
LitLess(x, y) == \/ VarOf(x) < VarOf(y)
                 \/ VarOf(x) = VarOf(y) /\ x < y

\* eliminateDuplicates: a sorted copy without repetitions.
EliminateDuplicates(bv) == SetToSortSeq(ToSet(bv), LitLess)

Pushed(acc, r) == [m |-> r.m, v |-> Append(acc.v, r.lit)]

\* One pass of the while loop: adjacent pairs become one literal, an odd last
\* one is carried over.
Pass(Gate(_, _, _), m, bv) ==
  After(For(LAMBDA acc, k : Pushed(acc, Gate(acc.m, bv[2 * k - 1], bv[2 * k])),
            [m |-> m, v |-> <<>>], Len(bv) \div 2),
        LAMBDA pairs : IF Len(bv) % 2 = 1 THEN [pairs EXCEPT !.v = Append(@, Last(bv))]
                       ELSE pairs)

\* Passes until one literal is left.
Tree(Gate(_, _, _), m, bv) ==
  After(For(LAMBDA acc, k : IF Len(acc.v) = 1 THEN acc ELSE Pass(Gate, acc.m, acc.v),
            [m |-> m, v |-> bv], Len(bv)),
        LAMBDA root : Result(root.m, root.v[1]))

bfBigAnd(m, bv) ==
  IF bv = <<>> THEN Result(m, LITERAL_TRUE)
  ELSE IF LITERAL_FALSE \in ToSet(bv) THEN Result(m, LITERAL_FALSE)
  ELSE Tree(NewAnd, m, EliminateDuplicates(bv))

bfBigOr(m, bv) ==
  IF bv = <<>> THEN Result(m, LITERAL_FALSE)
  ELSE IF LITERAL_TRUE \in ToSet(bv) THEN Result(m, LITERAL_TRUE)
  ELSE Tree(NewOr, m, EliminateDuplicates(bv))

bfBigXor(m, bv) ==
  IF bv = <<>> THEN Result(m, LITERAL_FALSE) ELSE Tree(NewXor, m, bv)

\* Mutant of ClauseStep: the gate's output is negated once too often.
ClauseStepFlipped(acc, l) ==
  IF acc.done \/ l = LITERAL_FALSE THEN acc
  ELSE IF l = LITERAL_TRUE THEN [acc EXCEPT !.done = TRUE]
  ELSE IF acc.out = LITERAL_FALSE THEN [acc EXCEPT !.out = -l]
  ELSE LET o == acc.m.numVars + 1
       IN  [acc EXCEPT !.m = AddAnd(AuxVar(acc.m), o, -acc.out, -l), !.out = o]

\* add_clause_to_AIG: a chain of gates that bypasses the hash table, one per
\* literal after the first, then one output.  A true literal ends the call with
\* no output; the gates made before it stay.
ClauseStep(acc, l) ==
  IF acc.done \/ l = LITERAL_FALSE THEN acc
  ELSE IF l = LITERAL_TRUE THEN [acc EXCEPT !.done = TRUE]
  ELSE IF acc.out = LITERAL_FALSE THEN [acc EXCEPT !.out = -l]
  ELSE LET o == acc.m.numVars + 1
       IN  [acc EXCEPT !.m = AddAnd(AuxVar(acc.m), o, -acc.out, -l), !.out = -o]

SetClause(m, c) ==
  LET acc == For(LAMBDA a, j : ClauseStep(a, c[j]),
                 [m |-> m, out |-> LITERAL_FALSE, done |-> FALSE], Len(c))
  IN  IF acc.done THEN acc.m
      ELSE [acc.m EXCEPT !.outputs = @ \cup {acc.out}]

=============================================================================
