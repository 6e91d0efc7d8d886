--------------------------------- MODULE Cnf ---------------------------------
(***************************************************************************)
(* Literals, clauses and their models, shared by the solver modules.  A    *)
(* variable is a positive number and a literal a variable or its negation, *)
(* as in funcsat.h.                                                        *)
(***************************************************************************)
EXTENDS Integers, FiniteSets

CONSTANT MaxVar   \* bound: variables are 1..MaxVar

ASSUME MaxVarAssumption == MaxVar \in Nat \ {0}

Var == 1..MaxVar
Lit == {l \in -MaxVar..MaxVar : l # 0}
VarOf(l) == IF l < 0 THEN -l ELSE l

\* Literal l, and clause c, a set of literals, hold in the assignment a of Var to
\* BOOLEAN.
Holds(a, l) == IF l > 0 THEN a[l] ELSE ~a[-l]
Satisfies(a, c) == \E l \in c : Holds(a, l)

ModelsOf(fs) == {a \in [Var -> BOOLEAN] : \A c \in fs : Satisfies(a, c)}

\* Some model of the clauses fs makes every literal of ls true.
Consistent(fs, ls) == \E a \in ModelsOf(fs) : \A l \in ls : Holds(a, l)

=============================================================================
